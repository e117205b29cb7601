------------------------------ MODULE MCFish ------------------------------
(* Frames and calls for Fish.                                               *)
EXTENDS Fish, SequencesExt

\* A file that is not there, every text of up to two characters, and longer ones
\* with short, blank and missing rows.
X == 120
ShortTexts == {NoFile} \cup SeqOf({X, BLANK, NL}, 2)
                \cup {<<NL, NL, X>>, <<NL, BLANK, X, NL>>}

Blinker(loc, on, off, n, m) ==
    [location |-> loc, on_char |-> on, off_char |-> off, on_length |-> n,
     off_length |-> m]

\* On a frame's cell, so that two characters share it.
ExtraBlinker == Blinker(5, 73, 77, 3, 2)

\* Two cells and one outside the screen; lengths 0, 1, and with WORD = 4 the first
\* two that have the sign bit.
SomeBlinkers == {Blinker(1, 65, 66, 1, 2), Blinker(2, 67, 68, 0, 3),
                 Blinker(9, 65, 66, 1, 1)}
SomeSites == {1, 2}
SomeSyncs == {<<1, 2>>}

\* A structure at the location that marks a free one.
ZeroBlinkers == {Blinker(0, 65, 66, 1, 1), Blinker(1, 67, 68, 1, 1)}

=============================================================================
