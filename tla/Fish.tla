-------------------------------- MODULE Fish --------------------------------
(***************************************************************************)
(* The fish demo (fish.c): main reads two frames into the blink list,      *)
(* animates them by the clock, adds, synchronises and removes a character, *)
(* and ends.  A second client makes the calls in any order, as a program   *)
(* linked with blink.S may.  A step of the waiting loops is a read of the  *)
(* clock (Rtc) with the tasklet after it.                                  *)
(***************************************************************************)
EXTENDS Blink

CONSTANTS
    COLS,       \* columns of the screen (80)
    OFFSET,     \* where a frame starts in its row (40)
    WAIT,       \* ticks of a waiting loop (200)
    FRAME_LEN,  \* on_length and off_length of a frame's characters (15)
    Extra,      \* the character main adds
    Texts,      \* contents of frame files, or NoFile
    Blinkers,   \* what the other client adds
    Sites,      \* locations the other client names
    Syncs       \* pairs of locations it synchronises

ASSUME FishAssumption ==
    /\ COLS \in Nat \ {0} /\ OFFSET \in Nat \ {0}
    /\ WAIT \in Nat \ {0} /\ FRAME_LEN \in Nat \ {0}

VARIABLES
    fpc,      \* where main is, or "any" for the other client
    frame,    \* the contents of frame0.txt and frame1.txt
    pos,      \* file positions
    c,        \* c0 and c1
    eof,      \* eof0 and eof1
    row, col, i

reader == <<pos, c, eof, row, col>>
vars == <<blink, fpc, frame, reader, i>>

NL == 10
NoFile == <<-1>>
K == {0, 1}

Init ==
    /\ BlinkInit
    /\ fpc \in {"frames", "any"}
    /\ frame \in [K -> IF fpc = "any" THEN {<<>>} ELSE Texts]
    /\ pos = [k \in K |-> 0]
    /\ c = [k \in K |-> 48]
    /\ eof = [k \in K |-> FALSE]
    /\ row = 0
    /\ col = 0
    /\ i = 0

-----------------------------------------------------------------------------
(* add_frames.                                                              *)

Opened == \A k \in K : frame[k] # NoFile

\* The program halts if a frame cannot be opened.
FramesMissing ==
    /\ fpc = "frames"
    /\ ~Opened
    /\ fpc' = "done"
    /\ UNCHANGED <<blink, frame, reader, i>>

\* A round of the inner loop reads a character of each frame whose row has not
\* ended; the end of a file ends its row.
Rest(k) == c[k] # NL
AtEnd(k) == Rest(k) /\ pos[k] = Len(frame[k])
NewChar(k) == IF Rest(k) /\ ~AtEnd(k) THEN frame[k][pos[k] + 1] ELSE NL
ReadBoth ==
    /\ fpc = "frames"
    /\ Opened
    /\ pos' = [k \in K |-> IF Rest(k) /\ ~AtEnd(k) THEN pos[k] + 1 ELSE pos[k]]
    /\ eof' = [k \in K |-> eof[k] \/ AtEnd(k)]
    /\ UNCHANGED <<frame, i>>

\* Mutant: a row goes on only while both frames have characters.
FrameRowShort ==
    /\ ReadBoth
    /\ \E k \in K : NewChar(k) = NL
    /\ c' = [k \in K |-> IF eof'[k] THEN NL ELSE 48]
    /\ row' = row + 1
    /\ col' = 0
    /\ fpc' = IF \A k \in K : eof'[k] THEN "wait1" ELSE "frames"
    /\ UNCHANGED blink

\* The row has ended in both; a frame at its end is closed, the other goes on.
FrameRow ==
    /\ ReadBoth
    /\ \A k \in K : NewChar(k) = NL
    /\ c' = [k \in K |-> IF eof'[k] THEN NL ELSE 48]
    /\ row' = row + 1
    /\ col' = 0
    /\ fpc' = IF \A k \in K : eof'[k] THEN "wait1" ELSE "frames"
    /\ UNCHANGED blink

Shown(char) == IF char = NL THEN BLANK ELSE char
FrameBlinker ==
    [location |-> row * COLS + col + OFFSET,
     on_char |-> Shown(NewChar(0)), off_char |-> Shown(NewChar(1)),
     on_length |-> FRAME_LEN, off_length |-> FRAME_LEN]

\* A cell of the frames; one that is blank in both is left alone.
FrameCell ==
    /\ ReadBoth
    /\ \E k \in K : NewChar(k) # NL
    /\ c' = [k \in K |-> NewChar(k)]
    /\ col' = col + 1
    /\ IF \E k \in K : NewChar(k) \notin {BLANK, NL}
       THEN mp1_ioctl_add(FrameBlinker) \/ AddFail(FrameBlinker)
       ELSE UNCHANGED blink
    /\ UNCHANGED <<row, fpc>>

-----------------------------------------------------------------------------
(* main.                                                                    *)

Wait(label, n) ==
    /\ fpc = label
    /\ i < n
    /\ i' = i + 1
    /\ mp1_rtc_tasklet
    /\ UNCHANGED <<fpc, frame, reader>>

Waits == \/ \E label \in {"wait1", "wait2", "wait3"} : Wait(label, WAIT)
         \/ Wait("wait4", SCREEN)

Waited(label, n, next) ==
    /\ fpc = label
    /\ i = n
    /\ i' = 0
    /\ fpc' = next
    /\ UNCHANGED <<frame, reader>>

MainAdd == Waited("wait1", WAIT, "wait2") /\ (mp1_ioctl_add(Extra) \/ AddFail(Extra))

MainSync ==
    /\ Waited("wait2", WAIT, "wait3")
    /\ mp1_ioctl_sync(OFFSET, Extra.location) \/ SyncFail(OFFSET, Extra.location)

\* The loop counter is passed as the location to remove.
MainRemove == Waited("wait3", WAIT, "wait4") /\ (mp1_ioctl_remove(i) \/ RemoveFail(i))

\* Mutant: the last loop starts again.
MainAgain == Waited("wait4", SCREEN, "wait4") /\ UNCHANGED blink

MainEnd == Waited("wait4", SCREEN, "done") /\ UNCHANGED blink

MainStep == \/ FramesMissing \/ FrameRow \/ FrameCell \/ Waits
            \/ MainAdd \/ MainSync \/ MainRemove \/ MainEnd

\* The other client.
AnyStep ==
    /\ fpc = "any"
    /\ \/ \E b \in Blinkers : mp1_ioctl_add(b) \/ AddFail(b)
       \/ \E loc \in Sites : \/ mp1_ioctl_remove(loc) \/ RemoveFail(loc)
                             \/ mp1_ioctl_find(loc) \/ FindFail(loc)
       \/ \E p \in Syncs : mp1_ioctl_sync(p[1], p[2]) \/ SyncFail(p[1], p[2])
       \/ mp1_rtc_tasklet
    /\ UNCHANGED <<fpc, frame, reader, i>>

Next == MainStep \/ AnyStep

\* The program keeps running, and every read of the clock returns (Rtc).
Spec == Init /\ [][Next]_vars /\ WF_vars(MainStep)

-----------------------------------------------------------------------------
(* Properties.                                                              *)

\* Where the n-th character of a text belongs on the screen.
Breaks(text, n) == {m \in 1 .. n - 1 : text[m] = NL}
CellOf(text, n) ==
    COLS * Cardinality(Breaks(text, n)) + OFFSET + n - 1 - Max({0} \cup Breaks(text, n))

\* The picture of a frame file, blank where it has no character.
Picture(k, cell) ==
    LET at == {n \in 1 .. Len(frame[k]) : frame[k][n] # NL /\ CellOf(frame[k], n) = cell}
    IN IF at = {} THEN BLANK ELSE frame[k][Min(at)]

DrawnCells == {cell \in Cells : \E k \in K : Picture(k, cell) # BLANK}

\* From the first tick until main adds its own character the screen shows one
\* frame, whole, and changes to the other every FRAME_LEN ticks: add_frames
\* puts every character of both files, with rows of different lengths and files
\* of different heights, into its cell.  The array must have room for them; the
\* code's has one structure for each cell.
FramesShown ==
    fpc = "wait1" /\ Cardinality(DrawnCells) <= SLOTS =>
      \A cell \in Cells : video[cell] = Picture((i \div FRAME_LEN) % 2, cell)

\* What is on the screen: the frames, and every character in its current phase.
ScreenRight == CellShowsPhase /\ FramesShown

\* The demo ends.
FishEnds == fpc = "frames" ~> fpc = "done"

=============================================================================
