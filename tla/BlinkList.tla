------------------------------ MODULE BlinkList ------------------------------
(***************************************************************************)
(* What the blink list promises: a list of blinking characters, newest     *)
(* first.  A character is shown in its on shape for on ticks and then in   *)
(* its off shape for off ticks; calls work on the newest one at a          *)
(* location, and one with another character's times joins its phase.       *)
(***************************************************************************)
EXTENDS Naturals, Sequences, SequencesExt

CONSTANTS Locations, Shapes, Times, Capacity

VARIABLES entries,  \* sequence of [location, shape, on, off, lit, left]
          answer    \* of the last call: 0 or -1, and the entry it looked up

list == <<entries, answer>>

Entries == [location : Locations, shape : Shapes, on : Times, off : Times,
            lit : BOOLEAN, left : Times]

Ok == [val |-> 0, data |-> <<>>]
ListInit == entries = <<>> /\ answer = Ok

(* Steps, as relations between the list before and after and the answer.    *)

\* The i-th entry is the newest at its location.
Newest(old, i) == \A j \in 1 .. i - 1 : old[j].location # old[i].location

Insert(old, new) ==
    /\ Len(new) = Len(old) + 1
    /\ Len(new) <= Capacity
    /\ Tail(new) = old
    /\ new[1] \in Entries /\ new[1].lit /\ new[1].left = new[1].on

Delete(old, new) ==
    \E i \in 1 .. Len(old) : Newest(old, i) /\ new = RemoveAt(old, i)

\* The newest entry at a location takes over the times and the phase of another.
Join(old, new) ==
    \E i, j \in 1 .. Len(old) :
      /\ Newest(old, i)
      /\ Newest(old, j)
      /\ new = [old EXCEPT ![j] = [old[i] EXCEPT !.location = old[j].location,
                                                 !.shape = old[j].shape]]

After(e) ==
    IF e.left > 1 THEN [e EXCEPT !.left = @ - 1]
    ELSE [e EXCEPT !.lit = ~@, !.left = IF e.lit THEN e.off ELSE e.on]

Tick(old, new) == new = [i \in 1 .. Len(old) |-> After(old[i])]

\* A call that fails, and one that looks up an entry, leave the list alone.
Answered(old, ans) ==
    \/ ans = [val |-> -1, data |-> <<>>]
    \/ \E i \in 1 .. Len(old) : Newest(old, i) /\ ans = [val |-> 0, data |-> <<old[i]>>]

ListNext ==
    \E old \in {entries}, new \in {entries'}, ans \in {answer'} :
      \/ new = old /\ Answered(old, ans)
      \/ /\ ans = Ok
         /\ Tick(old, new) \/ Insert(old, new) \/ Delete(old, new) \/ Join(old, new)

ListSpec == ListInit /\ [][ListNext]_list

=============================================================================
