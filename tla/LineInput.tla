------------------------------ MODULE LineInput ------------------------------
(***************************************************************************)
(* What terminal_read promises to programs.  On every terminal a read      *)
(* starts with an empty line, whatever was typed before; while it is open, *)
(* keys extend and erase that line and nothing else does; it is closed     *)
(* once, and the program then gets the line.                               *)
(***************************************************************************)
EXTENDS Naturals, Sequences

CONSTANTS Terms, Chars, Limit

VARIABLES mode,   \* "idle", "edit" (a read is open) or "done" (it is closed)
          line,   \* the line of the open or closed read
          out     \* what the last read returned, until the next one starts

input == <<mode, line, out>>

LineInit ==
    /\ mode = [t \in Terms |-> "idle"]
    /\ line = [t \in Terms |-> <<>>]
    /\ out = [t \in Terms |-> <<>>]

\* The program is about to read again.
Forget(t) ==
    /\ mode[t] = "idle"
    /\ out' = [out EXCEPT ![t] = <<>>]
    /\ UNCHANGED <<mode, line>>

Begin(t) ==
    /\ mode[t] = "idle"
    /\ mode' = [mode EXCEPT ![t] = "edit"]
    /\ line' = [line EXCEPT ![t] = <<>>]
    /\ UNCHANGED out

\* A character; the one that fills the line also closes it.
Type(t, c) ==
    /\ mode[t] = "edit"
    /\ Len(line[t]) < Limit
    /\ line' = [line EXCEPT ![t] = Append(@, c)]
    /\ mode' = [mode EXCEPT ![t] = IF Len(line'[t]) = Limit THEN "done" ELSE "edit"]
    /\ UNCHANGED out

Erase(t) ==
    /\ mode[t] = "edit"
    /\ line[t] # <<>>
    /\ line' = [line EXCEPT ![t] = SubSeq(@, 1, Len(@) - 1)]
    /\ UNCHANGED <<mode, out>>

\* Enter, or a Ctrl-C that stops no program.
Close(t) ==
    /\ mode[t] = "edit"
    /\ mode' = [mode EXCEPT ![t] = "done"]
    /\ UNCHANGED <<line, out>>

\* Ctrl-L empties the line, even a closed one, and closes it.
Wipe(t) ==
    /\ mode[t] \in {"edit", "done"}
    /\ mode' = [mode EXCEPT ![t] = "done"]
    /\ line' = [line EXCEPT ![t] = <<>>]
    /\ UNCHANGED out

\* The program gets its line; of a full one it may have asked for the first
\* part only.
Deliver(t) ==
    /\ mode[t] = "done"
    /\ mode' = [mode EXCEPT ![t] = "idle"]
    /\ line' = [line EXCEPT ![t] = <<>>]
    /\ \E n \in 0 .. Len(line[t]) :
         /\ n < Len(line[t]) => Len(line[t]) = Limit
         /\ out' = [out EXCEPT ![t] = SubSeq(line[t], 1, n)]

\* The program is stopped while it reads.
Stop(t) ==
    /\ mode[t] # "idle"
    /\ mode' = [mode EXCEPT ![t] = "idle"]
    /\ line' = [line EXCEPT ![t] = <<>>]
    /\ UNCHANGED out

LineNext ==
    \E t \in Terms :
      \/ Forget(t) \/ Begin(t) \/ Erase(t) \/ Close(t) \/ Wipe(t)
      \/ Deliver(t) \/ Stop(t)
      \/ \E c \in Chars : Type(t, c)

LineSpec == LineInit /\ [][LineNext]_input

=============================================================================
