---------------------------- MODULE ProcessStacks ----------------------------
(***************************************************************************)
(* What execute, halt and the scheduler promise to user programs.  Every   *)
(* terminal has a stack of processes with its root shell at the bottom;    *)
(* only the top of a stack ever runs, a process below the top waits for    *)
(* the one above it, and no process is on two stacks.  Starting a process, *)
(* ending one and switching terminals are each a single step, whatever     *)
(* interrupts do to the code that implements them.                         *)
(***************************************************************************)
EXTENDS Integers

CONSTANTS Terms, Pids, Null

VARIABLES top,      \* top[t]: the process terminal t runs
          below,    \* below[p]: the process that waits for p
          used,     \* slots taken
          running   \* the terminal that has the CPU

stacks == <<top, below, used, running>>

StacksInit ==
    /\ top = [t \in Terms |-> t]
    /\ below = [p \in Pids |-> Null]
    /\ used = Terms
    /\ running = 0

\* The running process starts a child in a free slot and waits for it.
Spawn(p) ==
    /\ p \notin used
    /\ top' = [top EXCEPT ![running] = p]
    /\ below' = [below EXCEPT ![p] = top[running]]
    /\ used' = used \cup {p}
    /\ UNCHANGED running

\* The running process ends and the one that waits for it continues.
Exit ==
    /\ top[running] \notin Terms
    /\ top' = [top EXCEPT ![running] = below[top[running]]]
    /\ below' = [below EXCEPT ![top[running]] = Null]
    /\ used' = used \ {top[running]}
    /\ UNCHANGED running

Switch(t) == running' = t /\ UNCHANGED <<top, below, used>>

StacksNext ==
    \/ \E p \in Pids : Spawn(p)
    \/ Exit
    \/ \E t \in Terms : Switch(t)

StacksSpec == StacksInit /\ [][StacksNext]_stacks

=============================================================================
