------------------------------- MODULE Syserr -------------------------------
(***************************************************************************)
(* The system call tests that come with the programs (ece391syserr.c), as  *)
(* the sequences of calls they make and the verdict they draw.             *)
(***************************************************************************)
EXTENDS Files

CONSTANTS
    Dot,        \* "."
    Longer,     \* the name of a file and one character more ("helloo")
    Shorter     \* the name of a file without its last character ("shel")

NEG_FD == -1073741823
BIG_FD == 1073741823

Call(op, arg) == [op |-> op, arg |-> arg]
\* The same call for the descriptors first .. NUM_FD - 1.
ForFds(op, first) == [i \in 1 .. NUM_FD - first |-> Call(op, first + i - 1)]

err_fd(fd) == <<Call("read", fd), Call("write", fd), Call("close", fd)>>
err_open_lots ==
    [i \in 1 .. NUM_FD - 1 |-> Call("open", Dot)] \o ForFds("close", 2)
err_open == <<Call("open", Longer), Call("open", Shorter), Call("open", <<>>)>>
err_unopened == ForFds("close", 0) \o ForFds("read", 2) \o ForFds("write", 2)
\* An address is given by its page of 4 MB: no address, and the kernel's.
err_vidmap == <<Call("vidmap", 0), Call("vidmap", 1)>>
err_stdin_out == <<Call("write", 0), Call("read", 1)>>
err_syscall_num == <<Call("number", BIG_FD), Call("number", NEG_FD), Call("number", 0)>>

Tests == <<err_fd(NEG_FD), err_fd(BIG_FD), err_open_lots, err_open, err_unopened,
           err_vidmap, err_stdin_out, err_syscall_num>>
OPEN_LOTS == 3

\* A failing call counts; after opening files, only the opens do.
Counted(test, call) == test = OPEN_LOTS => call.op = "open"
\* Every call has to fail, of the opens exactly the last.
Passes(test, failed) ==
    failed = IF test = OPEN_LOTS THEN 1 ELSE Len(Tests[test])

-----------------------------------------------------------------------------
(* The calls that Files does not have.                                      *)

\* vidmap takes pointers into the program's page only.
PROGRAM_PAGE == 32
vidmap(page) == IF page = PROGRAM_PAGE THEN 0 ELSE -1

\* sys_call_handler: a number outside its table returns -1; a number within it
\* is one of the other calls.
Invalid(num) == num \notin 1 .. 10

SystemCall(p, call) ==
    \/ call.op = "open" /\ (Open(p, call.arg) \/ OpenFail(p, call.arg))
    \/ call.op = "close" /\ (Close(p, call.arg) \/ CloseFail(p, call.arg))
    \/ /\ call.op = "read"
       /\ \/ ReadFail(p, call.arg) \/ ReadDevice(p, call.arg)
          \/ ReadDirectory(p, call.arg) \/ ReadFile(p, call.arg, 31)
    \/ call.op = "write" /\ (WriteFail(p, call.arg) \/ WriteDevice(p, call.arg))
    \/ /\ call.op = "vidmap"
       /\ Result(p, [val |-> vidmap(call.arg), data |-> <<>>])
       /\ UNCHANGED filesys_desc_array
    \/ /\ call.op = "number" /\ Invalid(call.arg)
       /\ Result(p, Failed)
       /\ UNCHANGED filesys_desc_array

=============================================================================
