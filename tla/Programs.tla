------------------------------ MODULE Programs ------------------------------
(***************************************************************************)
(* The shell and the programs it starts: the line a user types becomes the *)
(* command and the arguments execute stores, the program finds them with   *)
(* getargs, and cat, ls and grep pass files and directories on to the      *)
(* screen through the system calls of Files.  One terminal, with its shell *)
(* as process Shell and the program it waits for as process Child; counter *)
(* and the messages of the boot sequence show the conversions of Library.  *)
(***************************************************************************)
EXTENDS Files, Library, Syserr

CONSTANTS
    Shell, Child,
    LINE,       \* the longest line the keyboard driver keeps (128)
    SHELL_BUF,  \* the shell's buffer (1024)
    SPARE,      \* bytes behind a name in execute that may be overwritten unnoticed (4)
    ARGS,       \* bytes of the arguments in execute (128)
    CAT_BUF,    \* the buffer of cat (1024)
    BUFSIZE,    \* the buffer of grep (1024)
    LIMITS,     \* how far counter counts for the choices 0, 1 and 2
    Exit, Clear, Elf, \* "exit", "clear", and the first byte of a program
    ProgramAt,  \* inode number -> program
    Sessions,   \* [disk, lines, leftover]: the blocks of the image, the lines the
                \* user types, what the shell's buffer holds when it starts
    Answers,    \* lines typed to a program
    Stale,      \* what grep's buffer may hold before it is used
    Messages    \* [format, args] printed by entry

\* Two processes, with descriptors for a directory and a file and fewer than the
\* code of a line end; a line fits into the shell's buffer with a terminator to
\* spare, and what follows a blank of it into the arguments; no buffer is empty,
\* none has more than a word counts, and that of cat holds a name and its type.
ASSUME SizesAssumption ==
    /\ Shell \in Procs /\ Child \in Procs
    /\ NUM_FD > 3 /\ NUM_FD <= NL
    /\ LINE \in Nat \ {0} /\ SHELL_BUF \in Nat /\ ARGS \in Nat
    /\ LINE + 1 < SHELL_BUF /\ LINE <= ARGS + 1
    /\ SPARE \in Nat
    /\ CAT_BUF \in NAME + 1 .. WORD - 1 /\ BUFSIZE \in 1 .. WORD - 1

\* The directory of the image: the entry called "." is the directory itself and
\* the only one, entries that are no files have the number of some inode too,
\* and the names that syserr makes up are not there.
ASSUME DirectoryAssumption ==
    /\ \A i \in 1 .. num_of_entries :
         /\ Dentries[i].filetype = 1 <=> Dentries[i].name = Dot
         /\ Dentries[i].inode_num \in DOMAIN Inodes
    /\ Dot \in Seq(Nat) /\ Len(Dot) \in 1 .. NAME
    /\ Matches(Dot) # {}
    /\ Matches(Longer) = {} /\ Matches(Shorter) = {} /\ Matches(<<>>) = {}

\* The keyboard driver keeps neither NUL nor the line break that ends a line.
Typed(line) ==
    /\ line \in Seq(Nat) /\ Len(line) <= LINE
    /\ \A k \in 1 .. Len(line) : line[k] \notin {NUL, NL}
StartsElf(disk, inode) ==
    /\ Inodes[inode].length > 0
    /\ BlockNumber(inode, 0) <= num_of_blocks
    /\ disk[BlockNumber(inode, 0)][0] = Elf

\* Answers are typed; so was, to a shell before on the same stack, what the
\* shell's buffer holds at first; every executable of the image is one of the programs.
ASSUME AnswersAssumption == \A line \in Answers : Typed(line)

ASSUME SessionsAssumption ==
    \A s \in Sessions :
      /\ \A line \in s.lines \cup {s.leftover} : Typed(line)
      /\ \A i \in 1 .. num_of_entries :
           LET n == Dentries[i].inode_num IN
           StartsElf(s.disk, n) =>
             n \in DOMAIN ProgramAt
               /\ ProgramAt[n] \in {"cat", "ls", "grep", "counter", "syserr"}

VARIABLES
    at,       \* where the foreground program is
    session,
    line_buf, \* the shell's buffer
    origin,   \* history: the line that last wrote to a byte of it
    args,     \* of the child's PCB
    rval,     \* of the last execute
    local,    \* locals of execute, then of the child
    out,      \* what the child has written; grep: for the current file
    printed   \* the last message of entry

shell == <<session, line_buf, origin>>
child == <<args, local, out>>
all == <<vars, at, shell, child, rval, printed>>

NoArgs == [k \in 0 .. ARGS |-> NUL]
NoLocals == [word |-> <<>>, from |-> 0, leng |-> 0, prog |-> "none", fd |-> 0,
             dir |-> 0, name |-> <<>>, search |-> <<>>, stale |-> 0, data |-> <<>>,
             last |-> 0, cnt |-> 0, line_start |-> 0, i |-> 0, max |-> 0,
             todo |-> <<>>]
NoMessage == [format |-> <<>>, args |-> <<>>, text |-> <<>>]
NoSession == [disk |-> <<>>, lines |-> {}, leftover |-> <<>>]

ProgramsInit ==
    /\ Init
    /\ at = "boot"
    /\ session = NoSession
    /\ line_buf = [k \in 0 .. SHELL_BUF - 1 |-> NUL]
    /\ origin = [k \in 0 .. SHELL_BUF - 1 |-> <<>>]
    /\ args = NoArgs
    /\ rval = 0
    /\ local = NoLocals
    /\ out = <<>>
    /\ printed = NoMessage

\* A message of entry.
BootPrint(m) ==
    /\ at = "boot"
    /\ printed' = [format |-> m.format, args |-> m.args, text |-> printf(m.format, m.args)]
    /\ at' = "printed"
    /\ UNCHANGED <<vars, shell, child, rval>>

BootPrinted ==
    /\ at = "printed"
    /\ printed' = NoMessage
    /\ at' = "boot"
    /\ UNCHANGED <<vars, shell, child, rval>>

\* The shell starts; its buffer is not initialised.
BootShell(s) ==
    /\ at = "boot"
    /\ session' = s
    /\ line_buf' = Stored(line_buf, 0, s.leftover)
    /\ origin' = [k \in DOMAIN origin |-> s.leftover]
    /\ at' = "prompt"
    /\ UNCHANGED <<vars, child, rval, printed>>

-----------------------------------------------------------------------------
(* The shell.                                                               *)

\* terminal_read of a line into memory m: how many characters it copies, and the
\* memory, with a terminator behind them.
Copied(line, asked) ==
    IF Len(line) <= asked \/ Len(line) < LINE THEN Len(line) ELSE asked
Read(m, line, asked) ==
    LET n == Copied(line, asked) IN Stored(m, 0, Append(SubSeq(line, 1, n), NUL))

\* A line break at the end is cut off.
LineLength(m, n) == IF n > 0 /\ m[n - 1] = NL THEN n - 1 ELSE n

ShellRead(line) ==
    LET m == Read(line_buf, line, SHELL_BUF - 1)
        cnt == LineLength(m, Copied(line, SHELL_BUF - 1))
    IN
    /\ at = "prompt"
    /\ ReadDevice(Shell, 0)
    /\ line_buf' = Stored(m, cnt, <<NUL>>)
    /\ origin' = [k \in DOMAIN origin |-> IF k <= Len(line) THEN line ELSE origin[k]]
    /\ at' = CASE strcmp(line_buf', 0, Literal(Exit), 0) = 0 -> "exit"
               [] line_buf'[0] = NUL -> "prompt"
               [] OTHER -> "execute"
    /\ UNCHANGED <<session, child, rval, printed>>

\* The root shell ends and is started again in its slot, on the stack it had.
ShellExit ==
    /\ at = "exit"
    /\ Execute(Shell)
    /\ at' = "prompt"
    /\ UNCHANGED <<shell, child, rval, printed>>

\* Back in the shell, which reports on rval; the child's memory is not used again.
ShellReport ==
    /\ at = "returned"
    /\ at' = "prompt"
    /\ args' = NoArgs
    /\ local' = NoLocals
    /\ out' = <<>>
    /\ rval' = 0
    /\ UNCHANGED <<vars, shell, printed>>

-----------------------------------------------------------------------------
(* execute, up to the arguments of the new process.                         *)

cmd_leng == Min({k \in DOMAIN line_buf : line_buf[k] \in {NUL, SP}})

\* The arguments begin behind the character that ended the word, be it a blank
\* or the end of the line.
ArgsAt(n) == n + 1

\* The word and the extent of the arguments.
ExecuteParse ==
    /\ at = "execute"
    /\ \E n \in {cmd_leng} :
         local' = [local EXCEPT !.word = Bytes(line_buf, 0, n), !.from = ArgsAt(n),
                                !.leng = strlen(line_buf, ArgsAt(n))]
    /\ at' = "parsed"
    /\ UNCHANGED <<vars, shell, args, out, rval, printed>>

\* More than the locals of execute hold: its other locals are overwritten.
Overrun == Len(local.word) > NAME + SPARE \/ local.leng > ARGS
Legal == Len(local.word) \in 1 .. NAME
filename == Stored([k \in 0 .. NAME + SPARE - 1 |-> NUL], 0, local.word)
IsClear == strncmp(Literal(Clear), 0, filename, 0, Len(Clear)) = 0

\* Bytes of the image as characters.
Char(b) == IF b[1] < 0 THEN EntryByte(-b[1], b[2]) ELSE session.disk[b[1]][b[2]]
Chars(data) == [i \in 1 .. Len(data) |-> Char(data[i])]
IsElf(inode) ==
    LET header == read_data(inode, 0, 1) IN header.val > 0 /\ Chars(header.data)[1] = Elf
Runs == Matches(local.word) # {} /\ IsElf(DentryOf(local.word).inode_num)

\* The kernel goes on with overwritten locals; it is not followed further.
ExecuteOverrun ==
    /\ at = "parsed"
    /\ Overrun
    /\ at' = "lost"
    /\ UNCHANGED <<vars, shell, child, rval, printed>>

\* The length is illegal, there is no such file, or it is no program.
ExecuteFail ==
    /\ at = "parsed"
    /\ Legal => ~IsClear /\ ~Runs
    /\ at' = "returned"
    /\ rval' = -1
    /\ UNCHANGED <<vars, shell, child, printed>>

ExecuteClear ==
    /\ at = "parsed"
    /\ ~Overrun /\ Legal
    /\ IsClear
    /\ at' = "returned"
    /\ rval' = 0
    /\ UNCHANGED <<vars, shell, child, printed>>

ExecuteRun ==
    /\ at = "parsed"
    /\ ~Overrun /\ Legal
    /\ ~IsClear
    /\ Runs
    /\ args' = memcpy(memset(args, 0, NUL, ARGS + 1), 0, line_buf, local.from, local.leng)
    /\ Execute(Child)
    /\ \E prog \in {ProgramAt[DentryOf(local.word).inode_num]} :
         at' = prog /\ local' = [NoLocals EXCEPT !.prog = prog]
    /\ UNCHANGED <<shell, out, rval, printed>>

-----------------------------------------------------------------------------
(* What the programs share.  A step is a system call with the computation up *)
(* to the next one.                                                         *)

Halt(status) == at' = "returned" /\ rval' = status

\* getargs into a buffer of n bytes.
getargs(n) ==
    IF n < strlen(args, 0) + 1 THEN [val |-> -1, data |-> <<>>]
    ELSE [val |-> 0, data |-> StringAt(args, 0)]

GetArgs(label, next, n) ==
    LET r == getargs(n) IN
    /\ at = label
    /\ IF r.val = 0 THEN at' = next /\ UNCHANGED rval ELSE Halt(3)
    /\ local' = [local EXCEPT !.search = r.data, !.name = r.data]
    /\ UNCHANGED <<vars, shell, args, out, printed>>

\* Opens a file for field f of the locals, or ends with a status.
OpenFor(label, next, name, f, status) ==
    /\ at = label
    /\ \/ /\ Open(Child, name)
          /\ local' = [local EXCEPT ![f] = ret'[Child]]
          /\ at' = next
          /\ UNCHANGED rval
       \/ OpenFail(Child, name) /\ Halt(status) /\ UNCHANGED local
    /\ UNCHANGED <<shell, args, out, printed>>

ReadAny(fd, n) ==
    \/ ReadFile(Child, fd, n) \/ ReadDirectory(Child, fd) \/ ReadDevice(Child, fd)
    \/ ReadFail(Child, fd)

\* ls and grep read names into NAME + 1 bytes and put a character c behind them.
\* Behind a name with its type, that is the byte after the buffer: the low byte of
\* the directory's descriptor f, as in the programs of the image, or an unused one.
PutBehind(f, c) ==
    IF ret'[Child] <= NAME THEN {local} ELSE {local, [local EXCEPT ![f] = c]}

\* The loop of cat and ls ends with a read of nothing, and with status 3 if the
\* read fails; otherwise the program writes what text makes of the data.
Got(text) ==
    CASE ret'[Child] = -1 -> Halt(3) /\ UNCHANGED out
      [] ret'[Child] = 0 -> Halt(0) /\ UNCHANGED out
      [] OTHER -> out' = out \o text /\ UNCHANGED <<at, rval>>

-----------------------------------------------------------------------------
(* cat and ls.                                                              *)

CatArgs == GetArgs("cat", "cat_open", CAT_BUF)
CatOpen == OpenFor("cat_open", "cat_read", local.name, "fd", 2)

\* Mutant: a failed read is tried again.
CatReadAgain ==
    /\ at = "cat_read"
    /\ ReadAny(local.fd, CAT_BUF)
    /\ IF ret'[Child] = -1 THEN UNCHANGED <<at, rval, out>> ELSE Got(Chars(buf'[Child]))
    /\ UNCHANGED <<shell, args, local, printed>>

\* Mutant: of a read that does not fill the buffer the last byte is not written.
CatReadCut ==
    /\ at = "cat_read"
    /\ ReadAny(local.fd, CAT_BUF)
    /\ Got(IF ret'[Child] < CAT_BUF THEN Front(Chars(buf'[Child])) ELSE Chars(buf'[Child]))
    /\ UNCHANGED <<shell, args, local, printed>>

CatRead ==
    /\ at = "cat_read"
    /\ ReadAny(local.fd, CAT_BUF)
    /\ Got(Chars(buf'[Child]))
    /\ UNCHANGED <<shell, args, local, printed>>

LsOpen == OpenFor("ls", "ls_read", Dot, "fd", 2)

LsRead ==
    /\ at = "ls_read"
    /\ ReadAny(local.fd, NAME)
    /\ Got(Append(Chars(buf'[Child]), NL))
    /\ local' \in PutBehind("fd", NL)
    /\ UNCHANGED <<shell, args, printed>>

-----------------------------------------------------------------------------
(* grep.                                                                    *)

GrepArgs == GetArgs("grep", "grep_dir", BUFSIZE)
GrepDir == OpenFor("grep_dir", "grep_entry", Dot, "dir", 2)

\* The next name in the directory; names that begin with a dot are skipped.
GrepEntry ==
    /\ at = "grep_entry"
    /\ local.dir # 0
    /\ ReadAny(local.dir, NAME)
    /\ CASE ret'[Child] = 0 -> Halt(0) /\ UNCHANGED local
         [] ret'[Child] = -1 -> Halt(3) /\ UNCHANGED local
         [] OTHER -> LET name == Chars(buf'[Child]) IN
              IF name[1] = Dot[1] THEN UNCHANGED <<at, rval, local>>
              ELSE /\ \E l \in PutBehind("dir", 0) : local' = [l EXCEPT !.name = name]
                   /\ at' = "grep_open"
                   /\ UNCHANGED rval
    /\ out' = <<>>
    /\ UNCHANGED <<shell, args, printed>>

\* With descriptor 0 the names are lines from the keyboard.  One that does not fit
\* overruns the buffer, unless it is so long that terminal_read cuts it; grep is not
\* followed further.
GrepKeyboard(line) ==
    /\ at = "grep_entry"
    /\ local.dir = 0
    /\ ReadDevice(Child, 0)
    /\ LET cnt == Copied(line, NAME) IN
       CASE cnt > NAME -> at' = "lost" /\ UNCHANGED <<local, rval>>
         [] cnt = 0 -> Halt(0) /\ UNCHANGED local
         [] cnt \in 1 .. NAME ->
              IF line[1] = Dot[1] THEN UNCHANGED <<at, rval, local>>
              ELSE /\ local' = [local EXCEPT !.name = SubSeq(line, 1, cnt)]
                   /\ at' = "grep_open"
                   /\ UNCHANGED rval
    /\ out' = <<>>
    /\ UNCHANGED <<shell, args, printed>>

\* do_one_file: its buffer has one byte more than a read may fill.
GrepOpen == OpenFor("grep_open", "grep_buffer", local.name, "fd", 3)
GrepBuffer(c) ==
    /\ at = "grep_buffer"
    /\ local' = [local EXCEPT !.data = [k \in 0 .. BUFSIZE |-> c], !.stale = c, !.last = 0]
    /\ at' = "grep_read"
    /\ UNCHANGED <<vars, shell, args, out, rval, printed>>

\* Mutant: a read is taken to have filled the buffer.
GrepReadFull ==
    /\ at = "grep_read"
    /\ ReadAny(local.fd, BUFSIZE - local.last)
    /\ local' = [local EXCEPT !.data = Stored(@, local.last, Chars(buf'[Child])),
                              !.cnt = ret'[Child], !.last = @ + BUFSIZE, !.line_start = 0]
    /\ at' = "grep_line"
    /\ UNCHANGED <<shell, args, out, rval, printed>>

\* A read behind what is left of the last line.
GrepRead ==
    /\ at = "grep_read"
    /\ ReadAny(local.fd, BUFSIZE - local.last)
    /\ LET text == Chars(buf'[Child]) IN
       IF ret'[Child] = -1 THEN Halt(3) /\ UNCHANGED local
       ELSE /\ local' = [local EXCEPT !.data = Stored(@, local.last, text),
                                      !.cnt = Len(text), !.last = @ + Len(text),
                                      !.line_start = 0]
            /\ at' = "grep_line"
            /\ UNCHANGED rval
    /\ UNCHANGED <<shell, args, out, printed>>

line_end ==
    Min({local.last} \cup {k \in local.line_start .. local.last - 1 : local.data[k] = NL})

\* A line without end, behind others, is moved to the front, to be completed.
Partial(end) == local.data[end] # NL /\ local.cnt # 0 /\ local.line_start # 0

\* Mutant: the part that was moved is not counted.
MovedNothing(data) ==
    [local EXCEPT !.data = strcpy(data, 0, local.line_start), !.last = 0]

Moved(data) ==
    [local EXCEPT !.data = strcpy(data, 0, local.line_start),
                  !.last = @ - local.line_start]

GrepMove ==
    /\ at = "grep_line"
    /\ \E end \in {line_end} :
         /\ Partial(end)
         /\ local' = Moved(Stored(local.data, end, <<NUL>>))
    /\ at' = "grep_read"
    /\ UNCHANGED <<vars, shell, args, out, rval, printed>>

\* The string stands somewhere in the line; an empty one never does.
Found(data, end) ==
    LET s == Literal(local.search) IN
    \E check \in local.line_start .. end - 1 :
      /\ s[0] = data[check]
      /\ strncmp(data, check, s, 0, Len(local.search)) = 0

GrepSearch ==
    /\ at = "grep_line"
    /\ \E end \in {line_end} : \E data \in {Stored(local.data, end, <<NUL>>)} :
         LET over == end + 1 >= local.last IN
         /\ ~Partial(end)
         /\ out' = IF Found(data, end)
                   THEN out \o local.name \o <<58>> \o StringAt(data, local.line_start)
                          \o <<NL>>
                   ELSE out
         /\ local' = [local EXCEPT !.data = data, !.line_start = end + 1,
                                   !.last = IF over THEN 0 ELSE @]
         /\ at' = CASE ~over -> "grep_line"
                    [] over /\ local.cnt = 0 -> "grep_close"
                    [] over /\ local.cnt # 0 -> "grep_read"
    /\ UNCHANGED <<vars, shell, args, rval, printed>>

\* The buffer is given up; close cannot fail.
GrepClose ==
    /\ at = "grep_close"
    /\ Close(Child, local.fd)
    /\ local' = [local EXCEPT !.data = <<>>, !.line_start = 0, !.cnt = 0, !.stale = 0,
                              !.name = <<>>]
    /\ at' = "grep_entry"
    /\ UNCHANGED <<shell, args, out, rval, printed>>

-----------------------------------------------------------------------------
(* counter.                                                                 *)

\* One of the choices, or nothing, which counts to 0.
Digits012 == {<<48 + k>> : k \in 0 .. 2}
CounterRead(line) ==
    /\ at = "counter"
    /\ ReadDevice(Child, 0)
    /\ IF line \in Digits012 \cup {<<>>}
       THEN /\ local' = [local EXCEPT !.max =
                           IF line = <<>> THEN 0 ELSE LIMITS[line[1] - 47]]
            /\ at' = "count"
            /\ UNCHANGED rval
       ELSE Halt(0) /\ UNCHANGED local
    /\ UNCHANGED <<shell, args, out, printed>>

Count ==
    /\ at = "count"
    /\ IF local.i < local.max
       THEN /\ out' = Append(out \o itoa(local.i + 1, 10), NL)
            /\ local' = [local EXCEPT !.i = @ + 1]
            /\ UNCHANGED <<at, rval>>
       ELSE Halt(0) /\ UNCHANGED <<local, out>>
    /\ UNCHANGED <<vars, shell, args, printed>>

-----------------------------------------------------------------------------
(* syserr.                                                                  *)

\* A test by its number, or all of them; anything else ends the program.
SyserrRead(line) ==
    /\ at = "syserr"
    /\ ReadDevice(Child, 0)
    /\ IF line # <<>> /\ line[1] \in 48 .. 48 + Len(Tests)
       THEN /\ local' = [local EXCEPT !.i = 1, !.todo =
                           IF line[1] = 48 THEN [k \in 1 .. Len(Tests) |-> k]
                           ELSE <<line[1] - 48>>]
            /\ at' = "syserr_test"
            /\ UNCHANGED rval
       ELSE Halt(0) /\ UNCHANGED local
    /\ UNCHANGED <<shell, args, out, printed>>

SyserrCall ==
    /\ at = "syserr_test"
    /\ \E test \in {Head(local.todo)} :
         /\ local.i <= Len(Tests[test])
         /\ \E call \in {Tests[test][local.i]} :
              /\ SystemCall(Child, call)
              /\ local' = [local EXCEPT !.i = @ + 1, !.cnt =
                             IF ret'[Child] = -1 /\ Counted(test, call) THEN @ + 1 ELSE @]
    /\ UNCHANGED <<at, shell, args, out, rval, printed>>

\* The end of a test: 0 or 2, and their sum as the status of the program.
SyserrVerdict ==
    /\ at = "syserr_test"
    /\ \E test \in {Head(local.todo)} :
         /\ local.i > Len(Tests[test])
         /\ out' = Append(out, IF Passes(test, local.cnt) THEN 0 ELSE 2)
    /\ local' = [local EXCEPT !.i = 1, !.cnt = 0, !.todo = Tail(@)]
    /\ IF Len(local.todo) > 1 THEN UNCHANGED <<at, rval>>
       ELSE Halt(2 * Cardinality({k \in DOMAIN out' : out'[k] = 2}))
    /\ UNCHANGED <<vars, shell, args, printed>>

-----------------------------------------------------------------------------

ExecuteStep == ExecuteParse \/ ExecuteFail \/ ExecuteClear \/ ExecuteRun
ProgramStep ==
    \/ CatArgs \/ CatOpen \/ CatRead
    \/ LsOpen \/ LsRead
    \/ GrepArgs \/ GrepDir \/ GrepEntry \/ GrepOpen
    \/ \E c \in Stale : GrepBuffer(c)
    \/ GrepRead \/ GrepMove \/ GrepSearch \/ GrepClose
    \/ Count
    \/ SyserrCall \/ SyserrVerdict
SystemStep == ExecuteStep \/ ExecuteOverrun \/ ProgramStep \/ ShellExit \/ ShellReport

ProgramsNext ==
    \/ \E m \in Messages : BootPrint(m)
    \/ BootPrinted
    \/ \E s \in Sessions : BootShell(s)
    \/ \E line \in session.lines : ShellRead(line)
    \/ \E line \in Answers : CounterRead(line) \/ SyserrRead(line) \/ GrepKeyboard(line)
    \/ SystemStep

\* The kernel and the program that has the terminal keep running.
ProgramsSpec == ProgramsInit /\ [][ProgramsNext]_all /\ WF_all(SystemStep)

-----------------------------------------------------------------------------
(* Properties.                                                              *)

Labels == {"boot", "printed", "prompt", "exit", "execute", "parsed", "returned", "lost",
           "cat",
           "cat_open", "cat_read", "ls", "ls_read", "grep", "grep_dir", "grep_entry",
           "grep_open", "grep_buffer", "grep_read", "grep_line", "grep_close",
           "counter", "count", "syserr", "syserr_test"}

\* Only a word that is too long for execute's locals overruns them: the
\* arguments, also those an earlier line has left, always fit.  grep overruns its
\* buffer with a line only after a name with its type has made it read lines.
ProgramsTypeOK ==
    /\ TypeOK
    /\ at \in Labels
    /\ DOMAIN line_buf = 0 .. SHELL_BUF - 1
    /\ DOMAIN args = 0 .. ARGS /\ args[ARGS] = NUL
    /\ rval \in -1 .. 2 * Len(Tests)
    /\ local.last \in 0 .. BUFSIZE
    /\ local.line_start \in 0 .. BUFSIZE + 1
    /\ at = "lost" => \/ Len(local.word) > NAME + SPARE
                      \/ local.dir = 0 /\ \E i \in 1 .. num_of_entries :
                                             Len(ListedName(i)) > NAME

Running == at \in Labels \ {"boot", "printed", "prompt", "exit", "execute", "parsed",
                            "returned", "lost"}
Line == origin[0]
HasArgs == \E k \in 1 .. Len(Line) : Line[k] = SP

\* The arguments a program finds are what follows the first blank of its line.
\* Without a blank they are empty, or the end of one line typed before (or of
\* what the buffer held at first), never a mixture of several.
ArgsTyped ==
    Running =>
      LET got == StringAt(args, 0)
          old == origin[Len(Line) + 1] IN
      IF HasArgs THEN got = SubSeq(Line, cmd_leng + 2, Len(Line))
      ELSE got \in {<<>>, SubSeq(old, Len(Line) + 2, Len(old))}

\* The same without the exception: a command without a blank has no arguments.
ArgsOfLine == Running /\ ~HasArgs => StringAt(args, 0) = <<>>

Ended(prog) == at = "returned" /\ local.prog = prog /\ rval = 0
FileText(d) ==
    CASE d.filetype = 0 -> <<>>
      [] d.filetype = 1 -> FlattenSeq([i \in 1 .. num_of_entries |-> ListedName(i)])
      [] d.filetype = 2 -> Chars(Content(d.inode_num))

\* cat writes the file its arguments name (or what the directory lists: its names,
\* one that fills its field with the type of the entry behind it) in order and
\* without gaps, whatever the size of its buffer, and all of it unless it reports
\* an error.
CatRight ==
    /\ at = "cat_read" /\ out # <<>> => IsPrefix(out, FileText(DentryOf(local.name)))
    /\ Ended("cat") => out = FileText(DentryOf(local.name))

\* ls writes what the directory lists, each name once and on a line, and all of it
\* unless it reports an error.  It reports one only after a name with its type has
\* overrun its buffer: where every name is shorter than its field, ls writes the
\* names and never fails.
LsLines(n) == FlattenSeq([i \in 1 .. n |-> Append(ListedName(i), NL)])
LsRight ==
    /\ Ended("ls") => out = LsLines(num_of_entries)
    /\ at = "returned" /\ local.prog = "ls" /\ rval = 3 =>
         \E n \in 1 .. num_of_entries : Len(ListedName(n)) > NAME /\ out = LsLines(n)

\* The same without the exception: ls gets to the end of every directory.
LsAlways == at = "returned" /\ local.prog = "ls" => rval # 3

\* The two programs that copy: nothing is lost or doubled on the way to the screen.
OutputRight == CatRight /\ LsRight

\* The lines of a text, by where they start; an end of line ends the last one.
Starts(text) ==
    {k \in 1 .. Len(text) : k = 1 \/ text[k - 1] = NL}
LineAt(text, k) ==
    LET ends == {j \in k .. Len(text) : text[j] = NL} IN
    SubSeq(text, k, IF ends = {} THEN Len(text) ELSE Min(ends) - 1)
Occurs(s, line) ==
    s # <<>> /\ \E j \in 1 .. Len(line) - Len(s) + 1 : SubSeq(line, j, j + Len(s) - 1) = s

\* The lines that hold the string, each with the name grep has read, from place k on.
Report(name, s, text) ==
    LET hits == {k \in Starts(text) : Occurs(s, LineAt(text, k))}
        from[k \in 1 .. Len(text) + 1] ==
          CASE k > Len(text) -> <<>>
            [] k \in hits -> name \o <<58>> \o LineAt(text, k) \o <<NL>> \o from[k + 1]
            [] OTHER -> from[k + 1]
    IN from
Matching(name, s, text) == Report(name, s, text)[1]

\* The file searched is text: characters other than NUL, and no line longer than
\* the buffer.
IsText(text) ==
    /\ \A k \in 1 .. Len(text) : text[k] \in Nat \ {NUL}
    /\ \A k \in Starts(text) : Len(LineAt(text, k)) <= BUFSIZE
Reported(text) ==
    IsText(text) => out = Matching(local.name, local.search, text)

\* grep opens one file after the other and always has a descriptor for it, also
\* when the one of its directory is overwritten and stays open.
GrepHasRoom == at = "grep_open" => Free(Child) # {}

\* grep has a descriptor for every file it takes up and reports exactly the lines
\* that hold the string, each once and whole, however lines and reads overlap,
\* unless a line end happens to stand in the uninitialised byte behind its buffer
\* and the file does not fit.
GrepRight ==
    /\ GrepHasRoom
    /\ LET text == FileText(DentryOf(local.name)) IN
       at = "grep_close" /\ (local.stale # NL \/ Len(text) <= BUFSIZE) => Reported(text)

\* The same without the exception.
GrepAlways == at = "grep_close" => Reported(FileText(DentryOf(local.name)))

DigitValue(c) == IF c < 58 THEN c - 48 ELSE c - 55
Value(s, radix) ==
    LET value[k \in 0 .. Len(s)] ==
          IF k = 0 THEN 0 ELSE radix * value[k - 1] + DigitValue(s[k])
    IN value[Len(s)]
IsNumeral(s, value, radix) ==
    Value(s, radix) = value /\ Len(s) > 0 /\ (s[1] = 48 => Len(s) = 1)

\* counter writes the numerals of 1, 2, 3 and so on, each on a line.
NumeralsRight ==
    at = "count" =>
      LET starts == Starts(out) IN
      /\ Cardinality(starts) = local.i
      /\ \A k \in starts : IsNumeral(LineAt(out, k), Cardinality({j \in starts : j <= k}), 10)

\* Formats of entry's messages: one conversion behind a character, and the two
\* halves of an address in the memory map.
Format(conversion) == <<61, PERCENT>> \o conversion
HexFormat == Format(<<120>>)
UnsignedFormat == Format(<<117>>)
SignedFormat == Format(<<100>>)
PaddedFormat == Format(<<SHARP, 120>>)
AddressFormat == Format(<<SHARP, 120, PERCENT, SHARP, 120>>)

\* A message has an argument, an unsigned word, for each of its conversions.
ASSUME MessagesAssumption ==
    \A m \in Messages :
      /\ m.format \in {HexFormat, UnsignedFormat, SignedFormat, PaddedFormat, AddressFormat}
      /\ m.args \in Seq(0 .. UINT - 1)
      /\ Len(m.args) = IF m.format = AddressFormat THEN 2 ELSE 1

\* A printed number reads as the argument: in the radix of its conversion, with
\* the sign of a signed one, and padded so that the halves of an address join.
PrintsRight ==
    at = "printed" =>
      LET f == printed.format
          n == printed.args[1]
          text == Tail(printed.text) IN
      CASE f = HexFormat -> IsNumeral(text, n, 16)
        [] f = UnsignedFormat -> IsNumeral(text, n, 10)
        [] f = SignedFormat ->
             IF n < UINT \div 2 THEN IsNumeral(text, n, 10)
             ELSE text[1] = 45 /\ IsNumeral(Tail(text), UINT - n, 10)
        [] f = PaddedFormat -> Len(text) = HEX /\ Value(text, 16) = n
        [] f = AddressFormat -> /\ Len(text) = 2 * HEX
                                /\ Value(text, 16) = n * UINT + printed.args[2]

\* Numbers read as what they stand for, in the programs and in the kernel.
NumbersRight == NumeralsRight /\ PrintsRight

\* The repository's own tests of the system calls pass, each alone and one after
\* the other: calls with bad descriptors, names, pointers and numbers fail, and
\* the descriptors that one test takes are free again for the next.
SyserrPasses == local.prog = "syserr" => \A k \in DOMAIN out : out[k] = 0

\* Every command comes back to the prompt or waits for a line, unless memory was
\* overrun.
AwaitsLine ==
    \/ at \in {"prompt", "counter", "syserr"}
    \/ at = "grep_entry" /\ local.dir = 0
ProgramsEnd ==
    (at \notin {"boot", "printed"} /\ ~AwaitsLine) ~> (AwaitsLine \/ at = "lost")

=============================================================================
