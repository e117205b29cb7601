---------------------------- MODULE ProgramsProofs ----------------------------
(***************************************************************************)
(* Theorems about the shell, the programs it starts and the library, for   *)
(* every image, every line typed and every size of the buffers.            *)
(***************************************************************************)
EXTENDS Programs, FilesProofs, FiniteSetTheorems

-----------------------------------------------------------------------------
(* The inductive invariant.                                                 *)

KernelLabels == {"boot", "printed", "prompt", "exit", "execute", "parsed"}
CatLabels == {"cat", "cat_open", "cat_read"}
LsLabels == {"ls", "ls_read"}
FileLabels == {"grep_buffer", "grep_read", "grep_line", "grep_close"}
GrepLabels == {"grep", "grep_dir", "grep_entry", "grep_open"} \cup FileLabels
CountLabels == {"counter", "count"}
SyserrLabels == {"syserr", "syserr_test"}

\* Which program is where; it has written nothing before it reads.
PhaseInv ==
    /\ at \in Labels
    /\ DOMAIN local = DOMAIN NoLocals
    /\ at \in KernelLabels => local.prog = "none"
    /\ at \in CatLabels => local.prog = "cat"
    /\ at \in LsLabels => local.prog = "ls"
    /\ at \in GrepLabels => local.prog = "grep"
    /\ at \in CountLabels => local.prog = "counter"
    /\ at \in SyserrLabels => local.prog = "syserr"
    /\ at = "lost" => local.prog \in {"none", "grep"}
    /\ at \in KernelLabels \cup {"lost", "cat", "cat_open", "ls", "counter", "syserr"} =>
         out = <<>>

\* A byte of the shell's buffer is one of the last line that reached it, or the
\* NUL behind that line; the rest of that line follows undisturbed.
CharAt(line, k) == IF k < Len(line) THEN line[k + 1] ELSE NUL
Buffer == 0 .. SHELL_BUF - 1
ShellInv ==
    /\ at \notin {"boot", "printed"} => session \in Sessions
    /\ DOMAIN line_buf = Buffer /\ DOMAIN origin = Buffer
    /\ \A k \in Buffer :
         /\ Typed(origin[k])
         /\ line_buf[k] = CharAt(origin[k], k)
         /\ \A j \in k .. Len(origin[k]) : origin[j] = origin[k]
         /\ at \in {"boot", "printed"} => origin[k] = <<>>

\* The directory has a name that is read with its type.
LongNames == \E i \in 1 .. num_of_entries : Len(ListedName(i)) > NAME

\* The word and the arguments execute finds in the buffer.
first == ArgsAt(cmd_leng)
ArgsLength == strlen(line_buf, first)
ArgsFound == [k \in 0 .. ARGS |-> IF k < ArgsLength THEN line_buf[first + k] ELSE NUL]
ArgsInv ==
    /\ DOMAIN args = 0 .. ARGS /\ args[ARGS] = NUL
    /\ at = "parsed" => /\ local.word = Bytes(line_buf, 0, cmd_leng)
                        /\ local.from = first /\ local.leng = ArgsLength
    /\ at = "lost" => Len(local.word) > NAME + SPARE \/ (local.dir = 0 /\ LongNames)
    /\ Running => args = ArgsFound

\* The descriptors of the child: the set of those in use.
InUse == {fd \in Fds \ {0, 1} : Table(Child)[fd].flags = 1}
\* One that was opened for a name and read since.
OpenedAs(fd, name) ==
    /\ fd \in InUse /\ Matches(name) # {}
    /\ Table(Child)[fd] = [Opened(DentryOf(name)) EXCEPT !.pos = Table(Child)[fd].pos]

\* What cat and ls have written of an entry when they are at a position.
NameLines(end) == [i \in 1 .. num_of_entries |-> ListedName(i) \o end]
Upto(lines, n) == FlattenSeq([i \in 1 .. n |-> lines[i]])
TextUpto(d, pos) ==
    CASE d.filetype = 0 -> <<>>
      [] d.filetype = 1 -> Upto(NameLines(<<>>), pos)
      [] d.filetype = 2 -> Chars(SubSeq(Content(d.inode_num), 1, pos))
CatInv ==
    /\ at = "cat_read" =>
         /\ OpenedAs(local.fd, local.name)
         /\ out = TextUpto(DentryOf(local.name), Table(Child)[local.fd].pos)
    /\ Ended("cat") => out = FileText(DentryOf(local.name))
\* ls reads the directory, or has overwritten its descriptor behind a long name.
LsInv ==
    /\ at = "ls_read" =>
         \/ /\ OpenedAs(local.fd, Dot)
            /\ out = Upto(NameLines(<<NL>>), Table(Child)[local.fd].pos)
         \/ /\ local.fd = NL
            /\ \E n \in 1 .. num_of_entries : Len(ListedName(n)) > NAME /\ out = LsLines(n)
    /\ LsRight

\* e is the directory, open, and the variable dir still its descriptor unless a long
\* name has overwritten it.
DirectoryAt(e, dir) == OpenedAs(e, Dot) /\ (dir = e \/ (dir = 0 /\ LongNames))
\* grep keeps the directory open, and one file at a time; the name it takes is not
\* that of the directory.
GrepInv ==
    /\ local.last \in 0 .. BUFSIZE
    /\ local.line_start \in 0 .. BUFSIZE + 1
    /\ at = "grep_line" => local.line_start <= local.last
    /\ at \in {"grep", "grep_dir"} => InUse = {}
    /\ at \in {"grep_entry", "grep_open"} =>
         \E e \in InUse : DirectoryAt(e, local.dir) /\ InUse = {e}
    /\ at \in {"grep_open"} \cup FileLabels =>
         /\ local.name \in Seq(Nat)
         /\ Matches(local.name) # {} => DentryOf(local.name).filetype # 1
    /\ at \in FileLabels =>
         /\ OpenedAs(local.fd, local.name)
         /\ \E e \in InUse \ {local.fd} :
              DirectoryAt(e, local.dir) /\ InUse = {e, local.fd}

\* How far a test of syserr is: its failures so far, and what it has open.
OpenAfter(test, j) ==
    IF test = OPEN_LOTS THEN {fd \in Fds \ {0, 1} : j - NUM_FD + 2 < fd /\ fd <= j + 1} ELSE {}
FailedAfter(test, j) ==
    IF test = OPEN_LOTS THEN IF j >= NUM_FD - 1 THEN 1 ELSE 0 ELSE j
SyserrInv ==
    /\ at = "syserr" => InUse = {} /\ local.cnt = 0
    /\ at = "syserr_test" =>
         /\ local.todo \in Seq(1 .. Len(Tests)) /\ local.todo # <<>>
         /\ local.i \in 1 .. Len(Tests[Head(local.todo)]) + 1
         /\ InUse = OpenAfter(Head(local.todo), local.i - 1)
         /\ local.cnt = FailedAfter(Head(local.todo), local.i - 1)
    /\ local.prog = "syserr" => out \in Seq({0})

\* counter is at a number, and has written the lines before it.
CountInv ==
    /\ at = "counter" => local.i = 0
    /\ at = "count" => /\ local.i \in Nat
                       /\ out \in Seq(Nat) /\ (out = <<>> \/ out[Len(out)] = NL)
    /\ NumeralsRight

ProgramsInv ==
    /\ FilesInv
    /\ PhaseInv
    /\ ShellInv
    /\ ArgsInv
    /\ CatInv
    /\ LsInv
    /\ GrepInv
    /\ SyserrInv
    /\ CountInv
    /\ PrintsRight
    /\ rval \in -1 .. 2 * Len(Tests)

-----------------------------------------------------------------------------
(* Locals, labels and descriptors.                                          *)

Fields == {"word", "from", "leng", "prog", "fd", "dir", "name", "search", "stale", "data",
           "last", "cnt", "line_start", "i", "max", "todo"}

LEMMA LocalFields == DOMAIN NoLocals = Fields
BY DEF NoLocals, Fields

\* A local that is assigned, and the others.
LEMMA Assigned ==
    ASSUME NEW r, DOMAIN r = Fields, NEW f \in Fields, NEW v
    PROVE  /\ DOMAIN [r EXCEPT ![f] = v] = Fields
           /\ [r EXCEPT ![f] = v][f] = v
           /\ \A g \in Fields : g # f => [r EXCEPT ![f] = v][g] = r[g]
OBVIOUS

\* The steps of each program, and of the kernel and the shell.
CatStep == CatArgs \/ CatOpen \/ CatRead
LsStep == LsOpen \/ LsRead
GrepFileStep ==
    GrepOpen \/ (\E c \in Stale : GrepBuffer(c)) \/ GrepRead \/ GrepMove \/ GrepSearch \/ GrepClose
GrepLine == \E line \in Answers : GrepKeyboard(line) /\ at' # "lost"
GrepLost == \E line \in Answers : GrepKeyboard(line) /\ at' = "lost"
GrepStep == GrepArgs \/ GrepDir \/ GrepEntry \/ GrepLine \/ GrepFileStep
CountStep == (\E line \in Answers : CounterRead(line)) \/ Count
SyserrStep == (\E line \in Answers : SyserrRead(line)) \/ SyserrCall \/ SyserrVerdict
BootStep ==
    (\E m \in Messages : BootPrint(m)) \/ BootPrinted \/ (\E s \in Sessions : BootShell(s))
ShellStep == (\E line \in session.lines : ShellRead(line)) \/ ShellExit \/ ShellReport
KernelStep ==
    BootStep \/ ShellStep \/ ExecuteParse \/ ExecuteOverrun \/ ExecuteFail \/ ExecuteClear

LEMMA StepCases ==
    ASSUME [ProgramsNext]_all
    PROVE  \/ UNCHANGED all
           \/ KernelStep \/ ExecuteRun
           \/ CatStep \/ LsStep \/ GrepStep \/ GrepLost \/ CountStep \/ SyserrStep
BY Zenon DEF ProgramsNext, SystemStep, ExecuteStep, ProgramStep, CatStep, LsStep, GrepStep,
      GrepLine, GrepLost, GrepFileStep, CountStep, SyserrStep, BootStep, ShellStep, KernelStep

FirstLabels == {"cat", "ls", "grep", "counter", "syserr"}

\* A step of a program stays in the program or ends it, and leaves the shell's
\* buffer and the arguments alone.
Moves(labels, prog) ==
    /\ at \in labels /\ at' \in (labels \ FirstLabels) \cup {"returned"}
    /\ DOMAIN local' = Fields /\ local.prog = prog /\ local'.prog = prog
    /\ UNCHANGED <<shell, args>>

LEMMA GetArgsMoves ==
    ASSUME DOMAIN local = Fields, NEW label, NEW next, NEW n, GetArgs(label, next, n)
    PROVE  /\ at = label /\ ((at' = next /\ UNCHANGED rval) \/ (at' = "returned" /\ rval' = 3))
           /\ DOMAIN local' = Fields /\ local'.name = getargs(n).data
           /\ \A f \in Fields \ {"search", "name"} : local'[f] = local[f]
           /\ UNCHANGED <<vars, shell, args, out>>
<1> DEFINE d == getargs(n).data
<1> HIDE DEF d
<1>1. local' = [local EXCEPT !.search = d, !.name = d]
  BY DEF GetArgs, d
<1>2. /\ DOMAIN local' = Fields /\ local'.name = d
      /\ \A f \in Fields \ {"search", "name"} : local'[f] = local[f]
  BY <1>1 DEF Fields
<1>3. /\ at = label /\ ((at' = next /\ UNCHANGED rval) \/ (at' = "returned" /\ rval' = 3))
      /\ UNCHANGED <<vars, shell, args, out>>
  <2> HIDE DEF Fields
  <2> QED BY DEF GetArgs, Halt
<1> QED BY <1>2, <1>3, Zenon DEF d

LEMMA OpenForMoves ==
    ASSUME DOMAIN local = Fields, NEW label, NEW next, NEW name, NEW f \in Fields, NEW status,
           OpenFor(label, next, name, f, status)
    PROVE  /\ at = label
           /\ \/ /\ Open(Child, name) /\ at' = next /\ UNCHANGED rval
                 /\ local'[f] = ret'[Child] /\ \A g \in Fields \ {f} : local'[g] = local[g]
              \/ OpenFail(Child, name) /\ at' = "returned" /\ rval' = status /\ UNCHANGED local
           /\ DOMAIN local' = Fields
           /\ UNCHANGED <<shell, args, out>>
<1>1. CASE local' = [local EXCEPT ![f] = ret'[Child]]
  <2>1. /\ DOMAIN local' = Fields /\ local'[f] = ret'[Child]
        /\ \A g \in Fields \ {f} : local'[g] = local[g]
    BY <1>1
  <2> QED BY <2>1 DEF OpenFor, Halt
<1>2. CASE UNCHANGED local
  BY <1>2 DEF OpenFor, Halt
<1> QED BY <1>1, <1>2 DEF OpenFor

LEMMA CatMoves ==
    ASSUME PhaseInv, CatStep
    PROVE  Moves(CatLabels, "cat")
<1>0. DOMAIN local = Fields /\ {"fd", "dir", "name", "prog"} \subseteq Fields
  BY LocalFields DEF PhaseInv, Fields
<1>1. CASE CatArgs
  BY <1>0, <1>1, GetArgsMoves DEF CatArgs, Moves, CatLabels, FirstLabels, PhaseInv
<1>2. CASE CatOpen
  <2>1. OpenFor("cat_open", "cat_read", local.name, "fd", 2)
    BY <1>2 DEF CatOpen
  <2>2. /\ at = "cat_open" /\ at' \in {"cat_read", "returned"} /\ DOMAIN local' = Fields
        /\ local'.prog = local.prog /\ UNCHANGED <<shell, args>>
    <3>1. "fd" \in Fields /\ "prog" \in Fields \ {"fd"}
      BY DEF Fields
    <3> QED BY <1>0, <2>1, <3>1, OpenForMoves
  <2> QED BY <2>2 DEF Moves, CatLabels, FirstLabels, PhaseInv
<1>3. CASE CatRead
  BY <1>0, <1>3 DEF CatRead, Got, Halt, Moves, CatLabels, FirstLabels, PhaseInv
<1> QED BY <1>1, <1>2, <1>3 DEF CatStep

LEMMA LsMoves ==
    ASSUME PhaseInv, LsStep
    PROVE  Moves(LsLabels, "ls")
<1>0. DOMAIN local = Fields /\ {"fd", "dir", "name", "prog"} \subseteq Fields
  BY LocalFields DEF PhaseInv, Fields
<1>2. CASE LsOpen
  <2>1. OpenFor("ls", "ls_read", Dot, "fd", 2)
    BY <1>2 DEF LsOpen
  <2>2. /\ at = "ls" /\ at' \in {"ls_read", "returned"} /\ DOMAIN local' = Fields
        /\ local'.prog = local.prog /\ UNCHANGED <<shell, args>>
    <3>1. "fd" \in Fields /\ "prog" \in Fields \ {"fd"}
      BY DEF Fields
    <3> QED BY <1>0, <2>1, <3>1, OpenForMoves
  <2> QED BY <2>2 DEF Moves, LsLabels, FirstLabels, PhaseInv
<1>3. CASE LsRead
  <2>1. /\ at = "ls_read" /\ at' \in {"ls_read", "returned"} /\ UNCHANGED <<shell, args>>
        /\ local' \in PutBehind("fd", NL)
    BY <1>3 DEF LsRead, Got, Halt
  <2>2. DOMAIN local' = Fields /\ local'.prog = local.prog
    BY <1>0, <2>1 DEF PutBehind, Fields
  <2> QED BY <2>1, <2>2 DEF Moves, LsLabels, FirstLabels, PhaseInv
<1> QED BY <1>2, <1>3 DEF LsStep


\* A name from the keyboard: a line is kept, skipped, empty or too long.
LEMMA GrepKeyboardMoves ==
    ASSUME DOMAIN local = Fields, NEW line \in Answers, GrepKeyboard(line)
    PROVE  /\ at = "grep_entry" /\ local.dir = 0 /\ ReadDevice(Child, 0)
           /\ UNCHANGED <<shell, args, printed>> /\ out' = <<>> /\ rval' \in {0, rval}
           /\ \/ at' = "lost" /\ UNCHANGED local
              \/ at' \in {"grep_entry", "returned"} /\ UNCHANGED local
              \/ /\ at' = "grep_open" /\ DOMAIN local' = Fields
                 /\ \A f \in Fields \ {"name"} : local'[f] = local[f]
                 /\ local'.name \in Seq(Nat) /\ local'.name # <<>>
                 /\ local'.name[1] # Dot[1]
<1> DEFINE cnt == Copied(line, NAME)
           name == SubSeq(line, 1, cnt)
<1>1. line \in Seq(Nat) /\ Len(line) \in Nat /\ NAME \in Nat
  BY AnswersAssumption, FilesAssumption DEF Typed
<1>2. cnt \in Nat /\ (cnt <= NAME => cnt <= Len(line))
  BY <1>1 DEF Copied
<1>3. ASSUME cnt \in 1 .. NAME
      PROVE  name \in Seq(Nat) /\ name # <<>> /\ name[1] = line[1]
  <2> HIDE DEF cnt
  <2>1. 0 \in Nat /\ 0 + 1 = 1 /\ cnt - 0 = cnt /\ cnt \in Nat /\ 1 \in 1 .. cnt - 0
        /\ 0 <= cnt /\ cnt <= Len(line)
    BY <1>1, <1>2, <1>3
  <2>2. /\ name \in Seq(Nat) /\ Len(name) = cnt - 0
        /\ \A i \in 1 .. cnt - 0 : name[i] = line[0 + i]
    BY <1>1, <2>1, Piece
  <2> QED BY <1>3, <2>1, <2>2
<1> HIDE DEF cnt, name
<1>4. cnt > NAME \/ cnt = 0 \/ cnt \in 1 .. NAME
  BY <1>1, <1>2
<1>5. /\ at = "grep_entry" /\ local.dir = 0 /\ ReadDevice(Child, 0)
      /\ UNCHANGED <<shell, args, printed>> /\ out' = <<>>
      /\ CASE cnt > NAME -> at' = "lost" /\ UNCHANGED <<local, rval>>
           [] cnt = 0 -> Halt(0) /\ UNCHANGED local
           [] cnt \in 1 .. NAME ->
                IF line[1] = Dot[1] THEN UNCHANGED <<at, rval, local>>
                ELSE /\ local' = [local EXCEPT !.name = name]
                     /\ at' = "grep_open"
                     /\ UNCHANGED rval
  BY DEF GrepKeyboard, cnt, name
<1>6. CASE cnt > NAME
  <2>1. cnt # 0 /\ cnt \notin 1 .. NAME
    BY <1>1, <1>2, <1>6
  <2>2. at' = "lost" /\ UNCHANGED <<local, rval>>
    BY <1>5, <1>6, <2>1
  <2> QED BY <1>5, <2>2
<1>7. CASE cnt = 0
  BY <1>1, <1>5, <1>7 DEF Halt
<1>8. CASE cnt \in 1 .. NAME
  <2>1. IF line[1] = Dot[1] THEN UNCHANGED <<at, rval, local>>
        ELSE /\ local' = [local EXCEPT !.name = name]
             /\ at' = "grep_open"
             /\ UNCHANGED rval
    BY <1>1, <1>5, <1>8
  <2>2. CASE line[1] = Dot[1]
    BY <1>5, <2>1, <2>2
  <2>3. CASE line[1] # Dot[1]
    <3>1. local' = [local EXCEPT !.name = name] /\ at' = "grep_open" /\ UNCHANGED rval
      BY <2>1, <2>3
    <3>2. "name" \in Fields
      BY DEF Fields
    <3>3. /\ DOMAIN local' = Fields /\ local'.name = name
          /\ \A f \in Fields \ {"name"} : local'[f] = local[f]
      BY <3>1, <3>2
    <3> QED BY <1>3, <1>5, <1>8, <2>3, <3>1, <3>3
  <2> QED BY <2>2, <2>3
<1> QED BY <1>4, <1>6, <1>7, <1>8

\* A line that is too long for grep's buffer.
LEMMA GrepLoses ==
    ASSUME PhaseInv, GrepLost
    PROVE  /\ at = "grep_entry" /\ at' = "lost" /\ local.prog = "grep" /\ local.dir = 0
           /\ UNCHANGED <<shell, args, local, printed>> /\ out' = <<>> /\ rval' \in {0, rval}
           /\ ReadDevice(Child, 0)
<1>1. DOMAIN local = Fields
  BY LocalFields DEF PhaseInv
<1>2. PICK line \in Answers : GrepKeyboard(line) /\ at' = "lost"
  BY DEF GrepLost
<1>3. /\ at = "grep_entry" /\ local.dir = 0 /\ ReadDevice(Child, 0)
      /\ UNCHANGED <<shell, args, local, printed>> /\ out' = <<>> /\ rval' \in {0, rval}
  BY <1>1, <1>2, GrepKeyboardMoves
<1> QED BY <1>2, <1>3 DEF PhaseInv, GrepLabels

LEMMA GrepMoves ==
    ASSUME PhaseInv, GrepStep
    PROVE  Moves(GrepLabels, "grep")
<1>0. DOMAIN local = Fields /\ {"fd", "dir", "name", "prog"} \subseteq Fields
  BY LocalFields DEF PhaseInv, Fields
<1>p. at \in GrepLabels => local.prog = "grep"
  BY DEF PhaseInv
<1> DEFINE Goal == /\ at \in GrepLabels /\ at' \in (GrepLabels \ FirstLabels) \cup {"returned"}
                   /\ DOMAIN local' = Fields /\ local'.prog = local.prog
                   /\ UNCHANGED <<shell, args>>
<1>1. ASSUME GrepArgs PROVE Goal
  BY <1>0, <1>1, GetArgsMoves DEF GrepArgs, GrepLabels, FirstLabels
<1>2. ASSUME GrepDir PROVE Goal
  <2>1. OpenFor("grep_dir", "grep_entry", Dot, "dir", 2)
    BY <1>2 DEF GrepDir
  <2>2. /\ at = "grep_dir" /\ at' \in {"grep_entry", "returned"} /\ DOMAIN local' = Fields
        /\ local'.prog = local.prog /\ UNCHANGED <<shell, args>>
    <3>1. "dir" \in Fields /\ "prog" \in Fields \ {"dir"}
      BY DEF Fields
    <3> QED BY <1>0, <2>1, <3>1, OpenForMoves
  <2> QED BY <2>2 DEF GrepLabels, FirstLabels, FileLabels
<1>3. ASSUME GrepEntry PROVE Goal
  <2>1. /\ at = "grep_entry" /\ at' \in {"grep_entry", "grep_open", "returned"}
        /\ UNCHANGED <<shell, args>>
        /\ \/ UNCHANGED local
           \/ \E l \in PutBehind("dir", 0) : local' = [l EXCEPT !.name = Chars(buf'[Child])]
    BY <1>3 DEF GrepEntry, Halt
  <2>2. DOMAIN local' = Fields /\ local'.prog = local.prog
    BY <1>0, <2>1 DEF PutBehind, Fields
  <2> QED BY <2>1, <2>2 DEF GrepLabels, FirstLabels
<1>l. ASSUME GrepLine PROVE Goal
  <2>1. PICK line \in Answers : GrepKeyboard(line) /\ at' # "lost"
    BY <1>l DEF GrepLine
  <2>2. /\ at = "grep_entry" /\ at' \in {"grep_entry", "grep_open", "returned"}
        /\ UNCHANGED <<shell, args>> /\ DOMAIN local' = Fields /\ local'.prog = local.prog
    <3>1. "prog" \in Fields \ {"name"}
      BY DEF Fields
    <3> QED BY <1>0, <2>1, <3>1, GrepKeyboardMoves
  <2> QED BY <2>2 DEF GrepLabels, FirstLabels
<1>4. ASSUME GrepOpen PROVE Goal
  <2>1. OpenFor("grep_open", "grep_buffer", local.name, "fd", 3)
    BY <1>4 DEF GrepOpen
  <2>2. /\ at = "grep_open" /\ at' \in {"grep_buffer", "returned"} /\ DOMAIN local' = Fields
        /\ local'.prog = local.prog /\ UNCHANGED <<shell, args>>
    <3>1. "fd" \in Fields /\ "prog" \in Fields \ {"fd"}
      BY DEF Fields
    <3> QED BY <1>0, <2>1, <3>1, OpenForMoves
  <2> QED BY <2>2 DEF GrepLabels, FirstLabels, FileLabels
<1>5. ASSUME NEW c \in Stale, GrepBuffer(c) PROVE Goal
  BY <1>0, <1>5 DEF GrepBuffer, GrepLabels, FirstLabels, FileLabels, Fields
<1>6. ASSUME GrepRead PROVE Goal
  BY <1>0, <1>6 DEF GrepRead, GrepLabels, FirstLabels, FileLabels, Fields, Halt
<1>7. ASSUME GrepMove PROVE Goal
  <2>1. PICK end \in {line_end} : local' = Moved(Stored(local.data, end, <<NUL>>))
    BY <1>7 DEF GrepMove
  <2>2. at = "grep_line" /\ at' = "grep_read" /\ UNCHANGED <<shell, args>>
    BY <1>7 DEF GrepMove
  <2>3. DOMAIN local' = Fields /\ local'.prog = local.prog
    BY <1>0, <2>1 DEF Moved, Fields
  <2> QED BY <2>2, <2>3 DEF GrepLabels, FirstLabels, FileLabels
<1>8. ASSUME GrepSearch PROVE Goal
  <2>1. PICK end \in {line_end} : \E data \in {Stored(local.data, end, <<NUL>>)} :
          LET over == end + 1 >= local.last IN
          /\ local' = [local EXCEPT !.data = data, !.line_start = end + 1,
                                    !.last = IF over THEN 0 ELSE @]
          /\ at' = CASE ~over -> "grep_line"
                     [] over /\ local.cnt = 0 -> "grep_close"
                     [] over /\ local.cnt # 0 -> "grep_read"
    BY <1>8 DEF GrepSearch
  <2>2. at = "grep_line" /\ UNCHANGED <<shell, args>>
    BY <1>8 DEF GrepSearch
  <2>3. at' \in {"grep_line", "grep_close", "grep_read"}
    BY <2>1
  <2>4. DOMAIN local' = Fields /\ local'.prog = local.prog
    BY <1>0, <2>1 DEF Fields
  <2> QED BY <2>2, <2>3, <2>4 DEF GrepLabels, FirstLabels, FileLabels
<1>9. ASSUME GrepClose PROVE Goal
  BY <1>0, <1>9 DEF GrepClose, GrepLabels, FirstLabels, FileLabels, Fields
<1>10. Goal
  <2> HIDE DEF Goal
  <2> QED BY <1>1, <1>2, <1>3, <1>l, <1>4, <1>5, <1>6, <1>7, <1>8, <1>9
          DEF GrepStep, GrepFileStep
<1> QED BY <1>10, <1>p DEF Moves

LEMMA CountMoves ==
    ASSUME PhaseInv, CountStep
    PROVE  Moves(CountLabels, "counter")
<1>0. DOMAIN local = Fields
  BY LocalFields DEF PhaseInv
<1>1. ASSUME NEW line, CounterRead(line) PROVE Moves(CountLabels, "counter")
  <2>1. /\ at = "counter" /\ at' \in {"count", "returned"} /\ UNCHANGED <<shell, args>>
        /\ UNCHANGED local
             \/ local' = [local EXCEPT !.max = IF line = <<>> THEN 0 ELSE LIMITS[line[1] - 47]]
    BY <1>1 DEF CounterRead, Halt
  <2> QED BY <1>0, <2>1 DEF Moves, CountLabels, FirstLabels, PhaseInv, Fields
<1>2. CASE Count
  <2>1. /\ at = "count" /\ at' \in {"count", "returned"} /\ UNCHANGED <<shell, args>>
        /\ UNCHANGED local \/ local' = [local EXCEPT !.i = @ + 1]
    BY <1>2 DEF Count, Halt
  <2> QED BY <1>0, <2>1 DEF Moves, CountLabels, FirstLabels, PhaseInv, Fields
<1> QED BY <1>1, <1>2 DEF CountStep

LEMMA SyserrMoves ==
    ASSUME PhaseInv, SyserrStep
    PROVE  Moves(SyserrLabels, "syserr")
<1>0. DOMAIN local = Fields
  BY LocalFields DEF PhaseInv
<1>1. ASSUME NEW line, SyserrRead(line) PROVE Moves(SyserrLabels, "syserr")
  <2>1. /\ at = "syserr" /\ at' \in {"syserr_test", "returned"} /\ UNCHANGED <<shell, args>>
        /\ UNCHANGED local
             \/ \E todo : local' = [local EXCEPT !.i = 1, !.todo = todo]
    BY <1>1 DEF SyserrRead, Halt
  <2> QED BY <1>0, <2>1 DEF Moves, SyserrLabels, FirstLabels, PhaseInv, Fields
<1>2. CASE SyserrCall
  <2>1. at = "syserr_test" /\ at' = "syserr_test" /\ UNCHANGED <<shell, args>>
    BY <1>2 DEF SyserrCall
  <2>2. \E cnt : local' = [local EXCEPT !.i = @ + 1, !.cnt = cnt]
    BY <1>2 DEF SyserrCall
  <2> QED BY <1>0, <2>1, <2>2 DEF Moves, SyserrLabels, FirstLabels, PhaseInv, Fields
<1>3. CASE SyserrVerdict
  <2>1. /\ at = "syserr_test" /\ at' \in {"syserr_test", "returned"}
        /\ UNCHANGED <<shell, args>>
        /\ local' = [local EXCEPT !.i = 1, !.cnt = 0, !.todo = Tail(@)]
    BY <1>3 DEF SyserrVerdict, Halt
  <2> QED BY <1>0, <2>1 DEF Moves, SyserrLabels, FirstLabels, PhaseInv, Fields
<1> QED BY <1>1, <1>2, <1>3 DEF SyserrStep


\* The kernel and the shell: between commands there is no program.
LEMMA KernelMoves ==
    ASSUME PhaseInv, KernelStep
    PROVE  /\ at \in KernelLabels \cup {"returned"}
           /\ at' \in KernelLabels \cup {"lost", "returned"}
           /\ DOMAIN local' = Fields /\ local'.prog = "none"
           /\ out' = <<>>
<1>0. DOMAIN local = Fields
  BY LocalFields DEF PhaseInv
<1>1. at \in KernelLabels => local.prog = "none" /\ out = <<>>
  BY DEF PhaseInv
<1> DEFINE Goal == /\ at \in KernelLabels \cup {"returned"}
                   /\ at' \in KernelLabels \cup {"lost", "returned"}
                   /\ DOMAIN local' = Fields /\ local'.prog = "none"
                   /\ out' = <<>>
<1>2. ASSUME BootStep PROVE Goal
  <2>1. at \in {"boot", "printed"} /\ at' \in {"boot", "printed", "prompt"} /\ UNCHANGED <<local, out>>
    BY <1>2 DEF BootStep, BootPrint, BootPrinted, BootShell, child
  <2> QED BY <1>0, <1>1, <2>1 DEF KernelLabels
<1>3. ASSUME NEW line, ShellRead(line) PROVE Goal
  <2>1. at = "prompt" /\ at' \in {"exit", "prompt", "execute"} /\ UNCHANGED <<local, out>>
    BY <1>3 DEF ShellRead, child
  <2> QED BY <1>0, <1>1, <2>1 DEF KernelLabels
<1>4. ASSUME ShellExit PROVE Goal
  BY <1>0, <1>1, <1>4 DEF ShellExit, child, KernelLabels
<1>5. ASSUME ShellReport PROVE Goal
  <2>1. NoLocals.prog = "none"
    BY DEF NoLocals
  <2> QED BY <1>5, <2>1, LocalFields DEF ShellReport, KernelLabels
<1>6. ASSUME ExecuteParse PROVE Goal
  <2>1. /\ at = "execute" /\ at' = "parsed" /\ UNCHANGED out
        /\ \E n \in {cmd_leng} :
             local' = [local EXCEPT !.word = Bytes(line_buf, 0, n), !.from = ArgsAt(n),
                                    !.leng = strlen(line_buf, ArgsAt(n))]
    BY <1>6 DEF ExecuteParse
  <2> QED BY <1>0, <1>1, <2>1 DEF KernelLabels, Fields
<1>7. ASSUME ExecuteOverrun \/ ExecuteFail \/ ExecuteClear PROVE Goal
  <2>1. at = "parsed" /\ at' \in {"lost", "returned"} /\ UNCHANGED <<local, out>>
    BY <1>7 DEF ExecuteOverrun, ExecuteFail, ExecuteClear, child
  <2> QED BY <1>0, <1>1, <2>1 DEF KernelLabels
<1>8. Goal
  <2> HIDE DEF Goal
  <2> QED BY <1>2, <1>3, <1>4, <1>5, <1>6, <1>7 DEF KernelStep, ShellStep
<1> QED BY <1>8


\* Bytes of a file as characters.
LEMMA CharsOfBytes ==
    ASSUME NEW d \in Seq(ByteNames)
    PROVE  Chars(d) = [i \in 1 .. Len(d) |-> session.disk[d[i][1]][d[i][2]]]
<1>1. ASSUME NEW i \in 1 .. Len(d) PROVE Char(d[i]) = session.disk[d[i][1]][d[i][2]]
  <2>1. d[i] \in ByteNames
    BY ElementOfSeq
  <2>2. ~(d[i][1] < 0)
    BY <2>1 DEF ByteNames
  <2> QED BY <2>2 DEF Char
<1> QED BY <1>1 DEF Chars

LEMMA BytesOf ==
    ASSUME NEW inode \in DOMAIN Inodes, NEW a \in Nat, NEW b \in Nat, a <= b,
           b <= Inodes[inode].length
    PROVE  LET d == SubSeq(Content(inode), a + 1, b) IN
           /\ d \in Seq(ByteNames) /\ Len(d) = b - a
           /\ \A i \in 1 .. b - a : d[i] = Content(inode)[a + i]
<1>1. Content(inode) \in Seq(ByteNames) /\ Len(Content(inode)) = Inodes[inode].length
  BY ContentIsSeq
<1> QED BY <1>1, Piece

\* What execute loads as a program is one of the programs.
LEMMA ProgramRuns ==
    ASSUME session \in Sessions, NEW name, Matches(name) # {},
           IsElf(DentryOf(name).inode_num)
    PROVE  ProgramAt[DentryOf(name).inode_num] \in FirstLabels
<1>1. PICK e \in 1 .. num_of_entries : DentryOf(name) = Dentries[e]
  BY GoodDescriptors
<1> DEFINE n == Dentries[e].inode_num
           header == read_data(n, 0, 1)
<1>2. n \in DOMAIN Inodes
  BY DirectoryAssumption
<1> HIDE DEF n
<1>3. header.val > 0 /\ Chars(header.data)[1] = Elf
  BY <1>1 DEF IsElf, n
<1>4. Inodes[n].length \in Nat /\ 0 <= Inodes[n].length
  BY <1>2, ImageAssumption
<1>5. PICK m \in 0 .. Inodes[n].length - 0 :
        /\ m <= 1
        /\ header = [val |-> m, data |-> SubSeq(Content(n), 0 + 1, 0 + m)]
  <2>1. header # Failed
    BY <1>3 DEF Failed
  <2> QED BY <1>2, <1>4, <2>1, ReadResult
<1>6. m = 1 /\ Inodes[n].length > 0 /\ 1 <= Inodes[n].length
  BY <1>3, <1>4, <1>5
<1>7. 0 \div BLOCK = 0 /\ 0 % BLOCK = 0
  BY FilesAssumption
<1>8. BlockNumber(n, 0) <= num_of_blocks
  <2>1. ~(0 > Inodes[n].length)
    BY <1>4
  <2>2. header # Failed
    BY <1>3 DEF Failed
  <2>3. ~(BlockNumber(n, 0 \div BLOCK) > num_of_blocks)
    BY <2>1, <2>2 DEF read_data
  <2>4. BlockNumber(n, 0) \in Nat /\ num_of_blocks \in Nat
    BY <1>2, <1>6, <1>7, BlockExists, FilesAssumption
  <2> QED BY <1>7, <2>3, <2>4
<1> DEFINE d == SubSeq(Content(n), 0 + 1, 1)
<1>9. d \in Seq(ByteNames) /\ Len(d) = 1 /\ d[1] = Content(n)[1]
  <2>1. 1 - 0 = 1 /\ 0 + 1 = 1 /\ 1 \in 1 .. 1 - 0 /\ 0 \in Nat /\ 1 \in Nat /\ 0 <= 1
    OBVIOUS
  <2>2. /\ d \in Seq(ByteNames) /\ Len(d) = 1 - 0
        /\ \A i \in 1 .. 1 - 0 : d[i] = Content(n)[0 + i]
    BY <1>2, <1>6, <2>1, BytesOf
  <2> QED BY <2>1, <2>2
<1>10. header.data = d
  BY <1>5, <1>6
<1>11. Content(n)[1] = <<BlockNumber(n, 0), 0>>
  <2>1. Content(n)[0 + 1] = Byte(BlockNumber(n, 0 \div BLOCK), 0 % BLOCK)
    BY <1>2, <1>6, ContentIsSeq
  <2> QED BY <1>7, <2>1 DEF Byte
<1>12. session.disk[BlockNumber(n, 0)][0] = Elf
  <2> HIDE DEF d
  <2>1. Chars(d) = [i \in 1 .. Len(d) |-> session.disk[d[i][1]][d[i][2]]]
    BY <1>9, CharsOfBytes
  <2>2. Chars(d)[1] = session.disk[d[1][1]][d[1][2]]
    BY <1>9, <2>1
  <2>3. d[1][1] = BlockNumber(n, 0) /\ d[1][2] = 0
    BY <1>9, <1>11
  <2> QED BY <1>3, <1>10, <2>2, <2>3
<1>13. StartsElf(session.disk, n)
  BY <1>6, <1>8, <1>12 DEF StartsElf
<1>14. ProgramAt[n] \in {"cat", "ls", "grep", "counter", "syserr"}
  BY <1>13, SessionsAssumption DEF n
<1> QED BY <1>1, <1>14 DEF FirstLabels, n

\* execute starts one of the programs, with nothing written yet and no descriptor
\* but stdin and stdout in use.
LEMMA ExecuteRunMoves ==
    ASSUME FilesInv, PhaseInv, session \in Sessions, ExecuteRun
    PROVE  /\ at = "parsed" /\ at' \in FirstLabels
           /\ local' = [NoLocals EXCEPT !.prog = at'] /\ DOMAIN local' = Fields
           /\ local'.prog = at'
           /\ out' = <<>> /\ UNCHANGED <<shell, rval>>
           /\ FilesInv' /\ InUse' = {}
<1>1. PICK prog \in {ProgramAt[DentryOf(local.word).inode_num]} :
        at' = prog /\ local' = [NoLocals EXCEPT !.prog = prog]
  BY DEF ExecuteRun
<1>2. Runs /\ at = "parsed" /\ UNCHANGED <<shell, rval, out>> /\ Execute(Child)
  BY DEF ExecuteRun
<1>3. at' \in FirstLabels
  BY <1>1, <1>2, ProgramRuns DEF Runs
<1>4. out = <<>>
  BY <1>2 DEF PhaseInv, KernelLabels
<1>5. DOMAIN local' = Fields /\ local'.prog = at'
  BY <1>1, LocalFields DEF Fields
<1>6. Child \in Procs
  BY SizesAssumption
<1>7. FilesInv'
  BY <1>2, <1>6, ExecuteKeeps
<1>8. InUse' = {}
  <2>1. Table(Child) \in [Fds -> Goods]
    BY <1>6 DEF FilesInv, Table
  <2>2. Table(Child)' = Fresh(Table(Child))
    BY <1>2, <1>6 DEF Execute, Table, FilesInv
  <2>3. \A fd \in Fds \ {0, 1} : Fresh(Table(Child))[fd].flags = 0
    BY <2>1, FreshIsGood
  <2> QED BY <2>2, <2>3 DEF InUse
<1> QED BY <1>1, <1>2, <1>3, <1>4, <1>5, <1>7, <1>8


-----------------------------------------------------------------------------
(* Every step keeps the invariant, one part after the other.                *)

LEMMA PhaseStep ==
    ASSUME ProgramsInv, [ProgramsNext]_all
    PROVE  PhaseInv'
<1>0. PhaseInv /\ FilesInv /\ DOMAIN local = Fields /\ DOMAIN NoLocals = Fields
  BY LocalFields DEF ProgramsInv, PhaseInv
<1> USE DEF Labels, KernelLabels, CatLabels, LsLabels, FileLabels, GrepLabels, CountLabels,
            SyserrLabels, FirstLabels
<1>1. CASE UNCHANGED all
  BY <1>0, <1>1 DEF PhaseInv, all, child
<1>2. CASE KernelStep
  BY <1>0, <1>2, KernelMoves DEF PhaseInv
<1>3. CASE ExecuteRun
  <2>1. session \in Sessions
    BY <1>3 DEF ExecuteRun, ProgramsInv, ShellInv
  <2> QED BY <1>0, <1>3, <2>1, ExecuteRunMoves DEF PhaseInv
<1>4. CASE CatStep
  <2>1. Moves(CatLabels, "cat")
    BY <1>0, <1>4, CatMoves
  <2>2. at' = "cat_open" => out' = <<>>
    <3>1. CASE CatArgs
      BY <1>0, <3>1 DEF CatArgs, GetArgs, PhaseInv
    <3>2. CASE CatOpen
      BY <3>2 DEF CatOpen, OpenFor, Halt
    <3>3. CASE CatRead
      BY <3>3 DEF CatRead, Got, Halt
    <3> QED BY <1>4, <3>1, <3>2, <3>3 DEF CatStep
  <2> QED BY <1>0, <2>1, <2>2 DEF Moves, PhaseInv
<1>5. CASE LsStep
  <2>1. Moves(LsLabels, "ls")
    BY <1>0, <1>5, LsMoves
  <2> QED BY <1>0, <2>1 DEF Moves, PhaseInv
<1>6. CASE GrepStep
  <2>1. Moves(GrepLabels, "grep")
    BY <1>0, <1>6, GrepMoves
  <2> QED BY <1>0, <2>1 DEF Moves, PhaseInv
<1>l. CASE GrepLost
  BY <1>0, <1>l, GrepLoses DEF PhaseInv
<1>7. CASE CountStep
  <2>1. Moves(CountLabels, "counter")
    BY <1>0, <1>7, CountMoves
  <2> QED BY <1>0, <2>1 DEF Moves, PhaseInv
<1>8. CASE SyserrStep
  <2>1. Moves(SyserrLabels, "syserr")
    BY <1>0, <1>8, SyserrMoves
  <2> QED BY <1>0, <2>1 DEF Moves, PhaseInv
<1> QED BY <1>1, <1>2, <1>3, <1>4, <1>5, <1>6, <1>l, <1>7, <1>8, StepCases

\* A read by the child, whatever the descriptor stands for.
LEMMA ReadAnyKeeps ==
    ASSUME FilesInv, NEW fd, NEW n \in Int, ReadAny(fd, n)
    PROVE  FilesInv'
<1>1. Child \in Procs
  BY SizesAssumption
<1>2. CASE ReadFile(Child, fd, n)
  BY <1>1, <1>2, ReadFileKeeps
<1>3. CASE ReadDirectory(Child, fd)
  BY <1>1, <1>3, ReadDirectoryKeeps
<1>4. CASE ReadDevice(Child, fd)
  BY <1>1, <1>4, QuietKeeps DEF ReadDevice
<1>5. CASE ReadFail(Child, fd)
  BY <1>1, <1>5, QuietKeeps DEF ReadFail
<1> QED BY <1>2, <1>3, <1>4, <1>5 DEF ReadAny

\* A read fails without a descriptor in use.
LEMMA ReadsNoDescriptor ==
    ASSUME FilesInv, NEW fd, fd \notin Fds, NEW n, ReadAny(fd, n)
    PROVE  ret'[Child] = -1
<1>1. ReadFail(Child, fd)
  BY DEF ReadAny, ReadFile, ReadDirectory, ReadDevice, Readable
<1> QED BY <1>1, SizesAssumption DEF ReadFail, Result, Failed, FilesInv

LEMMA OpenForKeeps ==
    ASSUME FilesInv, NEW label, NEW next, NEW name, NEW f, NEW status,
           OpenFor(label, next, name, f, status)
    PROVE  FilesInv'
<1>1. Child \in Procs
  BY SizesAssumption
<1>2. CASE Open(Child, name)
  BY <1>1, <1>2, OpenKeeps
<1>3. CASE OpenFail(Child, name)
  BY <1>1, <1>3, QuietKeeps DEF OpenFail
<1> QED BY <1>2, <1>3 DEF OpenFor

LEMMA SystemCallKeeps ==
    ASSUME FilesInv, NEW call, SystemCall(Child, call)
    PROVE  FilesInv'
<1>1. Child \in Procs /\ 31 \in Int
  BY SizesAssumption
<1>2. CASE Open(Child, call.arg)
  BY <1>1, <1>2, OpenKeeps
<1>3. CASE Close(Child, call.arg)
  BY <1>1, <1>3, CloseKeeps
<1>4. CASE ReadDirectory(Child, call.arg)
  BY <1>1, <1>4, ReadDirectoryKeeps
<1>5. CASE ReadFile(Child, call.arg, 31)
  BY <1>1, <1>5, ReadFileKeeps
<1>6. CASE OpenFail(Child, call.arg) \/ CloseFail(Child, call.arg)
             \/ ReadFail(Child, call.arg) \/ ReadDevice(Child, call.arg)
             \/ WriteFail(Child, call.arg) \/ WriteDevice(Child, call.arg)
  BY <1>1, <1>6, QuietKeeps DEF OpenFail, CloseFail, ReadFail, ReadDevice, WriteFail, WriteDevice
<1>7. CASE UNCHANGED filesys_desc_array
             /\ Result(Child, [val |-> vidmap(call.arg), data |-> <<>>])
  <2> DEFINE r == [val |-> vidmap(call.arg), data |-> <<>>]
  <2>1. r.val \in Int
    BY DEF vidmap
  <2> HIDE DEF r
  <2> QED BY <1>1, <1>7, <2>1, Replaces DEF r
<1>8. CASE UNCHANGED filesys_desc_array /\ Result(Child, Failed)
  BY <1>1, <1>8, QuietKeeps
<1> QED BY <1>2, <1>3, <1>4, <1>5, <1>6, <1>7, <1>8 DEF SystemCall

LEMMA FilesKept ==
    ASSUME ProgramsInv, [ProgramsNext]_all
    PROVE  FilesInv'
<1>0. FilesInv /\ Child \in Procs /\ Shell \in Procs /\ CAT_BUF \in Int /\ NAME \in Int
        /\ BUFSIZE - local.last \in Int
  BY SizesAssumption, FilesAssumption DEF ProgramsInv, GrepInv
<1>p. PhaseInv /\ DOMAIN local = Fields
  BY LocalFields DEF ProgramsInv, PhaseInv
<1>1. ASSUME UNCHANGED vars PROVE FilesInv'
  BY <1>0, <1>1 DEF vars, FilesInv, Table
<1>2. CASE UNCHANGED all
  BY <1>1, <1>2 DEF all
<1>3. CASE KernelStep
  <2>1. CASE BootStep \/ ShellReport \/ ExecuteParse \/ ExecuteOverrun \/ ExecuteFail
               \/ ExecuteClear
    BY <1>1, <2>1 DEF BootStep, BootPrint, BootPrinted, BootShell, ShellReport, ExecuteParse,
                      ExecuteOverrun, ExecuteFail, ExecuteClear
  <2>2. ASSUME NEW line, ShellRead(line) PROVE FilesInv'
    BY <1>0, <2>2, QuietKeeps DEF ShellRead, ReadDevice
  <2>3. CASE ShellExit
    BY <1>0, <2>3, ExecuteKeeps DEF ShellExit
  <2> QED BY <1>3, <2>1, <2>2, <2>3 DEF KernelStep, ShellStep
<1>4. CASE ExecuteRun
  BY <1>0, <1>4, ExecuteKeeps DEF ExecuteRun
<1>5. CASE CatStep
  BY <1>0, <1>1, <1>5, OpenForKeeps, ReadAnyKeeps DEF CatStep, CatArgs, GetArgs, CatOpen, CatRead
<1>6. CASE LsStep
  BY <1>0, <1>6, OpenForKeeps, ReadAnyKeeps DEF LsStep, LsOpen, LsRead
<1>7. CASE GrepStep
  <2>1. CASE GrepArgs \/ (\E c \in Stale : GrepBuffer(c)) \/ GrepMove \/ GrepSearch
    BY <1>1, <2>1 DEF GrepArgs, GetArgs, GrepBuffer, GrepMove, GrepSearch
  <2>2. CASE GrepDir \/ GrepOpen
    BY <1>0, <2>2, OpenForKeeps DEF GrepDir, GrepOpen
  <2>3. CASE GrepEntry \/ GrepRead
    BY <1>0, <2>3, ReadAnyKeeps DEF GrepEntry, GrepRead
  <2>4. CASE GrepClose
    BY <1>0, <2>4, CloseKeeps DEF GrepClose
  <2>5. CASE GrepLine
    BY <1>0, <1>p, <2>5, GrepKeyboardMoves, QuietKeeps DEF GrepLine, ReadDevice
  <2> QED BY <1>7, <2>1, <2>2, <2>3, <2>4, <2>5 DEF GrepStep, GrepFileStep
<1>l. CASE GrepLost
  BY <1>0, <1>p, <1>l, GrepLoses, QuietKeeps DEF ReadDevice
<1>8. CASE CountStep
  BY <1>0, <1>1, <1>8, QuietKeeps DEF CountStep, CounterRead, Count, ReadDevice
<1>9. CASE SyserrStep
  <2>1. ASSUME NEW line, SyserrRead(line) PROVE FilesInv'
    BY <1>0, <2>1, QuietKeeps DEF SyserrRead, ReadDevice
  <2>2. CASE SyserrCall
    BY <1>0, <2>2, SystemCallKeeps DEF SyserrCall
  <2>3. CASE SyserrVerdict
    BY <1>1, <2>3 DEF SyserrVerdict
  <2> QED BY <1>9, <2>1, <2>2, <2>3 DEF SyserrStep
<1> QED BY <1>2, <1>3, <1>4, <1>5, <1>6, <1>7, <1>l, <1>8, <1>9, StepCases


-----------------------------------------------------------------------------
(* The shell's buffer and the arguments.                                    *)

\* A line typed at the prompt ends up at the front of the buffer, with a NUL.
LEMMA ShellReadStores ==
    ASSUME ShellInv, NEW line, Typed(line), ShellRead(line)
    PROVE  /\ DOMAIN line_buf' = Buffer
           /\ \A k \in Buffer :
                line_buf'[k] = IF k <= Len(line) THEN CharAt(line, k) ELSE line_buf[k]
<1> DEFINE n == Copied(line, SHELL_BUF - 1)
           s == SubSeq(line, 1, n)
           t == Append(s, NUL)
           m == Stored(line_buf, 0, t)
           cnt == LineLength(m, n)
<1>1. /\ line \in Seq(Nat) /\ Len(line) \in Nat /\ Len(line) <= LINE /\ LINE + 1 < SHELL_BUF
      /\ SHELL_BUF \in Nat /\ LINE \in Nat
  BY SizesAssumption DEF Typed
<1>2. n = Len(line)
  BY <1>1 DEF Copied
<1>3. s = line
  BY <1>1, <1>2, SubSeqFull
<1> HIDE DEF n, s
<1>4. /\ Len(t) = n + 1 /\ t[n + 1] = NUL
      /\ \A i \in 1 .. n : t[i] = line[i]
  BY <1>1, <1>2, <1>3
<1> HIDE DEF t
<1>5. DOMAIN line_buf = Buffer
  BY DEF ShellInv
<1>6. \A k \in Buffer : m[k] = IF k <= Len(line) THEN CharAt(line, k) ELSE line_buf[k]
  <2> SUFFICES ASSUME NEW k \in Buffer
               PROVE  m[k] = IF k <= Len(line) THEN CharAt(line, k) ELSE line_buf[k]
    OBVIOUS
  <2>1. m[k] = IF k \in 0 .. 0 + Len(t) - 1 THEN t[k - 0 + 1] ELSE line_buf[k]
    BY <1>5 DEF Stored
  <2>2. k \in Nat
    BY <1>1 DEF Buffer
  <2>3. CASE k < Len(line)
    BY <1>1, <1>2, <1>4, <2>1, <2>2, <2>3 DEF CharAt
  <2>4. CASE k = Len(line)
    BY <1>1, <1>2, <1>4, <2>1, <2>2, <2>4 DEF CharAt
  <2>5. CASE k > Len(line)
    BY <1>1, <1>2, <1>4, <2>1, <2>2, <2>5 DEF CharAt
  <2> QED BY <1>1, <2>2, <2>3, <2>4, <2>5
<1>7. DOMAIN m = Buffer
  BY <1>5 DEF Stored
<1> HIDE DEF m
<1>8. cnt = n
  <2>1. ASSUME n > 0, m[n - 1] = NL PROVE FALSE
    <3>1. n - 1 \in Buffer /\ n - 1 < Len(line) /\ n \in 1 .. Len(line)
      BY <1>1, <1>2, <2>1 DEF Buffer
    <3>2. m[n - 1] = line[n]
      BY <1>1, <1>2, <1>6, <3>1 DEF CharAt
    <3> QED BY <2>1, <3>1, <3>2 DEF Typed
  <2> QED BY <2>1 DEF LineLength
<1>9. line_buf' = Stored(m, n, <<NUL>>)
  BY <1>8 DEF ShellRead, Read, n, m, t, s
<1>10. n \in Buffer /\ m[n] = NUL
  BY <1>1, <1>2, <1>6 DEF Buffer, CharAt
<1>11. ASSUME NEW k \in Buffer PROVE line_buf'[k] = m[k]
  <2>1. line_buf'[k] = IF k \in n .. n + Len(<<NUL>>) - 1 THEN <<NUL>>[k - n + 1] ELSE m[k]
    BY <1>7, <1>9 DEF Stored
  <2>2. CASE k = n
    BY <1>1, <1>2, <1>10, <2>1, <2>2
  <2>3. CASE k # n
    <3>1. k \in Nat /\ n \in Nat
      BY <1>1, <1>2 DEF Buffer
    <3> QED BY <2>1, <2>3, <3>1
  <2> QED BY <2>2, <2>3
<1>12. DOMAIN line_buf' = Buffer
  BY <1>7, <1>9 DEF Stored
<1> QED BY <1>6, <1>11, <1>12

LEMMA EmptyTyped == Typed(<<>>)
BY SizesAssumption DEF Typed

LEMMA ShellKept ==
    ASSUME ProgramsInv, [ProgramsNext]_all
    PROVE  ShellInv'
<1>0. /\ PhaseInv /\ FilesInv /\ ShellInv
      /\ SHELL_BUF \in Nat /\ LINE \in Nat /\ LINE + 1 < SHELL_BUF
  BY SizesAssumption DEF ProgramsInv
<1>1. ASSUME UNCHANGED shell, at' \in {"boot", "printed"} <=> at \in {"boot", "printed"}
      PROVE  ShellInv'
  BY <1>0, <1>1 DEF ShellInv, shell
<1>2. ASSUME NEW labels, NEW prog, Moves(labels, prog),
             labels \cap {"boot", "printed"} = {}
      PROVE  ShellInv'
  BY <1>1, <1>2 DEF Moves
<1>3. CASE UNCHANGED all
  BY <1>1, <1>3 DEF all
<1>4. ASSUME NEW s \in Sessions, BootShell(s) PROVE ShellInv'
  <2> DEFINE o == s.leftover
  <2>1. Typed(o) /\ s.lines = s.lines
    BY SessionsAssumption
  <2>2. /\ at' = "prompt" /\ session' = s /\ line_buf' = Stored(line_buf, 0, o)
        /\ origin' = [k \in Buffer |-> o] /\ at = "boot"
    BY <1>0, <1>4 DEF BootShell, ShellInv
  <2> HIDE DEF o
  <2>3. ASSUME NEW k \in Buffer PROVE line_buf'[k] = CharAt(o, k) /\ line_buf[k] = NUL
    <3>1. line_buf[k] = NUL
      BY <1>0, <2>2 DEF ShellInv, CharAt, Buffer
    <3>2. line_buf'[k] = IF k \in 0 .. 0 + Len(o) - 1 THEN o[k - 0 + 1] ELSE line_buf[k]
      BY <1>0, <2>2 DEF ShellInv, Stored
    <3> QED BY <1>0, <2>1, <3>1, <3>2 DEF CharAt, Buffer, Typed
  <2>4. DOMAIN line_buf' = Buffer /\ DOMAIN origin' = Buffer
    BY <1>0, <2>2 DEF ShellInv, Stored
  <2>5. ASSUME NEW k \in Buffer, NEW j \in k .. Len(o) PROVE origin'[j] = origin'[k]
    <3>1. j \in Buffer
      BY <1>0, <2>1 DEF Buffer, Typed
    <3> QED BY <2>2, <3>1
  <2> QED BY <2>1, <2>2, <2>3, <2>4, <2>5 DEF ShellInv
<1>5. ASSUME NEW line \in session.lines, ShellRead(line) PROVE ShellInv'
  <2>1. at = "prompt" /\ at' \in {"exit", "prompt", "execute"} /\ UNCHANGED session
    BY <1>5 DEF ShellRead
  <2>2. session \in Sessions /\ Typed(line)
    BY <1>0, <2>1, SessionsAssumption DEF ShellInv
  <2>3. /\ DOMAIN line_buf' = Buffer
        /\ \A k \in Buffer :
             line_buf'[k] = IF k <= Len(line) THEN CharAt(line, k) ELSE line_buf[k]
    BY <1>0, <1>5, <2>2, ShellReadStores
  <2>4. origin' = [k \in Buffer |-> IF k <= Len(line) THEN line ELSE origin[k]]
    BY <1>0, <1>5 DEF ShellRead, ShellInv
  <2>5. Len(line) \in Nat /\ Len(line) <= LINE
    BY <2>2 DEF Typed
  <2>6. ASSUME NEW k \in Buffer
        PROVE  /\ Typed(origin'[k])
               /\ line_buf'[k] = CharAt(origin'[k], k)
               /\ \A j \in k .. Len(origin'[k]) : origin'[j] = origin'[k]
    <3>0. k \in Nat /\ k < SHELL_BUF
      BY <1>0 DEF Buffer
    <3>1. CASE k <= Len(line)
      <4>1. origin'[k] = line
        BY <2>4, <3>1
      <4>2. ASSUME NEW j \in k .. Len(line) PROVE origin'[j] = line
        <5>1. j \in Buffer /\ j <= Len(line)
          BY <1>0, <2>5, <3>0 DEF Buffer
        <5> QED BY <2>4, <5>1
      <4> QED BY <2>2, <2>3, <3>1, <4>1, <4>2
    <3>2. CASE ~(k <= Len(line))
      <4>1. /\ origin'[k] = origin[k] /\ line_buf'[k] = line_buf[k] /\ Typed(origin[k])
            /\ line_buf[k] = CharAt(origin[k], k)
        BY <1>0, <2>3, <2>4, <3>2 DEF ShellInv
      <4>2. ASSUME NEW j \in k .. Len(origin[k]) PROVE origin'[j] = origin[k]
        <5>1. Len(origin[k]) \in Nat /\ Len(origin[k]) <= LINE
          BY <4>1 DEF Typed
        <5>2. j \in Buffer /\ ~(j <= Len(line))
          BY <1>0, <2>5, <3>0, <3>2, <5>1 DEF Buffer
        <5>3. origin[j] = origin[k]
          BY <1>0 DEF ShellInv
        <5> QED BY <2>4, <5>2, <5>3
      <4> QED BY <4>1, <4>2
    <3> QED BY <3>1, <3>2
  <2>7. DOMAIN origin' = Buffer
    BY <2>4
  <2> QED BY <2>1, <2>2, <2>3, <2>6, <2>7 DEF ShellInv
<1>6. CASE KernelStep
  <2>1. CASE (\E m \in Messages : BootPrint(m)) \/ BootPrinted
    BY <1>1, <2>1 DEF BootPrint, BootPrinted
  <2>2. CASE ShellExit \/ ShellReport \/ ExecuteParse \/ ExecuteOverrun \/ ExecuteFail
               \/ ExecuteClear
    BY <1>1, <2>2 DEF ShellExit, ShellReport, ExecuteParse, ExecuteOverrun, ExecuteFail,
                      ExecuteClear
  <2> QED BY <1>4, <1>5, <1>6, <2>1, <2>2 DEF KernelStep, BootStep, ShellStep
<1>7. CASE ExecuteRun
  <2>1. session \in Sessions
    BY <1>0, <1>7 DEF ExecuteRun, ShellInv
  <2> QED BY <1>0, <1>1, <1>7, <2>1, ExecuteRunMoves DEF FirstLabels
<1>8. CASE CatStep
  BY <1>0, <1>2, <1>8, CatMoves DEF CatLabels
<1>9. CASE LsStep
  BY <1>0, <1>2, <1>9, LsMoves DEF LsLabels
<1>10. CASE GrepStep
  BY <1>0, <1>2, <1>10, GrepMoves DEF GrepLabels, FileLabels
<1>l. CASE GrepLost
  BY <1>0, <1>1, <1>l, GrepLoses
<1>11. CASE CountStep
  BY <1>0, <1>2, <1>11, CountMoves DEF CountLabels
<1>12. CASE SyserrStep
  BY <1>0, <1>2, <1>12, SyserrMoves DEF SyserrLabels
<1> QED BY <1>3, <1>6, <1>7, <1>8, <1>9, <1>10, <1>l, <1>11, <1>12, StepCases


\* Where the command ends and how long what follows it is: both are found within
\* a line, whatever earlier lines have left behind the last one.
LEMMA WordAndArgs ==
    ASSUME ShellInv
    PROVE  /\ cmd_leng \in 0 .. LINE /\ cmd_leng \in Buffer
           /\ line_buf[cmd_leng] \in {NUL, SP}
           /\ \A k \in Buffer : k < cmd_leng => line_buf[k] \notin {NUL, SP}
           /\ first = cmd_leng + 1 /\ first \in Buffer
           /\ ArgsLength \in 0 .. ARGS /\ first + ArgsLength \in Buffer
           /\ line_buf[first + ArgsLength] = NUL
           /\ \A k \in Buffer : first <= k /\ k < first + ArgsLength => line_buf[k] # NUL
<1>0. /\ SHELL_BUF \in Nat /\ LINE \in Nat /\ LINE + 1 < SHELL_BUF /\ ARGS \in Nat
      /\ LINE <= ARGS + 1 /\ LINE \in Nat \ {0}
  BY SizesAssumption
<1>1. Buffer \subseteq Nat /\ LINE \in Buffer /\ LINE + 1 \in Buffer
  BY <1>0 DEF Buffer
<1>2. DOMAIN line_buf = Buffer
  BY DEF ShellInv
<1>3. line_buf[LINE] = NUL /\ line_buf[LINE + 1] = NUL
  BY <1>0, <1>1 DEF ShellInv, CharAt, Typed
<1> DEFINE T == {k \in Buffer : line_buf[k] \in {NUL, SP}}
<1>4. cmd_leng = Min(T)
  BY <1>2 DEF cmd_leng
<1>5. cmd_leng \in T /\ \A y \in T : cmd_leng <= y
  <2>1. T \subseteq Nat /\ T # {}
    BY <1>1, <1>3
  <2> HIDE DEF T
  <2> QED BY <1>4, <2>1, LeastIs
<1> HIDE DEF cmd_leng
<1>6. cmd_leng \in Buffer /\ cmd_leng \in Nat /\ cmd_leng <= LINE
  BY <1>1, <1>3, <1>5
<1>7. ASSUME NEW k \in Buffer, k < cmd_leng PROVE line_buf[k] \notin {NUL, SP}
  BY <1>1, <1>5, <1>6, <1>7
<1>8. first = cmd_leng + 1 /\ first \in Buffer /\ first \in Nat
  BY <1>0, <1>6 DEF first, ArgsAt, Buffer
<1> HIDE DEF first
<1> DEFINE U == {k \in Buffer : k >= first /\ line_buf[k] = NUL}
<1>9. ArgsLength = Min(U) - first
  BY <1>2 DEF ArgsLength, strlen
<1>10. Min(U) \in U /\ \A y \in U : Min(U) <= y
  <2>1. U \subseteq Nat
    BY <1>1
  <2>2. U # {}
    BY <1>0, <1>1, <1>3, <1>6, <1>8
  <2> HIDE DEF U
  <2> QED BY <2>1, <2>2, LeastIs
<1> DEFINE e == Min(U)
<1> HIDE DEF e
<1>11. e \in Buffer /\ e \in Nat /\ e >= first /\ line_buf[e] = NUL
  BY <1>1, <1>10 DEF e
<1>12. e <= LINE \/ e = first
  <2>1. CASE first <= LINE
    BY <1>0, <1>1, <1>3, <1>10, <2>1 DEF e
  <2>2. CASE ~(first <= LINE)
    <3>1. first = LINE + 1
      BY <1>0, <1>6, <1>8, <2>2
    <3> QED BY <1>1, <1>3, <1>8, <1>10, <1>11, <3>1 DEF e
  <2> QED BY <2>1, <2>2
<1>13. ArgsLength = e - first
  BY <1>9 DEF e
<1> HIDE DEF ArgsLength
<1>14. ArgsLength \in 0 .. ARGS /\ first + ArgsLength = e
  BY <1>0, <1>6, <1>8, <1>11, <1>12, <1>13
<1>15. ASSUME NEW k \in Buffer, first <= k, k < e PROVE line_buf[k] # NUL
  BY <1>1, <1>8, <1>10, <1>11, <1>15 DEF e
<1> QED BY <1>5, <1>6, <1>7, <1>8, <1>11, <1>14, <1>15

\* Bytes up to a word boundary, words and the rest are all of them.
LEMMA WrittenAll ==
    ASSUME NEW a \in Nat, NEW n \in Nat
    PROVE  Written(a, n) = n
<1> DEFINE x == (-(a + ALIGN)) % WORD_BYTES
           T == {n, x}
           l == Leading(a, n)
<1>1. x \in Nat
  BY LibraryAssumption DEF WORD_BYTES
<1> HIDE DEF x
<1>2. l \in T /\ l <= n
  <2>1. T \subseteq Nat /\ T # {} /\ n \in T
    BY <1>1
  <2>2. Min(T) \in T /\ Min(T) <= n
    <3> HIDE DEF T
    <3> QED BY <2>1, LeastIs
  <2> QED BY <2>2 DEF Leading, x
<1> HIDE DEF l
<1>3. n - l \in Nat /\ l \in Nat
  BY <1>1, <1>2
<1> DEFINE r == n - l
<1>4. r = 4 * (r \div 4) + (r % 4) /\ r \div 4 \in Nat /\ r % 4 \in Nat
  <2> HIDE DEF r
  <2>1. r \in Nat /\ 4 \in Nat \ {0}
    BY <1>3 DEF r
  <2> QED BY <2>1, Division
<1>5. Written(a, n) = l + 4 * (r \div 4) + (r % 4)
  BY DEF Written, l, WORD_BYTES
<1> DEFINE q == r \div 4
           z == r % 4
<1>6. r = 4 * q + z /\ q \in Nat /\ z \in Nat /\ Written(a, n) = l + 4 * q + z
  BY <1>4, <1>5
<1>7. l + r = n
  BY <1>3
<1> HIDE DEF q, z, r
<1> QED BY <1>3, <1>6, <1>7

LEMMA ArgsKept ==
    ASSUME ProgramsInv, [ProgramsNext]_all
    PROVE  ArgsInv'
<1>0. /\ PhaseInv /\ FilesInv /\ ShellInv /\ ArgsInv /\ DOMAIN local = Fields
      /\ ARGS \in Nat
  BY SizesAssumption, LocalFields DEF ProgramsInv, PhaseInv
<1>1. ASSUME UNCHANGED args, at' \notin {"parsed", "lost"}, ~Running' PROVE ArgsInv'
  BY <1>0, <1>1 DEF ArgsInv
<1>2. ASSUME NEW labels, NEW prog, Moves(labels, prog),
             labels \subseteq Labels \ (KernelLabels \cup {"lost", "returned"})
      PROVE  ArgsInv'
  <2>1. Running /\ UNCHANGED <<line_buf, args>> /\ at' \notin {"parsed", "lost"}
    BY <1>0, <1>2 DEF Moves, Running, KernelLabels, PhaseInv, shell
  <2>2. args = ArgsFound
    BY <1>0, <2>1 DEF ArgsInv
  <2>3. ArgsFound' = ArgsFound
    BY <2>1 DEF ArgsFound, ArgsLength, first, cmd_leng
  <2> QED BY <1>0, <2>1, <2>2, <2>3 DEF ArgsInv
<1>3. CASE UNCHANGED all
  BY <1>0, <1>3 DEF ArgsInv, all, shell, child, ArgsFound, ArgsLength, first, cmd_leng, Running
<1>4. CASE KernelStep
  <2>1. CASE BootStep
    BY <1>1, <2>1 DEF BootStep, BootPrint, BootPrinted, BootShell, child, Running
  <2>2. ASSUME NEW line, ShellRead(line) PROVE ArgsInv'
    <3>1. at' \in {"exit", "prompt", "execute"} /\ UNCHANGED args
      BY <2>2 DEF ShellRead, child
    <3> QED BY <1>1, <3>1 DEF Running
  <2>3. CASE ShellExit
    BY <1>1, <2>3 DEF ShellExit, child, Running
  <2>4. CASE ShellReport
    BY <1>0, <2>4 DEF ShellReport, NoArgs, ArgsInv, Running
  <2>5. CASE ExecuteParse
    <3>1. /\ at' = "parsed" /\ UNCHANGED <<line_buf, args>>
          /\ local' = [local EXCEPT !.word = Bytes(line_buf, 0, cmd_leng),
                                    !.from = ArgsAt(cmd_leng),
                                    !.leng = strlen(line_buf, ArgsAt(cmd_leng))]
      BY <2>5 DEF ExecuteParse, shell
    <3>2. /\ cmd_leng' = cmd_leng /\ first' = first /\ ArgsLength' = ArgsLength
          /\ Bytes(line_buf, 0, cmd_leng)' = Bytes(line_buf, 0, cmd_leng)
      BY <3>1 DEF cmd_leng, first, ArgsLength
    <3>3. /\ local'.word = Bytes(line_buf, 0, cmd_leng) /\ local'.from = first
          /\ local'.leng = ArgsLength
      BY <1>0, <3>1 DEF Fields, first, ArgsLength
    <3>4. ~Running'
      BY <3>1 DEF Running
    <3> QED BY <1>0, <3>1, <3>2, <3>3, <3>4 DEF ArgsInv
  <2>6. CASE ExecuteOverrun
    <3>1. at = "parsed" /\ at' = "lost" /\ Overrun /\ UNCHANGED <<args, local>>
      BY <2>6 DEF ExecuteOverrun, child
    <3>2. local.leng \in 0 .. ARGS
      BY <1>0, <3>1, WordAndArgs DEF ArgsInv
    <3>3. Len(local.word) > NAME + SPARE
      BY <1>0, <3>1, <3>2 DEF Overrun
    <3>4. ~Running'
      BY <3>1 DEF Running
    <3> QED BY <1>0, <3>1, <3>3, <3>4 DEF ArgsInv
  <2>7. CASE ExecuteFail \/ ExecuteClear
    BY <1>1, <2>7 DEF ExecuteFail, ExecuteClear, child, Running
  <2> QED BY <1>4, <2>1, <2>2, <2>3, <2>4, <2>5, <2>6, <2>7 DEF KernelStep, ShellStep
<1>5. CASE ExecuteRun
  <2>1. session \in Sessions
    BY <1>0, <1>5 DEF ExecuteRun, ShellInv
  <2>2. at = "parsed" /\ at' \in FirstLabels /\ UNCHANGED shell
    BY <1>0, <1>5, <2>1, ExecuteRunMoves
  <2>3. local.from = first /\ local.leng = ArgsLength
    BY <1>0, <2>2 DEF ArgsInv
  <2>4. first \in Nat /\ ArgsLength \in 0 .. ARGS
    BY <1>0, WordAndArgs, SizesAssumption DEF Buffer
  <2>5. Written(0, ARGS + 1) = ARGS + 1 /\ Written(0, ArgsLength) = ArgsLength
    <3>1. 0 \in Nat /\ ARGS + 1 \in Nat /\ ArgsLength \in Nat
      BY <1>0, <2>4
    <3> HIDE DEF ArgsLength
    <3> QED BY <3>1, WrittenAll
  <2> DEFINE m == memset(args, 0, NUL, ARGS + 1)
  <2>6. args' = memcpy(m, 0, line_buf, first, ArgsLength)
    BY <1>5, <2>3 DEF ExecuteRun
  <2> HIDE DEF first, ArgsLength
  <2>7. DOMAIN m = 0 .. ARGS /\ \A k \in 0 .. ARGS : m[k] = NUL
    BY <1>0, <2>5 DEF memset, ArgsInv
  <2>8. DOMAIN args' = 0 .. ARGS
    BY <2>6, <2>7 DEF memcpy
  <2>9. ASSUME NEW k \in 0 .. ARGS
        PROVE  args'[k] = IF k < ArgsLength THEN line_buf[first + k] ELSE NUL
    <3> HIDE DEF m
    <3>1. args'[k] = IF 0 <= k /\ k < 0 + Written(0, ArgsLength)
                     THEN line_buf[first + k - 0] ELSE m[k]
      BY <2>6, <2>7 DEF memcpy
    <3>2. first + k - 0 = first + k /\ 0 <= k /\ 0 + Written(0, ArgsLength) = ArgsLength
      BY <1>0, <2>4, <2>5
    <3> QED BY <2>7, <3>1, <3>2
  <2>10. args' = ArgsFound
    <3>1. args' = [k \in 0 .. ARGS |-> args'[k]]
      BY <2>6, <2>8 DEF memcpy
    <3> QED BY <2>9, <3>1 DEF ArgsFound
  <2>11. ArgsFound' = ArgsFound
    BY <2>2 DEF ArgsFound, ArgsLength, first, cmd_leng, shell
  <2>12. args'[ARGS] = NUL
    BY <1>0, <2>4, <2>9
  <2> QED BY <2>2, <2>8, <2>10, <2>11, <2>12 DEF ArgsInv, FirstLabels
<1> USE DEF Labels, KernelLabels
<1>6. CASE CatStep
  BY <1>0, <1>2, <1>6, CatMoves DEF CatLabels
<1>7. CASE LsStep
  BY <1>0, <1>2, <1>7, LsMoves DEF LsLabels
<1>8. CASE GrepStep
  BY <1>0, <1>2, <1>8, GrepMoves DEF GrepLabels, FileLabels
<1>l. CASE GrepLost
  <2>1. at = "grep_entry" /\ at' = "lost" /\ local.dir = 0 /\ UNCHANGED <<args, local>>
    BY <1>0, <1>l, GrepLoses
  <2>2. LongNames
    <3>1. PICK e \in InUse : DirectoryAt(e, local.dir)
      BY <2>1 DEF ProgramsInv, GrepInv
    <3> QED BY <2>1, <3>1 DEF DirectoryAt, InUse
  <2> QED BY <1>0, <2>1, <2>2 DEF ArgsInv, Running
<1>9. CASE CountStep
  BY <1>0, <1>2, <1>9, CountMoves DEF CountLabels
<1>10. CASE SyserrStep
  BY <1>0, <1>2, <1>10, SyserrMoves DEF SyserrLabels
<1> QED BY <1>3, <1>4, <1>5, <1>6, <1>7, <1>8, <1>l, <1>9, <1>10, StepCases

-----------------------------------------------------------------------------
(* Lines that are strung together.                                          *)

Strung(f, lines, n, S) ==
    /\ f[0] = <<>>
    /\ \A i \in 1 .. n : f[i] = f[i - 1] \o lines[i]
    /\ \A i \in 0 .. n : f[i] \in Seq(S)

LEMMA StrungExists ==
    ASSUME NEW S, NEW n \in Nat, NEW lines, \A i \in 1 .. n : lines[i] \in Seq(S)
    PROVE  \E f : Strung(f, lines, n, S)
<1> DEFINE A == Seq(S)
           step == [x \in A \X (1 .. n) |-> x[1] \o lines[x[2]]]
<1>1. <<>> \in A
  OBVIOUS
<1>2. ASSUME NEW v \in A, NEW i \in 1 .. n
      PROVE  step[<<v, i>>] = v \o lines[i] /\ step[<<v, i>>] \in A
  <2>1. <<v, i>> \in A \X (1 .. n) /\ <<v, i>>[1] = v /\ <<v, i>>[2] = i
    OBVIOUS
  <2>2. step[<<v, i>>] = v \o lines[i]
    BY <2>1
  <2>3. lines[i] \in Seq(S)
    OBVIOUS
  <2>4. v \o lines[i] \in Seq(S)
    BY <2>3, ConcatProperties
  <2> QED BY <2>2, <2>4
<1> HIDE DEF step
<1>3. \A v \in A, i \in 1 .. n : step[<<v, i>>] \in A
  BY <1>2
<1> HIDE DEF A
<1>4. PICK f : Iterates(f, n, A, <<>>, step)
  BY <1>1, <1>3, SegmentRecursion
<1>5. f \in [0 .. n -> A] /\ f[0] = <<>> /\ \A i \in 1 .. n : f[i] = step[<<f[i - 1], i>>]
  BY <1>4 DEF Iterates
<1>6. ASSUME NEW i \in 1 .. n PROVE f[i] = f[i - 1] \o lines[i]
  <2>1. i - 1 \in 0 .. n
    OBVIOUS
  <2>2. f[i - 1] \in A
    BY <1>5, <2>1
  <2> QED BY <1>2, <1>5, <2>2
<1>7. \A i \in 0 .. n : f[i] \in Seq(S)
  BY <1>5 DEF A
<1>8. Strung(f, lines, n, S)
  BY <1>5, <1>6, <1>7 DEF Strung
<1> QED BY <1>8

LEMMA UptoIs ==
    ASSUME NEW S, NEW n \in Nat, NEW lines, NEW f, Strung(f, lines, n, S),
           \A i \in 1 .. n : lines[i] \in Seq(S), NEW m \in 0 .. n
    PROVE  Upto(lines, m) = f[m]
<1> DEFINE s == [i \in 1 .. m |-> lines[i]]
           Body(h) == [i \in 1 .. m |-> IF i = 1 THEN s[i] ELSE h[i - 1] \o s[i]]
           h == CHOOSE g : g = Body(g)
           F == [i \in 1 .. m |-> f[i]]
<1>0. m \in Nat /\ m <= n
  OBVIOUS
<1>1. s \in Seq(Seq(S)) /\ Len(s) = m /\ \A i \in 1 .. m : s[i] = lines[i] /\ i \in 1 .. n
  <2>1. s \in [1 .. m -> Seq(S)]
    OBVIOUS
  <2>2. s \in Seq(Seq(S)) /\ Len(s) = m
    BY <1>0, <2>1, IsASeq, LenProperties
  <2> QED BY <2>2
<1>2. Upto(lines, m) = FlattenSeq(s)
  BY DEF Upto
<1>3. CASE m = 0
  <2>1. s = <<>>
    BY <1>1, <1>3, EmptySeq
  <2>2. FlattenSeq(s) = s
    BY <1>1, <1>3 DEF FlattenSeq
  <2> QED BY <1>2, <1>3, <2>1, <2>2 DEF Strung
<1>4. CASE m # 0
  <2>1. FlattenSeq(s) = h[m]
    BY <1>1, <1>4 DEF FlattenSeq
  <2> HIDE DEF s
  <2>2. ASSUME NEW i \in 1 .. m PROVE F[i] = IF i = 1 THEN s[i] ELSE F[i - 1] \o s[i]
    <3>1. f[i] = f[i - 1] \o lines[i] /\ s[i] = lines[i] /\ lines[i] \in Seq(S)
      BY <1>1 DEF Strung
    <3>2. CASE i = 1
      <4>1. f[i - 1] = <<>>
        BY <3>2 DEF Strung
      <4>2. <<>> \o lines[i] = lines[i]
        BY <3>1, ConcatEmptySeq
      <4> QED BY <3>1, <3>2, <4>1, <4>2
    <3>3. CASE i # 1
      <4>1. i - 1 \in 1 .. m
        BY <3>3
      <4> QED BY <3>1, <3>3, <4>1
    <3> QED BY <3>2, <3>3
  <2>3. F = Body(F)
    <3>1. Body(F) = [i \in 1 .. m |-> F[i]]
      <4> HIDE DEF F
      <4> QED BY <2>2
    <3> QED BY <3>1
  <2>4. h = Body(h)
    <3> HIDE DEF Body, F
    <3> QED BY <2>3
  <2> HIDE DEF h, F
  <2> DEFINE T == {i \in 0 .. m : i = 0 \/ h[i] = f[i]}
  <2>5. 0 \in T
    BY <1>0
  <2>6. ASSUME NEW i \in 0 .. m - 1, i \in T PROVE i + 1 \in T
    <3>1. i + 1 \in 1 .. m /\ (i + 1) - 1 = i /\ i + 1 \in 0 .. m
      BY <1>0
    <3>2. h[i + 1] = IF i + 1 = 1 THEN s[i + 1] ELSE h[i] \o s[i + 1]
      BY <2>4, <3>1
    <3>3. F[i + 1] = IF i + 1 = 1 THEN s[i + 1] ELSE F[(i + 1) - 1] \o s[i + 1]
      BY <2>2, <3>1
    <3>4. F[i + 1] = f[i + 1]
      BY <3>1 DEF F
    <3>5. CASE i = 0
      BY <3>1, <3>2, <3>3, <3>4, <3>5
    <3>6. CASE i # 0
      <4>1. F[i] = f[i] /\ h[i] = f[i] /\ i + 1 # 1
        BY <2>6, <3>1, <3>6 DEF F
      <4> QED BY <3>1, <3>2, <3>3, <3>4, <4>1
    <3> QED BY <3>5, <3>6
  <2> HIDE DEF T
  <2>7. 0 .. m \subseteq T
    BY <1>0, <2>5, <2>6, SegmentInduction
  <2>8. h[m] = f[m]
    BY <1>0, <1>4, <2>7 DEF T
  <2> QED BY <1>2, <2>1, <2>8
<1> QED BY <1>3, <1>4

\* Adding a line to the ones before it, and what comes before is a prefix.
LEMMA UptoGrows ==
    ASSUME NEW S, NEW n \in Nat, NEW lines, \A i \in 1 .. n : lines[i] \in Seq(S)
    PROVE  /\ Upto(lines, 0) = <<>>
           /\ \A m \in 0 .. n : Upto(lines, m) \in Seq(S)
           /\ \A m \in 0 .. n - 1 : Upto(lines, m + 1) = Upto(lines, m) \o lines[m + 1]
<1>1. PICK f : Strung(f, lines, n, S)
  BY StrungExists
<1>2. \A m \in 0 .. n : Upto(lines, m) = f[m]
  BY <1>1, UptoIs
<1>3. ASSUME NEW m \in 0 .. n - 1 PROVE Upto(lines, m + 1) = Upto(lines, m) \o lines[m + 1]
  <2>1. m \in 0 .. n /\ m + 1 \in 0 .. n /\ m + 1 \in 1 .. n /\ (m + 1) - 1 = m
    OBVIOUS
  <2>2. f[m + 1] = f[(m + 1) - 1] \o lines[m + 1]
    BY <1>1, <2>1 DEF Strung
  <2> QED BY <1>2, <2>1, <2>2
<1>4. 0 \in 0 .. n
  OBVIOUS
<1> QED BY <1>1, <1>2, <1>3, <1>4 DEF Strung


-----------------------------------------------------------------------------
(* Descriptors the child opens, reads and closes.                           *)

LEMMA OpenedFields ==
    ASSUME NEW d, d.filetype \in {0, 1, 2}
    PROVE  /\ DOMAIN Opened(d) = {"ops", "inode", "pos", "flags"}
           /\ Opened(d).pos = 0 /\ Opened(d).flags = 1
           /\ d.filetype = 0 => Opened(d).ops = "rtc"
           /\ d.filetype = 1 => Opened(d).ops = "files" /\ Opened(d).inode = -1
           /\ d.filetype = 2 => Opened(d).ops = "files" /\ Opened(d).inode = d.inode_num
BY DEF Opened, Desc

LEMMA EntryFacts ==
    ASSUME NEW name, Matches(name) # {}
    PROVE  LET d == DentryOf(name) IN
           /\ d.filetype \in {0, 1, 2}
           /\ d.inode_num \in DOMAIN Inodes /\ d.inode_num # -1
           /\ d.filetype = 1 <=> Compared(name) = Dot
<1>1. Matches(name) \subseteq Nat
  BY ImageAssumption DEF Matches, num_of_entries
<1>2. Min(Matches(name)) \in Matches(name)
  BY <1>1, LeastIs
<1>3. PICK e \in 1 .. num_of_entries :
        DentryOf(name) = Dentries[e] /\ Dentries[e].name = Compared(name)
  BY <1>2 DEF Matches, DentryOf
<1>4. Dentries[e].inode_num \in DOMAIN Inodes /\ Dentries[e].inode_num # -1
  BY DirectoryAssumption, ImageAssumption
<1>5. /\ Dentries[e].filetype \in {0, 1, 2}
      /\ Dentries[e].filetype = 1 <=> Dentries[e].name = Dot
  BY DirectoryAssumption, ImageAssumption DEF num_of_entries
<1> QED BY <1>3, <1>4, <1>5

LEMMA DotIsDirectory ==
    Matches(Dot) # {} /\ DentryOf(Dot).filetype = 1 /\ NAME \in Nat \ {0}
<1>1. Matches(Dot) # {} /\ Dot \in Seq(Nat) /\ Len(Dot) \in 1 .. NAME /\ NAME \in Nat
  BY DirectoryAssumption, FilesAssumption
<1>2. Compared(Dot) = Dot
  BY <1>1 DEF Compared
<1> QED BY <1>1, <1>2, EntryFacts

\* A name that does not begin like that of the directory is another one.
LEMMA NotDirectory ==
    ASSUME NEW name \in Seq(Nat), name # <<>>, name[1] # Dot[1]
    PROVE  Matches(name) # {} => DentryOf(name).filetype # 1
<1>1. NAME \in Nat \ {0}
  BY DotIsDirectory
<1>2. CASE Len(name) <= NAME
  BY <1>2, EntryFacts DEF Compared
<1>3. CASE ~(Len(name) <= NAME)
  <2> DEFINE part == SubSeq(name, 1, NAME)
  <2>1. 0 \in Nat /\ 0 + 1 = 1 /\ 1 \in 1 .. NAME - 0 /\ 0 <= NAME /\ NAME <= Len(name)
    BY <1>1, <1>3
  <2>2. \A i \in 1 .. NAME - 0 : SubSeq(name, 0 + 1, NAME)[i] = name[0 + i]
    BY <1>1, <2>1, Piece
  <2>3. part[1] = name[1] /\ Compared(name) = part
    BY <1>3, <2>1, <2>2 DEF Compared
  <2> QED BY <2>3, EntryFacts
<1> QED BY <1>2, <1>3

\* What the directory lists: of each entry at least one character, and with its
\* type one more than a name's.
LEMMA NamesListed ==
    ASSUME NEW i \in 1 .. num_of_entries
    PROVE  /\ ListedName(i) \in Seq(Nat) /\ Len(ListedName(i)) \in 1 .. NAME + 1
           /\ Chars(EntryString(i)) = ListedName(i) /\ fn_len(i) = Len(ListedName(i))
<1> DEFINE l == ListedName(i)
           n == Len(l)
           name == Dentries[i].name
<1>0. i \in Nat /\ i > 0 /\ -(-i) = i /\ -i < 0
  BY ImageAssumption DEF num_of_entries
<1>1. /\ l \in Seq(Nat) /\ n \in 0 .. NAME + 1 /\ fn_len(i) = n
      /\ \A k \in 1 .. n : EntryByte(i, k - 1) = l[k]
      /\ Len(name) > 0 => n > 0
  BY EntryStrings
<1>2. name \in Seq(Nat) /\ Len(name) \in Nat /\ NAME \in Nat
  BY ImageAssumption, FilesAssumption DEF num_of_entries
<1>3. name # <<>>
  <2>1. Matches(<<>>) = {} /\ Compared(<<>>) = <<>>
    BY <1>2, DirectoryAssumption DEF Compared
  <2> QED BY <2>1 DEF Matches
<1>4. Len(name) > 0
  <2> HIDE DEF name
  <2> QED BY <1>2, <1>3, EmptySeq
<1>5. n \in 1 .. NAME + 1
  BY <1>1, <1>2, <1>4
<1> HIDE DEF l, n, name
<1>6. EntryString(i) = [k \in 1 .. n |-> <<-i, k - 1>>]
  BY <1>1 DEF EntryString, Byte
<1>7. DOMAIN EntryString(i) = 1 .. n /\ Len(EntryString(i)) = n
  <2>1. [k \in 1 .. n |-> <<-i, k - 1>>] \in Seq(Int \X Int)
    BY <1>0, <1>5, <1>2, IsSeqOf
  <2> QED BY <1>5, <1>6, <2>1, LenProperties
<1>8. ASSUME NEW k \in 1 .. n PROVE Char(EntryString(i)[k]) = l[k]
  <2>1. EntryString(i)[k] = <<-i, k - 1>>
    BY <1>6
  <2> QED BY <1>0, <1>1, <2>1 DEF Char
<1>9. Chars(EntryString(i)) = [k \in 1 .. n |-> l[k]]
  BY <1>7, <1>8 DEF Chars
<1>10. l = [k \in 1 .. n |-> l[k]]
  BY <1>1 DEF n
<1> QED BY <1>1, <1>5, <1>9, <1>10 DEF l, n

\* open gives the child a descriptor of its own, at the beginning of the file.
LEMMA OpenGives ==
    ASSUME FilesInv, NEW name, Open(Child, name), NEW fd, fd = ret'[Child]
    PROVE  /\ FilesInv' /\ fd \notin InUse /\ OpenedAs(fd, name)'
           /\ Table(Child)'[fd].pos = 0
           /\ InUse' = InUse \cup {fd} /\ fd \in Fds \ {0, 1}
           /\ \A e \in Fds \ {0, 1} : e < fd => e \in InUse
           /\ \A e \in InUse : \A other :
                OpenedAs(e, other) =>
                  OpenedAs(e, other)' /\ Table(Child)'[e].pos = Table(Child)[e].pos
<1> DEFINE d == DentryOf(name)
           x == Opened(d)
<1>1. Child \in Procs /\ Matches(name) # {}
  BY SizesAssumption DEF Open
<1>2. /\ FilesInv' /\ fd \in Fds \ {0, 1} /\ Table(Child)[fd].flags = 0
      /\ \A e \in Fds \ {0, 1} : e < fd => Table(Child)[e].flags # 0
      /\ x \in Goods /\ Table(Child)' = [Table(Child) EXCEPT ![fd] = x]
  BY <1>1, OpenKeeps
<1>3. d.filetype \in {0, 1, 2}
  BY <1>1, EntryFacts
<1>4. DOMAIN x = {"ops", "inode", "pos", "flags"} /\ x.pos = 0 /\ x.flags = 1
  <2> HIDE DEF d
  <2> QED BY <1>3, OpenedFields
<1>5. Table(Child) \in [Fds -> Goods]
  BY <1>1 DEF FilesInv, Table
<1> HIDE DEF x
<1>6. /\ Table(Child)'[fd] = x
      /\ \A e \in Fds \ {fd} : Table(Child)'[e] = Table(Child)[e]
  BY <1>2, <1>5
<1>7. fd \notin InUse
  BY <1>2 DEF InUse
<1>8. InUse' = InUse \cup {fd}
  BY <1>2, <1>4, <1>6 DEF InUse
<1>9. OpenedAs(fd, name)'
  <2>1. x = [x EXCEPT !.pos = Table(Child)'[fd].pos]
    <3>1. x \in Descs
      BY <1>2 DEF Goods
    <3> QED BY <1>4, <1>6, <3>1 DEF Descs
  <2>2. fd \in InUse'
    BY <1>8
  <2> QED BY <1>1, <1>6, <2>1, <2>2 DEF OpenedAs, x
<1>10. ASSUME NEW e \in Fds \ {0, 1}, e < fd PROVE e \in InUse
  <2>1. Table(Child)[e].flags \in {0, 1}
    BY <1>5 DEF Goods, Descs
  <2> QED BY <1>2, <1>10, <2>1 DEF InUse
<1>11. ASSUME NEW e \in InUse, NEW other, OpenedAs(e, other)
       PROVE  OpenedAs(e, other)' /\ Table(Child)'[e].pos = Table(Child)[e].pos
  <2>1. e \in Fds /\ e # fd
    BY <1>7 DEF InUse
  <2>2. Table(Child)'[e] = Table(Child)[e]
    BY <1>6, <2>1
  <2>3. e \in InUse'
    BY <1>8
  <2> QED BY <1>11, <2>2, <2>3 DEF OpenedAs
<1> QED BY <1>2, <1>4, <1>6, <1>7, <1>8, <1>9, <1>10, <1>11

\* What a read of the child does with a descriptor it has opened.
ReadsDevice(d, pos, next) ==
    d.filetype = 0 /\ next = pos /\ ret'[Child] = 0 /\ buf'[Child] = <<>>
ReadsEntry(d, pos, next) ==
    /\ d.filetype = 1 /\ pos < num_of_entries /\ next = pos + 1
    /\ ret'[Child] = fn_len(pos + 1) /\ buf'[Child] = EntryString(pos + 1)
ReadsLast(d, pos) ==
    d.filetype = 1 /\ pos = num_of_entries /\ ret'[Child] = 0 /\ buf'[Child] = <<>>
ReadsNoBlock(d) ==
    d.filetype = 2 /\ ret'[Child] = -1 /\ buf'[Child] = <<>>
ReadsBytes(d, pos, next, n) ==
    /\ d.filetype = 2 /\ d.inode_num \in DOMAIN Inodes
    /\ pos <= next /\ next <= Inodes[d.inode_num].length /\ next - pos <= n % WORD
    /\ next - pos < n % WORD => next = Inodes[d.inode_num].length
    /\ ret'[Child] = next - pos
    /\ buf'[Child] = SubSeq(Content(d.inode_num), pos + 1, next)

LEMMA ReadOpened ==
    ASSUME FilesInv, NEW fd, NEW name, OpenedAs(fd, name), NEW n \in Int, ReadAny(fd, n)
    PROVE  LET d == DentryOf(name)
               pos == Table(Child)[fd].pos
               next == Table(Child)'[fd].pos IN
           /\ FilesInv' /\ InUse' = InUse /\ pos \in Nat /\ next \in Nat
           /\ \A e, other : OpenedAs(e, other) =>
                OpenedAs(e, other)'
                  /\ (e # fd => Table(Child)'[e].pos = Table(Child)[e].pos)
           /\ \/ ReadsDevice(d, pos, next) \/ ReadsEntry(d, pos, next) \/ ReadsLast(d, pos)
              \/ ReadsNoBlock(d) \/ ReadsBytes(d, pos, next, n)
<1> DEFINE d == DentryOf(name)
           D == Table(Child)[fd]
           pos == D.pos
           next == Table(Child)'[fd].pos
<1>1. Child \in Procs
  BY SizesAssumption
<1>2. fd \in Fds \ {0, 1} /\ D.flags = 1 /\ Matches(name) # {}
  BY DEF OpenedAs, InUse
<1>3. D = [Opened(d) EXCEPT !.pos = pos]
  BY DEF OpenedAs
<1>4. D \in Goods /\ D \in Descs /\ pos \in Nat
  <2>1. D \in Goods /\ D \in Descs
    BY <1>1, <1>2, DescriptorGood
  <2> QED BY <2>1 DEF Descs
<1>5. /\ d.filetype \in {0, 1, 2} /\ d.inode_num \in DOMAIN Inodes /\ d.inode_num # -1
  BY <1>2, EntryFacts
<1> HIDE DEF d
<1>6. /\ d.filetype = 0 => D.ops = "rtc"
      /\ d.filetype = 1 => D.ops = "files" /\ D.inode = -1
      /\ d.filetype = 2 => D.ops = "files" /\ D.inode = d.inode_num
  BY <1>3, <1>5, OpenedFields
<1>7. Table(Child) \in [Fds -> Goods]
  BY <1>1 DEF FilesInv, Table
<1> DEFINE Rest ==
        /\ InUse' = InUse
        /\ \A e, other : OpenedAs(e, other) =>
             OpenedAs(e, other)' /\ (e # fd => Table(Child)'[e].pos = Table(Child)[e].pos)
<1> HIDE DEF D
<1>8. ASSUME NEW q \in Nat, Table(Child)' = [Table(Child) EXCEPT ![fd] = [D EXCEPT !.pos = q]]
      PROVE  Rest /\ next = q
  <2>1. /\ Table(Child)'[fd] = [D EXCEPT !.pos = q]
        /\ \A e \in Fds \ {fd} : Table(Child)'[e] = Table(Child)[e]
    BY <1>2, <1>7, <1>8
  <2>2. Table(Child)'[fd].flags = 1 /\ next = q
    BY <1>2, <1>4, <2>1 DEF Descs
  <2>3. InUse' = InUse
    BY <1>2, <2>1, <2>2 DEF InUse, D
  <2>4. ASSUME NEW e, NEW other, OpenedAs(e, other)
        PROVE  OpenedAs(e, other)' /\ (e # fd => Table(Child)'[e].pos = Table(Child)[e].pos)
    <3>1. e \in Fds /\ e \in InUse
      BY <2>4 DEF OpenedAs, InUse
    <3>2. CASE e # fd
      <4>1. Table(Child)'[e] = Table(Child)[e]
        BY <2>1, <3>1, <3>2
      <4> QED BY <2>3, <2>4, <3>2, <4>1 DEF OpenedAs
    <3>3. CASE e = fd
      <4> DEFINE o == Opened(DentryOf(other))
      <4>1. D = [o EXCEPT !.pos = D.pos] /\ Matches(other) # {}
        BY <2>4, <3>3 DEF OpenedAs, D
      <4> HIDE DEF o
      <4>2. [D EXCEPT !.pos = q] = [o EXCEPT !.pos = q]
        <5>1. DOMAIN o = DOMAIN D
          BY <4>1
        <5> QED BY <4>1, <5>1
      <4>3. Table(Child)'[fd] = [o EXCEPT !.pos = Table(Child)'[fd].pos]
        BY <2>1, <2>2, <4>2
      <4> QED BY <2>3, <3>1, <3>3, <4>1, <4>3 DEF OpenedAs, o
    <3> QED BY <3>2, <3>3
  <2> QED BY <2>2, <2>3, <2>4
<1> HIDE DEF Rest
<1>9. FilesInv'
  BY ReadAnyKeeps
<1> DEFINE Goal == /\ Rest /\ next \in Nat
                   /\ \/ ReadsDevice(d, pos, next) \/ ReadsEntry(d, pos, next) \/ ReadsLast(d, pos)
                      \/ ReadsNoBlock(d) \/ ReadsBytes(d, pos, next, n)
<1>10. ASSUME ReadDevice(Child, fd) PROVE Goal
  <2>1. /\ D.ops \in {"terminal", "rtc"} /\ UNCHANGED filesys_desc_array
        /\ Result(Child, Nothing)
    BY <1>10 DEF ReadDevice, D
  <2>2. d.filetype = 0
    BY <1>5, <1>6, <2>1
  <2>3. ret'[Child] = 0 /\ buf'[Child] = <<>>
    BY <1>1, <2>1 DEF Result, FilesInv, Nothing
  <2>4. Table(Child)' = Table(Child)
    BY <2>1 DEF Table
  <2>5. Table(Child)' = [Table(Child) EXCEPT ![fd] = [D EXCEPT !.pos = pos]]
    <3>1. [D EXCEPT !.pos = pos] = D
      BY <1>4 DEF Descs
    <3> QED BY <1>2, <1>7, <2>4, <3>1 DEF D
  <2>6. Rest /\ next = pos
    BY <1>4, <1>8, <2>5
  <2> QED BY <1>4, <2>2, <2>3, <2>6 DEF ReadsDevice
<1>11. ASSUME ReadDirectory(Child, fd) PROVE Goal
  <2>1. /\ D.ops = "files" /\ D.inode = -1
        /\ \/ /\ pos < num_of_entries
              /\ Table(Child)' = [Table(Child) EXCEPT ![fd] = [D EXCEPT !.pos = pos + 1]]
              /\ ret'[Child] = fn_len(pos + 1) /\ buf'[Child] = EntryString(pos + 1)
           \/ /\ ~(pos < num_of_entries)
              /\ Table(Child)' = [Table(Child) EXCEPT ![fd] = [D EXCEPT !.pos = 0]]
              /\ ret'[Child] = 0 /\ buf'[Child] = <<>>
    BY <1>1, <1>11, ReadDirectoryKeeps DEF D
  <2>2. d.filetype = 1
    BY <1>5, <1>6, <2>1
  <2>3. num_of_entries \in Nat /\ pos <= num_of_entries
    <3>1. -1 \notin DOMAIN Inodes /\ num_of_entries \in Nat
      BY ImageAssumption DEF num_of_entries
    <3> QED BY <1>4, <2>1, <3>1 DEF Goods, Within
  <2>4. CASE pos < num_of_entries
    <3>1. Rest /\ next = pos + 1
      <4>1. pos + 1 \in Nat
        BY <1>4
      <4> QED BY <1>8, <2>1, <2>4, <4>1
    <3> QED BY <1>4, <2>1, <2>2, <2>4, <3>1 DEF ReadsEntry
  <2>5. CASE ~(pos < num_of_entries)
    <3>1. Rest /\ next = 0
      BY <1>8, <2>1, <2>5
    <3>2. pos = num_of_entries
      BY <1>4, <2>3, <2>5
    <3> QED BY <2>1, <2>2, <2>5, <3>1, <3>2 DEF ReadsLast
  <2> QED BY <2>4, <2>5
<1>12. ASSUME ReadFile(Child, fd, n) PROVE Goal
  <2> DEFINE r == read_data(D.inode, pos, n % WORD)
  <2>1. /\ D.ops = "files" /\ D.inode # -1
        /\ Table(Child)' = [Table(Child) EXCEPT ![fd] = [D EXCEPT !.pos = Advanced(@, r.val)]]
        /\ ret'[Child] = r.val /\ buf'[Child] = r.data
    BY <1>1, <1>12, ReadFileKeeps DEF D
  <2>2. d.filetype = 2 /\ D.inode = d.inode_num
    BY <1>5, <1>6, <2>1
  <2>3. /\ pos <= Inodes[D.inode].length /\ Inodes[D.inode].length \in Nat
        /\ \/ r = Failed
           \/ \E k \in 0 .. Inodes[D.inode].length - pos :
                /\ k <= n % WORD
                /\ k < n % WORD => pos + k = Inodes[D.inode].length
                /\ r = [val |-> k, data |-> SubSeq(Content(D.inode), pos + 1, pos + k)]
    <3>1. Inodes[D.inode].length \in Nat
      BY <1>5, <2>2, ImageAssumption
    <3> QED BY <1>4, <2>1, <3>1, ReadStaysWithin
  <2> HIDE DEF r
  <2>4. CASE r = Failed
    <3>1. r.val = -1 /\ r.data = <<>>
      BY <2>4 DEF Failed
    <3>2. Table(Child)' = [Table(Child) EXCEPT ![fd] = [D EXCEPT !.pos = pos]]
      <4>1. [D EXCEPT !.pos = Advanced(@, r.val)] = [D EXCEPT !.pos = pos]
        BY <3>1 DEF Advanced
      <4> QED BY <2>1, <4>1
    <3>3. Rest /\ next = pos
      BY <1>4, <1>8, <3>2
    <3> QED BY <1>4, <2>1, <2>2, <3>1, <3>3 DEF ReadsNoBlock
  <2>5. ASSUME NEW k \in 0 .. Inodes[D.inode].length - pos, k <= n % WORD,
               k < n % WORD => pos + k = Inodes[D.inode].length,
               r = [val |-> k, data |-> SubSeq(Content(D.inode), pos + 1, pos + k)]
        PROVE  Goal
    <3>1. r.val = k /\ r.data = SubSeq(Content(D.inode), pos + 1, pos + k) /\ k \in Nat
      <4> DEFINE piece == SubSeq(Content(D.inode), pos + 1, pos + k)
      <4>1. r = [val |-> k, data |-> piece]
        BY <2>5
      <4> HIDE DEF piece
      <4>2. r.val = k /\ r.data = piece
        BY <4>1
      <4>3. k \in Nat
        OBVIOUS
      <4> QED BY <4>2, <4>3 DEF piece
    <3>2. pos + k \in Nat /\ Advanced(pos, r.val) = pos + k
      BY <1>4, <3>1 DEF Advanced
    <3>3. Table(Child)' = [Table(Child) EXCEPT ![fd] = [D EXCEPT !.pos = pos + k]]
      <4>1. [D EXCEPT !.pos = Advanced(@, r.val)] = [D EXCEPT !.pos = pos + k]
        BY <3>2
      <4> QED BY <2>1, <4>1
    <3>4. Rest /\ next = pos + k
      BY <1>8, <3>2, <3>3
    <3>5. /\ pos <= pos + k /\ pos + k <= Inodes[D.inode].length /\ (pos + k) - pos = k
          /\ pos + k = pos => k = 0
      BY <1>4, <2>3, <3>1
    <3>6. ReadsBytes(d, pos, pos + k, n)
      BY <1>5, <2>1, <2>2, <2>5, <3>1, <3>5 DEF ReadsBytes
    <3> QED BY <3>2, <3>4, <3>6
  <2> QED BY <2>3, <2>4, <2>5
<1>13. Goal
  <2> HIDE DEF Goal
  <2>1. ~ReadFail(Child, fd)
    BY <1>2 DEF ReadFail, Readable, Usable, D
  <2> QED BY <1>10, <1>11, <1>12, <2>1 DEF ReadAny
<1> QED BY <1>4, <1>9, <1>13 DEF Rest, d, D


-----------------------------------------------------------------------------
(* What cat and ls write.                                                   *)

LEMMA PrefixIs ==
    ASSUME NEW S, NEW s \in Seq(S), NEW t \in Seq(S), Len(s) <= Len(t),
           \A i \in 1 .. Len(s) : t[i] = s[i]
    PROVE  IsPrefix(s, t)
<1> DEFINE u == SubSeq(t, 1, Len(s))
<1>1. Len(s) \in Nat /\ Len(t) \in Nat /\ 0 \in Nat /\ 0 + 1 = 1
  OBVIOUS
<1>2. u \in Seq(S) /\ Len(u) = Len(s) /\ \A i \in 1 .. Len(s) : u[i] = t[i]
  <2>1. /\ SubSeq(t, 0 + 1, Len(s)) \in Seq(S) /\ Len(SubSeq(t, 0 + 1, Len(s))) = Len(s) - 0
        /\ \A i \in 1 .. Len(s) - 0 : SubSeq(t, 0 + 1, Len(s))[i] = t[0 + i]
    BY <1>1, Piece
  <2>2. Len(s) - 0 = Len(s) /\ \A i \in 1 .. Len(s) : 0 + i = i
    BY <1>1
  <2> QED BY <1>1, <2>1, <2>2
<1> HIDE DEF u
<1>3. u = s
  BY <1>2, SeqEqual
<1>4. SubSeq(s, 1, Len(s)) = s
  BY SubSeqFull
<1> QED BY <1>3, <1>4 DEF IsPrefix, u

\* The characters that bytes of the image can be.
CharSet == {session.disk[x[1]][x[2]] : x \in ByteNames}

LEMMA CharsAre ==
    ASSUME NEW d \in Seq(ByteNames)
    PROVE  /\ Chars(d) \in Seq(CharSet) /\ Len(Chars(d)) = Len(d)
           /\ \A i \in 1 .. Len(d) : Chars(d)[i] = session.disk[d[i][1]][d[i][2]]
<1>1. Chars(d) = [i \in 1 .. Len(d) |-> session.disk[d[i][1]][d[i][2]]]
  BY CharsOfBytes
<1>2. ASSUME NEW i \in 1 .. Len(d) PROVE session.disk[d[i][1]][d[i][2]] \in CharSet
  <2>1. d[i] \in ByteNames
    BY ElementOfSeq
  <2> QED BY <2>1 DEF CharSet
<1>3. Chars(d) \in [1 .. Len(d) -> CharSet] /\ Len(d) \in Nat
  BY <1>1, <1>2
<1>4. Chars(d) \in Seq(CharSet) /\ Len(Chars(d)) = Len(d)
  <2>1. Chars(d) \in Seq(CharSet)
    BY <1>3, SeqDef
  <2>2. DOMAIN Chars(d) = 1 .. Len(d)
    BY <1>3
  <2> QED BY <1>3, <2>1, <2>2, LenProperties
<1> QED BY <1>1, <1>4

\* What was read of a file so far, and one more piece.
LEMMA CharsJoin ==
    ASSUME NEW inode \in DOMAIN Inodes, NEW a \in Nat, NEW b \in Nat, a <= b,
           b <= Inodes[inode].length
    PROVE  LET c == Content(inode) IN
           /\ Chars(SubSeq(c, 1, 0)) = <<>>
           /\ Chars(SubSeq(c, a + 1, b)) \in Seq(CharSet)
           /\ Len(Chars(SubSeq(c, a + 1, b))) = b - a
           /\ Chars(SubSeq(c, 1, a)) \o Chars(SubSeq(c, a + 1, b)) = Chars(SubSeq(c, 1, b))
           /\ b = Inodes[inode].length => Chars(SubSeq(c, 1, b)) = Chars(c)
           /\ IsPrefix(Chars(SubSeq(c, 1, b)), Chars(c))
<1> DEFINE c == Content(inode)
           x == SubSeq(c, 1, a)
           y == SubSeq(c, a + 1, b)
           z == SubSeq(c, 1, b)
<1>0. 0 \in Nat /\ 0 + 1 = 1 /\ 0 <= a /\ 0 <= b /\ a - 0 = a /\ b - 0 = b /\ 0 - 0 = 0
        /\ a <= Inodes[inode].length /\ Inodes[inode].length \in Nat
        /\ \A i \in Int : 0 + i = i
  BY ImageAssumption
<1>1. c \in Seq(ByteNames) /\ Len(c) = Inodes[inode].length
  BY ContentIsSeq
<1>2. x \in Seq(ByteNames) /\ Len(x) = a /\ \A i \in 1 .. a : x[i] = c[i]
  <2>1. LET d == SubSeq(c, 0 + 1, a) IN
        d \in Seq(ByteNames) /\ Len(d) = a - 0 /\ \A i \in 1 .. a - 0 : d[i] = c[0 + i]
    BY <1>0, BytesOf
  <2> HIDE DEF c
  <2> QED BY <1>0, <2>1
<1>3. z \in Seq(ByteNames) /\ Len(z) = b /\ \A i \in 1 .. b : z[i] = c[i]
  <2>1. LET d == SubSeq(c, 0 + 1, b) IN
        d \in Seq(ByteNames) /\ Len(d) = b - 0 /\ \A i \in 1 .. b - 0 : d[i] = c[0 + i]
    BY <1>0, BytesOf
  <2> HIDE DEF c
  <2> QED BY <1>0, <2>1
<1>4. y \in Seq(ByteNames) /\ Len(y) = b - a /\ \A i \in 1 .. b - a : y[i] = c[a + i]
  BY BytesOf
<1>5. SubSeq(c, 1, 0) = <<>>
  BY SubSeqEmpty
<1>6. <<>> \in Seq(ByteNames) /\ Len(<<>>) = 0
  OBVIOUS
<1>7. Chars(<<>>) = <<>>
  <2>1. Chars(<<>>) \in Seq(CharSet) /\ Len(Chars(<<>>)) = 0
    BY <1>6, CharsAre
  <2> QED BY <2>1, EmptySeq
<1>8. b = Len(c) => z = c
  BY <1>1, SubSeqFull
<1> HIDE DEF c, x, y, z
<1>9. /\ Chars(x) \in Seq(CharSet) /\ Len(Chars(x)) = a
      /\ Chars(y) \in Seq(CharSet) /\ Len(Chars(y)) = b - a
      /\ Chars(z) \in Seq(CharSet) /\ Len(Chars(z)) = b
      /\ Chars(c) \in Seq(CharSet) /\ Len(Chars(c)) = Len(c)
  BY <1>1, <1>2, <1>3, <1>4, CharsAre
<1> DEFINE j == Chars(x) \o Chars(y)
<1>10. /\ j \in Seq(CharSet) /\ Len(j) = a + (b - a)
       /\ \A i \in 1 .. a + (b - a) : j[i] = IF i <= a THEN Chars(x)[i] ELSE Chars(y)[i - a]
  <2> DEFINE p == Chars(x)
             q == Chars(y)
  <2>1. p \in Seq(CharSet) /\ q \in Seq(CharSet) /\ Len(p) = a /\ Len(q) = b - a
    BY <1>9
  <2> HIDE DEF p, q
  <2>2. /\ p \o q \in Seq(CharSet) /\ Len(p \o q) = Len(p) + Len(q)
        /\ \A i \in 1 .. Len(p) + Len(q) :
             (p \o q)[i] = IF i <= Len(p) THEN p[i] ELSE q[i - Len(p)]
    BY <2>1, ConcatProperties
  <2> QED BY <2>1, <2>2 DEF p, q
<1> DEFINE at1(e) == session.disk[e[1]][e[2]]
<1>11. /\ \A i \in 1 .. a : Chars(x)[i] = at1(x[i])
       /\ \A i \in 1 .. b - a : Chars(y)[i] = at1(y[i])
       /\ \A i \in 1 .. b : Chars(z)[i] = at1(z[i])
       /\ \A i \in 1 .. Len(c) : Chars(c)[i] = at1(c[i])
  BY <1>1, <1>2, <1>3, <1>4, CharsAre
<1> HIDE DEF j, at1
<1>12. a + (b - a) = b
  OBVIOUS
<1>13. ASSUME NEW i \in 1 .. b PROVE j[i] = Chars(z)[i]
  <2>1. z[i] = c[i] /\ Chars(z)[i] = at1(z[i]) /\ i \in 1 .. a + (b - a)
    BY <1>3, <1>11, <1>12
  <2>2. CASE i <= a
    <3>1. i \in 1 .. a
      BY <2>2
    <3>2. x[i] = c[i] /\ Chars(x)[i] = at1(x[i])
      BY <1>2, <1>11, <3>1
    <3> QED BY <1>10, <2>1, <2>2, <3>2
  <2>3. CASE ~(i <= a)
    <3>1. i - a \in 1 .. b - a /\ a + (i - a) = i
      BY <2>3
    <3>2. y[i - a] = c[a + (i - a)] /\ Chars(y)[i - a] = at1(y[i - a])
      BY <1>4, <1>11, <3>1
    <3> QED BY <1>10, <2>1, <2>3, <3>1, <3>2
  <2> QED BY <2>2, <2>3
<1>14. j = Chars(z)
  BY <1>9, <1>10, <1>12, <1>13, SeqEqual
<1>15. IsPrefix(Chars(z), Chars(c))
  <2>1. \A i \in 1 .. b : Chars(c)[i] = Chars(z)[i]
    <3> SUFFICES ASSUME NEW i \in 1 .. b PROVE Chars(c)[i] = Chars(z)[i]
      OBVIOUS
    <3>1. i \in 1 .. Len(c)
      BY <1>0, <1>1
    <3> QED BY <1>3, <1>11, <3>1
  <2>2. b <= Len(c)
    BY <1>1
  <2> QED BY <1>9, <2>1, <2>2, PrefixIs
<1> QED BY <1>1, <1>5, <1>7, <1>8, <1>9, <1>14, <1>15 DEF c, x, y, z, j

\* The names of the directory, each with the same end.
LEMMA NamesGrow ==
    ASSUME NEW end \in Seq(Nat)
    PROVE  LET U(m) == Upto(NameLines(end), m) IN
           /\ num_of_entries \in Nat
           /\ U(0) = <<>> /\ U(num_of_entries) = FlattenSeq(NameLines(end))
           /\ \A m \in 0 .. num_of_entries : U(m) \in Seq(Nat)
           /\ \A m \in 0 .. num_of_entries - 1 :
                U(m + 1) = U(m) \o (ListedName(m + 1) \o end)
<1> DEFINE N == num_of_entries
           l == NameLines(end)
<1>1. N \in Nat
  BY ImageAssumption DEF num_of_entries
<1>2. \A i \in 1 .. N : l[i] = ListedName(i) \o end /\ l[i] \in Seq(Nat)
  <2> SUFFICES ASSUME NEW i \in 1 .. N PROVE l[i] = ListedName(i) \o end /\ l[i] \in Seq(Nat)
    OBVIOUS
  <2>1. l[i] = ListedName(i) \o end
    BY DEF NameLines
  <2>2. ListedName(i) \in Seq(Nat)
    BY NamesListed
  <2>3. ListedName(i) \o end \in Seq(Nat)
    BY <2>2, ConcatProperties
  <2> QED BY <2>1, <2>3
<1>3. l = [i \in 1 .. N |-> l[i]]
  BY DEF NameLines
<1> HIDE DEF l, N
<1>4. /\ Upto(l, 0) = <<>>
      /\ \A m \in 0 .. N : Upto(l, m) \in Seq(Nat)
      /\ \A m \in 0 .. N - 1 : Upto(l, m + 1) = Upto(l, m) \o l[m + 1]
  BY <1>1, <1>2, UptoGrows
<1>5. Upto(l, N) = FlattenSeq(l)
  BY <1>3 DEF Upto
<1>6. ASSUME NEW m \in 0 .. N - 1
      PROVE  Upto(l, m + 1) = Upto(l, m) \o (ListedName(m + 1) \o end)
  <2>1. m + 1 \in 1 .. N
    BY <1>1
  <2> QED BY <1>2, <1>4, <2>1
<1> QED BY <1>1, <1>4, <1>5, <1>6 DEF l, N

LEMMA NamesPrefix ==
    ASSUME NEW end \in Seq(Nat), NEW m \in 0 .. num_of_entries
    PROVE  IsPrefix(Upto(NameLines(end), m), FlattenSeq(NameLines(end)))
<1> DEFINE N == num_of_entries
           U(k) == Upto(NameLines(end), k)
           T == {k \in 0 .. N - m : /\ Len(U(m)) <= Len(U(m + k))
                                    /\ \A i \in 1 .. Len(U(m)) : U(m + k)[i] = U(m)[i]}
<1>1. /\ N \in Nat /\ U(N) = FlattenSeq(NameLines(end))
      /\ \A k \in 0 .. N : U(k) \in Seq(Nat)
      /\ \A k \in 0 .. N - 1 : U(k + 1) = U(k) \o (ListedName(k + 1) \o end)
  BY NamesGrow
<1> HIDE DEF U, N
<1>0. m \in Nat /\ m <= N /\ N - m \in Nat
  BY <1>1 DEF N
<1>2. 0 \in T
  <2>1. m + 0 = m /\ m \in 0 .. N
    BY <1>0, <1>1
  <2>2. Len(U(m)) \in Nat
    BY <1>1, <2>1
  <2> QED BY <1>0, <2>1, <2>2
<1>3. ASSUME NEW k \in 0 .. (N - m) - 1, k \in T PROVE k + 1 \in T
  <2>1. /\ m + k \in 0 .. N - 1 /\ m + (k + 1) = (m + k) + 1 /\ k + 1 \in 0 .. N - m
        /\ m + k \in 0 .. N /\ (m + k) + 1 \in 1 .. N /\ m \in 0 .. N
    BY <1>0, <1>1
  <2> DEFINE u == U(m)
             v == U(m + k)
             w == ListedName((m + k) + 1) \o end
             x == U(m + (k + 1))
  <2>2. x = v \o w
    BY <1>1, <2>1
  <2>3. u \in Seq(Nat) /\ v \in Seq(Nat)
    BY <1>1, <2>1
  <2>4. w \in Seq(Nat)
    <3>1. ListedName((m + k) + 1) \in Seq(Nat)
      BY <2>1, NamesListed DEF N
    <3> QED BY <3>1, ConcatProperties
  <2>5. Len(u) <= Len(v) /\ \A i \in 1 .. Len(u) : v[i] = u[i]
    BY <1>3
  <2> HIDE DEF u, v, w, x
  <2>6. Len(x) = Len(v) + Len(w) /\ \A i \in 1 .. Len(v) + Len(w) :
          x[i] = IF i <= Len(v) THEN v[i] ELSE w[i - Len(v)]
    BY <2>2, <2>3, <2>4, ConcatProperties
  <2>7. Len(u) \in Nat /\ Len(v) \in Nat /\ Len(w) \in Nat
    BY <2>3, <2>4
  <2>8. Len(u) <= Len(x) /\ \A i \in 1 .. Len(u) : x[i] = u[i]
    <3>1. \A i \in 1 .. Len(u) : i \in 1 .. Len(v) + Len(w) /\ i <= Len(v)
      BY <2>5, <2>7
    <3> QED BY <2>5, <2>6, <2>7, <3>1
  <2> QED BY <2>1, <2>8 DEF u, x
<1>4. 0 .. N - m \subseteq T
  <2> HIDE DEF T
  <2> QED BY <1>0, <1>2, <1>3, SegmentInduction
<1>5. N - m \in T /\ m + (N - m) = N
  <2> HIDE DEF T
  <2> QED BY <1>0, <1>1, <1>4
<1>6. Len(U(m)) <= Len(U(N)) /\ \A i \in 1 .. Len(U(m)) : U(N)[i] = U(m)[i]
  BY <1>5
<1>7. m \in 0 .. N /\ N \in 0 .. N
  BY <1>0, <1>1
<1>8. U(m) \in Seq(Nat) /\ U(N) \in Seq(Nat)
  BY <1>1, <1>7
<1>9. IsPrefix(U(m), U(N))
  BY <1>6, <1>8, PrefixIs
<1> QED BY <1>1, <1>9 DEF U


LEMMA ListedNames ==
    /\ FlattenSeq(NameLines(<<>>)) = FlattenSeq([i \in 1 .. num_of_entries |-> ListedName(i)])
    /\ \A n \in 0 .. num_of_entries : Upto(NameLines(<<NL>>), n) = LsLines(n)
<1>1. ASSUME NEW i \in 1 .. num_of_entries
      PROVE  /\ ListedName(i) \o <<>> = ListedName(i)
             /\ ListedName(i) \o <<NL>> = Append(ListedName(i), NL)
  <2>1. ListedName(i) \in Seq(Nat) /\ NL \in Nat
    BY NamesListed DEF NL
  <2> QED BY <2>1, ConcatEmptySeq, AppendIsConcat
<1>2. NameLines(<<>>) = [i \in 1 .. num_of_entries |-> ListedName(i)]
  BY <1>1 DEF NameLines
<1>3. ASSUME NEW n \in 0 .. num_of_entries PROVE Upto(NameLines(<<NL>>), n) = LsLines(n)
  <2>1. \A i \in 1 .. n : i \in 1 .. num_of_entries
    BY ImageAssumption DEF num_of_entries
  <2>2. \A i \in 1 .. n : NameLines(<<NL>>)[i] = Append(ListedName(i), NL)
    BY <1>1, <2>1 DEF NameLines
  <2>3. [i \in 1 .. n |-> NameLines(<<NL>>)[i]] = [i \in 1 .. n |-> Append(ListedName(i), NL)]
    BY <2>2
  <2> QED BY <2>3 DEF Upto, LsLines
<1> QED BY <1>2, <1>3

LEMMA NoTextYet ==
    ASSUME NEW name, Matches(name) # {}
    PROVE  TextUpto(DentryOf(name), 0) = <<>>
<1> DEFINE d == DentryOf(name)
<1>1. d.filetype \in {0, 1, 2} /\ d.inode_num \in DOMAIN Inodes
  BY EntryFacts
<1> HIDE DEF d
<1>2. Upto(NameLines(<<>>), 0) = <<>>
  <2>1. <<>> \in Seq(Nat)
    OBVIOUS
  <2> QED BY <2>1, NamesGrow
<1>3. Chars(SubSeq(Content(d.inode_num), 1, 0)) = <<>>
  <2>1. 0 \in Nat /\ 0 <= 0 /\ 0 <= Inodes[d.inode_num].length
    BY <1>1, ImageAssumption
  <2> QED BY <1>1, <2>1, CharsJoin
<1>4. TextUpto(d, 0) = <<>>
  BY <1>1, <1>2, <1>3 DEF TextUpto
<1> QED BY <1>4 DEF d

\* What a read of cat adds is what follows in the file, and it adds nothing only
\* at the end of it.
LEMMA CatReads ==
    ASSUME FilesInv, NEW fd, NEW name, OpenedAs(fd, name), ReadAny(fd, CAT_BUF)
    PROVE  LET d == DentryOf(name)
               text == TextUpto(d, Table(Child)[fd].pos) IN
           /\ OpenedAs(fd, name)'
           /\ \/ ret'[Child] = -1
              \/ ret'[Child] = 0 /\ text = FileText(d)
              \/ /\ ret'[Child] \notin {-1, 0}
                 /\ TextUpto(d, Table(Child)'[fd].pos) = text \o Chars(buf'[Child])
<1> DEFINE d == DentryOf(name)
           pos == Table(Child)[fd].pos
           next == Table(Child)'[fd].pos
<1>0. CAT_BUF \in Int /\ CAT_BUF % WORD = CAT_BUF /\ CAT_BUF > 0
  BY SizesAssumption, FilesAssumption
<1>1. /\ OpenedAs(fd, name)' /\ pos \in Nat /\ next \in Nat
      /\ \/ ReadsDevice(d, pos, next) \/ ReadsEntry(d, pos, next) \/ ReadsLast(d, pos)
         \/ ReadsNoBlock(d) \/ ReadsBytes(d, pos, next, CAT_BUF)
  BY <1>0, ReadOpened
<1>2. <<>> \in Seq(Nat)
  OBVIOUS
<1> DEFINE Goal == \/ ret'[Child] = -1
                   \/ ret'[Child] = 0 /\ TextUpto(d, pos) = FileText(d)
                   \/ /\ ret'[Child] \notin {-1, 0}
                      /\ TextUpto(d, next) = TextUpto(d, pos) \o Chars(buf'[Child])
<1> HIDE DEF d, pos, next
<1>3. ASSUME ReadsDevice(d, pos, next) PROVE Goal
  BY <1>3 DEF ReadsDevice, TextUpto, FileText
<1>4. ASSUME ReadsEntry(d, pos, next) PROVE Goal
  <2>1. /\ d.filetype = 1 /\ pos < num_of_entries /\ next = pos + 1
        /\ ret'[Child] = fn_len(pos + 1) /\ buf'[Child] = EntryString(pos + 1)
    BY <1>4 DEF ReadsEntry
  <2>2. num_of_entries \in Nat
    BY <1>2, NamesGrow
  <2>3. pos \in 0 .. num_of_entries - 1 /\ pos + 1 \in Nat /\ pos + 1 \in 1 .. num_of_entries
    BY <1>1, <2>1, <2>2
  <2>4. Upto(NameLines(<<>>), pos + 1)
          = Upto(NameLines(<<>>), pos) \o (ListedName(pos + 1) \o <<>>)
    BY <1>2, <2>3, NamesGrow
  <2>5. ListedName(pos + 1) \o <<>> = ListedName(pos + 1)
    <3>1. ListedName(pos + 1) \in Seq(Nat)
      BY <2>3, NamesListed
    <3> QED BY <3>1, ConcatEmptySeq
  <2>6. Chars(buf'[Child]) = ListedName(pos + 1) /\ ret'[Child] \notin {-1, 0}
    BY <2>1, <2>3, NamesListed
  <2>7. TextUpto(d, pos + 1) = Upto(NameLines(<<>>), pos + 1)
        /\ TextUpto(d, pos) = Upto(NameLines(<<>>), pos)
    BY <2>1 DEF TextUpto
  <2> QED BY <2>1, <2>4, <2>5, <2>6, <2>7
<1>5. ASSUME ReadsLast(d, pos) PROVE Goal
  <2>1. d.filetype = 1 /\ pos = num_of_entries /\ ret'[Child] = 0
    BY <1>5 DEF ReadsLast
  <2>2. Upto(NameLines(<<>>), num_of_entries) = FlattenSeq(NameLines(<<>>))
    BY <1>2, NamesGrow
  <2>3. TextUpto(d, pos) = Upto(NameLines(<<>>), num_of_entries)
    BY <2>1 DEF TextUpto
  <2>4. FileText(d) = FlattenSeq(NameLines(<<>>))
    BY <2>1, ListedNames DEF FileText
  <2> QED BY <2>1, <2>2, <2>3, <2>4
<1>6. ASSUME ReadsNoBlock(d) PROVE Goal
  BY <1>6 DEF ReadsNoBlock
<1>7. ASSUME ReadsBytes(d, pos, next, CAT_BUF) PROVE Goal
  <2> DEFINE inode == d.inode_num
             c == Content(inode)
  <2>1. /\ d.filetype = 2 /\ inode \in DOMAIN Inodes /\ pos <= next
        /\ next <= Inodes[inode].length
        /\ next = pos => pos = Inodes[inode].length
        /\ ret'[Child] = next - pos /\ buf'[Child] = SubSeq(c, pos + 1, next)
    <3>1. pos \in Nat /\ (next = pos => next - pos < CAT_BUF % WORD)
      BY <1>0, <1>1
    <3> QED BY <1>7, <3>1 DEF ReadsBytes
  <2>2. TextUpto(d, pos) = Chars(SubSeq(c, 1, pos)) /\ FileText(d) = Chars(c)
        /\ TextUpto(d, next) = Chars(SubSeq(c, 1, next))
    BY <2>1 DEF TextUpto, FileText
  <2>3. /\ Chars(SubSeq(c, 1, pos)) \o Chars(SubSeq(c, pos + 1, next))
             = Chars(SubSeq(c, 1, next))
        /\ next = Inodes[inode].length => Chars(SubSeq(c, 1, next)) = Chars(c)
    BY <1>1, <2>1, CharsJoin
  <2> HIDE DEF c, inode
  <2>4. CASE next = pos
    <3>1. ret'[Child] = 0
      BY <1>1, <2>1, <2>4
    <3> QED BY <2>1, <2>2, <2>3, <2>4, <3>1
  <2>5. CASE next # pos
    <3>1. next - pos \notin {-1, 0}
      BY <1>1, <2>1, <2>5
    <3>2. TextUpto(d, next) = TextUpto(d, pos) \o Chars(buf'[Child])
      BY <2>1, <2>2, <2>3
    <3> QED BY <2>1, <3>1, <3>2
  <2> QED BY <2>4, <2>5
<1>8. Goal
  <2> HIDE DEF Goal
  <2> QED BY <1>1, <1>3, <1>4, <1>5, <1>6, <1>7
<1> QED BY <1>1, <1>8 DEF d, pos, next

\* The same for ls, which reads the directory and ends each name with a line break.
LEMMA LsReads ==
    ASSUME FilesInv, NEW fd, OpenedAs(fd, Dot), NEW n \in Int, ReadAny(fd, n)
    PROVE  LET U(pos) == Upto(NameLines(<<NL>>), pos)
               pos == Table(Child)[fd].pos IN
           /\ OpenedAs(fd, Dot)'
           /\ \/ ret'[Child] = 0 /\ pos = num_of_entries
                 /\ U(pos) = FlattenSeq(NameLines(<<NL>>))
              \/ /\ pos + 1 \in 1 .. num_of_entries
                 /\ ret'[Child] = Len(ListedName(pos + 1)) /\ ret'[Child] \notin {-1, 0}
                 /\ Chars(buf'[Child]) = ListedName(pos + 1)
                 /\ Table(Child)'[fd].pos = pos + 1
                 /\ U(Table(Child)'[fd].pos) = U(pos) \o Append(Chars(buf'[Child]), NL)
<1> DEFINE d == DentryOf(Dot)
           pos == Table(Child)[fd].pos
           next == Table(Child)'[fd].pos
           U(p) == Upto(NameLines(<<NL>>), p)
<1>1. /\ OpenedAs(fd, Dot)' /\ pos \in Nat /\ next \in Nat
      /\ \/ ReadsDevice(d, pos, next) \/ ReadsEntry(d, pos, next) \/ ReadsLast(d, pos)
         \/ ReadsNoBlock(d) \/ ReadsBytes(d, pos, next, n)
  BY ReadOpened
<1>2. d.filetype = 1
  BY DotIsDirectory
<1>3. <<NL>> \in Seq(Nat) /\ NL \in Nat
  BY DEF NL
<1> HIDE DEF d, pos, next
<1>4. ReadsEntry(d, pos, next) \/ ReadsLast(d, pos)
  BY <1>1, <1>2 DEF ReadsDevice, ReadsNoBlock, ReadsBytes
<1>5. CASE ReadsEntry(d, pos, next)
  <2>1. /\ pos < num_of_entries /\ next = pos + 1
        /\ ret'[Child] = fn_len(pos + 1) /\ buf'[Child] = EntryString(pos + 1)
    BY <1>5 DEF ReadsEntry
  <2>2. num_of_entries \in Nat
    BY <1>3, NamesGrow
  <2>3. pos \in 0 .. num_of_entries - 1 /\ pos + 1 \in Nat /\ pos + 1 \in 1 .. num_of_entries
    BY <1>1, <2>1, <2>2
  <2>4. U(pos + 1) = U(pos) \o (ListedName(pos + 1) \o <<NL>>)
    BY <1>3, <2>3, NamesGrow
  <2>5. ListedName(pos + 1) \o <<NL>> = Append(ListedName(pos + 1), NL)
    <3>1. ListedName(pos + 1) \in Seq(Nat)
      BY <2>3, NamesListed
    <3> QED BY <1>3, <3>1, AppendIsConcat
  <2>6. /\ Chars(buf'[Child]) = ListedName(pos + 1)
        /\ ret'[Child] = Len(ListedName(pos + 1)) /\ ret'[Child] \notin {-1, 0}
    BY <2>1, <2>3, NamesListed
  <2> HIDE DEF U
  <2>7. U(next) = U(pos) \o Append(Chars(buf'[Child]), NL)
    BY <2>1, <2>4, <2>5, <2>6
  <2> QED BY <1>1, <2>1, <2>3, <2>6, <2>7 DEF U, pos, next
<1>6. CASE ReadsLast(d, pos)
  <2>1. pos = num_of_entries /\ ret'[Child] = 0
    BY <1>6 DEF ReadsLast
  <2>2. U(num_of_entries) = FlattenSeq(NameLines(<<NL>>))
    BY <1>3, NamesGrow
  <2> QED BY <1>1, <2>1, <2>2 DEF pos
<1> QED BY <1>4, <1>5, <1>6


LEMMA TextStays ==
    ASSUME UNCHANGED session, NEW d, NEW pos
    PROVE  TextUpto(d, pos)' = TextUpto(d, pos) /\ FileText(d)' = FileText(d)
BY DEF TextUpto, FileText, Chars, Char

LEMMA CatKept ==
    ASSUME ProgramsInv, [ProgramsNext]_all
    PROVE  CatInv'
<1>0. PhaseInv /\ FilesInv /\ ShellInv /\ CatInv /\ DOMAIN local = Fields
  BY LocalFields DEF ProgramsInv, PhaseInv
<1>1. ASSUME at' # "cat_read", local'.prog # "cat" \/ at' # "returned" \/ rval' # 0
      PROVE  CatInv'
  BY <1>1 DEF CatInv, Ended
<1>2. CASE UNCHANGED all
  <2>1. /\ UNCHANGED <<at, local, out, rval, session>> /\ Table(Child)' = Table(Child)
    BY <1>2 DEF all, child, shell, vars, Table
  <2> QED BY <1>0, <2>1 DEF CatInv, Ended, OpenedAs, InUse, TextUpto, FileText, Chars, Char
<1>3. CASE KernelStep
  BY <1>0, <1>1, <1>3, KernelMoves DEF KernelLabels
<1>4. CASE ExecuteRun
  <2>1. session \in Sessions
    BY <1>0, <1>4 DEF ExecuteRun, ShellInv
  <2> QED BY <1>0, <1>1, <1>4, <2>1, ExecuteRunMoves DEF FirstLabels
<1>5. CASE LsStep
  BY <1>0, <1>1, <1>5, LsMoves DEF Moves, LsLabels
<1>6. CASE GrepStep
  BY <1>0, <1>1, <1>6, GrepMoves DEF Moves, GrepLabels, FileLabels
<1>l. CASE GrepLost
  BY <1>0, <1>1, <1>l, GrepLoses
<1>7. CASE CountStep
  BY <1>0, <1>1, <1>7, CountMoves DEF Moves, CountLabels
<1>8. CASE SyserrStep
  BY <1>0, <1>1, <1>8, SyserrMoves DEF Moves, SyserrLabels
<1>9. CASE CatArgs
  <2>1. at' = "cat_open" \/ (at' = "returned" /\ rval' = 3)
    BY <1>0, <1>9, GetArgsMoves DEF CatArgs
  <2> QED BY <1>1, <2>1
<1>10. CASE CatOpen
  <2>1. /\ at = "cat_open"
        /\ \/ /\ Open(Child, local.name) /\ at' = "cat_read"
              /\ local'.fd = ret'[Child] /\ local'.name = local.name
           \/ at' = "returned" /\ rval' = 2
        /\ UNCHANGED <<shell, out>>
    <3>1. "fd" \in Fields /\ "name" \in Fields \ {"fd"}
      BY DEF Fields
    <3> QED BY <1>0, <1>10, <3>1, OpenForMoves DEF CatOpen
  <2>2. CASE at' = "returned" /\ rval' = 2
    BY <1>1, <2>2
  <2>3. CASE /\ Open(Child, local.name) /\ at' = "cat_read"
             /\ local'.fd = ret'[Child] /\ local'.name = local.name
    <3>1. PICK fd, name : fd = ret'[Child] /\ name = local.name
      OBVIOUS
    <3>2. Open(Child, name)
      BY <2>3, <3>1
    <3>3. OpenedAs(fd, name)' /\ Table(Child)'[fd].pos = 0
      BY <1>0, <3>1, <3>2, OpenGives
    <3>4. out' = <<>>
      BY <1>0, <2>1 DEF PhaseInv
    <3>5. TextUpto(DentryOf(name), 0)' = <<>>
      <4>1. Matches(name) # {}
        BY <3>2 DEF Open
      <4>2. UNCHANGED session
        BY <2>1 DEF shell
      <4> QED BY <4>1, <4>2, NoTextYet, TextStays
    <3>6. local'.fd = fd /\ local'.name = name
      BY <2>3, <3>1
    <3> QED BY <2>3, <3>3, <3>4, <3>5, <3>6 DEF CatInv, Ended
  <2> QED BY <2>1, <2>2, <2>3
<1>11. CASE CatRead
  <2>1. /\ at = "cat_read" /\ ReadAny(local.fd, CAT_BUF) /\ Got(Chars(buf'[Child]))
        /\ UNCHANGED <<shell, local>>
    BY <1>11 DEF CatRead
  <2>2. PICK fd, name : fd = local.fd /\ name = local.name
    OBVIOUS
  <2>3. OpenedAs(fd, name) /\ ReadAny(fd, CAT_BUF)
        /\ out = TextUpto(DentryOf(name), Table(Child)[fd].pos)
    BY <1>0, <2>1, <2>2 DEF CatInv
  <2> DEFINE d == DentryOf(name)
             text == TextUpto(d, Table(Child)[fd].pos)
  <2>4. /\ OpenedAs(fd, name)'
        /\ \/ ret'[Child] = -1
           \/ ret'[Child] = 0 /\ text = FileText(d)
           \/ /\ ret'[Child] \notin {-1, 0}
              /\ TextUpto(d, Table(Child)'[fd].pos) = text \o Chars(buf'[Child])
    BY <1>0, <2>3, CatReads
  <2>5. \A pos : TextUpto(d, pos)' = TextUpto(d, pos) /\ FileText(d)' = FileText(d)
    <3>1. UNCHANGED session
      BY <2>1 DEF shell
    <3> QED BY <3>1, TextStays
  <2>6. local'.fd = fd /\ local'.name = name
    BY <2>1, <2>2
  <2>7. CASE ret'[Child] = -1
    <3>1. at' = "returned" /\ rval' = 3
      BY <2>1, <2>7 DEF Got, Halt
    <3> QED BY <1>1, <3>1
  <2>8. CASE ret'[Child] = 0 /\ text = FileText(d)
    <3>1. at' = "returned" /\ UNCHANGED out
      BY <2>1, <2>8 DEF Got, Halt
    <3>2. out' = FileText(DentryOf(name))'
      BY <2>3, <2>5, <2>8, <3>1
    <3> QED BY <2>6, <3>1, <3>2 DEF CatInv
  <2>9. CASE /\ ret'[Child] \notin {-1, 0}
             /\ TextUpto(d, Table(Child)'[fd].pos) = text \o Chars(buf'[Child])
    <3>1. at' = "cat_read" /\ out' = out \o Chars(buf'[Child])
      BY <2>1, <2>9 DEF Got
    <3>2. out' = TextUpto(d, Table(Child)'[fd].pos)
      BY <2>3, <2>9, <3>1
    <3>3. TextUpto(d, Table(Child)'[fd].pos) = TextUpto(DentryOf(name), Table(Child)[fd].pos)'
      BY <2>5
    <3> QED BY <2>4, <2>6, <3>1, <3>2, <3>3 DEF CatInv, Ended
  <2> QED BY <2>4, <2>7, <2>8, <2>9
<1> QED BY <1>2, <1>3, <1>4, <1>5, <1>6, <1>l, <1>7, <1>8, <1>9, <1>10, <1>11, StepCases
        DEF CatStep

LEMMA LsKept ==
    ASSUME ProgramsInv, [ProgramsNext]_all
    PROVE  LsInv'
<1>0. PhaseInv /\ FilesInv /\ ShellInv /\ LsInv /\ DOMAIN local = Fields
  BY LocalFields DEF ProgramsInv, PhaseInv
<1>1. ASSUME at' # "ls_read", local'.prog # "ls" \/ at' # "returned" \/ rval' \notin {0, 3}
      PROVE  LsInv'
  BY <1>1 DEF LsInv, LsRight, Ended
<1>2. CASE UNCHANGED all
  <2>1. /\ UNCHANGED <<at, local, out, rval, session>> /\ Table(Child)' = Table(Child)
    BY <1>2 DEF all, child, shell, vars, Table
  <2> QED BY <1>0, <2>1 DEF LsInv, LsRight, Ended, OpenedAs, InUse
<1>3. CASE KernelStep
  BY <1>0, <1>1, <1>3, KernelMoves DEF KernelLabels
<1>4. CASE ExecuteRun
  <2>1. session \in Sessions
    BY <1>0, <1>4 DEF ExecuteRun, ShellInv
  <2> QED BY <1>0, <1>1, <1>4, <2>1, ExecuteRunMoves DEF FirstLabels
<1>5. CASE CatStep
  BY <1>0, <1>1, <1>5, CatMoves DEF Moves, CatLabels
<1>6. CASE GrepStep
  BY <1>0, <1>1, <1>6, GrepMoves DEF Moves, GrepLabels, FileLabels
<1>l. CASE GrepLost
  BY <1>0, <1>1, <1>l, GrepLoses
<1>7. CASE CountStep
  BY <1>0, <1>1, <1>7, CountMoves DEF Moves, CountLabels
<1>8. CASE SyserrStep
  BY <1>0, <1>1, <1>8, SyserrMoves DEF Moves, SyserrLabels
<1>9. CASE LsOpen
  <2>1. /\ at = "ls"
        /\ \/ Open(Child, Dot) /\ at' = "ls_read" /\ local'.fd = ret'[Child]
           \/ at' = "returned" /\ rval' = 2
        /\ UNCHANGED out
    <3>1. "fd" \in Fields
      BY DEF Fields
    <3> QED BY <1>0, <1>9, <3>1, OpenForMoves DEF LsOpen
  <2>2. CASE at' = "returned" /\ rval' = 2
    BY <1>1, <2>2
  <2>3. CASE Open(Child, Dot) /\ at' = "ls_read" /\ local'.fd = ret'[Child]
    <3>1. PICK fd : fd = ret'[Child]
      OBVIOUS
    <3>2. OpenedAs(fd, Dot)' /\ Table(Child)'[fd].pos = 0
      BY <1>0, <2>3, <3>1, OpenGives
    <3>3. out' = <<>>
      BY <1>0, <2>1 DEF PhaseInv
    <3>4. Upto(NameLines(<<NL>>), 0) = <<>>
      <4>1. <<NL>> \in Seq(Nat)
        BY DEF NL
      <4> QED BY <4>1, NamesGrow
    <3>5. local'.fd = fd
      BY <2>3, <3>1
    <3> QED BY <2>3, <3>2, <3>3, <3>4, <3>5 DEF LsInv, LsRight, Ended
  <2> QED BY <2>1, <2>2, <2>3
<1>10. CASE LsRead
  <2>1. /\ at = "ls_read" /\ ReadAny(local.fd, NAME) /\ Got(Append(Chars(buf'[Child]), NL))
        /\ local' \in PutBehind("fd", NL)
    BY <1>10 DEF LsRead
  <2>2. PICK fd : fd = local.fd
    OBVIOUS
  <2> DEFINE U(p) == Upto(NameLines(<<NL>>), p)
             pos == Table(Child)[fd].pos
             next == Table(Child)'[fd].pos
             more == Append(Chars(buf'[Child]), NL)
  <2>n. num_of_entries \in Nat /\ NAME \in Int /\ NUM_FD <= NL /\ NL \notin Fds
    BY ImageAssumption, FilesAssumption, SizesAssumption DEF num_of_entries, Fds, NL
  <2>3. CASE OpenedAs(fd, Dot) /\ out = U(pos)
    <3>1. ReadAny(fd, NAME)
      BY <2>1, <2>2
    <3>2. /\ OpenedAs(fd, Dot)'
          /\ \/ ret'[Child] = 0 /\ pos = num_of_entries
                /\ U(pos) = FlattenSeq(NameLines(<<NL>>))
             \/ /\ pos + 1 \in 1 .. num_of_entries
                /\ ret'[Child] = Len(ListedName(pos + 1)) /\ ret'[Child] \notin {-1, 0}
                /\ Chars(buf'[Child]) = ListedName(pos + 1)
                /\ next = pos + 1
                /\ U(next) = U(pos) \o more
      BY <1>0, <2>n, <2>3, <3>1, LsReads
    <3> HIDE DEF U, pos, next
    <3>3. CASE ret'[Child] = 0 /\ pos = num_of_entries
      <4>1. at' = "returned" /\ rval' = 0 /\ UNCHANGED out
        BY <2>1, <3>3 DEF Got, Halt
      <4>2. out' = LsLines(num_of_entries)
        <5>1. num_of_entries \in 0 .. num_of_entries
          BY <2>n
        <5> QED BY <2>3, <3>3, <4>1, <5>1, ListedNames DEF U
      <4> QED BY <4>1, <4>2 DEF LsInv, LsRight
    <3>4. CASE /\ pos + 1 \in 1 .. num_of_entries
               /\ ret'[Child] = Len(ListedName(pos + 1)) /\ ret'[Child] \notin {-1, 0}
               /\ next = pos + 1 /\ U(next) = U(pos) \o more
      <4>1. at' = "ls_read" /\ out' = U(next)
        <5> HIDE DEF more
        <5>1. Got(more)
          BY <2>1 DEF more
        <5>2. out' = out \o more /\ at' = at
          BY <3>4, <5>1 DEF Got
        <5> QED BY <2>1, <2>3, <3>4, <5>2
      <4>2. CASE local' = local
        <5>1. local'.fd = fd
          BY <2>2, <4>2
        <5> QED BY <3>2, <4>1, <5>1 DEF LsInv, LsRight, Ended, U, next
      <4>3. CASE local' # local
        <5>1. ~(ret'[Child] <= NAME) /\ local' = [local EXCEPT !.fd = NL]
          BY <2>1, <4>3 DEF PutBehind
        <5>2. local'.fd = NL
          BY <1>0, <5>1 DEF Fields
        <5>3. Len(ListedName(pos + 1)) > NAME
          BY <2>n, <3>4, <5>1, NamesListed
        <5>4. out' = LsLines(pos + 1)
          <6>1. pos + 1 \in 0 .. num_of_entries
            BY <2>n, <3>4
          <6> QED BY <3>4, <4>1, <6>1, ListedNames DEF U
        <5> QED BY <3>4, <4>1, <5>2, <5>3, <5>4 DEF LsInv, LsRight, Ended
      <4> QED BY <4>2, <4>3
    <3> QED BY <3>2, <3>3, <3>4
  <2>4. ASSUME fd = NL, NEW n \in 1 .. num_of_entries, Len(ListedName(n)) > NAME,
               out = LsLines(n)
        PROVE  LsInv'
    <3>1. ret'[Child] = -1
      BY <1>0, <2>1, <2>2, <2>n, <2>4, ReadsNoDescriptor
    <3>2. at' = "returned" /\ rval' = 3 /\ UNCHANGED out
      BY <2>1, <3>1 DEF Got, Halt
    <3> QED BY <2>4, <3>2 DEF LsInv, LsRight, Ended
  <2> QED BY <1>0, <2>1, <2>2, <2>3, <2>4 DEF LsInv
<1> QED BY <1>2, <1>3, <1>4, <1>5, <1>6, <1>l, <1>7, <1>8, <1>9, <1>10, StepCases DEF LsStep

\* While cat runs, what it has written is the beginning of the file.
LEMMA CatPrefix ==
    ASSUME FilesInv, CatInv, at = "cat_read"
    PROVE  IsPrefix(out, FileText(DentryOf(local.name)))
<1> DEFINE d == DentryOf(local.name)
           D == Table(Child)[local.fd]
           pos == D.pos
<1>1. OpenedAs(local.fd, local.name) /\ out = TextUpto(d, pos)
  BY DEF CatInv
<1>2. /\ Matches(local.name) # {} /\ local.fd \in Fds /\ D.flags = 1
      /\ D = [Opened(d) EXCEPT !.pos = pos]
  BY <1>1 DEF OpenedAs, InUse
<1>3. D \in Goods /\ pos \in Nat
  <2>1. D \in Goods /\ D \in Descs
    BY <1>2, DescriptorGood, SizesAssumption
  <2> QED BY <2>1 DEF Descs
<1>4. d.filetype \in {0, 1, 2} /\ d.inode_num \in DOMAIN Inodes /\ d.inode_num # -1
  BY <1>2, EntryFacts
<1>7. num_of_entries \in Nat /\ -1 \notin DOMAIN Inodes
  BY ImageAssumption DEF num_of_entries
<1>8. <<>> \in Seq(Nat)
  OBVIOUS
<1> HIDE DEF d, D
<1>5. /\ d.filetype = 1 => D.ops = "files" /\ D.inode = -1
      /\ d.filetype = 2 => D.ops = "files" /\ D.inode = d.inode_num
  BY <1>2, <1>4, OpenedFields
<1>9. CASE d.filetype = 0
  <2>1. TextUpto(d, pos) = <<>> /\ FileText(d) = <<>>
    BY <1>9 DEF TextUpto, FileText
  <2>2. IsPrefix(<<>>, <<>>)
    <3>1. Len(<<>>) <= Len(<<>>) /\ \A i \in 1 .. Len(<<>>) : <<>>[i] = <<>>[i]
      OBVIOUS
    <3> QED BY <1>8, <3>1, PrefixIs
  <2> QED BY <1>1, <2>1, <2>2 DEF d
<1>10. CASE d.filetype = 1
  <2>1. pos \in 0 .. num_of_entries
    BY <1>3, <1>5, <1>7, <1>10 DEF Goods, Within
  <2>2. IsPrefix(Upto(NameLines(<<>>), pos), FlattenSeq(NameLines(<<>>)))
    BY <1>8, <2>1, NamesPrefix
  <2>3. TextUpto(d, pos) = Upto(NameLines(<<>>), pos)
        /\ FileText(d) = FlattenSeq(NameLines(<<>>))
    BY <1>10, ListedNames DEF TextUpto, FileText
  <2> QED BY <1>1, <2>2, <2>3 DEF d
<1>11. CASE d.filetype = 2
  <2>1. pos <= Inodes[d.inode_num].length
    BY <1>3, <1>4, <1>5, <1>11 DEF Goods, Within
  <2>2. IsPrefix(Chars(SubSeq(Content(d.inode_num), 1, pos)), Chars(Content(d.inode_num)))
    <3>1. pos <= pos
      BY <1>3
    <3> QED BY <1>3, <1>4, <2>1, <3>1, CharsJoin
  <2>3. TextUpto(d, pos) = Chars(SubSeq(Content(d.inode_num), 1, pos))
        /\ FileText(d) = Chars(Content(d.inode_num))
    BY <1>11 DEF TextUpto, FileText
  <2> QED BY <1>1, <2>2, <2>3 DEF d
<1> QED BY <1>4, <1>9, <1>10, <1>11


-----------------------------------------------------------------------------
(* grep's descriptors and its place in the buffer.                          *)

LEMMA CloseGives ==
    ASSUME FilesInv, NEW fd, Close(Child, fd)
    PROVE  /\ FilesInv' /\ InUse' = InUse \ {fd} /\ fd \in InUse /\ ret'[Child] = 0
           /\ \A e, other : OpenedAs(e, other) /\ e # fd => OpenedAs(e, other)'
<1> DEFINE x == [Table(Child)[fd] EXCEPT !.flags = 0]
<1>1. Child \in Procs
  BY SizesAssumption
<1>2. /\ FilesInv' /\ fd \in Fds \ {0, 1} /\ ret'[Child] = 0
      /\ Table(Child)' = [Table(Child) EXCEPT ![fd] = x]
  BY <1>1, CloseKeeps
<1>3. Table(Child)[fd].flags = 1 /\ Table(Child) \in [Fds -> Goods]
  BY <1>1 DEF Close, Closable, Usable, FilesInv, Table
<1>4. x.flags = 0
  <2>1. Table(Child)[fd] \in Descs
    BY <1>1, <1>2, DescriptorGood
  <2> QED BY <2>1 DEF Descs
<1> HIDE DEF x
<1>5. /\ Table(Child)'[fd] = x
      /\ \A e \in Fds \ {fd} : Table(Child)'[e] = Table(Child)[e]
  BY <1>2, <1>3
<1>6. InUse' = InUse \ {fd} /\ fd \in InUse
  BY <1>2, <1>3, <1>4, <1>5 DEF InUse
<1>7. ASSUME NEW e, NEW other, OpenedAs(e, other), e # fd PROVE OpenedAs(e, other)'
  <2>1. e \in Fds /\ e \in InUse
    BY <1>7 DEF OpenedAs, InUse
  <2>2. Table(Child)'[e] = Table(Child)[e]
    BY <1>5, <1>7, <2>1
  <2> QED BY <1>6, <1>7, <2>1, <2>2 DEF OpenedAs
<1> QED BY <1>2, <1>6, <1>7

\* Where grep is in its buffer; the other programs leave that alone.
Places(r) == r.last \in 0 .. BUFSIZE /\ r.line_start \in 0 .. BUFSIZE + 1
SamePlace == local'.last = local.last /\ local'.line_start = local.line_start

LEMMA PlacesKept ==
    ASSUME DOMAIN local = Fields, Places(local),
           KernelStep \/ CatStep \/ LsStep \/ CountStep \/ SyserrStep
    PROVE  Places(local')
<1>0. {"last", "line_start"} \subseteq Fields \ {"search", "name", "fd", "word", "from", "leng",
         "max", "i", "todo", "cnt"}
  BY DEF Fields
<1>1. ASSUME SamePlace PROVE Places(local')
  BY <1>1 DEF Places, SamePlace
<1>2. CASE KernelStep
  <2>1. CASE BootStep
    BY <1>1, <2>1 DEF BootStep, BootPrint, BootPrinted, BootShell, child, SamePlace
  <2>2. ASSUME NEW line, ShellRead(line) PROVE Places(local')
    BY <1>1, <2>2 DEF ShellRead, child, SamePlace
  <2>3. CASE ShellExit
    BY <1>1, <2>3 DEF ShellExit, child, SamePlace
  <2>4. CASE ShellReport
    <3>1. local' = NoLocals /\ NoLocals.last = 0 /\ NoLocals.line_start = 0
      BY <2>4 DEF ShellReport, NoLocals
    <3> QED BY <3>1, SizesAssumption DEF Places
  <2>5. CASE ExecuteParse
    <3>1. local' = [local EXCEPT !.word = Bytes(line_buf, 0, cmd_leng),
                                 !.from = ArgsAt(cmd_leng),
                                 !.leng = strlen(line_buf, ArgsAt(cmd_leng))]
      BY <2>5 DEF ExecuteParse
    <3> QED BY <1>1, <3>1 DEF SamePlace, Fields
  <2>6. CASE ExecuteOverrun \/ ExecuteFail \/ ExecuteClear
    BY <1>1, <2>6 DEF ExecuteOverrun, ExecuteFail, ExecuteClear, child, SamePlace
  <2> QED BY <1>2, <2>1, <2>2, <2>3, <2>4, <2>5, <2>6 DEF KernelStep, ShellStep
<1>3. CASE CatStep
  <2>1. CASE CatArgs
    BY <1>0, <1>1, <2>1, GetArgsMoves DEF CatArgs, SamePlace
  <2>2. CASE CatOpen
    <3>1. "fd" \in Fields /\ "last" \in Fields \ {"fd"} /\ "line_start" \in Fields \ {"fd"}
      BY DEF Fields
    <3> QED BY <1>1, <2>2, <3>1, OpenForMoves DEF CatOpen, SamePlace
  <2>3. CASE CatRead
    BY <1>1, <2>3 DEF CatRead, SamePlace
  <2> QED BY <1>3, <2>1, <2>2, <2>3 DEF CatStep
<1>4. CASE LsStep
  <2>1. CASE LsOpen
    <3>1. "fd" \in Fields /\ "last" \in Fields \ {"fd"} /\ "line_start" \in Fields \ {"fd"}
      BY DEF Fields
    <3> QED BY <1>1, <2>1, <3>1, OpenForMoves DEF LsOpen, SamePlace
  <2>2. CASE LsRead
    BY <1>1, <2>2 DEF LsRead, PutBehind, SamePlace, Fields
  <2> QED BY <1>4, <2>1, <2>2 DEF LsStep
<1>5. CASE CountStep
  <2>1. ASSUME NEW line, CounterRead(line) PROVE Places(local')
    <3>1. UNCHANGED local
            \/ local' = [local EXCEPT !.max = IF line = <<>> THEN 0 ELSE LIMITS[line[1] - 47]]
      BY <2>1 DEF CounterRead
    <3> QED BY <1>1, <3>1 DEF SamePlace, Fields
  <2>2. CASE Count
    <3>1. UNCHANGED local \/ local' = [local EXCEPT !.i = @ + 1]
      BY <2>2 DEF Count
    <3> QED BY <1>1, <3>1 DEF SamePlace, Fields
  <2> QED BY <1>5, <2>1, <2>2 DEF CountStep
<1>6. CASE SyserrStep
  <2>1. ASSUME NEW line, SyserrRead(line) PROVE Places(local')
    <3>1. UNCHANGED local \/ \E todo : local' = [local EXCEPT !.i = 1, !.todo = todo]
      BY <2>1 DEF SyserrRead
    <3> QED BY <1>1, <3>1 DEF SamePlace, Fields
  <2>2. CASE SyserrCall
    <3>1. \E cnt : local' = [local EXCEPT !.i = @ + 1, !.cnt = cnt]
      BY <2>2 DEF SyserrCall
    <3> QED BY <1>1, <3>1 DEF SamePlace, Fields
  <2>3. CASE SyserrVerdict
    <3>1. local' = [local EXCEPT !.i = 1, !.cnt = 0, !.todo = Tail(@)]
      BY <2>3 DEF SyserrVerdict
    <3> QED BY <1>1, <3>1 DEF SamePlace, Fields
  <2> QED BY <1>6, <2>1, <2>2, <2>3 DEF SyserrStep
<1> QED BY <1>2, <1>3, <1>4, <1>5, <1>6

\* The parts of GrepInv about descriptors, for a place and values of the locals.
Held(where, dir, fd, name) ==
    /\ where \in {"grep", "grep_dir"} => InUse = {}
    /\ where \in {"grep_entry", "grep_open"} =>
         \E e \in InUse : DirectoryAt(e, dir) /\ InUse = {e}
    /\ where \in {"grep_open"} \cup FileLabels =>
         name \in Seq(Nat) /\ (Matches(name) # {} => DentryOf(name).filetype # 1)
    /\ where \in FileLabels =>
         /\ OpenedAs(fd, name)
         /\ \E e \in InUse \ {fd} : DirectoryAt(e, dir) /\ InUse = {e, fd}

LEMMA GrepInvIs ==
    GrepInv <=> /\ Places(local) /\ (at = "grep_line" => local.line_start <= local.last)
                /\ Held(at, local.dir, local.fd, local.name)
BY DEF GrepInv, Held, Places

\* A read of grep fits into what is left of its buffer.
LEMMA GrepReadFits ==
    ASSUME FilesInv, NEW fd, NEW name, OpenedAs(fd, name), DentryOf(name).filetype # 1,
           NEW n \in 0 .. BUFSIZE, ReadAny(fd, n)
    PROVE  Len(Chars(buf'[Child])) \in 0 .. n
<1> DEFINE d == DentryOf(name)
           pos == Table(Child)[fd].pos
           next == Table(Child)'[fd].pos
<1>0. n \in Int /\ n \in Nat /\ n % WORD = n
  BY SizesAssumption, FilesAssumption
<1>1. /\ pos \in Nat /\ next \in Nat
      /\ \/ ReadsDevice(d, pos, next) \/ ReadsEntry(d, pos, next) \/ ReadsLast(d, pos)
         \/ ReadsNoBlock(d) \/ ReadsBytes(d, pos, next, n)
  BY <1>0, ReadOpened
<1> HIDE DEF pos, next
<1>2. CASE buf'[Child] = <<>>
  <2>1. <<>> \in Seq(ByteNames) /\ Len(<<>>) = 0
    OBVIOUS
  <2>2. Len(Chars(<<>>)) = 0
    BY <2>1, CharsAre
  <2> QED BY <1>0, <1>2, <2>2
<1>3. CASE ReadsBytes(d, pos, next, n)
  <2> DEFINE inode == d.inode_num
  <2>1. /\ inode \in DOMAIN Inodes /\ pos <= next /\ next <= Inodes[inode].length
        /\ next - pos <= n /\ buf'[Child] = SubSeq(Content(inode), pos + 1, next)
    BY <1>0, <1>3 DEF ReadsBytes
  <2> HIDE DEF inode
  <2>2. Len(Chars(SubSeq(Content(inode), pos + 1, next))) = next - pos
    BY <1>1, <2>1, CharsJoin
  <2> QED BY <1>0, <1>1, <2>1, <2>2
<1>4. ReadsBytes(d, pos, next, n) \/ buf'[Child] = <<>>
  <2>1. d.filetype # 1
    OBVIOUS
  <2> HIDE DEF d
  <2> QED BY <1>1, <2>1 DEF ReadsDevice, ReadsEntry, ReadsLast, ReadsNoBlock
<1> QED BY <1>2, <1>3, <1>4

LEMMA LineEnds ==
    ASSUME Places(local)
    PROVE  line_end \in 0 .. local.last
<1> DEFINE T == {local.last} \cup
                  {k \in local.line_start .. local.last - 1 : local.data[k] = NL}
<1>1. T \subseteq Nat /\ T # {} /\ local.last \in T
  BY SizesAssumption DEF Places
<1>2. Min(T) \in T /\ Min(T) <= local.last
  <2> HIDE DEF T
  <2> QED BY <1>1, LeastIs
<1>3. line_end = Min(T)
  BY DEF line_end
<1>4. line_end \in Nat /\ line_end <= local.last /\ local.last \in Nat
  <2> HIDE DEF T
  <2> QED BY <1>1, <1>2, <1>3, Zenon
<1> HIDE DEF line_end
<1> QED BY <1>4

LEMMA GrepKept ==
    ASSUME ProgramsInv, [ProgramsNext]_all
    PROVE  GrepInv'
<1>0. /\ PhaseInv /\ FilesInv /\ ShellInv /\ DOMAIN local = Fields
      /\ Places(local) /\ (at = "grep_line" => local.line_start <= local.last)
      /\ Held(at, local.dir, local.fd, local.name)
  BY LocalFields, GrepInvIs DEF ProgramsInv, PhaseInv
<1> DEFINE InOrder == at' = "grep_line" => local'.line_start <= local'.last
<1>g. ASSUME Places(local'), InOrder, Held(at, local.dir, local.fd, local.name)' PROVE GrepInv'
  BY <1>g DEF GrepInv, Held, Places
<1>t. ASSUME Table(Child)' = Table(Child), Held(at', local'.dir, local'.fd, local'.name)
      PROVE  Held(at, local.dir, local.fd, local.name)'
  <2>1. InUse' = InUse
    BY <1>t DEF InUse
  <2>2. \A e, name : OpenedAs(e, name) => OpenedAs(e, name)'
    BY <1>t, <2>1 DEF OpenedAs
  <2>3. \A e : DirectoryAt(e, local'.dir) => DirectoryAt(e, local.dir)'
    BY <2>2 DEF DirectoryAt, LongNames
  <2>4. at' \in {"grep_entry", "grep_open"} =>
          \E e \in InUse' : DirectoryAt(e, local.dir)' /\ InUse' = {e}
    BY <1>t, <2>1, <2>3 DEF Held
  <2>5. at' \in FileLabels =>
          /\ OpenedAs(local.fd, local.name)'
          /\ \E e \in InUse' \ {local'.fd} :
               DirectoryAt(e, local.dir)' /\ InUse' = {e, local'.fd}
    BY <1>t, <2>1, <2>2, <2>3 DEF Held
  <2> QED BY <1>t, <2>1, <2>4, <2>5 DEF Held
<1>1. ASSUME at' \notin GrepLabels, Places(local') PROVE GrepInv'
  BY <1>1 DEF GrepInv, GrepLabels, FileLabels, Places
<1>2. CASE UNCHANGED all
  <2>1. /\ UNCHANGED <<at, local>> /\ Table(Child)' = Table(Child)
    BY <1>2 DEF all, child, vars, Table
  <2>2. Held(at, local.dir, local.fd, local.name)'
    BY <1>0, <1>t, <2>1
  <2> QED BY <1>0, <1>g, <2>1, <2>2 DEF Places
<1>3. CASE KernelStep
  BY <1>0, <1>1, <1>3, KernelMoves, PlacesKept DEF KernelLabels, GrepLabels, FileLabels
<1>4. CASE ExecuteRun
  <2>1. session \in Sessions
    BY <1>0, <1>4 DEF ExecuteRun, ShellInv
  <2>2. /\ at' \in FirstLabels /\ local' = [NoLocals EXCEPT !.prog = at'] /\ InUse' = {}
    BY <1>0, <1>4, <2>1, ExecuteRunMoves
  <2>3. local'.last = 0 /\ local'.line_start = 0
    BY <2>2 DEF NoLocals
  <2> QED BY <2>2, <2>3, SizesAssumption DEF GrepInv, FirstLabels, FileLabels
<1>l. CASE GrepLost
  BY <1>0, <1>1, <1>l, GrepLoses DEF GrepLabels, FileLabels
<1>5. CASE CatStep
  BY <1>0, <1>1, <1>5, CatMoves, PlacesKept DEF Moves, CatLabels, GrepLabels, FileLabels
<1>6. CASE LsStep
  BY <1>0, <1>1, <1>6, LsMoves, PlacesKept DEF Moves, LsLabels, GrepLabels, FileLabels
<1>7. CASE CountStep
  BY <1>0, <1>1, <1>7, CountMoves, PlacesKept DEF Moves, CountLabels, GrepLabels, FileLabels
<1>8. CASE SyserrStep
  BY <1>0, <1>1, <1>8, SyserrMoves, PlacesKept DEF Moves, SyserrLabels, GrepLabels, FileLabels
<1>r. ASSUME at' = "returned", SamePlace PROVE GrepInv'
  BY <1>0, <1>1, <1>r DEF Places, SamePlace, GrepLabels, FileLabels
<1>9. CASE GrepArgs
  <2>1. /\ at = "grep" /\ at' \in {"grep_dir", "returned"} /\ UNCHANGED vars /\ SamePlace
    <3>1. {"last", "line_start"} \subseteq Fields \ {"search", "name"}
      BY DEF Fields
    <3> QED BY <1>0, <1>9, <3>1, GetArgsMoves DEF GrepArgs, SamePlace
  <2>2. InUse' = {}
    BY <1>0, <2>1 DEF vars, InUse, Table, Held
  <2>3. Places(local')
    BY <1>0, <2>1 DEF Places, SamePlace
  <2> QED BY <1>g, <2>1, <2>2, <2>3 DEF Held, FileLabels
<1>10. CASE GrepDir
  <2>1. /\ at = "grep_dir" /\ SamePlace
        /\ \/ Open(Child, Dot) /\ at' = "grep_entry" /\ local'.dir = ret'[Child]
           \/ at' = "returned"
    <3>1. "dir" \in Fields /\ {"last", "line_start"} \subseteq Fields \ {"dir"}
      BY DEF Fields
    <3> QED BY <1>0, <1>10, <3>1, OpenForMoves DEF GrepDir, SamePlace
  <2>2. CASE Open(Child, Dot) /\ at' = "grep_entry" /\ local'.dir = ret'[Child]
    <3>1. PICK fd : fd = ret'[Child]
      OBVIOUS
    <3>2. OpenedAs(fd, Dot)' /\ InUse' = InUse \cup {fd}
      BY <1>0, <2>2, <3>1, OpenGives
    <3>3. InUse = {} /\ Places(local') /\ local'.dir = fd
      BY <1>0, <2>1, <2>2, <3>1 DEF Held, Places, SamePlace
    <3>4. \E e \in InUse' : DirectoryAt(e, local.dir)' /\ InUse' = {e}
      <4>1. fd \in InUse' /\ InUse' = {fd}
        BY <3>2, <3>3
      <4> QED BY <3>2, <3>3, <4>1 DEF DirectoryAt
    <3> QED BY <1>g, <2>2, <3>3, <3>4 DEF Held, FileLabels
  <2> QED BY <1>r, <2>1, <2>2
<1>e. ASSUME NEW e, OpenedAs(e, Dot), InUse = {e}, OpenedAs(e, Dot)', InUse' = {e},
             (local'.dir = local.dir /\ DirectoryAt(e, local.dir)) \/ (local'.dir = 0 /\ LongNames),
             Places(local'),
             at' = "grep_entry" \/ (/\ at' = "grep_open"
                                    /\ local'.name \in Seq(Nat) /\ local'.name # <<>>
                                    /\ local'.name[1] # Dot[1])
      PROVE  GrepInv'
  <2>1. DirectoryAt(e, local.dir)'
    BY <1>e DEF DirectoryAt, LongNames
  <2>2. at' = "grep_open" =>
          (Matches(local'.name) # {} => DentryOf(local'.name).filetype # 1)
    BY <1>e, NotDirectory
  <2>3. Held(at, local.dir, local.fd, local.name)'
    <3>1. \E x \in InUse' : DirectoryAt(x, local.dir)' /\ InUse' = {x}
      BY <1>e, <2>1
    <3> QED BY <1>e, <2>2, <3>1 DEF Held, FileLabels
  <2>4. InOrder
    BY <1>e
  <2> QED BY <1>e, <1>g, <2>3, <2>4
<1>11. CASE GrepEntry
  <2>1. /\ at = "grep_entry" /\ local.dir # 0 /\ ReadAny(local.dir, NAME)
        /\ CASE ret'[Child] = 0 -> at' = "returned" /\ UNCHANGED local
             [] ret'[Child] = -1 -> at' = "returned" /\ UNCHANGED local
             [] OTHER -> IF Chars(buf'[Child])[1] = Dot[1] THEN UNCHANGED <<at, local>>
                         ELSE /\ \E l \in PutBehind("dir", 0) :
                                   local' = [l EXCEPT !.name = Chars(buf'[Child])]
                              /\ at' = "grep_open"
    BY <1>11 DEF GrepEntry, Halt
  <2>2. PICK dir : dir = local.dir
    OBVIOUS
  <2>3. /\ OpenedAs(dir, Dot) /\ InUse = {dir} /\ ReadAny(dir, NAME) /\ NAME \in Int
        /\ DirectoryAt(dir, local.dir)
    BY <1>0, <2>1, <2>2, FilesAssumption DEF Held, DirectoryAt
  <2>4. OpenedAs(dir, Dot)' /\ InUse' = {dir}
    BY <1>0, <2>3, ReadOpened
  <2>5. CASE ret'[Child] = 0
    BY <1>r, <2>1, <2>5 DEF SamePlace
  <2>6. ASSUME NEW i \in 1 .. num_of_entries, ret'[Child] = Len(ListedName(i)),
               ret'[Child] \notin {-1, 0}, Chars(buf'[Child]) = ListedName(i)
        PROVE  GrepInv'
    <3> DEFINE name == ListedName(i)
    <3>0. name \in Seq(Nat) /\ name # <<>> /\ (~(ret'[Child] <= NAME) => LongNames)
      <4>1. name \in Seq(Nat) /\ Len(name) \in 1 .. NAME + 1
        BY NamesListed
      <4>2. name # <<>>
        BY <4>1
      <4> QED BY <2>3, <2>6, <4>1, <4>2 DEF LongNames
    <3> HIDE DEF name
    <3>1. CASE name[1] = Dot[1]
      <4>1. UNCHANGED <<at, local>>
        BY <2>1, <2>6, <3>1 DEF name
      <4>2. Places(local')
        BY <1>0, <4>1 DEF Places
      <4> QED BY <1>e, <2>1, <2>3, <2>4, <4>1, <4>2
    <3>2. CASE name[1] # Dot[1]
      <4>1. PICK l \in PutBehind("dir", 0) : local' = [l EXCEPT !.name = name] /\ at' = "grep_open"
        BY <2>1, <2>6, <3>2 DEF name
      <4>2. /\ local'.name = name /\ SamePlace
            /\ local'.dir = local.dir \/ (local'.dir = 0 /\ LongNames)
        <5>1. l = local \/ (l = [local EXCEPT !.dir = 0] /\ LongNames)
          BY <3>0, <4>1 DEF PutBehind
        <5>2. CASE l = local
          BY <1>0, <4>1, <5>2 DEF Fields, SamePlace
        <5>3. CASE l = [local EXCEPT !.dir = 0] /\ LongNames
          BY <1>0, <4>1, <5>3 DEF Fields, SamePlace
        <5> QED BY <5>1, <5>2, <5>3
      <4>3. Places(local')
        BY <1>0, <4>2 DEF Places, SamePlace
      <4> QED BY <1>e, <2>3, <2>4, <3>0, <3>2, <4>1, <4>2, <4>3
    <3> QED BY <3>1, <3>2
  <2> QED BY <1>0, <2>3, <2>5, <2>6, LsReads
<1>k. CASE GrepLine
  <2>1. PICK line \in Answers : GrepKeyboard(line) /\ at' # "lost"
    BY <1>k DEF GrepLine
  <2>2. /\ at = "grep_entry" /\ local.dir = 0 /\ ReadDevice(Child, 0) /\ SamePlace
        /\ \/ at' = "returned"
           \/ local'.dir = local.dir /\ at' = "grep_entry"
           \/ /\ local'.dir = local.dir /\ at' = "grep_open"
              /\ local'.name \in Seq(Nat) /\ local'.name # <<>> /\ local'.name[1] # Dot[1]
    <3>1. {"last", "line_start", "dir"} \subseteq Fields \ {"name"}
      BY DEF Fields
    <3> QED BY <1>0, <2>1, <3>1, GrepKeyboardMoves DEF SamePlace
  <2>3. PICK e \in InUse : DirectoryAt(e, local.dir) /\ InUse = {e}
    BY <1>0, <2>2 DEF Held
  <2>4. Table(Child)' = Table(Child)
    BY <2>2 DEF ReadDevice, Table
  <2>5. OpenedAs(e, Dot) /\ OpenedAs(e, Dot)' /\ InUse' = {e}
    BY <2>3, <2>4 DEF DirectoryAt, OpenedAs, InUse
  <2>6. Places(local')
    BY <1>0, <2>2 DEF Places, SamePlace
  <2> QED BY <1>e, <1>r, <2>2, <2>3, <2>5, <2>6
<1>12. CASE GrepOpen
  <2>1. /\ at = "grep_open" /\ SamePlace
        /\ \/ /\ Open(Child, local.name) /\ at' = "grep_buffer" /\ local'.fd = ret'[Child]
              /\ local'.name = local.name /\ local'.dir = local.dir
           \/ at' = "returned"
    <3>1. "fd" \in Fields /\ {"last", "line_start", "name", "dir"} \subseteq Fields \ {"fd"}
      BY DEF Fields
    <3> QED BY <1>0, <1>12, <3>1, OpenForMoves DEF GrepOpen, SamePlace
  <2>2. CASE /\ Open(Child, local.name) /\ at' = "grep_buffer" /\ local'.fd = ret'[Child]
             /\ local'.name = local.name /\ local'.dir = local.dir
    <3>1. PICK fd, name, dir : fd = ret'[Child] /\ name = local.name /\ dir = local.dir
      OBVIOUS
    <3>2. /\ Open(Child, name) /\ name \in Seq(Nat)
          /\ Matches(name) # {} => DentryOf(name).filetype # 1
      BY <1>0, <2>1, <2>2, <3>1 DEF Held
    <3>e. PICK e \in InUse : DirectoryAt(e, dir) /\ InUse = {e}
      BY <1>0, <2>1, <3>1 DEF Held
    <3>3. /\ OpenedAs(fd, name)' /\ InUse' = InUse \cup {fd} /\ fd \notin InUse
          /\ OpenedAs(e, Dot)'
      BY <1>0, <3>1, <3>2, <3>e, OpenGives DEF DirectoryAt
    <3>4. /\ Places(local') /\ local'.dir = dir /\ local'.fd = fd /\ local'.name = name
      BY <1>0, <2>1, <2>2, <3>1 DEF Places, SamePlace
    <3>5. \E x \in InUse' \ {fd} : DirectoryAt(x, local.dir)' /\ InUse' = {x, fd}
      <4>1. e \in InUse' \ {fd} /\ InUse' = {e, fd}
        BY <3>e, <3>3
      <4>2. DirectoryAt(e, local.dir)'
        BY <3>e, <3>3, <3>4 DEF DirectoryAt, LongNames
      <4> QED BY <4>1, <4>2
    <3> QED BY <1>g, <2>2, <3>2, <3>3, <3>4, <3>5 DEF Held, FileLabels
  <2> QED BY <1>r, <2>1, <2>2
<1>b. ASSUME at \in FileLabels, at' \in FileLabels, Table(Child)' = Table(Child),
             local'.dir = local.dir /\ local'.fd = local.fd /\ local'.name = local.name,
             Places(local'), InOrder
      PROVE  GrepInv'
  <2>1. Held(at', local'.dir, local'.fd, local'.name)
    BY <1>0, <1>b DEF Held, FileLabels
  <2>2. Held(at, local.dir, local.fd, local.name)'
    BY <1>b, <1>t, <2>1
  <2> QED BY <1>b, <1>g, <2>2
<1>13. ASSUME NEW c \in Stale, GrepBuffer(c) PROVE GrepInv'
  <2>1. /\ at = "grep_buffer" /\ at' = "grep_read" /\ Table(Child)' = Table(Child)
        /\ local' = [local EXCEPT !.data = [k \in 0 .. BUFSIZE |-> c], !.stale = c, !.last = 0]
    BY <1>13 DEF GrepBuffer, vars, Table
  <2>2. /\ local'.dir = local.dir /\ local'.fd = local.fd /\ local'.name = local.name
        /\ local'.last = 0 /\ local'.line_start = local.line_start
    BY <1>0, <2>1 DEF Fields
  <2>3. Places(local')
    BY <1>0, <2>2, SizesAssumption DEF Places
  <2> QED BY <1>b, <2>1, <2>2, <2>3 DEF FileLabels
<1>14. CASE GrepRead
  <2> DEFINE n == BUFSIZE - local.last
             text == Chars(buf'[Child])
             new == [local EXCEPT !.data = Stored(@, local.last, text), !.cnt = Len(text),
                                  !.last = @ + Len(text), !.line_start = 0]
  <2>1. /\ at = "grep_read" /\ ReadAny(local.fd, n)
        /\ \/ at' = "returned" /\ UNCHANGED local
           \/ at' = "grep_line" /\ local' = new
    BY <1>14 DEF GrepRead, Halt
  <2>2. PICK fd, name, dir : fd = local.fd /\ name = local.name /\ dir = local.dir
    OBVIOUS
  <2>3. /\ OpenedAs(fd, name) /\ ReadAny(fd, n) /\ name \in Seq(Nat)
        /\ Matches(name) # {} => DentryOf(name).filetype # 1
    BY <1>0, <2>1, <2>2 DEF Held, FileLabels
  <2>m. DentryOf(name).filetype # 1
    BY <2>3 DEF OpenedAs
  <2>e. PICK e \in InUse \ {fd} : DirectoryAt(e, dir) /\ InUse = {e, fd}
    BY <1>0, <2>1, <2>2 DEF Held, FileLabels
  <2>4. n \in 0 .. BUFSIZE /\ n \in Int
    BY <1>0, SizesAssumption DEF Places
  <2>5. OpenedAs(fd, name)' /\ OpenedAs(e, Dot)' /\ InUse' = {e, fd}
    BY <1>0, <2>3, <2>4, <2>e, ReadOpened DEF DirectoryAt
  <2>6. Len(text) \in 0 .. n
    <3> HIDE DEF n
    <3> QED BY <1>0, <2>3, <2>m, <2>4, GrepReadFits
  <2>7. CASE at' = "returned" /\ UNCHANGED local
    BY <1>r, <2>7 DEF SamePlace
  <2>8. CASE at' = "grep_line" /\ local' = new
    <3> HIDE DEF text
    <3>1. /\ local'.last = local.last + Len(text) /\ local'.line_start = 0
          /\ local'.dir = dir /\ local'.fd = fd /\ local'.name = name
      BY <1>0, <2>2, <2>8 DEF Fields
    <3>2. local'.last \in 0 .. BUFSIZE
      BY <1>0, <2>6, <3>1, SizesAssumption DEF Places
    <3>3. Places(local') /\ InOrder
      BY <3>1, <3>2, SizesAssumption DEF Places
    <3>4. \E x \in InUse' \ {fd} : DirectoryAt(x, local.dir)' /\ InUse' = {x, fd}
      <4>1. DirectoryAt(e, local.dir)'
        BY <2>5, <2>e, <3>1 DEF DirectoryAt, LongNames
      <4> QED BY <2>5, <2>e, <4>1
    <3> QED BY <1>g, <2>3, <2>5, <2>8, <3>1, <3>3, <3>4 DEF Held, FileLabels
  <2> QED BY <2>1, <2>7, <2>8
<1>15. CASE GrepMove
  <2>1. PICK end \in {line_end} : local' = Moved(Stored(local.data, end, <<NUL>>))
    BY <1>15 DEF GrepMove
  <2>2. at = "grep_line" /\ at' = "grep_read" /\ Table(Child)' = Table(Child)
    BY <1>15 DEF GrepMove, vars, Table
  <2> DEFINE text == strcpy(Stored(local.data, end, <<NUL>>), 0, local.line_start)
  <2>3. local' = [local EXCEPT !.data = text, !.last = @ - local.line_start]
    BY <2>1 DEF Moved
  <2> HIDE DEF text
  <2>4. /\ local'.last = local.last - local.line_start /\ local'.line_start = local.line_start
        /\ local'.dir = local.dir /\ local'.fd = local.fd /\ local'.name = local.name
    BY <1>0, <2>3 DEF Fields
  <2>5. Places(local')
    BY <1>0, <2>2, <2>4, SizesAssumption DEF Places
  <2> QED BY <1>b, <2>2, <2>4, <2>5 DEF FileLabels
<1>16. CASE GrepSearch
  <2>1. PICK end, data :
          LET over == end + 1 >= local.last IN
          /\ end = line_end
          /\ local' = [local EXCEPT !.data = data, !.line_start = end + 1,
                                    !.last = IF over THEN 0 ELSE @]
          /\ at' = CASE ~over -> "grep_line"
                     [] over /\ local.cnt = 0 -> "grep_close"
                     [] over /\ local.cnt # 0 -> "grep_read"
    BY <1>16 DEF GrepSearch
  <2>2. at = "grep_line" /\ Table(Child)' = Table(Child)
    BY <1>16 DEF GrepSearch, vars, Table
  <2>3. at' \in FileLabels /\ (at' = "grep_line" => ~(end + 1 >= local.last))
    BY <2>1 DEF FileLabels
  <2>4. /\ local'.last = (IF end + 1 >= local.last THEN 0 ELSE local.last)
        /\ local'.line_start = end + 1
        /\ local'.dir = local.dir /\ local'.fd = local.fd /\ local'.name = local.name
    BY <1>0, <2>1 DEF Fields
  <2>e. end = line_end
    BY <2>1
  <2>5. end \in 0 .. local.last
    BY <1>0, <2>e, LineEnds
  <2>6. Places(local') /\ InOrder
    <3>1. local.last \in Nat /\ local.last <= BUFSIZE /\ BUFSIZE \in Nat
      BY <1>0, SizesAssumption DEF Places
    <3> QED BY <2>3, <2>4, <2>5, <3>1 DEF Places
  <2>7. at \in FileLabels
    BY <2>2 DEF FileLabels
  <2> QED BY <1>b, <2>2, <2>3, <2>4, <2>6, <2>7
<1>17. CASE GrepClose
  <2>1. /\ at = "grep_close" /\ at' = "grep_entry" /\ Close(Child, local.fd)
        /\ local' = [local EXCEPT !.data = <<>>, !.line_start = 0, !.cnt = 0, !.stale = 0,
                                  !.name = <<>>]
    BY <1>17 DEF GrepClose
  <2>2. PICK fd, dir : fd = local.fd /\ dir = local.dir
    OBVIOUS
  <2>3. PICK e \in InUse \ {fd} : DirectoryAt(e, dir) /\ InUse = {e, fd} /\ Close(Child, fd)
    BY <1>0, <2>1, <2>2 DEF Held, FileLabels
  <2>4. InUse' = {e} /\ OpenedAs(e, Dot)'
    BY <1>0, <2>3, CloseGives DEF DirectoryAt
  <2>5. local'.last = local.last /\ local'.line_start = 0 /\ local'.dir = dir
    BY <1>0, <2>1, <2>2 DEF Fields
  <2>6. Places(local')
    BY <1>0, <2>5, SizesAssumption DEF Places
  <2>7. \E x \in InUse' : DirectoryAt(x, local.dir)' /\ InUse' = {x}
    <3>1. DirectoryAt(e, local.dir)'
      BY <2>3, <2>4, <2>5 DEF DirectoryAt, LongNames
    <3> QED BY <2>4, <3>1
  <2> QED BY <1>g, <2>1, <2>6, <2>7 DEF Held, FileLabels
<1>18. CASE GrepStep
  BY <1>9, <1>10, <1>11, <1>k, <1>12, <1>13, <1>14, <1>15, <1>16, <1>17, <1>18 DEF GrepStep, GrepFileStep
<1> QED BY <1>2, <1>3, <1>4, <1>l, <1>5, <1>6, <1>7, <1>8, <1>18, StepCases


-----------------------------------------------------------------------------
(* The tests of syserr.                                                     *)

LEMMA TestsAre ==
    /\ Len(Tests) = 8 /\ DOMAIN Tests = 1 .. 8
    /\ Tests[1] = err_fd(NEG_FD) /\ Tests[2] = err_fd(BIG_FD) /\ Tests[3] = err_open_lots
    /\ Tests[4] = err_open /\ Tests[5] = err_unopened /\ Tests[6] = err_vidmap
    /\ Tests[7] = err_stdin_out /\ Tests[8] = err_syscall_num
BY DEF Tests

\* Calls that fail whatever they are given, as long as only stdin and stdout
\* are in use.
FailingCalls ==
    {Call("open", name) : name \in {Longer, Shorter, <<>>}}
      \cup {Call("close", fd) : fd \in Int}
      \cup {Call("read", fd) : fd \in Int \ {0}}
      \cup {Call("write", fd) : fd \in Int \ {1}}
      \cup {Call("vidmap", page) : page \in {0, 1}}
      \cup {Call("number", num) : num \in Int}

LEMMA ForFdsIs ==
    ASSUME NEW op, NEW low \in {0, 2}, NEW S, \A fd \in Int : fd >= low => Call(op, fd) \in S
    PROVE  /\ ForFds(op, low) \in Seq(S) /\ Len(ForFds(op, low)) = NUM_FD - low
           /\ \A i \in 1 .. NUM_FD - low : ForFds(op, low)[i] = Call(op, low + i - 1)
<1>1. NUM_FD - low \in Nat /\ low \in Int
  BY FilesAssumption
<1>2. \A i \in 1 .. NUM_FD - low : low + i - 1 \in Int /\ low + i - 1 >= low
  BY <1>1
<1>3. ForFds(op, low) = [i \in 1 .. NUM_FD - low |-> Call(op, low + i - 1)]
  BY DEF ForFds
<1> DEFINE s == ForFds(op, low)
<1> HIDE DEF s
<1>4. s \in [1 .. NUM_FD - low -> S] /\ DOMAIN s = 1 .. NUM_FD - low
  BY <1>2, <1>3 DEF s
<1>5. s \in Seq(S)
  BY <1>1, <1>4, SeqDef
<1>6. Len(s) = NUM_FD - low
  BY <1>1, <1>4, <1>5, LenProperties
<1> QED BY <1>3, <1>5, <1>6 DEF s

LEMMA TestsFail ==
    ASSUME NEW test \in 1 .. Len(Tests), test # OPEN_LOTS
    PROVE  Tests[test] \in Seq(FailingCalls)
<1>1. ASSUME NEW fd \in Int \ {0, 1} PROVE err_fd(fd) \in Seq(FailingCalls)
  <2>1. {Call("read", fd), Call("write", fd), Call("close", fd)} \subseteq FailingCalls
    BY DEF FailingCalls
  <2> QED BY <2>1 DEF err_fd
<1>2. NEG_FD \in Int \ {0, 1} /\ BIG_FD \in Int \ {0, 1}
  BY DEF NEG_FD, BIG_FD
<1>3. err_open \in Seq(FailingCalls)
  <2>1. {Call("open", Longer), Call("open", Shorter), Call("open", <<>>)} \subseteq FailingCalls
    BY DEF FailingCalls
  <2> QED BY <2>1 DEF err_open
<1>4. err_unopened \in Seq(FailingCalls)
  <2>1. /\ \A fd \in Int : fd >= 0 => Call("close", fd) \in FailingCalls
        /\ \A fd \in Int : fd >= 2 => Call("read", fd) \in FailingCalls
        /\ \A fd \in Int : fd >= 2 => Call("write", fd) \in FailingCalls
    BY DEF FailingCalls
  <2>2. /\ ForFds("close", 0) \in Seq(FailingCalls)
        /\ ForFds("read", 2) \in Seq(FailingCalls)
        /\ ForFds("write", 2) \in Seq(FailingCalls)
    BY <2>1, ForFdsIs
  <2>3. (ForFds("close", 0) \o ForFds("read", 2)) \in Seq(FailingCalls)
    BY <2>2, ConcatProperties
  <2>4. ((ForFds("close", 0) \o ForFds("read", 2)) \o ForFds("write", 2)) \in Seq(FailingCalls)
    BY <2>2, <2>3, ConcatProperties
  <2> QED BY <2>4 DEF err_unopened
<1>5. err_vidmap \in Seq(FailingCalls)
  <2>1. {Call("vidmap", 0), Call("vidmap", 1)} \subseteq FailingCalls
    BY DEF FailingCalls
  <2> QED BY <2>1 DEF err_vidmap
<1>6. err_stdin_out \in Seq(FailingCalls)
  <2>1. {Call("write", 0), Call("read", 1)} \subseteq FailingCalls
    BY DEF FailingCalls
  <2> QED BY <2>1 DEF err_stdin_out
<1>7. err_syscall_num \in Seq(FailingCalls)
  <2>1. {Call("number", BIG_FD), Call("number", NEG_FD), Call("number", 0)} \subseteq FailingCalls
    BY <1>2 DEF FailingCalls
  <2> QED BY <2>1 DEF err_syscall_num
<1>8. test \in {1, 2, 4, 5, 6, 7, 8}
  BY TestsAre DEF OPEN_LOTS
<1> QED BY <1>1, <1>2, <1>3, <1>4, <1>5, <1>6, <1>7, <1>8, TestsAre

LEMMA MustFail ==
    ASSUME FilesInv, InUse = {}, NEW call \in FailingCalls, SystemCall(Child, call)
    PROVE  ret'[Child] = -1 /\ Table(Child)' = Table(Child)
<1>1. Child \in Procs
  BY SizesAssumption
<1>2. ASSUME Result(Child, Failed), UNCHANGED filesys_desc_array
      PROVE  ret'[Child] = -1 /\ Table(Child)' = Table(Child)
  BY <1>1, <1>2 DEF Result, Failed, FilesInv, Table
<1>3. CASE \E name \in {Longer, Shorter, <<>>} : call = Call("open", name)
  <2>1. call.op = "open" /\ Matches(call.arg) = {}
    BY <1>3, DirectoryAssumption DEF Call
  <2>2. OpenFail(Child, call.arg)
    BY <2>1 DEF SystemCall, Open
  <2> QED BY <1>2, <2>2 DEF OpenFail
<1>4. CASE \E fd \in Int : call = Call("close", fd)
  <2>1. call.op = "close"
    BY <1>4 DEF Call
  <2>2. CloseFail(Child, call.arg)
    BY <2>1 DEF SystemCall, Close, Closable, InUse, Usable
  <2> QED BY <1>2, <2>2 DEF CloseFail
<1>5. CASE \E fd \in Int \ {0} : call = Call("read", fd)
  <2>1. call.op = "read" /\ call.arg # 0
    BY <1>5 DEF Call
  <2>2. ReadFail(Child, call.arg)
    BY <2>1 DEF SystemCall, ReadDevice, ReadDirectory, ReadFile, Readable, InUse, Usable
  <2> QED BY <1>2, <2>2 DEF ReadFail
<1>6. CASE \E fd \in Int \ {1} : call = Call("write", fd)
  <2>1. call.op = "write" /\ call.arg # 1
    BY <1>6 DEF Call
  <2>2. WriteFail(Child, call.arg)
    BY <2>1 DEF SystemCall, WriteDevice, Writable, InUse, Usable
  <2> QED BY <1>2, <2>2 DEF WriteFail
<1>7. CASE \E page \in {0, 1} : call = Call("vidmap", page)
  <2>1. call.op = "vidmap" /\ call.arg \in {0, 1}
    BY <1>7 DEF Call
  <2>2. vidmap(call.arg) = -1
    BY <2>1 DEF vidmap, PROGRAM_PAGE
  <2>3. Result(Child, Failed) /\ UNCHANGED filesys_desc_array
    BY <2>1, <2>2 DEF SystemCall, Failed
  <2> QED BY <1>2, <2>3
<1>8. CASE \E num \in Int : call = Call("number", num)
  <2>1. call.op = "number"
    BY <1>8 DEF Call
  <2>2. Result(Child, Failed) /\ UNCHANGED filesys_desc_array
    BY <2>1 DEF SystemCall
  <2> QED BY <1>2, <2>2
<1> QED BY <1>3, <1>4, <1>5, <1>6, <1>7, <1>8 DEF FailingCalls

\* The calls of err_open_lots: opens up to the first that fails, and as many
\* closes as there were others.
LEMMA OpenLotsIs ==
    /\ Len(Tests[OPEN_LOTS]) = (NUM_FD - 1) + (NUM_FD - 2)
    /\ Tests[OPEN_LOTS] \in Seq({Call("open", Dot)} \cup {Call("close", fd) : fd \in Int})
    /\ \A i \in 1 .. (NUM_FD - 1) + (NUM_FD - 2) :
         Tests[OPEN_LOTS][i] =
           IF i <= NUM_FD - 1 THEN Call("open", Dot) ELSE Call("close", i - NUM_FD + 2)
<1> DEFINE S == {Call("open", Dot)} \cup {Call("close", fd) : fd \in Int}
           s == [i \in 1 .. NUM_FD - 1 |-> Call("open", Dot)]
           t == ForFds("close", 2)
<1>1. NUM_FD - 1 \in Nat /\ NUM_FD - 2 \in Nat
  BY FilesAssumption
<1>2. \A fd \in Int : fd >= 2 => Call("close", fd) \in S
  OBVIOUS
<1>3. Call("open", Dot) \in S
  OBVIOUS
<1> HIDE DEF S
<1>4. /\ t \in Seq(S) /\ Len(t) = NUM_FD - 2
      /\ \A i \in 1 .. NUM_FD - 2 : t[i] = Call("close", 2 + i - 1)
  BY <1>2, ForFdsIs
<1>5. s \in [1 .. NUM_FD - 1 -> S]
  BY <1>3
<1>6. s \in Seq(S) /\ Len(s) = NUM_FD - 1 /\ \A i \in 1 .. NUM_FD - 1 : s[i] = Call("open", Dot)
  <2>1. s \in Seq(S)
    BY <1>1, <1>5, SeqDef
  <2>2. DOMAIN s = 1 .. NUM_FD - 1
    BY <1>5
  <2> QED BY <1>1, <2>1, <2>2, LenProperties
<1>7. Tests[OPEN_LOTS] = s \o t
  BY TestsAre DEF OPEN_LOTS, err_open_lots
<1> HIDE DEF s, t
<1>8. /\ s \o t \in Seq(S) /\ Len(s \o t) = Len(s) + Len(t)
      /\ \A i \in 1 .. Len(s) + Len(t) :
           (s \o t)[i] = IF i <= Len(s) THEN s[i] ELSE t[i - Len(s)]
  BY <1>4, <1>6, ConcatProperties
<1>9. ASSUME NEW i \in 1 .. (NUM_FD - 1) + (NUM_FD - 2)
      PROVE  (s \o t)[i] =
               IF i <= NUM_FD - 1 THEN Call("open", Dot) ELSE Call("close", i - NUM_FD + 2)
  <2>1. (s \o t)[i] = IF i <= NUM_FD - 1 THEN s[i] ELSE t[i - (NUM_FD - 1)]
    BY <1>4, <1>6, <1>8
  <2>2. CASE i <= NUM_FD - 1
    BY <1>6, <2>1, <2>2
  <2>3. CASE ~(i <= NUM_FD - 1)
    <3>1. /\ i - (NUM_FD - 1) \in 1 .. NUM_FD - 2
          /\ 2 + (i - (NUM_FD - 1)) - 1 = i - NUM_FD + 2
      BY <1>1, <2>3, FilesAssumption
    <3>2. t[i - (NUM_FD - 1)] = Call("close", 2 + (i - (NUM_FD - 1)) - 1)
      BY <1>4, <3>1
    <3> QED BY <2>1, <2>3, <3>1, <3>2
  <2> QED BY <2>2, <2>3
<1> QED BY <1>4, <1>6, <1>7, <1>8, <1>9 DEF S

\* Between two calls of err_open_lots the descriptors in use are a run of numbers,
\* which grows at its end and then shrinks from its beginning.
LEMMA OpenLotsCall ==
    ASSUME FilesInv, NEW j \in Nat, j + 1 <= Len(Tests[OPEN_LOTS]),
           InUse = OpenAfter(OPEN_LOTS, j),
           SystemCall(Child, Tests[OPEN_LOTS][j + 1])
    PROVE  /\ InUse' = OpenAfter(OPEN_LOTS, j + 1)
           /\ FailedAfter(OPEN_LOTS, j + 1)
                = FailedAfter(OPEN_LOTS, j)
                    + IF ret'[Child] = -1 /\ Counted(OPEN_LOTS, Tests[OPEN_LOTS][j + 1])
                      THEN 1 ELSE 0
<1> DEFINE call == Tests[OPEN_LOTS][j + 1]
           U(k) == {fd \in Fds \ {0, 1} : k - NUM_FD + 2 < fd /\ fd <= k + 1}
<1>0. /\ Child \in Procs /\ NUM_FD \in Nat /\ NUM_FD > 2
      /\ Fds = 0 .. NUM_FD - 1
      /\ Matches(Dot) # {}
  BY SizesAssumption, FilesAssumption, DirectoryAssumption DEF Fds
<1>1. \A k : OpenAfter(OPEN_LOTS, k) = U(k)
  BY DEF OpenAfter
<1>2. /\ FailedAfter(OPEN_LOTS, j) = IF j >= NUM_FD - 1 THEN 1 ELSE 0
      /\ FailedAfter(OPEN_LOTS, j + 1) = IF j + 1 >= NUM_FD - 1 THEN 1 ELSE 0
  BY DEF FailedAfter
<1>3. /\ j + 1 \in 1 .. (NUM_FD - 1) + (NUM_FD - 2)
      /\ call = IF j + 1 <= NUM_FD - 1 THEN Call("open", Dot)
                ELSE Call("close", (j + 1) - NUM_FD + 2)
  BY <1>0, OpenLotsIs
<1>4. Table(Child) \in [Fds -> Goods]
  BY <1>0 DEF FilesInv, Table
<1>5. \A fd \in Fds \ {0, 1} : fd \notin InUse => fd \in Free(Child)
  BY <1>4 DEF Free, InUse, Goods, Descs
<1> HIDE DEF call
<1>6. CASE j + 1 <= NUM_FD - 1
  <2>1. call.op = "open" /\ call.arg = Dot
    BY <1>3, <1>6 DEF Call
  <2>2. Open(Child, Dot) \/ OpenFail(Child, Dot)
    BY <2>1 DEF SystemCall, call
  <2>3. Counted(OPEN_LOTS, call)
    BY <2>1 DEF Counted
  <2>4. CASE j + 1 < NUM_FD - 1
    <3>1. j + 2 \in Fds \ {0, 1} /\ j + 2 \notin InUse
      BY <1>0, <1>1, <2>4
    <3>2. Open(Child, Dot)
      BY <1>0, <1>5, <2>2, <3>1 DEF OpenFail
    <3>3. PICK fd : fd = ret'[Child]
      OBVIOUS
    <3>4. /\ InUse' = InUse \cup {fd} /\ fd \notin InUse /\ fd \in Fds \ {0, 1}
          /\ \A e \in Fds \ {0, 1} : e < fd => e \in InUse
      BY <3>2, <3>3, OpenGives
    <3>5. fd = j + 2
      <4>1. ~(j + 2 < fd)
        BY <3>1, <3>4
      <4>2. ~(fd < j + 2)
        BY <1>0, <1>1, <2>4, <3>4
      <4> QED BY <1>0, <3>4, <4>1, <4>2
    <3>6. InUse' = U(j + 1)
      BY <1>0, <1>1, <2>4, <3>4, <3>5
    <3>7. ret'[Child] # -1
      BY <3>3, <3>5
    <3>8. FailedAfter(OPEN_LOTS, j) = 0 /\ FailedAfter(OPEN_LOTS, j + 1) = 0
      BY <1>0, <1>2, <2>4
    <3> QED BY <1>1, <3>6, <3>7, <3>8
  <2>5. CASE j + 1 = NUM_FD - 1
    <3>1. InUse = Fds \ {0, 1}
      BY <1>0, <1>1, <2>5
    <3>2. OpenFail(Child, Dot)
      BY <2>2, <3>1 DEF Open, Free, InUse
    <3>3. ret'[Child] = -1 /\ Table(Child)' = Table(Child)
      BY <1>0, <3>2 DEF OpenFail, Result, Failed, FilesInv, Table
    <3>4. InUse' = U(j + 1)
      <4>1. InUse' = InUse
        BY <3>3 DEF InUse
      <4> QED BY <1>0, <1>1, <2>5, <4>1
    <3> QED BY <1>1, <1>2, <2>3, <2>5, <3>3, <3>4 DEF call
  <2> QED BY <1>0, <1>6, <2>4, <2>5
<1>7. CASE ~(j + 1 <= NUM_FD - 1)
  <2> DEFINE fd == (j + 1) - NUM_FD + 2
  <2>1. call.op = "close" /\ call.arg = fd
    BY <1>3, <1>7 DEF Call
  <2>2. fd \in U(j) /\ fd \in InUse
    BY <1>0, <1>1, <1>3, <1>7
  <2>3. Close(Child, fd)
    <3>1. Close(Child, fd) \/ CloseFail(Child, fd)
      BY <2>1 DEF SystemCall, call
    <3>2. Closable(Child, fd)
      BY <2>2 DEF Closable, Usable, InUse
    <3> QED BY <3>1, <3>2 DEF CloseFail
  <2>4. InUse' = InUse \ {fd} /\ ret'[Child] = 0
    BY <2>3, CloseGives
  <2>5. InUse' = U(j + 1)
    BY <1>0, <1>1, <1>3, <1>7, <2>4
  <2> QED BY <1>0, <1>1, <1>2, <1>7, <2>4, <2>5
<1> QED BY <1>6, <1>7

\* A test starts and ends without descriptors, and ends with what it has to count.
LEMMA TestBounds ==
    ASSUME NEW test \in 1 .. Len(Tests)
    PROVE  /\ Len(Tests[test]) \in Nat
           /\ OpenAfter(test, 0) = {} /\ FailedAfter(test, 0) = 0
           /\ OpenAfter(test, Len(Tests[test])) = {}
           /\ Passes(test, FailedAfter(test, Len(Tests[test])))
<1>0. NUM_FD \in Nat /\ NUM_FD > 2 /\ Fds = 0 .. NUM_FD - 1
  BY FilesAssumption DEF Fds
<1>1. CASE test = OPEN_LOTS
  <2>1. Len(Tests[test]) = (NUM_FD - 1) + (NUM_FD - 2)
    BY <1>1, OpenLotsIs
  <2> QED BY <1>0, <1>1, <2>1 DEF OpenAfter, FailedAfter, Passes
<1>2. CASE test # OPEN_LOTS
  <2>1. Tests[test] \in Seq(FailingCalls)
    BY <1>2, TestsFail
  <2> QED BY <1>2, <2>1 DEF OpenAfter, FailedAfter, Passes
<1> QED BY <1>1, <1>2


\* Where a run of syserr is.
Testing(todo, i, cnt) ==
    /\ todo \in Seq(1 .. Len(Tests)) /\ todo # <<>>
    /\ i \in 1 .. Len(Tests[Head(todo)]) + 1
    /\ InUse = OpenAfter(Head(todo), i - 1)
    /\ cnt = FailedAfter(Head(todo), i - 1)

LEMMA TestStarts ==
    ASSUME NEW todo \in Seq(1 .. Len(Tests)), todo # <<>>
    PROVE  /\ 1 \in 1 .. Len(Tests[Head(todo)]) + 1
           /\ OpenAfter(Head(todo), 1 - 1) = {} /\ FailedAfter(Head(todo), 1 - 1) = 0
<1>1. Head(todo) \in 1 .. Len(Tests) /\ 1 - 1 = 0
  BY HeadTailProperties
<1>2. /\ Len(Tests[Head(todo)]) \in Nat /\ OpenAfter(Head(todo), 0) = {}
      /\ FailedAfter(Head(todo), 0) = 0
  BY <1>1, TestBounds
<1> QED BY <1>1, <1>2

LEMMA TestsChosen ==
    ASSUME NEW c \in 48 .. 48 + Len(Tests)
    PROVE  LET some == IF c = 48 THEN [k \in 1 .. Len(Tests) |-> k] ELSE <<c - 48>> IN
           some \in Seq(1 .. Len(Tests)) /\ some # <<>>
<1>0. Len(Tests) = 8
  BY TestsAre
<1>1. CASE c = 48
  <2> DEFINE s == [k \in 1 .. Len(Tests) |-> k]
  <2>1. s \in [1 .. Len(Tests) -> 1 .. Len(Tests)] /\ Len(Tests) \in Nat /\ 1 \in DOMAIN s
    BY <1>0
  <2> HIDE DEF s
  <2>2. s \in Seq(1 .. Len(Tests)) /\ s # <<>>
    BY <2>1, SeqDef
  <2> QED BY <1>1, <2>2 DEF s
<1>2. CASE c # 48
  <2>1. c - 48 \in 1 .. Len(Tests)
    BY <1>0, <1>2
  <2> QED BY <1>2, <2>1
<1> QED BY <1>1, <1>2

LEMMA SyserrKept ==
    ASSUME ProgramsInv, [ProgramsNext]_all
    PROVE  SyserrInv'
<1>0. /\ PhaseInv /\ FilesInv /\ ShellInv /\ SyserrInv /\ DOMAIN local = Fields
      /\ Child \in Procs
  BY LocalFields, SizesAssumption DEF ProgramsInv, PhaseInv
<1>1. ASSUME at' \notin SyserrLabels, local'.prog # "syserr" PROVE SyserrInv'
  BY <1>1 DEF SyserrInv, SyserrLabels
<1>2. CASE UNCHANGED all
  <2>1. /\ UNCHANGED <<at, local, out>> /\ Table(Child)' = Table(Child)
    BY <1>2 DEF all, child, vars, Table
  <2> QED BY <1>0, <2>1 DEF SyserrInv, InUse
<1>3. CASE KernelStep
  BY <1>0, <1>1, <1>3, KernelMoves DEF KernelLabels, SyserrLabels
<1>4. CASE ExecuteRun
  <2>1. session \in Sessions
    BY <1>0, <1>4 DEF ExecuteRun, ShellInv
  <2>2. /\ at' \in FirstLabels /\ local' = [NoLocals EXCEPT !.prog = at'] /\ InUse' = {}
        /\ out' = <<>>
    BY <1>0, <1>4, <2>1, ExecuteRunMoves
  <2>3. local'.cnt = 0
    BY <2>2 DEF NoLocals
  <2> QED BY <2>2, <2>3 DEF SyserrInv, FirstLabels
<1>5. CASE CatStep
  BY <1>0, <1>1, <1>5, CatMoves DEF Moves, CatLabels, SyserrLabels
<1>6. CASE LsStep
  BY <1>0, <1>1, <1>6, LsMoves DEF Moves, LsLabels, SyserrLabels
<1>7. CASE GrepStep
  BY <1>0, <1>1, <1>7, GrepMoves DEF Moves, GrepLabels, FileLabels, SyserrLabels
<1>8. CASE CountStep
  BY <1>0, <1>1, <1>8, CountMoves DEF Moves, CountLabels, SyserrLabels
<1>t. ASSUME at' = "syserr_test", Testing(local.todo, local.i, local.cnt)', out' \in Seq({0})
      PROVE  SyserrInv'
  BY <1>t DEF SyserrInv, Testing
<1>e. ASSUME at' = "returned", out' \in Seq({0}) PROVE SyserrInv'
  BY <1>e DEF SyserrInv
<1>s. at \in SyserrLabels => out \in Seq({0})
  BY <1>0 DEF SyserrInv, PhaseInv, SyserrLabels
<1>9. ASSUME NEW line, SyserrRead(line) PROVE SyserrInv'
  <2> DEFINE some == IF line[1] = 48 THEN [k \in 1 .. Len(Tests) |-> k] ELSE <<line[1] - 48>>
  <2>1. /\ at = "syserr" /\ ReadDevice(Child, 0) /\ UNCHANGED out
        /\ \/ /\ line[1] \in 48 .. 48 + Len(Tests) /\ at' = "syserr_test"
              /\ local' = [local EXCEPT !.i = 1, !.todo = some]
           \/ at' = "returned"
    BY <1>9 DEF SyserrRead, Halt
  <2>2. out' \in Seq({0})
    BY <1>s, <2>1 DEF SyserrLabels
  <2>3. CASE at' = "returned"
    BY <1>e, <2>2, <2>3
  <2>4. CASE /\ line[1] \in 48 .. 48 + Len(Tests) /\ at' = "syserr_test"
             /\ local' = [local EXCEPT !.i = 1, !.todo = some]
    <3>1. some \in Seq(1 .. Len(Tests)) /\ some # <<>>
      BY <2>4, TestsChosen
    <3>2. InUse' = {}
      <4>1. Table(Child)' = Table(Child)
        BY <2>1 DEF ReadDevice, Table
      <4> QED BY <1>0, <2>1, <4>1 DEF SyserrInv, InUse
    <3> HIDE DEF some
    <3>3. local'.i = 1 /\ local'.cnt = 0 /\ local'.todo = some
      BY <1>0, <2>1, <2>4 DEF Fields, SyserrInv
    <3>4. Testing(local.todo, local.i, local.cnt)'
      <4>1. PICK todo : todo = some
        OBVIOUS
      <4>2. Testing(todo, 1, 0)'
        BY <3>1, <3>2, <4>1, TestStarts DEF Testing
      <4> QED BY <3>2, <3>3, <4>1, <4>2 DEF Testing
    <3> QED BY <1>t, <2>2, <2>4, <3>4
  <2> QED BY <2>1, <2>3, <2>4
<1>10. CASE SyserrCall
  <2>1. PICK todo, test, j : todo = local.todo /\ test = Head(todo) /\ j = local.i - 1
    OBVIOUS
  <2>2. /\ at = "syserr_test" /\ at' = "syserr_test" /\ UNCHANGED out
        /\ local.i <= Len(Tests[test])
        /\ SystemCall(Child, Tests[test][local.i])
        /\ local' = [local EXCEPT !.i = @ + 1, !.cnt =
                       IF ret'[Child] = -1 /\ Counted(test, Tests[test][local.i])
                       THEN @ + 1 ELSE @]
    BY <1>10, <2>1 DEF SyserrCall
  <2>3. Testing(todo, local.i, local.cnt)
    BY <1>0, <2>1, <2>2 DEF SyserrInv, Testing
  <2>4. test \in 1 .. Len(Tests) /\ todo \in Seq(1 .. Len(Tests)) /\ todo # <<>>
    BY <2>1, <2>3, HeadTailProperties DEF Testing
  <2>5. Len(Tests[test]) \in Nat
    BY <2>4, TestBounds
  <2>6. /\ local.i = j + 1 /\ j \in Nat /\ j + 1 <= Len(Tests[test])
        /\ InUse = OpenAfter(test, j) /\ local.cnt = FailedAfter(test, j)
    BY <2>1, <2>2, <2>3, <2>5 DEF Testing
  <2> DEFINE call == Tests[test][j + 1]
             one == IF ret'[Child] = -1 /\ Counted(test, call) THEN 1 ELSE 0
  <2>7. InUse' = OpenAfter(test, j + 1) /\ FailedAfter(test, j + 1) = FailedAfter(test, j) + one
    <3>1. CASE test = OPEN_LOTS
      BY <1>0, <2>2, <2>6, <3>1, OpenLotsCall
    <3>2. CASE test # OPEN_LOTS
      <4>1. InUse = {}
        BY <2>6, <3>2 DEF OpenAfter
      <4>2. call \in FailingCalls
        <5>1. Tests[test] \in Seq(FailingCalls) /\ j + 1 \in 1 .. Len(Tests[test])
          BY <2>4, <2>5, <2>6, <3>2, TestsFail
        <5> QED BY <5>1, ElementOfSeq
      <4>3. ret'[Child] = -1 /\ Table(Child)' = Table(Child)
        BY <1>0, <2>2, <2>6, <4>1, <4>2, MustFail
      <4>4. InUse' = {}
        BY <4>1, <4>3 DEF InUse
      <4> QED BY <2>6, <3>2, <4>3, <4>4 DEF OpenAfter, FailedAfter, Counted
    <3> QED BY <3>1, <3>2
  <2>8. local'.i = j + 2 /\ local'.cnt = FailedAfter(test, j + 1) /\ local'.todo = todo
    <3>1. FailedAfter(test, j) \in Nat
      BY <2>6 DEF FailedAfter
    <3>2. /\ local'.i = local.i + 1 /\ local'.todo = local.todo
          /\ local'.cnt = IF ret'[Child] = -1 /\ Counted(test, Tests[test][local.i])
                          THEN local.cnt + 1 ELSE local.cnt
      BY <1>0, <2>2 DEF Fields
    <3>3. local'.cnt = IF ret'[Child] = -1 /\ Counted(test, call)
                       THEN FailedAfter(test, j) + 1 ELSE FailedAfter(test, j)
      BY <2>6, <3>2
    <3> HIDE DEF call
    <3>4. local'.cnt = FailedAfter(test, j) + one
      BY <3>1, <3>3
    <3> QED BY <2>1, <2>6, <2>7, <3>2, <3>4
  <2>9. Testing(todo, j + 2, FailedAfter(test, j + 1))'
    <3>1. j + 2 \in 1 .. Len(Tests[test]) + 1 /\ (j + 2) - 1 = j + 1
      BY <2>5, <2>6
    <3> QED BY <2>1, <2>4, <2>7, <3>1 DEF Testing
  <2>10. Testing(local.todo, local.i, local.cnt)'
    BY <2>8, <2>9 DEF Testing
  <2>11. out' \in Seq({0})
    BY <1>s, <2>2 DEF SyserrLabels
  <2> QED BY <1>t, <2>2, <2>10, <2>11
<1>11. CASE SyserrVerdict
  <2>1. PICK todo, test : todo = local.todo /\ test = Head(todo)
    OBVIOUS
  <2>2. /\ at = "syserr_test" /\ local.i > Len(Tests[test])
        /\ out' = Append(out, IF Passes(test, local.cnt) THEN 0 ELSE 2)
        /\ local' = [local EXCEPT !.i = 1, !.cnt = 0, !.todo = Tail(@)]
        /\ UNCHANGED vars
        /\ \/ Len(todo) > 1 /\ UNCHANGED at
           \/ ~(Len(todo) > 1) /\ at' = "returned"
    BY <1>11, <2>1 DEF SyserrVerdict, Halt
  <2>3. Testing(todo, local.i, local.cnt)
    BY <1>0, <2>1, <2>2 DEF SyserrInv, Testing
  <2>4. test \in 1 .. Len(Tests) /\ todo \in Seq(1 .. Len(Tests)) /\ todo # <<>>
    BY <2>1, <2>3, HeadTailProperties DEF Testing
  <2>5. /\ Len(Tests[test]) \in Nat /\ OpenAfter(test, Len(Tests[test])) = {}
        /\ Passes(test, FailedAfter(test, Len(Tests[test])))
    BY <2>4, TestBounds
  <2>6. /\ local.i - 1 = Len(Tests[test])
        /\ InUse = OpenAfter(test, local.i - 1) /\ local.cnt = FailedAfter(test, local.i - 1)
    <3>1. /\ local.i \in 1 .. Len(Tests[test]) + 1
          /\ InUse = OpenAfter(test, local.i - 1)
          /\ local.cnt = FailedAfter(test, local.i - 1)
      BY <2>1, <2>3 DEF Testing
    <3> QED BY <2>2, <2>5, <3>1
  <2>7. InUse = {} /\ Passes(test, local.cnt)
    BY <2>5, <2>6
  <2>8. out' \in Seq({0})
    <3>1. out \in Seq({0})
      BY <1>s, <2>2 DEF SyserrLabels
    <3>2. out' = Append(out, 0)
      BY <2>2, <2>7
    <3> QED BY <3>1, <3>2
  <2>9. CASE at' = "returned"
    BY <1>e, <2>8, <2>9
  <2>10. CASE Len(todo) > 1 /\ UNCHANGED at
    <3>1. PICK rest : rest = Tail(todo)
      OBVIOUS
    <3>2. rest \in Seq(1 .. Len(Tests)) /\ rest # <<>>
      <4>1. rest \in Seq(1 .. Len(Tests)) /\ Len(rest) = Len(todo) - 1
        BY <2>4, <3>1, HeadTailProperties
      <4> QED BY <2>4, <2>10, <4>1
    <3>3. Testing(rest, 1, 0)
      BY <2>7, <3>2, TestStarts DEF Testing
    <3>4. Testing(rest, 1, 0)'
      <4>1. Table(Child)' = Table(Child)
        BY <2>2 DEF vars, Table
      <4> QED BY <3>3, <4>1 DEF Testing, InUse
    <3>5. local'.i = 1 /\ local'.cnt = 0 /\ local'.todo = rest
      BY <1>0, <2>1, <2>2, <3>1 DEF Fields
    <3>6. Testing(local.todo, local.i, local.cnt)'
      BY <3>4, <3>5 DEF Testing
    <3> QED BY <1>t, <2>2, <2>8, <2>10, <3>6
  <2> QED BY <2>2, <2>9, <2>10
<1>12. CASE SyserrStep
  BY <1>9, <1>10, <1>11, <1>12 DEF SyserrStep
<1>l. CASE GrepLost
  BY <1>0, <1>1, <1>l, GrepLoses DEF SyserrLabels
<1> QED BY <1>2, <1>3, <1>4, <1>5, <1>6, <1>7, <1>8, <1>12, <1>l, StepCases

\* The status of a command: one of the programs' own, or the sum of syserr's.
LEMMA RvalKept ==
    ASSUME ProgramsInv, [ProgramsNext]_all
    PROVE  rval' \in -1 .. 2 * Len(Tests)
<1>0. PhaseInv /\ rval \in -1 .. 2 * Len(Tests) /\ DOMAIN local = Fields
  BY LocalFields DEF ProgramsInv, PhaseInv
<1>1. \A v \in {-1, 0, 2, 3} : v \in -1 .. 2 * Len(Tests)
  BY TestsAre
<1>h. ASSUME rval' \in {rval, -1, 0, 2, 3}
      PROVE  rval' \in -1 .. 2 * Len(Tests)
  BY <1>0, <1>1, <1>h
<1>2. CASE UNCHANGED all
  BY <1>h, <1>2 DEF all
<1>3. CASE KernelStep
  BY <1>h, <1>3 DEF KernelStep, BootStep, BootPrint, BootPrinted, BootShell, ShellStep, ShellRead,
    ShellExit, ShellReport, ExecuteParse, ExecuteOverrun, ExecuteFail, ExecuteClear
<1>4. CASE ExecuteRun
  BY <1>h, <1>4 DEF ExecuteRun
<1>5. CASE CatStep
  BY <1>h, <1>5 DEF CatStep, CatArgs, GetArgs, CatOpen, OpenFor, CatRead, Got, Halt
<1>6. CASE LsStep
  BY <1>h, <1>6 DEF LsStep, LsOpen, OpenFor, LsRead, Got, Halt
<1>7. CASE GrepStep
  <2>1. CASE GrepArgs \/ GrepDir \/ GrepOpen
    BY <1>h, <2>1 DEF GrepArgs, GetArgs, GrepDir, GrepOpen, OpenFor, Halt
  <2>2. CASE GrepEntry \/ GrepRead
    BY <1>h, <2>2 DEF GrepEntry, GrepRead, Halt
  <2>3. CASE (\E c \in Stale : GrepBuffer(c)) \/ GrepMove \/ GrepSearch \/ GrepClose
    BY <1>h, <2>3 DEF GrepBuffer, GrepMove, GrepSearch, GrepClose
  <2>4. CASE GrepLine
    BY <1>0, <1>h, <2>4, GrepKeyboardMoves DEF GrepLine
  <2> QED BY <1>7, <2>1, <2>2, <2>3, <2>4 DEF GrepStep, GrepFileStep
<1>8. CASE CountStep
  BY <1>h, <1>8 DEF CountStep, CounterRead, Count, Halt
<1>9. CASE SyserrStep
  <2>1. CASE (\E line \in Answers : SyserrRead(line)) \/ SyserrCall
    BY <1>h, <2>1 DEF SyserrRead, SyserrCall, Halt
  <2>2. CASE SyserrVerdict
    <3>1. SyserrInv' /\ local'.prog = "syserr"
      BY <1>0, <1>9, SyserrKept, SyserrMoves DEF Moves
    <3>2. out' \in Seq({0})
      BY <3>1 DEF SyserrInv
    <3> DEFINE bad == {k \in DOMAIN out' : out'[k] = 2}
    <3>3. bad = {}
      BY <3>2, ElementOfSeq
    <3>4. 2 * Cardinality(bad) = 0
      BY <3>3, FS_EmptySet
    <3> HIDE DEF bad
    <3>5. rval' = rval \/ rval' = 2 * Cardinality(bad)
      BY <2>2 DEF SyserrVerdict, Halt, bad
    <3> QED BY <1>h, <3>4, <3>5
  <2> QED BY <1>9, <2>1, <2>2 DEF SyserrStep
<1>l. CASE GrepLost
  BY <1>0, <1>h, <1>l, GrepLoses
<1> QED BY <1>2, <1>3, <1>4, <1>5, <1>6, <1>7, <1>8, <1>9, <1>l, StepCases


-----------------------------------------------------------------------------
(* The value of a string of digits.                                         *)

\* The values of the beginnings of a string.
Valued(f, s, r) ==
    /\ f \in [0 .. Len(s) -> Int]
    /\ f[0] = 0
    /\ \A k \in 1 .. Len(s) : f[k] = r * f[k - 1] + DigitValue(s[k])

LEMMA DigitIsInt ==
    ASSUME NEW s \in Seq(Nat), NEW k \in 1 .. Len(s)
    PROVE  DigitValue(s[k]) \in Int
<1>1. s[k] \in Nat
  BY ElementOfSeq
<1> QED BY <1>1 DEF DigitValue

LEMMA ValueExists ==
    ASSUME NEW s \in Seq(Nat), NEW r \in Nat
    PROVE  \E f : Valued(f, s, r)
<1> DEFINE n == Len(s)
           step == [x \in Int \X (1 .. n) |-> r * x[1] + DigitValue(s[x[2]])]
<1>1. ASSUME NEW v \in Int, NEW i \in 1 .. n
      PROVE  step[<<v, i>>] = r * v + DigitValue(s[i]) /\ step[<<v, i>>] \in Int
  <2>1. DigitValue(s[i]) \in Int
    BY DigitIsInt
  <2>2. step[<<v, i>>] = r * v + DigitValue(s[i])
    OBVIOUS
  <2>3. r * v \in Int
    OBVIOUS
  <2> HIDE DEF step
  <2> QED BY <2>1, <2>2, <2>3
<1>2. n \in Nat /\ 0 \in Int
  OBVIOUS
<1> HIDE DEF step, n
<1>3. \A v \in Int, i \in 1 .. n : step[<<v, i>>] \in Int
  BY <1>1
<1>4. PICK f : Iterates(f, n, Int, 0, step)
  BY <1>2, <1>3, SegmentRecursion
<1>5. /\ f \in [0 .. n -> Int] /\ f[0] = 0
      /\ \A k \in 1 .. n : f[k] = step[<<f[k - 1], k>>]
  BY <1>4 DEF Iterates
<1>6. \A k \in 1 .. n : f[k] = r * f[k - 1] + DigitValue(s[k])
  <2> SUFFICES ASSUME NEW k \in 1 .. n PROVE f[k] = r * f[k - 1] + DigitValue(s[k])
    OBVIOUS
  <2>1. k - 1 \in 0 .. n
    BY <1>2
  <2>2. f[k - 1] \in Int
    BY <1>5, <2>1
  <2> QED BY <1>1, <1>5, <2>2
<1>7. Valued(f, s, r)
  BY <1>5, <1>6 DEF Valued, n
<1> QED BY <1>7

LEMMA ValueIs ==
    ASSUME NEW s \in Seq(Nat), NEW r \in Nat, NEW f, Valued(f, s, r)
    PROVE  Value(s, r) = f[Len(s)] /\ Value(s, r) \in Int
<1> DEFINE n == Len(s)
           Body(h) ==
             [k \in 0 .. n |-> IF k = 0 THEN 0 ELSE r * h[k - 1] + DigitValue(s[k])]
           h == CHOOSE g : g = Body(g)
<1>0. n \in Nat /\ f \in [0 .. n -> Int] /\ f[0] = 0
  BY DEF Valued
<1>1. Value(s, r) = h[n]
  BY DEF Value
<1>2. ASSUME NEW k \in 1 .. n PROVE f[k] = r * f[k - 1] + DigitValue(s[k])
  BY <1>2 DEF Valued
<1>3. f = Body(f)
  <2>1. \A k \in 0 .. n : f[k] = IF k = 0 THEN 0 ELSE r * f[k - 1] + DigitValue(s[k])
    BY <1>0, <1>2
  <2> QED BY <1>0, <2>1
<1>4. h = Body(h)
  <2> HIDE DEF Body
  <2> QED BY <1>3
<1> HIDE DEF h, n
<1> DEFINE T == {k \in 0 .. n : h[k] = f[k]}
<1>5. 0 \in T
  BY <1>0, <1>4
<1>6. ASSUME NEW k \in 0 .. n - 1, k \in T PROVE k + 1 \in T
  <2>1. k + 1 \in 1 .. n /\ (k + 1) - 1 = k /\ k + 1 \in 0 .. n /\ k + 1 # 0
    BY <1>0
  <2>2. h[k + 1] = r * h[k] + DigitValue(s[k + 1])
    BY <1>4, <2>1
  <2>3. f[k + 1] = r * f[k] + DigitValue(s[k + 1])
    BY <1>2, <2>1
  <2> QED BY <1>6, <2>1, <2>2, <2>3
<1> HIDE DEF T
<1>7. 0 .. n \subseteq T
  BY <1>0, <1>5, <1>6, SegmentInduction
<1> QED BY <1>0, <1>1, <1>7 DEF T, n

\* One more digit at the end.
LEMMA ValueAppend ==
    ASSUME NEW s \in Seq(Nat), NEW r \in Nat, NEW c \in Nat
    PROVE  Value(Append(s, c), r) = r * Value(s, r) + DigitValue(c)
<1>1. PICK f : Valued(f, s, r)
  BY ValueExists
<1> DEFINE n == Len(s)
           v == r * f[n] + DigitValue(c)
           g == [k \in 0 .. n + 1 |-> IF k = n + 1 THEN v ELSE f[k]]
           t == Append(s, c)
<1>2. n \in Nat /\ f \in [0 .. n -> Int] /\ f[0] = 0
      /\ \A k \in 1 .. n : f[k] = r * f[k - 1] + DigitValue(s[k])
  BY <1>1 DEF Valued
<1>3. t \in Seq(Nat) /\ Len(t) = n + 1 /\ t[n + 1] = c /\ \A k \in 1 .. n : t[k] = s[k]
  BY AppendProperties
<1>4. v \in Int
  <2>1. DigitValue(c) \in Int
    BY DEF DigitValue
  <2>2. f[n] \in Int
    BY <1>2
  <2> QED BY <2>1, <2>2
<1>5. \A k \in 1 .. n + 1 : g[k] = r * g[k - 1] + DigitValue(t[k])
  <2> SUFFICES ASSUME NEW k \in 1 .. n + 1 PROVE g[k] = r * g[k - 1] + DigitValue(t[k])
    OBVIOUS
  <2> HIDE DEF t
  <2>1. CASE k = n + 1
    <3>1. g[k] = v /\ g[k - 1] = f[n] /\ t[k] = c
      BY <1>2, <1>3, <2>1
    <3> QED BY <3>1
  <2>2. CASE k # n + 1
    <3>1. k \in 1 .. n /\ g[k] = f[k] /\ g[k - 1] = f[k - 1] /\ t[k] = s[k]
      BY <1>2, <1>3, <2>2
    <3> QED BY <1>2, <3>1
  <2> QED BY <2>1, <2>2
<1>6. Valued(g, t, r)
  <2>1. g \in [0 .. n + 1 -> Int] /\ g[0] = 0
    <3> HIDE DEF v
    <3> QED BY <1>2, <1>4
  <2> HIDE DEF g, t
  <2> QED BY <1>3, <1>5, <2>1 DEF Valued
<1>7. Value(t, r) = g[n + 1]
  <2> HIDE DEF g, t
  <2> QED BY <1>3, <1>6, ValueIs
<1>8. g[n + 1] = v
  BY <1>2
<1>9. Value(s, r) = f[n]
  BY <1>1, ValueIs
<1> QED BY <1>7, <1>8, <1>9

-----------------------------------------------------------------------------
(* itoa.                                                                    *)

Codes == {lookup(d) : d \in 0 .. 15}

LEMMA CodesAre ==
    /\ Codes \subseteq Nat /\ NL \notin Codes
    /\ \A d \in 0 .. 15 : /\ lookup(d) \in Codes /\ DigitValue(lookup(d)) = d
                          /\ d # 0 => lookup(d) # 48
BY DEF Codes, lookup, DigitValue, NL

\* The digits of the numbers up to n, lowest first.
Digits(f, n, r) ==
    /\ f \in [0 .. n -> Seq(Codes)]
    /\ f[0] = <<>>
    /\ \A v \in 1 .. n : f[v] = <<lookup(v % r)>> \o f[v \div r]

LEMMA Quotient ==
    ASSUME NEW r \in 2 .. 16, NEW v \in Nat \ {0}
    PROVE  /\ v \div r \in 0 .. v - 1 /\ v % r \in 0 .. 15
           /\ v = r * (v \div r) + (v % r)
<1> DEFINE q == v \div r
           m == v % r
<1>1. r \in Nat \ {0} /\ v \in Nat
  OBVIOUS
<1>2. q \in Nat /\ m \in 0 .. r - 1 /\ v = r * q + m
  BY <1>1, Division, Zenon
<1> HIDE DEF q, m
<1>3. q < v
  <2>1. 2 * q <= r * q
    <3>1. 2 \in Nat /\ 2 <= r /\ r \in Nat
      OBVIOUS
    <3> QED BY <1>2, <3>1, ProductGrows
  <2>2. r * q \in Nat
    BY <1>2
  <2> QED BY <1>2, <2>1, <2>2
<1> QED BY <1>2, <1>3 DEF q, m

LEMMA DigitsExist ==
    ASSUME NEW n \in Nat, NEW r \in 2 .. 16
    PROVE  \E f : Digits(f, n, r)
<1> DEFINE A == Seq(Codes)
           down == [v \in 1 .. n |-> v \div r]
           step == [x \in A \X (1 .. n) |-> <<lookup(x[2] % r)>> \o x[1]]
<1>1. \A v \in 1 .. n : down[v] = v \div r /\ lookup(v % r) \in Codes
  BY Quotient, CodesAre
<1>2. \A v \in 1 .. n : down[v] \in 0 .. v - 1
  BY Quotient
<1>3. ASSUME NEW d \in A, NEW v \in 1 .. n
      PROVE  step[<<d, v>>] = <<lookup(v % r)>> \o d /\ step[<<d, v>>] \in A
  <2>1. step[<<d, v>>] = <<lookup(v % r)>> \o d
    OBVIOUS
  <2>2. <<lookup(v % r)>> \in Seq(Codes)
    <3> DEFINE c == lookup(v % r)
    <3>1. c \in Codes
      BY <1>1
    <3> HIDE DEF c
    <3>2. <<c>> \in Seq(Codes)
      BY <3>1
    <3> QED BY <3>2 DEF c
  <2> HIDE DEF step
  <2> QED BY <2>1, <2>2, ConcatProperties
<1> HIDE DEF step, down
<1>4. \A d \in A, v \in 1 .. n : step[<<d, v>>] \in A
  BY <1>3
<1>9. <<>> \in A
  OBVIOUS
<1> HIDE DEF A
<1>5. PICK f : Descends(f, n, A, <<>>, step, down)
  BY <1>2, <1>4, <1>9, DescentRecursion
<1>6. /\ f \in [0 .. n -> A] /\ f[0] = <<>>
      /\ \A v \in 1 .. n : f[v] = step[<<f[down[v]], v>>]
  BY <1>5 DEF Descends
<1>7. ASSUME NEW v \in 1 .. n PROVE f[v] = <<lookup(v % r)>> \o f[v \div r]
  <2>1. f[down[v]] \in A
    BY <1>2, <1>6
  <2> QED BY <1>1, <1>3, <1>6, <2>1
<1>8. Digits(f, n, r)
  BY <1>6, <1>7 DEF Digits, A
<1> QED BY <1>8

LEMMA ItoaIs ==
    ASSUME NEW n \in Nat, NEW r \in 2 .. 16, NEW f, Digits(f, n, r)
    PROVE  itoa(n, r) = IF n = 0 THEN <<48>> ELSE strrev(f[n])
<1> DEFINE Body(h) ==
             [v \in 0 .. n |-> IF v = 0 THEN <<>> ELSE <<lookup(v % r)>> \o h[v \div r]]
           h == CHOOSE g : g = Body(g)
<1>0. f \in [0 .. n -> Seq(Codes)] /\ f[0] = <<>>
  BY DEF Digits
<1>1. itoa(n, r) = IF n = 0 THEN <<48>> ELSE strrev(h[n])
  BY DEF itoa
<1>2. ASSUME NEW v \in 1 .. n PROVE f[v] = <<lookup(v % r)>> \o f[v \div r]
  BY <1>2 DEF Digits
<1>3. f = Body(f)
  <2>1. \A v \in 0 .. n : f[v] = IF v = 0 THEN <<>> ELSE <<lookup(v % r)>> \o f[v \div r]
    <3> SUFFICES ASSUME NEW v \in 0 .. n
                 PROVE  f[v] = IF v = 0 THEN <<>> ELSE <<lookup(v % r)>> \o f[v \div r]
      OBVIOUS
    <3>1. CASE v = 0
      BY <1>0, <3>1
    <3>2. CASE v # 0
      <4>1. v \in 1 .. n
        BY <3>2
      <4> QED BY <1>2, <3>2, <4>1, Zenon
    <3> QED BY <3>1, <3>2
  <2> QED BY <1>0, <2>1, Zenon
<1>4. h = Body(h)
  <2> HIDE DEF Body
  <2> QED BY <1>3
<1> HIDE DEF h
<1> DEFINE T == {v \in 0 .. n : h[v] = f[v]}
<1>5. 0 \in T
  BY <1>0, <1>4
<1>6. ASSUME NEW v \in 1 .. n, 0 .. v - 1 \subseteq T PROVE v \in T
  <2>1. v \div r \in T
    <3>1. v \div r \in 0 .. v - 1
      BY Quotient
    <3> QED BY <1>6, <3>1
  <2>2. h[v] = <<lookup(v % r)>> \o h[v \div r]
    <3>1. v \in 0 .. n /\ v # 0
      OBVIOUS
    <3> HIDE DEF T
    <3> QED BY <1>4, <3>1, Zenon
  <2>3. h[v \div r] = f[v \div r]
    BY <2>1
  <2>4. v \in 0 .. n
    OBVIOUS
  <2> HIDE DEF Body
  <2> QED BY <1>2, <2>2, <2>3, <2>4, Zenon
<1> HIDE DEF T
<1>7. 0 .. n \subseteq T
  BY <1>5, <1>6, DescentInduction
<1> QED BY <1>1, <1>7 DEF T

\* Reversed, the lowest digit comes last.
LEMMA ReversedDigits ==
    ASSUME NEW c \in Codes, NEW d \in Seq(Codes)
    PROVE  /\ strrev(<<c>> \o d) = Append(strrev(d), c)
           /\ strrev(d) \in Seq(Codes) /\ Len(strrev(d)) = Len(d)
<1> DEFINE n == Len(d)
           s == strrev(d)
           x == <<c>> \o d
           y == strrev(x)
           z == Append(s, c)
<1>0. n \in Nat /\ <<c>> \in Seq(Codes) /\ \A k \in 1 .. n : d[k] \in Codes
  BY ElementOfSeq
<1>1. x \in Seq(Codes) /\ Len(x) = n + 1 /\ x[1] = c /\ \A k \in 1 .. n : x[k + 1] = d[k]
  <2>1. Len(<<c>>) = 1 /\ <<c>>[1] = c
    OBVIOUS
  <2>2. /\ x \in Seq(Codes) /\ Len(x) = 1 + n
        /\ \A i \in 1 .. 1 + n : x[i] = IF i <= 1 THEN <<c>>[i] ELSE d[i - 1]
    BY <1>0, <2>1, ConcatProperties
  <2> HIDE DEF x
  <2>3. x[1] = c
    BY <1>0, <2>1, <2>2
  <2>4. ASSUME NEW k \in 1 .. n PROVE x[k + 1] = d[k]
    <3>1. k + 1 \in 1 .. 1 + n /\ ~(k + 1 <= 1) /\ (k + 1) - 1 = k
      BY <1>0
    <3> QED BY <2>2, <3>1
  <2> QED BY <1>0, <2>2, <2>3, <2>4
<1>2. s = [i \in 1 .. n |-> d[(n - i) + 1]]
  BY DEF strrev, Reverse
<1>3. y = [i \in 1 .. n + 1 |-> x[(n + 1 - i) + 1]]
  BY <1>1 DEF strrev, Reverse
<1> HIDE DEF x, s, y
<1>4. s \in Seq(Codes) /\ Len(s) = n
  <2>1. s \in [1 .. n -> Codes]
    <3>1. \A i \in 1 .. n : (n - i) + 1 \in 1 .. n
      BY <1>0
    <3> QED BY <1>0, <1>2, <3>1
  <2> QED BY <1>0, <2>1, IsASeq, LenProperties
<1>5. y \in Seq(Codes) /\ Len(y) = n + 1
  <2>1. y \in [1 .. n + 1 -> Codes]
    <3>1. \A i \in 1 .. n + 1 : (n + 1 - i) + 1 \in 1 .. n + 1
      BY <1>0
    <3>2. \A i \in 1 .. n + 1 : x[i] \in Codes
      BY <1>1, ElementOfSeq
    <3> QED BY <1>3, <3>1, <3>2
  <2>2. n + 1 \in Nat
    BY <1>0
  <2> QED BY <2>1, <2>2, IsASeq, LenProperties
<1>6. z \in Seq(Codes) /\ Len(z) = n + 1 /\ z[n + 1] = c /\ \A k \in 1 .. n : z[k] = s[k]
  BY <1>4, AppendProperties
<1> HIDE DEF z
<1>7. ASSUME NEW i \in 1 .. n + 1 PROVE y[i] = z[i]
  <2>1. CASE i = n + 1
    BY <1>0, <1>1, <1>3, <1>6, <2>1
  <2>2. CASE i # n + 1
    <3>1. i \in 1 .. n /\ (n + 1 - i) + 1 = ((n - i) + 1) + 1 /\ (n - i) + 1 \in 1 .. n
      BY <1>0, <2>2
    <3>2. y[i] = d[(n - i) + 1]
      BY <1>1, <1>3, <3>1
    <3> QED BY <1>2, <1>6, <3>1, <3>2
  <2> QED BY <2>1, <2>2
<1>8. y = z
  <2> HIDE DEF n
  <2> QED BY <1>5, <1>6, <1>7, SeqEqual
<1> QED BY <1>4, <1>8 DEF x, y, z, s


LEMMA ValueEmpty == ASSUME NEW r \in Nat PROVE Value(<<>>, r) = 0
<1>1. <<>> \in Seq(Nat) /\ Len(<<>>) = 0
  OBVIOUS
<1>2. PICK f : Valued(f, <<>>, r)
  BY <1>1, ValueExists
<1>3. Value(<<>>, r) = f[0]
  BY <1>1, <1>2, ValueIs
<1> QED BY <1>2, <1>3 DEF Valued

\* The digits stand for their number, without a zero in front.
LEMMA DigitsStand ==
    ASSUME NEW n \in Nat, NEW r \in 2 .. 16, NEW f, Digits(f, n, r), NEW m \in 0 .. n
    PROVE  /\ Value(strrev(f[m]), r) = m
           /\ m # 0 => Len(f[m]) > 0 /\ strrev(f[m])[1] # 48
<1> DEFINE Stands(v) == /\ Value(strrev(f[v]), r) = v
                        /\ v # 0 => Len(f[v]) > 0 /\ strrev(f[v])[1] # 48
           T == {v \in 0 .. n : Stands(v)}
<1>0. /\ f \in [0 .. n -> Seq(Codes)] /\ f[0] = <<>>
      /\ \A v \in 1 .. n : f[v] = <<lookup(v % r)>> \o f[v \div r]
  BY DEF Digits
<1>1. strrev(<<>>) = <<>> /\ r \in Nat
  <2>1. strrev(<<>>) \in Seq(Codes) /\ Len(strrev(<<>>)) = 0
    <3>1. lookup(0) \in Codes /\ <<>> \in Seq(Codes) /\ Len(<<>>) = 0
      BY CodesAre
    <3> QED BY <3>1, ReversedDigits
  <2> DEFINE s == strrev(<<>>)
  <2> HIDE DEF s
  <2>2. s = <<>>
    BY <2>1 DEF s
  <2> QED BY <2>2 DEF s
<1>2. Stands(0)
  BY <1>0, <1>1, ValueEmpty
<1>3. ASSUME NEW v \in 1 .. n, 0 .. v - 1 \subseteq T PROVE v \in T
  <2> DEFINE q == v \div r
             c == lookup(v % r)
             s == strrev(f[q])
             t == strrev(f[v])
  <2>1. q \in 0 .. v - 1 /\ v % r \in 0 .. 15 /\ v = r * q + (v % r)
    BY Quotient
  <2>2. c \in Codes /\ c \in Nat /\ DigitValue(c) = v % r /\ (v % r # 0 => c # 48)
    BY <2>1, CodesAre
  <2>3. q \in T /\ q \in 0 .. n
    BY <1>3, <2>1
  <2>4. f[q] \in Seq(Codes) /\ f[v] = <<c>> \o f[q] /\ f[v] \in Seq(Codes)
    <3>1. v \in 0 .. n
      OBVIOUS
    <3> QED BY <1>0, <2>3, <3>1
  <2>5. Value(s, r) = q /\ (q # 0 => Len(f[q]) > 0 /\ s[1] # 48)
    BY <2>3
  <2> HIDE DEF q, c, T
  <2>6. t = Append(s, c) /\ s \in Seq(Codes) /\ Len(s) = Len(f[q])
    BY <2>2, <2>4, ReversedDigits
  <2>l. Len(t) = Len(f[v])
    BY <2>2, <2>4, ReversedDigits
  <2> HIDE DEF s, t
  <2>7. s \in Seq(Nat)
    BY <2>6, CodesAre, SeqMonotonic
  <2>8. Value(t, r) = v
    <3>1. Value(t, r) = r * q + DigitValue(c)
      BY <1>1, <2>2, <2>5, <2>6, <2>7, ValueAppend
    <3> QED BY <2>1, <2>2, <3>1 DEF q
  <2>9. Len(t) = Len(s) + 1 /\ Len(t) > 0 /\ t[1] # 48
    <3>1. Len(s) \in Nat /\ Len(t) = Len(s) + 1 /\ t[Len(s) + 1] = c
          /\ \A k \in 1 .. Len(s) : t[k] = s[k]
      BY <2>2, <2>6, <2>7, AppendProperties
    <3>2. CASE q = 0
      <4>1. f[q] = <<>>
        BY <1>0, <3>2
      <4>2. Len(s) = 0
        BY <2>6, <4>1
      <4>3. v % r # 0
        <5> DEFINE z == v % r
        <5>1. v = r * 0 + z /\ r * 0 = 0 /\ z \in 0 .. 15
          BY <2>1, <3>2
        <5> HIDE DEF z
        <5>2. z # 0
          BY <5>1
        <5> QED BY <5>2 DEF z
      <4> QED BY <2>2, <3>1, <4>2, <4>3
    <3>3. CASE q # 0
      <4>1. 1 \in 1 .. Len(s)
        BY <2>5, <2>6, <3>1, <3>3
      <4> QED BY <2>5, <3>1, <3>3, <4>1
    <3> QED BY <3>2, <3>3
  <2>10. Stands(v)
    BY <2>8, <2>9, <2>l DEF t
  <2> HIDE DEF Stands
  <2> QED BY <2>10 DEF T
<1>4. 0 \in T
  <2> HIDE DEF Stands
  <2> QED BY <1>2
<1> HIDE DEF T
<1>5. 0 .. n \subseteq T
  BY <1>3, <1>4, DescentInduction
<1>6. m \in T
  BY <1>5
<1> QED BY <1>6 DEF T

\* itoa writes the numeral of a number.
LEMMA ItoaRight ==
    ASSUME NEW n \in Nat, NEW r \in 2 .. 16
    PROVE  itoa(n, r) \in Seq(Codes) /\ IsNumeral(itoa(n, r), n, r)
<1>1. PICK f : Digits(f, n, r)
  BY DigitsExist
<1>2. itoa(n, r) = IF n = 0 THEN <<48>> ELSE strrev(f[n])
  BY <1>1, ItoaIs
<1>3. CASE n = 0
  <2>1. lookup(0) = 48 /\ 48 \in Codes /\ DigitValue(48) = 0
    <3>1. lookup(0) = 48
      BY DEF lookup
    <3> QED BY <3>1, CodesAre
  <2>2. Append(<<>>, 48) = <<48>> /\ <<>> \in Seq(Nat) /\ r \in Nat /\ 48 \in Nat
    OBVIOUS
  <2>3. Value(<<48>>, r) = r * Value(<<>>, r) + DigitValue(48)
    <3>1. Value(Append(<<>>, 48), r) = r * Value(<<>>, r) + DigitValue(48)
      BY <2>2, ValueAppend, Zenon
    <3> QED BY <2>2, <3>1, Zenon
  <2>4. Value(<<48>>, r) = 0
    BY <2>1, <2>2, <2>3, ValueEmpty
  <2>5. <<48>> \in Seq(Codes) /\ Len(<<48>>) = 1
    BY <2>1
  <2> QED BY <1>2, <1>3, <2>4, <2>5 DEF IsNumeral
<1>4. CASE n # 0
  <2> DEFINE s == strrev(f[n])
  <2>1. f[n] \in Seq(Codes)
    BY <1>1 DEF Digits
  <2>2. s \in Seq(Codes) /\ Len(s) = Len(f[n])
    <3>1. lookup(0) \in Codes
      BY CodesAre
    <3> QED BY <2>1, <3>1, ReversedDigits
  <2>3. Value(s, r) = n /\ Len(f[n]) > 0 /\ s[1] # 48
    <3>1. n \in 0 .. n
      OBVIOUS
    <3>2. /\ Value(strrev(f[n]), r) = n
          /\ n # 0 => Len(f[n]) > 0 /\ strrev(f[n])[1] # 48
      BY <1>1, <3>1, DigitsStand
    <3> QED BY <1>4, <3>2
  <2> HIDE DEF s
  <2>4. itoa(n, r) = s
    BY <1>2, <1>4 DEF s
  <2> QED BY <2>2, <2>3, <2>4 DEF IsNumeral
<1> QED BY <1>3, <1>4


-----------------------------------------------------------------------------
(* The lines of a text.                                                     *)

\* Two texts with the same characters have the same pieces.
LEMMA SamePiece ==
    ASSUME NEW s \in Seq(Nat), NEW t \in Seq(Nat), NEW a \in Nat, NEW b \in Nat,
           1 <= a, b <= Len(s), b <= Len(t), \A k \in a .. b : s[k] = t[k]
    PROVE  SubSeq(s, a, b) = SubSeq(t, a, b)
<1> DEFINE x == SubSeq(s, a, b)
           y == SubSeq(t, a, b)
<1>1. (\A k \in a .. b : s[k] \in Nat) /\ (\A k \in a .. b : t[k] \in Nat)
  BY ElementOfSeq
<1>2. /\ x \in Seq(Nat) /\ Len(x) = IF a <= b THEN b - a + 1 ELSE 0
      /\ \A i \in 1 .. b - a + 1 : x[i] = s[a + i - 1]
  BY <1>1, SubSeqProperties
<1>3. /\ y \in Seq(Nat) /\ Len(y) = IF a <= b THEN b - a + 1 ELSE 0
      /\ \A i \in 1 .. b - a + 1 : y[i] = t[a + i - 1]
  BY <1>1, SubSeqProperties
<1> HIDE DEF x, y
<1>4. ASSUME NEW i \in 1 .. Len(x) PROVE x[i] = y[i]
  <2>1. i \in 1 .. b - a + 1 /\ a + i - 1 \in a .. b
    BY <1>2
  <2> QED BY <1>2, <1>3, <2>1
<1>5. x = y
  BY <1>2, <1>3, <1>4, SeqEqual
<1> QED BY <1>5 DEF x, y

\* The end of the line at k: where it is, and that nothing else is.
LEMMA LineIs ==
    ASSUME NEW t \in Seq(Nat), NEW k \in 1 .. Len(t), NEW e \in k .. Len(t), t[e] = NL,
           \A j \in k .. e - 1 : t[j] # NL
    PROVE  LineAt(t, k) = SubSeq(t, k, e - 1)
<1> DEFINE ends == {j \in k .. Len(t) : t[j] = NL}
<1>1. e \in ends /\ ends # {} /\ ends \subseteq Nat
  OBVIOUS
<1>2. \A j \in ends : e <= j
  OBVIOUS
<1> HIDE DEF ends
<1>3. Min(ends) \in ends /\ \A y \in ends : Min(ends) <= y
  BY <1>1, LeastIs
<1>4. Min(ends) = e
  <2>1. PICK m : m = Min(ends)
    OBVIOUS
  <2>2. m \in Nat /\ e \in Nat /\ m <= e /\ e <= m
    BY <1>1, <1>2, <1>3, <2>1
  <2> QED BY <2>1, <2>2
<1> QED BY <1>1, <1>4 DEF LineAt, ends

\* Every line of a text that ends with a line break has an end.
LEMMA LineEnd ==
    ASSUME NEW t \in Seq(Nat), NEW k \in 1 .. Len(t), t[Len(t)] = NL
    PROVE  \E e \in k .. Len(t) : t[e] = NL /\ \A j \in k .. e - 1 : t[j] # NL
<1> DEFINE ends == {j \in k .. Len(t) : t[j] = NL}
<1>1. Len(t) \in ends /\ ends \subseteq Nat
  OBVIOUS
<1> HIDE DEF ends
<1>2. PICK e \in ends : \A y \in ends : e <= y
  BY <1>1, LeastNumber
<1>3. e \in k .. Len(t) /\ t[e] = NL
  BY DEF ends
<1>4. \A j \in k .. e - 1 : t[j] # NL
  BY <1>2, <1>3 DEF ends
<1> QED BY <1>3, <1>4

\* A line that is added is the last one, and the others stay as they are.
LEMMA LineAdded ==
    ASSUME NEW o \in Seq(Nat), o = <<>> \/ o[Len(o)] = NL,
           NEW d \in Seq(Nat), \A k \in 1 .. Len(d) : d[k] # NL
    PROVE  LET t == Append(o \o d, NL) IN
           /\ t \in Seq(Nat) /\ t # <<>> /\ t[Len(t)] = NL
           /\ Starts(o) \subseteq 1 .. Len(o) /\ Starts(t) = Starts(o) \cup {Len(o) + 1}
           /\ \A k \in Starts(o) : LineAt(t, k) = LineAt(o, k)
           /\ LineAt(t, Len(o) + 1) = d
<1> DEFINE p == Len(o)
           q == Len(d)
           u == o \o d
           t == Append(u, NL)
<1>0. p \in Nat /\ q \in Nat /\ NL \in Nat
  BY DEF NL
<1>1. /\ u \in Seq(Nat) /\ Len(u) = p + q
      /\ \A i \in 1 .. p + q : u[i] = IF i <= p THEN o[i] ELSE d[i - p]
  BY ConcatProperties
<1> HIDE DEF u, p, q
<1>2. /\ t \in Seq(Nat) /\ Len(t) = p + q + 1 /\ t[p + q + 1] = NL
      /\ \A i \in 1 .. p + q : t[i] = u[i]
  BY <1>0, <1>1, AppendProperties
<1> HIDE DEF t
<1>3. \A i \in 1 .. p : t[i] = o[i]
  <2> SUFFICES ASSUME NEW i \in 1 .. p PROVE t[i] = o[i]
    OBVIOUS
  <2>1. i \in 1 .. p + q /\ i <= p
    BY <1>0
  <2> QED BY <1>1, <1>2, <2>1
<1>4. \A i \in 1 .. q : t[p + i] = d[i] /\ t[p + i] # NL
  <2> SUFFICES ASSUME NEW i \in 1 .. q PROVE t[p + i] = d[i]
    BY DEF q
  <2>1. p + i \in 1 .. p + q /\ ~(p + i <= p) /\ (p + i) - p = i
    BY <1>0
  <2> QED BY <1>1, <1>2, <2>1
<1>5. p = 0 \/ (p \in 1 .. p /\ o[p] = NL)
  BY <1>0 DEF p
<1>6. Starts(o) \subseteq 1 .. p
  BY DEF Starts, p
<1>7. ASSUME NEW k PROVE k \in Starts(t) <=> k \in Starts(o) \cup {p + 1}
  <2>0. /\ k \in Starts(t) <=> k \in 1 .. p + q + 1 /\ (k = 1 \/ t[k - 1] = NL)
        /\ k \in Starts(o) <=> k \in 1 .. p /\ (k = 1 \/ o[k - 1] = NL)
    BY <1>2 DEF Starts, p
  <2>1. CASE k \in 1 .. p
    <3>1. k \in 1 .. p + q + 1 /\ k # p + 1 /\ (k = 1 \/ k - 1 \in 1 .. p)
      BY <1>0, <2>1
    <3> QED BY <1>3, <2>0, <2>1, <3>1
  <2>2. CASE k = p + 1
    <3>1. k \in 1 .. p + q + 1 /\ (k = 1 \/ t[k - 1] = NL)
      BY <1>0, <1>3, <1>5, <2>2
    <3> QED BY <2>0, <2>2, <3>1
  <2>3. CASE k \in 1 .. p + q + 1 /\ k \notin 1 .. p /\ k # p + 1
    <3>1. k - 1 - p \in 1 .. q /\ k # 1 /\ p + (k - 1 - p) = k - 1
      BY <1>0, <2>3
    <3>2. t[k - 1] # NL
      BY <1>4, <3>1
    <3> QED BY <2>0, <2>3, <3>1, <3>2
  <2>4. CASE k \notin 1 .. p + q + 1
    <3>1. k # p + 1 /\ k \notin 1 .. p
      BY <1>0, <2>4
    <3> QED BY <2>0, <2>4, <3>1
  <2> QED BY <2>1, <2>2, <2>3, <2>4
<1>8. ASSUME NEW k \in Starts(o) PROVE LineAt(t, k) = LineAt(o, k)
  <2>1. k \in 1 .. p /\ o[p] = NL
    BY <1>5, <1>6
  <2>2. PICK e \in k .. p : o[e] = NL /\ \A j \in k .. e - 1 : o[j] # NL
    BY <2>1, LineEnd DEF p
  <2>3. LineAt(o, k) = SubSeq(o, k, e - 1)
    BY <2>1, <2>2, LineIs DEF p
  <2>4. e \in k .. p + q + 1 /\ k \in 1 .. p + q + 1 /\ e \in 1 .. p
        /\ \A j \in k .. e - 1 : j \in 1 .. p
    BY <1>0, <2>1
  <2>5. t[e] = NL /\ \A j \in k .. e - 1 : t[j] # NL
    BY <1>3, <2>2, <2>4
  <2>6. LineAt(t, k) = SubSeq(t, k, e - 1)
    BY <1>2, <2>4, <2>5, LineIs
  <2>7. SubSeq(t, k, e - 1) = SubSeq(o, k, e - 1)
    <3>1. /\ k \in Nat /\ e - 1 \in Nat /\ 1 <= k /\ e - 1 <= Len(o) /\ e - 1 <= Len(t)
          /\ \A j \in k .. e - 1 : t[j] = o[j]
      BY <1>0, <1>2, <1>3, <2>1, <2>4 DEF p
    <3> QED BY <1>2, <3>1, SamePiece
  <2> QED BY <2>3, <2>6, <2>7
<1>9. LineAt(t, p + 1) = d
  <2>1. p + q + 1 \in p + 1 .. p + q + 1 /\ p + 1 \in 1 .. p + q + 1
    BY <1>0
  <2>2. \A j \in p + 1 .. (p + q + 1) - 1 : t[j] # NL
    <3> SUFFICES ASSUME NEW j \in p + 1 .. (p + q + 1) - 1 PROVE t[j] # NL
      OBVIOUS
    <3>1. j - p \in 1 .. q /\ p + (j - p) = j
      BY <1>0
    <3> QED BY <1>4, <3>1
  <2>3. LineAt(t, p + 1) = SubSeq(t, p + 1, (p + q + 1) - 1)
    BY <1>2, <2>1, <2>2, LineIs
  <2>4. (p + q + 1) - 1 = p + q /\ p + q \in Nat /\ p <= p + q /\ p + q <= Len(t)
    BY <1>0, <1>2
  <2> DEFINE x == SubSeq(t, p + 1, p + q)
  <2>5. x \in Seq(Nat) /\ Len(x) = p + q - p /\ \A i \in 1 .. p + q - p : x[i] = t[p + i]
    BY <1>0, <1>2, <2>4, Piece
  <2> HIDE DEF x
  <2>6. Len(x) = q /\ \A i \in 1 .. q : x[i] = d[i]
    <3>1. p + q - p = q
      BY <1>0
    <3> QED BY <1>4, <2>5, <3>1
  <2>7. x = d
    BY <2>5, <2>6, SeqEqual DEF q
  <2> QED BY <2>3, <2>4, <2>7 DEF x
<1>10. t # <<>>
  <2>1. Len(t) # 0
    BY <1>0, <1>2
  <2> QED BY <2>1
<1>11. Starts(t) = Starts(o) \cup {p + 1}
  BY <1>7
<1> QED BY <1>2, <1>6, <1>8, <1>9, <1>10, <1>11 DEF t, u, p, q

-----------------------------------------------------------------------------
(* The value of padded and of joined numerals.                              *)

Powers(p) ==
    /\ p \in [0 .. HEX -> Nat]
    /\ p[0] = 1
    /\ \A k \in 1 .. HEX : p[k] = 16 * p[k - 1]

LEMMA PowersExist == \E p : Powers(p) /\ UINT = p[HEX]
<1> DEFINE Body(h) == [k \in 0 .. HEX |-> IF k = 0 THEN 1 ELSE 16 * h[k - 1]]
           h == CHOOSE g : g = Body(g)
           step == [x \in Nat \X (1 .. HEX) |-> 16 * x[1]]
<1>0. HEX \in Nat /\ HEX # 0
  BY LibraryAssumption
<1>1. UINT = h[HEX]
  BY HexAssumption
<1>2. \A v \in Nat, i \in 1 .. HEX : step[<<v, i>>] = 16 * v /\ step[<<v, i>>] \in Nat
  OBVIOUS
<1> HIDE DEF step
<1>3. PICK f : Iterates(f, HEX, Nat, 1, step)
  BY <1>0, <1>2, SegmentRecursion
<1>4. /\ f \in [0 .. HEX -> Nat] /\ f[0] = 1
      /\ \A k \in 1 .. HEX : f[k] = step[<<f[k - 1], k>>]
  BY <1>3 DEF Iterates
<1>5. \A k \in 1 .. HEX : f[k] = 16 * f[k - 1]
  <2> SUFFICES ASSUME NEW k \in 1 .. HEX PROVE f[k] = 16 * f[k - 1]
    OBVIOUS
  <2>1. f[k - 1] \in Nat
    BY <1>0, <1>4
  <2> QED BY <1>2, <1>4, <2>1
<1>6. f = Body(f)
  <2>1. \A k \in 0 .. HEX : f[k] = IF k = 0 THEN 1 ELSE 16 * f[k - 1]
    BY <1>0, <1>4, <1>5
  <2> QED BY <1>4, <2>1, Zenon
<1>7. h = Body(h)
  <2> HIDE DEF Body
  <2> QED BY <1>6
<1> HIDE DEF h
<1>8. h \in [0 .. HEX -> Nat] /\ \A k \in 0 .. HEX : h[k] = f[k]
  <2> DEFINE T == {k \in 0 .. HEX : h[k] = f[k]}
  <2>1. 0 \in T
    BY <1>0, <1>4, <1>7
  <2>2. ASSUME NEW k \in 0 .. HEX - 1, k \in T PROVE k + 1 \in T
    <3>1. k + 1 \in 1 .. HEX /\ (k + 1) - 1 = k /\ k + 1 \in 0 .. HEX /\ k + 1 # 0
      BY <1>0
    <3>2. h[k + 1] = 16 * h[k]
      BY <1>7, <3>1
    <3>3. f[k + 1] = 16 * f[k]
      BY <1>5, <3>1
    <3> QED BY <2>2, <3>1, <3>2, <3>3
  <2> HIDE DEF T
  <2>3. 0 .. HEX \subseteq T
    BY <1>0, <2>1, <2>2, SegmentInduction
  <2>4. \A k \in 0 .. HEX : h[k] = f[k]
    BY <2>3 DEF T
  <2>5. h = [k \in 0 .. HEX |-> IF k = 0 THEN 1 ELSE 16 * h[k - 1]]
    BY <1>7
  <2>6. DOMAIN h = 0 .. HEX
    BY <2>5
  <2> QED BY <1>4, <2>4, <2>5, <2>6
<1> HIDE DEF Body
<1>9. HEX \in 0 .. HEX
  BY <1>0
<1> QED BY <1>1, <1>4, <1>5, <1>8, <1>9 DEF Powers

\* Digits in front count for as much as the digits behind them can.
LEMMA ValueJoined ==
    ASSUME NEW p, Powers(p), NEW s \in Seq(Nat), NEW t \in Seq(Nat), Len(t) <= HEX
    PROVE  /\ s \o t \in Seq(Nat) /\ Value(s, 16) \in Int
           /\ Value(s \o t, 16) = Value(s, 16) * p[Len(t)] + Value(t, 16)
<1> DEFINE m == Len(s)
           n == Len(t)
           u == s \o t
<1>0. m \in Nat /\ n \in Nat /\ HEX \in Nat /\ n <= HEX
  BY LibraryAssumption
<1>1. /\ u \in Seq(Nat) /\ Len(u) = m + n
      /\ \A i \in 1 .. m + n : u[i] = IF i <= m THEN s[i] ELSE t[i - m]
  BY ConcatProperties
<1>s. (\A i \in 1 .. m : s[i] \in Nat) /\ (\A i \in 1 .. n : t[i] \in Nat)
  BY ElementOfSeq
<1> HIDE DEF u
<1>2. PICK f : Valued(f, s, 16)
  BY ValueExists
<1>3. PICK g : Valued(g, t, 16)
  BY ValueExists
<1>4. PICK h : Valued(h, u, 16)
  BY <1>1, ValueExists
<1>5. Value(s, 16) = f[m] /\ Value(t, 16) = g[n] /\ Value(u, 16) = h[m + n]
  BY <1>1, <1>2, <1>3, <1>4, ValueIs
<1>6. /\ f \in [0 .. m -> Int] /\ f[0] = 0
      /\ \A k \in 1 .. m : f[k] = 16 * f[k - 1] + DigitValue(s[k])
  BY <1>2 DEF Valued
<1>7. /\ g \in [0 .. n -> Int] /\ g[0] = 0
      /\ \A k \in 1 .. n : g[k] = 16 * g[k - 1] + DigitValue(t[k])
  BY <1>3 DEF Valued
<1>8. /\ h \in [0 .. m + n -> Int] /\ h[0] = 0
      /\ \A k \in 1 .. m + n : h[k] = 16 * h[k - 1] + DigitValue(u[k])
  BY <1>1, <1>4 DEF Valued
<1>p. p \in [0 .. HEX -> Nat] /\ p[0] = 1 /\ \A k \in 1 .. HEX : p[k] = 16 * p[k - 1]
  BY DEF Powers
<1> HIDE DEF m, n
<1>9. h[m] = f[m]
  <2> DEFINE T == {k \in 0 .. m : h[k] = f[k]}
  <2>1. 0 \in T
    BY <1>0, <1>6, <1>8
  <2>2. ASSUME NEW k \in 0 .. m - 1, k \in T PROVE k + 1 \in T
    <3>1. /\ k + 1 \in 1 .. m /\ (k + 1) - 1 = k /\ k + 1 \in 0 .. m
          /\ k + 1 \in 1 .. m + n /\ k + 1 <= m
      BY <1>0
    <3>2. h[k + 1] = 16 * h[k] + DigitValue(s[k + 1])
      BY <1>1, <1>8, <3>1
    <3>3. f[k + 1] = 16 * f[k] + DigitValue(s[k + 1])
      BY <1>6, <3>1
    <3> QED BY <2>2, <3>1, <3>2, <3>3
  <2> HIDE DEF T
  <2>3. 0 .. m \subseteq T
    BY <1>0, <2>1, <2>2, SegmentInduction
  <2>4. m \in T
    BY <1>0, <2>3
  <2> QED BY <2>4 DEF T
<1>10. h[m + n] = f[m] * p[n] + g[n]
  <2> DEFINE T == {k \in 0 .. n : h[m + k] = f[m] * p[k] + g[k]}
  <2>0. f[m] \in Int /\ m + 0 = m
    BY <1>0, <1>6
  <2>1. 0 \in T
    BY <1>0, <1>7, <1>9, <1>p, <2>0
  <2>2. ASSUME NEW k \in 0 .. n - 1, k \in T PROVE k + 1 \in T
    <3>1. /\ k + 1 \in 1 .. n /\ (k + 1) - 1 = k /\ k + 1 \in 0 .. n
          /\ k + 1 \in 1 .. HEX /\ k \in 0 .. HEX /\ k \in 0 .. n
          /\ m + (k + 1) \in 1 .. m + n /\ ~(m + (k + 1) <= m)
          /\ (m + (k + 1)) - m = k + 1 /\ (m + (k + 1)) - 1 = m + k
      BY <1>0
    <3> DEFINE d == DigitValue(t[k + 1])
               a == f[m]
               b == p[k]
               c == g[k]
    <3>2. u[m + (k + 1)] = t[k + 1]
      BY <1>1, <3>1
    <3>3. h[m + (k + 1)] = 16 * h[m + k] + d
      BY <1>8, <3>1, <3>2
    <3>4. g[k + 1] = 16 * c + d
      BY <1>7, <3>1
    <3>5. p[k + 1] = 16 * b
      BY <1>p, <3>1
    <3>6. h[m + k] = a * b + c
      BY <2>2
    <3>7. a \in Int /\ b \in Int /\ c \in Int /\ d \in Int
      <4>1. t[k + 1] \in Nat
        BY <1>s, <3>1
      <4>2. d \in Int
        BY <4>1 DEF DigitValue
      <4>3. g[k] \in Int
        BY <1>7, <3>1
      <4>4. p[k] \in Nat
        BY <1>p, <3>1
      <4> QED BY <2>0, <4>2, <4>3, <4>4
    <3> HIDE DEF a, b, c, d
    <3>8. 16 * (a * b + c) + d = a * (16 * b) + (16 * c + d)
      BY <3>7
    <3>9. h[m + (k + 1)] = a * p[k + 1] + g[k + 1]
      BY <3>3, <3>4, <3>5, <3>6, <3>8
    <3> QED BY <3>1, <3>9 DEF a
  <2> HIDE DEF T
  <2>3. 0 .. n \subseteq T
    BY <1>0, <2>1, <2>2, SegmentInduction
  <2>4. n \in T
    BY <1>0, <2>3
  <2> QED BY <2>4 DEF T
<1>11. f[m] \in Int
  BY <1>0, <1>6
<1> QED BY <1>1, <1>5, <1>10, <1>11 DEF u, m, n

\* Zeros in front count for nothing.
LEMMA ValueZeros ==
    ASSUME NEW m \in Nat
    PROVE  LET z == [i \in 1 .. m |-> 48] IN
           z \in Seq(Nat) /\ Len(z) = m /\ Value(z, 16) = 0
<1> DEFINE z == [i \in 1 .. m |-> 48]
<1>1. z \in Seq(Nat) /\ Len(z) = m /\ \A i \in 1 .. m : z[i] = 48
  <2>1. z \in [1 .. m -> Nat]
    OBVIOUS
  <2> QED BY <2>1, IsASeq, LenProperties
<1> HIDE DEF z
<1>2. PICK f : Valued(f, z, 16)
  BY <1>1, ValueExists
<1>3. Value(z, 16) = f[m]
  BY <1>1, <1>2, ValueIs
<1>4. /\ f \in [0 .. m -> Int] /\ f[0] = 0
      /\ \A k \in 1 .. m : f[k] = 16 * f[k - 1] + DigitValue(z[k])
  BY <1>1, <1>2 DEF Valued
<1> DEFINE T == {k \in 0 .. m : f[k] = 0}
<1>5. 0 \in T
  BY <1>4
<1>6. ASSUME NEW k \in 0 .. m - 1, k \in T PROVE k + 1 \in T
  <2>1. k + 1 \in 1 .. m /\ (k + 1) - 1 = k /\ k + 1 \in 0 .. m
    OBVIOUS
  <2>2. DigitValue(z[k + 1]) = 0
    BY <1>1, <2>1 DEF DigitValue
  <2>3. f[k + 1] = 16 * f[k] + 0
    BY <1>4, <2>1, <2>2
  <2> QED BY <1>6, <2>1, <2>3
<1> HIDE DEF T
<1>7. 0 .. m \subseteq T
  BY <1>5, <1>6, SegmentInduction
<1>8. f[m] = 0
  BY <1>7 DEF T
<1> QED BY <1>1, <1>3, <1>8 DEF z

\* A number below UINT has at most HEX hexadecimal digits.
LEMMA DigitsFit ==
    ASSUME NEW p, Powers(p), NEW n \in Nat, NEW f, Digits(f, n, 16),
           NEW k \in 0 .. HEX, n < p[k]
    PROVE  Len(f[n]) <= k
<1> DEFINE Fits(v) == \A j \in 0 .. HEX : v < p[j] => Len(f[v]) <= j
           T == {v \in 0 .. n : Fits(v)}
<1>0. /\ f \in [0 .. n -> Seq(Codes)] /\ f[0] = <<>>
      /\ \A v \in 1 .. n : f[v] = <<lookup(v % 16)>> \o f[v \div 16]
  BY DEF Digits
<1>p. p \in [0 .. HEX -> Nat] /\ p[0] = 1 /\ \A j \in 1 .. HEX : p[j] = 16 * p[j - 1]
  BY DEF Powers
<1>h. HEX \in Nat
  BY LibraryAssumption
<1>1. 0 \in T
  <2>1. Len(f[0]) = 0
    BY <1>0
  <2> QED BY <1>h, <2>1
<1>2. ASSUME NEW v \in 1 .. n, 0 .. v - 1 \subseteq T PROVE v \in T
  <2> DEFINE q == v \div 16
             c == lookup(v % 16)
             r == v % 16
  <2>1. q \in 0 .. v - 1 /\ r \in 0 .. 15 /\ v = 16 * q + r
    <3>1. v \in Nat \ {0} /\ 16 \in 2 .. 16
      OBVIOUS
    <3> QED BY <3>1, Quotient
  <2>2. f[v] = <<c>> \o f[q]
    BY <1>0
  <2>3. c \in Codes
    BY <2>1, CodesAre
  <2> HIDE DEF c, q, r
  <2>4. q \in T
    BY <1>2, <2>1
  <2> HIDE DEF T
  <2>5. q \in 0 .. n /\ Fits(q)
    BY <2>4 DEF T
  <2>6. Len(f[v]) = 1 + Len(f[q])
    <3>1. f[q] \in Seq(Codes) /\ <<c>> \in Seq(Codes) /\ Len(<<c>>) = 1
      BY <1>0, <2>3, <2>5
    <3> QED BY <2>2, <3>1, ConcatProperties
  <2>7. ASSUME NEW j \in 0 .. HEX, v < p[j] PROVE Len(f[v]) <= j
    <3>1. j # 0
      <4>1. v >= 1
        OBVIOUS
      <4> QED BY <1>p, <2>7, <4>1
    <3>2. j \in 1 .. HEX /\ j - 1 \in 0 .. HEX
      BY <1>h, <3>1
    <3>3. p[j] = 16 * p[j - 1] /\ p[j - 1] \in Nat
      BY <1>p, <3>2
    <3>4. q < p[j - 1]
      BY <2>1, <2>7, <3>3
    <3>5. Len(f[q]) <= j - 1
      BY <2>5, <3>2, <3>4
    <3>6. Len(f[q]) \in Nat
      BY <1>0, <2>5
    <3> QED BY <2>6, <3>2, <3>5, <3>6
  <2>8. Fits(v) /\ v \in 0 .. n
    BY <2>7
  <2> HIDE DEF Fits
  <2> QED BY <2>8 DEF T
<1> HIDE DEF T
<1>3. 0 .. n \subseteq T
  BY <1>1, <1>2, DescentInduction
<1>4. Fits(n)
  BY <1>3 DEF T
<1> QED BY <1>4

\* A padded numeral fills its place, and reads as its number.
LEMMA PaddedRight ==
    ASSUME NEW n \in 0 .. UINT - 1
    PROVE  /\ Padded(itoa(n, 16)) \in Seq(Nat) /\ Len(Padded(itoa(n, 16))) = HEX
           /\ Value(Padded(itoa(n, 16)), 16) = n
<1>0. HEX \in Nat \ {0} /\ UINT \in Nat \ {0} /\ n \in Nat /\ n < UINT /\ 16 \in 2 .. 16
  BY LibraryAssumption
<1>1. PICK p : Powers(p) /\ UINT = p[HEX]
  BY PowersExist
<1>2. PICK f : Digits(f, n, 16)
  BY <1>0, DigitsExist
<1>3. itoa(n, 16) = IF n = 0 THEN <<48>> ELSE strrev(f[n])
  BY <1>0, <1>2, ItoaIs
<1> DEFINE s == itoa(n, 16)
<1>4. s \in Seq(Codes) /\ Value(s, 16) = n
  BY <1>0, ItoaRight DEF IsNumeral
<1>5. Len(s) <= HEX
  <2>1. CASE n = 0
    <3>1. Len(<<48>>) = 1
      OBVIOUS
    <3>2. s = <<48>>
      BY <1>3, <2>1
    <3> HIDE DEF s
    <3> QED BY <1>0, <3>1, <3>2
  <2>2. CASE n # 0
    <3>1. f[n] \in Seq(Codes)
      BY <1>0, <1>2 DEF Digits
    <3>2. lookup(0) \in Codes
      BY CodesAre
    <3>3. Len(strrev(f[n])) = Len(f[n])
      BY <3>1, <3>2, ReversedDigits
    <3>4. HEX \in 0 .. HEX
      BY <1>0
    <3>5. Len(f[n]) <= HEX
      BY <1>0, <1>1, <1>2, <3>4, DigitsFit
    <3> QED BY <1>3, <2>2, <3>3, <3>5
  <2> QED BY <2>1, <2>2
<1> HIDE DEF s
<1>6. s \in Seq(Nat) /\ Len(s) \in Nat
  <2>1. s \in Seq(Nat)
    BY <1>4, CodesAre, SeqMonotonic
  <2> QED BY <2>1
<1> DEFINE m == HEX - Len(s)
           z == [i \in 1 .. m |-> 48]
<1>7. m \in Nat /\ m + Len(s) = HEX
  BY <1>0, <1>5, <1>6
<1>8. z \in Seq(Nat) /\ Len(z) = m /\ Value(z, 16) = 0
  BY <1>7, ValueZeros
<1>9. Padded(s) = z \o s
  BY DEF Padded
<1> HIDE DEF z, m
<1>10. z \o s \in Seq(Nat) /\ Value(z \o s, 16) = Value(z, 16) * p[Len(s)] + Value(s, 16)
  BY <1>1, <1>5, <1>6, <1>8, ValueJoined
<1>11. Len(z \o s) = HEX
  BY <1>6, <1>7, <1>8, ConcatProperties
<1>12. p[Len(s)] \in Nat
  <2>1. Len(s) \in 0 .. HEX
    BY <1>0, <1>5, <1>6
  <2> QED BY <1>1, <2>1 DEF Powers
<1>13. Value(z \o s, 16) = n
  BY <1>0, <1>4, <1>8, <1>10, <1>12
<1> QED BY <1>9, <1>10, <1>11, <1>13 DEF s

\* The two halves of an address join to one numeral.
LEMMA AddressRight ==
    ASSUME NEW n \in 0 .. UINT - 1, NEW m \in 0 .. UINT - 1
    PROVE  LET t == Padded(itoa(n, 16)) \o Padded(itoa(m, 16)) IN
           t \in Seq(Nat) /\ Len(t) = 2 * HEX /\ Value(t, 16) = n * UINT + m
<1> DEFINE a == Padded(itoa(n, 16))
           b == Padded(itoa(m, 16))
<1>0. HEX \in Nat
  BY LibraryAssumption
<1>1. a \in Seq(Nat) /\ Len(a) = HEX /\ Value(a, 16) = n
  BY PaddedRight
<1>2. b \in Seq(Nat) /\ Len(b) = HEX /\ Value(b, 16) = m
  BY PaddedRight
<1> HIDE DEF a, b
<1>3. PICK p : Powers(p) /\ UINT = p[HEX]
  BY PowersExist
<1>4. a \o b \in Seq(Nat) /\ Value(a \o b, 16) = Value(a, 16) * p[Len(b)] + Value(b, 16)
  <2>1. Len(b) <= HEX
    BY <1>0, <1>2
  <2> QED BY <1>1, <1>2, <1>3, <2>1, ValueJoined
<1>5. Len(a \o b) = 2 * HEX
  <2>1. Len(a \o b) = Len(a) + Len(b)
    BY <1>1, <1>2, ConcatProperties
  <2> QED BY <1>0, <1>1, <1>2, <2>1
<1>6. Value(a \o b, 16) = n * UINT + m
  BY <1>1, <1>2, <1>3, <1>4
<1> QED BY <1>4, <1>5, <1>6 DEF a, b

-----------------------------------------------------------------------------
(* counter.                                                                 *)

LEMMA CountKept ==
    ASSUME ProgramsInv, [ProgramsNext]_all
    PROVE  CountInv'
<1>0. PhaseInv /\ FilesInv /\ CountInv /\ DOMAIN local = Fields
  BY LocalFields DEF ProgramsInv, PhaseInv
<1>1. ASSUME at' \notin CountLabels PROVE CountInv'
  BY <1>1 DEF CountInv, NumeralsRight, CountLabels
<1>2. CASE UNCHANGED all
  BY <1>0, <1>2 DEF CountInv, NumeralsRight, all, child
<1>3. CASE KernelStep
  BY <1>0, <1>1, <1>3, KernelMoves DEF KernelLabels, CountLabels
<1>4. CASE ExecuteRun
  <2>1. session \in Sessions
    BY <1>4 DEF ExecuteRun, ProgramsInv, ShellInv
  <2>2. at' \in FirstLabels /\ local' = [NoLocals EXCEPT !.prog = at']
    BY <1>0, <1>4, <2>1, ExecuteRunMoves
  <2>3. local'.i = 0
    BY <2>2 DEF NoLocals
  <2> QED BY <2>2, <2>3 DEF CountInv, NumeralsRight, FirstLabels
<1>5. CASE CatStep
  BY <1>0, <1>1, <1>5, CatMoves DEF Moves, CatLabels, CountLabels
<1>6. CASE LsStep
  BY <1>0, <1>1, <1>6, LsMoves DEF Moves, LsLabels, CountLabels
<1>7. CASE GrepStep
  BY <1>0, <1>1, <1>7, GrepMoves DEF Moves, GrepLabels, FileLabels, CountLabels
<1>8. CASE SyserrStep
  BY <1>0, <1>1, <1>8, SyserrMoves DEF Moves, SyserrLabels, CountLabels
<1>9. ASSUME NEW line, CounterRead(line) PROVE CountInv'
  <2>1. /\ at = "counter" /\ at' \in {"count", "returned"} /\ UNCHANGED out
        /\ UNCHANGED local
             \/ local' = [local EXCEPT !.max = IF line = <<>> THEN 0 ELSE LIMITS[line[1] - 47]]
    BY <1>9 DEF CounterRead, Halt
  <2>2. local'.i = 0
    <3>1. local.i = 0
      BY <1>0, <2>1 DEF CountInv
    <3> QED BY <1>0, <2>1, <3>1 DEF Fields
  <2>3. out' = <<>>
    BY <1>0, <2>1 DEF PhaseInv
  <2>4. Starts(<<>>) = {} /\ <<>> \in Seq(Nat) /\ 0 \in Nat
    BY DEF Starts
  <2>5. Cardinality({}) = 0
    BY FS_EmptySet
  <2> QED BY <2>1, <2>2, <2>3, <2>4, <2>5 DEF CountInv, NumeralsRight
<1>10. CASE Count
  <2>1. CASE at' = "returned"
    BY <1>1, <2>1 DEF CountLabels
  <2>2. CASE at' # "returned"
    <3> DEFINE d == itoa(local.i + 1, 10)
               t == Append(out \o d, NL)
               n == local.i
    <3>1. /\ at = "count" /\ at' = "count" /\ out' = t
          /\ local' = [local EXCEPT !.i = @ + 1]
      BY <1>10, <2>2 DEF Count, Halt
    <3>2. /\ n \in Nat /\ out \in Seq(Nat) /\ (out = <<>> \/ out[Len(out)] = NL)
          /\ Cardinality(Starts(out)) = n
          /\ \A k \in Starts(out) :
               IsNumeral(LineAt(out, k), Cardinality({j \in Starts(out) : j <= k}), 10)
      BY <1>0, <3>1 DEF CountInv, NumeralsRight
    <3>3. local'.i = n + 1
      BY <1>0, <3>1 DEF Fields
    <3>4. d \in Seq(Codes) /\ IsNumeral(d, n + 1, 10)
      <4>1. n + 1 \in Nat /\ 10 \in 2 .. 16
        BY <3>2
      <4> QED BY <4>1, ItoaRight
    <3> HIDE DEF d, n
    <3>5. d \in Seq(Nat) /\ \A k \in 1 .. Len(d) : d[k] # NL
      BY <3>4, CodesAre, SeqMonotonic, ElementOfSeq
    <3> DEFINE S == Starts(out)
               last == Len(out) + 1
    <3>6. /\ t \in Seq(Nat) /\ t # <<>> /\ t[Len(t)] = NL
          /\ S \subseteq 1 .. Len(out) /\ Starts(t) = S \cup {last}
          /\ \A k \in S : LineAt(t, k) = LineAt(out, k)
          /\ LineAt(t, last) = d
      BY <3>2, <3>5, LineAdded
    <3> HIDE DEF t
    <3>7. Len(out) \in Nat /\ last \notin S /\ \A k \in S : k \in Nat /\ k < last
      BY <3>2, <3>6
    <3>8. IsFiniteSet(S) /\ Cardinality(S \cup {last}) = n + 1
      <4>1. IsFiniteSet(S)
        <5>1. IsFiniteSet(1 .. Len(out))
          BY <3>7, FS_Interval
        <5> QED BY <3>6, <5>1, FS_Subset
      <4>2. Cardinality(S \cup {last}) = Cardinality(S) + 1
        BY <3>7, <4>1, FS_AddElement
      <4> QED BY <3>2, <4>1, <4>2
    <3>9. ASSUME NEW k \in S \cup {last}
          PROVE  IsNumeral(LineAt(t, k), Cardinality({j \in S \cup {last} : j <= k}), 10)
      <4>1. CASE k = last
        <5>1. {j \in S \cup {last} : j <= k} = S \cup {last}
          <6>1. \A j \in S \cup {last} : j <= k
            BY <3>7, <4>1
          <6> QED BY <6>1
        <5> QED BY <3>4, <3>6, <3>8, <4>1, <5>1
      <4>2. CASE k \in S
        <5>1. {j \in S \cup {last} : j <= k} = {j \in S : j <= k}
          <6>1. ~(last <= k)
            BY <3>7, <4>2
          <6> QED BY <6>1
        <5> QED BY <3>2, <3>6, <4>2, <5>1
      <4> QED BY <4>1, <4>2
    <3>10. Starts(out)' = S \cup {last}
      BY <3>1, <3>6 DEF Starts
    <3>11. NumeralsRight'
      <4>1. Starts(out') = S \cup {last}
        BY <3>1, <3>6
      <4>2. Cardinality(Starts(out')) = local'.i
        BY <3>3, <3>8, <4>1
      <4>3. \A k \in Starts(out') :
              IsNumeral(LineAt(out', k), Cardinality({j \in Starts(out') : j <= k}), 10)
        BY <3>1, <3>9, <4>1
      <4> HIDE DEF S, last
      <4> QED BY <4>2, <4>3 DEF NumeralsRight
    <3> QED BY <3>1, <3>2, <3>3, <3>6, <3>11 DEF CountInv, n
  <2> QED BY <2>1, <2>2
<1>11. CASE CountStep
  BY <1>9, <1>10, <1>11 DEF CountStep
<1>l. CASE GrepLost
  BY <1>0, <1>1, <1>l, GrepLoses DEF CountLabels
<1> QED BY <1>2, <1>3, <1>4, <1>5, <1>6, <1>7, <1>8, <1>11, <1>l, StepCases

-----------------------------------------------------------------------------
(* The messages of entry.                                                   *)

Goes(states, format, arguments) ==
    /\ format \in Seq(Nat)
    /\ states[0] = PrintStart
    /\ \A b \in 1 .. Len(format) :
         states[b] = PrintStep(states[b - 1], format[b], arguments)

\* printf goes through the states that PrintStep gives for each character.
LEMMA PrintfIs ==
    ASSUME NEW format, NEW arguments, NEW states, Goes(states, format, arguments)
    PROVE  printf(format, arguments) = states[Len(format)].text
<1> DEFINE n == Len(format)
           Body(h) == [b \in 0 .. n |->
                         IF b = 0 THEN PrintStart
                         ELSE PrintStep(h[b - 1], format[b], arguments)]
           h == CHOOSE g : g = Body(g)
           f == [b \in 0 .. n |-> states[b]]
<1>0. n \in Nat
  BY DEF Goes
<1>1. printf(format, arguments) = h[n].text
  BY DEF printf
<1> HIDE DEF n, h
<1>2. \A b \in 1 .. n : states[b] = PrintStep(states[b - 1], format[b], arguments)
  BY DEF n, Goes
<1>s. states[0] = PrintStart
  BY DEF Goes
<1>3. f = Body(f)
  <2>1. ASSUME NEW b \in 0 .. n
        PROVE  f[b] = IF b = 0 THEN PrintStart
                      ELSE PrintStep(f[b - 1], format[b], arguments)
    <3>1. CASE b = 0
      BY <1>s, <3>1
    <3>2. CASE b # 0
      <4>1. b \in 1 .. n /\ b - 1 \in 0 .. n
        BY <1>0, <3>2
      <4>2. f[b] = states[b] /\ f[b - 1] = states[b - 1]
        BY <4>1
      <4> HIDE DEF f
      <4> QED BY <1>2, <3>2, <4>1, <4>2
    <3> QED BY <3>1, <3>2
  <2>2. f = [b \in 0 .. n |-> f[b]]
    OBVIOUS
  <2> HIDE DEF f
  <2> QED BY <2>1, <2>2
<1> HIDE DEF f
<1>4. h = Body(h)
  <2> HIDE DEF Body
  <2> QED BY <1>3 DEF h
<1> DEFINE T == {b \in 0 .. n : h[b] = states[b]}
<1>5. 0 \in T
  BY <1>0, <1>4, <1>s
<1>6. ASSUME NEW b \in 0 .. n - 1, b \in T PROVE b + 1 \in T
  <2>1. b + 1 \in 1 .. n /\ (b + 1) - 1 = b /\ b + 1 \in 0 .. n /\ b + 1 # 0
    BY <1>0
  <2>2. h[b + 1] = PrintStep(h[(b + 1) - 1], format[b + 1], arguments)
    BY <1>4, <2>1
  <2>3. states[b + 1] = PrintStep(states[(b + 1) - 1], format[b + 1], arguments)
    BY <1>2, <2>1
  <2>4. h[b + 1] = states[b + 1]
    BY <1>6, <2>1, <2>2, <2>3
  <2> QED BY <2>1, <2>4
<1> HIDE DEF T
<1>7. 0 .. n \subseteq T
  BY <1>0, <1>5, <1>6, SegmentInduction
<1>8. n \in T
  BY <1>0, <1>7
<1> QED BY <1>1, <1>8 DEF T, n

State(t, k, m) == [text |-> t, next |-> k, mode |-> m]

LEMMA PrintChar ==
    ASSUME NEW t, NEW k, NEW arguments, NEW c, c # PERCENT
    PROVE  PrintStep(State(t, k, "text"), c, arguments) = State(Append(t, c), k, "text")
BY DEF PrintStep, State

LEMMA FirstChar ==
    ASSUME NEW arguments
    PROVE  PrintStep(State(<<>>, 1, "text"), 61, arguments) = State(<<61>>, 1, "text")
<1>1. 61 # PERCENT
  BY DEF PERCENT
<1>2. PrintStep(State(<<>>, 1, "text"), 61, arguments) = State(Append(<<>>, 61), 1, "text")
  BY <1>1, PrintChar, Zenon
<1>3. Append(<<>>, 61) = <<61>>
  OBVIOUS
<1> QED BY <1>2, <1>3, Zenon

LEMMA PrintPercent ==
    ASSUME NEW t, NEW k, NEW arguments
    PROVE  PrintStep(State(t, k, "text"), PERCENT, arguments) = State(t, k, "conv")
BY DEF PrintStep, State

LEMMA PrintSharp ==
    ASSUME NEW t, NEW k, NEW arguments
    PROVE  PrintStep(State(t, k, "conv"), SHARP, arguments) = State(t, k, "alt")
BY DEF PrintStep, State, SHARP, PERCENT

\* The conversions to numerals: d, u and x.
Plain == {100, 117, 120}

LEMMA PrintConversion ==
    ASSUME NEW t, NEW k, NEW arguments, NEW c, c \in Plain
    PROVE  PrintStep(State(t, k, "conv"), c, arguments)
             = State(t \o Conversion(c, FALSE, arguments[k]), k + 1, "text")
<1> DEFINE x == Conversion(c, FALSE, arguments[k])
           s == State(t, k, "conv")
<1>1. s.text = t /\ s.next = k /\ s.mode = "conv"
  BY DEF State
<1>2. c # PERCENT /\ c # SHARP /\ c \in {99, 100, 115, 117, 120}
  BY DEF SHARP, PERCENT, Plain
<1>3. PrintStep(s, c, arguments)
        = [text |-> s.text \o Conversion(c, s.mode = "alt", arguments[s.next]),
           next |-> s.next + 1, mode |-> "text"]
  <2> HIDE DEF s
  <2> QED BY <1>1, <1>2 DEF PrintStep
<1>4. Conversion(c, s.mode = "alt", arguments[s.next]) = x
  <2>1. (s.mode = "alt") = FALSE
    BY <1>1
  <2> HIDE DEF s
  <2> QED BY <1>1, <2>1 DEF Conversion
<1> HIDE DEF s, x
<1> QED BY <1>1, <1>3, <1>4 DEF State, s, x

LEMMA PrintPadded ==
    ASSUME NEW t, NEW k, NEW arguments
    PROVE  PrintStep(State(t, k, "alt"), 120, arguments)
             = State(t \o Conversion(120, TRUE, arguments[k]), k + 1, "text")
<1> DEFINE x == Conversion(120, TRUE, arguments[k])
           s == State(t, k, "alt")
<1>1. s.text = t /\ s.next = k /\ s.mode = "alt"
  BY DEF State
<1>2. 120 # PERCENT /\ 120 # SHARP /\ 120 \in {99, 100, 115, 117, 120}
  BY DEF SHARP, PERCENT
<1>3. PrintStep(s, 120, arguments)
        = [text |-> s.text \o Conversion(120, s.mode = "alt", arguments[s.next]),
           next |-> s.next + 1, mode |-> "text"]
  <2> HIDE DEF s
  <2> QED BY <1>1, <1>2 DEF PrintStep
<1>4. Conversion(120, s.mode = "alt", arguments[s.next]) = x
  <2>1. (s.mode = "alt") = TRUE
    BY <1>1
  <2> HIDE DEF s
  <2> QED BY <1>1, <2>1 DEF Conversion
<1> HIDE DEF s, x
<1> QED BY <1>1, <1>3, <1>4 DEF State, s, x

\* What is printed by a message with one number.
LEMMA OneNumber ==
    ASSUME NEW c \in Plain, NEW arguments
    PROVE  printf(Format(<<c>>), arguments) = <<61>> \o Conversion(c, FALSE, arguments[1])
<1> DEFINE f == Format(<<c>>)
           e == <<61>> \o Conversion(c, FALSE, arguments[1])
           s == [b \in 0 .. 3 |-> IF b = 0 THEN State(<<>>, 1, "text")
                                 ELSE IF b = 1 THEN State(<<61>>, 1, "text")
                                 ELSE IF b = 2 THEN State(<<61>>, 1, "conv")
                                 ELSE State(e, 2, "text")]
<1>1. /\ f \in Seq(Nat) /\ Len(f) = 3
      /\ f[1] = 61 /\ f[2] = PERCENT /\ f[3] = c
  BY DEF Format, PERCENT, SHARP, Plain
<1>2. /\ s[0] = State(<<>>, 1, "text")
      /\ s[1] = State(<<61>>, 1, "text")
      /\ s[2] = State(<<61>>, 1, "conv")
      /\ s[3] = State(e, 2, "text")
  <2> HIDE DEF e
  <2> QED OBVIOUS
<1> HIDE DEF s, f
<1>3. s[0] = PrintStart
  BY <1>2 DEF PrintStart, State
<1>4. s[1] = PrintStep(s[0], f[1], arguments)
  <2>1. PrintStep(State(<<>>, 1, "text"), 61, arguments)
          = State(<<61>>, 1, "text")
    BY FirstChar, Zenon
  <2> QED BY <1>1, <1>2, <2>1, Zenon
<1>5. s[2] = PrintStep(s[1], f[2], arguments)
  <2>1. PrintStep(State(<<61>>, 1, "text"), PERCENT, arguments)
          = State(<<61>>, 1, "conv")
    BY PrintPercent, Zenon
  <2> QED BY <1>1, <1>2, <2>1, Zenon
<1>6. s[3] = PrintStep(s[2], f[3], arguments)
  <2>1. 2 = 1 + 1
    OBVIOUS
  <2>2. PrintStep(State(<<61>>, 1, "conv"), c, arguments)
          = State(<<61>> \o Conversion(c, FALSE, arguments[1]), 1 + 1, "text")
    BY PrintConversion, Zenon
  <2> QED BY <1>1, <1>2, <2>1, <2>2, Zenon
<1>7. Goes(s, f, arguments)
  <2>0. ASSUME NEW b \in 1 .. 3 PROVE s[b] = PrintStep(s[b - 1], f[b], arguments)
    <3>1. CASE b = 1
      <4>1. b - 1 = 0
        BY <3>1
      <4> QED BY <1>4, <3>1, <4>1, Zenon
    <3>2. CASE b = 2
      <4>1. b - 1 = 1
        BY <3>2
      <4> QED BY <1>5, <3>2, <4>1, Zenon
    <3>3. CASE b = 3
      <4>1. b - 1 = 2
        BY <3>3
      <4> QED BY <1>6, <3>3, <4>1, Zenon
    <3> QED BY <3>1, <3>2, <3>3
  <2> QED BY <1>1, <1>3, <2>0 DEF Goes
<1>8. printf(f, arguments) = s[3].text
  <2>1. printf(f, arguments) = s[Len(f)].text
    BY <1>7, PrintfIs, Zenon
  <2> QED BY <1>1, <2>1, Zenon
<1>9. State(e, 2, "text").text = e
  BY DEF State
<1> QED BY <1>2, <1>8, <1>9, Zenon DEF f, e

\* What is printed by a message with one padded number.
LEMMA OnePadded ==
    ASSUME NEW arguments
    PROVE  printf(PaddedFormat, arguments) = <<61>> \o Conversion(120, TRUE, arguments[1])
<1> DEFINE f == PaddedFormat
           e == <<61>> \o Conversion(120, TRUE, arguments[1])
           s == [b \in 0 .. 4 |-> IF b = 0 THEN State(<<>>, 1, "text")
                                 ELSE IF b = 1 THEN State(<<61>>, 1, "text")
                                 ELSE IF b = 2 THEN State(<<61>>, 1, "conv")
                                 ELSE IF b = 3 THEN State(<<61>>, 1, "alt")
                                 ELSE State(e, 2, "text")]
<1>1. /\ f \in Seq(Nat) /\ Len(f) = 4
      /\ f[1] = 61 /\ f[2] = PERCENT /\ f[3] = SHARP /\ f[4] = 120
  BY DEF PaddedFormat, Format, PERCENT, SHARP
<1>2. /\ s[0] = State(<<>>, 1, "text")
      /\ s[1] = State(<<61>>, 1, "text")
      /\ s[2] = State(<<61>>, 1, "conv")
      /\ s[3] = State(<<61>>, 1, "alt")
      /\ s[4] = State(e, 2, "text")
  <2> HIDE DEF e
  <2> QED OBVIOUS
<1> HIDE DEF s, f
<1>3. s[0] = PrintStart
  BY <1>2 DEF PrintStart, State
<1>4. s[1] = PrintStep(s[0], f[1], arguments)
  <2>1. PrintStep(State(<<>>, 1, "text"), 61, arguments)
          = State(<<61>>, 1, "text")
    BY FirstChar, Zenon
  <2> QED BY <1>1, <1>2, <2>1, Zenon
<1>5. s[2] = PrintStep(s[1], f[2], arguments)
  <2>1. PrintStep(State(<<61>>, 1, "text"), PERCENT, arguments)
          = State(<<61>>, 1, "conv")
    BY PrintPercent, Zenon
  <2> QED BY <1>1, <1>2, <2>1, Zenon
<1>6. s[3] = PrintStep(s[2], f[3], arguments)
  <2>1. PrintStep(State(<<61>>, 1, "conv"), SHARP, arguments)
          = State(<<61>>, 1, "alt")
    BY PrintSharp, Zenon
  <2> QED BY <1>1, <1>2, <2>1, Zenon
<1>7. s[4] = PrintStep(s[3], f[4], arguments)
  <2>1. 2 = 1 + 1
    OBVIOUS
  <2>2. PrintStep(State(<<61>>, 1, "alt"), 120, arguments)
          = State(<<61>> \o Conversion(120, TRUE, arguments[1]), 1 + 1, "text")
    BY PrintPadded, Zenon
  <2> QED BY <1>1, <1>2, <2>1, <2>2, Zenon
<1>8. Goes(s, f, arguments)
  <2>0. ASSUME NEW b \in 1 .. 4 PROVE s[b] = PrintStep(s[b - 1], f[b], arguments)
    <3>1. CASE b = 1
      <4>1. b - 1 = 0
        BY <3>1
      <4> QED BY <1>4, <3>1, <4>1, Zenon
    <3>2. CASE b = 2
      <4>1. b - 1 = 1
        BY <3>2
      <4> QED BY <1>5, <3>2, <4>1, Zenon
    <3>3. CASE b = 3
      <4>1. b - 1 = 2
        BY <3>3
      <4> QED BY <1>6, <3>3, <4>1, Zenon
    <3>4. CASE b = 4
      <4>1. b - 1 = 3
        BY <3>4
      <4> QED BY <1>7, <3>4, <4>1, Zenon
    <3> QED BY <3>1, <3>2, <3>3, <3>4
  <2> QED BY <1>1, <1>3, <2>0 DEF Goes
<1>9. printf(f, arguments) = s[4].text
  <2>1. printf(f, arguments) = s[Len(f)].text
    BY <1>8, PrintfIs, Zenon
  <2> QED BY <1>1, <2>1, Zenon
<1>10. State(e, 2, "text").text = e
  BY DEF State
<1> QED BY <1>2, <1>9, <1>10, Zenon DEF f, e

\* What is printed by a message with an address.
LEMMA OneAddress ==
    ASSUME NEW arguments
    PROVE  printf(AddressFormat, arguments)
             = (<<61>> \o Conversion(120, TRUE, arguments[1]))
                 \o Conversion(120, TRUE, arguments[2])
<1> DEFINE f == AddressFormat
           d == <<61>> \o Conversion(120, TRUE, arguments[1])
           e == d \o Conversion(120, TRUE, arguments[2])
           s == [b \in 0 .. 7 |-> IF b = 0 THEN State(<<>>, 1, "text")
                                 ELSE IF b = 1 THEN State(<<61>>, 1, "text")
                                 ELSE IF b = 2 THEN State(<<61>>, 1, "conv")
                                 ELSE IF b = 3 THEN State(<<61>>, 1, "alt")
                                 ELSE IF b = 4 THEN State(d, 2, "text")
                                 ELSE IF b = 5 THEN State(d, 2, "conv")
                                 ELSE IF b = 6 THEN State(d, 2, "alt")
                                 ELSE State(e, 3, "text")]
<1>1. /\ f \in Seq(Nat) /\ Len(f) = 7
      /\ f[1] = 61 /\ f[2] = PERCENT /\ f[3] = SHARP /\ f[4] = 120
      /\ f[5] = PERCENT /\ f[6] = SHARP /\ f[7] = 120
  BY DEF AddressFormat, Format, PERCENT, SHARP
<1>2. /\ s[0] = State(<<>>, 1, "text")
      /\ s[1] = State(<<61>>, 1, "text")
      /\ s[2] = State(<<61>>, 1, "conv")
      /\ s[3] = State(<<61>>, 1, "alt")
      /\ s[4] = State(d, 2, "text")
      /\ s[5] = State(d, 2, "conv")
      /\ s[6] = State(d, 2, "alt")
      /\ s[7] = State(e, 3, "text")
  <2> HIDE DEF e, d
  <2> QED OBVIOUS
<1> HIDE DEF s, f
<1>3. s[0] = PrintStart
  BY <1>2 DEF PrintStart, State
<1>4. s[1] = PrintStep(s[0], f[1], arguments)
  <2>1. PrintStep(State(<<>>, 1, "text"), 61, arguments)
          = State(<<61>>, 1, "text")
    BY FirstChar, Zenon
  <2> QED BY <1>1, <1>2, <2>1, Zenon
<1>5. s[2] = PrintStep(s[1], f[2], arguments)
  <2>1. PrintStep(State(<<61>>, 1, "text"), PERCENT, arguments)
          = State(<<61>>, 1, "conv")
    BY PrintPercent, Zenon
  <2> QED BY <1>1, <1>2, <2>1, Zenon
<1>6. s[3] = PrintStep(s[2], f[3], arguments)
  <2>1. PrintStep(State(<<61>>, 1, "conv"), SHARP, arguments)
          = State(<<61>>, 1, "alt")
    BY PrintSharp, Zenon
  <2> QED BY <1>1, <1>2, <2>1, Zenon
<1>7. s[4] = PrintStep(s[3], f[4], arguments)
  <2>1. 2 = 1 + 1
    OBVIOUS
  <2>2. PrintStep(State(<<61>>, 1, "alt"), 120, arguments)
          = State(<<61>> \o Conversion(120, TRUE, arguments[1]), 1 + 1, "text")
    BY PrintPadded, Zenon
  <2> QED BY <1>1, <1>2, <2>1, <2>2, Zenon
<1>8. s[5] = PrintStep(s[4], f[5], arguments)
  <2>1. PrintStep(State(d, 2, "text"), PERCENT, arguments)
          = State(d, 2, "conv")
    BY PrintPercent, Zenon
  <2> QED BY <1>1, <1>2, <2>1, Zenon
<1>9. s[6] = PrintStep(s[5], f[6], arguments)
  <2>1. PrintStep(State(d, 2, "conv"), SHARP, arguments)
          = State(d, 2, "alt")
    BY PrintSharp, Zenon
  <2> QED BY <1>1, <1>2, <2>1, Zenon
<1>10. s[7] = PrintStep(s[6], f[7], arguments)
  <2>1. 3 = 2 + 1
    OBVIOUS
  <2>2. PrintStep(State(d, 2, "alt"), 120, arguments)
          = State(d \o Conversion(120, TRUE, arguments[2]), 2 + 1, "text")
    BY PrintPadded, Zenon
  <2> QED BY <1>1, <1>2, <2>1, <2>2, Zenon
<1>11. Goes(s, f, arguments)
  <2>0. ASSUME NEW b \in 1 .. 7 PROVE s[b] = PrintStep(s[b - 1], f[b], arguments)
    <3>1. CASE b = 1
      <4>1. b - 1 = 0
        BY <3>1
      <4> QED BY <1>4, <3>1, <4>1, Zenon
    <3>2. CASE b = 2
      <4>1. b - 1 = 1
        BY <3>2
      <4> QED BY <1>5, <3>2, <4>1, Zenon
    <3>3. CASE b = 3
      <4>1. b - 1 = 2
        BY <3>3
      <4> QED BY <1>6, <3>3, <4>1, Zenon
    <3>4. CASE b = 4
      <4>1. b - 1 = 3
        BY <3>4
      <4> QED BY <1>7, <3>4, <4>1, Zenon
    <3>5. CASE b = 5
      <4>1. b - 1 = 4
        BY <3>5
      <4> QED BY <1>8, <3>5, <4>1, Zenon
    <3>6. CASE b = 6
      <4>1. b - 1 = 5
        BY <3>6
      <4> QED BY <1>9, <3>6, <4>1, Zenon
    <3>7. CASE b = 7
      <4>1. b - 1 = 6
        BY <3>7
      <4> QED BY <1>10, <3>7, <4>1, Zenon
    <3> QED BY <3>1, <3>2, <3>3, <3>4, <3>5, <3>6, <3>7
  <2> QED BY <1>1, <1>3, <2>0 DEF Goes
<1>12. printf(f, arguments) = s[7].text
  <2>1. printf(f, arguments) = s[Len(f)].text
    BY <1>11, PrintfIs, Zenon
  <2> QED BY <1>1, <2>1, Zenon
<1>13. State(e, 3, "text").text = e
  BY DEF State
<1> QED BY <1>2, <1>12, <1>13, Zenon DEF f, d, e

\* Which conversion prints what.
LEMMA Conversions ==
    ASSUME NEW n
    PROVE  /\ Conversion(120, FALSE, n) = itoa(n, 16)
           /\ Conversion(120, TRUE, n) = Padded(itoa(n, 16))
           /\ Conversion(117, FALSE, n) = itoa(n, 10)
           /\ Conversion(100, FALSE, n) = Signed(n)
<1>1. Conversion(120, FALSE, n) = itoa(n, 16)
  BY DEF Conversion
<1>2. Conversion(120, TRUE, n) = Padded(itoa(n, 16))
  BY DEF Conversion
<1>3. Conversion(117, FALSE, n) = itoa(n, 10)
  BY DEF Conversion
<1>4. Conversion(100, FALSE, n) = Signed(n)
  BY DEF Conversion
<1> QED BY <1>1, <1>2, <1>3, <1>4

\* What is left of a text without its first character.
LEMMA TailOfText ==
    ASSUME NEW c \in Nat, NEW t \in Seq(Nat)
    PROVE  Tail(<<c>> \o t) = t /\ <<c>> \o t \in Seq(Nat)
           /\ Len(<<c>> \o t) = Len(t) + 1 /\ (<<c>> \o t)[1] = c
<1> DEFINE s == <<c>>
           x == s \o t
           y == Tail(x)
           n == Len(t)
<1>1. s \in Seq(Nat) /\ Len(s) = 1 /\ s[1] = c /\ n \in Nat
  OBVIOUS
<1> HIDE DEF s
<1>2. /\ x \in Seq(Nat) /\ Len(x) = 1 + n
      /\ \A i \in 1 .. 1 + n : x[i] = IF i <= 1 THEN s[i] ELSE t[i - 1]
  <2>1. /\ x \in Seq(Nat) /\ Len(x) = Len(s) + Len(t)
        /\ \A i \in 1 .. Len(s) + Len(t) : x[i] = IF i <= Len(s) THEN s[i] ELSE t[i - Len(s)]
    BY <1>1, ConcatProperties
  <2> HIDE DEF x, n
  <2> QED BY <1>1, <2>1 DEF n
<1> HIDE DEF x, n
<1>3. x # <<>>
  <2>1. Len(x) # 0
    BY <1>1, <1>2
  <2> QED BY <2>1
<1>4. /\ y \in Seq(Nat) /\ Len(y) = Len(x) - 1
      /\ \A i \in 1 .. Len(y) : y[i] = x[i + 1]
  BY <1>2, <1>3, HeadTailProperties
<1> HIDE DEF y
<1>5. Len(y) = n /\ \A i \in 1 .. n : y[i] = t[i]
  <2>1. Len(y) = n
    BY <1>1, <1>2, <1>4
  <2>2. ASSUME NEW i \in 1 .. n PROVE y[i] = t[i]
    <3>1. i + 1 \in 1 .. 1 + n /\ ~(i + 1 <= 1) /\ (i + 1) - 1 = i
      BY <1>1
    <3> QED BY <1>2, <1>4, <2>1, <3>1
  <2> QED BY <2>1, <2>2
<1>6. y = t
  BY <1>4, <1>5, SeqEqual DEF n
<1>7. x[1] = c
  <2>1. 1 \in 1 .. 1 + n
    BY <1>1
  <2> QED BY <1>1, <1>2, <2>1
<1>8. Len(x) = n + 1
  BY <1>1, <1>2
<1> QED BY <1>2, <1>6, <1>7, <1>8 DEF x, y, s, n

LEMMA FormatsDiffer ==
    /\ HexFormat \notin {UnsignedFormat, SignedFormat, PaddedFormat, AddressFormat}
    /\ UnsignedFormat \notin {SignedFormat, PaddedFormat, AddressFormat}
    /\ SignedFormat \notin {PaddedFormat, AddressFormat}
    /\ PaddedFormat # AddressFormat
<1>1. HexFormat[3] = 120 /\ Len(HexFormat) = 3
  BY DEF HexFormat, Format
<1>2. UnsignedFormat[3] = 117 /\ Len(UnsignedFormat) = 3
  BY DEF UnsignedFormat, Format
<1>3. SignedFormat[3] = 100 /\ Len(SignedFormat) = 3
  BY DEF SignedFormat, Format
<1>4. Len(PaddedFormat) = 4
  BY DEF PaddedFormat, Format
<1>5. Len(AddressFormat) = 7
  BY DEF AddressFormat, Format
<1> QED BY <1>1, <1>2, <1>3, <1>4, <1>5

\* Numerals as texts.
LEMMA ItoaText ==
    ASSUME NEW n \in Nat, NEW r \in {10, 16}
    PROVE  itoa(n, r) \in Seq(Nat) /\ IsNumeral(itoa(n, r), n, r)
<1>1. itoa(n, r) \in Seq(Codes) /\ IsNumeral(itoa(n, r), n, r)
  BY ItoaRight
<1> DEFINE s == itoa(n, r)
<1>2. s \in Seq(Codes)
  BY <1>1
<1> HIDE DEF s
<1>3. s \in Seq(Nat)
  BY <1>2, CodesAre, SeqMonotonic
<1> QED BY <1>1, <1>3 DEF s

LEMMA MessageHex ==
    ASSUME NEW arguments, arguments[1] \in Nat
    PROVE  IsNumeral(Tail(printf(HexFormat, arguments)), arguments[1], 16)
<1> DEFINE n == arguments[1]
<1>1. 120 \in Plain /\ HexFormat = Format(<<120>>) /\ 61 \in Nat
  BY DEF Plain, HexFormat
<1>2. printf(HexFormat, arguments) = <<61>> \o Conversion(120, FALSE, n)
  BY <1>1, OneNumber, Zenon
<1>3. Conversion(120, FALSE, n) = itoa(n, 16)
  BY Conversions, Zenon
<1>4. itoa(n, 16) \in Seq(Nat) /\ IsNumeral(itoa(n, 16), n, 16)
  BY ItoaText
<1> HIDE DEF n
<1>5. Tail(<<61>> \o itoa(n, 16)) = itoa(n, 16)
  BY <1>1, <1>4, TailOfText, Zenon
<1> QED BY <1>2, <1>3, <1>4, <1>5, Zenon DEF n

LEMMA MessageUnsigned ==
    ASSUME NEW arguments, arguments[1] \in Nat
    PROVE  IsNumeral(Tail(printf(UnsignedFormat, arguments)), arguments[1], 10)
<1> DEFINE n == arguments[1]
<1>1. 117 \in Plain /\ UnsignedFormat = Format(<<117>>) /\ 61 \in Nat
  BY DEF Plain, UnsignedFormat
<1>2. printf(UnsignedFormat, arguments) = <<61>> \o Conversion(117, FALSE, n)
  BY <1>1, OneNumber, Zenon
<1>3. Conversion(117, FALSE, n) = itoa(n, 10)
  BY Conversions, Zenon
<1>4. itoa(n, 10) \in Seq(Nat) /\ IsNumeral(itoa(n, 10), n, 10)
  BY ItoaText
<1> HIDE DEF n
<1>5. Tail(<<61>> \o itoa(n, 10)) = itoa(n, 10)
  BY <1>1, <1>4, TailOfText, Zenon
<1> QED BY <1>2, <1>3, <1>4, <1>5, Zenon DEF n

LEMMA MessageSigned ==
    ASSUME NEW arguments, arguments[1] \in 0 .. UINT - 1
    PROVE  LET text == Tail(printf(SignedFormat, arguments)) IN
           IF arguments[1] < UINT \div 2 THEN IsNumeral(text, arguments[1], 10)
           ELSE text[1] = 45 /\ IsNumeral(Tail(text), UINT - arguments[1], 10)
<1> DEFINE n == arguments[1]
           h == UINT \div 2
           i == itoa(n, 10)
           j == itoa(UINT - n, 10)
           text == Tail(printf(SignedFormat, arguments))
<1>0. UINT \in Nat /\ n \in Nat /\ UINT - n \in Nat /\ h \in Int
  BY LibraryAssumption
<1>1. 100 \in Plain /\ SignedFormat = Format(<<100>>) /\ 61 \in Nat /\ 45 \in Nat
  BY DEF Plain, SignedFormat
<1>2. printf(SignedFormat, arguments) = <<61>> \o Conversion(100, FALSE, n)
  BY <1>1, OneNumber, Zenon
<1>3. Conversion(100, FALSE, n) = Signed(n)
  BY Conversions, Zenon
<1>4. Signed(n) = IF n >= h THEN <<45>> \o j ELSE i
  BY DEF Signed
<1>5. i \in Seq(Nat) /\ IsNumeral(i, n, 10)
  BY <1>0, ItoaText
<1>6. j \in Seq(Nat) /\ IsNumeral(j, UINT - n, 10)
  BY <1>0, ItoaText
<1> HIDE DEF n, h, i, j
<1>7. CASE n < h
  <2>1. Signed(n) = i
    BY <1>0, <1>4, <1>7
  <2>2. Tail(<<61>> \o i) = i
    BY <1>1, <1>5, TailOfText, Zenon
  <2>3. text = i
    BY <1>2, <1>3, <2>1, <2>2, Zenon
  <2> HIDE DEF text
  <2>4. IsNumeral(text, n, 10)
    BY <1>5, <2>3, Zenon
  <2> QED BY <1>7, <2>4 DEF n, h, text
<1>8. CASE ~(n < h)
  <2> DEFINE t == <<45>> \o j
  <2>1. Signed(n) = t
    BY <1>0, <1>4, <1>8
  <2>2. t \in Seq(Nat) /\ t[1] = 45 /\ Tail(t) = j
    BY <1>1, <1>6, TailOfText, Zenon
  <2> HIDE DEF t
  <2>3. Tail(<<61>> \o t) = t
    BY <1>1, <2>2, TailOfText, Zenon
  <2>4. text = t
    BY <1>2, <1>3, <2>1, <2>3, Zenon
  <2> HIDE DEF text
  <2>5. text[1] = 45 /\ IsNumeral(Tail(text), UINT - n, 10)
    BY <1>6, <2>2, <2>4, Zenon
  <2> QED BY <1>8, <2>5 DEF n, h, text
<1> QED BY <1>7, <1>8

LEMMA MessagePadded ==
    ASSUME NEW arguments, arguments[1] \in 0 .. UINT - 1
    PROVE  LET text == Tail(printf(PaddedFormat, arguments)) IN
           Len(text) = HEX /\ Value(text, 16) = arguments[1]
<1> DEFINE n == arguments[1]
           s == Padded(itoa(n, 16))
           text == Tail(printf(PaddedFormat, arguments))
<1>1. printf(PaddedFormat, arguments) = <<61>> \o Conversion(120, TRUE, n)
  BY OnePadded, Zenon
<1>2. Conversion(120, TRUE, n) = s
  BY Conversions, Zenon
<1>3. s \in Seq(Nat) /\ Len(s) = HEX /\ Value(s, 16) = n
  BY PaddedRight
<1>4. 61 \in Nat
  OBVIOUS
<1> HIDE DEF s, n
<1>5. Tail(<<61>> \o s) = s
  BY <1>3, <1>4, TailOfText, Zenon
<1>6. text = s
  BY <1>1, <1>2, <1>5, Zenon
<1> HIDE DEF text
<1> QED BY <1>3, <1>6, Zenon DEF n, text

LEMMA Joined ==
    ASSUME NEW s \in Seq(Nat), NEW a \in Seq(Nat), NEW b \in Seq(Nat)
    PROVE  (s \o a) \o b = s \o (a \o b)
<1> DEFINE m == Len(s)
           n == Len(a)
           k == Len(b)
           x == (s \o a) \o b
           y == s \o (a \o b)
           sa == s \o a
           ab == a \o b
<1>0. m \in Nat /\ n \in Nat /\ k \in Nat
  OBVIOUS
<1>1. /\ sa \in Seq(Nat) /\ Len(sa) = m + n
      /\ \A i \in 1 .. m + n : sa[i] = IF i <= m THEN s[i] ELSE a[i - m]
  <2>1. s \in Seq(Nat) /\ a \in Seq(Nat)
    OBVIOUS
  <2> QED BY <2>1, ConcatProperties
<1>2. /\ ab \in Seq(Nat) /\ Len(ab) = n + k
      /\ \A i \in 1 .. n + k : ab[i] = IF i <= n THEN a[i] ELSE b[i - n]
  <2>1. a \in Seq(Nat) /\ b \in Seq(Nat)
    OBVIOUS
  <2> QED BY <2>1, ConcatProperties
<1> HIDE DEF sa, ab, m, n, k
<1>3. /\ sa \o b \in Seq(Nat) /\ Len(sa \o b) = Len(sa) + k
      /\ \A i \in 1 .. Len(sa) + k :
           (sa \o b)[i] = IF i <= Len(sa) THEN sa[i] ELSE b[i - Len(sa)]
  <2>1. sa \in Seq(Nat) /\ b \in Seq(Nat)
    BY <1>1
  <2> QED BY <2>1, ConcatProperties DEF k
<1>4. /\ s \o ab \in Seq(Nat) /\ Len(s \o ab) = m + Len(ab)
      /\ \A i \in 1 .. m + Len(ab) : (s \o ab)[i] = IF i <= m THEN s[i] ELSE ab[i - m]
  <2>1. s \in Seq(Nat) /\ ab \in Seq(Nat)
    BY <1>2
  <2> QED BY <2>1, ConcatProperties DEF m
<1>5. x = sa \o b /\ y = s \o ab
  BY DEF sa, ab
<1> HIDE DEF x, y
<1>6. /\ x \in Seq(Nat) /\ Len(x) = m + n + k
      /\ \A i \in 1 .. m + n + k : x[i] = IF i <= m + n THEN sa[i] ELSE b[i - (m + n)]
  BY <1>0, <1>1, <1>3, <1>5
<1>7. /\ y \in Seq(Nat) /\ Len(y) = m + n + k
      /\ \A i \in 1 .. m + n + k : y[i] = IF i <= m THEN s[i] ELSE ab[i - m]
  <2>1. m + (n + k) = m + n + k
    BY <1>0
  <2> QED BY <1>2, <1>4, <1>5, <2>1
<1>8. ASSUME NEW i \in 1 .. m + n + k PROVE x[i] = y[i]
  <2>1. CASE i <= m
    <3>1. i \in 1 .. m + n /\ i <= m + n
      BY <1>0, <2>1
    <3> QED BY <1>1, <1>6, <1>7, <2>1, <3>1
  <2>2. CASE ~(i <= m) /\ i <= m + n
    <3>1. i \in 1 .. m + n /\ i - m \in 1 .. n + k /\ i - m <= n
      BY <1>0, <2>2
    <3> QED BY <1>1, <1>2, <1>6, <1>7, <2>2, <3>1
  <2>3. CASE ~(i <= m + n)
    <3>1. ~(i <= m) /\ i - m \in 1 .. n + k /\ ~(i - m <= n) /\ (i - m) - n = i - (m + n)
      BY <1>0, <2>3
    <3> QED BY <1>2, <1>6, <1>7, <2>3, <3>1
  <2> QED BY <2>1, <2>2, <2>3
<1>9. x = y
  BY <1>6, <1>7, <1>8, SeqEqual
<1> QED BY <1>9 DEF x, y

LEMMA MessageAddress ==
    ASSUME NEW arguments, arguments[1] \in 0 .. UINT - 1, arguments[2] \in 0 .. UINT - 1
    PROVE  LET text == Tail(printf(AddressFormat, arguments)) IN
           Len(text) = 2 * HEX /\ Value(text, 16) = arguments[1] * UINT + arguments[2]
<1> DEFINE n == arguments[1]
           m == arguments[2]
           a == Padded(itoa(n, 16))
           b == Padded(itoa(m, 16))
           s == <<61>>
           text == Tail(printf(AddressFormat, arguments))
<1>1. printf(AddressFormat, arguments)
        = (s \o Conversion(120, TRUE, n)) \o Conversion(120, TRUE, m)
  BY OneAddress, Zenon
<1>2. Conversion(120, TRUE, n) = a /\ Conversion(120, TRUE, m) = b
  BY Conversions, Zenon
<1>3. a \in Seq(Nat) /\ b \in Seq(Nat)
  BY PaddedRight
<1>4. a \o b \in Seq(Nat) /\ Len(a \o b) = 2 * HEX /\ Value(a \o b, 16) = n * UINT + m
  BY AddressRight
<1>5. s \in Seq(Nat) /\ 61 \in Nat
  OBVIOUS
<1> HIDE DEF a, b, n, m
<1>6. Tail(s \o (a \o b)) = a \o b
  BY <1>4, <1>5, TailOfText, Zenon
<1> HIDE DEF s
<1>7. (s \o a) \o b = s \o (a \o b)
  BY <1>3, <1>5, Joined, Zenon
<1>8. text = a \o b
  BY <1>1, <1>2, <1>6, <1>7, Zenon
<1> HIDE DEF text
<1>9. Len(text) = 2 * HEX /\ Value(text, 16) = n * UINT + m
  BY <1>4, <1>8, Zenon
<1> QED BY <1>9 DEF n, m, text

\* A message is printed as PrintsRight says.
LEMMA BootPrintRight ==
    ASSUME NEW m \in Messages, BootPrint(m)
    PROVE  PrintsRight'
<1> DEFINE text == Tail(printf(m.format, m.args))
           n == m.args[1]
           Right == CASE m.format = HexFormat -> IsNumeral(text, n, 16)
                      [] m.format = UnsignedFormat -> IsNumeral(text, n, 10)
                      [] m.format = SignedFormat ->
                           IF n < UINT \div 2 THEN IsNumeral(text, n, 10)
                           ELSE text[1] = 45 /\ IsNumeral(Tail(text), UINT - n, 10)
                      [] m.format = PaddedFormat -> Len(text) = HEX /\ Value(text, 16) = n
                      [] m.format = AddressFormat ->
                           /\ Len(text) = 2 * HEX
                           /\ Value(text, 16) = n * UINT + m.args[2]
<1>0. /\ m.format \in {HexFormat, UnsignedFormat, SignedFormat, PaddedFormat, AddressFormat}
      /\ m.args \in Seq(0 .. UINT - 1)
      /\ Len(m.args) = IF m.format = AddressFormat THEN 2 ELSE 1
  BY MessagesAssumption
<1>1. n \in 0 .. UINT - 1 /\ n \in Nat
  <2>1. 1 \in 1 .. Len(m.args)
    BY <1>0
  <2>2. n \in 0 .. UINT - 1
    BY <1>0, <2>1, ElementOfSeq
  <2> QED BY <2>2
<1>2. printed' = [format |-> m.format, args |-> m.args, text |-> printf(m.format, m.args)]
  BY DEF BootPrint
<1>3. /\ printed'.format = m.format /\ printed'.args = m.args
      /\ printed'.text = printf(m.format, m.args)
  BY <1>2
<1>4. ASSUME Right PROVE PrintsRight'
  BY <1>3, <1>4, Zenon DEF PrintsRight
<1>5. CASE m.format = HexFormat
  <2>1. IsNumeral(text, n, 16)
    BY <1>1, <1>5, MessageHex
  <2> HIDE DEF text, n
  <2>2. Right
    BY <1>5, <2>1, FormatsDiffer
  <2> QED BY <1>4, <2>2
<1>6. CASE m.format = UnsignedFormat
  <2>1. IsNumeral(text, n, 10)
    BY <1>1, <1>6, MessageUnsigned
  <2> HIDE DEF text, n
  <2>2. Right
    BY <1>6, <2>1, FormatsDiffer
  <2> QED BY <1>4, <2>2
<1>7. CASE m.format = SignedFormat
  <2>1. IF n < UINT \div 2 THEN IsNumeral(text, n, 10)
        ELSE text[1] = 45 /\ IsNumeral(Tail(text), UINT - n, 10)
    BY <1>1, <1>7, MessageSigned
  <2> HIDE DEF text, n
  <2>2. Right
    BY <1>7, <2>1, FormatsDiffer
  <2> QED BY <1>4, <2>2
<1>8. CASE m.format = PaddedFormat
  <2>1. Len(text) = HEX /\ Value(text, 16) = n
    BY <1>1, <1>8, MessagePadded
  <2> HIDE DEF text, n
  <2>2. Right
    BY <1>8, <2>1, FormatsDiffer
  <2> QED BY <1>4, <2>2
<1>9. CASE m.format = AddressFormat
  <2>1. m.args[2] \in 0 .. UINT - 1
    <3>1. 2 \in 1 .. Len(m.args)
      BY <1>0, <1>9
    <3> QED BY <1>0, <3>1, ElementOfSeq
  <2>2. Len(text) = 2 * HEX /\ Value(text, 16) = n * UINT + m.args[2]
    BY <1>1, <1>9, <2>1, MessageAddress
  <2> HIDE DEF text, n
  <2>3. Right
    BY <1>9, <2>2, FormatsDiffer
  <2> QED BY <1>4, <2>3
<1> QED BY <1>0, <1>5, <1>6, <1>7, <1>8, <1>9

LEMMA PrintsKept ==
    ASSUME ProgramsInv, [ProgramsNext]_all
    PROVE  PrintsRight'
<1>0. PhaseInv /\ FilesInv /\ PrintsRight /\ DOMAIN local = Fields
  BY LocalFields DEF ProgramsInv, PhaseInv
<1>1. ASSUME at' # "printed" PROVE PrintsRight'
  BY <1>1 DEF PrintsRight
<1>2. CASE UNCHANGED all
  BY <1>0, <1>2 DEF PrintsRight, all
<1>3. CASE BootStep
  <2>1. CASE \E m \in Messages : BootPrint(m)
    BY <2>1, BootPrintRight
  <2>2. CASE BootPrinted
    BY <1>1, <2>2 DEF BootPrinted
  <2>3. CASE \E s \in Sessions : BootShell(s)
    BY <1>1, <2>3 DEF BootShell
  <2> QED BY <1>3, <2>1, <2>2, <2>3 DEF BootStep
<1>4. CASE ShellStep
  <2>1. CASE ShellExit
    BY <1>1, <2>1 DEF ShellExit
  <2>2. CASE ShellReport
    BY <1>1, <2>2 DEF ShellReport
  <2>3. ASSUME NEW line, ShellRead(line) PROVE PrintsRight'
    <3>1. at' \in {"exit", "prompt", "execute"}
      BY <2>3 DEF ShellRead
    <3> QED BY <1>1, <3>1
  <2> QED BY <1>4, <2>1, <2>2, <2>3 DEF ShellStep
<1>5. CASE ExecuteParse \/ ExecuteOverrun \/ ExecuteFail \/ ExecuteClear
  <2>1. at' \in {"parsed", "lost", "returned"}
    BY <1>5 DEF ExecuteParse, ExecuteOverrun, ExecuteFail, ExecuteClear
  <2> QED BY <1>1, <2>1
<1>6. CASE ExecuteRun
  <2>1. session \in Sessions
    BY <1>6 DEF ExecuteRun, ProgramsInv, ShellInv
  <2>2. at' \in FirstLabels
    BY <1>0, <1>6, <2>1, ExecuteRunMoves
  <2> QED BY <1>1, <2>2 DEF FirstLabels
<1>7. CASE CatStep
  BY <1>0, <1>1, <1>7, CatMoves DEF Moves, CatLabels
<1>8. CASE LsStep
  BY <1>0, <1>1, <1>8, LsMoves DEF Moves, LsLabels
<1>9. CASE GrepStep
  BY <1>0, <1>1, <1>9, GrepMoves DEF Moves, GrepLabels, FileLabels
<1>10. CASE CountStep
  BY <1>0, <1>1, <1>10, CountMoves DEF Moves, CountLabels
<1>11. CASE SyserrStep
  BY <1>0, <1>1, <1>11, SyserrMoves DEF Moves, SyserrLabels
<1>l. CASE GrepLost
  BY <1>0, <1>1, <1>l, GrepLoses
<1> QED BY <1>2, <1>3, <1>4, <1>5, <1>6, <1>7, <1>8, <1>9, <1>10, <1>11, <1>l, StepCases
        DEF KernelStep

-----------------------------------------------------------------------------
(* The invariant holds in every behaviour.                                  *)

LEMMA ProgramsInitially == ProgramsInit => ProgramsInv
<1> SUFFICES ASSUME ProgramsInit PROVE ProgramsInv
  OBVIOUS
<1>0. /\ Init /\ at = "boot" /\ local = NoLocals /\ out = <<>> /\ args = NoArgs /\ rval = 0
      /\ line_buf = [k \in Buffer |-> NUL] /\ origin = [k \in Buffer |-> <<>>]
      /\ ARGS \in Nat /\ SHELL_BUF \in Nat /\ BUFSIZE \in Nat
  BY SizesAssumption DEF ProgramsInit, Buffer
<1>1. FilesInv
  BY <1>0, FilesInitially
<1>2. PhaseInv
  BY <1>0 DEF PhaseInv, NoLocals, Labels, KernelLabels, CatLabels, LsLabels, GrepLabels,
              FileLabels, CountLabels, SyserrLabels
<1>3. ShellInv
  BY <1>0, EmptyTyped DEF ShellInv, CharAt, Buffer, NUL
<1>4. ArgsInv
  BY <1>0 DEF ArgsInv, NoArgs, Running
<1>5. CatInv /\ LsInv
  BY <1>0 DEF CatInv, LsInv, LsRight, Ended
<1>6. GrepInv
  BY <1>0 DEF GrepInv, NoLocals, FileLabels
<1>7. SyserrInv
  BY <1>0 DEF SyserrInv, NoLocals
<1>8. rval \in -1 .. 2 * Len(Tests)
  BY <1>0, TestsAre
<1>9. CountInv /\ PrintsRight
  BY <1>0 DEF CountInv, NumeralsRight, PrintsRight
<1> QED BY <1>1, <1>2, <1>3, <1>4, <1>5, <1>6, <1>7, <1>8, <1>9 DEF ProgramsInv

LEMMA ProgramsStep == ProgramsInv /\ [ProgramsNext]_all => ProgramsInv'
<1> SUFFICES ASSUME ProgramsInv, [ProgramsNext]_all PROVE ProgramsInv'
  OBVIOUS
<1>1. FilesInv' /\ PhaseInv' /\ ShellInv' /\ ArgsInv'
  BY FilesKept, PhaseStep, ShellKept, ArgsKept
<1>2. CatInv' /\ LsInv' /\ GrepInv' /\ SyserrInv' /\ CountInv' /\ PrintsRight'
  BY CatKept, LsKept, GrepKept, SyserrKept, CountKept, PrintsKept
<1>3. (rval \in -1 .. 2 * Len(Tests))'
  <2>1. Len(Tests) = 8 /\ Len(Tests)' = 8
    BY TestsAre DEF Tests
  <2> QED BY <2>1, RvalKept
<1> QED BY <1>1, <1>2, <1>3 DEF ProgramsInv

THEOREM ProgramsAlways == ProgramsSpec => []ProgramsInv
BY ProgramsInitially, ProgramsStep, PTL DEF ProgramsSpec


-----------------------------------------------------------------------------
(* What a program finds as its arguments.                                   *)

\* getargs gives what execute found in the shell's buffer.
LEMMA ArgsString ==
    ASSUME ShellInv, args = ArgsFound
    PROVE  StringAt(args, 0) = [i \in 1 .. ArgsLength |-> line_buf[first + i - 1]]
<1>0. ARGS \in Nat /\ ArgsLength \in 0 .. ARGS /\ first \in Nat /\ Buffer \subseteq Nat
  BY WordAndArgs, SizesAssumption DEF Buffer
<1>1. \A k \in Buffer : first <= k /\ k < first + ArgsLength => line_buf[k] # NUL
  BY WordAndArgs
<1>2. first + ArgsLength \in Buffer
  BY WordAndArgs
<1> DEFINE AL == ArgsLength
           T == {k \in DOMAIN args : k >= 0 /\ args[k] = NUL}
<1>3. DOMAIN args = 0 .. ARGS
  BY DEF ArgsFound
<1>4. \A k \in 0 .. ARGS : args[k] = IF k < AL THEN line_buf[first + k] ELSE NUL
  BY DEF ArgsFound
<1> HIDE DEF ArgsLength, first
<1>5. AL \in T
  BY <1>0, <1>3, <1>4
<1>6. ASSUME NEW k \in 0 .. ARGS, k < AL PROVE args[k] # NUL
  <2>1. first + k \in Buffer /\ first <= first + k /\ first + k < first + AL
    BY <1>0, <1>2, <1>6, SizesAssumption DEF Buffer
  <2>2. line_buf[first + k] # NUL
    BY <1>1, <2>1
  <2> QED BY <1>4, <1>6, <2>2
<1>7. Min(T) \in T /\ Min(T) <= AL
  <2>1. T \subseteq Nat /\ T # {}
    BY <1>0, <1>3, <1>5
  <2> HIDE DEF T
  <2> QED BY <1>5, <2>1, LeastIs
<1>8. Min(T) = AL
  <2> DEFINE e == Min(T)
  <2>1. e \in 0 .. ARGS /\ args[e] = NUL /\ e <= AL
    BY <1>3, <1>7
  <2> HIDE DEF e
  <2>2. e = AL
    BY <1>0, <1>6, <2>1
  <2> QED BY <2>2 DEF e
<1>9. strlen(args, 0) = AL
  BY <1>0, <1>8 DEF strlen
<1>10. StringAt(args, 0) = [i \in 1 .. AL |-> args[0 + i - 1]]
  BY <1>9 DEF StringAt, Bytes
<1>11. ASSUME NEW i \in 1 .. AL PROVE args[0 + i - 1] = line_buf[first + i - 1]
  <2>1. 0 + i - 1 \in 0 .. ARGS /\ 0 + i - 1 < AL /\ first + (0 + i - 1) = first + i - 1
    BY <1>0
  <2> QED BY <1>4, <2>1
<1> QED BY <1>10, <1>11

\* The rest of a line that stands in the buffer from first on.
LEMMA RestOfLine ==
    ASSUME ShellInv, args = ArgsFound, NEW l, Typed(l), first <= Len(l),
           \A j \in first .. Len(l) : j \in Buffer /\ line_buf[j] = CharAt(l, j)
    PROVE  StringAt(args, 0) = SubSeq(l, first + 1, Len(l))
<1> DEFINE AL == ArgsLength
           n == Len(l)
<1>0. AL \in Nat /\ first \in Nat /\ Buffer \subseteq Nat /\ l \in Seq(Nat) /\ n \in Nat
  BY WordAndArgs DEF Buffer, Typed
<1>1. /\ line_buf[first + AL] = NUL
      /\ \A k \in Buffer : first <= k /\ k < first + AL => line_buf[k] # NUL
  BY WordAndArgs
<1>2. \A j \in first .. n - 1 : j \in Buffer /\ line_buf[j] = l[j + 1] /\ line_buf[j] # NUL
  <2> SUFFICES ASSUME NEW j \in first .. n - 1
               PROVE  j \in Buffer /\ line_buf[j] = l[j + 1] /\ line_buf[j] # NUL
    OBVIOUS
  <2>1. j \in first .. n /\ j < n /\ j + 1 \in 1 .. n
    BY <1>0
  <2>2. l[j + 1] # NUL
    BY <2>1 DEF Typed
  <2> QED BY <2>1, <2>2 DEF CharAt
<1>3. n \in Buffer /\ line_buf[n] = NUL
  <2>1. n \in first .. n
    BY <1>0
  <2> QED BY <2>1, <1>0 DEF CharAt
<1>4. StringAt(args, 0) = [i \in 1 .. AL |-> line_buf[first + i - 1]]
  BY ArgsString
<1> HIDE DEF AL, first, n
<1>5. first <= n
  BY DEF n
<1>6. first + AL = n
  <2>1. ~(n < first + AL)
    BY <1>0, <1>1, <1>3, <1>5
  <2>2. ~(first + AL < n)
    BY <1>0, <1>1, <1>2
  <2> QED BY <1>0, <2>1, <2>2
<1> DEFINE x == [i \in 1 .. AL |-> line_buf[first + i - 1]]
           y == SubSeq(l, first + 1, n)
<1>7. /\ y \in Seq(Nat) /\ Len(y) = n - first
      /\ \A i \in 1 .. n - first : y[i] = l[first + i]
  BY <1>0, <1>5, Piece DEF n
<1>8. \A i \in 1 .. AL : line_buf[first + i - 1] = y[i]
  <2> SUFFICES ASSUME NEW i \in 1 .. AL PROVE line_buf[first + i - 1] = y[i]
    OBVIOUS
  <2>1. first + i - 1 \in first .. n - 1 /\ (first + i - 1) + 1 = first + i
        /\ i \in 1 .. n - first
    BY <1>0, <1>6
  <2> HIDE DEF y
  <2> QED BY <1>2, <1>7, <2>1
<1>9. AL = n - first
  BY <1>0, <1>6
<1> HIDE DEF y
<1>10. y = [i \in 1 .. AL |-> y[i]]
  <2>1. DOMAIN y = 1 .. AL /\ y \in [1 .. AL -> Nat]
    BY <1>7, <1>9
  <2> QED BY <2>1
<1>11. x = y
  BY <1>8, <1>10
<1> QED BY <1>4, <1>11 DEF y, n


LEMMA ArgsFoundTyped ==
    ASSUME ShellInv, args = ArgsFound
    PROVE  LET got == StringAt(args, 0)
               old == origin[Len(Line) + 1] IN
           IF HasArgs THEN got = SubSeq(Line, cmd_leng + 2, Len(Line))
           ELSE got \in {<<>>, SubSeq(old, Len(Line) + 2, Len(old))}
<1> DEFINE c == cmd_leng
           n == Len(Line)
<1>0. /\ SHELL_BUF \in Nat /\ LINE \in Nat /\ LINE + 1 < SHELL_BUF
      /\ Buffer = 0 .. SHELL_BUF - 1 /\ 0 \in Buffer
  BY SizesAssumption DEF Buffer
<1>1. Typed(Line) /\ n \in Nat /\ n <= LINE
  BY <1>0 DEF ShellInv, Line, Typed
<1>2. \A k \in 0 .. n : k \in Buffer /\ line_buf[k] = CharAt(Line, k)
  <2> SUFFICES ASSUME NEW k \in 0 .. n PROVE k \in Buffer /\ line_buf[k] = CharAt(Line, k)
    OBVIOUS
  <2>1. k \in Buffer
    BY <1>0, <1>1
  <2>2. origin[k] = Line
    BY <1>0, <1>1 DEF ShellInv, Line
  <2> QED BY <2>1, <2>2 DEF ShellInv
<1>3. /\ c \in Nat /\ line_buf[c] \in {NUL, SP} /\ first = c + 1 /\ first \in Buffer
      /\ \A k \in Buffer : k < c => line_buf[k] \notin {NUL, SP}
  BY <1>0, WordAndArgs
<1> HIDE DEF c, first, n
<1>4. c <= n
  <2>1. n \in Buffer /\ line_buf[n] = NUL
    BY <1>1, <1>2 DEF CharAt, n
  <2> QED BY <1>1, <1>3, <2>1
<1>5. \A k \in 0 .. n - 1 : line_buf[k] = Line[k + 1] /\ Line[k + 1] # NUL
  <2> SUFFICES ASSUME NEW k \in 0 .. n - 1 PROVE line_buf[k] = Line[k + 1] /\ Line[k + 1] # NUL
    OBVIOUS
  <2>1. k \in 0 .. n /\ k < n /\ k + 1 \in 1 .. n
    BY <1>1
  <2>2. line_buf[k] = Line[k + 1]
    BY <1>2, <2>1 DEF CharAt, n
  <2> QED BY <1>1, <2>1, <2>2 DEF Typed, n
<1>6. CASE HasArgs
  <2>1. PICK k \in 1 .. n : Line[k] = SP
    BY <1>6 DEF HasArgs, n
  <2>2. k - 1 \in 0 .. n - 1 /\ (k - 1) + 1 = k /\ k - 1 \in 0 .. n
    BY <1>1, <2>1
  <2>3. line_buf[k - 1] = SP /\ k - 1 \in Buffer
    BY <1>2, <1>5, <2>1, <2>2
  <2>4. first <= n
    BY <1>1, <1>3, <2>2, <2>3
  <2>5. \A j \in first .. n : j \in Buffer /\ line_buf[j] = CharAt(Line, j)
    BY <1>1, <1>2, <1>3
  <2>6. StringAt(args, 0) = SubSeq(Line, first + 1, n)
    BY <1>1, <2>4, <2>5, RestOfLine DEF n
  <2>7. first + 1 = c + 2
    BY <1>3
  <2> QED BY <1>6, <2>6, <2>7 DEF c, n
<1>7. CASE ~HasArgs
  <2>1. c = n
    <3> SUFFICES ASSUME c # n PROVE FALSE
      OBVIOUS
    <3>1. c \in 0 .. n - 1 /\ c + 1 \in 1 .. n
      BY <1>1, <1>3, <1>4
    <3>2. Line[c + 1] = SP
      BY <1>3, <1>5, <3>1
    <3> QED BY <1>7, <3>1, <3>2 DEF HasArgs, n
  <2> DEFINE old == origin[n + 1]
  <2>2. first = n + 1 /\ old = origin[first]
    BY <1>3, <2>1
  <2>3. /\ Typed(old) /\ line_buf[first] = CharAt(old, first)
        /\ \A j \in first .. Len(old) : origin[j] = old
    BY <1>3, <2>2 DEF ShellInv
  <2> HIDE DEF old
  <2>4. Len(old) \in Nat /\ Len(old) <= LINE /\ first \in Nat
    BY <1>0, <1>3, <2>3 DEF Typed
  <2>5. CASE first <= Len(old)
    <3>1. \A j \in first .. Len(old) : j \in Buffer /\ line_buf[j] = CharAt(old, j)
      <4> SUFFICES ASSUME NEW j \in first .. Len(old)
                   PROVE  j \in Buffer /\ line_buf[j] = CharAt(old, j)
        OBVIOUS
      <4>1. j \in Buffer /\ origin[j] = old
        BY <1>0, <2>3, <2>4
      <4> QED BY <4>1 DEF ShellInv
    <3>2. StringAt(args, 0) = SubSeq(old, first + 1, Len(old))
      BY <2>3, <2>5, <3>1, RestOfLine
    <3>3. first + 1 = n + 2
      BY <1>1, <2>2
    <3> QED BY <1>7, <3>2, <3>3 DEF old, n
  <2>6. CASE ~(first <= Len(old))
    <3>1. line_buf[first] = NUL
      BY <2>3, <2>4, <2>6 DEF CharAt
    <3>2. /\ ArgsLength \in Nat
          /\ \A k \in Buffer : first <= k /\ k < first + ArgsLength => line_buf[k] # NUL
      BY WordAndArgs
    <3>3. StringAt(args, 0) = [i \in 1 .. ArgsLength |-> line_buf[first + i - 1]]
      BY ArgsString
    <3> HIDE DEF ArgsLength
    <3>4. ArgsLength = 0
      BY <1>3, <2>4, <3>1, <3>2
    <3>5. StringAt(args, 0) = <<>>
      <4> DEFINE x == [i \in 1 .. ArgsLength |-> line_buf[first + i - 1]]
      <4>1. x \in Seq({x[i] : i \in 1 .. 0}) /\ Len(x) = 0
        BY <3>4
      <4> HIDE DEF x
      <4>2. x = <<>>
        BY <4>1
      <4> QED BY <3>3, <4>2 DEF x
    <3> QED BY <1>7, <3>5
  <2> QED BY <2>5, <2>6
<1> QED BY <1>6, <1>7


-----------------------------------------------------------------------------
(* The theorems.                                                            *)

\* Memories, positions and results stay in their ranges: execute's locals
\* (syscall.c) are overrun by nothing but a word that is too long, and grep's
\* (ece391grep.c) by a typed line only after a name with its type behind it.
THEOREM ProgramsTypeCorrect == ProgramsSpec => []ProgramsTypeOK
<1>1. ProgramsInv => ProgramsTypeOK
  <2> SUFFICES ASSUME ProgramsInv PROVE ProgramsTypeOK
    OBVIOUS
  <2>1. TypeOK
    BY DEF ProgramsInv, FilesInv, TypeOK, Goods, Descs
  <2>2. at \in Labels /\ DOMAIN line_buf = 0 .. SHELL_BUF - 1
    BY DEF ProgramsInv, PhaseInv, ShellInv, Buffer
  <2>3. /\ DOMAIN args = 0 .. ARGS /\ args[ARGS] = NUL
        /\ at = "lost" => Len(local.word) > NAME + SPARE \/ (local.dir = 0 /\ LongNames)
    BY DEF ProgramsInv, ArgsInv, PhaseInv
  <2>4. local.last \in 0 .. BUFSIZE /\ local.line_start \in 0 .. BUFSIZE + 1
    BY DEF ProgramsInv, GrepInv
  <2>5. rval \in -1 .. 2 * Len(Tests)
    BY DEF ProgramsInv
  <2> QED BY <2>1, <2>2, <2>3, <2>4, <2>5 DEF ProgramsTypeOK, LongNames
<1> QED BY <1>1, ProgramsAlways, PTL

\* getargs gives a program what follows the first blank of its line, whatever
\* was typed before; without a blank it gives nothing or the end of one earlier
\* line, where execute starts to look behind the terminator of this one.
THEOREM ArgumentsTyped == ProgramsSpec => []ArgsTyped
<1>1. ProgramsInv => ArgsTyped
  <2> SUFFICES ASSUME ProgramsInv, Running PROVE ArgsTyped
    BY DEF ArgsTyped
  <2>1. ShellInv /\ args = ArgsFound
    BY DEF ProgramsInv, ArgsInv
  <2> QED BY <2>1, ArgsFoundTyped DEF ArgsTyped
<1> QED BY <1>1, ProgramsAlways, PTL

\* cat and ls (ece391cat.c, ece391ls.c) lose and double nothing: with any size of
\* cat's buffer, any file and any directory, what is on the screen is a prefix of
\* what there is to read, and all of it when the program ends well.  A name that
\* fills its field is read with the type behind it (strlen in filesystem_read);
\* only right after one, when its own buffer has been overrun, may ls fail.
THEOREM OutputCorrect == ProgramsSpec => []OutputRight
<1>1. ProgramsInv => OutputRight
  <2> SUFFICES ASSUME ProgramsInv PROVE OutputRight
    OBVIOUS
  <2>1. FilesInv /\ CatInv /\ LsInv
    BY DEF ProgramsInv
  <2>2. at = "cat_read" => IsPrefix(out, FileText(DentryOf(local.name)))
    BY <2>1, CatPrefix
  <2>3. CatRight
    BY <2>1, <2>2 DEF CatRight, CatInv
  <2> QED BY <2>1, <2>3 DEF OutputRight, LsInv
<1> QED BY <1>1, ProgramsAlways, PTL

\* Every test of ece391syserr.c passes, with any number of descriptors, each
\* after any others: the calls that must fail do, and open fails exactly when the
\* last descriptor has been given.
THEOREM SyserrCorrect == ProgramsSpec => []SyserrPasses
<1>1. ProgramsInv => SyserrPasses
  <2> SUFFICES ASSUME ProgramsInv, local.prog = "syserr", NEW k \in DOMAIN out
               PROVE  out[k] = 0
    BY DEF SyserrPasses
  <2>1. out \in Seq({0})
    BY DEF ProgramsInv, SyserrInv
  <2> QED BY <2>1, ElementOfSeq
<1> QED BY <1>1, ProgramsAlways, PTL

\* counter (ece391counter.c) writes the numerals of 1, 2, 3 and so on, and the
\* messages of entry (kernel.c) read as their arguments: itoa and printf (lib.c and
\* ece391support.c) are right for every number, whatever the width of a word.
THEOREM NumbersCorrect == ProgramsSpec => []NumbersRight
<1>1. ProgramsInv => NumbersRight
  BY DEF ProgramsInv, CountInv, NumbersRight
<1> QED BY <1>1, ProgramsAlways, PTL

\* grep (ece391grep.c) gives back the descriptor of each file before it opens the
\* next, so there is one for every file of a directory of any length, and for every
\* file named on the keyboard when it has lost the directory.
THEOREM GrepOpensEvery == ProgramsSpec => []GrepHasRoom
<1>1. ProgramsInv => GrepHasRoom
  <2> SUFFICES ASSUME ProgramsInv, at = "grep_open" PROVE Free(Child) # {}
    BY DEF GrepHasRoom
  <2>1. FilesInv /\ \E e \in InUse : InUse = {e}
    BY DEF ProgramsInv, GrepInv
  <2>e. PICK e \in InUse : InUse = {e}
    BY <2>1
  <2>2. 2 \in Fds /\ 3 \in Fds
    BY SizesAssumption, FilesAssumption DEF Fds
  <2>3. PICK fd \in {2, 3} : fd # e
    OBVIOUS
  <2>4. fd \in Fds \ {0, 1} /\ fd \notin InUse
    BY <2>2, <2>3, <2>e
  <2>5. Table(Child)[fd] \in Descs
    BY <2>1, <2>4, DescriptorGood, SizesAssumption
  <2> QED BY <2>4, <2>5 DEF InUse, Free, Descs
<1> QED BY <1>1, ProgramsAlways, PTL

-----------------------------------------------------------------------------
(* The report that is to be made of a text.                                 *)

Hits(s, T) == {k \in Starts(T) : Occurs(s, LineAt(T, k))}
ReportLine(name, line) == name \o <<58>> \o line \o <<NL>>

\* f gives the report from each place of the text on.
Reports(f, name, s, T) ==
    /\ f \in [1 .. Len(T) + 1 -> Seq(Nat)]
    /\ f[Len(T) + 1] = <<>>
    /\ \A k \in 1 .. Len(T) :
         f[k] = IF k \in Hits(s, T) THEN ReportLine(name, LineAt(T, k)) \o f[k + 1] ELSE f[k + 1]

\* A line of a text.
LEMMA LineTyped ==
    ASSUME NEW T \in Seq(Nat), NEW k \in 1 .. Len(T)
    PROVE  LineAt(T, k) \in Seq(Nat)
<1> DEFINE ends == {j \in k .. Len(T) : T[j] = NL}
           e == IF ends = {} THEN Len(T) ELSE Min(ends) - 1
<1>1. e \in Int /\ e <= Len(T)
  <2>1. ends \subseteq Nat /\ Len(T) \in Nat /\ \A j \in ends : j <= Len(T)
    OBVIOUS
  <2>2. CASE ends = {}
    BY <2>1, <2>2
  <2>3. CASE ends # {}
    <3>1. Min(ends) \in ends
      <4> HIDE DEF ends
      <4> QED BY <2>1, <2>3, LeastIs
    <3>2. Min(ends) \in Nat /\ Min(ends) <= Len(T)
      <4> HIDE DEF ends
      <4> QED BY <2>1, <3>1
    <3> QED BY <2>1, <2>3, <3>2
  <2> QED BY <2>2, <2>3
<1> HIDE DEF e
<1>2. \A j \in k .. e : T[j] \in Nat
  BY <1>1, ElementOfSeq
<1>3. SubSeq(T, k, e) \in Seq(Nat)
  BY <1>1, <1>2, SubSeqProperties
<1> QED BY <1>3 DEF LineAt, e

\* A reported line.
LEMMA ReportLineTyped ==
    ASSUME NEW name \in Seq(Nat), NEW line \in Seq(Nat)
    PROVE  ReportLine(name, line) \in Seq(Nat)
<1>1. <<58>> \in Seq(Nat) /\ <<NL>> \in Seq(Nat)
  BY DEF NL
<1>2. name \o <<58>> \in Seq(Nat)
  BY <1>1
<1> DEFINE a == name \o <<58>>
<1>3. a \o line \in Seq(Nat)
  <2> HIDE DEF a
  <2>1. a \in Seq(Nat)
    BY <1>2 DEF a
  <2> QED BY <2>1
<1> DEFINE b == a \o line
<1>4. b \o <<NL>> \in Seq(Nat)
  <2> HIDE DEF b
  <2>1. b \in Seq(Nat)
    BY <1>3 DEF b
  <2> QED BY <1>1, <2>1
<1> QED BY <1>4 DEF ReportLine

\* There is a report from each place of a text on: the lines from the last one back.
LEMMA ReportsExist ==
    ASSUME NEW name \in Seq(Nat), NEW s, NEW T \in Seq(Nat)
    PROVE  \E f : Reports(f, name, s, T)
<1> DEFINE n == Len(T)
           H == Hits(s, T)
           L(k) == ReportLine(name, LineAt(T, k))
           step == [x \in Seq(Nat) \X (1 .. n) |->
                      IF n + 1 - x[2] \in H THEN L(n + 1 - x[2]) \o x[1] ELSE x[1]]
<1>0. n \in Nat
  OBVIOUS
<1>1. \A k \in 1 .. n : L(k) \in Seq(Nat)
  BY LineTyped, ReportLineTyped
<1> HIDE DEF n, H, L
<1>2. ASSUME NEW v \in Seq(Nat), NEW i \in 1 .. n
      PROVE  /\ step[<<v, i>>] = IF n + 1 - i \in H THEN L(n + 1 - i) \o v ELSE v
             /\ step[<<v, i>>] \in Seq(Nat)
  <2>1. step[<<v, i>>] = IF n + 1 - i \in H THEN L(n + 1 - i) \o v ELSE v
    OBVIOUS
  <2>2. L(n + 1 - i) \in Seq(Nat)
    <3>1. n + 1 - i \in 1 .. n
      BY <1>0
    <3> QED BY <1>1, <3>1
  <2>3. L(n + 1 - i) \o v \in Seq(Nat)
    <3> DEFINE l == L(n + 1 - i)
    <3> HIDE DEF l
    <3>1. l \in Seq(Nat)
      BY <2>2 DEF l
    <3>2. l \o v \in Seq(Nat)
      BY <3>1
    <3> QED BY <3>2 DEF l
  <2> HIDE DEF step
  <2> QED BY <2>1, <2>3
<1>3. <<>> \in Seq(Nat)
  OBVIOUS
<1> HIDE DEF step
<1>4. \A v \in Seq(Nat), i \in 1 .. n : step[<<v, i>>] \in Seq(Nat)
  BY <1>2
<1>5. PICK g : Iterates(g, n, Seq(Nat), <<>>, step)
  BY <1>0, <1>3, <1>4, SegmentRecursion
<1>6. /\ g \in [0 .. n -> Seq(Nat)] /\ g[0] = <<>>
      /\ \A i \in 1 .. n : g[i] = step[<<g[i - 1], i>>]
  BY <1>5 DEF Iterates
<1> DEFINE f == [k \in 1 .. n + 1 |-> g[n + 1 - k]]
<1>7. f \in [1 .. n + 1 -> Seq(Nat)] /\ f[n + 1] = <<>>
  <2>1. \A k \in 1 .. n + 1 : n + 1 - k \in 0 .. n
    BY <1>0
  <2>2. n + 1 \in 1 .. n + 1 /\ n + 1 - (n + 1) = 0
    BY <1>0
  <2> QED BY <1>6, <2>1, <2>2
<1>8. ASSUME NEW k \in 1 .. n PROVE f[k] = IF k \in H THEN L(k) \o f[k + 1] ELSE f[k + 1]
  <2>1. PICK i : i = n + 1 - k
    OBVIOUS
  <2>2. i \in 1 .. n /\ n + 1 - i = k /\ i - 1 \in 0 .. n /\ n + 1 - (k + 1) = i - 1
        /\ k \in 1 .. n + 1 /\ k + 1 \in 1 .. n + 1
    BY <1>0, <2>1
  <2>3. f[k] = g[i] /\ f[k + 1] = g[i - 1]
    BY <2>1, <2>2
  <2>4. g[i] = step[<<g[i - 1], i>>] /\ g[i - 1] \in Seq(Nat)
    BY <1>6, <2>2
  <2> HIDE DEF f
  <2> QED BY <1>2, <2>2, <2>3, <2>4
<1> HIDE DEF f
<1>9. Reports(f, name, s, T)
  BY <1>7, <1>8 DEF Reports, n, H, L
<1> QED BY <1>9

\* Report is that function, as no other meets the same recursion.
LEMMA ReportIs ==
    ASSUME NEW name \in Seq(Nat), NEW s, NEW T \in Seq(Nat)
    PROVE  Reports(Report(name, s, T), name, s, T)
<1> DEFINE n == Len(T)
           hits == {k \in Starts(T) : Occurs(s, LineAt(T, k))}
           Body(h) ==
             [k \in 1 .. n + 1 |->
                CASE k > n -> <<>>
                  [] k \in hits -> name \o <<58>> \o LineAt(T, k) \o <<NL>> \o h[k + 1]
                  [] OTHER -> h[k + 1]]
           h == CHOOSE g : g = Body(g)
<1>0. n \in Nat /\ hits = Hits(s, T) /\ \A k \in hits : k \in 1 .. n
  BY DEF Hits, Starts
<1>1. Report(name, s, T) = h
  BY DEF Report
<1>2. PICK f : Reports(f, name, s, T)
  BY ReportsExist
<1>3. /\ f \in [1 .. n + 1 -> Seq(Nat)] /\ f[n + 1] = <<>>
      /\ \A k \in 1 .. n : f[k] = IF k \in hits
             THEN (name \o <<58>> \o LineAt(T, k) \o <<NL>>) \o f[k + 1] ELSE f[k + 1]
  BY <1>0, <1>2 DEF Reports, ReportLine
<1> HIDE DEF n, hits
<1>4. ASSUME NEW g
      PROVE  /\ Body(g)[n + 1] = <<>>
             /\ \A k \in 1 .. n : Body(g)[k] = IF k \in hits
                  THEN (name \o <<58>> \o LineAt(T, k) \o <<NL>>) \o g[k + 1] ELSE g[k + 1]
  <2>1. Body(g)[n + 1] = <<>>
    <3>1. n + 1 \in 1 .. n + 1 /\ n + 1 > n
      BY <1>0
    <3>2. n + 1 \notin hits
      BY <1>0
    <3> QED BY <3>1, <3>2
  <2>2. ASSUME NEW k \in 1 .. n
        PROVE  Body(g)[k] = IF k \in hits
                 THEN (name \o <<58>> \o LineAt(T, k) \o <<NL>>) \o g[k + 1] ELSE g[k + 1]
    <3>1. k \in 1 .. n + 1 /\ ~(k > n)
      BY <1>0
    <3> DEFINE l == name \o <<58>> \o LineAt(T, k) \o <<NL>>
    <3> HIDE DEF l
    <3>2. Body(g)[k] = CASE k > n -> <<>> [] k \in hits -> l \o g[k + 1] [] OTHER -> g[k + 1]
      BY <3>1 DEF l
    <3> HIDE DEF Body
    <3>3. Body(g)[k] = IF k \in hits THEN l \o g[k + 1] ELSE g[k + 1]
      BY <3>1, <3>2
    <3> QED BY <3>3 DEF l
  <2> QED BY <2>1, <2>2
<1>5. \A g : Body(g) = [k \in 1 .. n + 1 |-> Body(g)[k]]
  OBVIOUS
<1> HIDE DEF Body
<1>6. f = Body(f)
  <2>1. \A k \in 1 .. n + 1 : f[k] = Body(f)[k]
    <3> SUFFICES ASSUME NEW k \in 1 .. n + 1 PROVE f[k] = Body(f)[k]
      OBVIOUS
    <3>1. CASE k = n + 1
      BY <1>3, <1>4, <3>1
    <3>2. CASE k # n + 1
      <4>1. k \in 1 .. n
        BY <1>0, <3>2
      <4> QED BY <1>3, <1>4, <4>1
    <3> QED BY <3>1, <3>2
  <2>2. f = [k \in 1 .. n + 1 |-> f[k]]
    BY <1>3
  <2> QED BY <1>5, <2>1, <2>2
<1>7. h = Body(h)
  BY <1>6
<1> HIDE DEF h
<1> DEFINE S == {i \in 0 .. n : h[n + 1 - i] = f[n + 1 - i]}
<1>8. 0 \in S
  <2>1. n + 1 - 0 = n + 1 /\ 0 \in 0 .. n
    BY <1>0
  <2>2. h[n + 1] = <<>>
    BY <1>4, <1>7
  <2> QED BY <1>3, <2>1, <2>2
<1>9. ASSUME NEW i \in 0 .. n - 1, i \in S PROVE i + 1 \in S
  <2>1. PICK k : k = n + 1 - (i + 1)
    OBVIOUS
  <2>2. k \in 1 .. n /\ n + 1 - i = k + 1 /\ i + 1 \in 0 .. n
    BY <1>0, <2>1
  <2>3. h[k + 1] = f[k + 1]
    BY <1>9, <2>2
  <2>4. h[k] = f[k]
    BY <1>3, <1>4, <1>7, <2>2, <2>3, Zenon
  <2> QED BY <2>1, <2>2, <2>4
<1> HIDE DEF S
<1>10. 0 .. n \subseteq S
  BY <1>0, <1>8, <1>9, SegmentInduction
<1>11. \A k \in 1 .. n + 1 : h[k] = f[k]
  <2> SUFFICES ASSUME NEW k \in 1 .. n + 1 PROVE h[k] = f[k]
    OBVIOUS
  <2>1. n + 1 - k \in 0 .. n /\ n + 1 - (n + 1 - k) = k
    BY <1>0
  <2>2. n + 1 - k \in S
    BY <1>10, <2>1
  <2> QED BY <2>1, <2>2 DEF S
<1>12. h = f
  <2>1. Body(h) = [k \in 1 .. n + 1 |-> Body(h)[k]]
    BY <1>5
  <2>2. h = [k \in 1 .. n + 1 |-> h[k]]
    BY <1>7, <2>1
  <2>3. f = [k \in 1 .. n + 1 |-> f[k]]
    BY <1>3
  <2> QED BY <1>11, <2>2, <2>3
<1> QED BY <1>1, <1>2, <1>12

\* Where the line at p ends: at a line break, or behind the text.
EndsAt(T, p, e) ==
    /\ e \in p .. Len(T) + 1
    /\ e = Len(T) + 1 \/ T[e] = NL
    /\ \A j \in p .. e - 1 : T[j] # NL

\* LineAt, when the end of the line is known.
LEMMA LineTo ==
    ASSUME NEW T \in Seq(Nat), NEW p \in 1 .. Len(T), NEW e, EndsAt(T, p, e)
    PROVE  LineAt(T, p) = SubSeq(T, p, e - 1)
<1>1. CASE e = Len(T) + 1
  <2> DEFINE ends == {j \in p .. Len(T) : T[j] = NL}
  <2>1. ends = {}
    BY <1>1 DEF EndsAt
  <2>2. e - 1 = Len(T)
    BY <1>1
  <2> QED BY <2>1, <2>2 DEF LineAt
<1>2. CASE e # Len(T) + 1
  <2>1. e \in p .. Len(T) /\ T[e] = NL /\ \A j \in p .. e - 1 : T[j] # NL
    BY <1>2 DEF EndsAt
  <2> QED BY <2>1, LineIs
<1> QED BY <1>1, <1>2

\* Where no line with the string starts, nothing is reported.
LEMMA ReportSkips ==
    ASSUME NEW f, NEW name, NEW s, NEW T \in Seq(Nat), Reports(f, name, s, T),
           NEW a \in 1 .. Len(T) + 1, NEW b \in a .. Len(T) + 1,
           \A k \in a .. b - 1 : k \notin Hits(s, T)
    PROVE  f[a] = f[b]
<1> DEFINE S == {i \in 0 .. b - a : f[a + i] = f[a]}
<1>0. Len(T) \in Nat
  OBVIOUS
<1>1. 0 \in S /\ b - a \in Nat
  BY <1>0
<1>2. ASSUME NEW i \in 0 .. b - a - 1, i \in S PROVE i + 1 \in S
  <2>1. PICK k : k = a + i
    OBVIOUS
  <2>2. k \in a .. b - 1 /\ k \in 1 .. Len(T) /\ k + 1 = a + (i + 1) /\ i + 1 \in 0 .. b - a
    BY <1>0, <2>1
  <2>3. f[k] = f[k + 1]
    BY <2>2 DEF Reports
  <2> QED BY <1>2, <2>1, <2>2, <2>3
<1> HIDE DEF S
<1>3. 0 .. b - a \subseteq S
  BY <1>1, <1>2, SegmentInduction
<1>4. b - a \in S /\ a + (b - a) = b
  BY <1>1, <1>3
<1> QED BY <1>4 DEF S

\* The report from a line on is the one of the line and the one from its end on.
\* The line from p to the place before its end e.
Span(T, p, e) == SubSeq(T, p, e - 1)

\* A report that starts with this line.
Continues(report, name, line, rest) == report = ReportLine(name, line) \o rest

\* From a line on, the report is that line if it holds the string, then the report
\* from behind it.
LEMMA ReportAtLine ==
    ASSUME NEW f, NEW name, NEW s, NEW T \in Seq(Nat), Reports(f, name, s, T),
           NEW p \in 1 .. Len(T), p \in Starts(T), NEW e, EndsAt(T, p, e),
           NEW q \in p + 1 .. Len(T) + 1, q \in {e, e + 1},
           NEW line, line = Span(T, p, e)
    PROVE  /\ Occurs(s, line) => Continues(f[p], name, line, f[q])
           /\ ~Occurs(s, line) => f[p] = f[q]
<1>0. Len(T) \in Nat /\ e \in Int /\ p \in Nat /\ q \in Nat
  BY DEF EndsAt
<1>1. LineAt(T, p) = SubSeq(T, p, e - 1)
  BY LineTo
<1>2. ASSUME NEW k \in p + 1 .. q - 1 PROVE k \notin Hits(s, T)
  <2>1. k - 1 \in p .. e - 1 /\ k # 1
    BY <1>0
  <2>2. T[k - 1] # NL
    BY <2>1 DEF EndsAt
  <2> QED BY <2>1, <2>2 DEF Hits, Starts
<1>3. f[p + 1] = f[q]
  <2>1. p + 1 \in 1 .. Len(T) + 1 /\ q \in p + 1 .. Len(T) + 1
    BY <1>0
  <2> QED BY <1>2, <2>1, ReportSkips
<1>4. f[p] = IF p \in Hits(s, T) THEN ReportLine(name, line) \o f[p + 1] ELSE f[p + 1]
  BY <1>1 DEF Reports, Span
<1>5. p \in Hits(s, T) <=> Occurs(s, line)
  BY <1>1 DEF Hits, Span
<1>6. f[p] = IF Occurs(s, line) THEN ReportLine(name, line) \o f[q] ELSE f[q]
  BY <1>3, <1>4, <1>5
<1> QED BY <1>6 DEF Continues

-----------------------------------------------------------------------------
(* A line in grep's buffer.                                                 *)

\* The buffer holds the text behind place b, from a on to a NUL at e.
Shows(D, a, e, b, T) ==
    /\ DOMAIN D = 0 .. BUFSIZE
    /\ e \in 0 .. BUFSIZE /\ a \in 0 .. e /\ D[e] = NUL
    /\ b \in Nat /\ b + e <= Len(T)
    /\ \A k \in a .. e - 1 : D[k] = T[b + k + 1]
NoNul(T) == \A k \in 1 .. Len(T) : T[k] # NUL

\* The characters of that line.
LEMMA ShownLine ==
    ASSUME NEW T \in Seq(Nat), NoNul(T), NEW D, NEW a, NEW e, NEW b, Shows(D, a, e, b, T)
    PROVE  LET line == SubSeq(T, b + a + 1, b + e) IN
           /\ line \in Seq(Nat) /\ Len(line) = e - a
           /\ \A i \in 1 .. e - a : line[i] = D[a + i - 1] /\ line[i] \in Nat \ {NUL}
<1>0. /\ a \in Nat /\ e \in Nat /\ b \in Nat /\ a <= e /\ b + e <= Len(T) /\ Len(T) \in Nat
      /\ b + a \in Nat /\ b + e \in Nat /\ b + a <= b + e /\ (b + e) - (b + a) = e - a
  BY SizesAssumption DEF Shows
<1> DEFINE line == SubSeq(T, b + a + 1, b + e)
<1>1. /\ line \in Seq(Nat) /\ Len(line) = (b + e) - (b + a)
      /\ \A i \in 1 .. (b + e) - (b + a) : line[i] = T[(b + a) + i]
  <2> DEFINE x == b + a
             y == b + e
  <2>1. x \in Nat /\ y \in Nat /\ x <= y /\ y <= Len(T)
    BY <1>0
  <2> HIDE DEF x, y
  <2>2. /\ SubSeq(T, x + 1, y) \in Seq(Nat) /\ Len(SubSeq(T, x + 1, y)) = y - x
        /\ \A i \in 1 .. y - x : SubSeq(T, x + 1, y)[i] = T[x + i]
    BY <2>1, Piece
  <2> QED BY <2>2 DEF x, y
<1> HIDE DEF line
<1>2. ASSUME NEW i \in 1 .. e - a
      PROVE  line[i] = D[a + i - 1] /\ line[i] \in Nat \ {NUL}
  <2>1. /\ i \in 1 .. (b + e) - (b + a) /\ a + i - 1 \in a .. e - 1
        /\ b + (a + i - 1) + 1 = (b + a) + i /\ (b + a) + i \in 1 .. Len(T)
    BY <1>0
  <2>2. D[a + i - 1] = T[(b + a) + i]
    BY <2>1 DEF Shows
  <2>3. T[(b + a) + i] \in Nat /\ T[(b + a) + i] # NUL
    BY <2>1, ElementOfSeq DEF NoNul
  <2> QED BY <1>1, <2>1, <2>2, <2>3
<1> QED BY <1>0, <1>1, <1>2 DEF line

\* The string in the buffer at the start of the line is that line.
LEMMA StringHere ==
    ASSUME NEW T \in Seq(Nat), NoNul(T), NEW D, NEW a, NEW e, NEW b, Shows(D, a, e, b, T)
    PROVE  StringAt(D, a) = SubSeq(T, b + a + 1, b + e)
<1> DEFINE line == SubSeq(T, b + a + 1, b + e)
           Z == {k \in DOMAIN D : k >= a /\ D[k] = NUL}
<1>0. /\ a \in Nat /\ e \in Nat /\ a <= e /\ e \in 0 .. BUFSIZE /\ BUFSIZE \in Nat
      /\ DOMAIN D = 0 .. BUFSIZE /\ D[e] = NUL
  BY SizesAssumption DEF Shows
<1>1. /\ line \in Seq(Nat) /\ Len(line) = e - a
      /\ \A i \in 1 .. e - a : line[i] = D[a + i - 1] /\ line[i] \in Nat \ {NUL}
  BY ShownLine
<1> HIDE DEF line
<1>2. e \in Z /\ Z \subseteq Nat /\ Z # {}
  BY <1>0
<1>3. ASSUME NEW k \in Z PROVE e <= k
  <2>1. k \in Nat /\ a <= k /\ D[k] = NUL
    BY <1>0
  <2>2. ASSUME k < e PROVE FALSE
    <3>1. k - a + 1 \in 1 .. e - a /\ a + (k - a + 1) - 1 = k
      BY <1>0, <2>1, <2>2
    <3>2. D[k] \in Nat \ {NUL}
      BY <1>1, <3>1
    <3> QED BY <2>1, <3>2
  <2> QED BY <1>0, <2>1, <2>2
<1> HIDE DEF Z
<1>4. Min(Z) = e
  <2>1. PICK m : m = Min(Z)
    OBVIOUS
  <2>2. m \in Z /\ m <= e
    BY <1>2, <2>1, LeastIs
  <2>3. e <= m /\ m \in Nat
    BY <1>2, <1>3, <2>2
  <2> QED BY <1>0, <2>1, <2>2, <2>3
<1>5. StringAt(D, a) = [i \in 1 .. e - a |-> D[a + i - 1]]
  BY <1>4 DEF StringAt, Bytes, strlen, Z
<1>6. line = [i \in 1 .. e - a |-> line[i]]
  <2>1. line \in [1 .. e - a -> Nat]
    BY <1>1
  <2> QED BY <2>1
<1>7. \A i \in 1 .. e - a : line[i] = D[a + i - 1]
  BY <1>1
<1> QED BY <1>5, <1>6, <1>7 DEF line

\* strncmp of a place in the line with the string that is searched.
LEMMA ComparesWith ==
    ASSUME NEW T \in Seq(Nat), NoNul(T), NEW D, NEW a, NEW e, NEW b, Shows(D, a, e, b, T),
           NEW s \in Seq(Nat), NoNul(s), NEW c \in a .. e - 1
    PROVE  strncmp(D, c, Literal(s), 0, Len(s)) = 0
             <=> \A k \in 0 .. Len(s) - 1 : c + k < e /\ D[c + k] = s[k + 1]
<1> DEFINE m == Len(s)
           L == Literal(s)
           X == Ends(D, c, L, 0, m)
<1>0. /\ a \in Nat /\ e \in Nat /\ c \in Nat /\ m \in Nat /\ a <= c /\ c < e
      /\ e \in 0 .. BUFSIZE /\ BUFSIZE \in Nat /\ DOMAIN D = 0 .. BUFSIZE /\ D[e] = NUL
  BY SizesAssumption DEF Shows
<1>1. ASSUME NEW k \in 0 .. m - 1
      PROVE  /\ L[0 + k] = s[k + 1] /\ L[0 + k] \in Nat \ {NUL} /\ 0 + k \in DOMAIN L
  <2>1. k \in 0 .. m /\ k < m /\ 0 + k = k /\ k + 1 \in 1 .. m
    BY <1>0
  <2>2. s[k + 1] \in Nat /\ s[k + 1] # NUL
    BY <2>1, ElementOfSeq DEF NoNul
  <2> QED BY <2>1, <2>2 DEF Literal
<1>2. ASSUME NEW k \in Nat, c + k < e PROVE D[c + k] \in Nat \ {NUL}
  <2>1. \A i \in 1 .. e - a : SubSeq(T, b + a + 1, b + e)[i] = D[a + i - 1]
                              /\ SubSeq(T, b + a + 1, b + e)[i] \in Nat \ {NUL}
    BY ShownLine
  <2>2. c + k - a + 1 \in 1 .. e - a /\ a + (c + k - a + 1) - 1 = c + k
    BY <1>0, <1>2
  <2>3. SubSeq(T, b + a + 1, b + e)[c + k - a + 1] = D[a + (c + k - a + 1) - 1]
        /\ SubSeq(T, b + a + 1, b + e)[c + k - a + 1] \in Nat \ {NUL}
    BY <2>1, <2>2
  <2> QED BY <2>2, <2>3
<1>3. \A k : k \in X <=> /\ k \in 0 .. m - 1 /\ c + k \in 0 .. BUFSIZE
                         /\ D[c + k] # s[k + 1] \/ D[c + k] = NUL
  <2> SUFFICES ASSUME NEW k
               PROVE  k \in X <=> /\ k \in 0 .. m - 1 /\ c + k \in 0 .. BUFSIZE
                                  /\ D[c + k] # s[k + 1] \/ D[c + k] = NUL
    OBVIOUS
  <2>1. k \in X <=> /\ k \in 0 .. m - 1 /\ c + k \in DOMAIN D /\ 0 + k \in DOMAIN L
                    /\ D[c + k] # L[0 + k] \/ D[c + k] = NUL
    BY DEF Ends
  <2> HIDE DEF X, L
  <2> QED BY <1>0, <1>1, <2>1
<1>4. strncmp(D, c, L, 0, m) = IF X = {} THEN 0 ELSE D[c + Min(X)] - L[0 + Min(X)]
  BY DEF strncmp
<1> HIDE DEF X, L, m
<1>5. e - c \in Nat /\ c + (e - c) = e /\ (e - c \in 0 .. m - 1 => e - c \in X)
  <2>1. e - c \in Nat /\ c + (e - c) = e
    BY <1>0
  <2> QED BY <1>0, <1>3, <2>1
<1>6. ASSUME X # {} PROVE D[c + Min(X)] - L[0 + Min(X)] # 0
  <2>1. PICK k : k = Min(X)
    OBVIOUS
  <2>2. X \subseteq Nat
    BY <1>0, <1>3
  <2>3. k \in X /\ \A y \in X : k <= y
    BY <1>6, <2>1, <2>2, LeastIs
  <2>4. k \in 0 .. m - 1 /\ k \in Nat /\ (D[c + k] # s[k + 1] \/ D[c + k] = NUL)
    BY <1>0, <1>3, <2>3
  <2>5. ~(e < c + k)
    <3>1. ASSUME e < c + k PROVE FALSE
      <4>1. e - c \in 0 .. m - 1 /\ e - c < k
        BY <1>0, <1>5, <2>4, <3>1
      <4> QED BY <1>5, <2>3, <2>4, <4>1
    <3> QED BY <3>1
  <2>6. L[0 + k] = s[k + 1] /\ L[0 + k] \in Nat \ {NUL}
    BY <1>1, <2>4
  <2>7. CASE c + k = e
    <3>1. D[c + k] = 0
      BY <1>0, <2>7 DEF NUL
    <3> QED BY <2>1, <2>6, <3>1 DEF NUL
  <2>8. CASE c + k < e
    <3>1. D[c + k] \in Nat \ {NUL} /\ D[c + k] # L[0 + k]
      BY <1>2, <2>4, <2>6, <2>8
    <3> QED BY <2>1, <2>6, <3>1
  <2> QED BY <1>0, <2>4, <2>5, <2>7, <2>8
<1>7. strncmp(D, c, L, 0, m) = 0 <=> X = {}
  BY <1>4, <1>6
<1>8. ASSUME X = {}, NEW k \in 0 .. m - 1 PROVE c + k < e /\ D[c + k] = s[k + 1]
  <2>1. c + k < e
    <3>1. e - c \notin 0 .. m - 1
      BY <1>5, <1>8
    <3> QED BY <1>0, <1>5, <3>1
  <2>2. c + k \in 0 .. BUFSIZE
    BY <1>0, <2>1
  <2> QED BY <1>3, <1>8, <2>1, <2>2
<1>9. ASSUME \A k \in 0 .. m - 1 : c + k < e /\ D[c + k] = s[k + 1] PROVE X = {}
  <2> SUFFICES ASSUME NEW k \in X PROVE FALSE
    OBVIOUS
  <2>1. k \in 0 .. m - 1 /\ k \in Nat /\ c + k < e /\ D[c + k] = s[k + 1] /\ D[c + k] = NUL
    BY <1>0, <1>3, <1>9
  <2> QED BY <1>2, <2>1
<1>10. X = {} <=> \A k \in 0 .. m - 1 : c + k < e /\ D[c + k] = s[k + 1]
  BY <1>8, <1>9
<1> QED BY <1>7, <1>10 DEF m, L

\* The search finds the string just where it occurs in the line.
FoundIn(D, a, e, s) ==
    \E c \in a .. e - 1 : Literal(s)[0] = D[c] /\ strncmp(D, c, Literal(s), 0, Len(s)) = 0

\* grep finds the string in the line just when it occurs there.
LEMMA FoundRight ==
    ASSUME NEW T \in Seq(Nat), NoNul(T), NEW D, NEW a, NEW e, NEW b, Shows(D, a, e, b, T),
           NEW s \in Seq(Nat), NoNul(s)
    PROVE  FoundIn(D, a, e, s) <=> Occurs(s, SubSeq(T, b + a + 1, b + e))
<1> DEFINE m == Len(s)
           line == SubSeq(T, b + a + 1, b + e)
           n == e - a
<1>0. a \in Nat /\ e \in Nat /\ a <= e /\ m \in Nat /\ n \in Nat
  BY SizesAssumption DEF Shows
<1>1. /\ line \in Seq(Nat) /\ Len(line) = n
      /\ \A i \in 1 .. n : line[i] = D[a + i - 1] /\ line[i] \in Nat \ {NUL}
  BY ShownLine
<1>2. \A c \in a .. e - 1 : strncmp(D, c, Literal(s), 0, m) = 0
                             <=> \A k \in 0 .. m - 1 : c + k < e /\ D[c + k] = s[k + 1]
  BY ComparesWith
<1>3. Literal(s)[0] = IF m = 0 THEN NUL ELSE s[1]
  BY <1>0 DEF Literal
<1> HIDE DEF line
<1>4. ASSUME NEW c \in a .. e - 1 PROVE c - a + 1 \in 1 .. n /\ D[c] \in Nat \ {NUL}
  <2>1. c - a + 1 \in 1 .. n /\ a + (c - a + 1) - 1 = c
    BY <1>0
  <2> QED BY <1>1, <2>1
<1>5. ASSUME NEW j \in 1 .. n - m + 1
      PROVE  LET u == SubSeq(line, j, j + m - 1) IN
             Len(u) = m /\ u \in Seq(Nat) /\ \A i \in 1 .. m : u[i] = D[(a + j - 1) + i - 1]
  <2> DEFINE u == SubSeq(line, (j - 1) + 1, j + m - 1)
  <2>0. j - 1 \in Nat /\ j + m - 1 \in Nat /\ j - 1 <= j + m - 1 /\ j + m - 1 <= Len(line)
        /\ (j + m - 1) - (j - 1) = m /\ (j - 1) + 1 = j
    BY <1>0, <1>1
  <2>1. /\ u \in Seq(Nat) /\ Len(u) = (j + m - 1) - (j - 1)
        /\ \A i \in 1 .. (j + m - 1) - (j - 1) : u[i] = line[(j - 1) + i]
    BY <1>1, <2>0, Piece
  <2>2. ASSUME NEW i \in 1 .. m PROVE line[(j - 1) + i] = D[(a + j - 1) + i - 1]
    <3>1. (j - 1) + i \in 1 .. n /\ a + ((j - 1) + i) - 1 = (a + j - 1) + i - 1
      BY <1>0
    <3> QED BY <1>1, <3>1
  <2> QED BY <2>0, <2>1, <2>2
<1>6. ASSUME FoundIn(D, a, e, s) PROVE Occurs(s, line)
  <2>1. PICK c \in a .. e - 1 :
          Literal(s)[0] = D[c] /\ strncmp(D, c, Literal(s), 0, m) = 0
    BY <1>6 DEF FoundIn
  <2>2. m # 0
    BY <1>3, <1>4, <2>1
  <2>3. \A k \in 0 .. m - 1 : c + k < e /\ D[c + k] = s[k + 1]
    BY <1>2, <2>1
  <2>4. PICK j : j = c - a + 1
    OBVIOUS
  <2>5. j \in 1 .. n - m + 1 /\ a + j - 1 = c
    <3>1. m - 1 \in 0 .. m - 1
      BY <1>0, <2>2
    <3>2. c + (m - 1) < e
      BY <2>3, <3>1
    <3> QED BY <1>0, <2>4, <3>2
  <2> DEFINE u == SubSeq(line, j, j + m - 1)
  <2>6. Len(u) = m /\ u \in Seq(Nat) /\ \A i \in 1 .. m : u[i] = D[c + i - 1]
    BY <1>5, <2>5
  <2> HIDE DEF u
  <2>7. ASSUME NEW i \in 1 .. m PROVE u[i] = s[i]
    <3>1. i - 1 \in 0 .. m - 1 /\ c + (i - 1) = c + i - 1 /\ (i - 1) + 1 = i
      BY <1>0
    <3> QED BY <2>3, <2>6, <3>1
  <2>8. u = s
    BY <2>6, <2>7, SeqEqual
  <2>9. s # <<>>
    BY <2>2
  <2> QED BY <1>1, <2>5, <2>8, <2>9 DEF Occurs, u
<1>7. ASSUME Occurs(s, line) PROVE FoundIn(D, a, e, s)
  <2>1. s # <<>> /\ \E j \in 1 .. n - m + 1 : SubSeq(line, j, j + m - 1) = s
    BY <1>1, <1>7 DEF Occurs
  <2>2. PICK j \in 1 .. n - m + 1 : SubSeq(line, j, j + m - 1) = s
    BY <2>1
  <2>3. m # 0
    BY <2>1, EmptySeq
  <2>4. PICK c : c = a + j - 1
    OBVIOUS
  <2>5. c \in a .. e - 1
    BY <1>0, <2>3, <2>4
  <2>6. \A i \in 1 .. m : s[i] = D[c + i - 1]
    BY <1>5, <2>2, <2>4
  <2>7. ASSUME NEW k \in 0 .. m - 1 PROVE c + k < e /\ D[c + k] = s[k + 1]
    <3>1. k + 1 \in 1 .. m /\ c + (k + 1) - 1 = c + k /\ c + k < e
      BY <1>0, <2>4, <2>5
    <3> QED BY <2>6, <3>1
  <2>8. Literal(s)[0] = D[c]
    <3>1. 1 \in 1 .. m /\ c + 1 - 1 = c
      BY <1>0, <2>3, <2>5
    <3> QED BY <1>3, <2>3, <2>6, <3>1
  <2> QED BY <1>2, <2>5, <2>7, <2>8 DEF FoundIn
<1> QED BY <1>6, <1>7 DEF line

-----------------------------------------------------------------------------
(* How far grep is in a text: the steps on its buffer.                      *)

\* A line starts here, or only its line break is left, or the text is over.
AtLine(T, p) == p \in Starts(T) \/ p > Len(T) \/ (p \in 1 .. Len(T) /\ T[p] = NL)

\* q characters have been read and the last ones are kept at the front of the
\* buffer, a line without its end; a line break stands anywhere in the buffer only
\* if nothing is left to read.  With what is reported, f gives the rest of the report.
ReadPlace(r, q, T, f, o) ==
    LET p == q - r.last + 1 IN
    /\ r.last \in 0 .. BUFSIZE - 1 /\ q \in r.last .. Len(T)
    /\ DOMAIN r.data = 0 .. BUFSIZE
    /\ \A k \in 0 .. r.last - 1 : r.data[k] = T[p + k] /\ r.data[k] # NL
    /\ \/ \A k \in 0 .. BUFSIZE : r.data[k] # NL
       \/ q = Len(T)
       \/ q = 0 /\ Len(T) <= BUFSIZE
    /\ AtLine(T, p)
    /\ o \in Seq(Nat) /\ o \o f[p] = f[1]

\* The buffer holds text from line_start on, and outside of it a line break only
\* if nothing is left to read.
LinePlace(r, q, T, f, o) ==
    LET base == q - r.last
        p == base + r.line_start + 1 IN
    /\ r.last \in 0 .. BUFSIZE /\ q \in r.last .. Len(T) /\ r.line_start \in 0 .. r.last
    /\ DOMAIN r.data = 0 .. BUFSIZE
    /\ r.last = BUFSIZE \/ q = Len(T)
    /\ \A k \in r.line_start .. r.last - 1 : r.data[k] = T[base + k + 1]
    /\ \/ q = Len(T)
       \/ \A k \in 0 .. BUFSIZE : r.data[k] = NL => k \in r.line_start .. r.last - 1
    /\ r.line_start # 0 => r.line_start < r.last
    /\ r.cnt = 0 => /\ r.line_start = 0 /\ q = Len(T)
                    /\ \A k \in 0 .. r.last - 1 : r.data[k] # NL
    /\ AtLine(T, p)
    /\ o \in Seq(Nat) /\ o \o f[p] = f[1]

\* A read puts what follows in the text behind what is kept.
Extended(r, next, q, p, T) ==
    LET text == SubSeq(T, q + 1, p) IN
    /\ next.data = Stored(r.data, r.last, text)
    /\ next.last = r.last + Len(text) /\ next.cnt = Len(text) /\ next.line_start = 0

\* A read puts the next characters of the text behind the unfinished line.
LEMMA ReadFollows ==
    ASSUME NEW T \in Seq(Nat), NEW f, NEW o, NEW r, NEW q, ReadPlace(r, q, T, f, o),
           NEW p \in q .. Len(T), p - q <= BUFSIZE - r.last,
           p - q < BUFSIZE - r.last => p = Len(T),
           NEW next, Extended(r, next, q, p, T)
    PROVE  LinePlace(next, p, T, f, o)
<1> DEFINE text == SubSeq(T, q + 1, p)
           n == p - q
           l == r.last
           D == r.data
           E == next.data
<1>0. /\ BUFSIZE \in Nat /\ l \in Nat /\ l < BUFSIZE /\ q \in Nat /\ l <= q /\ p \in Nat
      /\ q <= p /\ p <= Len(T) /\ Len(T) \in Nat /\ n \in Nat /\ l + n <= BUFSIZE
      /\ n < BUFSIZE - l => p = Len(T)
  <2>1. r.last \in 0 .. BUFSIZE - 1 /\ q \in r.last .. Len(T) /\ Len(T) \in Nat
    BY DEF ReadPlace
  <2> QED BY <2>1, SizesAssumption
<1>1. /\ text \in Seq(Nat) /\ Len(text) = n /\ \A i \in 1 .. n : text[i] = T[q + i]
  <2>1. q \in Nat /\ p \in Nat /\ q <= p /\ p <= Len(T)
    BY <1>0
  <2> QED BY <2>1, Piece
<1>2. /\ DOMAIN D = 0 .. BUFSIZE
      /\ \A k \in 0 .. l - 1 : D[k] = T[q - l + 1 + k] /\ D[k] # NL
      /\ \/ \A k \in 0 .. BUFSIZE : D[k] # NL
         \/ q = Len(T)
         \/ q = 0 /\ Len(T) <= BUFSIZE
      /\ AtLine(T, q - l + 1)
      /\ o \in Seq(Nat) /\ o \o f[q - l + 1] = f[1]
  BY DEF ReadPlace
<1>3. /\ E = Stored(D, l, text) /\ next.last = l + n /\ next.cnt = n /\ next.line_start = 0
  BY <1>1 DEF Extended
<1> HIDE DEF text, l, D
<1>4. /\ DOMAIN E = 0 .. BUFSIZE
      /\ \A k \in 0 .. BUFSIZE : E[k] = IF k \in l .. l + n - 1 THEN text[k - l + 1] ELSE D[k]
  BY <1>1, <1>2, <1>3 DEF Stored
<1> HIDE DEF E, n
<1>5. ASSUME NEW k \in 0 .. l + n - 1 PROVE E[k] = T[p - (l + n) + k + 1]
  <2>0. k \in 0 .. BUFSIZE /\ p = q + n
    BY <1>0 DEF n
  <2>1. CASE k < l
    <3>1. k \in 0 .. l - 1 /\ k \notin l .. l + n - 1 /\ q - l + 1 + k = p - (l + n) + k + 1
      BY <1>0, <2>0, <2>1
    <3> QED BY <1>2, <1>4, <2>0, <3>1
  <2>2. CASE ~(k < l)
    <3>1. k \in l .. l + n - 1 /\ k - l + 1 \in 1 .. n
          /\ q + (k - l + 1) = p - (l + n) + k + 1
      BY <1>0, <2>0, <2>2
    <3> QED BY <1>1, <1>4, <2>0, <3>1
  <2> QED BY <2>1, <2>2
<1>6. p = Len(T) \/ \A k \in 0 .. BUFSIZE : E[k] = NL => k \in 0 .. l + n - 1
  <2>1. CASE \A k \in 0 .. BUFSIZE : D[k] # NL
    <3> SUFFICES ASSUME NEW k \in 0 .. BUFSIZE, E[k] = NL PROVE k \in 0 .. l + n - 1
      OBVIOUS
    <3>1. k \in l .. l + n - 1
      BY <1>4, <2>1
    <3> QED BY <1>0, <3>1
  <2>2. CASE q = Len(T)
    BY <1>0, <2>2
  <2>3. CASE q = 0 /\ Len(T) <= BUFSIZE
    BY <1>0, <2>3 DEF n
  <2> QED BY <1>2, <2>1, <2>2, <2>3
<1>7. l + n = BUFSIZE \/ p = Len(T)
  BY <1>0
<1>8. p - (l + n) + 0 + 1 = q - l + 1 /\ l + n \in 0 .. BUFSIZE /\ p \in l + n .. Len(T)
      /\ 0 \in 0 .. l + n
  BY <1>0 DEF n
<1>9. ASSUME n = 0 PROVE p = Len(T) /\ \A k \in 0 .. l + n - 1 : E[k] # NL
  <2>1. p = Len(T)
    BY <1>0, <1>9
  <2>2. ASSUME NEW k \in 0 .. l + n - 1 PROVE E[k] # NL
    <3>1. k \in 0 .. l - 1 /\ k \notin l .. l + n - 1 /\ k \in 0 .. BUFSIZE
      BY <1>0, <1>9
    <3> QED BY <1>2, <1>4, <3>1
  <2> QED BY <2>1, <2>2
<1>10. /\ next.last \in 0 .. BUFSIZE /\ p \in next.last .. Len(T)
       /\ next.line_start \in 0 .. next.last
       /\ DOMAIN next.data = 0 .. BUFSIZE
       /\ next.last = BUFSIZE \/ p = Len(T)
       /\ \A k \in next.line_start .. next.last - 1 : next.data[k] = T[p - next.last + k + 1]
       /\ \/ p = Len(T)
          \/ \A k \in 0 .. BUFSIZE : next.data[k] = NL => k \in next.line_start .. next.last - 1
       /\ next.line_start # 0 => next.line_start < next.last
       /\ next.cnt = 0 => /\ next.line_start = 0 /\ p = Len(T)
                          /\ \A k \in 0 .. next.last - 1 : next.data[k] # NL
       /\ p - next.last + next.line_start + 1 = q - l + 1
  <2> DEFINE N == next.data
  <2>1. DOMAIN N = 0 .. BUFSIZE /\ \A k \in 0 .. l + n - 1 : N[k] = T[p - (l + n) + k + 1]
    BY <1>4, <1>5 DEF E
  <2>2. p = Len(T) \/ \A k \in 0 .. BUFSIZE : N[k] = NL => k \in 0 .. l + n - 1
    BY <1>6 DEF E
  <2>3. n = 0 => p = Len(T) /\ \A k \in 0 .. l + n - 1 : N[k] # NL
    BY <1>9 DEF E
  <2> HIDE DEF N
  <2>4. p - next.last + next.line_start + 1 = q - l + 1
    BY <1>3, <1>8
  <2>5. \A k \in next.line_start .. next.last - 1 : N[k] = T[p - next.last + k + 1]
    BY <1>0, <1>3, <2>1
  <2>6. \/ p = Len(T)
        \/ \A k \in 0 .. BUFSIZE : N[k] = NL => k \in next.line_start .. next.last - 1
    BY <1>0, <1>3, <2>2
  <2>7. next.cnt = 0 => /\ next.line_start = 0 /\ p = Len(T)
                        /\ \A k \in 0 .. next.last - 1 : N[k] # NL
    BY <1>0, <1>3, <2>3
  <2>8. /\ next.last \in 0 .. BUFSIZE /\ p \in next.last .. Len(T)
        /\ next.line_start \in 0 .. next.last
        /\ next.last = BUFSIZE \/ p = Len(T)
        /\ next.line_start # 0 => next.line_start < next.last
    BY <1>3, <1>7, <1>8
  <2> QED BY <2>1, <2>4, <2>5, <2>6, <2>7, <2>8 DEF N
<1> QED BY <1>2, <1>10 DEF LinePlace

\* Where the line in the buffer ends, as far as the buffer goes.
LineEndOf(r) ==
    Min({r.last} \cup {k \in r.line_start .. r.last - 1 : r.data[k] = NL})

\* The loop for the end of a line stops at the first one, or behind what was read.
LEMMA LineEndIs ==
    ASSUME NEW r, r.last \in 0 .. BUFSIZE, r.line_start \in 0 .. r.last
    PROVE  LET e == LineEndOf(r) IN
           /\ e \in r.line_start .. r.last
           /\ e < r.last => r.data[e] = NL
           /\ \A k \in r.line_start .. e - 1 : r.data[k] # NL
<1> DEFINE a == r.line_start
           l == r.last
           Z == {l} \cup {k \in a .. l - 1 : r.data[k] = NL}
           e == Min(Z)
<1>0. a \in Nat /\ l \in Nat /\ a <= l
  BY SizesAssumption
<1>1. /\ Z \subseteq Nat /\ l \in Z
      /\ \A k \in Z : k \in a .. l /\ (k < l => r.data[k] = NL)
      /\ \A k \in a .. l - 1 : r.data[k] = NL => k \in Z
  BY <1>0
<1>2. e \in Z /\ \A y \in Z : e <= y
  <2> HIDE DEF Z
  <2> QED BY <1>1, LeastIs
<1>3. LineEndOf(r) = e
  BY DEF LineEndOf
<1> HIDE DEF Z, a, l, e
<1>4. e \in a .. l /\ (e < l => r.data[e] = NL)
  BY <1>1, <1>2
<1>5. ASSUME NEW k \in a .. e - 1 PROVE r.data[k] # NL
  <2>1. k \in a .. l - 1 /\ k \in Nat /\ e \in Nat /\ ~(e <= k)
    BY <1>0, <1>4
  <2> QED BY <1>1, <1>2, <2>1
<1> QED BY <1>3, <1>4, <1>5 DEF a, l

\* The text that grep searches.
Searchable(T) == T \in Seq(Nat) /\ IsText(T)

\* The line in the buffer when its end is overwritten by a NUL.
LEMMA LineInBuffer ==
    ASSUME NEW T, Searchable(T), NEW f, NEW o, NEW r, NEW q, LinePlace(r, q, T, f, o),
           NEW e, e = LineEndOf(r), NEW D, D = Stored(r.data, e, <<NUL>>)
    PROVE  /\ Shows(D, r.line_start, e, q - r.last, T) /\ NoNul(T)
           /\ \A k \in 0 .. BUFSIZE : D[k] = IF k = e THEN NUL ELSE r.data[k]
<1> DEFINE a == r.line_start
           l == r.last
           b == q - l
<1>0. /\ BUFSIZE \in Nat /\ Len(T) \in Nat /\ T \in Seq(Nat)
      /\ l \in 0 .. BUFSIZE /\ q \in l .. Len(T) /\ a \in 0 .. l
      /\ DOMAIN r.data = 0 .. BUFSIZE
      /\ \A k \in a .. l - 1 : r.data[k] = T[b + k + 1]
  BY SizesAssumption DEF LinePlace, Searchable
<1>1. NoNul(T)
  BY DEF Searchable, IsText, NoNul
<1>2. e \in a .. l
  BY <1>0, LineEndIs
<1> HIDE DEF a, l
<1>3. a \in Nat /\ l \in Nat /\ e \in Nat /\ e <= l /\ a <= e /\ b \in Nat /\ b + e <= Len(T)
      /\ e \in 0 .. BUFSIZE /\ a \in 0 .. e
  BY <1>0, <1>2
<1>4. /\ DOMAIN D = 0 .. BUFSIZE
      /\ \A k \in 0 .. BUFSIZE : D[k] = IF k = e THEN NUL ELSE r.data[k]
  <2>1. Len(<<NUL>>) = 1 /\ <<NUL>>[1] = NUL
    OBVIOUS
  <2>2. DOMAIN D = 0 .. BUFSIZE
    BY <1>0 DEF Stored
  <2>3. ASSUME NEW k \in 0 .. BUFSIZE PROVE D[k] = IF k = e THEN NUL ELSE r.data[k]
    <3>1. D[k] = IF k \in e .. e + 1 - 1 THEN <<NUL>>[k - e + 1] ELSE r.data[k]
      BY <1>0, <2>1 DEF Stored
    <3>2. k \in e .. e + 1 - 1 <=> k = e
      BY <1>3
    <3>3. k = e => k - e + 1 = 1
      BY <1>3
    <3> QED BY <2>1, <3>1, <3>2, <3>3
  <2> QED BY <2>2, <2>3
<1>5. ASSUME NEW k \in a .. e - 1 PROVE D[k] = T[b + k + 1]
  <2>1. k \in 0 .. BUFSIZE /\ k # e /\ k \in a .. l - 1
    BY <1>0, <1>3
  <2> QED BY <1>0, <1>4, <2>1
<1>6. Shows(D, a, e, b, T)
  <2>1. D[e] = NUL
    BY <1>3, <1>4
  <2> HIDE DEF b
  <2> QED BY <1>3, <1>4, <1>5, <2>1 DEF Shows
<1> QED BY <1>1, <1>4, <1>6 DEF a, l

\* An unfinished line that is moved to the front stays what it was.
LEMMA MoveFollows ==
    ASSUME NEW T, Searchable(T), NEW f, NEW o, NEW r, NEW q, LinePlace(r, q, T, f, o),
           NEW e, e = LineEndOf(r), r.data[e] # NL, r.line_start # 0,
           NEW next, next.last = r.last - r.line_start,
           next.data = strcpy(Stored(r.data, e, <<NUL>>), 0, r.line_start)
    PROVE  ReadPlace(next, q, T, f, o)
<1> DEFINE D == Stored(r.data, e, <<NUL>>)
           a == r.line_start
           l == r.last
           b == q - l
           n == l - a
           line == SubSeq(T, b + a + 1, b + e)
           E == next.data
<1>0. /\ BUFSIZE \in Nat /\ Len(T) \in Nat /\ T \in Seq(Nat)
      /\ l \in Nat /\ l <= BUFSIZE /\ q \in Nat /\ l <= q /\ q <= Len(T) /\ a \in Nat
      /\ 0 < a /\ a < l
      /\ \/ q = Len(T)
         \/ \A k \in 0 .. BUFSIZE : r.data[k] = NL => k \in a .. l - 1
      /\ AtLine(T, b + a + 1) /\ o \in Seq(Nat) /\ o \o f[b + a + 1] = f[1]
  <2>1. /\ r.last \in 0 .. BUFSIZE /\ q \in r.last .. Len(T) /\ r.line_start \in 0 .. r.last
        /\ BUFSIZE \in Nat /\ Len(T) \in Nat /\ T \in Seq(Nat)
        /\ r.line_start # 0 => r.line_start < r.last
    BY SizesAssumption DEF LinePlace, Searchable
  <2>2. /\ \/ q = Len(T)
           \/ \A k \in 0 .. BUFSIZE : r.data[k] = NL => k \in a .. l - 1
        /\ AtLine(T, b + a + 1) /\ o \in Seq(Nat) /\ o \o f[b + a + 1] = f[1]
    BY DEF LinePlace
  <2> QED BY <2>1, <2>2
<1>1. e \in a .. l /\ (e < l => r.data[e] = NL) /\ \A k \in a .. e - 1 : r.data[k] # NL
  <2>1. r.last \in 0 .. BUFSIZE /\ r.line_start \in 0 .. r.last
    BY DEF LinePlace
  <2> QED BY <2>1, LineEndIs
<1>2. /\ Shows(D, a, e, b, T) /\ NoNul(T)
      /\ \A k \in 0 .. BUFSIZE : D[k] = IF k = e THEN NUL ELSE r.data[k]
  BY LineInBuffer
<1>3. /\ StringAt(D, a) = line /\ line \in Seq(Nat) /\ Len(line) = e - a
      /\ \A i \in 1 .. e - a : line[i] = D[a + i - 1]
  <2>1. T \in Seq(Nat) /\ NoNul(T) /\ Shows(D, a, e, b, T)
    BY <1>0, <1>2
  <2> HIDE DEF D, a, b
  <2>2. StringAt(D, a) = line
    BY <2>1, StringHere
  <2>3. /\ line \in Seq(Nat) /\ Len(line) = e - a
        /\ \A i \in 1 .. e - a : line[i] = D[a + i - 1]
    BY <2>1, ShownLine
  <2> QED BY <2>2, <2>3
<1>4. DOMAIN D = 0 .. BUFSIZE /\ \A k \in a .. e - 1 : D[k] = T[b + k + 1]
  BY <1>2 DEF Shows
<1>5. E = Stored(D, 0, Append(line, NUL))
  BY <1>3 DEF strcpy
<1>6. e = l
  <2>1. ~(e < l)
    BY <1>1
  <2> HIDE DEF l, a
  <2> QED BY <1>0, <1>1, <2>1
<1>7. next.last = n
  OBVIOUS
<1> HIDE DEF D, a, l, line, E
<1> DEFINE u == Append(line, NUL)
<1>8. u \in Seq(Nat) /\ Len(u) = n + 1 /\ u[n + 1] = NUL /\ \A i \in 1 .. n : u[i] = line[i]
  <2>1. NUL \in Nat
    BY DEF NUL
  <2> QED BY <1>3, <1>6, <2>1, AppendProperties
<1> HIDE DEF u
<1>9. /\ DOMAIN E = 0 .. BUFSIZE
      /\ \A k \in 0 .. BUFSIZE : E[k] = IF k \in 0 .. n THEN u[k + 1] ELSE D[k]
  <2>1. E = Stored(D, 0, u) /\ 0 + Len(u) - 1 = n
    BY <1>0, <1>5, <1>8 DEF u
  <2>2. /\ DOMAIN E = 0 .. BUFSIZE
        /\ \A k \in 0 .. BUFSIZE : E[k] = IF k \in 0 .. 0 + Len(u) - 1 THEN u[k - 0 + 1] ELSE D[k]
    BY <1>4, <2>1 DEF Stored
  <2> QED BY <2>1, <2>2
<1> HIDE DEF n, b
<1>10. n \in Nat /\ n = l - a /\ b \in Nat /\ b = q - l /\ n < BUFSIZE /\ n <= q
  BY <1>0 DEF n, b
<1>11. ASSUME NEW k \in 0 .. n - 1 PROVE E[k] = T[q - n + 1 + k] /\ E[k] # NL
  <2>1. /\ k \in 0 .. BUFSIZE /\ k \in 0 .. n /\ k + 1 \in 1 .. n /\ a + (k + 1) - 1 = a + k
        /\ a + k \in a .. e - 1 /\ a + k \in 0 .. BUFSIZE /\ a + k # e
        /\ b + (a + k) + 1 = q - n + 1 + k
    BY <1>0, <1>6, <1>10
  <2>2. E[k] = line[k + 1] /\ line[k + 1] = D[a + k]
    <3>1. E[k] = u[k + 1] /\ u[k + 1] = line[k + 1]
      BY <1>8, <1>9, <2>1
    <3>2. k + 1 \in 1 .. e - a
      BY <1>6, <1>10, <2>1
    <3>3. line[k + 1] = D[a + (k + 1) - 1]
      BY <1>3, <3>2
    <3> QED BY <2>1, <3>1, <3>3
  <2>3. D[a + k] = T[q - n + 1 + k]
    BY <1>4, <2>1
  <2>4. D[a + k] = r.data[a + k] /\ r.data[a + k] # NL
    BY <1>1, <1>2, <2>1
  <2> QED BY <2>2, <2>3, <2>4
<1>12. q = Len(T) \/ \A k \in 0 .. BUFSIZE : E[k] # NL
  <2> SUFFICES ASSUME q # Len(T), NEW k \in 0 .. BUFSIZE PROVE E[k] # NL
    OBVIOUS
  <2>1. CASE k \in 0 .. n - 1
    BY <1>11, <2>1
  <2>2. CASE k = n
    <3>1. E[k] = NUL
      BY <1>8, <1>9, <1>10, <2>2
    <3> QED BY <3>1 DEF NUL, NL
  <2>3. CASE k \notin 0 .. n
    <3>1. E[k] = IF k = e THEN NUL ELSE r.data[k]
      BY <1>2, <1>9, <2>3
    <3>2. r.data[k] = NL => k \in a .. e - 1
      BY <1>0, <1>6
    <3>3. r.data[k] # NL
      BY <1>1, <3>2
    <3> QED BY <3>1, <3>3 DEF NUL, NL
  <2> QED BY <1>10, <2>1, <2>2, <2>3
<1>13. /\ n \in 0 .. BUFSIZE - 1 /\ q \in n .. Len(T) /\ q - n + 1 = b + a + 1
  BY <1>0, <1>10
<1>14. /\ \A k \in 0 .. n - 1 : E[k] = T[q - n + 1 + k] /\ E[k] # NL
       /\ AtLine(T, q - n + 1) /\ o \in Seq(Nat) /\ o \o f[q - n + 1] = f[1]
  BY <1>0, <1>11, <1>13
<1> HIDE DEF E
<1>15. next.data = E
  BY DEF E
<1> QED BY <1>7, <1>9, <1>12, <1>13, <1>14, <1>15 DEF ReadPlace

\* Every line ends somewhere.
LEMMA EndExists ==
    ASSUME NEW T \in Seq(Nat), NEW p \in 1 .. Len(T)
    PROVE  \E e : EndsAt(T, p, e)
<1> DEFINE Z == {e \in p .. Len(T) + 1 : e = Len(T) + 1 \/ T[e] = NL}
<1>0. Len(T) \in Nat
  OBVIOUS
<1>1. Len(T) + 1 \in Z /\ Z \subseteq Nat
  BY <1>0
<1>2. \A e : e \in Z <=> e \in p .. Len(T) + 1 /\ (e = Len(T) + 1 \/ T[e] = NL)
  OBVIOUS
<1> HIDE DEF Z
<1>3. PICK e \in Z : \A y \in Z : e <= y
  BY <1>1, LeastNumber
<1>4. ASSUME NEW j \in p .. e - 1 PROVE T[j] # NL
  <2>1. e \in p .. Len(T) + 1
    BY <1>2
  <2>2. j \in p .. Len(T) + 1 /\ ~(e <= j)
    BY <1>0, <2>1
  <2> QED BY <1>2, <1>3, <2>2
<1> QED BY <1>2, <1>4 DEF EndsAt

\* The line that is searched is a whole one: it ends in the buffer, or with the
\* text, or fills the buffer, as no line is longer.
LEMMA LineComplete ==
    ASSUME NEW T, Searchable(T), NEW f, NEW o, NEW r, NEW q, LinePlace(r, q, T, f, o),
           NEW e, e = LineEndOf(r), r.data[e] = NL \/ r.cnt = 0 \/ r.line_start = 0,
           q - r.last + r.line_start + 1 \in Starts(T)
    PROVE  EndsAt(T, q - r.last + r.line_start + 1, q - r.last + e + 1)
<1> DEFINE a == r.line_start
           l == r.last
           b == q - l
           p == b + a + 1
           w == b + e + 1
<1>0. /\ BUFSIZE \in Nat /\ Len(T) \in Nat /\ T \in Seq(Nat)
      /\ l \in Nat /\ l <= BUFSIZE /\ q \in Nat /\ l <= q /\ q <= Len(T) /\ a \in Nat
      /\ a <= l
      /\ l = BUFSIZE \/ q = Len(T)
  <2>1. /\ r.last \in 0 .. BUFSIZE /\ q \in r.last .. Len(T) /\ r.line_start \in 0 .. r.last
        /\ BUFSIZE \in Nat /\ Len(T) \in Nat /\ T \in Seq(Nat)
        /\ r.last = BUFSIZE \/ q = Len(T)
    BY SizesAssumption DEF LinePlace, Searchable
  <2> QED BY <2>1
<1>1. /\ \A k \in a .. l - 1 : r.data[k] = T[b + k + 1]
      /\ \/ q = Len(T)
         \/ \A k \in 0 .. BUFSIZE : r.data[k] = NL => k \in a .. l - 1
      /\ r.cnt = 0 => q = Len(T)
  BY DEF LinePlace
<1>2. e \in a .. l /\ (e < l => r.data[e] = NL) /\ \A k \in a .. e - 1 : r.data[k] # NL
  <2>1. r.last \in 0 .. BUFSIZE /\ r.line_start \in 0 .. r.last
    BY DEF LinePlace
  <2> QED BY <2>1, LineEndIs
<1>3. p \in 1 .. Len(T) /\ p \in Starts(T) /\ \A k \in Starts(T) : Len(LineAt(T, k)) <= BUFSIZE
  BY DEF Searchable, IsText, Starts
<1>c. r.data[e] = NL \/ r.cnt = 0 \/ a = 0
  OBVIOUS
<1> HIDE DEF a, l
<1>4. b \in Nat /\ e \in Nat /\ a <= e /\ e <= l /\ w \in p .. Len(T) + 1 /\ w \in Nat
      /\ b + l = q
  BY <1>0, <1>2
<1> HIDE DEF b
<1>5. ASSUME NEW j \in p .. w - 1 PROVE T[j] # NL
  <2>1. PICK k : k = j - b - 1
    OBVIOUS
  <2>2. k \in a .. e - 1 /\ k \in a .. l - 1 /\ b + k + 1 = j
    BY <1>0, <1>4, <2>1
  <2> QED BY <1>1, <1>2, <2>2
<1>6. w = Len(T) + 1 \/ T[w] = NL
  <2>1. CASE e < l
    <3>1. e \in a .. l - 1
      BY <1>0, <1>4, <2>1
    <3> QED BY <1>1, <1>2, <2>1, <3>1
  <2>2. CASE e = l /\ q = Len(T)
    BY <1>4, <2>2
  <2>3. CASE e = l /\ q # Len(T)
    <3>1. l = BUFSIZE /\ w = q + 1 /\ q + 1 \in 1 .. Len(T) /\ b + l + 1 = q + 1
      BY <1>0, <1>4, <2>3
    <3>2. r.data[e] # NL
      <4>1. e \in 0 .. BUFSIZE /\ e \notin a .. l - 1
        BY <1>0, <1>4, <2>3
      <4> QED BY <1>1, <2>3, <4>1
    <3>3. a = 0
      BY <1>1, <1>c, <2>3, <3>2
    <3>4. PICK z : EndsAt(T, p, z)
      BY <1>0, <1>3, EndExists
    <3>5. Len(LineAt(T, p)) = z - p /\ z \in Nat
      <4>1. LineAt(T, p) = SubSeq(T, p, z - 1) /\ z \in p .. Len(T) + 1
        BY <1>0, <1>3, <3>4, LineTo DEF EndsAt
      <4>2. b + a \in Nat /\ z - 1 \in Nat /\ b + a <= z - 1 /\ z - 1 <= Len(T)
            /\ z - 1 - (b + a) = z - p /\ (b + a) + 1 = p
        BY <1>0, <1>4, <4>1
      <4>3. Len(SubSeq(T, (b + a) + 1, z - 1)) = z - 1 - (b + a)
        BY <1>0, <4>2, Piece
      <4> HIDE DEF p
      <4> QED BY <4>1, <4>2, <4>3
    <3>6. z <= w
      <4>1. z - p <= BUFSIZE
        BY <1>3, <3>5
      <4> QED BY <1>0, <1>4, <3>1, <3>3, <3>5, <4>1
    <3>7. z \in p .. Len(T) + 1 /\ (z = Len(T) + 1 \/ T[z] = NL)
      BY <3>4 DEF EndsAt
    <3>8. ~(z < w)
      <4>1. ASSUME z < w PROVE FALSE
        <5>1. z \in p .. w - 1 /\ z # Len(T) + 1
          <6>1. w \in Nat /\ p \in Nat /\ w <= Len(T) + 1
            BY <1>0, <1>4
          <6>2. z \in Nat /\ p <= z
            BY <3>5, <3>7, <6>1
          <6> HIDE DEF p, w
          <6> QED BY <1>0, <4>1, <6>1, <6>2
        <5> QED BY <1>5, <3>7, <5>1
      <4> QED BY <4>1
    <3>9. z = w
      BY <1>4, <3>5, <3>6, <3>8
    <3> QED BY <3>7, <3>9
  <2> QED BY <1>0, <1>4, <2>1, <2>2, <2>3
<1>7. EndsAt(T, p, w)
  <2> HIDE DEF p, w
  <2> QED BY <1>4, <1>5, <1>6 DEF EndsAt
<1> QED BY <1>7 DEF a, l, b

\* Where the next line is taken up, and what is reported when this one has been.
NextLine(r, q, e) == IF e < r.last THEN q - r.last + e + 2 ELSE q + 1
\* What has been reported, and a line more.
WithLine(o, name, line) == o \o name \o <<58>> \o line \o <<NL>>
Searched(r, D, e, name, s, o) ==
    IF FoundIn(D, r.line_start, e, s)
    THEN WithLine(o, name, StringAt(D, r.line_start)) ELSE o

\* What is to come goes on with x as all of it did with o.
Follows(x, rest, o, whole) == x \in Seq(Nat) /\ x \o rest = o \o whole

\* Writing a line leaves the rest of the report to be written.
LEMMA LineReported ==
    ASSUME NEW o \in Seq(Nat), NEW name \in Seq(Nat), NEW line \in Seq(Nat), NEW rest \in Seq(Nat),
           NEW x, x = WithLine(o, name, line),
           NEW whole, Continues(whole, name, line, rest)
    PROVE  Follows(x, rest, o, whole)
<1> DEFINE c == <<58>>
           z == <<NL>>
           a == name \o c
           b == a \o line
           d == b \o z
<1>1. c \in Seq(Nat) /\ z \in Seq(Nat)
  BY DEF NL
<1> HIDE DEF c, z
<1>2. a \in Seq(Nat) /\ (o \o name) \o c = o \o a
  <2>1. a \in Seq(Nat)
    BY <1>1
  <2>2. o \in Seq(Nat) /\ name \in Seq(Nat)
    OBVIOUS
  <2>3. (o \o name) \o c = o \o (name \o c)
    BY <1>1, <2>2, Joined
  <2> QED BY <2>1, <2>3
<1> HIDE DEF a
<1>3. b \in Seq(Nat) /\ (o \o a) \o line = o \o b
  <2>1. b \in Seq(Nat)
    BY <1>2
  <2>2. o \in Seq(Nat) /\ a \in Seq(Nat) /\ line \in Seq(Nat)
    BY <1>2
  <2>3. (o \o a) \o line = o \o (a \o line)
    BY <2>2, Joined
  <2> QED BY <2>1, <2>3
<1> HIDE DEF b
<1>4. d \in Seq(Nat) /\ (o \o b) \o z = o \o d
  <2>1. d \in Seq(Nat)
    BY <1>1, <1>3
  <2>2. o \in Seq(Nat) /\ b \in Seq(Nat) /\ z \in Seq(Nat)
    BY <1>1, <1>3
  <2>3. (o \o b) \o z = o \o (b \o z)
    BY <2>2, Joined
  <2> QED BY <2>1, <2>3
<1> HIDE DEF d
<1>5. o \o d \in Seq(Nat) /\ (o \o d) \o rest = o \o (d \o rest)
  <2>1. o \o d \in Seq(Nat)
    BY <1>4
  <2>2. o \in Seq(Nat) /\ d \in Seq(Nat) /\ rest \in Seq(Nat)
    BY <1>4
  <2> QED BY <2>1, <2>2, Joined
<1>6. o \o name \o c \o line \o z = o \o d
  BY <1>2, <1>3, <1>4
<1>7. ReportLine(name, line) = d
  BY DEF ReportLine, a, b, c, d, z
<1> QED BY <1>5, <1>6, <1>7 DEF WithLine, Follows, Continues, c, z

\* Nothing occurs in an empty line.
LEMMA NothingEmpty ==
    ASSUME NEW s \in Seq(Nat), NEW line \in Seq(Nat), Len(line) = 0
    PROVE  ~Occurs(s, line)
<1>1. ASSUME Occurs(s, line) PROVE FALSE
  <2>1. s # <<>> /\ \E j \in 1 .. Len(line) - Len(s) + 1 : TRUE
    BY <1>1 DEF Occurs
  <2>2. Len(s) \in Nat /\ Len(s) # 0
    BY <2>1, EmptySeq
  <2> QED BY <2>1, <2>2
<1> QED BY <1>1

\* With what has been reported, f gives the rest of the report from place n on.
Reaches(T, f, n, x) ==
    /\ n \in 1 .. Len(T) + 1 /\ AtLine(T, n)
    /\ x \in Seq(Nat) /\ x \o f[n] = f[1]

\* After a line is searched, what is written goes with the start of the next.
LEMMA SearchAdvances ==
    ASSUME NEW T, Searchable(T), NEW f, NEW o, NEW r, NEW q, LinePlace(r, q, T, f, o),
           NEW name \in Seq(Nat), NEW s \in Seq(Nat), NoNul(s), Reports(f, name, s, T),
           NEW e, e = LineEndOf(r), r.data[e] = NL \/ r.cnt = 0 \/ r.line_start = 0,
           NEW D, D = Stored(r.data, e, <<NUL>>), BUFSIZE # 0
    PROVE  Reaches(T, f, NextLine(r, q, e), Searched(r, D, e, name, s, o))
<1> DEFINE a == r.line_start
           l == r.last
           b == q - l
           p == b + a + 1
           w == b + e + 1
           n == NextLine(r, q, e)
           x == Searched(r, D, e, name, s, o)
           line == SubSeq(T, b + a + 1, b + e)
<1> DEFINE Goal == /\ n \in 1 .. Len(T) + 1 /\ AtLine(T, n)
                   /\ x \in Seq(Nat) /\ x \o f[n] = f[1]
<1>0. /\ BUFSIZE \in Nat /\ Len(T) \in Nat /\ T \in Seq(Nat)
      /\ l \in Nat /\ l <= BUFSIZE /\ q \in Nat /\ l <= q /\ q <= Len(T) /\ a \in Nat
      /\ a <= l
      /\ l = BUFSIZE \/ q = Len(T)
      /\ a # 0 => a < l
  <2>1. /\ r.last \in 0 .. BUFSIZE /\ q \in r.last .. Len(T) /\ r.line_start \in 0 .. r.last
        /\ BUFSIZE \in Nat /\ Len(T) \in Nat /\ T \in Seq(Nat)
        /\ r.last = BUFSIZE \/ q = Len(T)
        /\ r.line_start # 0 => r.line_start < r.last
    BY SizesAssumption DEF LinePlace, Searchable
  <2> QED BY <2>1
<1>1. /\ \A k \in a .. l - 1 : r.data[k] = T[b + k + 1]
      /\ AtLine(T, p) /\ o \in Seq(Nat) /\ o \o f[p] = f[1]
  BY DEF LinePlace
<1>2. e \in a .. l /\ (e < l => r.data[e] = NL) /\ \A k \in a .. e - 1 : r.data[k] # NL
  <2>1. r.last \in 0 .. BUFSIZE /\ r.line_start \in 0 .. r.last
    BY DEF LinePlace
  <2> QED BY <2>1, LineEndIs
<1>3. Shows(D, a, e, b, T) /\ NoNul(T)
  BY LineInBuffer
<1>4. /\ StringAt(D, a) = line /\ line \in Seq(Nat) /\ Len(line) = e - a
      /\ FoundIn(D, a, e, s) <=> Occurs(s, line)
  <2>1. T \in Seq(Nat)
    BY <1>0
  <2>9. NoNul(T) /\ Shows(D, a, e, b, T)
    BY <1>3
  <2> HIDE DEF a, b
  <2>2. StringAt(D, a) = line
    BY ONLY <2>9, <2>1, StringHere
  <2>3. line \in Seq(Nat) /\ Len(line) = e - a
    BY <1>3, <2>1, ShownLine
  <2>4. FoundIn(D, a, e, s) <=> Occurs(s, line)
    BY <1>3, <2>1, FoundRight
  <2> QED BY <2>2, <2>3, <2>4
<1>5. x = IF Occurs(s, line) THEN WithLine(o, name, line) ELSE o
  BY <1>4 DEF Searched
<1>6. p \in Starts(T) => EndsAt(T, p, w)
  BY LineComplete
<1>7. /\ b \in Nat /\ p \in Nat /\ w \in Nat /\ n \in 1 .. Len(T) + 1
      /\ n = IF e < l THEN w + 1 ELSE w
      /\ e < l => e \in a .. l - 1 /\ w \in 1 .. Len(T) /\ n - 1 = w
      /\ p <= Len(T) => a < l /\ n \in p + 1 .. Len(T) + 1 /\ n \in {w, w + 1}
                        /\ a \in a .. l - 1
      /\ p > Len(T) => a = l /\ e = l /\ n = p
      /\ e = a /\ a < l => n = p + 1
  <2> DEFINE m == Len(T)
  <2>1. n = IF e < l THEN b + e + 2 ELSE q + 1
    BY DEF NextLine
  <2>2. /\ a \in Nat /\ l \in Nat /\ q \in Nat /\ m \in Nat /\ e \in Nat
        /\ a <= e /\ e <= l /\ l <= q /\ q <= m /\ BUFSIZE \in Nat /\ BUFSIZE # 0
        
    BY <1>0, <1>2
  <2> HIDE DEF a, l, m, n
  <2>3. /\ a # 0 => a < l
        /\ l = BUFSIZE \/ q = m
    BY <1>0 DEF m
  <2>4. b = q - l /\ p = b + a + 1 /\ w = b + e + 1
    OBVIOUS
  <2> HIDE DEF b, p, w
  <2>5. /\ b \in Nat /\ p \in Nat /\ w \in Nat /\ n \in 1 .. m + 1
        /\ n = IF e < l THEN w + 1 ELSE w
        /\ e < l => e \in a .. l - 1 /\ w \in 1 .. m /\ n - 1 = w
        /\ p <= m => a < l /\ n \in p + 1 .. m + 1 /\ n \in {w, w + 1} /\ a \in a .. l - 1
        /\ p > m => a = l /\ e = l /\ n = p
        /\ e = a /\ a < l => n = p + 1
    BY ONLY <2>1, <2>2, <2>3, <2>4
  <2> QED BY <2>5 DEF m
<1>8. b + a + 1 = p /\ b + e = w - 1 /\ w = b + e + 1
  BY <1>0, <1>2
<1> HIDE DEF a, l, n, x, line, b, p, w, Goal
<1>10. e < l => w \in 1 .. Len(T) /\ T[w] = NL /\ AtLine(T, n)
  <2> SUFFICES ASSUME e < l PROVE w \in 1 .. Len(T) /\ T[w] = NL /\ AtLine(T, n)
    OBVIOUS
  <2>1. e \in a .. l - 1 /\ w \in 1 .. Len(T) /\ n - 1 = w
    BY <1>7
  <2>2. T[w] = NL
    BY <1>1, <1>2, <1>8, <2>1
  <2>4. n \in Starts(T) \/ n > Len(T)
    <3>1. n \in Nat /\ (n \in 1 .. Len(T) \/ n > Len(T))
      BY <1>0, <1>7
    <3> QED BY <2>1, <2>2, <3>1 DEF Starts
  <2> QED BY <2>1, <2>2, <2>4 DEF AtLine
<1>12. \A k \in 1 .. Len(T) + 1 : f[k] \in Seq(Nat)
  BY DEF Reports
<1>13. ASSUME p \in Starts(T) PROVE Goal
  <2>1. p \in 1 .. Len(T) /\ EndsAt(T, p, w)
    BY <1>6, <1>13 DEF Starts
  <2>2. n \in p + 1 .. Len(T) + 1 /\ n \in {w, w + 1}
    BY <1>7, <2>1
  <2>3. AtLine(T, n)
    <3>1. CASE e < l
      BY <1>10, <3>1
    <3>2. CASE ~(e < l)
      <4>1. n = w /\ (w = Len(T) + 1 \/ T[w] = NL)
        BY <1>7, <2>1, <3>2 DEF EndsAt
      <4> QED BY <1>0, <1>7, <4>1 DEF AtLine
    <3> QED BY <3>1, <3>2
  <2>4. /\ Occurs(s, line) => Continues(f[p], name, line, f[n])
        /\ ~Occurs(s, line) => f[p] = f[n]
    <3>1. line = Span(T, p, w)
      BY <1>8 DEF line, Span
    <3>2. T \in Seq(Nat)
      BY <1>0
    <3>3. /\ Reports(f, name, s, T) /\ p \in Starts(T) /\ EndsAt(T, p, w) /\ n \in {w, w + 1}
          /\ p \in 1 .. Len(T) /\ n \in p + 1 .. Len(T) + 1
      BY <1>13, <2>1, <2>2
    <3> QED BY ONLY <3>1, <3>2, <3>3, ReportAtLine
  <2>5. f[n] \in Seq(Nat)
    BY <1>7, <1>12
  <2>6. CASE Occurs(s, line)
    <3> DEFINE rest == f[n]
               whole == f[p]
    <3>1. rest \in Seq(Nat) /\ o \in Seq(Nat) /\ name \in Seq(Nat) /\ line \in Seq(Nat)
      BY <1>1, <1>4, <2>5
    <3>2. Continues(whole, name, line, rest) /\ x = WithLine(o, name, line)
      BY <1>5, <2>4, <2>6
    <3>3. Follows(x, rest, o, whole)
      <4> HIDE DEF rest, whole
      <4> QED BY ONLY <3>1, <3>2, LineReported
    <3>4. x \in Seq(Nat) /\ x \o f[n] = o \o f[p]
      BY <3>3 DEF Follows
    <3> QED BY <1>1, <1>7, <2>3, <3>4 DEF Goal
  <2>7. CASE ~Occurs(s, line)
    BY <1>1, <1>5, <1>7, <2>3, <2>4, <2>7 DEF Goal
  <2> QED BY <2>6, <2>7
<1>14. ASSUME p \notin Starts(T) PROVE Goal
  <2>1. e = a /\ AtLine(T, n) /\ f[n] = f[p]
    <3>1. CASE p > Len(T)
      <4>1. a = l /\ e = l /\ n = p
        BY <1>7, <3>1
      <4> QED BY <3>1, <4>1 DEF AtLine
    <3>2. CASE ~(p > Len(T))
      <4>1. p \in 1 .. Len(T) /\ T[p] = NL
        BY <1>1, <1>14, <3>2 DEF AtLine
      <4>2. a < l /\ a \in a .. l - 1 /\ b + a + 1 = p
        BY <1>7, <1>8, <4>1
      <4>3. r.data[a] = NL
        BY <1>1, <4>1, <4>2
      <4>4. e = a
        <5>1. ~(a < e)
          <6>1. ASSUME a < e PROVE FALSE
            <7>1. a \in a .. e - 1
              BY <1>0, <1>2, <6>1
            <7> QED BY <1>2, <4>3, <7>1
          <6> QED BY <6>1
        <5> QED BY <1>0, <1>2, <5>1
      <4>5. n = p + 1
        BY <1>7, <4>2, <4>4
      <4>6. f[p] = f[p + 1]
        BY <1>14, <4>1 DEF Reports, Hits
      <4> QED BY <1>10, <4>2, <4>4, <4>5, <4>6
    <3> QED BY <3>1, <3>2
  <2>2. Len(line) = 0
    BY <1>0, <1>4, <2>1
  <2>3. x = o
    BY <1>4, <1>5, <2>2, NothingEmpty
  <2> QED BY <1>1, <1>7, <2>1, <2>3 DEF Goal
<1>15. Goal
  BY <1>13, <1>14
<1> QED BY <1>15 DEF Goal, Reaches, n, x

\* What is left of the search when a line of the buffer has been reported.
MovedOn(r, next, D, e) ==
    /\ next.data = D /\ next.line_start = e + 1 /\ next.cnt = r.cnt
    /\ next.last = IF e + 1 >= r.last THEN 0 ELSE r.last
Onward(r, next, q, T, f, x, e) ==
    /\ ~(e + 1 >= r.last) => LinePlace(next, q, T, f, x)
    /\ e + 1 >= r.last /\ r.cnt # 0 => ReadPlace(next, q, T, f, x)
    /\ e + 1 >= r.last /\ r.cnt = 0 => x = f[1]

\* And the buffer stands at that start: the loop goes on, or the file is done.
LEMMA SearchFollows ==
    ASSUME NEW T, Searchable(T), NEW f, NEW o, NEW r, NEW q, LinePlace(r, q, T, f, o),
           NEW name \in Seq(Nat), NEW s \in Seq(Nat), NoNul(s), Reports(f, name, s, T),
           NEW e, e = LineEndOf(r), r.data[e] = NL \/ r.cnt = 0 \/ r.line_start = 0,
           NEW D, D = Stored(r.data, e, <<NUL>>), BUFSIZE # 0,
           NEW x, x = Searched(r, D, e, name, s, o),
           NEW next, MovedOn(r, next, D, e)
    PROVE  Onward(r, next, q, T, f, x, e)
<1> DEFINE a == r.line_start
           l == r.last
           b == q - l
           n == NextLine(r, q, e)
           m == Len(T)
<1>0. /\ BUFSIZE \in Nat /\ m \in Nat /\ T \in Seq(Nat)
      /\ l \in Nat /\ l <= BUFSIZE /\ q \in Nat /\ l <= q /\ q <= m /\ a \in Nat
      /\ a <= l
      /\ l = BUFSIZE \/ q = m
      /\ a # 0 => a < l
      /\ \A k \in a .. l - 1 : r.data[k] = T[b + k + 1]
      /\ q = m \/ \A k \in 0 .. BUFSIZE : r.data[k] = NL => k \in a .. l - 1
      /\ r.cnt = 0 => a = 0 /\ q = m /\ \A k \in 0 .. l - 1 : r.data[k] # NL
      /\ DOMAIN r.data = 0 .. BUFSIZE
  <2>1. /\ r.last \in 0 .. BUFSIZE /\ q \in r.last .. Len(T) /\ r.line_start \in 0 .. r.last
        /\ BUFSIZE \in Nat /\ Len(T) \in Nat /\ T \in Seq(Nat)
        /\ r.last = BUFSIZE \/ q = Len(T)
        /\ r.line_start # 0 => r.line_start < r.last
    BY SizesAssumption DEF LinePlace, Searchable
  <2>2. /\ \A k \in a .. l - 1 : r.data[k] = T[b + k + 1]
        /\ q = m \/ \A k \in 0 .. BUFSIZE : r.data[k] = NL => k \in a .. l - 1
        /\ r.cnt = 0 => a = 0 /\ q = m /\ \A k \in 0 .. l - 1 : r.data[k] # NL
        /\ DOMAIN r.data = 0 .. BUFSIZE
    BY DEF LinePlace
  <2> QED BY <2>1, <2>2
<1>1. e \in a .. l /\ (e < l => r.data[e] = NL) /\ \A k \in a .. e - 1 : r.data[k] # NL
  <2>1. r.last \in 0 .. BUFSIZE /\ r.line_start \in 0 .. r.last
    BY DEF LinePlace
  <2> QED BY <2>1, LineEndIs
<1>2. \A k \in 0 .. BUFSIZE : D[k] = IF k = e THEN NUL ELSE r.data[k]
  BY LineInBuffer
<1>3. DOMAIN D = 0 .. BUFSIZE
  BY <1>0 DEF Stored
<1>4. n \in 1 .. m + 1 /\ AtLine(T, n) /\ x \in Seq(Nat) /\ x \o f[n] = f[1]
  <2>1. Reaches(T, f, NextLine(r, q, e), Searched(r, D, e, name, s, o))
    BY SearchAdvances
  <2> HIDE DEF n
  <2> QED BY <2>1 DEF Reaches, n
<1>5. n = IF e < l THEN b + e + 2 ELSE q + 1
  BY DEF NextLine
<1>6. f[m + 1] = <<>>
  BY DEF Reports
<1>7. NL # NUL
  BY DEF NL, NUL
<1>a. /\ BUFSIZE \in Nat /\ m \in Nat /\ l \in Nat /\ l <= BUFSIZE /\ q \in Nat /\ l <= q /\ q <= m
      /\ a \in Nat /\ a <= l /\ b \in Nat /\ b + l = q /\ e \in Nat /\ a <= e /\ e <= l
      /\ l = BUFSIZE \/ q = m
  BY <1>0, <1>1
<1> DEFINE over == e + 1 >= l
<1>8. next.data = D /\ next.line_start = e + 1 /\ next.cnt = r.cnt
      /\ next.last = IF over THEN 0 ELSE l
  BY DEF MovedOn
<1>9. ~over => LinePlace(next, q, T, f, x)
  <2> SUFFICES ASSUME ~over PROVE LinePlace(next, q, T, f, x)
    OBVIOUS
  <2>1. e + 1 < l /\ e < l /\ e \in Nat /\ n = b + (e + 1) + 1
    <3> HIDE DEF a, b, l, m, n
    <3>1. e \in Nat /\ l \in Nat /\ b \in Nat
      BY <1>a
    <3>2. e + 1 < l /\ e < l
      BY <3>1
    <3> QED BY <1>5, <3>1, <3>2
  <2>2. next.last = l /\ next.line_start = e + 1 /\ next.data = D /\ next.cnt = r.cnt
    BY <1>8
  <2>3. r.cnt # 0
    <3>1. ASSUME r.cnt = 0 PROVE FALSE
      <4>1. a = 0 /\ \A k \in 0 .. l - 1 : r.data[k] # NL
        BY <1>0, <3>1
      <4>2. e \in 0 .. l - 1
        BY <1>0, <2>1
      <4> QED BY <1>1, <2>1, <4>1, <4>2
    <3> QED BY <3>1
  <2>4. ASSUME NEW k \in e + 1 .. l - 1 PROVE D[k] = T[b + k + 1]
    <3>1. k \in a .. l - 1 /\ k \in 0 .. BUFSIZE /\ k # e
      <4> HIDE DEF a, b, l, m, n
      <4> QED BY <1>a, <2>1
    <3> QED BY <1>0, <1>2, <3>1
  <2>5. ASSUME q # m, NEW k \in 0 .. BUFSIZE, D[k] = NL PROVE k \in e + 1 .. l - 1
    <3>1. k # e /\ r.data[k] = NL
      BY <1>2, <1>7, <2>5
    <3>2. k \in a .. l - 1 /\ k \notin a .. e - 1
      BY <1>0, <1>1, <2>5, <3>1
    <3> HIDE DEF a, b, l, m, n
    <3> QED BY <1>a, <2>1, <3>1, <3>2
  <2>6. /\ l \in 0 .. BUFSIZE /\ q \in l .. m /\ e + 1 \in 0 .. l /\ e + 1 < l
    <3> HIDE DEF a, b, l, m, n
    <3> QED BY <1>a, <2>1
  <2>7. AtLine(T, b + (e + 1) + 1) /\ x \o f[b + (e + 1) + 1] = f[1]
    BY <1>4, <2>1
  <2>8. q = m \/ \A k \in 0 .. BUFSIZE : D[k] = NL => k \in e + 1 .. l - 1
    BY <2>5
  <2> HIDE DEF n, a, l
  <2> QED BY <1>3, <1>4, <1>a, <2>2, <2>3, <2>4, <2>6, <2>7, <2>8 DEF LinePlace
<1>10. over => n = q + 1
  <2> SUFFICES ASSUME over PROVE n = q + 1
    OBVIOUS
  <2>1. e \in Nat /\ e <= l /\ l <= e + 1 /\ b + l = q
    BY <1>a
  <2> HIDE DEF n, b, a, l
  <2>2. e < l => l = e + 1 /\ b + e + 2 = q + 1
    <3>1. b \in Nat /\ q \in Nat /\ l \in Nat
      BY <1>a
    <3> QED BY <2>1, <3>1
  <2> QED BY <1>5, <2>2
<1>11. over /\ r.cnt # 0 => ReadPlace(next, q, T, f, x)
  <2> SUFFICES ASSUME over, r.cnt # 0 PROVE ReadPlace(next, q, T, f, x)
    OBVIOUS
  <2>1. next.last = 0 /\ next.data = D
    BY <1>8
  <2>2. q = m \/ \A k \in 0 .. BUFSIZE : D[k] # NL
    <3> SUFFICES ASSUME q # m, NEW k \in 0 .. BUFSIZE, D[k] = NL PROVE FALSE
      OBVIOUS
    <3>1. k # e /\ r.data[k] = NL
      BY <1>2, <1>7
    <3>2. k \in a .. l - 1 /\ k \notin a .. e - 1
      BY <1>0, <1>1, <3>1
    <3>3. e \in Nat /\ e <= l /\ l <= e + 1 /\ k \in Nat
      BY <1>0, <1>1
    <3>4. a \in Nat /\ l \in Nat
      BY <1>0
    <3> HIDE DEF a, b, l, m, n
    <3> QED BY <3>1, <3>2, <3>3, <3>4
  <2>3. q - 0 + 1 = q + 1 /\ 0 \in 0 .. BUFSIZE - 1 /\ q \in 0 .. m
    BY <1>0
  <2>4. AtLine(T, q + 1) /\ x \in Seq(Nat) /\ x \o f[q + 1] = f[1]
    BY <1>4, <1>10
  <2>5. \A k \in 0 .. 0 - 1 : FALSE
    OBVIOUS
  <2> HIDE DEF n, a, b, l
  <2> QED BY <1>3, <2>1, <2>2, <2>3, <2>4, <2>5 DEF ReadPlace
<1>12. over /\ r.cnt = 0 => x = f[1]
  <2> SUFFICES ASSUME over, r.cnt = 0 PROVE x = f[1]
    OBVIOUS
  <2>1. n = m + 1
    BY <1>0, <1>10
  <2>2. x \in Seq(Nat) /\ x \o <<>> = f[1]
    BY <1>4, <1>6, <2>1
  <2> QED BY <2>2
<1> QED BY <1>9, <1>11, <1>12 DEF Onward

-----------------------------------------------------------------------------
(* A file that grep opens and reads.                                        *)

\* The buffer before anything is in it.
LEMMA BufferEmpty ==
    ASSUME NEW T \in Seq(Nat), NEW f, NEW name, NEW s, Reports(f, name, s, T),
           NEW c, c # NL \/ Len(T) <= BUFSIZE, BUFSIZE # 0,
           NEW r, r.last = 0, r.data = [k \in 0 .. BUFSIZE |-> c]
    PROVE  ReadPlace(r, 0, T, f, <<>>)
<1>0. Len(T) \in Nat /\ BUFSIZE \in Nat
  BY SizesAssumption
<1>1. 0 \in 0 .. BUFSIZE - 1 /\ 0 \in 0 .. Len(T) /\ 0 - 0 + 1 = 1
  BY <1>0
<1>2. DOMAIN r.data = 0 .. BUFSIZE /\ \A k \in 0 .. BUFSIZE : r.data[k] = c
  OBVIOUS
<1>3. AtLine(T, 1)
  BY <1>0 DEF AtLine, Starts
<1>4. f[1] \in Seq(Nat)
  <2>1. 1 \in 1 .. Len(T) + 1
    BY <1>0
  <2> QED BY <2>1 DEF Reports
<1>5. <<>> \in Seq(Nat) /\ <<>> \o f[1] = f[1]
  <2> DEFINE u == f[1]
  <2>1. u \in Seq(Nat)
    BY <1>4
  <2> HIDE DEF u
  <2>2. <<>> \o u = u
    BY <2>1, ConcatEmptySeq
  <2> QED BY <2>2 DEF u
<1>6. \/ \A k \in 0 .. BUFSIZE : r.data[k] # NL
      \/ 0 = Len(T)
      \/ 0 = 0 /\ Len(T) <= BUFSIZE
  BY <1>2
<1>7. 0 .. 0 - 1 = {}
  OBVIOUS
<1> QED BY <1>1, <1>2, <1>3, <1>5, <1>6, <1>7 DEF ReadPlace

\* A piece of a file, as characters.
LEMMA CharsPiece ==
    ASSUME NEW inode \in DOMAIN Inodes, NEW a \in Nat, NEW b \in Nat, a <= b,
           b <= Inodes[inode].length
    PROVE  LET c == Content(inode) IN
           Chars(SubSeq(c, a + 1, b)) = SubSeq(Chars(c), a + 1, b)
<1> DEFINE c == Content(inode)
           y == SubSeq(c, a + 1, b)
           t == Chars(c)
           u == SubSeq(t, a + 1, b)
<1>1. c \in Seq(ByteNames) /\ Len(c) = Inodes[inode].length
  BY ContentIsSeq
<1>2. y \in Seq(ByteNames) /\ Len(y) = b - a /\ \A i \in 1 .. b - a : y[i] = c[a + i]
  BY BytesOf
<1> HIDE DEF c, y
<1> DEFINE at1(e) == session.disk[e[1]][e[2]]
<1>3. /\ Chars(y) \in Seq(CharSet) /\ Len(Chars(y)) = b - a
      /\ \A i \in 1 .. b - a : Chars(y)[i] = at1(y[i])
  BY <1>2, CharsAre
<1>4. t \in Seq(CharSet) /\ Len(t) = Len(c) /\ \A i \in 1 .. Len(c) : t[i] = at1(c[i])
  BY <1>1, CharsAre
<1> HIDE DEF t, at1
<1>5. u \in Seq(CharSet) /\ Len(u) = b - a /\ \A i \in 1 .. b - a : u[i] = t[a + i]
  <2>1. b <= Len(t) /\ t \in Seq(CharSet)
    BY <1>1, <1>4
  <2> QED BY <2>1, Piece
<1> HIDE DEF u
<1>6. ASSUME NEW i \in 1 .. b - a PROVE Chars(y)[i] = u[i]
  <2>1. a + i \in 1 .. Len(c)
    <3>1. Inodes[inode].length \in Nat
      BY ImageAssumption
    <3> QED BY <1>1, <3>1
  <2> QED BY <1>2, <1>3, <1>4, <1>5, <2>1
<1>7. Chars(y) = u
  BY <1>3, <1>5, <1>6, SeqEqual
<1> QED BY <1>7 DEF c, y, t, u

\* A read gives what follows in the text, less than it asks for only at the end.
Feeds(text, T, pos, next, n) ==
    /\ next \in pos .. Len(T) /\ next - pos <= n
    /\ next - pos < n => next = Len(T)
    /\ text = SubSeq(T, pos + 1, next)

\* The text that grep reads of a device and of a file.
LEMMA TextOf ==
    ASSUME NEW d
    PROVE  /\ d.filetype = 0 => FileText(d) = <<>>
           /\ d.filetype = 2 => FileText(d) = Chars(Content(d.inode_num))
<1>1. ASSUME d.filetype = 0 PROVE FileText(d) = <<>>
  BY <1>1 DEF FileText
<1>2. ASSUME d.filetype = 2 PROVE FileText(d) = Chars(Content(d.inode_num))
  BY <1>2 DEF FileText
<1> QED BY <1>1, <1>2

\* A read of grep gives the characters of the text at the position, and fewer than
\* asked only at its end.
LEMMA GrepReads ==
    ASSUME FilesInv, NEW fd, NEW name, OpenedAs(fd, name), NEW n \in 0 .. BUFSIZE,
           ReadAny(fd, n), DentryOf(name).filetype # 1, ret'[Child] # -1,
           NEW pos, pos = Table(Child)[fd].pos, NEW next, next = Table(Child)'[fd].pos,
           NEW T, T = FileText(DentryOf(name)), pos <= Len(T)
    PROVE  Feeds(Chars(buf'[Child]), T, pos, next, n)
<1> DEFINE d == DentryOf(name)
           text == Chars(buf'[Child])
<1>0. n \in Int /\ n \in Nat /\ n % WORD = n
  <2>1. BUFSIZE \in Nat /\ BUFSIZE < WORD /\ WORD \in Nat
    BY SizesAssumption, FilesAssumption
  <2>2. n \in Nat /\ n < WORD
    BY <2>1
  <2> QED BY <2>1, <2>2
<1>1. /\ pos \in Nat /\ next \in Nat
      /\ \/ ReadsDevice(d, pos, next) \/ ReadsEntry(d, pos, next) \/ ReadsLast(d, pos)
         \/ ReadsNoBlock(d) \/ ReadsBytes(d, pos, next, n)
  BY <1>0, ReadOpened
<1>2. T = FileText(d) /\ d.filetype # 1
  OBVIOUS
<1> HIDE DEF d
<1>3. CASE ReadsDevice(d, pos, next)
  <2>1. next = pos /\ buf'[Child] = <<>> /\ T = <<>>
    BY <1>2, <1>3, TextOf DEF ReadsDevice
  <2>2. <<>> \in Seq(ByteNames) /\ Len(<<>>) = 0
    OBVIOUS
  <2>3. text = <<>>
    <3>1. Chars(<<>>) \in Seq(CharSet) /\ Len(Chars(<<>>)) = 0
      BY <2>2, CharsAre
    <3>2. Chars(<<>>) = <<>>
      BY <3>1, EmptySeq
    <3> QED BY <2>1, <3>2
  <2>4. Len(T) = 0 /\ pos = 0
    BY <1>1, <2>1
  <2>5. SubSeq(T, pos + 1, next) = <<>>
    BY <2>1, <2>4, SubSeqEmpty
  <2>6. next \in pos .. Len(T) /\ next - pos = 0 /\ next = Len(T)
    BY <2>1, <2>4
  <2>7. text = SubSeq(T, pos + 1, next)
    BY <2>3, <2>5, Zenon
  <2>8. next - pos <= n
    BY <1>0, <2>6
  <2> QED BY <2>6, <2>7, <2>8 DEF Feeds
<1>4. CASE ReadsBytes(d, pos, next, n)
  <2> DEFINE inode == d.inode_num
             c == Content(inode)
  <2>1. /\ d.filetype = 2 /\ inode \in DOMAIN Inodes /\ pos <= next
        /\ next <= Inodes[inode].length /\ next - pos <= n
        /\ next - pos < n => next = Inodes[inode].length
        /\ buf'[Child] = SubSeq(c, pos + 1, next)
    BY <1>0, <1>4 DEF ReadsBytes
  <2>2. T = Chars(c)
    BY <1>2, <2>1, TextOf
  <2>3. c \in Seq(ByteNames) /\ Len(c) = Inodes[inode].length
    BY <2>1, ContentIsSeq
  <2>4. Chars(SubSeq(c, pos + 1, next)) = SubSeq(Chars(c), pos + 1, next)
    BY <1>1, <2>1, CharsPiece
  <2> HIDE DEF c, inode
  <2>5. Len(T) = Inodes[inode].length
    BY <2>2, <2>3, CharsAre
  <2>6. Inodes[inode].length \in Nat
    BY <2>1, ImageAssumption
  <2>7. next \in pos .. Len(T)
    BY <1>1, <2>1, <2>5, <2>6
  <2>8. text = SubSeq(T, pos + 1, next)
    BY <2>1, <2>2, <2>4
  <2> QED BY <2>1, <2>5, <2>7, <2>8 DEF Feeds
<1> QED BY <1>1, <1>2, <1>3, <1>4 DEF ReadsEntry, ReadsLast, ReadsNoBlock

-----------------------------------------------------------------------------
(* What grep reports is the report of the file.                             *)

\* The string it looks for, and nothing reported and nothing read at first.
Prepared(where, r, q, o) ==
    /\ where \in GrepLabels \ {"grep"} => r.search \in Seq(Nat) /\ NoNul(r.search)
    /\ where \in {"grep_open", "grep_buffer"} => o = <<>>
    /\ where = "grep_buffer" => q = 0

\* Then what has been reported goes on with the rest of the report.
Underway(where, r, q, o, T) ==
    IsText(T) /\ (r.stale # NL \/ Len(T) <= BUFSIZE) =>
      LET f == Report(r.name, r.search, T) IN
      /\ where = "grep_read" => ReadPlace(r, q, T, f, o)
      /\ where = "grep_line" => LinePlace(r, q, T, f, o)
      /\ where = "grep_close" => o = f[1]

Position == Table(Child)[local.fd].pos
Subject == FileText(DentryOf(local.name))
TextInv ==
    /\ Prepared(at, local, Position, out)
    /\ at \in FileLabels => Underway(at, local, Position, out, Subject)

\* The string that is searched.
LEMMA SearchTyped ==
    ASSUME ShellInv, args = ArgsFound
    PROVE  StringAt(args, 0) \in Seq(Nat) /\ NoNul(StringAt(args, 0))
<1> DEFINE n == ArgsLength
           a == first
           s == [i \in 1 .. n |-> line_buf[a + i - 1]]
<1>1. StringAt(args, 0) = s
  BY ArgsString
<1>2. /\ n \in Nat /\ a \in Nat /\ a + n \in Buffer
      /\ \A k \in Buffer : a <= k /\ k < a + n => line_buf[k] # NUL
  BY WordAndArgs, SizesAssumption DEF Buffer
<1> HIDE DEF n, a
<1>3. ASSUME NEW i \in 1 .. n PROVE line_buf[a + i - 1] \in Nat \ {NUL}
  <2> DEFINE k == a + i - 1
             l == origin[k]
  <2>1. k \in Buffer /\ a <= k /\ k < a + n /\ k \in Nat
    BY <1>2, SizesAssumption DEF Buffer
  <2>2. line_buf[k] = CharAt(l, k) /\ Typed(l)
    BY <2>1 DEF ShellInv
  <2>3. line_buf[k] # NUL
    BY <1>2, <2>1
  <2> HIDE DEF k, l
  <2>4. CharAt(l, k) \in Nat
    <3>1. l \in Seq(Nat)
      BY <2>2 DEF Typed
    <3>2. k < Len(l) => k + 1 \in 1 .. Len(l)
      BY <2>1, <3>1
    <3> QED BY <3>1, <3>2, ElementOfSeq DEF CharAt, NUL
  <2>5. line_buf[k] \in Nat \ {NUL}
    BY <2>2, <2>3, <2>4
  <2> QED BY <2>5 DEF k
<1>4. s \in [1 .. n -> Nat \ {NUL}]
  BY <1>3
<1>5. s \in Seq(Nat) /\ NoNul(s)
  <2>1. s \in Seq(Nat \ {NUL})
    BY <1>2, <1>4, SeqDef
  <2> HIDE DEF s
  <2>2. s \in Seq(Nat)
    BY <2>1
  <2>3. \A i \in 1 .. Len(s) : s[i] \in Nat \ {NUL}
    BY <2>1, ElementOfSeq
  <2> QED BY <2>2, <2>3 DEF NoNul
<1> QED BY <1>1, <1>5

\* The text of a file is one to search, and its report is what it should be.
LEMMA TextReported ==
    ASSUME NEW name \in Seq(Nat), Matches(name) # {}, DentryOf(name).filetype # 1, NEW s,
           NEW T, T = FileText(DentryOf(name)), IsText(T)
    PROVE  Searchable(T) /\ Reports(Report(name, s, T), name, s, T)
<1> DEFINE d == DentryOf(name)
<1>1. d.filetype \in {0, 2} /\ d.inode_num \in DOMAIN Inodes
  BY EntryFacts
<1>3. T \in Seq(CharSet)
  <2> HIDE DEF d
  <2>1. CASE d.filetype = 0
    <3>1. FileText(d) = <<>>
      BY <2>1, TextOf
    <3> QED BY <3>1 DEF d
  <2>2. CASE d.filetype = 2
    <3>1. FileText(d) = Chars(Content(d.inode_num))
      BY <2>2, TextOf
    <3>2. Content(d.inode_num) \in Seq(ByteNames)
      BY <1>1, ContentIsSeq
    <3>3. FileText(d) \in Seq(CharSet)
      BY <3>1, <3>2, CharsAre
    <3> QED BY <3>3 DEF d
  <2> QED BY <1>1, <2>1, <2>2
<1>4. T \in Seq(Nat)
  <2>1. \A k \in 1 .. Len(T) : T[k] \in Nat
    BY DEF IsText
  <2>2. Len(T) \in Nat /\ T \in [1 .. Len(T) -> CharSet]
    BY <1>3
  <2>3. T \in [1 .. Len(T) -> Nat]
    BY <2>1, <2>2
  <2> QED BY <2>2, <2>3, SeqDef
<1> QED BY <1>4, ReportIs DEF Searchable

\* The text stays while the file is open.
LEMMA SubjectStays ==
    ASSUME UNCHANGED session, local'.name = local.name
    PROVE  Subject' = Subject
BY DEF Subject, FileText, Chars, DentryOf, Matches

\* A read of grep goes on with the file.
LEMMA ReadUnderway ==
    ASSUME FilesInv, GrepInv, GrepRead, at' = "grep_line", DOMAIN local = Fields,
           UNCHANGED session, Underway(at, local, Position, out, Subject)
    PROVE  Underway(at', local', Position', out', Subject')
<1> DEFINE fd == local.fd
           name == local.name
           n == BUFSIZE - local.last
           text == Chars(buf'[Child])
           T == Subject
           q == Position
           p == Position'
           f == Report(name, local.search, T)
<1>1. /\ at = "grep_read" /\ ReadAny(fd, n) /\ ret'[Child] # -1 /\ UNCHANGED out
      /\ local' = [local EXCEPT !.data = Stored(@, local.last, text), !.cnt = Len(text),
                                !.last = @ + Len(text), !.line_start = 0]
  BY DEF GrepRead, Halt
<1>2. /\ local'.data = Stored(local.data, local.last, text) /\ local'.cnt = Len(text)
      /\ local'.last = local.last + Len(text) /\ local'.line_start = 0
      /\ local'.fd = fd /\ local'.name = name /\ local'.search = local.search
      /\ local'.stale = local.stale
  <2> HIDE DEF text, n, fd
  <2>1. DOMAIN local = Fields /\
        local' = [local EXCEPT !.data = Stored(@, local.last, text), !.cnt = Len(text),
                               !.last = @ + Len(text), !.line_start = 0]
    BY <1>1
  <2> QED BY <2>1 DEF Fields, fd
<1>3. /\ OpenedAs(fd, name) /\ name \in Seq(Nat)
      /\ DentryOf(name).filetype # 1 /\ Matches(name) # {}
  BY <1>1 DEF GrepInv, FileLabels, OpenedAs
<1>4. Subject' = T
  BY <1>2, SubjectStays
<1>5. SUFFICES ASSUME IsText(T), local.stale # NL \/ Len(T) <= BUFSIZE
               PROVE  LinePlace(local', p, T, f, out)
  BY <1>1, <1>2, <1>4 DEF Underway
<1>6. Searchable(T) /\ Reports(f, name, local.search, T)
  BY <1>3, <1>5, TextReported DEF Subject
<1>7. ReadPlace(local, q, T, f, out)
  BY <1>1, <1>5 DEF Underway
<1>8. /\ T \in Seq(Nat) /\ Len(T) \in Nat /\ local.last \in 0 .. BUFSIZE - 1
      /\ q \in local.last .. Len(T) /\ BUFSIZE \in Nat /\ n \in 0 .. BUFSIZE
  <2>1. T \in Seq(Nat) /\ local.last \in 0 .. BUFSIZE - 1 /\ q \in local.last .. Len(T)
    BY <1>6, <1>7 DEF ReadPlace, Searchable
  <2>2. Len(T) \in Nat /\ BUFSIZE \in Nat
    BY <2>1, SizesAssumption
  <2> HIDE DEF T, q
  <2> QED BY <2>1, <2>2
<1>9. Feeds(text, T, q, p, n)
  <2>1. q = Table(Child)[fd].pos /\ p = Table(Child)'[fd].pos /\ T = FileText(DentryOf(name))
    BY <1>2 DEF Position, Subject
  <2>2. q <= Len(T)
    BY <1>8
  <2> HIDE DEF q, p, T, n, fd, name
  <2> QED BY <1>1, <1>3, <1>8, <2>1, <2>2, GrepReads DEF text
<1> HIDE DEF text, T, q, p, f, n
<1>10. /\ p \in q .. Len(T) /\ p - q <= BUFSIZE - local.last
       /\ p - q < BUFSIZE - local.last => p = Len(T)
       /\ text = SubSeq(T, q + 1, p)
  BY <1>9 DEF Feeds, n
<1>11. Extended(local, local', q, p, T)
  BY <1>2, <1>10 DEF Extended
<1> QED BY <1>7, <1>8, <1>10, <1>11, ReadFollows

\* Moving an unfinished line to the front leaves everything where it is.
LEMMA MoveUnderway ==
    ASSUME FilesInv, GrepInv, GrepMove, DOMAIN local = Fields,
           Underway(at, local, Position, out, Subject)
    PROVE  Underway(at', local', Position', out', Subject')
<1> DEFINE name == local.name
           T == Subject
           q == Position
           f == Report(name, local.search, T)
           text == strcpy(Stored(local.data, line_end, <<NUL>>), 0, local.line_start)
<1>1. /\ at = "grep_line" /\ at' = "grep_read" /\ UNCHANGED out /\ UNCHANGED session
      /\ Table(Child)' = Table(Child) /\ Partial(line_end)
      /\ local' = Moved(Stored(local.data, line_end, <<NUL>>))
  BY DEF GrepMove, vars, Table, shell
<1>2. /\ local'.data = text /\ local'.last = local.last - local.line_start
      /\ local'.fd = local.fd /\ local'.name = name /\ local'.search = local.search
      /\ local'.stale = local.stale
  <2>1. local' = [local EXCEPT !.data = text, !.last = @ - local.line_start]
    BY <1>1 DEF Moved
  <2> HIDE DEF text
  <2> QED BY <2>1 DEF Fields
<1>3. name \in Seq(Nat) /\ DentryOf(name).filetype # 1 /\ Matches(name) # {}
  BY <1>1 DEF GrepInv, FileLabels, OpenedAs
<1>4. Subject' = T /\ Position' = q
  <2>1. Subject' = T
    BY <1>1, <1>2, SubjectStays
  <2> QED BY <1>1, <1>2, <2>1 DEF Position
<1>5. SUFFICES ASSUME IsText(T), local.stale # NL \/ Len(T) <= BUFSIZE
               PROVE  ReadPlace(local', q, T, f, out)
  BY <1>1, <1>2, <1>4 DEF Underway
<1>6. Searchable(T)
  BY <1>3, <1>5, TextReported DEF Subject
<1>7. LinePlace(local, q, T, f, out)
  BY <1>1, <1>5 DEF Underway
<1>8. line_end = LineEndOf(local)
  BY DEF line_end, LineEndOf
<1>9. local.data[line_end] # NL /\ local.line_start # 0
  BY <1>1 DEF Partial
<1> HIDE DEF T, q, f
<1> DEFINE e == line_end
<1>10. local'.data = strcpy(Stored(local.data, e, <<NUL>>), 0, local.line_start)
  BY <1>2
<1> HIDE DEF e, text
<1>11. e = LineEndOf(local) /\ local.data[e] # NL
  BY <1>8, <1>9 DEF e
<1> QED BY <1>2, <1>6, <1>7, <1>9, <1>10, <1>11, MoveFollows

\* Searching a line reports it if it holds the string, and goes on behind it.
LEMMA SearchUnderway ==
    ASSUME FilesInv, GrepInv, GrepSearch, DOMAIN local = Fields,
           Prepared(at, local, Position, out), Underway(at, local, Position, out, Subject)
    PROVE  Underway(at', local', Position', out', Subject')
<1> DEFINE name == local.name
           s == local.search
           T == Subject
           q == Position
           f == Report(name, s, T)
           e == line_end
           D == Stored(local.data, e, <<NUL>>)
           x == Searched(local, D, e, name, s, out)
           over == e + 1 >= local.last
<1>1. /\ at = "grep_line" /\ UNCHANGED session /\ Table(Child)' = Table(Child)
      /\ ~Partial(e)
      /\ out' = IF Found(D, e)
                THEN out \o local.name \o <<58>> \o StringAt(D, local.line_start) \o <<NL>>
                ELSE out
      /\ local' = [local EXCEPT !.data = D, !.line_start = e + 1,
                                !.last = IF over THEN 0 ELSE @]
      /\ at' = CASE ~over -> "grep_line"
                 [] over /\ local.cnt = 0 -> "grep_close"
                 [] over /\ local.cnt # 0 -> "grep_read"
  BY DEF GrepSearch, vars, Table, shell
<1>2. /\ local'.data = D /\ local'.last = (IF over THEN 0 ELSE local.last)
      /\ local'.line_start = e + 1 /\ local'.cnt = local.cnt
      /\ local'.fd = local.fd /\ local'.name = name /\ local'.search = s
      /\ local'.stale = local.stale
  <2> HIDE DEF D, e
  <2>1. local' = [local EXCEPT !.data = D, !.line_start = e + 1,
                               !.last = IF over THEN 0 ELSE @]
    BY <1>1
  <2> HIDE DEF over
  <2> QED BY <2>1 DEF Fields
<1>3. name \in Seq(Nat) /\ DentryOf(name).filetype # 1 /\ Matches(name) # {}
  BY <1>1 DEF GrepInv, FileLabels, OpenedAs
<1>4. Subject' = T /\ Position' = q
  <2>1. Subject' = T
    BY <1>1, <1>2, SubjectStays
  <2> QED BY <1>1, <1>2, <2>1 DEF Position
<1>5. out' = x
  <2>1. Found(D, e) <=> FoundIn(D, local.line_start, e, s)
    <3> HIDE DEF D, e
    <3> QED BY DEF Found, FoundIn
  <2> HIDE DEF D, e
  <2> QED BY <1>1, <2>1, Zenon DEF Searched, WithLine
<1>6. s \in Seq(Nat) /\ NoNul(s)
  BY <1>1 DEF Prepared, GrepLabels, FileLabels
<1>7. /\ ~over => at' = "grep_line"
      /\ over /\ local.cnt = 0 => at' = "grep_close"
      /\ over /\ local.cnt # 0 => at' = "grep_read"
  <2> HIDE DEF over
  <2> QED BY <1>1
<1>8. SUFFICES ASSUME IsText(T), local.stale # NL \/ Len(T) <= BUFSIZE
               PROVE  /\ ~over => LinePlace(local', q, T, f, x)
                      /\ over /\ local.cnt # 0 => ReadPlace(local', q, T, f, x)
                      /\ over /\ local.cnt = 0 => x = f[1]
  <2> HIDE DEF over, T, q, x, e, D
  <2> QED BY <1>1, <1>2, <1>4, <1>5, <1>7, <1>8 DEF Underway
<1>9. name \in Seq(Nat) /\ Searchable(T) /\ Reports(f, name, s, T)
  BY <1>3, <1>8, TextReported DEF Subject
<1>10. LinePlace(local, q, T, f, out)
  BY <1>1, <1>8 DEF Underway
<1>11. e = LineEndOf(local)
  BY DEF line_end, LineEndOf
<1>12. local.data[e] = NL \/ local.cnt = 0 \/ local.line_start = 0
  BY <1>1 DEF Partial
<1>13. BUFSIZE # 0
  BY SizesAssumption
<1> HIDE DEF T, q, f, e, x, name, s
<1>14. D = Stored(local.data, e, <<NUL>>) /\ x = Searched(local, D, e, name, s, out)
  BY DEF x
<1> HIDE DEF D
<1>15. MovedOn(local, local', D, e)
  BY <1>2 DEF MovedOn
<1>16. Onward(local, local', q, T, f, x, e)
  BY <1>6, <1>9, <1>10, <1>11, <1>12, <1>13, <1>14, <1>15, SearchFollows
<1> QED BY <1>16 DEF Onward

\* Every step of the session keeps what is known of the search.
LEMMA TextKept ==
    ASSUME ProgramsInv, TextInv, [ProgramsNext]_all
    PROVE  TextInv'
<1>0. /\ PhaseInv /\ FilesInv /\ ShellInv /\ GrepInv /\ DOMAIN local = Fields
      /\ Prepared(at, local, Position, out)
      /\ at \in FileLabels => Underway(at, local, Position, out, Subject)
  BY LocalFields DEF ProgramsInv, PhaseInv, TextInv
<1>1. ASSUME at' \notin GrepLabels \ {"grep"} PROVE TextInv'
  BY <1>1 DEF TextInv, Prepared, GrepLabels, FileLabels
<1>e. ASSUME Prepared(at', local', Position', out'),
             at' \in FileLabels => Underway(at', local', Position', out', Subject')
      PROVE  TextInv'
  BY <1>e DEF TextInv
<1>2. CASE UNCHANGED all
  <2>1. UNCHANGED <<at, local, out, session>> /\ Table(Child)' = Table(Child)
    BY <1>2 DEF all, child, shell, vars, Table
  <2>2. Position' = Position /\ Subject' = Subject
    BY <2>1, SubjectStays DEF Position
  <2> QED BY <1>0, <1>e, <2>1, <2>2
<1>3. CASE KernelStep
  BY <1>0, <1>1, <1>3, KernelMoves DEF KernelLabels, GrepLabels, FileLabels
<1>4. CASE ExecuteRun
  <2>1. session \in Sessions
    BY <1>0, <1>4 DEF ExecuteRun, ShellInv
  <2> QED BY <1>0, <1>1, <1>4, <2>1, ExecuteRunMoves DEF FirstLabels, GrepLabels, FileLabels
<1>5. CASE CatStep
  BY <1>0, <1>1, <1>5, CatMoves DEF Moves, CatLabels, GrepLabels, FileLabels
<1>6. CASE LsStep
  BY <1>0, <1>1, <1>6, LsMoves DEF Moves, LsLabels, GrepLabels, FileLabels
<1>7. CASE CountStep
  BY <1>0, <1>1, <1>7, CountMoves DEF Moves, CountLabels, GrepLabels, FileLabels
<1>8. CASE SyserrStep
  BY <1>0, <1>1, <1>8, SyserrMoves DEF Moves, SyserrLabels, GrepLabels, FileLabels
<1>r. ASSUME at' = "returned" PROVE TextInv'
  BY <1>1, <1>r DEF GrepLabels, FileLabels
\* Among the steps of grep, those before it has opened the file.
<1>s. ASSUME at' \in {"grep_dir", "grep_entry", "grep_open"},
             local'.search \in Seq(Nat), NoNul(local'.search),
             at' = "grep_open" => out' = <<>>
      PROVE  TextInv'
  BY <1>e, <1>s DEF Prepared, FileLabels
<1>9. CASE GrepArgs
  <2>1. at = "grep" /\ (at' = "grep_dir" \/ at' = "returned")
    BY <1>0, <1>9, GetArgsMoves DEF GrepArgs
  <2>2. CASE at' = "grep_dir"
    <3> DEFINE d == getargs(BUFSIZE).data
    <3>1. local' = [local EXCEPT !.search = d, !.name = d]
          /\ (getargs(BUFSIZE).val = 0 \/ at' = "returned")
      BY <1>9 DEF GrepArgs, GetArgs, Halt
    <3>2. d = StringAt(args, 0)
      BY <2>2, <3>1 DEF getargs
    <3> HIDE DEF d
    <3>3. local'.search = d
      BY <1>0, <3>1 DEF Fields
    <3>4. args = ArgsFound
      BY <2>1 DEF ProgramsInv, ArgsInv, Running, Labels
    <3> QED BY <1>0, <1>s, <2>2, <3>2, <3>3, <3>4, SearchTyped
  <2> QED BY <1>r, <2>1, <2>2
<1>10. CASE GrepDir
  <2>1. /\ at = "grep_dir"
        /\ \/ at' = "grep_entry" /\ local'.search = local.search
           \/ at' = "returned"
    <3>1. "dir" \in Fields /\ "search" \in Fields \ {"dir"}
      BY DEF Fields
    <3> QED BY <1>0, <1>10, <3>1, OpenForMoves DEF GrepDir
  <2> QED BY <1>0, <1>r, <1>s, <2>1 DEF Prepared, GrepLabels
<1>11. CASE GrepEntry
  <2>1. /\ at = "grep_entry" /\ out' = <<>>
        /\ \/ at' = "returned" \/ UNCHANGED <<at, local>>
           \/ \E name : \E l \in PutBehind("dir", 0) :
                local' = [l EXCEPT !.name = name] /\ at' = "grep_open"
    BY <1>11 DEF GrepEntry, Halt
  <2>2. \/ at' = "returned"
        \/ at' \in {"grep_entry", "grep_open"} /\ local'.search = local.search
    BY <1>0, <2>1 DEF PutBehind, Fields
  <2> QED BY <1>0, <1>r, <1>s, <2>1, <2>2 DEF Prepared, GrepLabels
<1>k. CASE GrepLine
  <2>1. PICK line \in Answers : GrepKeyboard(line) /\ at' # "lost"
    BY <1>k DEF GrepLine
  <2>2. /\ at = "grep_entry" /\ out' = <<>>
        /\ \/ at' = "returned"
           \/ at' \in {"grep_entry", "grep_open"} /\ local'.search = local.search
    <3>1. "search" \in Fields \ {"name"}
      BY DEF Fields
    <3> QED BY <1>0, <2>1, <3>1, GrepKeyboardMoves
  <2> QED BY <1>0, <1>r, <1>s, <2>2 DEF Prepared, GrepLabels
<1>l. CASE GrepLost
  BY <1>0, <1>1, <1>l, GrepLoses DEF GrepLabels, FileLabels
<1>12. CASE GrepOpen
  <2>1. /\ at = "grep_open" /\ UNCHANGED out
        /\ \/ /\ Open(Child, local.name) /\ at' = "grep_buffer" /\ local'.fd = ret'[Child]
              /\ local'.search = local.search
           \/ at' = "returned"
    <3>1. "fd" \in Fields /\ "search" \in Fields \ {"fd"}
      BY DEF Fields
    <3> QED BY <1>0, <1>12, <3>1, OpenForMoves DEF GrepOpen
  <2>2. CASE /\ Open(Child, local.name) /\ at' = "grep_buffer" /\ local'.fd = ret'[Child]
             /\ local'.search = local.search
    <3>1. PICK fd : fd = ret'[Child]
      OBVIOUS
    <3>2. Table(Child)'[fd].pos = 0
      BY <1>0, <2>2, <3>1, OpenGives
    <3>3. Position' = 0
      BY <2>2, <3>1, <3>2 DEF Position
    <3>4. Prepared(at', local', Position', out')
      BY <1>0, <2>1, <2>2, <3>3 DEF Prepared, GrepLabels, FileLabels
    <3>5. Underway(at', local', Position', out', Subject')
      BY <2>2 DEF Underway
    <3> QED BY <1>e, <3>4, <3>5
  <2> QED BY <1>r, <2>1, <2>2
\* And those within the file.
<1>f. ASSUME at \in FileLabels, at' \in FileLabels \ {"grep_buffer"},
             local'.search = local.search,
             Underway(at', local', Position', out', Subject')
      PROVE  TextInv'
  <2>1. Prepared(at', local', Position', out')
    BY <1>0, <1>f DEF Prepared, GrepLabels, FileLabels
  <2> QED BY <1>e, <1>f, <2>1
<1>13. ASSUME NEW c \in Stale, GrepBuffer(c) PROVE TextInv'
  <2> DEFINE T == Subject
             f == Report(local.name, local.search, T)
             b == [k \in 0 .. BUFSIZE |-> c]
  <2>1. /\ at = "grep_buffer" /\ at' = "grep_read" /\ Table(Child)' = Table(Child)
        /\ UNCHANGED <<session, out>>
        /\ local' = [local EXCEPT !.data = b, !.stale = c, !.last = 0]
    BY <1>13 DEF GrepBuffer, vars, shell, Table
  <2>2. /\ local'.data = b /\ local'.stale = c /\ local'.last = 0
        /\ local'.search = local.search /\ local'.name = local.name /\ local'.fd = local.fd
    <3> HIDE DEF b
    <3> QED BY <1>0, <2>1 DEF Fields
  <2>3. Subject' = T /\ Position' = 0 /\ out' = <<>>
    <3>1. Position = 0 /\ out = <<>>
      BY <1>0, <2>1 DEF Prepared
    <3> QED BY <2>1, <2>2, <3>1, SubjectStays DEF Position
  <2>4. /\ local.name \in Seq(Nat)
        /\ DentryOf(local.name).filetype # 1 /\ Matches(local.name) # {}
    BY <1>0, <2>1 DEF GrepInv, FileLabels, OpenedAs
  <2>5. ASSUME IsText(T), c # NL \/ Len(T) <= BUFSIZE
        PROVE  ReadPlace(local', 0, T, f, <<>>)
    <3>1. T \in Seq(Nat) /\ Reports(f, local.name, local.search, T)
      BY <2>4, <2>5, TextReported DEF Subject, Searchable
    <3>2. BUFSIZE # 0
      BY SizesAssumption
    <3> HIDE DEF T, f
    <3> QED BY <2>2, <2>5, <3>1, <3>2, BufferEmpty
  <2>6. Underway(at', local', Position', out', Subject')
    BY <2>1, <2>2, <2>3, <2>5 DEF Underway
  <2> QED BY <1>f, <2>1, <2>2, <2>6 DEF FileLabels
<1>14. CASE GrepRead
  <2>1. /\ at = "grep_read" /\ UNCHANGED session
        /\ at' = "returned" \/ (at' = "grep_line" /\ local'.search = local.search)
    <3>1. /\ at = "grep_read" /\ UNCHANGED session
          /\ \/ at' = "returned"
             \/ /\ at' = "grep_line"
                /\ local' = [local EXCEPT !.data = Stored(@, local.last, Chars(buf'[Child])),
                                          !.cnt = Len(Chars(buf'[Child])),
                                          !.last = @ + Len(Chars(buf'[Child])),
                                          !.line_start = 0]
      BY <1>14 DEF GrepRead, Halt, shell
    <3> QED BY <1>0, <3>1 DEF Fields
  <2>2. CASE at' = "grep_line" /\ local'.search = local.search
    <3>1. Underway(at', local', Position', out', Subject')
      BY <1>0, <1>14, <2>1, <2>2, ReadUnderway DEF FileLabels
    <3> QED BY <1>f, <2>1, <2>2, <3>1 DEF FileLabels
  <2> QED BY <1>r, <2>1, <2>2
<1>15. CASE GrepMove
  <2>1. at = "grep_line" /\ at' = "grep_read" /\ local' = Moved(Stored(local.data, line_end, <<NUL>>))
    BY <1>15 DEF GrepMove
  <2>2. local'.search = local.search
    BY <1>0, <2>1 DEF Moved, Fields
  <2>3. Underway(at', local', Position', out', Subject')
    BY <1>0, <1>15, <2>1, MoveUnderway DEF FileLabels
  <2> QED BY <1>f, <2>1, <2>2, <2>3 DEF FileLabels
<1>16. CASE GrepSearch
  <2>1. /\ at = "grep_line" /\ at' \in FileLabels \ {"grep_buffer"}
        /\ \E data, start, last :
             local' = [local EXCEPT !.data = data, !.line_start = start, !.last = last]
    BY <1>16 DEF GrepSearch, FileLabels
  <2>2. local'.search = local.search
    BY <1>0, <2>1 DEF Fields
  <2>3. Underway(at', local', Position', out', Subject')
    BY <1>0, <1>16, <2>1, SearchUnderway DEF FileLabels
  <2> QED BY <1>f, <2>1, <2>2, <2>3 DEF FileLabels
<1>17. CASE GrepClose
  <2>1. /\ at = "grep_close" /\ at' = "grep_entry"
        /\ local' = [local EXCEPT !.data = <<>>, !.line_start = 0, !.cnt = 0, !.stale = 0,
                                  !.name = <<>>]
    BY <1>17 DEF GrepClose
  <2>2. local'.search = local.search
    BY <1>0, <2>1 DEF Fields
  <2> QED BY <1>0, <1>s, <2>1, <2>2 DEF Prepared, GrepLabels, FileLabels
<1>18. CASE GrepStep
  BY <1>9, <1>10, <1>11, <1>12, <1>13, <1>14, <1>15, <1>16, <1>17, <1>18, <1>k
     DEF GrepStep, GrepFileStep
<1> QED BY <1>2, <1>3, <1>4, <1>5, <1>6, <1>7, <1>8, <1>18, <1>l, StepCases

\* grep (ece391grep.c) has a descriptor for every file it takes up, and it
\* reports exactly the lines that hold the string, each once and whole, for every
\* text, every string and every size of its buffer, however lines and reads overlap
\* and whatever the buffer held before, unless a line end stands in the
\* uninitialised byte behind it and the file does not fit.
THEOREM GrepCorrect == ProgramsSpec => []GrepRight
<1>1. ProgramsInit => TextInv
  BY DEF ProgramsInit, TextInv, Prepared, GrepLabels, FileLabels
<1>2. ProgramsInv /\ TextInv /\ [ProgramsNext]_all => TextInv'
  BY TextKept
<1>3. ProgramsInv /\ TextInv /\ GrepHasRoom => GrepRight
  <2> SUFFICES ASSUME ProgramsInv, TextInv, GrepHasRoom, at = "grep_close",
                      IsText(Subject), local.stale # NL \/ Len(Subject) <= BUFSIZE
               PROVE  out = Report(local.name, local.search, Subject)[1]
    BY DEF GrepRight, Reported, Matching, Subject
  <2> QED BY DEF TextInv, Underway, FileLabels
<1> QED BY <1>1, <1>2, <1>3, ProgramsAlways, GrepOpensEvery, PTL DEF ProgramsSpec

=============================================================================
