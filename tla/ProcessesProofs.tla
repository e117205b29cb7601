--------------------------- MODULE ProcessesProofs ---------------------------
(***************************************************************************)
(* Theorems about Processes, for every number of terminals and slots: its  *)
(* types wherever interrupts land, and its safety properties, with the     *)
(* refinement of ProcessStacks, in a kernel whose halt is not interrupted. *)
(***************************************************************************)
EXTENDS Processes, FiniteSetTheorems, TLAPS

-----------------------------------------------------------------------------
(* Slots, terminals, stack pointers and contexts.                           *)

LEMMA PidsAndTerms ==
    /\ 0 \in Pid /\ 0 \in Term
    /\ Term \subseteq Pid
    /\ Pid \subseteq Nat
    /\ NULL \notin Pid
    /\ \A p \in Pid : IsRoot(p) <=> p \in Term
BY ConstantsAssumption DEF Pid, Term, IsRoot

LEMMA StackPointerTypes ==
    /\ NoSp \in StackPointers
    /\ BootSp \in StackPointers
    /\ \A p \in Pid : Top(p) \in StackPointers
    /\ \A s \in StackPointers : Deeper(s) \in StackPointers
BY DEF StackPointers, NoSp, BootSp, Top, Deeper, Sp

LEMMA ContextTypes ==
    /\ \A b \in BOOLEAN : User(b) \in Contexts
    /\ Boot \in Contexts
    /\ Fault \in Contexts
    /\ Popped \in Contexts
    /\ \A c \in Contexts : Resumed(c) \in Contexts
    /\ NoFrame \in Frames
<1>1. \A pc \in Labels, b \in BOOLEAN : Context(pc, b) \in Contexts
  BY StackPointerTypes DEF Context, Contexts
<1>2. {"user", "boot", "fault"} \subseteq Labels
  BY DEF Labels
<1>3. \A c \in Contexts, s \in StackPointers : [c EXCEPT !.sp = s] \in Contexts
  BY DEF Contexts
<1>4. \A b \in BOOLEAN : User(b) \in Contexts
  BY <1>1, <1>2 DEF User
<1>5. Boot \in Contexts
  BY <1>1, <1>2, <1>3, StackPointerTypes DEF Boot
<1>6. Fault \in Contexts /\ Popped \in Contexts
  BY <1>1, <1>2 DEF Fault, Popped
<1>7. \A c \in Contexts : Resumed(c) \in Contexts
  BY <1>4 DEF Resumed, Contexts
<1>8. NoFrame \in Frames
  BY StackPointerTypes DEF NoFrame, Frames
<1> QED BY <1>4, <1>5, <1>6, <1>7, <1>8

LEMMA ByteArithmetic ==
    \A n \in Byte : Inc(n) \in Byte /\ Dec(n) \in Byte
BY DEF Inc, Dec, Byte

\* The ring of terminals is closed under "next".
LEMMA HeadAdvances ==
    \A h \in Term : NextTask(h) \in Term
BY ConstantsAssumption DEF Term, NextTask

\* The context an interrupt saves has the type of a context.
LEMMA SavedType == TypeOK => Saved \in Contexts /\ KernelSp \in StackPointers
BY DEF TypeOK, Saved, KernelSp, Contexts

-----------------------------------------------------------------------------
(* Type correctness.  TypeOK is inductive once it is known that the local   *)
(* variable l holds a pid wherever execute or halt will use it as one, in   *)
(* the running context and in every suspended one.                          *)

LocalSet(c) ==
    c.pc \in {"load", "setup", "launch", "freed", "esp0", "parent", "exit"}
      => c.l \in Pid

LocalsSet == LocalSet(cpu) /\ \A p \in Pid : LocalSet(great_esp[p])

TypeInv == TypeOK /\ LocalsSet

LEMMA InitType == Init => TypeInv
<1> USE DEF InitSchedule, SetupTerms, InitPaging
<1> SUFFICES ASSUME Init PROVE TypeInv
  OBVIOUS
<1>1. 0 \in Pid /\ 0 \in Term /\ Term \subseteq Pid
  BY PidsAndTerms
<1>2. /\ pcb_status_array \in [Pid -> 0 .. 1]
      /\ parent_pcb \in [Pid -> Pid \cup {NULL}]
      /\ active_proc_num \in Byte
      /\ active_root_shell \in Byte
  BY DEF Init, Byte
<1>3. shell_flag \in [Pid -> BOOLEAN] /\ irq0 \in BOOLEAN
  BY Zenon DEF Init
<1>4. /\ the_esp \in [Pid -> StackPointers]
      /\ great_esp \in [Pid -> Contexts]
      /\ shell_esp_array \in [Pid -> Frames]
      /\ cpu \in Contexts
      /\ tss_esp0 \in StackPointers
  BY <1>1, StackPointerTypes, ContextTypes DEF Init
<1>5. /\ curr_pid \in Pid
      /\ curr_term \in Term
      /\ head \in Term
      /\ term_on_screen \in Term
      /\ cr3 \in Pid
      /\ terms_pid \in [Term -> Pid]
  BY <1>1 DEF Init
<1>6. terminal \in [Term -> [pid : Pid, active : BOOLEAN]]
  <2>1. \A t \in Term : [pid |-> t, active |-> t = 0] \in [pid : Pid, active : BOOLEAN]
    BY <1>1
  <2> QED BY <2>1 DEF Init
<1>7. video \in [Pid -> Term]
  BY <1>1, PidsAndTerms DEF Init
<1>8. LocalsSet
  BY DEF Init, LocalsSet, LocalSet, Boot, Fault, Context
<1> QED
  BY <1>2, <1>3, <1>4, <1>5, <1>6, <1>7, <1>8 DEF TypeOK, TypeInv

LEMMA ExecuteReturnType ==
    TypeOK /\ ExecuteReturn => cpu' \in Contexts /\ LocalSet(cpu')
<1> SUFFICES ASSUME TypeOK, ExecuteReturn
             PROVE  cpu' \in Contexts /\ LocalSet(cpu')
  OBVIOUS
<1>1. "unwind" \in Labels
  BY DEF Labels, HaltLabels
<1>2. [cpu EXCEPT !.pc = "unwind"] \in Contexts
  BY <1>1 DEF TypeOK, Contexts
<1>3. User(cpu.uif) \in Contexts
  BY ContextTypes DEF TypeOK, Contexts
<1>4. cpu' \in Contexts
  BY <1>2, <1>3, ContextTypes DEF ExecuteReturn
<1>5. cpu'.pc \in {"boot", "unwind", "user"}
  BY DEF ExecuteReturn, Boot, User, Context, TypeOK, Contexts
<1> QED
  BY <1>4, <1>5 DEF LocalSet

\* A context whose program counter, flags or locals are updated is a context.
LEMMA ContextUpdates ==
    ASSUME NEW c \in Contexts, NEW pc \in Labels
    PROVE  /\ [c EXCEPT !.pc = pc] \in Contexts
           /\ \A s \in StackPointers, b \in BOOLEAN :
                /\ [c EXCEPT !.pc = pc, !.sp = s] \in Contexts
                /\ [c EXCEPT !.pc = pc, !.ifl = b] \in Contexts
                /\ [c EXCEPT !.pc = pc, !.sp = s, !.ifl = b] \in Contexts
           /\ \A k \in CommandKinds \cup {"none", "boot", "restart"},
                 s \in StackPointers :
                /\ [c EXCEPT !.pc = pc, !.cmd = k] \in Contexts
                /\ [c EXCEPT !.pc = pc, !.cmd = k, !.sp = s] \in Contexts
           /\ \A p \in Pid, s \in StackPointers :
                /\ [c EXCEPT !.pc = pc, !.l = p] \in Contexts
                /\ [c EXCEPT !.pc = pc, !.l = p, !.esp = s] \in Contexts
BY DEF Contexts

LEMMA LabelsUsed ==
    {"boot", "user", "io", "return", "spin", "fault", "exec", "load", "setup",
     "launch", "halt", "restart", "unwind", "freed", "esp0", "parent", "exit"}
      \subseteq Labels
BY DEF Labels, ExecuteLabels, HaltLabels

LEMMA StatusUpdates ==
    ASSUME NEW f \in [Pid -> 0 .. 1], NEW p \in Pid
    PROVE  /\ [f EXCEPT ![p] = 0] \in [Pid -> 0 .. 1]
           /\ [f EXCEPT ![p] = 1] \in [Pid -> 0 .. 1]
OBVIOUS

LEMMA TypeStep == TypeInv /\ [Next]_vars => TypeInv'
<1> SUFFICES ASSUME TypeInv, [Next]_vars PROVE TypeInv'
  OBVIOUS
<1> USE DEF TypeInv, TypeOK, EnableTimer, DisableTimer, FlushTlb
<1>c. cpu \in Contexts
  OBVIOUS
<1>l. LocalSet(cpu) /\ \A p \in Pid : LocalSet(great_esp[p])
  BY DEF LocalsSet
<1>g. ASSUME great_esp' = great_esp, LocalSet(cpu') PROVE LocalsSet'
  BY <1>g, <1>l DEF LocalsSet
<1>r. ExecuteReturn => cpu' \in Contexts /\ LocalSet(cpu')
  BY ExecuteReturnType
<1>1. CASE BootExecute
  <2>1. cpu' \in Contexts
    BY <1>1, <1>c, ContextUpdates, LabelsUsed DEF BootExecute
  <2>2. LocalSet(cpu')
    BY <1>1, <1>c, <1>l DEF BootExecute, At, LocalSet, Contexts
  <2>3. pcb_status_array' \in [Pid -> 0 .. 1]
    BY <1>1, PidsAndTerms, StatusUpdates DEF BootExecute
  <2>4. cr3' \in Pid
    BY <1>1, PidsAndTerms DEF BootExecute
  <2> QED BY <1>1, <1>g, <2>1, <2>2, <2>3, <2>4 DEF BootExecute, proc, sched
<1>2. CASE ExecuteError
  <2>1. cpu' \in Contexts /\ LocalSet(cpu')
    BY <1>2, <1>r DEF ExecuteError
  <2> QED BY <1>2, <1>g, <2>1 DEF ExecuteError, proc, sched
<1>3. CASE ExecuteClear
  <2>1. cpu' \in Contexts /\ LocalSet(cpu')
    BY <1>3, <1>r DEF ExecuteClear
  <2> QED BY <1>3, <1>g, <2>1 DEF ExecuteClear, proc, sched
<1>4. CASE ExecuteFull
  <2>1. cpu' \in Contexts /\ LocalSet(cpu')
    BY <1>4, <1>r DEF ExecuteFull
  <2> QED BY <1>4, <1>g, <2>1 DEF ExecuteFull, proc, sched
<1>5. CASE ExecuteClaim
  <2>1. PICK i \in Pid :
          /\ pcb_status_array' = [pcb_status_array EXCEPT ![i] = 1]
          /\ cr3' = i
          /\ cpu' = [cpu EXCEPT !.pc = "load", !.l = i]
    BY <1>5 DEF ExecuteClaim
  <2>2. cpu' \in Contexts
    BY <2>1, <1>c, ContextUpdates, LabelsUsed
  <2>3. LocalSet(cpu')
    BY <2>1, <1>c DEF LocalSet, Contexts
  <2>4. pcb_status_array' \in [Pid -> 0 .. 1]
    BY <2>1, StatusUpdates
  <2> QED BY <1>5, <1>g, <2>1, <2>2, <2>3, <2>4 DEF ExecuteClaim, sched
<1>6. CASE ExecuteLoadFail
  <2>1. cpu' \in Contexts /\ LocalSet(cpu')
    BY <1>6, <1>r DEF ExecuteLoadFail
  <2>2. active_root_shell' \in Byte
    BY <1>6, ByteArithmetic DEF ExecuteLoadFail, CountRootShell
  <2> QED BY <1>6, <1>g, <2>1, <2>2 DEF ExecuteLoadFail, proc, sched
<1>7. CASE ExecuteFill
  <2>1. cpu' \in Contexts
    BY <1>7, <1>c, ContextUpdates, LabelsUsed DEF ExecuteFill, Goto
  <2>2. LocalSet(cpu')
    BY <1>7, <1>c, <1>l DEF ExecuteFill, Goto, At, LocalSet, Contexts
  <2>3. active_root_shell' \in Byte /\ active_proc_num' \in Byte
    BY <1>7, ByteArithmetic DEF ExecuteFill, CountRootShell
  <2>4. cpu.l \in Pid
    BY <1>7, <1>l DEF ExecuteFill, At, LocalSet
  <2>5. /\ parent_pcb' \in [Pid -> Pid \cup {NULL}]
        /\ curr_pid' \in Pid
        /\ terms_pid' \in [Term -> Pid]
    BY <1>7, <2>4 DEF ExecuteFill, NewParent
  <2> QED BY <1>7, <1>g, <2>1, <2>2, <2>3, <2>4, <2>5 DEF ExecuteFill, proc, sched
<1>8. CASE ExecuteDefer
  <2>1. cpu' \in Contexts /\ LocalSet(cpu')
    BY <1>8, <1>r DEF ExecuteDefer
  <2>2. shell_flag' \in [Pid -> BOOLEAN]
    BY <1>8, Zenon DEF ExecuteDefer
  <2> QED BY <1>8, <1>g, <2>1, <2>2 DEF ExecuteDefer, proc, sched
<1>9. CASE ExecuteLaunch
  <2>1. cpu' \in Contexts
    BY <1>9, <1>c, ContextUpdates, LabelsUsed DEF ExecuteLaunch, Goto
  <2>2. LocalSet(cpu')
    BY <1>9, <1>c, <1>l DEF ExecuteLaunch, Goto, At, LocalSet, Contexts
  <2>3. cpu.sp \in StackPointers
    BY <1>c DEF Contexts
  <2>4. the_esp' \in [Pid -> StackPointers]
    <3>1. CASE IsRoot(curr_pid)
      BY <1>9, <3>1 DEF ExecuteLaunch
    <3>2. CASE ~IsRoot(curr_pid)
      <4>1. the_esp' = [the_esp EXCEPT ![parent_pcb[cpu.l]] = cpu.sp]
        BY <1>9, <3>2 DEF ExecuteLaunch
      <4> QED BY <4>1, <2>3
    <3> QED BY <3>1, <3>2
  <2>5. terminal' \in [Term -> [pid : Pid, active : BOOLEAN]]
    <3>1. CASE IsRoot(curr_pid)
      BY <1>9, <3>1 DEF ExecuteLaunch
    <3>2. CASE ~IsRoot(curr_pid)
      <4>1. terminal' = [terminal EXCEPT ![curr_term].pid = curr_pid]
        BY <1>9, <3>2 DEF ExecuteLaunch
      <4> QED BY <4>1
    <3> QED BY <3>1, <3>2
  <2>6. tss_esp0' \in StackPointers
    BY <1>9, StackPointerTypes DEF ExecuteLaunch
  <2>7. video' \in [Pid -> Term] /\ cr3' \in Pid /\ irq0' \in BOOLEAN
    BY <1>9 DEF ExecuteLaunch
  <2> QED
    BY <1>9, <1>g, <2>1, <2>2, <2>4, <2>5, <2>6, <2>7 DEF ExecuteLaunch
<1>10. CASE ExecuteNullParent
  <2>1. cpu' \in Contexts /\ LocalSet(cpu')
    BY <1>10, ContextTypes DEF ExecuteNullParent, LocalSet, Fault, Context
  <2>2. tss_esp0' \in StackPointers
    BY <1>10, StackPointerTypes DEF ExecuteNullParent
  <2> QED BY <1>10, <1>g, <2>1, <2>2 DEF ExecuteNullParent, proc, sched
<1>11. CASE JumpToProgram
  <2>1. cpu' = User(cpu.ifl) \/ cpu' = User(cpu.uif)
    BY <1>11 DEF JumpToProgram
  <2>2. cpu' \in Contexts
    BY <2>1, <1>c, ContextTypes DEF Contexts
  <2>3. LocalSet(cpu')
    BY <2>1 DEF LocalSet, User, Context
  <2>4. shell_esp_array' \in [Pid -> Frames]
    BY <1>11, <1>c DEF JumpToProgram, Frames, Contexts, SaveFrame, Frame
  <2> QED BY <1>11, <1>g, <2>2, <2>3, <2>4 DEF JumpToProgram, proc, sched
<1>12. CASE HaltEnter
  <2>1. cpu' \in Contexts
    BY <1>12, <1>c, ContextUpdates, LabelsUsed DEF HaltEnter
  <2>2. LocalSet(cpu')
    BY <1>12, <1>c, <1>l DEF HaltEnter, At, LocalSet, Contexts
  <2>3. active_proc_num' \in Byte
    BY <1>12, ByteArithmetic DEF HaltEnter
  <2> QED BY <1>12, <1>g, <2>1, <2>2, <2>3 DEF HaltEnter, proc, sched
<1>13. CASE HaltRoot
  <2>1. cpu' \in Contexts
    BY <1>13, <1>c, ContextUpdates, LabelsUsed DEF HaltRoot
  <2>2. LocalSet(cpu')
    BY <1>13, <1>c, <1>l DEF HaltRoot, At, LocalSet, Contexts
  <2>3. active_root_shell' \in Byte
    BY <1>13, ByteArithmetic DEF HaltRoot
  <2>4. pcb_status_array' \in [Pid -> 0 .. 1]
    BY <1>13, StatusUpdates DEF HaltRoot, Release
  <2> QED BY <1>13, <1>g, <2>1, <2>2, <2>3, <2>4 DEF HaltRoot, proc, sched
<1>14. CASE HaltRestart
  <2>1. Deeper(cpu.sp) \in StackPointers
    BY <1>c, StackPointerTypes DEF Contexts
  <2>2. cpu' \in Contexts
    BY <1>14, <2>1, <1>c, ContextUpdates, LabelsUsed DEF HaltRestart
  <2>3. LocalSet(cpu')
    BY <1>14, <1>c DEF HaltRestart, LocalSet, Contexts
  <2> QED BY <1>14, <1>g, <2>2, <2>3 DEF HaltRestart, proc, sched
<1>15. CASE HaltFree
  <2>1. pcb_status_array' \in [Pid -> 0 .. 1]
    BY <1>15, StatusUpdates DEF HaltFree, Release
  <2>2. CASE parent_pcb[curr_pid] = NULL
    <3>1. cpu' \in Contexts /\ LocalSet(cpu')
      BY <1>15, <2>2, ContextTypes DEF HaltFree, LocalSet, Fault, Context
    <3> QED BY <1>15, <1>g, <2>1, <3>1 DEF HaltFree, sched
  <2>3. CASE parent_pcb[curr_pid] # NULL
    <3> DEFINE p == parent_pcb[curr_pid]
    <3>1. p \in Pid /\ the_esp[p] \in StackPointers
      BY <2>3
    <3>2. cpu' = [cpu EXCEPT !.pc = "freed", !.l = p, !.esp = the_esp[p]]
      BY <1>15, <2>3 DEF HaltFree
    <3> HIDE DEF p
    <3>3. cpu' \in Contexts
      BY <3>1, <3>2, <1>c, ContextUpdates, LabelsUsed
    <3>4. LocalSet(cpu')
      BY <3>1, <3>2, <1>c DEF LocalSet, Contexts
    <3> QED BY <1>15, <1>g, <2>1, <3>3, <3>4 DEF HaltFree, sched
  <2> QED BY <2>2, <2>3
<1>16. CASE HaltEsp0
  <2>1. cpu' \in Contexts
    BY <1>16, <1>c, ContextUpdates, LabelsUsed DEF HaltEsp0, Goto
  <2>2. LocalSet(cpu')
    BY <1>16, <1>c, <1>l DEF HaltEsp0, Goto, At, LocalSet, Contexts
  <2>3. tss_esp0' \in StackPointers
    BY <1>16, <1>c DEF HaltEsp0, Contexts
  <2> QED BY <1>16, <1>g, <2>1, <2>2, <2>3 DEF HaltEsp0, proc, sched
<1>17. CASE HaltParent
  <2>1. cpu' \in Contexts
    BY <1>17, <1>c, ContextUpdates, LabelsUsed DEF HaltParent, Goto
  <2>2. LocalSet(cpu')
    BY <1>17, <1>c, <1>l DEF HaltParent, Goto, At, LocalSet, Contexts
  <2>3. curr_pid' \in Pid
    BY <1>17, <1>l DEF HaltParent, At, LocalSet
  <2> QED BY <1>17, <1>g, <2>1, <2>2, <2>3 DEF HaltParent, proc, sched
<1>18. CASE HaltTerminal
  <2>1. cpu' \in Contexts
    BY <1>18, <1>c, ContextUpdates, LabelsUsed DEF HaltTerminal, Goto
  <2>2. LocalSet(cpu')
    BY <1>18, <1>c, <1>l DEF HaltTerminal, Goto, At, LocalSet, Contexts
  <2>3. cr3' \in Pid
    BY <1>18, <1>l DEF HaltTerminal, At, LocalSet
  <2>4. terms_pid' \in [Term -> Pid]
    BY <1>18 DEF HaltTerminal
  <2>5. terminal' \in [Term -> [pid : Pid, active : BOOLEAN]]
    BY <1>18 DEF HaltTerminal
  <2> QED BY <1>18, <1>g, <2>1, <2>2, <2>3, <2>4, <2>5 DEF HaltTerminal, proc, sched
<1>19. CASE ExitToShell
  <2> DEFINE f == shell_esp_array[curr_pid]
  <2>1. f.sp \in StackPointers /\ f.uif \in BOOLEAN
    BY DEF Frames
  <2>2. cpu' = IF f.sp = NoSp THEN Fault
               ELSE [Context("return", TRUE) EXCEPT !.sp = f.sp, !.uif = f.uif]
    BY <1>19 DEF ExitToShell
  <2> HIDE DEF f
  <2>3. [Context("return", TRUE) EXCEPT !.sp = f.sp, !.uif = f.uif] \in Contexts
    BY <2>1, LabelsUsed, StackPointerTypes DEF Context, Contexts
  <2>4. cpu' \in Contexts
    BY <2>2, <2>3, ContextTypes
  <2>5. LocalSet(cpu')
    BY <2>2 DEF LocalSet, Fault, Context
  <2>6. shell_esp_array' \in [Pid -> Frames]
    BY <1>19, ContextTypes DEF ExitToShell
  <2> QED BY <1>19, <1>g, <2>4, <2>5, <2>6 DEF ExitToShell, sched
<1>20. CASE IoEnter
  <2>1. cpu' \in Contexts
    BY <1>20, <1>c, ContextUpdates, LabelsUsed DEF IoEnter
  <2>2. LocalSet(cpu')
    BY <1>20, <1>c, <1>l DEF IoEnter, At, LocalSet, Contexts
  <2> QED BY <1>20, <1>g, <2>1, <2>2 DEF IoEnter, proc, sched
<1>21. CASE Iret
  <2>1. cpu' = User(cpu.ifl) \/ cpu' = User(cpu.uif)
    BY <1>21 DEF Iret
  <2>2. cpu' \in Contexts
    BY <2>1, <1>c, ContextTypes DEF Contexts
  <2>3. LocalSet(cpu')
    BY <2>1 DEF LocalSet, User, Context
  <2> QED BY <1>21, <1>g, <2>2, <2>3 DEF Iret, proc, sched
<1>22. CASE BadStack
  <2>1. cpu' \in Contexts /\ LocalSet(cpu')
    BY <1>22, ContextTypes DEF BadStack, LocalSet, Fault, Context
  <2> QED BY <1>22, <1>g, <2>1 DEF BadStack, proc, sched
<1>23. CASE \E c \in Commands : ExecuteEnter(c)
  <2>1. PICK c \in Commands : ExecuteEnter(c)
    BY <1>23
  <2>2. c \in CommandKinds \cup {"none", "boot", "restart"}
    BY <2>1, ConstantsAssumption
  <2>3. cpu' = [cpu EXCEPT !.pc = "exec", !.cmd = c, !.sp = Deeper(tss_esp0)]
    BY <2>1 DEF ExecuteEnter
  <2>4. cpu' \in Contexts
    BY <2>2, <2>3, <1>c, StackPointerTypes, ContextUpdates, LabelsUsed
  <2>5. LocalSet(cpu')
    BY <2>3, <1>c DEF LocalSet, Contexts
  <2> QED BY <2>1, <1>g, <2>4, <2>5 DEF ExecuteEnter, proc, sched
<1>24. CASE TickStay
  <2>1. head' \in Term
    BY <1>24, HeadAdvances DEF TickStay, TimerInterrupt
  <2> QED BY <1>24, <1>g, <1>l, <2>1 DEF TickStay, proc, hw
<1>25. CASE TickSwitch
  <2> DEFINE p == terminal[head].pid
  <2>1. p \in Pid
    OBVIOUS
  <2>2. /\ head' \in Term /\ tss_esp0' \in StackPointers
        /\ curr_term' \in Term /\ curr_pid' \in Pid /\ cr3' \in Pid
    BY <1>25, <2>1, HeadAdvances, StackPointerTypes
    DEF TickSwitch, TimerInterrupt, SwitchTo
  <2>3. /\ great_esp' = [great_esp EXCEPT ![curr_pid] = Saved, ![p] = Popped]
        /\ cpu' = Resumed(great_esp[p])
    BY <1>25 DEF TickSwitch
  <2> HIDE DEF p
  <2>4. cpu' \in Contexts
    BY <2>1, <2>3, ContextTypes
  <2>5. great_esp' \in [Pid -> Contexts]
    BY <2>1, <2>3, SavedType, ContextTypes
  <2>6. LocalSet(Saved) /\ LocalSet(Popped)
    BY <1>c, <1>l DEF LocalSet, Saved, Popped, Fault, Context, Contexts
  <2>7. LocalSet(cpu')
    BY <2>1, <2>3, <1>l DEF LocalSet, Resumed, User, Context
  <2>8. LocalsSet'
    BY <2>1, <2>3, <2>6, <2>7, <1>l DEF LocalsSet
  <2> QED BY <1>25, <2>2, <2>4, <2>5, <2>8 DEF TickSwitch
<1>26. CASE TickRootShell
  <2>1. terminal[head].pid \in Pid
    OBVIOUS
  <2>2. /\ head' \in Term /\ tss_esp0' \in StackPointers
        /\ curr_term' \in Term /\ curr_pid' \in Pid /\ cr3' \in Pid
    BY <1>26, <2>1, HeadAdvances, StackPointerTypes
    DEF TickRootShell, TimerInterrupt, SwitchTo
  <2>3. great_esp' = [great_esp EXCEPT ![curr_pid] = Saved]
    BY <1>26 DEF TickRootShell
  <2>4. cpu' \in Contexts
    BY <1>26, ContextTypes DEF TickRootShell
  <2>5. great_esp' \in [Pid -> Contexts]
    BY <2>3, SavedType
  <2>6. LocalSet(Saved)
    BY <1>c, <1>l DEF LocalSet, Saved, Contexts
  <2>7. LocalSet(cpu')
    BY <1>26 DEF TickRootShell, LocalSet, User, Context
  <2>8. LocalsSet'
    BY <2>3, <2>6, <2>7, <1>l DEF LocalsSet
  <2>9. shell_flag' \in [Pid -> BOOLEAN]
    BY <1>26, Zenon DEF TickRootShell
  <2> QED BY <1>26, <2>2, <2>4, <2>5, <2>8, <2>9 DEF TickRootShell
<1>27. CASE \E t \in Term : SwitchTerm(t)
  <2>1. PICK t \in Term : SwitchTerm(t)
    BY <1>27
  <2>2. terminal' \in [Term -> [pid : Pid, active : BOOLEAN]]
    BY <2>1 DEF SwitchTerm
  <2> QED BY <2>1, <2>2, <1>g, <1>l DEF SwitchTerm, proc, hw
<1>28. CASE CtrlCSpin
  <2>1. cpu' \in Contexts
    BY <1>28, <1>c, SavedType, ContextUpdates, LabelsUsed DEF CtrlCSpin
  <2>2. LocalSet(cpu')
    BY <1>28, <1>c DEF CtrlCSpin, LocalSet, Contexts
  <2> QED BY <1>28, <1>g, <2>1, <2>2 DEF CtrlCSpin, proc, sched
<1>29. CASE CtrlCKill
  <2>1. cpu' \in Contexts
    BY <1>29, <1>c, SavedType, ContextUpdates, LabelsUsed DEF CtrlCKill
  <2>2. LocalSet(cpu')
    BY <1>29, <1>c DEF CtrlCKill, LocalSet, Contexts
  <2>3. active_proc_num' \in Byte
    BY <1>29, ByteArithmetic DEF CtrlCKill
  <2> QED BY <1>29, <1>g, <2>1, <2>2, <2>3 DEF CtrlCKill, proc, sched
<1>30. CASE Hang \/ UNCHANGED vars
  BY <1>30, <1>l, <1>g DEF Hang, vars, proc, sched, hw
<1> QED
  BY <1>1, <1>2, <1>3, <1>4, <1>5, <1>6, <1>7, <1>8, <1>9, <1>10, <1>11, <1>12, <1>13, <1>14, <1>15, <1>16, <1>17, <1>18, <1>19, <1>20, <1>21, <1>22, <1>23, <1>24, <1>25, <1>26, <1>27, <1>28, <1>29, <1>30
  DEF Next, KernelStep, UserStep, Tick, Keyboard

\* Every variable keeps its type, whatever points interrupts land at.
THEOREM TypeCorrect == Spec => []TypeOK
<1>1. TypeInv => TypeOK
  BY DEF TypeInv
<1> QED BY <1>1, InitType, TypeStep, PTL DEF Spec

-----------------------------------------------------------------------------
(* The timer and execute.  Inductive as it stands: execute masks the line   *)
(* on entry and every step that unmasks it leaves the critical section.     *)

Critical == {"exec", "load", "setup"}

\* Where a step can leave the running context.
LEMMA LeavesCritical ==
    /\ TypeOK /\ ExecuteReturn => cpu'.pc \notin Critical
    /\ \A b \in BOOLEAN : User(b).pc \notin Critical
    /\ Fault.pc \notin Critical /\ Popped.pc \notin Critical
    /\ \A c \in Contexts : Resumed(c).pc = c.pc
    /\ \A c \in Contexts, pc \in Labels : [c EXCEPT !.pc = pc].pc = pc
<1>1. TypeOK /\ ExecuteReturn => cpu'.pc \notin Critical
  <2> SUFFICES ASSUME TypeOK, ExecuteReturn PROVE cpu'.pc \in {"boot", "unwind", "user"}
    BY DEF Critical
  <2> QED BY DEF ExecuteReturn, Boot, User, Context, TypeOK, Contexts
<1>2. \A b \in BOOLEAN : User(b).pc = "user"
  BY DEF User, Context
<1>3. Fault.pc = "fault" /\ Popped.pc = "fault"
  BY DEF Fault, Popped, Context
<1>4. \A c \in Contexts : Resumed(c).pc = c.pc
  BY DEF Resumed, User, Context
<1>5. \A c \in Contexts, pc \in Labels : [c EXCEPT !.pc = pc].pc = pc
  BY DEF Contexts
<1> QED BY <1>1, <1>2, <1>3, <1>4, <1>5 DEF Critical

LEMMA PreemptionStep ==
    TypeInv /\ ExecuteNotPreempted /\ [Next]_vars => ExecuteNotPreempted'
<1> SUFFICES ASSUME TypeInv, ExecuteNotPreempted, [Next]_vars
             PROVE  ExecuteNotPreempted'
  OBVIOUS
<1> USE DEF EnableTimer, DisableTimer
<1>t. cpu \in Contexts /\ great_esp \in [Pid -> Contexts] /\ curr_pid \in Pid
      /\ terminal[head].pid \in Pid
  BY DEF TypeInv, TypeOK
<1>h. (cpu.pc \in Critical => ~irq0) /\ \A p \in Pid : great_esp[p].pc \notin Critical
  BY DEF ExecuteNotPreempted, Critical
<1>r. ExecuteReturn => cpu'.pc \notin Critical
  BY LeavesCritical DEF TypeInv
<1>g. ASSUME great_esp' = great_esp, cpu'.pc \in Critical => ~irq0'
      PROVE  ExecuteNotPreempted'
  BY <1>g, <1>h DEF ExecuteNotPreempted, Critical
<1>1. CASE BootExecute \/ HaltRestart \/ \E c \in Commands : ExecuteEnter(c)
  BY <1>1, <1>g DEF BootExecute, HaltRestart, ExecuteEnter, proc
<1>2. CASE ExecuteError \/ ExecuteClear \/ ExecuteFull \/ ExecuteLoadFail \/ ExecuteDefer
  BY <1>2, <1>g, <1>r
  DEF ExecuteError, ExecuteClear, ExecuteFull, ExecuteLoadFail, ExecuteDefer, proc
<1>3. CASE ExecuteClaim \/ ExecuteFill
  <2>1. cpu.pc \in Critical /\ irq0' = irq0 /\ great_esp' = great_esp
    BY <1>3 DEF ExecuteClaim, ExecuteFill, At, Critical
  <2> QED BY <2>1, <1>g, <1>h
<1>4. CASE ExecuteLaunch \/ HaltEsp0 \/ HaltParent \/ HaltTerminal
  BY <1>4, <1>g, <1>t
  DEF ExecuteLaunch, HaltEsp0, HaltParent, HaltTerminal, Goto, Critical, proc, Contexts
<1>5. CASE ExecuteNullParent \/ BadStack
  BY <1>5, <1>g, LeavesCritical DEF ExecuteNullParent, BadStack, proc
<1>6. CASE JumpToProgram \/ Iret
  <2>1. cpu'.pc \notin Critical
    BY <1>6, <1>t, LeavesCritical DEF JumpToProgram, Iret, Contexts
  <2> QED BY <1>6, <2>1, <1>g DEF JumpToProgram, Iret, proc
<1>7. CASE HaltEnter \/ HaltRoot \/ IoEnter \/ CtrlCSpin \/ CtrlCKill
  <2>1. cpu'.pc \notin Critical
    BY <1>7, <1>t
    DEF HaltEnter, HaltRoot, IoEnter, CtrlCSpin, CtrlCKill, Contexts, Critical
  <2> QED BY <1>7, <2>1, <1>g DEF HaltEnter, HaltRoot, IoEnter, CtrlCSpin, CtrlCKill, proc
<1>8. CASE HaltFree
  <2>1. cpu'.pc \in {"fault", "freed"}
    BY <1>8, <1>t DEF HaltFree, Fault, Context, Contexts
  <2> QED BY <1>8, <2>1, <1>g DEF HaltFree, Critical
<1>9. CASE ExitToShell
  <2>1. cpu'.pc \in {"fault", "return"}
    BY <1>9 DEF ExitToShell, Fault, Context
  <2> QED BY <1>9, <2>1, <1>g DEF ExitToShell, Critical
<1>10. CASE TickSwitch \/ TickRootShell
  <2>1. irq0 /\ irq0' = irq0
    BY <1>10 DEF TickSwitch, TickRootShell, TimerInterrupt
  <2>2. Saved.pc \notin Critical
    BY <2>1, <1>h, <1>t DEF Saved, Contexts
  <2>3. cpu'.pc \notin Critical
    <3>1. CASE TickSwitch
      BY <3>1, <1>h, <1>t, LeavesCritical DEF TickSwitch
    <3>2. CASE TickRootShell
      BY <3>2, LeavesCritical DEF TickRootShell
    <3> QED BY <1>10, <3>1, <3>2
  <2>4. \A p \in Pid : great_esp'[p] \in {great_esp[p], Saved, Popped}
    BY <1>10, <1>t DEF TickSwitch, TickRootShell
  <2>5. \A p \in Pid : great_esp'[p].pc \notin Critical
    BY <2>2, <2>4, <1>h, LeavesCritical
  <2> QED BY <2>3, <2>5 DEF ExecuteNotPreempted, Critical
<1>11. CASE TickStay \/ Hang \/ UNCHANGED vars \/ \E t \in Term : SwitchTerm(t)
  BY <1>11, <1>g, <1>h DEF TickStay, Hang, SwitchTerm, vars, proc, hw
<1> QED
  BY <1>1, <1>2, <1>3, <1>4, <1>5, <1>6, <1>7, <1>8, <1>9, <1>10, <1>11
  DEF Next, KernelStep, UserStep, Tick, Keyboard

LEMMA PreemptionInit == Init => ExecuteNotPreempted
BY DEF Init, ExecuteNotPreempted, Boot, Fault, Context

\* Wherever interrupts land, the timer never preempts execute between its entry
\* and the launch: searching for a free slot and claiming it are one step for
\* every other process.
THEOREM ExecuteAtomic == Spec => []ExecuteNotPreempted
BY InitType, TypeStep, PreemptionInit, PreemptionStep, PTL DEF Spec

-----------------------------------------------------------------------------
(* The inductive invariant behind the safety properties, for a kernel whose *)
(* halt is not interrupted.  It says, point by point of execute and halt,   *)
(* how far the update of the slot table, the PCBs and the terminal tables   *)
(* has got.                                                                 *)

\* The interrupts and commands the kernel copes with: no timer interrupt
\* inside halt, no Ctrl-C inside halt or after execute has claimed a slot, no
\* empty executable.
Shielded ==
    /\ TickAt \cap HaltLabels = {}
    /\ CtrlCAt \subseteq {"user", "io", "return", "exec"}
    /\ "empty" \notin Commands

-----------------------------------------------------------------------------
(* Boot: the k-th execute("shell") takes slot k + 1, the last one slot 0.   *)

\* Slots 0..k are taken; once all are missing but the last, slot 0 is free.
BootInv ==
    LET k == active_root_shell IN
      /\ cpu.sp = BootSp
      /\ curr_term = 0
      /\ IsRoot(curr_pid)
      /\ active_proc_num = k
      /\ \A t \in Term : terminal[t].pid = t /\ video[t] = t
      /\ \A t \in Term \ {0} : terms_pid[t] = t
      /\ cpu.pc \in {"boot", "exec", "load", "setup"}
      /\ cpu.pc \in {"boot", "exec", "load"} =>
           /\ k < MAX_TERM
           /\ \A t \in Term \ {0} : t <= k => shell_flag[t]
      /\ At("boot") => Busy = 0 .. k
      /\ At("exec") => Busy = IF k = MAX_TERM - 1 THEN 1 .. k ELSE 0 .. k
      /\ At("load") =>
           /\ cpu.l = IF k = MAX_TERM - 1 THEN 0 ELSE k + 1
           /\ Busy = 0 .. IF k = MAX_TERM - 1 THEN k ELSE k + 1
      /\ At("setup") =>
           /\ 0 < k /\ k <= MAX_TERM
           /\ \A t \in Term \ {0} : t < k => shell_flag[t]
           /\ cpu.l = IF k = MAX_TERM THEN 0 ELSE k
           /\ Busy = 0 .. IF k = MAX_TERM THEN k - 1 ELSE k
           /\ curr_pid = cpu.l
           /\ terms_pid[0] = cpu.l

-----------------------------------------------------------------------------
(* After boot.                                                              *)

\* halt has freed a root shell's slot and execute has not claimed it again.
RootGone == At("restart") \/ (At("exec") /\ cpu.cmd = "restart")
RootUncounted == RootGone \/ (At("load") /\ cpu.cmd = "restart")
\* halt has freed the current process and not handed the terminal over yet.
Leaving == cpu.pc \in {"freed", "esp0", "parent"}

\* Processes that a launch has started and that are not root shells.
Kids == Children \ Claimed

LabelInv ==
    /\ cpu.pc \notin {"boot", "fault", "unwind"}
    /\ cpu.pc = "spin" => ~cpu.ifl
    /\ cpu.pc \in {"exec", "load", "setup"} =>
         cpu.cmd \in {"elf", "bad", "clear", "restart"}
    /\ cpu.pc \in {"load", "setup"} => cpu.cmd \in {"elf", "restart"}

\* The counters, corrected for the updates under way, agree with the slots.
CounterInv ==
    /\ active_root_shell = IF RootUncounted THEN MAX_TERM - 1 ELSE MAX_TERM
    /\ active_proc_num = IF cpu.pc \in {"halt", "load"} THEN Cardinality(Busy) - 1
                                                        ELSE Cardinality(Busy)

RootInv ==
    /\ \A p \in Term : pcb_status_array[p] = 1 \/ (RootGone /\ p = curr_pid)

\* Stack and slot of a context of process p stopped inside the kernel.
ContextOf(c, p) ==
    /\ c.pc \in {"io", "return", "halt", "exec", "restart"} => c.sp.stk = p
    /\ c.pc = "launch" =>
         /\ c.l = p
         /\ IF IsRoot(p) THEN c.sp.stk \in {p, NULL}
                         ELSE parent_pcb[p] # NULL /\ c.sp.stk = parent_pcb[p]

\* The terminal, its tables and the kernel stack are the current process's.
Settled ==
    /\ terminal[curr_term].pid = curr_pid
    /\ terms_pid[curr_term] = curr_pid
    /\ cr3 = curr_pid
    /\ video[curr_pid] = curr_term
    /\ tss_esp0.stk = curr_pid

\* What each step of execute and halt knows about the current process.
CurrentInv ==
    /\ ContextOf(cpu, curr_pid)
    /\ cpu.pc \in {"user", "io", "return", "halt", "launch", "spin", "exit"} =>
         Settled /\ pcb_status_array[curr_pid] = 1
    /\ At("exec") =>
         /\ Settled
         /\ cpu.cmd # "restart" => pcb_status_array[curr_pid] = 1
    /\ RootGone => Settled /\ IsRoot(curr_pid) /\ pcb_status_array[curr_pid] = 0
    /\ cpu.pc \in {"load", "setup"} =>
         /\ pcb_status_array[cpu.l] = 1
         /\ IsRoot(cpu.l) <=> cpu.cmd = "restart"
         /\ cpu.cmd = "restart" =>
              /\ Settled
              /\ curr_pid = cpu.l
              /\ cpu.sp.stk = curr_pid
    /\ At("load") /\ cpu.cmd # "restart" =>
         /\ terminal[curr_term].pid = curr_pid
         /\ video[curr_pid] = curr_term
         /\ tss_esp0.stk = curr_pid
         /\ pcb_status_array[curr_pid] = 1
         /\ cpu.sp.stk = curr_pid
    /\ At("setup") /\ cpu.cmd # "restart" =>
         /\ curr_pid = cpu.l
         /\ terms_pid[curr_term] = cpu.l
         /\ parent_pcb[cpu.l] = terminal[curr_term].pid
         /\ video[terminal[curr_term].pid] = curr_term
         /\ pcb_status_array[terminal[curr_term].pid] = 1
         /\ cpu.sp.stk = terminal[curr_term].pid
    /\ cpu.pc \in {"load", "setup"} /\ cpu.cmd # "restart" =>
         /\ \A t \in Term : terminal[t].pid # cpu.l
         /\ \A r \in Kids : parent_pcb[r] # cpu.l

\* The parent that halt returns to.
LeavingInv ==
    /\ cpu.pc \in {"freed", "esp0", "parent", "exit"} =>
         /\ pcb_status_array[cpu.l] = 1
         /\ video[cpu.l] = curr_term
         /\ shell_esp_array[cpu.l].sp.stk = cpu.l
         /\ \A r \in Kids : parent_pcb[r] # cpu.l
    /\ Leaving =>
         /\ pcb_status_array[terminal[curr_term].pid] = 0
         /\ ~IsRoot(terminal[curr_term].pid)
         /\ parent_pcb[terminal[curr_term].pid] = cpu.l
         /\ \A t \in Term : terminal[t].pid # cpu.l
    /\ cpu.pc \in {"freed", "esp0"} => curr_pid = terminal[curr_term].pid
    /\ At("freed") => cpu.esp.stk = cpu.l
    /\ cpu.pc \in {"esp0", "parent", "exit"} => tss_esp0.stk = cpu.l
    /\ cpu.pc \in {"parent", "exit"} => curr_pid = cpu.l

\* A process the timer switched away from can be resumed.
Resumable(c, p) ==
    /\ c.pc \in {"user", "io", "return", "launch"}
    /\ c.pc # "launch" => c.cmd # "boot"
    /\ c.pc = "user" => c.sp.stk = p
    /\ ContextOf(c, p)

SuspendedInv ==
    \A t \in Term \ {curr_term} :
      LET p == terminal[t].pid IN
        /\ pcb_status_array[p] = 1
        /\ video[p] = t
        /\ terms_pid[t] = p
        /\ shell_flag[p] \/ Resumable(great_esp[p], p)

\* p's parent q will find its frame: it is saved, or p's launch will save it.
Framed(p, q) ==
    \/ shell_esp_array[q].sp.stk = q
    \/ p = curr_pid /\ At("launch")
    \/ /\ \E t \in Term \ {curr_term} : terminal[t].pid = p
       /\ great_esp[p].pc = "launch" /\ great_esp[p].sp.stk = q

\* q, the parent of p, waits for it: blocked in execute, off every terminal,
\* with no other child.
Waits(q, p) ==
    /\ q # NULL
    /\ pcb_status_array[q] = 1
    /\ video[q] = video[p]
    /\ the_esp[q].stk = q
    /\ \A t \in Term : terminal[t].pid # q
    /\ \A r \in Kids : parent_pcb[r] = q => r = p
    /\ Framed(p, q)

ParentInv == \A p \in Kids : Waits(parent_pcb[p], p)

\* No slot is busy for nobody.
OwnerInv ==
    \A p \in Busy :
      \/ \E t \in Term : terminal[t].pid = p
      \/ \E q \in Kids : q # p /\ parent_pcb[q] = p
      \/ p \in Claimed
      \/ Leaving /\ p = cpu.l

RunInv ==
    /\ LabelInv
    /\ CounterInv
    /\ RootInv
    /\ CurrentInv
    /\ LeavingInv
    /\ SuspendedInv
    /\ ParentInv
    /\ OwnerInv

FlagInv == \A p \in Pid : shell_flag[p] => IsRoot(p)

\* The inductive invariant (with the types, and the locals' types).
SafetyInv ==
    /\ ExecuteNotPreempted
    /\ ScheduledDistinct
    /\ FlagInv
    /\ Booting => BootInv /\ ~irq0
    /\ ~Booting => RunInv

-----------------------------------------------------------------------------
(* Counting slots.                                                          *)

LEMMA BusyFinite ==
    ASSUME TypeOK
    PROVE  /\ IsFiniteSet(Busy)
           /\ Cardinality(Busy) \in 0 .. 255
           /\ Busy # {} => Cardinality(Busy) > 0
<1>1. IsFiniteSet(Pid) /\ Cardinality(Pid) <= 255 /\ Cardinality(Pid) \in Nat
  <2>1. 0 \in Int /\ NUM_TOTAL_PROC - 1 \in Int /\ NUM_TOTAL_PROC \in Nat /\ NUM_TOTAL_PROC < 256
    BY ConstantsAssumption
  <2>2. IsFiniteSet(0 .. NUM_TOTAL_PROC - 1)
        /\ Cardinality(0 .. NUM_TOTAL_PROC - 1) =
             IF 0 > NUM_TOTAL_PROC - 1 THEN 0 ELSE NUM_TOTAL_PROC - 1 - 0 + 1
    BY <2>1, FS_Interval
  <2> QED BY <2>1, <2>2 DEF Pid
<1>2. Busy \in SUBSET Pid
  BY DEF Busy
<1>3. IsFiniteSet(Busy) /\ Cardinality(Busy) <= Cardinality(Pid)
  BY <1>1, <1>2, FS_Subset
<1>4. Cardinality(Busy) \in Nat
  BY <1>3, FS_CardinalityType
<1>5. Busy # {} => Cardinality(Busy) # 0
  BY <1>3, FS_EmptySet
<1> QED BY <1>1, <1>3, <1>4, <1>5

\* With every root slot busy and one more, the count exceeds MAX_TERM.
LEMMA BusyAboveRoots ==
    ASSUME TypeOK, Term \subseteq Busy, NEW p \in Busy, p \notin Term
    PROVE  Cardinality(Busy) > MAX_TERM
<1>1. MAX_TERM \in Nat /\ MAX_TERM > 0
  BY ConstantsAssumption
<1>2. IsFiniteSet(Term) /\ Cardinality(Term) = MAX_TERM
  <2>1. 0 \in Int /\ MAX_TERM - 1 \in Int
    BY <1>1
  <2>2. IsFiniteSet(0 .. MAX_TERM - 1)
        /\ Cardinality(0 .. MAX_TERM - 1) = IF 0 > MAX_TERM - 1 THEN 0 ELSE MAX_TERM - 1 - 0 + 1
    BY <2>1, FS_Interval
  <2> QED BY <1>1, <2>2 DEF Term
<1>3. IsFiniteSet(Term \cup {p}) /\ Cardinality(Term \cup {p}) = MAX_TERM + 1
  BY <1>2, FS_AddElement
<1>4. Term \cup {p} \in SUBSET Busy
  OBVIOUS
<1>5. Cardinality(Term \cup {p}) <= Cardinality(Busy)
  BY <1>4, BusyFinite, FS_Subset
<1> QED BY <1>1, <1>3, <1>5, BusyFinite

LEMMA RootsCount == Cardinality(0 .. MAX_TERM - 1) = MAX_TERM
<1>1. 0 \in Int /\ MAX_TERM - 1 \in Int /\ MAX_TERM > 0
  BY ConstantsAssumption
<1>2. Cardinality(0 .. MAX_TERM - 1) = IF 0 > MAX_TERM - 1 THEN 0 ELSE MAX_TERM - 1 - 0 + 1
  BY <1>1, FS_Interval
<1> QED BY <1>1, <1>2, ConstantsAssumption

\* The counters are bytes, but never wrap: Inc and Dec are + 1 and - 1.
LEMMA NoWrap ==
    /\ \A n \in 0 .. 254 : Inc(n) = n + 1
    /\ \A n \in 1 .. 255 : Dec(n) = n - 1
BY DEF Inc, Dec

\* Claiming a free slot and releasing a busy one.
LEMMA BusyGrows ==
    ASSUME TypeOK, NEW p \in Pid, pcb_status_array[p] = 0,
           pcb_status_array' = [pcb_status_array EXCEPT ![p] = 1]
    PROVE  Busy' = Busy \cup {p} /\ Cardinality(Busy') = Cardinality(Busy) + 1
<1>1. Busy' = Busy \cup {p} /\ p \notin Busy
  BY DEF TypeOK, Busy
<1> QED BY <1>1, BusyFinite, FS_AddElement

LEMMA BusyShrinks ==
    ASSUME TypeOK, NEW p \in Pid, pcb_status_array[p] = 1,
           pcb_status_array' = [pcb_status_array EXCEPT ![p] = 0]
    PROVE  Busy' = Busy \ {p} /\ Cardinality(Busy') = Cardinality(Busy) - 1
<1>1. Busy' = Busy \ {p} /\ p \in Busy
  BY DEF TypeOK, Busy
<1> QED BY <1>1, BusyFinite, FS_RemoveElement

-----------------------------------------------------------------------------
(* Boot.                                                                    *)

LEMMA SafetyInit == Init => SafetyInv
<1> SUFFICES ASSUME Init PROVE SafetyInv
  OBVIOUS
<1> USE PidsAndTerms DEF Init, InitSchedule, SetupTerms, InitPaging
<1>1. cpu.pc = "boot" /\ cpu.sp = BootSp
  BY DEF Boot, Context
<1>2. ExecuteNotPreempted
  BY PreemptionInit
<1>3. ScheduledDistinct /\ FlagInv
  BY DEF ScheduledDistinct, FlagInv
<1>4. Busy = 0 .. 0
  BY DEF Busy, Pid
<1>5. \A t \in Term : terminal[t].pid = t /\ video[t] = t
  BY DEF Term
<1>6. \A t \in Term \ {0} : ~(t <= 0)
  BY ConstantsAssumption DEF Term
<1>7. 0 < MAX_TERM /\ IsRoot(0)
  BY ConstantsAssumption DEF IsRoot
<1>8. BootInv
  BY <1>1, <1>4, <1>5, <1>6, <1>7 DEF BootInv, At
<1> QED BY <1>1, <1>2, <1>3, <1>8 DEF SafetyInv, Booting, At

\* What the boot phase rules out.
LEMMA BootPhase ==
    ASSUME TypeInv, SafetyInv, Booting
    PROVE  /\ BootInv /\ ~irq0
           /\ cpu.pc \in {"boot", "exec", "load", "setup"}
           /\ cpu.pc # "boot" => cpu.cmd = "boot"
           /\ IsRoot(curr_pid)
           /\ active_root_shell \in Nat /\ MAX_TERM \in Nat \ {0}
           /\ MAX_TERM <= NUM_TOTAL_PROC /\ MAX_TERM < 256
BY ConstantsAssumption DEF SafetyInv, Booting, BootInv, At, TypeInv, TypeOK, Byte

LEMMA BootExecuteStep ==
    ASSUME TypeInv, SafetyInv, Booting, BootExecute
    PROVE  SafetyInv'
<1> DEFINE k == active_root_shell
<1>1. /\ cpu.pc = "boot" /\ cpu'.pc = "exec" /\ cpu'.cmd = "boot"
      /\ cpu'.sp = cpu.sp
  BY DEF BootExecute, At, TypeInv, TypeOK, Contexts
<1>2. /\ UNCHANGED <<active_proc_num, active_root_shell, terminal, video, terms_pid,
                     curr_term, curr_pid, shell_flag>>
  BY DEF BootExecute, sched
<1>3. k < MAX_TERM /\ Busy = 0 .. k /\ k \in Nat /\ MAX_TERM \in Nat \ {0}
  BY <1>1, BootPhase DEF BootInv, At
<1>4. Busy' = IF k = MAX_TERM - 1 THEN 1 .. k ELSE 0 .. k
  <2>1. CASE k = MAX_TERM - 1
    <3>1. pcb_status_array' = [pcb_status_array EXCEPT ![0] = 0]
      BY <2>1 DEF BootExecute, LastBootShell
    <3>2. Busy' = Busy \ {0}
      BY <3>1, PidsAndTerms DEF Busy, TypeInv, TypeOK
    <3> QED BY <3>2, <2>1, <1>3
  <2>2. CASE k # MAX_TERM - 1
    BY <2>2, <1>3 DEF BootExecute, LastBootShell, Busy
  <2> QED BY <2>1, <2>2
<1>5. BootInv'
  BY <1>1, <1>2, <1>3, <1>4, BootPhase DEF BootInv, At, IsRoot
<1>6. ~irq0'
  BY DEF BootExecute, DisableTimer
<1>7. ExecuteNotPreempted'
  BY PreemptionStep DEF Next, KernelStep, SafetyInv
<1>8. ScheduledDistinct' /\ FlagInv'
  BY <1>2 DEF SafetyInv, ScheduledDistinct, FlagInv, IsRoot
<1> QED BY <1>1, <1>5, <1>6, <1>7, <1>8 DEF SafetyInv, Booting, At

LEMMA BootClaimStep ==
    ASSUME TypeInv, SafetyInv, Booting, ExecuteClaim
    PROVE  SafetyInv'
<1> DEFINE k == active_root_shell
<1>1. PICK i \in Pid :
        /\ FirstFree(i)
        /\ pcb_status_array' = [pcb_status_array EXCEPT ![i] = 1]
        /\ cpu' = [cpu EXCEPT !.pc = "load", !.l = i]
  BY DEF ExecuteClaim
<1>2. /\ cpu.pc = "exec" /\ cpu'.pc = "load" /\ cpu'.cmd = cpu.cmd
      /\ cpu'.sp = cpu.sp /\ cpu'.l = i
  BY <1>1 DEF ExecuteClaim, At, TypeInv, TypeOK, Contexts
<1>3. /\ UNCHANGED <<active_proc_num, active_root_shell, terminal, video, terms_pid,
                     curr_term, curr_pid, shell_flag, irq0>>
  BY DEF ExecuteClaim, sched
<1>4. /\ k < MAX_TERM /\ k \in Nat /\ MAX_TERM \in Nat \ {0}
      /\ Busy = IF k = MAX_TERM - 1 THEN 1 .. k ELSE 0 .. k
  BY <1>2, BootPhase DEF BootInv, At
<1>5. i \notin Busy /\ \A j \in Pid : j < i => j \in Busy
  BY <1>1 DEF FirstFree, Busy
<1>6. i = IF k = MAX_TERM - 1 THEN 0 ELSE k + 1
  <2>1. CASE k = MAX_TERM - 1
    BY <2>1, <1>4, <1>5, PidsAndTerms, ConstantsAssumption DEF Pid
  <2>2. CASE k # MAX_TERM - 1
    <3>1. k + 1 \in Pid /\ k + 1 \notin Busy
      BY <2>2, <1>4, ConstantsAssumption DEF Pid
    <3> QED BY <3>1, <2>2, <1>4, <1>5, PidsAndTerms DEF Pid
  <2> QED BY <2>1, <2>2
<1>7. Busy' = Busy \cup {i}
  BY <1>1 DEF Busy, TypeInv, TypeOK
<1>8. Busy' = 0 .. IF k = MAX_TERM - 1 THEN k ELSE k + 1
  BY <1>4, <1>6, <1>7
<1>9. BootInv'
  BY <1>2, <1>3, <1>4, <1>6, <1>8, BootPhase DEF BootInv, At, IsRoot
<1>10. ExecuteNotPreempted'
  BY PreemptionStep DEF Next, KernelStep, SafetyInv
<1>11. ScheduledDistinct' /\ FlagInv'
  BY <1>3 DEF SafetyInv, ScheduledDistinct, FlagInv, IsRoot
<1> QED BY <1>2, <1>3, <1>9, <1>10, <1>11, BootPhase DEF SafetyInv, Booting, At

LEMMA BootFillStep ==
    ASSUME TypeInv, SafetyInv, Booting, ExecuteFill
    PROVE  SafetyInv'
<1> DEFINE k == active_root_shell
<1>1. /\ cpu.pc = "load" /\ cpu'.pc = "setup" /\ cpu'.cmd = cpu.cmd
      /\ cpu'.sp = cpu.sp /\ cpu'.l = cpu.l /\ cpu.l \in Pid
  BY DEF ExecuteFill, At, Goto, TypeInv, TypeOK, Contexts, LocalsSet, LocalSet
<1>2. /\ UNCHANGED <<pcb_status_array, terminal, video, curr_term, shell_flag, irq0>>
      /\ curr_pid' = cpu.l
      /\ terms_pid' = [terms_pid EXCEPT ![curr_term] = cpu.l]
  BY DEF ExecuteFill
<1>3. /\ k < MAX_TERM /\ k \in Nat /\ MAX_TERM \in Nat \ {0} /\ MAX_TERM < 256
      /\ Busy = 0 .. IF k = MAX_TERM - 1 THEN k ELSE k + 1
      /\ cpu.l = IF k = MAX_TERM - 1 THEN 0 ELSE k + 1
      /\ active_proc_num = k
      /\ curr_term = 0
  BY <1>1, BootPhase DEF BootInv, At
<1>4. k \in 0 .. 254 /\ IsRoot(cpu.l)
  BY <1>3 DEF IsRoot
<1>5. active_root_shell' = k + 1 /\ active_proc_num' = k + 1
  BY <1>3, <1>4, NoWrap DEF ExecuteFill, CountRootShell
<1>6. Busy' = Busy
  BY <1>2 DEF Busy
<1>7. /\ \A t \in Term \ {0} : terms_pid'[t] = t
      /\ terms_pid'[0] = cpu.l
  BY <1>1, <1>2, <1>3, BootPhase, PidsAndTerms DEF BootInv, TypeInv, TypeOK
<1>8. \A t \in Term \ {0} : t < k + 1 => shell_flag[t]
  <2>1. \A t \in Term \ {0} : t <= k => shell_flag[t]
    BY <1>1, BootPhase DEF BootInv
  <2> QED BY <2>1, <1>3 DEF Term
<1>9. BootInv'
  BY <1>1, <1>2, <1>3, <1>4, <1>5, <1>6, <1>7, <1>8, BootPhase DEF BootInv, At, IsRoot
<1>10. ExecuteNotPreempted'
  BY PreemptionStep DEF Next, KernelStep, SafetyInv
<1>11. ScheduledDistinct' /\ FlagInv'
  BY <1>2 DEF SafetyInv, ScheduledDistinct, FlagInv, IsRoot
<1> QED BY <1>1, <1>2, <1>9, <1>10, <1>11, BootPhase DEF SafetyInv, Booting, At

LEMMA BootDeferStep ==
    ASSUME TypeInv, SafetyInv, Booting, ExecuteDefer
    PROVE  SafetyInv'
<1> DEFINE k == active_root_shell
<1>1. /\ cpu.pc = "setup" /\ cpu.cmd = "boot"
      /\ cpu' = Boot
  BY BootPhase DEF ExecuteDefer, At, ExecuteReturn
<1>2. cpu'.pc = "boot" /\ cpu'.sp = BootSp
  BY <1>1 DEF Boot, Context
<1>3. /\ UNCHANGED <<pcb_status_array, active_proc_num, active_root_shell, terminal,
                     video, curr_term, curr_pid, terms_pid, irq0>>
      /\ shell_flag' = [shell_flag EXCEPT ![cpu.l] = TRUE]
      /\ k < MAX_TERM
  BY DEF ExecuteDefer, sched
<1>4. /\ k \in Nat /\ MAX_TERM \in Nat \ {0} /\ 0 < k
      /\ cpu.l = k
      /\ Busy = 0 .. k
      /\ \A t \in Term \ {0} : t < k => shell_flag[t]
  BY <1>1, <1>3, BootPhase DEF BootInv, At
<1>5. \A p \in Pid : shell_flag'[p] = IF p = k THEN TRUE ELSE shell_flag[p]
  BY <1>3, <1>4 DEF TypeInv, TypeOK
<1>6. \A t \in Term \ {0} : t <= k => shell_flag'[t]
  <2>1. \A t \in Term : t <= k => t = k \/ t < k
    BY <1>4 DEF Term
  <2>2. \A t \in Term : t \in Pid
    BY PidsAndTerms
  <2> QED BY <1>4, <1>5, <2>1, <2>2, Zenon
<1>7. Busy' = Busy
  BY <1>3 DEF Busy
<1>8. BootInv'
  BY <1>2, <1>3, <1>4, <1>6, <1>7, BootPhase DEF BootInv, At, IsRoot
<1>9. ExecuteNotPreempted'
  BY PreemptionStep DEF Next, KernelStep, SafetyInv
<1>10. ScheduledDistinct'
  BY <1>3 DEF SafetyInv, ScheduledDistinct
<1>11. FlagInv'
  BY <1>3, <1>4, <1>5 DEF SafetyInv, FlagInv, IsRoot
<1> QED BY <1>2, <1>3, <1>8, <1>9, <1>10, <1>11, BootPhase DEF SafetyInv, Booting, At

\* The last root shell is launched: the boot phase ends.
LEMMA BootLaunchStep ==
    ASSUME TypeInv, SafetyInv, Booting, ExecuteLaunch
    PROVE  SafetyInv'
<1>1. /\ cpu.pc = "setup" /\ cpu'.pc = "launch" /\ cpu'.l = cpu.l
      /\ cpu'.sp = cpu.sp
  BY DEF ExecuteLaunch, At, Goto, TypeInv, TypeOK, Contexts
<1>2. active_root_shell = MAX_TERM
  <2>1. active_root_shell >= MAX_TERM /\ active_root_shell <= MAX_TERM
    BY <1>1, BootPhase DEF BootInv, At, ExecuteLaunch
  <2> QED BY <2>1, BootPhase
<1>3. /\ cpu.l = 0 /\ curr_pid = 0 /\ terms_pid[0] = 0 /\ curr_term = 0
      /\ Busy = 0 .. MAX_TERM - 1
      /\ cpu.sp = BootSp
      /\ active_proc_num = MAX_TERM
      /\ \A t \in Term \ {0} : t < MAX_TERM => shell_flag[t]
      /\ \A t \in Term : terminal[t].pid = t /\ video[t] = t
      /\ \A t \in Term \ {0} : terms_pid[t] = t
  BY <1>1, <1>2, BootPhase DEF BootInv, At
<1>4. IsRoot(curr_pid)
  BY BootPhase
<1>5. /\ UNCHANGED <<pcb_status_array, parent_pcb, active_proc_num, active_root_shell,
                     terminal, curr_pid, curr_term, terms_pid, shell_flag>>
      /\ video' = [video EXCEPT ![0] = 0]
      /\ tss_esp0' = Top(0)
      /\ cr3' = 0
  BY <1>3, <1>4 DEF ExecuteLaunch, FlushTlb
<1>6. \A t \in Term : video'[t] = t
  BY <1>3, <1>5, PidsAndTerms DEF TypeInv, TypeOK
<1>7. Busy' = Term /\ Kids' = {}
  BY <1>3, <1>5, PidsAndTerms DEF Busy, Kids, Children, Term
<1>8. LabelInv'
  BY <1>1 DEF LabelInv
<1>9. CounterInv'
  BY <1>1, <1>2, <1>3, <1>5, <1>7, RootsCount DEF CounterInv, RootUncounted, RootGone, At, Term
<1>10. RootInv'
  BY <1>7 DEF RootInv, Busy
<1>11. Settled' /\ pcb_status_array'[curr_pid'] = 1
  BY <1>3, <1>5, <1>6, <1>7, PidsAndTerms DEF Settled, Top, Sp, Busy
<1>12. CurrentInv'
  <2>1. cpu'.sp.stk = NULL
    BY <1>1, <1>3 DEF BootSp, Sp
  <2>2. ContextOf(cpu, curr_pid)'
    BY <1>1, <1>3, <1>4, <1>5, <2>1 DEF ContextOf, IsRoot
  <2> QED BY <1>1, <1>11, <2>2 DEF CurrentInv, RootGone, At
<1>13. LeavingInv'
  BY <1>1 DEF LeavingInv, Leaving, At
<1>14. SuspendedInv'
  <2>1. \A t \in Term : t < MAX_TERM
    BY ConstantsAssumption DEF Term
  <2> QED BY <1>3, <1>5, <1>6, <1>7, <2>1 DEF SuspendedInv, Busy
<1>15. ParentInv'
  BY <1>7 DEF ParentInv, Waits
<1>16. OwnerInv'
  BY <1>3, <1>5, <1>7 DEF OwnerInv
<1>17. ExecuteNotPreempted'
  BY PreemptionStep DEF Next, KernelStep, SafetyInv
<1>18. ScheduledDistinct' /\ FlagInv'
  BY <1>5 DEF SafetyInv, ScheduledDistinct, FlagInv, IsRoot
<1> QED
  BY <1>1, <1>8, <1>9, <1>10, <1>12, <1>13, <1>14, <1>15, <1>16, <1>17, <1>18
  DEF SafetyInv, RunInv, Booting, At

\* The steps the boot phase can take.
LEMMA BootActions ==
    ASSUME TypeInv, SafetyInv, Booting, [Next]_vars
    PROVE  \/ BootExecute \/ ExecuteClaim \/ ExecuteFill \/ ExecuteDefer \/ ExecuteLaunch
           \/ \E t \in Term : SwitchTerm(t)
           \/ Hang \/ UNCHANGED vars
<1> USE BootPhase
<1>1. ~ExecuteFull
  <2> SUFFICES ASSUME ExecuteFull PROVE FALSE
    OBVIOUS
  <2>1. cpu.pc = "exec" /\ \A p \in Pid : p \in Busy
    BY DEF ExecuteFull, At, Busy
  <2>2. /\ active_root_shell < MAX_TERM
        /\ Busy = IF active_root_shell = MAX_TERM - 1 THEN 1 .. active_root_shell
                                                      ELSE 0 .. active_root_shell
    BY <2>1 DEF BootInv, At
  <2> QED BY <2>1, <2>2, PidsAndTerms, ConstantsAssumption DEF Pid
<1>2. ~(ExecuteError \/ ExecuteClear \/ ExecuteLoadFail \/ ExecuteNullParent)
  BY DEF ExecuteError, ExecuteClear, ExecuteLoadFail, ExecuteNullParent, NotRunnable, At
<1>3. ~(JumpToProgram \/ HaltRoot \/ HaltRestart \/ HaltFree \/ HaltEsp0 \/ HaltParent
        \/ HaltTerminal \/ ExitToShell \/ Iret)
  BY DEF JumpToProgram, HaltRoot, HaltRestart, HaltFree, HaltEsp0, HaltParent,
         HaltTerminal, ExitToShell, Iret, At
<1>4. ~UserStep
  BY DEF UserStep, ExecuteEnter, HaltEnter, IoEnter, BadStack, At
<1>5. ~(Tick \/ CtrlCSpin \/ CtrlCKill)
  BY DEF Tick, TickStay, TickSwitch, TickRootShell, TimerInterrupt, CtrlCSpin,
         CtrlCKill, CtrlC
<1> QED
  BY <1>1, <1>2, <1>3, <1>4, <1>5 DEF Next, KernelStep, Keyboard

LEMMA BootStep ==
    ASSUME TypeInv, SafetyInv, Booting, [Next]_vars
    PROVE  SafetyInv'
<1> USE BootPhase
<1>1. ASSUME /\ UNCHANGED <<proc, curr_pid, curr_term, terms_pid, cpu, irq0, video>>
             /\ \A t \in Term : terminal'[t].pid = terminal[t].pid
      PROVE  SafetyInv'
  <2>1. Busy' = Busy
    BY <1>1 DEF Busy, proc
  <2>2. BootInv'
    BY <1>1, <2>1 DEF BootInv, At, IsRoot, proc
  <2>3. ExecuteNotPreempted' /\ ScheduledDistinct' /\ FlagInv'
    BY <1>1 DEF SafetyInv, ExecuteNotPreempted, ScheduledDistinct, FlagInv, IsRoot, proc
  <2> QED BY <1>1, <2>2, <2>3 DEF SafetyInv, Booting, At
<1>2. CASE \E t \in Term : SwitchTerm(t)
  <2>1. \A t \in Term : terminal'[t].pid = terminal[t].pid
    BY <1>2 DEF SwitchTerm, TypeInv, TypeOK
  <2> QED BY <1>1, <1>2, <2>1 DEF SwitchTerm, hw
<1>3. CASE Hang \/ UNCHANGED vars
  BY <1>1, <1>3 DEF Hang, vars, sched, hw
<1> QED
  BY <1>2, <1>3, BootActions, BootExecuteStep, BootClaimStep, BootFillStep,
     BootDeferStep, BootLaunchStep

-----------------------------------------------------------------------------
(* After boot: steps that change the running context only.                  *)

tables == <<pcb_status_array, parent_pcb, shell_flag, the_esp, great_esp,
            active_root_shell, shell_esp_array, curr_pid, curr_term, terms_pid,
            terminal, tss_esp0, cr3, video>>

LEMMA RunPhase ==
    ASSUME TypeInv, SafetyInv, ~Booting
    PROVE  /\ RunInv /\ cpu.pc # "boot"
           /\ cpu.pc # "launch" => cpu.cmd # "boot"
           /\ ScheduledDistinct /\ FlagInv /\ ExecuteNotPreempted
           /\ MAX_TERM \in Nat \ {0} /\ MAX_TERM < 256
           /\ curr_pid \in Pid /\ curr_term \in Term
           /\ \A t \in Term : terminal[t].pid \in Pid
           /\ cpu \in Contexts
           /\ NULL \notin Pid
BY ConstantsAssumption, PidsAndTerms DEF SafetyInv, Booting, At, TypeInv, TypeOK

\* What is left to show about a step from after boot to after boot.
LEMMA RunCombine ==
    ASSUME TypeInv, SafetyInv, [Next]_vars, ScheduledDistinct', FlagInv', RunInv',
           cpu'.pc # "launch" => cpu'.cmd # "boot"
    PROVE  SafetyInv' /\ ~Booting'
<1>1. ExecuteNotPreempted'
  BY PreemptionStep DEF SafetyInv
<1>2. cpu'.pc # "boot"
  BY DEF RunInv, LabelInv
<1> QED BY <1>1, <1>2 DEF SafetyInv, Booting, At

\* Points at which the current process owns its terminal and its stack.
SettledLabels == {"user", "io", "return", "halt", "exec", "spin"}

LEMMA SettledStep ==
    ASSUME TypeInv, SafetyInv, ~Booting, [Next]_vars, UNCHANGED tables,
           cpu.pc \in SettledLabels, ~RootGone,
           cpu'.pc \in SettledLabels, ~RootGone',
           LabelInv', cpu'.cmd # "boot",
           ContextOf(cpu', curr_pid),
           active_proc_num' = IF cpu'.pc = "halt" THEN Cardinality(Busy) - 1
                                                  ELSE Cardinality(Busy)
    PROVE  SafetyInv'
<1> USE RunPhase
<1>1. /\ Busy' = Busy /\ Children' = Children
      /\ Claimed = {} /\ Claimed' = {}
      /\ Kids' = Kids
  BY DEF Busy, Children, Claimed, Kids, tables, SettledLabels, IsRoot
<1>2. CounterInv'
  BY <1>1 DEF CounterInv, RunInv, tables, SettledLabels, RootUncounted, RootGone, At
<1>3. RootInv'
  BY DEF RootInv, RunInv, tables
<1>4. Settled /\ pcb_status_array[curr_pid] = 1
  BY DEF RunInv, CurrentInv, SettledLabels, RootGone, At
<1>5. Settled' /\ pcb_status_array'[curr_pid'] = 1
  BY <1>4 DEF Settled, tables
<1>6. CurrentInv'
  <2>1. ContextOf(cpu, curr_pid)'
    BY DEF ContextOf, tables, IsRoot
  <2>2. cpu'.pc \notin {"load", "setup"}
    BY DEF SettledLabels
  <2> QED BY <1>5, <2>1, <2>2 DEF CurrentInv, RootGone, At
<1>7. LeavingInv'
  BY DEF LeavingInv, Leaving, SettledLabels, At
<1>8. SuspendedInv'
  BY DEF SuspendedInv, RunInv, tables, Resumable, ContextOf, IsRoot
<1>9. ParentInv'
  <2>1. \A p, q : Framed(p, q) => Framed(p, q)'
    BY DEF Framed, tables, SettledLabels, At
  <2> QED BY <1>1, <2>1 DEF ParentInv, Waits, RunInv, tables
<1>10. OwnerInv'
  BY <1>1 DEF OwnerInv, RunInv, tables, Leaving, SettledLabels
<1>11. ScheduledDistinct' /\ FlagInv'
  BY DEF ScheduledDistinct, FlagInv, tables, IsRoot
<1> QED
  BY <1>2, <1>3, <1>6, <1>7, <1>8, <1>9, <1>10, <1>11, RunCombine DEF RunInv

\* User programs enter the kernel and come back.
LEMMA EntryStep ==
    ASSUME Shielded, TypeInv, SafetyInv, ~Booting,
           \/ \E c \in Commands : ExecuteEnter(c)
           \/ HaltEnter \/ IoEnter \/ Iret \/ CtrlCSpin \/ CtrlCKill
    PROVE  SafetyInv'
<1> USE RunPhase
<1>n. [Next]_vars
  BY DEF Next, KernelStep, UserStep, Keyboard
<1>1. cpu.pc \in {"user", "io", "return", "exec"} /\ ~RootGone
  <2>1. CASE ~CtrlC
    BY <2>1 DEF ExecuteEnter, HaltEnter, IoEnter, Iret, CtrlCSpin, CtrlCKill, At, RootGone
  <2>2. CASE CtrlC
    <3>1. cpu.pc \in {"user", "io", "return", "exec"} /\ ~IsRoot(curr_pid)
      BY <2>2 DEF CtrlC, Shielded
    <3>2. RootGone => IsRoot(curr_pid)
      BY DEF RunInv, CurrentInv
    <3> QED BY <3>1, <3>2
  <2> QED BY <2>1, <2>2
<1>2. Settled /\ tss_esp0.stk = curr_pid /\ pcb_status_array[curr_pid] = 1
  BY <1>1 DEF RunInv, CurrentInv, Settled, RootGone, At
<1>3. UNCHANGED tables
  BY DEF tables, ExecuteEnter, HaltEnter, IoEnter, Iret, CtrlCSpin, CtrlCKill, proc, sched
<1>4. KernelSp.stk = curr_pid
  <2>1. cpu.pc # "user" => cpu.sp.stk = curr_pid
    BY <1>1 DEF RunInv, CurrentInv, ContextOf
  <2> QED BY <1>2, <2>1 DEF KernelSp
<1>5. /\ cpu'.pc \in SettledLabels /\ ~RootGone' /\ cpu'.cmd # "boot"
      /\ LabelInv'
      /\ cpu'.pc \notin {"user", "spin"} => cpu'.sp.stk = curr_pid
  <2>1. CASE \E c \in Commands : ExecuteEnter(c)
    <3>1. PICK c \in Commands : ExecuteEnter(c)
      BY <2>1
    <3>2. c \in {"elf", "bad", "clear"}
      BY ConstantsAssumption DEF Shielded, CommandKinds
    <3>3. cpu'.pc = "exec" /\ cpu'.cmd = c /\ cpu'.sp = Deeper(tss_esp0)
      BY <3>1 DEF ExecuteEnter, Contexts
    <3> QED BY <3>2, <3>3, <1>2 DEF SettledLabels, RootGone, At, LabelInv, Deeper, Sp
  <2>2. CASE HaltEnter \/ IoEnter
    <3>1. cpu'.pc \in {"halt", "io"} /\ cpu'.cmd = cpu.cmd /\ cpu'.sp = tss_esp0
          /\ cpu.pc = "user"
      BY <2>2 DEF HaltEnter, IoEnter, Contexts, At
    <3> QED BY <3>1, <1>2 DEF SettledLabels, RootGone, At, LabelInv
  <2>3. CASE Iret
    <3>1. cpu'.pc = "user" /\ cpu'.cmd = "none"
      BY <2>3 DEF Iret, User, Context
    <3> QED BY <3>1 DEF SettledLabels, RootGone, At, LabelInv
  <2>4. CASE CtrlCSpin \/ CtrlCKill
    <3>1. cpu'.pc \in {"spin", "halt"} /\ cpu'.cmd = cpu.cmd /\ cpu'.sp = KernelSp
          /\ ~cpu'.ifl
      BY <2>4 DEF CtrlCSpin, CtrlCKill, Contexts
    <3> QED BY <3>1, <1>1, <1>4 DEF SettledLabels, RootGone, At, LabelInv
  <2> QED BY <2>1, <2>2, <2>3, <2>4
<1>6. ContextOf(cpu', curr_pid)
  BY <1>5 DEF ContextOf, SettledLabels
<1>7. active_proc_num' = IF cpu'.pc = "halt" THEN Cardinality(Busy) - 1
                                             ELSE Cardinality(Busy)
  <2>1. active_proc_num = Cardinality(Busy)
    BY <1>1 DEF RunInv, CounterInv
  <2>2. CASE HaltEnter \/ CtrlCKill
    <3>1. cpu'.pc = "halt" /\ active_proc_num' = Dec(active_proc_num)
      BY <2>2 DEF HaltEnter, CtrlCKill, Contexts
    <3>2. Busy # {}
      BY <1>2 DEF Busy
    <3>3. active_proc_num \in 1 .. 255
      BY <2>1, <3>2, BusyFinite DEF TypeInv
    <3> QED BY <2>1, <3>1, <3>3, NoWrap
  <2>3. CASE ~(HaltEnter \/ CtrlCKill)
    <3>1. cpu'.pc # "halt" /\ active_proc_num' = active_proc_num
      <4>1. CASE \E c \in Commands : ExecuteEnter(c)
        BY <4>1 DEF ExecuteEnter, Contexts, proc
      <4>2. CASE IoEnter \/ CtrlCSpin
        BY <4>2 DEF IoEnter, CtrlCSpin, Contexts, proc
      <4>3. CASE Iret
        BY <4>3 DEF Iret, User, Context, proc
      <4> QED BY <2>3, <4>1, <4>2, <4>3
    <3> QED BY <2>1, <3>1
  <2> QED BY <2>2, <2>3
<1>8. cpu.pc \in SettledLabels
  BY <1>1 DEF SettledLabels
<1> QED BY <1>n, <1>1, <1>3, <1>5, <1>6, <1>7, <1>8, SettledStep

-----------------------------------------------------------------------------
(* After boot: execute.                                                     *)

\* The error returns, the built-in command, and MAXIMUM PROCESSES, which a
\* restarting root shell cannot meet: the slot it gave up is free.
LEMMA ReturnStep ==
    ASSUME TypeInv, SafetyInv, ~Booting, ExecuteError \/ ExecuteClear \/ ExecuteFull
    PROVE  SafetyInv'
<1> USE RunPhase
<1>n. [Next]_vars
  BY DEF Next, KernelStep
<1>1. cpu.pc = "exec" /\ cpu.cmd # "restart"
  <2>1. cpu.pc = "exec"
    BY DEF ExecuteError, ExecuteClear, ExecuteFull, At
  <2>2. CASE ~ExecuteFull
    BY <2>1, <2>2 DEF ExecuteError, ExecuteClear, NotRunnable
  <2>3. CASE ExecuteFull
    <3>1. pcb_status_array[curr_pid] = 1
      BY <2>3 DEF ExecuteFull
    <3> QED BY <2>1, <3>1 DEF RunInv, CurrentInv, RootGone, At
  <2> QED BY <2>1, <2>2, <2>3
<1>2. UNCHANGED tables /\ active_proc_num' = active_proc_num
  BY DEF tables, ExecuteError, ExecuteClear, ExecuteFull, proc, sched
<1>3. cpu' = User(cpu.uif)
  BY <1>1 DEF ExecuteError, ExecuteClear, ExecuteFull, ExecuteReturn
<1>4. cpu'.pc = "user" /\ cpu'.cmd = "none"
  BY <1>3 DEF User, Context
<1>5. ~RootGone /\ ~RootGone' /\ LabelInv' /\ cpu.pc \in SettledLabels
      /\ cpu'.pc \in SettledLabels
  BY <1>1, <1>4 DEF RootGone, At, LabelInv, SettledLabels
<1>6. ContextOf(cpu', curr_pid)
  BY <1>4 DEF ContextOf
<1>7. active_proc_num' = Cardinality(Busy)
  BY <1>1, <1>2 DEF RunInv, CounterInv
<1> QED BY <1>n, <1>2, <1>4, <1>5, <1>6, <1>7, SettledStep

\* The slot claimed is the root shell's own when one restarts, and a slot above
\* the root shells' otherwise.
LEMMA ClaimedSlot ==
    ASSUME TypeInv, SafetyInv, ~Booting, At("exec"), NEW i \in Pid, FirstFree(i)
    PROVE  /\ pcb_status_array[i] = 0
           /\ cpu.cmd = "restart" => i = curr_pid /\ IsRoot(i)
           /\ cpu.cmd # "restart" => ~IsRoot(i) /\ i # curr_pid
           /\ IsRoot(i) <=> cpu.cmd = "restart"
<1> USE RunPhase
<1>1. pcb_status_array[i] = 0 /\ \A j \in Pid : j < i => pcb_status_array[j] = 1
  BY DEF FirstFree
<1>2. \A p \in Term : pcb_status_array[p] = 1 \/ (RootGone /\ p = curr_pid)
  BY DEF RunInv, RootInv
<1>3. CASE cpu.cmd = "restart"
  <2>1. IsRoot(curr_pid) /\ pcb_status_array[curr_pid] = 0
    BY <1>3 DEF RunInv, CurrentInv, RootGone, At
  <2>2. ~(curr_pid < i)
    BY <1>1, <2>1
  <2>3. i \in Term
    BY <2>1, <2>2, ConstantsAssumption DEF IsRoot, Term, Pid
  <2> QED BY <1>1, <1>2, <1>3, <2>1, <2>3, PidsAndTerms
<1>4. CASE cpu.cmd # "restart"
  <2>1. ~RootGone /\ pcb_status_array[curr_pid] = 1
    BY <1>4 DEF RunInv, CurrentInv, RootGone, At
  <2> QED BY <1>1, <1>2, <1>4, <2>1, PidsAndTerms
<1> QED BY <1>3, <1>4

LEMMA ClaimStep ==
    ASSUME TypeInv, SafetyInv, ~Booting, ExecuteClaim
    PROVE  SafetyInv'
<1> USE RunPhase
<1>n. [Next]_vars
  BY DEF Next, KernelStep
<1>1. PICK i \in Pid :
        /\ FirstFree(i)
        /\ pcb_status_array' = [pcb_status_array EXCEPT ![i] = 1]
        /\ cr3' = i
        /\ cpu' = [cpu EXCEPT !.pc = "load", !.l = i]
  BY DEF ExecuteClaim, FlushTlb
<1>2. /\ cpu.pc = "exec" /\ cpu'.pc = "load" /\ cpu'.cmd = cpu.cmd
      /\ cpu'.sp = cpu.sp /\ cpu'.l = i
      /\ cpu.cmd \in {"elf", "restart"}
  <2>1. cpu.cmd \in {"elf", "bad", "clear", "restart"} /\ cpu.pc = "exec" /\ Runnable
    BY DEF RunInv, LabelInv, ExecuteClaim, At
  <2> QED BY <1>1, <2>1 DEF Runnable, Contexts
<1>3. UNCHANGED <<parent_pcb, shell_flag, the_esp, great_esp, active_proc_num,
                  active_root_shell, shell_esp_array, terminal, terms_pid, curr_pid,
                  curr_term, tss_esp0, video>>
  BY DEF ExecuteClaim, sched
<1>4. /\ pcb_status_array[i] = 0
      /\ cpu.cmd = "restart" => i = curr_pid
      /\ cpu.cmd # "restart" => i # curr_pid
      /\ IsRoot(i) <=> cpu.cmd = "restart"
  BY <1>1, <1>2, ClaimedSlot DEF At
<1>5. \A p \in Pid : pcb_status_array'[p] = IF p = i THEN 1 ELSE pcb_status_array[p]
  BY <1>1 DEF TypeInv, TypeOK
<1>6. Busy' = Busy \cup {i} /\ Cardinality(Busy') = Cardinality(Busy) + 1
  BY <1>1, <1>4, BusyGrows DEF TypeInv
<1>7. Kids' = Kids
  <2>1. Claimed' = {i} /\ Claimed = {}
    BY <1>2 DEF Claimed
  <2> QED BY <2>1, <1>4, <1>6 DEF Kids, Children, Busy, IsRoot
<1>8. LabelInv'
  BY <1>2 DEF LabelInv
<1>9. CounterInv'
  <2>1. active_proc_num = Cardinality(Busy)
    BY <1>2 DEF RunInv, CounterInv
  <2>2. RootUncounted <=> RootUncounted'
    BY <1>2 DEF RootUncounted, RootGone, At
  <2>3. Cardinality(Busy) \in Nat
    BY BusyFinite DEF TypeInv
  <2> QED BY <1>2, <1>3, <1>6, <2>1, <2>2, <2>3 DEF RunInv, CounterInv
<1>10. RootInv'
  <2>1. \A p \in Term : pcb_status_array[p] = 1 \/ p = i
    BY <1>2, <1>4 DEF RunInv, RootInv, RootGone, At
  <2> QED BY <2>1, <1>5, PidsAndTerms DEF RootInv
<1>11. Settled /\ (cpu.cmd # "restart" => pcb_status_array[curr_pid] = 1)
       /\ cpu.sp.stk = curr_pid
  BY <1>2 DEF RunInv, CurrentInv, RootGone, At, ContextOf
<1>12. CurrentInv'
  <2>1. ContextOf(cpu, curr_pid)'
    BY <1>2 DEF ContextOf
  <2>2. pcb_status_array'[i] = 1
    BY <1>5
  <2>3. cpu.cmd = "restart" => Settled'
    BY <1>1, <1>3, <1>4, <1>11 DEF Settled
  <2>4. cpu.cmd # "restart" =>
          /\ \A t \in Term : terminal[t].pid # i
          /\ \A r \in Kids : parent_pcb[r] # i
    <3>1. cpu.cmd # "restart" => \A t \in Term : pcb_status_array[terminal[t].pid] = 1
      BY <1>11 DEF RunInv, SuspendedInv, Settled
    <3>2. \A r \in Kids : pcb_status_array[parent_pcb[r]] = 1
      BY DEF RunInv, ParentInv, Waits
    <3> QED BY <3>1, <3>2, <1>4
  <2>5. cpu.cmd # "restart" =>
          /\ terminal'[curr_term'].pid = curr_pid'
          /\ video'[curr_pid'] = curr_term'
          /\ tss_esp0'.stk = curr_pid'
          /\ pcb_status_array'[curr_pid'] = 1
    BY <1>3, <1>4, <1>5, <1>11 DEF Settled
  <2>6. IsRoot(cpu.l)' <=> cpu'.cmd = "restart"
    BY <1>2, <1>4 DEF IsRoot
  <2> QED
    BY <1>2, <1>3, <1>4, <1>7, <1>11, <2>1, <2>2, <2>3, <2>4, <2>5, <2>6
    DEF CurrentInv, RootGone, At
<1>13. LeavingInv'
  BY <1>2 DEF LeavingInv, Leaving, At
<1>14. SuspendedInv'
  <2>1. \A t \in Term \ {curr_term} : pcb_status_array'[terminal[t].pid] = 1
    BY <1>5 DEF RunInv, SuspendedInv
  <2> QED BY <2>1, <1>3 DEF RunInv, SuspendedInv, Resumable, ContextOf, IsRoot
<1>15. ParentInv'
  <2>1. \A p, q : Framed(p, q) => Framed(p, q)'
    BY <1>2, <1>3 DEF Framed, At
  <2>2. \A p \in Kids : parent_pcb[p] \in Pid
    BY DEF RunInv, ParentInv, Waits, Kids, Children, Busy, TypeInv, TypeOK
  <2>3. \A p \in Kids : pcb_status_array'[parent_pcb[p]] = 1
    BY <1>5, <2>2 DEF RunInv, ParentInv, Waits
  <2> QED BY <2>1, <2>3, <1>3, <1>7 DEF RunInv, ParentInv, Waits
<1>16. OwnerInv'
  <2>1. i \in Claimed'
    BY <1>2 DEF Claimed
  <2>2. Claimed = {} /\ ~Leaving
    BY <1>2 DEF Claimed, Leaving
  <2> QED BY <2>1, <2>2, <1>3, <1>6, <1>7 DEF RunInv, OwnerInv
<1>17. ScheduledDistinct' /\ FlagInv'
  BY <1>3 DEF ScheduledDistinct, FlagInv, IsRoot
<1>18. RunInv'
  BY <1>8, <1>9, <1>10, <1>12, <1>13, <1>14, <1>15, <1>16 DEF RunInv
<1> QED BY <1>n, <1>2, <1>17, <1>18, RunCombine

LEMMA FillStep ==
    ASSUME TypeInv, SafetyInv, ~Booting, ExecuteFill
    PROVE  SafetyInv'
<1> USE RunPhase
<1>n. [Next]_vars
  BY DEF Next, KernelStep
<1>1. /\ cpu.pc = "load" /\ cpu'.pc = "setup" /\ cpu'.cmd = cpu.cmd
      /\ cpu'.sp = cpu.sp /\ cpu'.l = cpu.l /\ cpu.l \in Pid
      /\ cpu.cmd \in {"elf", "restart"}
  BY DEF ExecuteFill, At, Goto, Contexts, TypeInv, LocalsSet, LocalSet, RunInv, LabelInv
<1>2. /\ UNCHANGED <<pcb_status_array, shell_flag, the_esp, great_esp, shell_esp_array,
                     terminal, curr_term, tss_esp0, video, cr3>>
      /\ parent_pcb' = [parent_pcb EXCEPT ![cpu.l] = NewParent]
      /\ curr_pid' = cpu.l
      /\ terms_pid' = [terms_pid EXCEPT ![curr_term] = cpu.l]
      /\ active_proc_num' = Inc(active_proc_num)
      /\ CountRootShell
  BY DEF ExecuteFill
<1>3. /\ pcb_status_array[cpu.l] = 1
      /\ IsRoot(cpu.l) <=> cpu.cmd = "restart"
      /\ cpu.cmd = "restart" => Settled /\ curr_pid = cpu.l
      /\ cpu.sp.stk = curr_pid
      /\ cpu.cmd # "restart" =>
           /\ terminal[curr_term].pid = curr_pid
           /\ video[curr_pid] = curr_term
           /\ tss_esp0.stk = curr_pid
           /\ pcb_status_array[curr_pid] = 1
           /\ \A t \in Term : terminal[t].pid # cpu.l
           /\ \A r \in Kids : parent_pcb[r] # cpu.l
  BY <1>1 DEF RunInv, CurrentInv, At
<1>4. /\ \A p \in Pid : p # cpu.l => parent_pcb'[p] = parent_pcb[p]
      /\ parent_pcb'[cpu.l] = NewParent
      /\ \A t \in Term : t # curr_term => terms_pid'[t] = terms_pid[t]
      /\ terms_pid'[curr_term] = cpu.l
  BY <1>1, <1>2 DEF TypeInv, TypeOK
<1>5. /\ Busy' = Busy /\ Claimed = {cpu.l} /\ Claimed' = {cpu.l}
      /\ Kids' = Kids /\ Kids \subseteq Pid /\ cpu.l \notin Kids
  BY <1>1, <1>2 DEF Busy, Claimed, Kids, Children, IsRoot
<1>6. \A r \in Kids : parent_pcb'[r] = parent_pcb[r]
  BY <1>4, <1>5
<1>7. active_proc_num = Cardinality(Busy) - 1 /\ Cardinality(Busy) \in 1 .. 255
  <2>1. Busy # {}
    BY <1>1, <1>3 DEF Busy
  <2> QED BY <1>1, <2>1, BusyFinite DEF RunInv, CounterInv, TypeInv
<1>8. active_proc_num' = Cardinality(Busy)
  BY <1>2, <1>7, NoWrap
<1>9. cpu.cmd # "restart" => NewParent = curr_pid
  <2> SUFFICES ASSUME cpu.cmd # "restart" PROVE NewParent = curr_pid
    OBVIOUS
  <2>1. Term \subseteq Busy
    BY <1>1, PidsAndTerms DEF RunInv, RootInv, RootGone, At, Busy
  <2>2. cpu.l \in Busy /\ cpu.l \notin Term
    BY <1>1, <1>3, PidsAndTerms DEF Busy
  <2>3. Cardinality(Busy) > MAX_TERM
    BY <2>1, <2>2, BusyAboveRoots DEF TypeInv
  <2> QED BY <1>2, <1>8, <2>3 DEF NewParent
<1>10. LabelInv'
  BY <1>1 DEF LabelInv
<1>11. CounterInv'
  <2>1. active_root_shell = IF cpu.cmd = "restart" THEN MAX_TERM - 1 ELSE MAX_TERM
    BY <1>1 DEF RunInv, CounterInv, RootUncounted, RootGone, At
  <2>2. active_root_shell' = MAX_TERM
    BY <1>2, <1>3, <2>1, NoWrap DEF CountRootShell
  <2> QED
    BY <1>1, <1>5, <1>8, <2>2 DEF CounterInv, RootUncounted, RootGone, At
<1>12. RootInv'
  BY <1>1, <1>2 DEF RunInv, RootInv, RootGone, At
<1>13. CurrentInv'
  <2>1. ContextOf(cpu, curr_pid)'
    BY <1>1 DEF ContextOf
  <2>2. cpu.cmd = "restart" => Settled'
    BY <1>1, <1>2, <1>3, <1>4 DEF Settled
  <2>3. cpu.cmd # "restart" =>
         /\ parent_pcb'[cpu.l] = terminal'[curr_term'].pid
         /\ video'[terminal'[curr_term'].pid] = curr_term'
         /\ pcb_status_array'[terminal'[curr_term'].pid] = 1
         /\ cpu'.sp.stk = terminal'[curr_term'].pid
         /\ terms_pid'[curr_term'] = cpu.l
         /\ \A t \in Term : terminal'[t].pid # cpu.l
         /\ \A r \in Kids : parent_pcb'[r] # cpu.l
    BY <1>1, <1>2, <1>3, <1>4, <1>6, <1>9
  <2>4. IsRoot(cpu.l)' <=> cpu'.cmd = "restart"
    BY <1>1, <1>3 DEF IsRoot
  <2> QED
    BY <1>1, <1>2, <1>3, <1>5, <2>1, <2>2, <2>3, <2>4 DEF CurrentInv, RootGone, At
<1>14. LeavingInv'
  BY <1>1 DEF LeavingInv, Leaving, At
<1>15. SuspendedInv'
  <2>1. \A t \in Term \ {curr_term} :
          ~IsRoot(terminal[t].pid) => parent_pcb'[terminal[t].pid] = parent_pcb[terminal[t].pid]
    BY <1>1, <1>3, <1>4
  <2>2. \A t \in Term \ {curr_term} :
          Resumable(great_esp[terminal[t].pid], terminal[t].pid)
            => Resumable(great_esp[terminal[t].pid], terminal[t].pid)'
    BY <2>1, <1>2 DEF Resumable, ContextOf, IsRoot
  <2> QED BY <2>2, <1>2, <1>4 DEF RunInv, SuspendedInv
<1>16. ParentInv'
  <2>1. \A p \in Kids : \A q : Framed(p, q) => Framed(p, q)'
    BY <1>1, <1>2, <1>5 DEF Framed, At
  <2>2. \A p \in Kids :
          LET q == parent_pcb[p] IN
            /\ q # NULL
            /\ pcb_status_array[q] = 1
            /\ video[q] = video[p]
            /\ the_esp[q].stk = q
            /\ \A t \in Term : terminal[t].pid # q
            /\ \A r \in Kids : parent_pcb[r] = q => r = p
            /\ Framed(p, q)
    BY DEF RunInv, ParentInv, Waits
  <2> QED BY <2>1, <2>2, <1>2, <1>5, <1>6 DEF ParentInv, Waits
<1>17. OwnerInv'
  BY <1>1, <1>2, <1>5, <1>6 DEF RunInv, OwnerInv, Leaving
<1>18. ScheduledDistinct' /\ FlagInv'
  BY <1>2 DEF ScheduledDistinct, FlagInv, IsRoot
<1>19. RunInv'
  BY <1>10, <1>11, <1>12, <1>13, <1>14, <1>15, <1>16, <1>17 DEF RunInv
<1> QED BY <1>n, <1>1, <1>18, <1>19, RunCombine

\* A restarted root shell is launched: its terminal was its own all along.
LEMMA LaunchRootStep ==
    ASSUME TypeInv, SafetyInv, ~Booting, ExecuteLaunch, cpu.cmd = "restart"
    PROVE  SafetyInv'
<1> USE RunPhase
<1>n. [Next]_vars
  BY DEF Next, KernelStep
<1>1. /\ cpu.pc = "setup" /\ cpu'.pc = "launch" /\ cpu'.l = cpu.l
      /\ cpu'.sp = cpu.sp /\ cpu.l \in Pid
  BY DEF ExecuteLaunch, At, Goto, Contexts, TypeInv, LocalsSet, LocalSet
<1>2. /\ pcb_status_array[cpu.l] = 1 /\ IsRoot(cpu.l)
      /\ Settled /\ curr_pid = cpu.l /\ cpu.sp.stk = curr_pid
  BY <1>1 DEF RunInv, CurrentInv, At
<1>3. /\ UNCHANGED <<pcb_status_array, parent_pcb, shell_flag, the_esp, great_esp,
                     active_proc_num, active_root_shell, shell_esp_array, curr_pid,
                     curr_term, terms_pid, terminal>>
      /\ video' = [video EXCEPT ![curr_pid] = curr_term]
      /\ tss_esp0' = Top(curr_pid)
      /\ cr3' = curr_pid
  BY <1>2 DEF ExecuteLaunch, FlushTlb
<1>4. video' = video
  BY <1>2, <1>3 DEF Settled, TypeInv, TypeOK
<1>5. /\ Busy' = Busy /\ Claimed = {curr_pid} /\ Claimed' = {}
      /\ Kids' = Kids /\ curr_pid \notin Kids
  BY <1>1, <1>2, <1>3 DEF Busy, Claimed, Kids, Children, IsRoot
<1>6. LabelInv'
  BY <1>1 DEF LabelInv
<1>7. CounterInv'
  BY <1>1, <1>3, <1>5 DEF RunInv, CounterInv, RootUncounted, RootGone, At
<1>8. RootInv'
  BY <1>1, <1>3 DEF RunInv, RootInv, RootGone, At
<1>9. Settled' /\ pcb_status_array'[curr_pid'] = 1
  BY <1>2, <1>3, <1>4 DEF Settled, Top, Sp
<1>10. CurrentInv'
  <2>1. ContextOf(cpu, curr_pid)'
    BY <1>1, <1>2, <1>3 DEF ContextOf, IsRoot
  <2> QED BY <1>1, <1>9, <2>1 DEF CurrentInv, RootGone, At
<1>11. LeavingInv'
  BY <1>1 DEF LeavingInv, Leaving, At
<1>12. SuspendedInv'
  BY <1>3, <1>4 DEF RunInv, SuspendedInv, Resumable, ContextOf, IsRoot
<1>13. ParentInv'
  <2>1. \A p \in Kids : \A q : Framed(p, q) => Framed(p, q)'
    BY <1>1, <1>3, <1>5 DEF Framed, At
  <2> QED BY <2>1, <1>3, <1>4, <1>5 DEF RunInv, ParentInv, Waits
<1>14. OwnerInv'
  <2>1. terminal[curr_term].pid = curr_pid
    BY <1>2 DEF Settled
  <2> QED BY <2>1, <1>1, <1>3, <1>5 DEF RunInv, OwnerInv, Leaving
<1>15. ScheduledDistinct' /\ FlagInv'
  BY <1>3 DEF ScheduledDistinct, FlagInv, IsRoot
<1>16. RunInv'
  BY <1>6, <1>7, <1>8, <1>10, <1>11, <1>12, <1>13, <1>14 DEF RunInv
<1> QED BY <1>n, <1>1, <1>15, <1>16, RunCombine

\* A child is launched: it takes the terminal, and its parent starts to wait.
LEMMA LaunchChildStep ==
    ASSUME TypeInv, SafetyInv, ~Booting, ExecuteLaunch, cpu.cmd # "restart"
    PROVE  SafetyInv'
<1> USE RunPhase
<1> DEFINE q == terminal[curr_term].pid
<1>n. [Next]_vars
  BY DEF Next, KernelStep
<1>1. /\ cpu.pc = "setup" /\ cpu'.pc = "launch" /\ cpu'.l = cpu.l
      /\ cpu'.sp = cpu.sp /\ cpu.l \in Pid
  BY DEF ExecuteLaunch, At, Goto, Contexts, TypeInv, LocalsSet, LocalSet
<1>2. /\ pcb_status_array[curr_pid] = 1 /\ ~IsRoot(curr_pid)
      /\ curr_pid = cpu.l
      /\ terms_pid[curr_term] = curr_pid
      /\ parent_pcb[curr_pid] = q
      /\ video[q] = curr_term
      /\ pcb_status_array[q] = 1
      /\ cpu.sp.stk = q
      /\ \A t \in Term : terminal[t].pid # curr_pid
      /\ \A r \in Kids : parent_pcb[r] # curr_pid
  BY <1>1 DEF RunInv, CurrentInv, At
<1>3. /\ UNCHANGED <<pcb_status_array, parent_pcb, shell_flag, great_esp,
                     active_proc_num, active_root_shell, shell_esp_array, curr_pid,
                     curr_term, terms_pid>>
      /\ video' = [video EXCEPT ![curr_pid] = curr_term]
      /\ tss_esp0' = Top(curr_pid)
      /\ cr3' = curr_pid
      /\ the_esp' = [the_esp EXCEPT ![q] = cpu.sp]
      /\ terminal' = [terminal EXCEPT ![curr_term].pid = curr_pid]
  BY <1>2 DEF ExecuteLaunch, FlushTlb
<1>4. q \in Pid /\ q # curr_pid /\ q # NULL
  BY <1>2
<1>5. /\ \A p \in Pid : video'[p] = IF p = curr_pid THEN curr_term ELSE video[p]
      /\ \A p \in Pid : the_esp'[p] = IF p = q THEN cpu.sp ELSE the_esp[p]
      /\ \A t \in Term : terminal'[t].pid = IF t = curr_term THEN curr_pid
                                                             ELSE terminal[t].pid
  BY <1>3, <1>4 DEF TypeInv, TypeOK
<1>6. /\ Busy' = Busy /\ Claimed = {curr_pid} /\ Claimed' = {}
      /\ Kids' = Kids \cup {curr_pid} /\ Kids \subseteq Pid /\ curr_pid \notin Kids
  BY <1>1, <1>2, <1>3 DEF Busy, Claimed, Kids, Children, IsRoot
<1> HIDE DEF q
<1>7. LabelInv'
  BY <1>1 DEF LabelInv
<1>8. CounterInv'
  BY <1>1, <1>3, <1>6 DEF RunInv, CounterInv, RootUncounted, RootGone, At
<1>9. RootInv'
  BY <1>1, <1>3 DEF RunInv, RootInv, RootGone, At
<1>10. Settled' /\ pcb_status_array'[curr_pid'] = 1
  BY <1>2, <1>3, <1>5 DEF Settled, Top, Sp
<1>11. CurrentInv'
  <2>1. ContextOf(cpu, curr_pid)'
    BY <1>1, <1>2, <1>3, <1>4 DEF ContextOf, IsRoot
  <2> QED BY <1>1, <1>10, <2>1 DEF CurrentInv, RootGone, At
<1>12. LeavingInv'
  BY <1>1 DEF LeavingInv, Leaving, At
<1>13. SuspendedInv'
  <2>1. \A t \in Term \ {curr_term} :
          terminal'[t].pid = terminal[t].pid /\ video'[terminal[t].pid] = video[terminal[t].pid]
    BY <1>2, <1>5
  <2> QED BY <2>1, <1>3 DEF RunInv, SuspendedInv, Resumable, ContextOf, IsRoot
<1>14. ParentInv'
  <2>1. \A p \in Kids : \A r : Framed(p, r) => Framed(p, r)'
    BY <1>1, <1>3, <1>6 DEF Framed, At
  <2>2. \A p \in Kids :
          LET r == parent_pcb[p] IN
            /\ r # NULL /\ r \in Pid /\ p \in Pid
            /\ pcb_status_array[r] = 1
            /\ video[r] = video[p]
            /\ the_esp[r].stk = r
            /\ \A t \in Term : terminal[t].pid # r
            /\ \A s \in Kids : parent_pcb[s] = r => s = p
            /\ Framed(p, r)
    BY <1>6 DEF RunInv, ParentInv, Waits, TypeInv, TypeOK
  <2>3. \A p \in Kids : parent_pcb[p] # q /\ parent_pcb[p] # curr_pid
    BY <1>2, <2>2 DEF q
  <2>4. ASSUME NEW p \in Kids
        PROVE  Waits(parent_pcb[p], p)'
    <3> DEFINE r == parent_pcb[p]
    <3>1. p # curr_pid /\ p \in Pid /\ r \in Pid /\ r # q /\ r # curr_pid
          /\ parent_pcb'[p] = r
      BY <1>3, <1>6, <2>2, <2>3
    <3>2. r # NULL /\ pcb_status_array'[r] = 1 /\ Framed(p, r)'
      BY <1>3, <2>1, <2>2
    <3>3. video'[r] = video'[p] /\ the_esp'[r].stk = r
      BY <1>5, <2>2, <3>1
    <3>4. \A t \in Term : terminal'[t].pid # r
      BY <1>5, <2>2, <3>1
    <3>5. \A s \in Kids' : parent_pcb'[s] = r => s = p
      BY <1>2, <1>3, <1>6, <2>2, <3>1
    <3> QED BY <3>1, <3>2, <3>3, <3>4, <3>5 DEF Waits
  <2>5. Waits(parent_pcb[curr_pid], curr_pid)'
    <3>1. \A t \in Term : terminal'[t].pid # q
      BY <1>4, <1>5 DEF ScheduledDistinct, q
    <3>2. \A s \in Kids' : parent_pcb'[s] = q => s = curr_pid'
      BY <2>3, <1>3, <1>6
    <3>3. \A r : Framed(curr_pid, r)'
      BY <1>1, <1>3 DEF Framed, At
    <3>4. parent_pcb'[curr_pid'] = q
      BY <1>2, <1>3
    <3>5. /\ pcb_status_array'[q] = 1
          /\ video'[q] = video'[curr_pid']
          /\ the_esp'[q].stk = q
      BY <1>2, <1>3, <1>4, <1>5
    <3> QED BY <3>1, <3>2, <3>3, <3>4, <3>5, <1>4 DEF Waits
  <2> QED BY <2>4, <2>5, <1>3, <1>6 DEF ParentInv
<1>15. OwnerInv'
  <2>1. terminal'[curr_term].pid = curr_pid
    BY <1>5
  <2>2. curr_pid \in Kids' /\ parent_pcb'[curr_pid] = q /\ curr_pid # q
    BY <1>2, <1>3, <1>4, <1>6
  <2>3. ASSUME NEW p \in Busy', p # curr_pid, p # q
        PROVE  \/ \E t \in Term : terminal'[t].pid = p
               \/ \E r \in Kids' : r # p /\ parent_pcb'[r] = p
    <3>1. \/ \E t \in Term \ {curr_term} : terminal[t].pid = p
          \/ \E r \in Kids : r # p /\ parent_pcb[r] = p
      BY <2>3, <1>1, <1>6 DEF RunInv, OwnerInv, Leaving, q
    <3> QED BY <3>1, <1>3, <1>5, <1>6
  <2> QED BY <2>1, <2>2, <2>3 DEF OwnerInv
<1>16. ScheduledDistinct' /\ FlagInv'
  BY <1>2, <1>3, <1>5 DEF ScheduledDistinct, FlagInv, IsRoot
<1>17. RunInv'
  BY <1>7, <1>8, <1>9, <1>11, <1>12, <1>13, <1>14, <1>15 DEF RunInv
<1> QED BY <1>n, <1>1, <1>16, <1>17, RunCombine

\* The launched process starts; its parent's frame is now saved.
LEMMA JumpStep ==
    ASSUME TypeInv, SafetyInv, ~Booting, JumpToProgram
    PROVE  SafetyInv'
<1> USE RunPhase
<1>n. [Next]_vars
  BY DEF Next, KernelStep
<1>1. cpu.pc = "launch" /\ cpu'.pc = "user" /\ cpu'.cmd = "none"
  BY DEF JumpToProgram, At, User, Context
<1>2. /\ UNCHANGED <<pcb_status_array, parent_pcb, shell_flag, the_esp, great_esp,
                     active_proc_num, active_root_shell, curr_pid, curr_term,
                     terms_pid, terminal, tss_esp0, cr3, video>>
      /\ shell_esp_array' = IF IsRoot(cpu.l) THEN shell_esp_array ELSE SaveFrame
  BY DEF JumpToProgram, sched
<1>3. /\ cpu.l = curr_pid
      /\ ~IsRoot(curr_pid) => parent_pcb[curr_pid] # NULL /\ cpu.sp.stk = parent_pcb[curr_pid]
      /\ Settled /\ pcb_status_array[curr_pid] = 1
  BY <1>1 DEF RunInv, CurrentInv, ContextOf
<1>4. \A q \in Pid : shell_esp_array[q].sp.stk = q => shell_esp_array'[q].sp.stk = q
  BY <1>2, <1>3 DEF SaveFrame, Frame, TypeInv, TypeOK
<1>5. ~IsRoot(curr_pid) => shell_esp_array'[parent_pcb[curr_pid]].sp.stk = parent_pcb[curr_pid]
  BY <1>2, <1>3 DEF SaveFrame, Frame, TypeInv, TypeOK
<1>6. /\ Busy' = Busy /\ Claimed = {} /\ Claimed' = {} /\ Kids' = Kids
      /\ \A p \in Kids : p \in Pid /\ ~IsRoot(p)
  BY <1>1, <1>2 DEF Busy, Claimed, Kids, Children, IsRoot
<1>7. LabelInv'
  BY <1>1 DEF LabelInv
<1>8. CounterInv'
  BY <1>1, <1>2, <1>6 DEF RunInv, CounterInv, RootUncounted, RootGone, At
<1>9. RootInv'
  BY <1>1, <1>2 DEF RunInv, RootInv, RootGone, At
<1>10. CurrentInv'
  <2>1. Settled' /\ pcb_status_array'[curr_pid'] = 1
    BY <1>2, <1>3 DEF Settled
  <2>2. ContextOf(cpu, curr_pid)'
    BY <1>1 DEF ContextOf
  <2> QED BY <1>1, <2>1, <2>2 DEF CurrentInv, RootGone, At
<1>11. LeavingInv'
  BY <1>1 DEF LeavingInv, Leaving, At
<1>12. SuspendedInv'
  BY <1>2 DEF RunInv, SuspendedInv, Resumable, ContextOf, IsRoot
<1>13. ParentInv'
  <2>1. \A p \in Kids : parent_pcb[p] \in Pid /\ Waits(parent_pcb[p], p)
    BY <1>6 DEF RunInv, ParentInv, Waits, TypeInv, TypeOK
  <2>2. ASSUME NEW p \in Kids PROVE Framed(p, parent_pcb[p])'
    BY <2>1, <1>1, <1>2, <1>4, <1>5, <1>6 DEF Waits, Framed, At
  <2> QED BY <2>1, <2>2, <1>2, <1>6 DEF ParentInv, Waits
<1>14. OwnerInv'
  BY <1>1, <1>2, <1>6 DEF RunInv, OwnerInv, Leaving
<1>15. ScheduledDistinct' /\ FlagInv'
  BY <1>2 DEF ScheduledDistinct, FlagInv, IsRoot
<1>16. RunInv'
  BY <1>7, <1>8, <1>9, <1>10, <1>11, <1>12, <1>13, <1>14 DEF RunInv
<1> QED BY <1>n, <1>1, <1>15, <1>16, RunCombine

-----------------------------------------------------------------------------
(* After boot: halt.                                                        *)

\* A process about to halt is the one its terminal runs, so nobody has it as a
\* parent; it is its slot that is released.
LEMMA Halting ==
    ASSUME TypeInv, SafetyInv, ~Booting, cpu.pc = "halt"
    PROVE  /\ Settled /\ pcb_status_array[curr_pid] = 1
           /\ cpu.sp.stk = curr_pid
           /\ Claimed = {} /\ Kids = Children
           /\ \A r \in Kids : r \in Pid /\ parent_pcb[r] \in Pid /\ parent_pcb[r] # curr_pid
           /\ \A t \in Term \ {curr_term} : terminal[t].pid # curr_pid
           /\ active_root_shell = MAX_TERM
           /\ active_proc_num = Cardinality(Busy) - 1
<1> USE RunPhase
<1>1. Settled /\ pcb_status_array[curr_pid] = 1 /\ cpu.sp.stk = curr_pid
  BY DEF RunInv, CurrentInv, ContextOf
<1>2. Claimed = {} /\ Kids = Children
  BY DEF Claimed, Kids
<1>3. \A r \in Kids : r \in Pid /\ parent_pcb[r] \in Pid /\ parent_pcb[r] # curr_pid
  BY <1>1 DEF RunInv, ParentInv, Waits, Kids, Children, Busy, Settled, TypeInv, TypeOK
<1>4. \A t \in Term \ {curr_term} : terminal[t].pid # curr_pid
  BY <1>1 DEF Settled, ScheduledDistinct
<1>5. active_root_shell = MAX_TERM /\ active_proc_num = Cardinality(Busy) - 1
  BY DEF RunInv, CounterInv, RootUncounted, RootGone, At
<1> QED BY <1>1, <1>2, <1>3, <1>4, <1>5

LEMMA HaltRootStep ==
    ASSUME TypeInv, SafetyInv, ~Booting, HaltRoot
    PROVE  SafetyInv'
<1> USE RunPhase
<1>n. [Next]_vars
  BY DEF Next, KernelStep
<1>1. /\ cpu.pc = "halt" /\ cpu'.pc = "restart" /\ cpu'.cmd = cpu.cmd
      /\ cpu'.sp = cpu.sp /\ IsRoot(curr_pid)
  BY DEF HaltRoot, At, Contexts
<1>2. /\ UNCHANGED <<parent_pcb, shell_flag, the_esp, great_esp, active_proc_num,
                     shell_esp_array, curr_pid, curr_term, terms_pid, terminal,
                     tss_esp0, cr3, video>>
      /\ pcb_status_array' = [pcb_status_array EXCEPT ![curr_pid] = 0]
      /\ active_root_shell' = Dec(active_root_shell)
  BY DEF HaltRoot, Release, sched
<1>h. /\ Settled /\ pcb_status_array[curr_pid] = 1
      /\ cpu.sp.stk = curr_pid
      /\ Claimed = {} /\ Kids = Children
      /\ \A r \in Kids : r \in Pid /\ parent_pcb[r] \in Pid /\ parent_pcb[r] # curr_pid
      /\ \A t \in Term \ {curr_term} : terminal[t].pid # curr_pid
      /\ active_root_shell = MAX_TERM
      /\ active_proc_num = Cardinality(Busy) - 1
  BY <1>1, Halting
<1>3. \A p \in Pid : pcb_status_array'[p] = IF p = curr_pid THEN 0 ELSE pcb_status_array[p]
  BY <1>2 DEF TypeInv, TypeOK
<1>4. Busy' = Busy \ {curr_pid} /\ Cardinality(Busy') = Cardinality(Busy) - 1
  BY <1>2, <1>h, BusyShrinks DEF TypeInv
<1>5. Claimed' = {} /\ Kids' = Kids
  BY <1>1, <1>2, <1>4, <1>h DEF Claimed, Kids, Children, IsRoot
<1>6. LabelInv'
  BY <1>1 DEF LabelInv
<1>7. CounterInv'
  <2>1. active_root_shell' = MAX_TERM - 1
    BY <1>2, <1>h, NoWrap
  <2> QED BY <2>1, <1>1, <1>2, <1>4, <1>h DEF CounterInv, RootUncounted, RootGone, At
<1>8. RootInv'
  <2>1. \A p \in Term : pcb_status_array[p] = 1
    BY <1>1 DEF RunInv, RootInv, RootGone, At
  <2> QED BY <2>1, <1>1, <1>2, <1>3, PidsAndTerms DEF RootInv, RootGone, At
<1>9. CurrentInv'
  <2>1. Settled' /\ pcb_status_array'[curr_pid'] = 0 /\ IsRoot(curr_pid)'
    BY <1>1, <1>2, <1>3, <1>h DEF Settled, IsRoot
  <2>2. ContextOf(cpu, curr_pid)'
    BY <1>1, <1>2, <1>h DEF ContextOf
  <2> QED BY <1>1, <2>1, <2>2 DEF CurrentInv, RootGone, At
<1>10. LeavingInv'
  BY <1>1 DEF LeavingInv, Leaving, At
<1>11. SuspendedInv'
  <2>1. \A t \in Term \ {curr_term} : pcb_status_array'[terminal[t].pid] = 1
    BY <1>3, <1>h DEF RunInv, SuspendedInv
  <2> QED BY <2>1, <1>2 DEF RunInv, SuspendedInv, Resumable, ContextOf, IsRoot
<1>12. ParentInv'
  <2>1. \A p, q : Framed(p, q) => Framed(p, q)'
    BY <1>1, <1>2 DEF Framed, At
  <2>2. \A r \in Kids : pcb_status_array'[parent_pcb[r]] = 1
    BY <1>3, <1>h DEF RunInv, ParentInv, Waits
  <2> QED BY <2>1, <2>2, <1>2, <1>5 DEF RunInv, ParentInv, Waits
<1>13. OwnerInv'
  BY <1>1, <1>2, <1>4, <1>5, <1>h DEF RunInv, OwnerInv, Leaving
<1>14. ScheduledDistinct' /\ FlagInv'
  BY <1>2 DEF ScheduledDistinct, FlagInv, IsRoot
<1>15. RunInv'
  BY <1>6, <1>7, <1>8, <1>9, <1>10, <1>11, <1>12, <1>13 DEF RunInv
<1> QED BY <1>n, <1>1, <1>14, <1>15, RunCombine

LEMMA HaltRestartStep ==
    ASSUME TypeInv, SafetyInv, ~Booting, HaltRestart
    PROVE  SafetyInv'
<1> USE RunPhase
<1>n. [Next]_vars
  BY DEF Next, KernelStep
<1>1. /\ cpu.pc = "restart" /\ cpu'.pc = "exec" /\ cpu'.cmd = "restart"
      /\ cpu'.sp.stk = cpu.sp.stk
  BY DEF HaltRestart, At, Contexts, Deeper, Sp
<1>2. UNCHANGED tables /\ active_proc_num' = active_proc_num
  BY DEF HaltRestart, tables, proc, sched
<1>3. /\ Settled /\ IsRoot(curr_pid) /\ pcb_status_array[curr_pid] = 0
      /\ cpu.sp.stk = curr_pid
  BY <1>1 DEF RunInv, CurrentInv, RootGone, At, ContextOf
<1>4. /\ Busy' = Busy /\ Claimed = {} /\ Claimed' = {} /\ Kids' = Kids
  BY <1>1, <1>2 DEF Busy, Claimed, Kids, Children, IsRoot, tables
<1>5. LabelInv'
  BY <1>1 DEF LabelInv
<1>6. RootGone /\ RootGone' /\ RootUncounted /\ RootUncounted'
  BY <1>1 DEF RootUncounted, RootGone, At
<1>7. CounterInv'
  BY <1>1, <1>2, <1>4, <1>6 DEF RunInv, CounterInv, tables
<1>8. RootInv'
  BY <1>2, <1>6 DEF RunInv, RootInv, tables
<1>9. CurrentInv'
  <2>1. Settled' /\ pcb_status_array'[curr_pid'] = 0 /\ IsRoot(curr_pid)'
    BY <1>2, <1>3 DEF Settled, tables, IsRoot
  <2>2. ContextOf(cpu, curr_pid)'
    BY <1>1, <1>2, <1>3 DEF ContextOf, tables
  <2> QED BY <1>1, <2>1, <2>2 DEF CurrentInv, RootGone, At
<1>10. LeavingInv'
  BY <1>1 DEF LeavingInv, Leaving, At
<1>11. SuspendedInv'
  BY <1>2 DEF RunInv, SuspendedInv, Resumable, ContextOf, IsRoot, tables
<1>12. ParentInv'
  <2>1. \A p, q : Framed(p, q) => Framed(p, q)'
    BY <1>1, <1>2 DEF Framed, At, tables
  <2> QED BY <2>1, <1>2, <1>4 DEF RunInv, ParentInv, Waits, tables
<1>13. OwnerInv'
  BY <1>1, <1>2, <1>4 DEF RunInv, OwnerInv, Leaving, tables
<1>14. ScheduledDistinct' /\ FlagInv'
  BY <1>2 DEF ScheduledDistinct, FlagInv, IsRoot, tables
<1>15. RunInv'
  BY <1>5, <1>7, <1>8, <1>9, <1>10, <1>11, <1>12, <1>13 DEF RunInv
<1> QED BY <1>n, <1>1, <1>14, <1>15, RunCombine

\* A child frees its slot; its parent is there, waiting for it.
LEMMA HaltFreeStep ==
    ASSUME TypeInv, SafetyInv, ~Booting, HaltFree
    PROVE  SafetyInv'
<1> USE RunPhase
<1> DEFINE q == parent_pcb[curr_pid]
<1>n. [Next]_vars
  BY DEF Next, KernelStep
<1>1. cpu.pc = "halt" /\ ~IsRoot(curr_pid)
  BY DEF HaltFree, At, RunInv, LabelInv
<1>h. /\ Settled /\ pcb_status_array[curr_pid] = 1
      /\ Claimed = {} /\ Kids = Children
      /\ \A r \in Kids : r \in Pid /\ parent_pcb[r] \in Pid /\ parent_pcb[r] # curr_pid
      /\ \A t \in Term \ {curr_term} : terminal[t].pid # curr_pid
      /\ active_root_shell = MAX_TERM
      /\ active_proc_num = Cardinality(Busy) - 1
  BY <1>1, Halting
<1>2. curr_pid \in Kids
  BY <1>1, <1>h DEF Children, Busy
<1>3. /\ q # NULL /\ q \in Pid /\ q # curr_pid
      /\ pcb_status_array[q] = 1
      /\ video[q] = curr_term
      /\ the_esp[q].stk = q
      /\ \A t \in Term : terminal[t].pid # q
      /\ \A r \in Kids : parent_pcb[r] = q => r = curr_pid
      /\ shell_esp_array[q].sp.stk = q
  <2>1. Waits(q, curr_pid)
    BY <1>2 DEF RunInv, ParentInv
  <2> QED BY <2>1, <1>1, <1>2, <1>h DEF Waits, Framed, At, Settled
<1>4. /\ UNCHANGED <<parent_pcb, shell_flag, the_esp, great_esp, active_proc_num,
                     active_root_shell, shell_esp_array, curr_pid, curr_term,
                     terms_pid, terminal, tss_esp0, cr3, video>>
      /\ pcb_status_array' = [pcb_status_array EXCEPT ![curr_pid] = 0]
      /\ cpu' = [cpu EXCEPT !.pc = "freed", !.l = q, !.esp = the_esp[q]]
  BY <1>3 DEF HaltFree, Release, sched
<1>5. cpu'.pc = "freed" /\ cpu'.l = q /\ cpu'.esp = the_esp[q] /\ cpu'.cmd = cpu.cmd
  BY <1>4 DEF Contexts
<1> HIDE DEF q
<1>6. \A p \in Pid : pcb_status_array'[p] = IF p = curr_pid THEN 0 ELSE pcb_status_array[p]
  BY <1>4 DEF TypeInv, TypeOK
<1>7. Busy' = Busy \ {curr_pid} /\ Cardinality(Busy') = Cardinality(Busy) - 1
  BY <1>4, <1>h, BusyShrinks DEF TypeInv
<1>8. Claimed' = {} /\ Kids' = Kids \ {curr_pid}
  BY <1>5, <1>4, <1>7, <1>h DEF Claimed, Kids, Children, IsRoot
<1>9. LabelInv'
  BY <1>5 DEF LabelInv
<1>10. CounterInv'
  BY <1>4, <1>5, <1>7, <1>h DEF CounterInv, RootUncounted, RootGone, At
<1>11. RootInv'
  <2>1. \A p \in Term : pcb_status_array[p] = 1 /\ p # curr_pid
    BY <1>1, PidsAndTerms DEF RunInv, RootInv, RootGone, At
  <2> QED BY <2>1, <1>6, PidsAndTerms DEF RootInv
<1>12. CurrentInv'
  <2>1. ContextOf(cpu, curr_pid)'
    BY <1>5 DEF ContextOf
  <2> QED BY <1>5, <2>1 DEF CurrentInv, RootGone, At
<1>13. LeavingInv'
  <2>1. terminal[curr_term].pid = curr_pid
    BY <1>h DEF Settled
  <2>2. /\ pcb_status_array'[q] = 1
        /\ video'[q] = curr_term'
        /\ shell_esp_array'[q].sp.stk = q
        /\ \A r \in Kids' : parent_pcb'[r] # q
    BY <1>3, <1>4, <1>6, <1>8
  <2>3. /\ pcb_status_array'[terminal'[curr_term'].pid] = 0
        /\ ~IsRoot(terminal[curr_term].pid)'
        /\ parent_pcb'[terminal'[curr_term'].pid] = q
        /\ \A t \in Term : terminal'[t].pid # q
    BY <1>1, <1>3, <1>4, <1>6, <2>1 DEF IsRoot, q
  <2> QED BY <1>3, <1>4, <1>5, <2>1, <2>2, <2>3 DEF LeavingInv, Leaving, At
<1>14. SuspendedInv'
  <2>1. \A t \in Term \ {curr_term} : pcb_status_array'[terminal[t].pid] = 1
    BY <1>6, <1>h DEF RunInv, SuspendedInv
  <2> QED BY <2>1, <1>4 DEF RunInv, SuspendedInv, Resumable, ContextOf, IsRoot
<1>15. ParentInv'
  <2>1. \A p \in Kids : \A r : Framed(p, r) => Framed(p, r)'
    BY <1>1, <1>4, <1>5 DEF Framed, At
  <2>2. \A r \in Kids : pcb_status_array'[parent_pcb[r]] = 1
    BY <1>6, <1>h DEF RunInv, ParentInv, Waits
  <2> QED BY <2>1, <2>2, <1>4, <1>8 DEF RunInv, ParentInv, Waits
<1>16. OwnerInv'
  <2>1. ASSUME NEW p \in Busy', p # q
        PROVE  \/ \E t \in Term : terminal'[t].pid = p
               \/ \E r \in Kids' : r # p /\ parent_pcb'[r] = p
    <3>1. \/ \E t \in Term : terminal[t].pid = p
          \/ \E r \in Kids : r # p /\ parent_pcb[r] = p
      BY <1>1, <1>7, <1>h DEF RunInv, OwnerInv, Leaving
    <3>2. \A r \in Kids : parent_pcb[r] = p => r # curr_pid
      BY <2>1 DEF q
    <3> QED BY <3>1, <3>2, <1>4, <1>8
  <2> QED BY <2>1, <1>5 DEF OwnerInv, Leaving
<1>17. ScheduledDistinct' /\ FlagInv'
  BY <1>4 DEF ScheduledDistinct, FlagInv, IsRoot
<1>18. RunInv'
  BY <1>9, <1>10, <1>11, <1>12, <1>13, <1>14, <1>15, <1>16 DEF RunInv
<1>19. cpu'.cmd # "boot"
  BY <1>1, <1>5
<1> QED BY <1>n, <1>17, <1>18, <1>19, RunCombine

\* halt points the TSS, then curr_pid, at the parent.
LEMMA HaltHandoverStep ==
    ASSUME TypeInv, SafetyInv, ~Booting, HaltEsp0 \/ HaltParent
    PROVE  SafetyInv'
<1> USE RunPhase
<1>n. [Next]_vars
  BY DEF Next, KernelStep
<1>1. /\ cpu'.l = cpu.l /\ cpu'.cmd = cpu.cmd
      /\ \/ cpu.pc = "freed" /\ cpu'.pc = "esp0" /\ tss_esp0' = cpu.esp /\ curr_pid' = curr_pid
         \/ cpu.pc = "esp0" /\ cpu'.pc = "parent" /\ tss_esp0' = tss_esp0 /\ curr_pid' = cpu.l
  BY DEF HaltEsp0, HaltParent, At, Goto, Contexts, sched
<1>2. UNCHANGED <<proc, curr_term, terms_pid, terminal, cr3, video>>
  BY DEF HaltEsp0, HaltParent, sched
<1>3. /\ Busy' = Busy /\ Claimed = {} /\ Claimed' = {} /\ Kids' = Kids
  BY <1>1, <1>2 DEF Busy, Claimed, Kids, Children, IsRoot, proc
<1>4. LabelInv'
  BY <1>1 DEF LabelInv
<1>5. CounterInv'
  BY <1>1, <1>2, <1>3 DEF RunInv, CounterInv, RootUncounted, RootGone, At, proc
<1>6. RootInv'
  BY <1>1, <1>2 DEF RunInv, RootInv, RootGone, At, proc
<1>7. CurrentInv'
  <2>1. ContextOf(cpu, curr_pid)'
    BY <1>1 DEF ContextOf
  <2> QED BY <1>1, <2>1 DEF CurrentInv, RootGone, At
<1>8. LeavingInv'
  BY <1>1, <1>2, <1>3 DEF RunInv, LeavingInv, Leaving, At, proc, IsRoot
<1>9. SuspendedInv'
  BY <1>2 DEF RunInv, SuspendedInv, Resumable, ContextOf, IsRoot, proc
<1>10. ParentInv'
  <2>1. \A p, q : Framed(p, q) => Framed(p, q)'
    BY <1>1, <1>2 DEF Framed, At, proc
  <2> QED BY <2>1, <1>2, <1>3 DEF RunInv, ParentInv, Waits, proc
<1>11. OwnerInv'
  BY <1>1, <1>2, <1>3 DEF RunInv, OwnerInv, Leaving, proc
<1>12. ScheduledDistinct' /\ FlagInv'
  BY <1>2 DEF ScheduledDistinct, FlagInv, IsRoot, proc
<1>13. RunInv'
  BY <1>4, <1>5, <1>6, <1>7, <1>8, <1>9, <1>10, <1>11 DEF RunInv
<1>14. cpu'.cmd # "boot"
  BY <1>1
<1> QED BY <1>n, <1>12, <1>13, <1>14, RunCombine

\* The parent gets its terminal back.
LEMMA HaltTerminalStep ==
    ASSUME TypeInv, SafetyInv, ~Booting, HaltTerminal
    PROVE  SafetyInv'
<1> USE RunPhase
<1>n. [Next]_vars
  BY DEF Next, KernelStep
<1>1. /\ cpu.pc = "parent" /\ cpu'.pc = "exit" /\ cpu'.l = cpu.l /\ cpu'.cmd = cpu.cmd
  BY DEF HaltTerminal, At, Goto, Contexts
<1>2. /\ curr_pid = cpu.l /\ tss_esp0.stk = curr_pid
      /\ pcb_status_array[curr_pid] = 1
      /\ video[curr_pid] = curr_term
      /\ shell_esp_array[curr_pid].sp.stk = curr_pid
      /\ \A r \in Kids : parent_pcb[r] # curr_pid
      /\ pcb_status_array[terminal[curr_term].pid] = 0
      /\ \A t \in Term : terminal[t].pid # curr_pid
  BY <1>1 DEF RunInv, LeavingInv, Leaving
<1>3. /\ UNCHANGED <<proc, curr_pid, curr_term, tss_esp0, video>>
      /\ terms_pid' = [terms_pid EXCEPT ![curr_term] = curr_pid]
      /\ terminal' = [terminal EXCEPT ![curr_term].pid = curr_pid]
      /\ cr3' = cpu.l
  BY DEF HaltTerminal, FlushTlb
<1>4. /\ \A t \in Term : terminal'[t].pid = IF t = curr_term THEN curr_pid
                                                             ELSE terminal[t].pid
      /\ \A t \in Term : terms_pid'[t] = IF t = curr_term THEN curr_pid
                                                          ELSE terms_pid[t]
  BY <1>3 DEF TypeInv, TypeOK
<1>5. /\ Busy' = Busy /\ Claimed = {} /\ Claimed' = {} /\ Kids' = Kids
  BY <1>1, <1>3 DEF Busy, Claimed, Kids, Children, IsRoot, proc
<1>6. LabelInv'
  BY <1>1 DEF LabelInv
<1>7. CounterInv'
  BY <1>1, <1>3, <1>5 DEF RunInv, CounterInv, RootUncounted, RootGone, At, proc
<1>8. RootInv'
  BY <1>1, <1>3 DEF RunInv, RootInv, RootGone, At, proc
<1>9. Settled' /\ pcb_status_array'[curr_pid'] = 1
  BY <1>2, <1>3, <1>4 DEF Settled, proc
<1>10. CurrentInv'
  <2>1. ContextOf(cpu, curr_pid)'
    BY <1>1 DEF ContextOf
  <2> QED BY <1>1, <1>9, <2>1 DEF CurrentInv, RootGone, At
<1>11. LeavingInv'
  BY <1>1, <1>2, <1>3, <1>5 DEF LeavingInv, Leaving, At, proc
<1>12. SuspendedInv'
  <2>1. \A t \in Term \ {curr_term} :
          terminal'[t].pid = terminal[t].pid /\ terms_pid'[t] = terms_pid[t]
    BY <1>4
  <2> QED BY <2>1, <1>3 DEF RunInv, SuspendedInv, Resumable, ContextOf, IsRoot, proc
<1>13. ParentInv'
  <2>1. \A p, q : Framed(p, q) => Framed(p, q)'
    BY <1>1, <1>3, <1>4 DEF Framed, At, proc
  <2>2. ASSUME NEW p \in Kids PROVE Waits(parent_pcb[p], p)'
    <3>1. Waits(parent_pcb[p], p) /\ parent_pcb[p] # curr_pid
      BY <1>2 DEF RunInv, ParentInv
    <3>2. \A t \in Term : terminal'[t].pid # parent_pcb[p]
      BY <1>4, <3>1 DEF Waits
    <3> QED BY <2>1, <3>1, <3>2, <1>3, <1>5 DEF Waits, proc
  <2> QED BY <2>2, <1>5 DEF ParentInv
<1>14. OwnerInv'
  <2>1. ASSUME NEW p \in Busy', p # curr_pid
        PROVE  \/ \E t \in Term : terminal'[t].pid = p
               \/ \E r \in Kids' : r # p /\ parent_pcb'[r] = p
    <3>1. p # terminal[curr_term].pid
      BY <1>2, <1>5 DEF Busy
    <3>2. \/ \E t \in Term \ {curr_term} : terminal[t].pid = p
          \/ \E r \in Kids : r # p /\ parent_pcb[r] = p
      BY <2>1, <3>1, <1>2, <1>5 DEF RunInv, OwnerInv
    <3> QED BY <3>2, <1>3, <1>4, <1>5 DEF proc
  <2>2. terminal'[curr_term].pid = curr_pid
    BY <1>4
  <2> QED BY <2>1, <2>2 DEF OwnerInv
<1>15. ScheduledDistinct' /\ FlagInv'
  BY <1>2, <1>3, <1>4 DEF ScheduledDistinct, FlagInv, IsRoot, proc
<1>16. RunInv'
  BY <1>6, <1>7, <1>8, <1>10, <1>11, <1>12, <1>13, <1>14 DEF RunInv
<1>17. cpu'.cmd # "boot"
  BY <1>1
<1> QED BY <1>n, <1>15, <1>16, <1>17, RunCombine

\* The parent continues in its execute; its frame is popped.
LEMMA ExitStep ==
    ASSUME TypeInv, SafetyInv, ~Booting, ExitToShell
    PROVE  SafetyInv'
<1> USE RunPhase
<1> DEFINE f == shell_esp_array[curr_pid]
<1>n. [Next]_vars
  BY DEF Next, KernelStep
<1>1. cpu.pc = "exit"
  BY DEF ExitToShell, At
<1>2. /\ Settled /\ pcb_status_array[curr_pid] = 1 /\ curr_pid = cpu.l
      /\ f.sp.stk = curr_pid
  BY <1>1 DEF RunInv, CurrentInv, LeavingInv
<1>3. f.sp # NoSp
  BY <1>2 DEF NoSp, Sp
<1>4. cpu'.pc = "return" /\ cpu'.sp = f.sp /\ cpu'.cmd = "none"
  BY <1>3 DEF ExitToShell, Context
<1>5. /\ UNCHANGED <<pcb_status_array, parent_pcb, shell_flag, the_esp, great_esp,
                     active_proc_num, active_root_shell, curr_pid, curr_term,
                     terms_pid, terminal, tss_esp0, cr3, video>>
      /\ shell_esp_array' = [shell_esp_array EXCEPT ![curr_pid] = NoFrame]
  BY DEF ExitToShell, sched
<1>6. \A p \in Pid : p # curr_pid => shell_esp_array'[p] = shell_esp_array[p]
  BY <1>5 DEF TypeInv, TypeOK
<1>7. /\ Busy' = Busy /\ Claimed = {} /\ Claimed' = {} /\ Kids' = Kids
      /\ \A p \in Kids : p \in Pid
  BY <1>1, <1>4, <1>5 DEF Busy, Claimed, Kids, Children, IsRoot
<1>8. LabelInv'
  BY <1>4 DEF LabelInv
<1>9. CounterInv'
  BY <1>1, <1>4, <1>5, <1>7 DEF RunInv, CounterInv, RootUncounted, RootGone, At
<1>10. RootInv'
  BY <1>1, <1>5 DEF RunInv, RootInv, RootGone, At
<1>11. CurrentInv'
  <2>1. Settled' /\ pcb_status_array'[curr_pid'] = 1
    BY <1>2, <1>5 DEF Settled
  <2>2. ContextOf(cpu, curr_pid)'
    BY <1>2, <1>4, <1>5 DEF ContextOf
  <2> QED BY <1>4, <2>1, <2>2 DEF CurrentInv, RootGone, At
<1>12. LeavingInv'
  BY <1>4 DEF LeavingInv, Leaving, At
<1>13. SuspendedInv'
  BY <1>5 DEF RunInv, SuspendedInv, Resumable, ContextOf, IsRoot
<1>14. ParentInv'
  <2>1. ASSUME NEW p \in Kids PROVE Waits(parent_pcb[p], p)'
    <3>1. Waits(parent_pcb[p], p)
      BY DEF RunInv, ParentInv
    <3>2. parent_pcb[p] \in Pid /\ parent_pcb[p] # curr_pid
      BY <3>1, <1>2, <1>7 DEF Waits, Settled, TypeInv, TypeOK
    <3>3. Framed(p, parent_pcb[p])'
      BY <3>1, <3>2, <1>1, <1>5, <1>6 DEF Waits, Framed, At
    <3> QED BY <3>1, <3>3, <1>5, <1>7 DEF Waits
  <2> QED BY <2>1, <1>7 DEF ParentInv
<1>15. OwnerInv'
  BY <1>1, <1>4, <1>5, <1>7 DEF RunInv, OwnerInv, Leaving
<1>16. ScheduledDistinct' /\ FlagInv'
  BY <1>5 DEF ScheduledDistinct, FlagInv, IsRoot
<1>17. RunInv'
  BY <1>8, <1>9, <1>10, <1>11, <1>12, <1>13, <1>14, <1>15 DEF RunInv
<1> QED BY <1>n, <1>4, <1>16, <1>17, RunCombine

-----------------------------------------------------------------------------
(* After boot: the timer.                                                   *)

\* Where the timer can strike, and what it leaves behind.
LEMMA Preempted ==
    ASSUME Shielded, TypeInv, SafetyInv, ~Booting, TimerInterrupt
    PROVE  /\ cpu.pc \in {"user", "io", "return", "launch"}
           /\ Settled /\ pcb_status_array[curr_pid] = 1
           /\ Resumable(Saved, curr_pid)
           /\ Saved.pc = cpu.pc /\ (cpu.pc # "user" => Saved.sp = cpu.sp)
<1> USE RunPhase
<1>1. irq0 /\ cpu.ifl /\ cpu.pc \in TickAt
  BY DEF TimerInterrupt
<1>2. cpu.pc \notin {"exec", "load", "setup"}
  BY <1>1 DEF ExecuteNotPreempted
<1>3. cpu.pc \notin {"boot", "fault", "spin"}
  BY <1>1 DEF RunInv, LabelInv
<1>4. cpu.pc \in Labels /\ cpu.pc \notin HaltLabels
  BY <1>1 DEF Shielded, Contexts
<1>5. cpu.pc \in {"user", "io", "return", "launch"}
  BY <1>2, <1>3, <1>4 DEF Labels, ExecuteLabels
<1>6. Settled /\ pcb_status_array[curr_pid] = 1 /\ ContextOf(cpu, curr_pid)
  BY <1>5 DEF RunInv, CurrentInv
<1>7. /\ Saved.pc = cpu.pc /\ Saved.cmd = cpu.cmd /\ Saved.l = cpu.l
      /\ Saved.sp = IF cpu.pc = "user" THEN tss_esp0 ELSE cpu.sp
  BY DEF Saved, KernelSp, Contexts
<1>8. Resumable(Saved, curr_pid)
  BY <1>5, <1>6, <1>7 DEF Resumable, ContextOf, Settled
<1> QED BY <1>5, <1>6, <1>7, <1>8

\* A switch from the current terminal to terminal h, whose process p starts or
\* continues.
LEMMA SwitchStep ==
    ASSUME Shielded, TypeInv, SafetyInv, ~Booting, TickSwitch \/ TickRootShell
    PROVE  SafetyInv'
<1> USE RunPhase
<1> DEFINE p == terminal[head].pid
<1>n. [Next]_vars
  BY DEF Next, Tick
<1>1. TimerInterrupt /\ ~Stay
  BY DEF TickSwitch, TickRootShell
<1>2. /\ cpu.pc \in {"user", "io", "return", "launch"}
      /\ Settled /\ pcb_status_array[curr_pid] = 1
      /\ Resumable(Saved, curr_pid)
      /\ Saved.pc = cpu.pc /\ (cpu.pc # "user" => Saved.sp = cpu.sp)
  BY <1>1, Preempted
<1>3. head \in Term /\ p \in Pid /\ p # curr_pid /\ head # curr_term
  BY <1>1, <1>2 DEF Stay, Settled, TypeInv, TypeOK
<1>4. /\ pcb_status_array[p] = 1 /\ video[p] = head /\ terms_pid[head] = p
      /\ shell_flag[p] \/ Resumable(great_esp[p], p)
  BY <1>3 DEF RunInv, SuspendedInv
<1>5. /\ UNCHANGED <<pcb_status_array, parent_pcb, the_esp, active_proc_num,
                     active_root_shell, shell_esp_array, terms_pid, terminal, video>>
      /\ tss_esp0' = Top(p) /\ curr_term' = head /\ curr_pid' = p /\ cr3' = p
  BY DEF TickSwitch, TickRootShell, SwitchTo, FlushTlb
<1>6. /\ great_esp'[curr_pid] = Saved
      /\ \A r \in Pid : r # p /\ r # curr_pid => great_esp'[r] = great_esp[r]
  BY <1>3 DEF TickSwitch, TickRootShell, TypeInv, TypeOK
<1>7. \A r \in Pid : r # p => (shell_flag'[r] <=> shell_flag[r])
  <2>1. CASE TickSwitch
    BY <2>1 DEF TickSwitch
  <2>2. CASE TickRootShell
    BY <2>2, <1>3, Zenon DEF TickRootShell, TypeInv, TypeOK
  <2> QED BY <2>1, <2>2
<1>8. FlagInv'
  <2>1. CASE TickSwitch
    BY <2>1 DEF TickSwitch, FlagInv, IsRoot
  <2>2. CASE TickRootShell
    <3>1. shell_flag'[p] = FALSE
      BY <2>2, <1>3, Zenon DEF TickRootShell, TypeInv, TypeOK
    <3> QED BY <3>1, <1>7 DEF FlagInv, IsRoot
  <2> QED BY <2>1, <2>2
\* The new running context.
<1>9. /\ cpu'.pc \in {"user", "io", "return", "launch"}
      /\ cpu'.pc # "launch" => cpu'.cmd # "boot"
      /\ ContextOf(cpu', p)
      /\ ~IsRoot(p) => cpu'.pc = great_esp[p].pc /\ Resumable(great_esp[p], p)
  <2>1. CASE TickSwitch
    <3>1. Resumable(great_esp[p], p)
      BY <2>1, <1>4 DEF TickSwitch
    <3>2. cpu' = Resumed(great_esp[p])
      BY <2>1 DEF TickSwitch
    <3>3. CASE great_esp[p].pc = "user"
      <4>1. cpu'.pc = "user" /\ cpu'.cmd = "none"
        BY <3>2, <3>3 DEF Resumed, User, Context
      <4> QED BY <4>1, <3>1, <3>3 DEF ContextOf
    <3>4. CASE great_esp[p].pc # "user"
      <4>1. cpu' = great_esp[p]
        BY <3>2, <3>4 DEF Resumed
      <4> QED BY <4>1, <3>1 DEF Resumable
    <3> QED BY <3>3, <3>4
  <2>2. CASE TickRootShell
    <3>1. IsRoot(p)
      BY <2>2, <1>3 DEF TickRootShell, FlagInv
    <3>2. cpu'.pc = "user" /\ cpu'.cmd = "none"
      BY <2>2 DEF TickRootShell, User, Context
    <3> QED BY <3>1, <3>2 DEF ContextOf
  <2> QED BY <2>1, <2>2
<1> HIDE DEF p
<1>10. /\ Busy' = Busy /\ Claimed = {} /\ Claimed' = {} /\ Kids' = Kids
       /\ \A r \in Kids : r \in Pid /\ ~IsRoot(r)
  BY <1>2, <1>5, <1>9 DEF Busy, Claimed, Kids, Children, IsRoot
<1>11. LabelInv'
  BY <1>9 DEF LabelInv
<1>12. CounterInv'
  BY <1>2, <1>5, <1>9, <1>10 DEF RunInv, CounterInv, RootUncounted, RootGone, At
<1>13. RootInv'
  BY <1>2, <1>5 DEF RunInv, RootInv, RootGone, At
<1>14. CurrentInv'
  <2>1. Settled' /\ pcb_status_array'[curr_pid'] = 1
    BY <1>4, <1>5 DEF Settled, Top, Sp, p
  <2>2. ContextOf(cpu, curr_pid)'
    BY <1>5, <1>9 DEF ContextOf, IsRoot
  <2> QED BY <1>9, <2>1, <2>2 DEF CurrentInv, RootGone, At
<1>15. LeavingInv'
  BY <1>9 DEF LeavingInv, Leaving, At
<1>16. SuspendedInv'
  <2>1. ASSUME NEW t \in Term, t # head, t # curr_term
        PROVE  /\ pcb_status_array'[terminal'[t].pid] = 1
               /\ video'[terminal'[t].pid] = t
               /\ terms_pid'[t] = terminal'[t].pid
               /\ shell_flag'[terminal'[t].pid]
                    \/ Resumable(great_esp[terminal[t].pid], terminal[t].pid)'
    <3> DEFINE r == terminal[t].pid
    <3>1. r \in Pid /\ r # p /\ r # curr_pid
      BY <2>1, <1>2, <1>3 DEF ScheduledDistinct, Settled, p
    <3>2. /\ pcb_status_array[r] = 1 /\ video[r] = t /\ terms_pid[t] = r
          /\ shell_flag[r] \/ Resumable(great_esp[r], r)
      BY <2>1 DEF RunInv, SuspendedInv
    <3>3. great_esp'[r] = great_esp[r] /\ (shell_flag'[r] <=> shell_flag[r])
      BY <3>1, <1>6, <1>7
    <3> QED BY <3>2, <3>3, <1>5 DEF Resumable, ContextOf, IsRoot
  <2>2. /\ terminal'[curr_term].pid = curr_pid
        /\ pcb_status_array'[curr_pid] = 1
        /\ video'[curr_pid] = curr_term
        /\ terms_pid'[curr_term] = curr_pid
        /\ \A r : r = curr_pid => Resumable(great_esp[r], r)'
    BY <1>2, <1>5, <1>6 DEF Settled, Resumable, ContextOf, IsRoot
  <2> QED BY <2>1, <2>2, <1>5 DEF SuspendedInv
<1>17. ParentInv'
  <2>1. ASSUME NEW r \in Kids PROVE Framed(r, parent_pcb[r])'
    <3>1. Waits(parent_pcb[r], r) /\ r \in Pid /\ ~IsRoot(r)
      BY <1>10 DEF RunInv, ParentInv
    <3>2. CASE shell_esp_array[parent_pcb[r]].sp.stk = parent_pcb[r]
      BY <3>2, <1>5 DEF Framed
    <3>3. CASE r = curr_pid /\ At("launch")
      <4>1. great_esp'[r].pc = "launch" /\ great_esp'[r].sp.stk = parent_pcb[r]
        BY <3>1, <3>3, <1>2, <1>6 DEF At, RunInv, CurrentInv, ContextOf
      <4>2. curr_term \in Term \ {curr_term'} /\ terminal'[curr_term].pid = r
        BY <3>3, <1>2, <1>3, <1>5 DEF Settled
      <4> QED BY <4>1, <4>2, <1>5 DEF Framed
    <3>4. CASE /\ \E t \in Term \ {curr_term} : terminal[t].pid = r
               /\ great_esp[r].pc = "launch" /\ great_esp[r].sp.stk = parent_pcb[r]
      <4>1. CASE r = p
        BY <4>1, <3>1, <3>4, <1>5, <1>9 DEF Framed, At
      <4>2. CASE r # p
        <5>1. r # curr_pid
          BY <3>4, <1>2 DEF Settled, ScheduledDistinct
        <5>2. great_esp'[r] = great_esp[r]
          BY <3>1, <4>2, <5>1, <1>6
        <5>3. \E t \in Term \ {curr_term'} : terminal'[t].pid = r
          BY <3>4, <4>2, <1>5 DEF p
        <5> QED BY <3>4, <5>2, <5>3, <1>5 DEF Framed
      <4> QED BY <4>1, <4>2
    <3> QED BY <3>1, <3>2, <3>3, <3>4 DEF Waits, Framed
  <2> QED BY <2>1, <1>5, <1>10 DEF RunInv, ParentInv, Waits
<1>18. OwnerInv'
  BY <1>2, <1>5, <1>9, <1>10 DEF RunInv, OwnerInv, Leaving
<1>19. ScheduledDistinct'
  BY <1>5 DEF ScheduledDistinct
<1>20. RunInv'
  BY <1>11, <1>12, <1>13, <1>14, <1>15, <1>16, <1>17, <1>18 DEF RunInv
<1> QED BY <1>n, <1>8, <1>9, <1>19, <1>20, RunCombine

-----------------------------------------------------------------------------
(* All steps.                                                               *)

\* Steps that touch neither a process nor the running context: TickStay, a
\* change of the terminal on screen, an endless loop.
LEMMA IdleStep ==
    ASSUME TypeInv, SafetyInv, ~Booting, [Next]_vars,
           UNCHANGED <<proc, curr_pid, curr_term, terms_pid, hw>>,
           \A t \in Term : terminal'[t].pid = terminal[t].pid
    PROVE  SafetyInv'
<1> USE RunPhase DEF proc, hw
<1>1. /\ Busy' = Busy /\ Claimed' = Claimed /\ Children' = Children /\ Kids' = Kids
  BY DEF Busy, Claimed, Kids, Children, IsRoot
<1>2. LabelInv' /\ CounterInv' /\ RootInv'
  BY <1>1 DEF RunInv, LabelInv, CounterInv, RootInv, RootUncounted, RootGone, At
<1>3. Settled' <=> Settled
  BY DEF Settled
<1>4. CurrentInv'
  <2>1. ContextOf(cpu, curr_pid)' <=> ContextOf(cpu, curr_pid)
    BY DEF ContextOf, IsRoot
  <2>2. \A p : IsRoot(p)' <=> IsRoot(p)
    BY DEF IsRoot
  <2> QED BY <1>1, <1>3, <2>1, <2>2 DEF RunInv, CurrentInv, RootGone, At, IsRoot
<1>5. LeavingInv'
  BY <1>1 DEF RunInv, LeavingInv, Leaving, At, IsRoot
<1>6. SuspendedInv'
  BY DEF RunInv, SuspendedInv, Resumable, ContextOf, IsRoot
<1>7. ParentInv'
  <2>1. \A p, q : Framed(p, q) => Framed(p, q)'
    BY DEF Framed, At
  <2> QED BY <2>1, <1>1 DEF RunInv, ParentInv, Waits
<1>8. OwnerInv'
  BY <1>1 DEF RunInv, OwnerInv, Leaving
<1>9. ScheduledDistinct' /\ FlagInv'
  BY DEF ScheduledDistinct, FlagInv, IsRoot
<1>10. RunInv'
  BY <1>2, <1>4, <1>5, <1>6, <1>7, <1>8 DEF RunInv
<1>11. cpu'.pc # "launch" => cpu'.cmd # "boot"
  OBVIOUS
<1> QED BY <1>9, <1>10, <1>11, RunCombine

\* The paths that would fault, or that only boot takes, are never taken.
LEMMA NeverTaken ==
    ASSUME TypeInv, SafetyInv, ~Booting
    PROVE  /\ ~BootExecute /\ ~ExecuteLoadFail /\ ~ExecuteDefer
           /\ ~ExecuteNullParent /\ ~BadStack
<1> USE RunPhase
<1>1. ~BootExecute
  BY DEF BootExecute, At
<1>2. ~ExecuteLoadFail
  BY DEF ExecuteLoadFail, At, RunInv, LabelInv
<1>3. ~ExecuteDefer
  BY DEF ExecuteDefer, At, RunInv, CounterInv, RootUncounted, RootGone
<1>4. ~ExecuteNullParent
  <2> SUFFICES ASSUME ExecuteNullParent PROVE FALSE
    OBVIOUS
  <2>1. cpu.pc = "setup" /\ ~IsRoot(curr_pid) /\ parent_pcb[cpu.l] = NULL
    BY DEF ExecuteNullParent, At
  <2>2. cpu.cmd # "restart"
    BY <2>1 DEF RunInv, CurrentInv
  <2>3. parent_pcb[cpu.l] = terminal[curr_term].pid
    BY <2>1, <2>2 DEF RunInv, CurrentInv, At
  <2> QED BY <2>1, <2>3
<1>5. ~BadStack
  <2> SUFFICES ASSUME BadStack PROVE FALSE
    OBVIOUS
  <2>1. cpu.pc = "user" /\ tss_esp0.stk = NULL
    BY DEF BadStack, At, NoSp, Sp
  <2>2. tss_esp0.stk = curr_pid
    BY <2>1 DEF RunInv, CurrentInv, Settled
  <2> QED BY <2>1, <2>2
<1> QED BY <1>1, <1>2, <1>3, <1>4, <1>5

LEMMA SafetyStep ==
    ASSUME Shielded
    PROVE  TypeInv /\ SafetyInv /\ [Next]_vars => SafetyInv'
<1> SUFFICES ASSUME TypeInv, SafetyInv, [Next]_vars PROVE SafetyInv'
  OBVIOUS
<1>1. CASE Booting
  BY <1>1, BootStep
<1>2. CASE ~Booting
  <2>1. CASE \E t \in Term : SwitchTerm(t)
    <3>1. \A t \in Term : terminal'[t].pid = terminal[t].pid
      BY <2>1 DEF SwitchTerm, TypeInv, TypeOK
    <3> QED BY <1>2, <2>1, <3>1, IdleStep DEF SwitchTerm
  <2>2. CASE TickStay \/ Hang \/ UNCHANGED vars
    BY <1>2, <2>2, IdleStep DEF TickStay, Hang, vars, sched
  <2>3. CASE TickSwitch \/ TickRootShell
    BY <1>2, <2>3, SwitchStep
  <2>4. CASE ExecuteLaunch
    BY <1>2, <2>4, LaunchRootStep, LaunchChildStep
  <2>5. CASE UserStep \/ Iret \/ CtrlCSpin \/ CtrlCKill
    BY <1>2, <2>5, EntryStep, NeverTaken DEF UserStep
  <2>6. CASE ExecuteError \/ ExecuteClear \/ ExecuteFull \/ ExecuteClaim \/ ExecuteFill
             \/ JumpToProgram
    BY <1>2, <2>6, ReturnStep, ClaimStep, FillStep, JumpStep
  <2>7. CASE HaltRoot \/ HaltRestart \/ HaltFree \/ HaltEsp0 \/ HaltParent
             \/ HaltTerminal \/ ExitToShell
    BY <1>2, <2>7, HaltRootStep, HaltRestartStep, HaltFreeStep, HaltHandoverStep,
       HaltTerminalStep, ExitStep
  <2> QED
    BY <1>2, <2>1, <2>2, <2>3, <2>4, <2>5, <2>6, <2>7, NeverTaken
    DEF Next, KernelStep, Tick, Keyboard
<1> QED BY <1>1, <1>2

LEMMA SafetyInvariant ==
    ASSUME Shielded
    PROVE  Spec => [](TypeInv /\ SafetyInv)
BY InitType, TypeStep, SafetyInit, SafetyStep, PTL DEF Spec

-----------------------------------------------------------------------------
(* The safety properties.                                                   *)

\* In a kernel whose halt is not interrupted, the scheduler never holds one slot
\* for two terminals.
THEOREM SlotsNeverShared ==
    ASSUME Shielded
    PROVE  Spec => []ScheduledDistinct
<1>1. SafetyInv => ScheduledDistinct
  BY DEF SafetyInv
<1> QED BY <1>1, SafetyInvariant, PTL

\* In a kernel whose halt is not interrupted, every process the timer can switch
\* back to has its slot, its video page and a context that can be resumed.
LEMMA SuspendedSafe ==
    ASSUME Shielded
    PROVE  Spec => [](SuspendedBusy /\ SuspendedIntact)
<1>1. ASSUME TypeInv, SafetyInv PROVE SuspendedBusy /\ SuspendedIntact
  <2> SUFFICES ASSUME ~Booting, NEW t \in Term \ {curr_term}
               PROVE  LET p == terminal[t].pid
                          s == great_esp[p].sp.stk
                      IN /\ pcb_status_array[p] = 1
                         /\ video[p] = t
                         /\ ~shell_flag[p] =>
                               /\ great_esp[p] # Popped
                               /\ s # NULL => pcb_status_array[s] = 1 /\ video[s] = t
    BY DEF SuspendedBusy, SuspendedIntact
  <2> USE <1>1, RunPhase
  <2> DEFINE p == terminal[t].pid
             c == great_esp[p]
             s == great_esp[p].sp.stk
  <2>1. p \in Pid /\ pcb_status_array[p] = 1 /\ video[p] = t
    BY DEF RunInv, SuspendedInv
  <2>2. ASSUME ~shell_flag[p]
        PROVE  c # Popped /\ (s # NULL => pcb_status_array[s] = 1 /\ video[s] = t)
    <3>1. Resumable(c, p)
      BY <2>2 DEF RunInv, SuspendedInv
    <3>2. c # Popped
      BY <3>1 DEF Resumable, Popped, Fault, Context
    <3>3. s \in {p, NULL} \/ (c.pc = "launch" /\ ~IsRoot(p) /\ s = parent_pcb[p])
      BY <3>1 DEF Resumable, ContextOf
    <3>4. ~IsRoot(p) => Waits(parent_pcb[p], p)
      <4>1. p \notin Claimed
        <5>1. cpu.pc \in {"load", "setup"} => p # cpu.l
          BY <2>1 DEF RunInv, CurrentInv, LabelInv, Settled, ScheduledDistinct
        <5> QED BY <5>1 DEF Claimed
      <4> QED BY <2>1, <4>1 DEF RunInv, ParentInv, Kids, Children, Busy
    <3> QED BY <2>1, <3>2, <3>3, <3>4 DEF Waits
  <2> QED BY <2>1, <2>2
<1> QED BY <1>1, SafetyInvariant, PTL

\* In a kernel whose halt is not interrupted, every process the timer can switch
\* back to still has its slot marked busy, so execute cannot hand it out.
THEOREM SuspendedAlive ==
    ASSUME Shielded
    PROVE  Spec => []SuspendedBusy
BY SuspendedSafe, PTL

\* In a kernel whose halt is not interrupted, every process the timer can switch
\* back to has a saved context that can be resumed, on a stack in use.
THEOREM SuspendedResumable ==
    ASSUME Shielded
    PROVE  Spec => []SuspendedIntact
BY SuspendedSafe, PTL

\* In a kernel whose halt is not interrupted, all the kernel's notions of the
\* current process agree whenever neither execute nor halt is under way.
THEOREM CurrentAgrees ==
    ASSUME Shielded
    PROVE  Spec => []CurrentIntact
<1>1. ASSUME TypeInv, SafetyInv PROVE CurrentIntact
  <2> SUFFICES ASSUME Quiet PROVE CurrentIntact
    BY DEF CurrentIntact
  <2>1. ~Booting
    BY <1>1, BootPhase DEF Quiet
  <2> QED BY <1>1, <2>1, RunPhase DEF RunInv, CurrentInv, ContextOf, Settled, Quiet, CurrentIntact
<1> QED BY <1>1, SafetyInvariant, PTL

\* In a kernel whose halt is not interrupted, every child has a parent of its
\* own that waits for it, so that halt can always return to it.
THEOREM ParentsWait ==
    ASSUME Shielded
    PROVE  Spec => []ParentWaits
<1>1. ASSUME TypeInv, SafetyInv PROVE ParentWaits
  <2> SUFFICES ASSUME Quiet PROVE ParentWaits
    BY DEF ParentWaits
  <2>1. ~Booting
    BY <1>1, BootPhase DEF Quiet
  <2>2. Kids = Children
    BY DEF Kids, Claimed, Quiet
  <2>3. \A p \in Children : Waits(parent_pcb[p], p)
    BY <1>1, <2>1, <2>2, RunPhase DEF RunInv, ParentInv
  <2> QED BY <2>2, <2>3 DEF ParentWaits, Waits, Framed, Quiet, At
<1> QED BY <1>1, SafetyInvariant, PTL

\* In a kernel whose halt is not interrupted, no slot and no count is lost.
THEOREM SlotsAllAccounted ==
    ASSUME Shielded
    PROVE  Spec => []SlotsAccounted
<1>1. ASSUME TypeInv, SafetyInv PROVE SlotsAccounted
  <2> SUFFICES ASSUME Quiet PROVE SlotsAccounted
    BY DEF SlotsAccounted, CountersAgree, BusyHasProcess
  <2>1. ~Booting
    BY <1>1, BootPhase DEF Quiet
  <2>2. Kids = Children /\ Claimed = {} /\ ~Leaving
    BY DEF Kids, Claimed, Quiet, Leaving
  <2>3. CountersAgree
    BY <1>1, <2>1, RunPhase DEF RunInv, CounterInv, RootUncounted, RootGone, At, Quiet, CountersAgree
  <2>4. BusyHasProcess
    BY <1>1, <2>1, <2>2, RunPhase DEF RunInv, OwnerInv, BusyHasProcess
  <2> QED BY <2>3, <2>4 DEF SlotsAccounted
<1> QED BY <1>1, SafetyInvariant, PTL

\* In a kernel whose halt is not interrupted, no kernel path dereferences a null
\* parent or resumes a context or a frame that was never saved.
THEOREM NeverFaults ==
    ASSUME Shielded
    PROVE  Spec => []NoFault
<1>1. ASSUME TypeInv, SafetyInv PROVE NoFault
  <2>1. CASE Booting
    BY <1>1, <2>1, BootPhase DEF NoFault
  <2>2. CASE ~Booting
    BY <1>1, <2>2, RunPhase DEF NoFault, RunInv, LabelInv
  <2> QED BY <2>1, <2>2
<1> QED BY <1>1, SafetyInvariant, PTL

LEMMA ReleaseStep ==
    TypeInv /\ SafetyInv /\ [Next]_vars => [ReleaseIsOwn]_vars
<1> SUFFICES ASSUME TypeInv, SafetyInv, [Next]_vars,
                    NEW p \in Pid, pcb_status_array[p] = 1, pcb_status_array'[p] = 0,
                    ~At("boot")
             PROVE  /\ p = curr_pid
                    /\ p = terminal[curr_term].pid
                    /\ \A q \in Children : parent_pcb[q] # p
  BY DEF ReleaseIsOwn
<1>1. pcb_status_array' # pcb_status_array
  OBVIOUS
<1>2. pcb_status_array \in [Pid -> 0 .. 1] /\ curr_pid \in Pid
  BY DEF TypeInv, TypeOK
<1>3. \/ BootExecute \/ ExecuteClaim \/ HaltRoot \/ HaltFree
      \/ pcb_status_array' = pcb_status_array
  BY DEF Next, KernelStep, UserStep, Tick, Keyboard, proc, vars, ExecuteError,
         ExecuteClear, ExecuteFull, ExecuteLoadFail, ExecuteFill, ExecuteDefer,
         ExecuteLaunch, ExecuteNullParent, JumpToProgram, HaltRestart, HaltEsp0,
         HaltParent, HaltTerminal, ExitToShell, Iret, ExecuteEnter, HaltEnter,
         IoEnter, BadStack, TickStay, TickSwitch, TickRootShell, SwitchTerm,
         CtrlCSpin, CtrlCKill, Hang
<1>4. ~ExecuteClaim
  <2> SUFFICES ASSUME NEW i \in Pid,
                      pcb_status_array' = [pcb_status_array EXCEPT ![i] = 1]
               PROVE  FALSE
    BY DEF ExecuteClaim
  <2> QED BY <1>2
<1>5. HaltRoot \/ HaltFree
  BY <1>1, <1>3, <1>4 DEF BootExecute
<1>6. ~Booting
  BY <1>5, BootPhase DEF HaltRoot, HaltFree, At
<1>7. cpu.pc = "halt"
  BY <1>5, <1>6, RunPhase DEF HaltRoot, HaltFree, At, RunInv, LabelInv
<1>8. pcb_status_array' = [pcb_status_array EXCEPT ![curr_pid] = 0]
  BY <1>5 DEF HaltRoot, HaltFree, Release
<1>9. p = curr_pid
  BY <1>2, <1>8
<1> QED BY <1>6, <1>7, <1>9, Halting DEF Settled

\* In a kernel whose halt is not interrupted, only its owner releases a slot,
\* while its terminal runs it and no child of its own is left.
THEOREM OwnersRelease ==
    ASSUME Shielded
    PROVE  Spec => ReleasedByOwner
BY SafetyInvariant, ReleaseStep, PTL DEF Spec, ReleasedByOwner

-----------------------------------------------------------------------------
(* Processes implements ProcessStacks: every step of execute, halt and the   *)
(* scheduler is one step on the per-terminal process stacks, or none.        *)

LEMMA RefinesInit == Init => Stacks!StacksInit
<1> SUFFICES ASSUME Init PROVE Stacks!StacksInit
  OBVIOUS
<1> USE PidsAndTerms
<1>1. StackTop = [t \in Term |-> t] /\ curr_term = 0
  BY DEF StackTop, Init, InitSchedule
<1>2. Busy = {0}
  BY DEF Busy, Init
<1>3. Scheduled = Term
  BY DEF Scheduled, Init, InitSchedule
<1>4. Used = Term
  BY <1>2, <1>3 DEF Used, Claimed, Init, Boot, Context
<1>5. StackBelow = [p \in Pid |-> NULL] /\ StackUsed = Term
  BY <1>4 DEF StackBelow, StackUsed
<1> QED BY <1>1, <1>5 DEF Stacks!StacksInit

\* A step that keeps the terminals' processes, the slots in use, the parents of
\* those in use and the running terminal is none of the abstract steps.
LEMMA StutterStep ==
    ASSUME TypeOK, Used' = Used, curr_term' = curr_term,
           \A t \in Term : terminal'[t].pid = terminal[t].pid,
           \A p \in Used : ~IsRoot(p) => parent_pcb'[p] = parent_pcb[p]
    PROVE  UNCHANGED Stacks!stacks
BY DEF Stacks!stacks, StackTop, StackBelow, StackUsed, IsRoot

LEMMA ScheduledSame ==
    ASSUME \A t \in Term : terminal'[t].pid = terminal[t].pid
    PROVE  Scheduled' = Scheduled
BY DEF Scheduled

\* While it boots, and until the first process runs, the kernel holds root slots
\* only, which the abstract state counts as used from the start.
LEMMA BootStutters ==
    ASSUME TypeInv, SafetyInv, Booting, [Next]_vars
    PROVE  UNCHANGED Stacks!stacks
<1> USE PidsAndTerms
<1>1. BootInv
  BY BootPhase
<1>2. Busy \subseteq Term
  BY <1>1, BootPhase DEF BootInv, At, Term
<1>3. \A t \in Term : terminal[t].pid = t
  BY <1>1 DEF BootInv
<1>4. /\ curr_term' = curr_term
      /\ \A t \in Term : terminal'[t].pid = terminal[t].pid
  <2>1. CASE ExecuteLaunch
    BY <2>1, BootPhase DEF ExecuteLaunch
  <2>2. CASE \E t \in Term : SwitchTerm(t)
    BY <2>2 DEF SwitchTerm, TypeInv, TypeOK
  <2>3. CASE ~ExecuteLaunch /\ ~\E t \in Term : SwitchTerm(t)
    BY <2>3, BootActions
    DEF BootExecute, ExecuteClaim, ExecuteFill, ExecuteDefer, Hang, vars, sched
  <2> QED BY <2>1, <2>2, <2>3
<1>5. Busy' \subseteq Term
  <2>1. CASE Booting'
    <3>1. BootInv' /\ active_root_shell' \in Nat /\ MAX_TERM \in Nat \ {0}
      BY <2>1, BootStep, TypeStep, ConstantsAssumption DEF SafetyInv, TypeInv, TypeOK, Byte
    <3> QED BY <3>1 DEF BootInv, At, Term
  <2>2. CASE ~Booting'
    <3>1. ExecuteLaunch \/ UNCHANGED <<pcb_status_array>>
      BY <2>2, BootActions, BootPhase
      DEF Booting, BootExecute, ExecuteClaim, ExecuteFill, ExecuteDefer, SwitchTerm,
          Hang, vars, proc, At, Goto, TypeInv, TypeOK, Contexts
    <3>2. pcb_status_array' = pcb_status_array
      BY <3>1 DEF ExecuteLaunch
    <3> QED BY <3>2, <1>2 DEF Busy
  <2> QED BY <2>1, <2>2
<1>6. Scheduled = Term /\ Scheduled' = Term
  <2>1. Scheduled \subseteq Term
    BY <1>3 DEF Scheduled
  <2>2. Term \subseteq Scheduled
    BY <1>3 DEF Scheduled
  <2>3. Scheduled' = Scheduled
    BY <1>4, ScheduledSame
  <2> QED BY <2>1, <2>2, <2>3
<1>7. Used = Term /\ Used' = Term
  BY <1>2, <1>5, <1>6 DEF Used
<1> QED BY <1>4, <1>7, StutterStep DEF TypeInv

-----------------------------------------------------------------------------
(* After boot.                                                              *)

\* Claiming a slot, filling in its PCB, relaunching a root shell and releasing
\* a slot are invisible: the slot is not on a stack yet, or still is.
LEMMA TablesStutter ==
    ASSUME TypeInv, SafetyInv, ~Booting,
           \/ ExecuteClaim \/ ExecuteFill \/ HaltRoot \/ HaltFree
           \/ ExecuteLaunch /\ cpu.cmd = "restart"
    PROVE  UNCHANGED Stacks!stacks
<1> USE RunPhase
<1>1. \A t \in Term : terminal'[t].pid = terminal[t].pid
  <2>1. CASE ExecuteLaunch /\ cpu.cmd = "restart"
    <3>1. IsRoot(curr_pid)
      BY <2>1 DEF ExecuteLaunch, At, RunInv, CurrentInv
    <3> QED BY <2>1, <3>1 DEF ExecuteLaunch
  <2>2. CASE ExecuteClaim \/ ExecuteFill \/ HaltRoot \/ HaltFree
    BY <2>2 DEF ExecuteClaim, ExecuteFill, HaltRoot, HaltFree, sched
  <2> QED BY <2>1, <2>2
<1>2. Scheduled' = Scheduled /\ curr_term' = curr_term
  BY <1>1, ScheduledSame
  DEF ExecuteClaim, ExecuteFill, HaltRoot, HaltFree, ExecuteLaunch, sched
<1>3. CASE ExecuteClaim
  <2>1. PICK i \in Pid :
          /\ pcb_status_array[i] = 0
          /\ pcb_status_array' = [pcb_status_array EXCEPT ![i] = 1]
          /\ cpu' = [cpu EXCEPT !.pc = "load", !.l = i]
    BY <1>3 DEF ExecuteClaim, FirstFree
  <2>2. Claimed = {} /\ Claimed' = {i}
    BY <1>3, <2>1 DEF ExecuteClaim, At, Claimed, Contexts
  <2>3. Busy' = Busy \cup {i} /\ i \notin Busy
    BY <2>1 DEF Busy, TypeInv, TypeOK
  <2>4. Used' = Used
    BY <2>2, <2>3, <1>2 DEF Used
  <2> QED BY <1>1, <1>2, <1>3, <2>4, StutterStep DEF ExecuteClaim, TypeInv
<1>4. CASE ExecuteFill
  <2>1. cpu.pc = "load" /\ cpu'.pc = "setup" /\ cpu'.l = cpu.l
    BY <1>4 DEF ExecuteFill, At, Goto, Contexts
  <2>2. Used' = Used
    BY <1>2, <1>4, <2>1 DEF ExecuteFill, Used, Busy, Claimed
  <2>3. \A p \in Used : ~IsRoot(p) => p \in Pid /\ p # cpu.l
    <3>1. IsRoot(cpu.l) \/ \A t \in Term : terminal[t].pid # cpu.l
      BY <2>1 DEF RunInv, CurrentInv, At
    <3> QED BY <2>1, <3>1 DEF Used, Claimed, Scheduled, Busy
  <2>4. \A p \in Used : ~IsRoot(p) => parent_pcb'[p] = parent_pcb[p]
    BY <1>4, <2>3 DEF ExecuteFill, TypeInv, TypeOK
  <2> QED BY <1>1, <1>2, <2>2, <2>4, StutterStep DEF TypeInv
<1>5. CASE HaltRoot \/ HaltFree
  <2>1. cpu.pc = "halt"
    BY <1>5 DEF HaltRoot, HaltFree, At, RunInv, LabelInv
  <2>6. cpu'.pc \in {"restart", "fault", "freed"}
    <3>1. CASE HaltRoot
      BY <3>1 DEF HaltRoot, Contexts
    <3>2. CASE HaltFree
      BY <3>2 DEF HaltFree, Contexts, Fault, Context
    <3> QED BY <1>5, <3>1, <3>2
  <2>2. curr_pid \in Scheduled
    BY <2>1, Halting DEF Scheduled, Settled
  <2>3. Claimed = {} /\ Claimed' = {}
    BY <2>1, <2>6 DEF Claimed
  <2>4. Busy' = Busy \ {curr_pid}
    BY <1>5 DEF HaltRoot, HaltFree, Release, Busy, TypeInv, TypeOK
  <2>5. Used' = Used
    BY <1>2, <2>2, <2>3, <2>4 DEF Used
  <2> QED BY <1>1, <1>2, <1>5, <2>5, StutterStep DEF HaltRoot, HaltFree, TypeInv
<1>6. CASE ExecuteLaunch /\ cpu.cmd = "restart"
  <2>1. cpu.pc = "setup" /\ cpu'.pc = "launch"
    BY <1>6 DEF ExecuteLaunch, At, Goto, Contexts
  <2>2. cpu.l = curr_pid /\ terminal[curr_term].pid = curr_pid
    BY <1>6, <2>1 DEF RunInv, CurrentInv, Settled
  <2>3. Claimed = {curr_pid} /\ Claimed' = {} /\ curr_pid \in Scheduled
    BY <2>1, <2>2 DEF Claimed, Scheduled
  <2>4. Busy' = Busy
    BY <1>6 DEF ExecuteLaunch, Busy
  <2>5. Used' = Used
    BY <1>2, <2>3, <2>4 DEF Used
  <2> QED BY <1>1, <1>2, <1>6, <2>5, StutterStep DEF ExecuteLaunch, TypeInv
<1> QED BY <1>3, <1>4, <1>5, <1>6

\* Launching a child starts it on the running terminal's stack.
LEMMA LaunchSpawns ==
    ASSUME TypeInv, SafetyInv, ~Booting, ExecuteLaunch, cpu.cmd # "restart"
    PROVE  \E p \in Pid : Stacks!Spawn(p)
<1> USE RunPhase
<1> DEFINE q == terminal[curr_term].pid
<1>1. cpu.pc = "setup" /\ cpu'.pc = "launch" /\ cpu'.l = cpu.l
  BY DEF ExecuteLaunch, At, Goto, Contexts
<1>2. /\ pcb_status_array[curr_pid] = 1 /\ ~IsRoot(curr_pid)
      /\ curr_pid = cpu.l
      /\ parent_pcb[curr_pid] = q
      /\ pcb_status_array[q] = 1
      /\ \A t \in Term : terminal[t].pid # curr_pid
  BY <1>1 DEF RunInv, CurrentInv, At
<1>3. /\ UNCHANGED <<pcb_status_array, parent_pcb, curr_term>>
      /\ terminal' = [terminal EXCEPT ![curr_term].pid = curr_pid]
  BY <1>2 DEF ExecuteLaunch
<1>4. \A t \in Term : terminal'[t].pid = IF t = curr_term THEN curr_pid ELSE terminal[t].pid
  BY <1>3 DEF TypeInv, TypeOK
<1>5. /\ Busy' = Busy /\ Claimed = {curr_pid} /\ Claimed' = {}
      /\ curr_pid \in Busy /\ q \in Busy
  BY <1>1, <1>2, <1>3 DEF Busy, Claimed
<1>6. curr_pid \notin Scheduled
  BY <1>2 DEF Scheduled
<1>7. Used' = Used \cup {curr_pid} /\ curr_pid \notin Used
  <2>1. curr_pid \notin Used
    BY <1>5, <1>6 DEF Used
  <2>2. Scheduled' \subseteq Scheduled \cup {curr_pid} /\ curr_pid \in Scheduled'
    BY <1>4 DEF Scheduled
  <2>3. Scheduled \subseteq Scheduled' \cup {q}
    BY <1>4 DEF Scheduled
  <2> QED BY <2>1, <2>2, <2>3, <1>2, <1>5 DEF Used
<1>8. StackTop' = [StackTop EXCEPT ![curr_term] = curr_pid] /\ StackTop[curr_term] = q
  BY <1>4 DEF StackTop
<1>9. StackBelow' = [StackBelow EXCEPT ![curr_pid] = q]
  BY <1>2, <1>3, <1>7 DEF StackBelow, IsRoot
<1>10. StackUsed' = StackUsed \cup {curr_pid} /\ curr_pid \notin StackUsed
  BY <1>2, <1>7, PidsAndTerms DEF StackUsed
<1> QED BY <1>3, <1>8, <1>9, <1>10 DEF Stacks!Spawn

\* Handing the terminal to the parent ends the child.
LEMMA HandoverExits ==
    ASSUME TypeInv, SafetyInv, ~Booting, HaltTerminal
    PROVE  Stacks!Exit
<1> USE RunPhase
<1> DEFINE c == terminal[curr_term].pid
<1>1. cpu.pc = "parent" /\ cpu'.pc = "exit"
  BY DEF HaltTerminal, At, Goto, Contexts
<1>2. /\ curr_pid = cpu.l
      /\ pcb_status_array[curr_pid] = 1
      /\ pcb_status_array[c] = 0
      /\ ~IsRoot(c)
      /\ parent_pcb[c] = curr_pid
      /\ \A t \in Term : terminal[t].pid # curr_pid
  BY <1>1 DEF RunInv, LeavingInv, Leaving
<1>3. /\ UNCHANGED <<pcb_status_array, parent_pcb, curr_term>>
      /\ terminal' = [terminal EXCEPT ![curr_term].pid = curr_pid]
  BY DEF HaltTerminal, proc
<1>4. \A t \in Term : terminal'[t].pid = IF t = curr_term THEN curr_pid ELSE terminal[t].pid
  BY <1>3 DEF TypeInv, TypeOK
<1>5. /\ Busy' = Busy /\ Claimed = {} /\ Claimed' = {}
      /\ curr_pid \in Busy /\ c \notin Busy /\ c \in Pid
  BY <1>1, <1>2, <1>3 DEF Busy, Claimed
<1>6. c \in Used /\ c # curr_pid
  BY <1>2 DEF Used, Scheduled
<1>7. Used' = Used \ {c}
  <2>1. c \notin Scheduled'
    BY <1>4, <1>6 DEF Scheduled, ScheduledDistinct
  <2>2. Scheduled' \subseteq Scheduled \cup {curr_pid}
    BY <1>4 DEF Scheduled
  <2>3. Scheduled \subseteq Scheduled' \cup {c}
    BY <1>4 DEF Scheduled
  <2> QED BY <2>1, <2>2, <2>3, <1>5 DEF Used
<1>8. StackBelow[c] = curr_pid /\ StackTop[curr_term] = c
  BY <1>2, <1>5, <1>6 DEF StackBelow, StackTop
<1>9. StackTop' = [StackTop EXCEPT ![curr_term] = curr_pid]
  BY <1>4 DEF StackTop
<1>10. StackBelow' = [StackBelow EXCEPT ![c] = NULL]
  BY <1>3, <1>5, <1>7 DEF StackBelow, IsRoot
<1>11. c \notin Term /\ StackUsed' = StackUsed \ {c}
  BY <1>2, <1>5, <1>7, PidsAndTerms DEF StackUsed
<1> QED BY <1>3, <1>8, <1>9, <1>10, <1>11 DEF Stacks!Exit

\* A timer switch is a switch of terminals.
LEMMA TimerSwitches ==
    ASSUME Shielded, TypeInv, SafetyInv, ~Booting, TickSwitch \/ TickRootShell
    PROVE  \E t \in Term : Stacks!Switch(t)
<1> USE RunPhase
<1>1. UNCHANGED <<pcb_status_array, parent_pcb, terminal>> /\ curr_term' = head /\ head \in Term
  BY DEF TickSwitch, TickRootShell, SwitchTo, TypeInv, TypeOK
<1>2. Claimed = {}
  BY Preempted DEF TickSwitch, TickRootShell, Claimed
<1>3. Claimed' = {}
  <2>1. irq0 /\ irq0' = irq0
    BY DEF TickSwitch, TickRootShell, TimerInterrupt
  <2>2. ExecuteNotPreempted'
    BY PreemptionStep DEF Next, Tick
  <2> QED BY <2>1, <2>2 DEF ExecuteNotPreempted, Claimed
<1>4. Used' = Used
  BY <1>1, <1>2, <1>3, ScheduledSame DEF Used, Busy
<1>5. UNCHANGED <<StackTop, StackBelow, StackUsed>>
  BY <1>1, <1>4 DEF StackTop, StackBelow, StackUsed, IsRoot
<1> QED BY <1>1, <1>5 DEF Stacks!Switch

\* Entering and leaving system calls, starting to run a program and the steps
\* of halt that only move values between PCBs, TSS and registers.
LEMMA ContextStutters ==
    ASSUME Shielded, TypeInv, SafetyInv, ~Booting,
           \/ \E c \in Commands : ExecuteEnter(c)
           \/ ExecuteError \/ ExecuteClear \/ ExecuteFull \/ JumpToProgram
           \/ HaltEnter \/ HaltRestart \/ HaltEsp0 \/ HaltParent \/ ExitToShell
           \/ IoEnter \/ Iret \/ CtrlCSpin \/ CtrlCKill
    PROVE  UNCHANGED Stacks!stacks
<1> USE RunPhase
<1>1. UNCHANGED <<pcb_status_array, parent_pcb, terminal, curr_term>>
  BY DEF ExecuteEnter, ExecuteError, ExecuteClear, ExecuteFull, JumpToProgram,
         HaltEnter, HaltRestart, HaltEsp0, HaltParent, ExitToShell, IoEnter, Iret,
         CtrlCSpin, CtrlCKill, proc, sched
<1>2. Claimed = {}
  <2>1. CASE CtrlCSpin \/ CtrlCKill
    BY <2>1 DEF CtrlCSpin, CtrlCKill, CtrlC, Shielded, Claimed
  <2>2. CASE ~(CtrlCSpin \/ CtrlCKill)
    BY <2>2
    DEF ExecuteEnter, ExecuteError, ExecuteClear, ExecuteFull, JumpToProgram,
        HaltEnter, HaltRestart, HaltEsp0, HaltParent, ExitToShell, IoEnter, Iret,
        At, Claimed
  <2> QED BY <2>1, <2>2
<1>3. Claimed' = {}
  <2>1. CASE ExecuteError \/ ExecuteClear \/ ExecuteFull
    BY <2>1, LeavesCritical
    DEF ExecuteError, ExecuteClear, ExecuteFull, Claimed, Critical, TypeInv
  <2>2. CASE ExitToShell
    <3>1. cpu'.pc \in {"fault", "return"}
      BY <2>2 DEF ExitToShell, Fault, Context
    <3> QED BY <3>1 DEF Claimed
  <2>3. CASE JumpToProgram \/ Iret
    <3>1. cpu'.pc \in {"fault", "user"}
      BY <2>3, LeavesCritical DEF JumpToProgram, Iret, User, Context, Fault
    <3> QED BY <3>1 DEF Claimed
  <2>4. CASE \/ \E c \in Commands : ExecuteEnter(c)
             \/ HaltEnter \/ HaltRestart \/ HaltEsp0 \/ HaltParent
             \/ IoEnter \/ CtrlCSpin \/ CtrlCKill
    <3>1. cpu'.pc \in {"exec", "halt", "esp0", "parent", "io", "spin"}
      BY <2>4 DEF ExecuteEnter, HaltEnter, HaltRestart, HaltEsp0, HaltParent,
                  IoEnter, CtrlCSpin, CtrlCKill, Goto, Contexts
    <3> QED BY <3>1 DEF Claimed
  <2> QED BY <2>1, <2>2, <2>3, <2>4
<1>4. Used' = Used
  BY <1>1, <1>2, <1>3, ScheduledSame DEF Used, Busy
<1> QED BY <1>1, <1>4, StutterStep DEF TypeInv

\* A timer interrupt that finds nothing to switch to, a change of the terminal
\* on screen, and a CPU that hangs.
LEMMA IdleStutters ==
    ASSUME TypeInv, TickStay \/ Hang \/ UNCHANGED vars \/ \E t \in Term : SwitchTerm(t)
    PROVE  UNCHANGED Stacks!stacks
<1>1. UNCHANGED <<pcb_status_array, parent_pcb, curr_term, cpu>>
  BY DEF TickStay, Hang, SwitchTerm, vars, proc, sched, hw
<1>2. \A t \in Term : terminal'[t].pid = terminal[t].pid
  <2>1. CASE \E t \in Term : SwitchTerm(t)
    BY <2>1 DEF SwitchTerm, TypeInv, TypeOK
  <2>2. CASE TickStay \/ Hang \/ UNCHANGED vars
    BY <2>2 DEF TickStay, Hang, vars, sched
  <2> QED BY <2>1, <2>2
<1>3. Used' = Used
  BY <1>1, <1>2, ScheduledSame DEF Used, Busy, Claimed
<1> QED BY <1>1, <1>2, <1>3, StutterStep DEF TypeInv

LEMMA RefinesStep ==
    ASSUME Shielded
    PROVE  TypeInv /\ SafetyInv /\ [Next]_vars => [Stacks!StacksNext]_(Stacks!stacks)
<1> SUFFICES ASSUME TypeInv, SafetyInv, [Next]_vars
             PROVE  Stacks!StacksNext \/ UNCHANGED Stacks!stacks
  OBVIOUS
<1>1. CASE Booting
  BY <1>1, BootStutters
<1>2. CASE ~Booting
  <2>1. CASE ExecuteLaunch /\ cpu.cmd # "restart"
    BY <1>2, <2>1, LaunchSpawns DEF Stacks!StacksNext
  <2>2. CASE HaltTerminal
    BY <1>2, <2>2, HandoverExits DEF Stacks!StacksNext
  <2>3. CASE TickSwitch \/ TickRootShell
    BY <1>2, <2>3, TimerSwitches DEF Stacks!StacksNext
  <2>4. CASE \/ ExecuteClaim \/ ExecuteFill \/ HaltRoot \/ HaltFree
             \/ ExecuteLaunch /\ cpu.cmd = "restart"
    BY <1>2, <2>4, TablesStutter
  <2>5. CASE \/ \E c \in Commands : ExecuteEnter(c)
             \/ ExecuteError \/ ExecuteClear \/ ExecuteFull \/ JumpToProgram
             \/ HaltEnter \/ HaltRestart \/ HaltEsp0 \/ HaltParent \/ ExitToShell
             \/ IoEnter \/ Iret \/ CtrlCSpin \/ CtrlCKill
    BY <1>2, <2>5, ContextStutters
  <2>6. CASE TickStay \/ Hang \/ UNCHANGED vars \/ \E t \in Term : SwitchTerm(t)
    BY <2>6, IdleStutters
  <2> QED
    BY <1>2, <2>1, <2>2, <2>3, <2>4, <2>5, <2>6, NeverTaken
    DEF Next, KernelStep, UserStep, Tick, Keyboard
<1> QED BY <1>1, <1>2

-----------------------------------------------------------------------------
\* The kernel's execute, halt and timer interrupt, cut into interruptible steps,
\* behave like atomic operations on one stack of processes per terminal: the top
\* of a stack runs, the one below waits for it, and no slot is on two stacks.
THEOREM ImplementsProcessStacks ==
    ASSUME Shielded
    PROVE  Spec => ImplementsStacks
BY RefinesInit, RefinesStep, SafetyInvariant, PTL
DEF Spec, ImplementsStacks, Stacks!StacksSpec

=============================================================================
