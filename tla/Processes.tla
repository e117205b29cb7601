------------------------------ MODULE Processes ------------------------------
(***************************************************************************)
(* The process manager of the kernel: the system calls execute and halt    *)
(* (syscall.c), the round-robin scheduler driven by the timer interrupt    *)
(* (schedule.c, handlers.S), the assembly that enters and leaves user      *)
(* programs (sys_call.S), and the two keyboard interrupts that act on      *)
(* processes: Ctrl-C and Alt-F1..F3 (terminal.c).                          *)
(*                                                                         *)
(* There is one CPU.  `cpu' is the context it executes; every suspended    *)
(* context is held, as a value, in great_esp (switched away from by the    *)
(* timer) or in shell_esp_array (a parent blocked inside execute).         *)
(* execute and halt are cut into steps at the points where an interrupt    *)
(* could observe a half-done update.                                       *)
(***************************************************************************)
EXTENDS Integers, FiniteSets

CONSTANTS
    MAX_TERM,        \* number of terminals, and of root shells (the code's 3)
    NUM_TOTAL_PROC,  \* number of process slots (the code's 6)
    NULL,            \* the null pointer
    Commands,        \* kinds of command line a user program may execute
    TickAt,          \* program points at which a timer interrupt may land
    CtrlCAt,         \* program points at which a Ctrl-C may land
    MAX_DEPTH        \* bound: execute frames stacked below a stack's top

CommandKinds == {"elf", "bad", "empty", "clear"}

\* Points where execute runs, and where halt runs.
ExecuteLabels == {"exec", "load", "setup", "launch"}
HaltLabels == {"halt", "restart", "unwind", "freed", "esp0", "parent", "exit"}
Labels == {"boot", "user", "io", "return", "spin", "fault"}
            \cup ExecuteLabels \cup HaltLabels

ASSUME ConstantsAssumption ==
    /\ MAX_TERM \in Nat \ {0}
    /\ NUM_TOTAL_PROC \in Nat
    /\ MAX_TERM <= NUM_TOTAL_PROC
    /\ NUM_TOTAL_PROC < 256
    /\ NULL \notin Int
    /\ MAX_DEPTH \in Nat
    /\ Commands \subseteq CommandKinds
    /\ TickAt \subseteq Labels
    /\ CtrlCAt \subseteq Labels

Pid == 0 .. NUM_TOTAL_PROC - 1
Term == 0 .. MAX_TERM - 1
IsRoot(p) == p < MAX_TERM    \* slots 0..2 are the root shells' (pid < 3)
Byte == 0 .. 255

VARIABLES
    pcb_status_array, \* 1: slot busy, 0: slot free
    parent_pcb,       \* pcb->parent_pcb, as the parent's pid
    shell_flag,       \* pcb->shell_flag: a root shell that has not run yet
    the_esp,          \* pcb->the_esp: stack of a parent blocked in execute
    great_esp,        \* pcb->great_esp: the context the timer interrupted
    active_proc_num,  \* uint8_t
    active_root_shell,\* uint8_t
    curr_pid,
    curr_term,
    terms_pid,        \* terms[t].pid
    terminal,         \* the scheduler's task_t: pid and active
    head,             \* task_list.head
    term_on_screen,
    tss_esp0,         \* kernel stack the CPU switches to on entry from user mode
    cr3,              \* pid whose page directory is loaded
    video,            \* terminal whose text page a pid's 0xB8000 is mapped to
    shell_esp_array,  \* frame of a parent blocked in jump_to_program
    irq0,             \* TRUE: the timer line is unmasked
    cpu               \* the running context

proc == <<pcb_status_array, parent_pcb, shell_flag, the_esp, great_esp,
          active_proc_num, active_root_shell, shell_esp_array>>
sched == <<curr_pid, curr_term, terms_pid, terminal, head, term_on_screen>>
hw == <<tss_esp0, cr3, video, irq0, cpu>>
vars == <<proc, sched, hw>>

-----------------------------------------------------------------------------
(* Kernel stacks and contexts.  A stack pointer is a slot's 8KB stack and   *)
(* the number of execute frames between it and the stack's top; every other *)
(* kernel frame is popped before the next user instruction.                 *)

Sp(p, d) == [stk |-> p, depth |-> d]
Top(p) == Sp(p, 0)
NoSp == Sp(NULL, 0)
Deeper(s) == Sp(s.stk, s.depth + 1)
StackPointers == [stk : Pid \cup {NULL}, depth : Nat]

Contexts == [pc  : Labels,
             sp  : StackPointers,       \* stack the kernel code runs on
             ifl : BOOLEAN,             \* interrupt flag
             uif : BOOLEAN,             \* interrupt flag user mode returns to
             cmd : CommandKinds \cup {"none", "boot", "restart"},
             l   : Pid \cup {NULL},     \* execute: the slot; halt: the parent
             esp : StackPointers]       \* halt's local shell_esp

Context(pc, ifl) ==
    [pc |-> pc, sp |-> NoSp, ifl |-> ifl, uif |-> ifl, cmd |-> "none",
     l |-> NULL, esp |-> NoSp]
User(ifl) == Context("user", ifl)
\* The boot stack is none of the slots' stacks.
BootSp == Sp(NULL, 1)
Boot == [Context("boot", TRUE) EXCEPT !.sp = BootSp]
\* An exception handler: prints and spins with interrupts off.
Fault == Context("fault", FALSE)

\* What a saved pointer finds once its frame has been popped: later kernel
\* entries overwrite the place, so resuming it is a crash.
Popped == Fault

Frames == [sp : StackPointers, uif : BOOLEAN]
NoFrame == [sp |-> NoSp, uif |-> FALSE]

\* Where the CPU pushes the frame of an interrupt or a system call.
KernelSp == IF cpu.pc = "user" THEN tss_esp0 ELSE cpu.sp
Saved == [cpu EXCEPT !.sp = KernelSp]
Resumed(c) == IF c.pc = "user" THEN User(c.uif) ELSE c

Dec(n) == (n + 255) % 256
Inc(n) == (n + 1) % 256

EnableTimer == irq0' = TRUE      \* enable_irq(0)
DisableTimer == irq0' = FALSE    \* disable_irq(0)
FlushTlb(p) == cr3' = p          \* load p's page directory

At(pc) == cpu.pc = pc
Goto(pc) == cpu' = [cpu EXCEPT !.pc = pc]

-----------------------------------------------------------------------------
(* Boot: init_schedule, setup_terms and the three execute("shell") of       *)
(* kernel.c.  Interrupts are on, the timer line is still masked.            *)

InitSchedule ==
    /\ terminal = [t \in Term |-> [pid |-> t, active |-> t = 0]]
    /\ curr_term = 0
    /\ term_on_screen = 0
    /\ head = 0

SetupTerms == terms_pid = [t \in Term |-> t]

\* Slots 0..2 see their own terminal's text page, the others terminal 0's.
InitPaging ==
    /\ video = [p \in Pid |-> IF IsRoot(p) THEN p ELSE 0]
    /\ cr3 = 0

Init ==
    /\ pcb_status_array = [p \in Pid |-> IF p = 0 THEN 1 ELSE 0]
    /\ parent_pcb = [p \in Pid |-> NULL]
    /\ shell_flag = [p \in Pid |-> FALSE]
    /\ the_esp = [p \in Pid |-> NoSp]
    /\ great_esp = [p \in Pid |-> Fault]
    /\ shell_esp_array = [p \in Pid |-> NoFrame]
    /\ active_proc_num = 0
    /\ active_root_shell = 0
    /\ curr_pid = 0
    /\ InitSchedule
    /\ SetupTerms
    /\ InitPaging
    /\ tss_esp0 = Top(0)
    /\ irq0 = FALSE
    /\ cpu = Boot

\* The next execute("shell") of the boot sequence; before the last one slot 0,
\* held busy so that the first two shells get slots 1 and 2, is freed.
LastBootShell == active_root_shell = MAX_TERM - 1

BootExecute ==
    /\ At("boot")
    /\ pcb_status_array' = IF LastBootShell THEN [pcb_status_array EXCEPT ![0] = 0]
                                            ELSE pcb_status_array
    /\ FlushTlb(IF LastBootShell THEN 0 ELSE cr3)
    /\ DisableTimer
    /\ cpu' = [cpu EXCEPT !.pc = "exec", !.cmd = "boot"]
    /\ UNCHANGED <<parent_pcb, shell_flag, the_esp, great_esp, active_proc_num,
                   active_root_shell, shell_esp_array, sched, tss_esp0, video>>

-----------------------------------------------------------------------------
(* The system call execute.                                                 *)

\* Mutant: the timer line is left unmasked.
ExecuteEnterUnmasked(cmd) ==
    /\ At("user")
    /\ tss_esp0 # NoSp
    /\ tss_esp0.depth < MAX_DEPTH
    /\ cpu' = [cpu EXCEPT !.pc = "exec", !.cmd = cmd, !.sp = Deeper(tss_esp0)]
    /\ UNCHANGED <<proc, sched, tss_esp0, cr3, video, irq0>>

\* A user program calls execute(cmd): disable_irq(0), parse the command.
ExecuteEnter(cmd) ==
    /\ At("user")
    /\ tss_esp0 # NoSp
    /\ tss_esp0.depth < MAX_DEPTH
    /\ DisableTimer
    /\ cpu' = [cpu EXCEPT !.pc = "exec", !.cmd = cmd, !.sp = Deeper(tss_esp0)]
    /\ UNCHANGED <<proc, sched, tss_esp0, cr3, video>>

\* execute returns to whoever called it.
ExecuteReturn ==
    cpu' = CASE cpu.cmd = "boot"    -> Boot
             [] cpu.cmd = "restart" -> [cpu EXCEPT !.pc = "unwind"]
             [] OTHER               -> User(cpu.uif)

\* The header of an empty file is never written, so whether it looks like an
\* ELF header is whatever the stack held.
NotRunnable == cpu.cmd \in {"bad", "empty"}
Runnable == cpu.cmd \in {"elf", "empty", "boot", "restart"}

\* Illegal length, no such file, unreadable or not ELF: return -1.  The timer
\* line stays masked: every enable_irq(0) on these paths is commented out.
ExecuteError ==
    /\ At("exec")
    /\ NotRunnable
    /\ ExecuteReturn
    /\ UNCHANGED <<proc, sched, tss_esp0, cr3, video, irq0>>

\* Mutant: "clear" leaves the timer line masked, like the error returns.
ExecuteClearMasked ==
    /\ At("exec")
    /\ cpu.cmd = "clear"
    /\ ExecuteReturn
    /\ UNCHANGED <<proc, sched, tss_esp0, cr3, video, irq0>>

\* The built-in command "clear".
ExecuteClear ==
    /\ At("exec")
    /\ cpu.cmd = "clear"
    /\ EnableTimer
    /\ ExecuteReturn
    /\ UNCHANGED <<proc, sched, tss_esp0, cr3, video>>

\* MAXIMUM PROCESSES.  The search reads one byte past the array, which is
\* padding and zero in the build, so it stops there.
ExecuteFull ==
    /\ At("exec")
    /\ Runnable
    /\ \A p \in Pid : pcb_status_array[p] = 1
    /\ EnableTimer
    /\ ExecuteReturn
    /\ UNCHANGED <<proc, sched, tss_esp0, cr3, video>>

\* Mutant: the search stops at the last slot without looking whether it is busy.
FirstFreeOrLast(i) ==
    /\ pcb_status_array[i] = 0 \/ i = NUM_TOTAL_PROC - 1
    /\ \A j \in Pid : j < i => pcb_status_array[j] = 1

FirstFree(i) ==
    /\ pcb_status_array[i] = 0
    /\ \A j \in Pid : j < i => pcb_status_array[j] = 1

\* Take the first free slot, map its program page and mark it busy.
ExecuteClaim ==
    /\ At("exec")
    /\ Runnable
    /\ \E i \in Pid :
         /\ FirstFree(i)
         /\ pcb_status_array' = [pcb_status_array EXCEPT ![i] = 1]
         /\ FlushTlb(i)
         /\ cpu' = [cpu EXCEPT !.pc = "load", !.l = i]
    /\ UNCHANGED <<parent_pcb, shell_flag, the_esp, great_esp, active_proc_num,
                   active_root_shell, shell_esp_array, sched, tss_esp0, video,
                   irq0>>

\* Mutant: every process is counted as a root shell.
CountEveryProcess == active_root_shell' = Inc(active_root_shell)

CountRootShell ==
    active_root_shell' = IF IsRoot(cpu.l) THEN Inc(active_root_shell)
                                          ELSE active_root_shell

\* Nothing was loaded: return -1.  The slot stays marked busy.
ExecuteLoadFail ==
    /\ At("load")
    /\ cpu.cmd = "empty"
    /\ CountRootShell
    /\ FlushTlb(curr_pid)
    /\ EnableTimer
    /\ ExecuteReturn
    /\ UNCHANGED <<pcb_status_array, parent_pcb, shell_flag, the_esp, great_esp,
                   active_proc_num, shell_esp_array, sched, tss_esp0, video>>

\* Mutants: the test is off by one; the terminal's root shell is the parent.
ParentOffByOne == IF active_proc_num > MAX_TERM THEN curr_pid ELSE NULL
ParentIsRoot == IF Inc(active_proc_num) > MAX_TERM THEN curr_term ELSE NULL

\* The process that executes is the parent, unless only root shells exist.
NewParent == IF Inc(active_proc_num) > MAX_TERM THEN curr_pid ELSE NULL

\* Loaded: fill in the PCB and make the new process the current one.
ExecuteFill ==
    /\ At("load")
    /\ cpu.cmd # "empty"
    /\ CountRootShell
    /\ active_proc_num' = Inc(active_proc_num)
    /\ parent_pcb' = [parent_pcb EXCEPT ![cpu.l] = NewParent]
    /\ curr_pid' = cpu.l
    /\ terms_pid' = [terms_pid EXCEPT ![curr_term] = cpu.l]
    /\ Goto("setup")
    /\ UNCHANGED <<pcb_status_array, shell_flag, the_esp, great_esp,
                   shell_esp_array, curr_term, terminal, head, term_on_screen,
                   tss_esp0, cr3, video, irq0>>

\* While root shells are missing the new one is only flagged for the scheduler.
ExecuteDefer ==
    /\ At("setup")
    /\ active_root_shell < MAX_TERM
    /\ shell_flag' = [shell_flag EXCEPT ![cpu.l] = TRUE]
    /\ ExecuteReturn
    /\ UNCHANGED <<pcb_status_array, parent_pcb, the_esp, great_esp,
                   active_proc_num, active_root_shell, shell_esp_array, sched,
                   tss_esp0, cr3, video, irq0>>

\* Point the TSS at the new process's stack, remember the parent's stack, map
\* the video page, tell the scheduler, unmask the timer.
ExecuteLaunch ==
    /\ At("setup")
    /\ active_root_shell >= MAX_TERM
    /\ IsRoot(curr_pid) \/ parent_pcb[cpu.l] # NULL
    /\ tss_esp0' = Top(curr_pid)
    /\ video' = [video EXCEPT ![curr_pid] = curr_term]
    /\ FlushTlb(curr_pid)
    /\ EnableTimer
    /\ IF IsRoot(curr_pid)
       THEN UNCHANGED <<the_esp, terminal>>
       ELSE /\ the_esp' = [the_esp EXCEPT ![parent_pcb[cpu.l]] = cpu.sp]
            /\ terminal' = [terminal EXCEPT ![curr_term].pid = curr_pid]
    /\ Goto("launch")
    /\ UNCHANGED <<pcb_status_array, parent_pcb, shell_flag, great_esp,
                   active_proc_num, active_root_shell, shell_esp_array,
                   curr_pid, curr_term, terms_pid, head, term_on_screen>>

\* A child without a parent: (exec_pcb->parent_pcb)->the_esp faults, after the
\* TSS has been pointed at the new process's stack.
ExecuteNullParent ==
    /\ At("setup")
    /\ active_root_shell >= MAX_TERM
    /\ ~IsRoot(curr_pid)
    /\ parent_pcb[cpu.l] = NULL
    /\ tss_esp0' = Top(curr_pid)
    /\ cpu' = Fault
    /\ UNCHANGED <<proc, sched, cr3, video, irq0>>

Frame == [sp |-> cpu.sp, uif |-> cpu.uif]
\* Mutant: the frame is filed under the child's pid.
SaveFrameForChild == [shell_esp_array EXCEPT ![cpu.l] = Frame]

SaveFrame == [shell_esp_array EXCEPT ![parent_pcb[cpu.l]] = Frame]

\* jump_to_program: save the parent's frame, enter user mode with the caller's
\* interrupt flag.
JumpToProgram ==
    /\ At("launch")
    /\ shell_esp_array' = IF IsRoot(cpu.l) THEN shell_esp_array ELSE SaveFrame
    /\ cpu' = User(cpu.ifl)
    /\ UNCHANGED <<pcb_status_array, parent_pcb, shell_flag, the_esp, great_esp,
                   active_proc_num, active_root_shell, sched, tss_esp0, cr3,
                   video, irq0>>

-----------------------------------------------------------------------------
(* The system call halt.                                                    *)

\* Mutant: the slot of the terminal on screen is freed.
ReleaseOnScreen(p) == [pcb_status_array EXCEPT ![terminal[term_on_screen].pid] = 0]

Release(p) == [pcb_status_array EXCEPT ![p] = 0]

HaltEnter ==
    /\ At("user")
    /\ tss_esp0 # NoSp
    /\ tss_esp0.depth <= MAX_DEPTH
    /\ active_proc_num' = Dec(active_proc_num)
    /\ cpu' = [cpu EXCEPT !.pc = "halt", !.sp = tss_esp0]
    /\ UNCHANGED <<pcb_status_array, parent_pcb, shell_flag, the_esp, great_esp,
                   active_root_shell, shell_esp_array, sched, tss_esp0, cr3,
                   video, irq0>>

\* A root shell is never gone: free its slot and execute "shell" again.
HaltRoot ==
    /\ At("halt")
    /\ IsRoot(curr_pid)
    /\ pcb_status_array' = Release(curr_pid)
    /\ active_root_shell' = Dec(active_root_shell)
    /\ cpu' = [cpu EXCEPT !.pc = "restart", !.ifl = TRUE]
    /\ UNCHANGED <<parent_pcb, shell_flag, the_esp, great_esp, active_proc_num,
                   shell_esp_array, sched, tss_esp0, cr3, video, irq0>>

HaltRestart ==
    /\ At("restart")
    /\ DisableTimer
    /\ cpu' = [cpu EXCEPT !.pc = "exec", !.cmd = "restart",
                          !.sp = Deeper(cpu.sp)]
    /\ UNCHANGED <<proc, sched, tss_esp0, cr3, video>>

\* Read the parent, free the slot, read the parent's stack pointer; a null
\* parent faults.
HaltFree ==
    /\ \/ At("halt") /\ ~IsRoot(curr_pid)
       \/ At("unwind")
    /\ pcb_status_array' = Release(curr_pid)
    /\ LET p == parent_pcb[curr_pid] IN
         cpu' = IF p = NULL THEN Fault
                ELSE [cpu EXCEPT !.pc = "freed", !.l = p, !.esp = the_esp[p]]
    /\ UNCHANGED <<parent_pcb, shell_flag, the_esp, great_esp, active_proc_num,
                   active_root_shell, shell_esp_array, sched, tss_esp0, cr3,
                   video, irq0>>

HaltEsp0 ==
    /\ At("freed")
    /\ tss_esp0' = cpu.esp
    /\ Goto("esp0")
    /\ UNCHANGED <<proc, sched, cr3, video, irq0>>

HaltParent ==
    /\ At("esp0")
    /\ curr_pid' = cpu.l
    /\ Goto("parent")
    /\ UNCHANGED <<proc, curr_term, terms_pid, terminal, head, term_on_screen,
                   tss_esp0, cr3, video, irq0>>

\* Hand the terminal back to the parent, restore its pages, unmask the timer.
HaltTerminal ==
    /\ At("parent")
    /\ terms_pid' = [terms_pid EXCEPT ![curr_term] = curr_pid]
    /\ terminal' = [terminal EXCEPT ![curr_term].pid = curr_pid]
    /\ FlushTlb(cpu.l)
    /\ EnableTimer
    /\ Goto("exit")
    /\ UNCHANGED <<proc, curr_pid, curr_term, head, term_on_screen, tss_esp0,
                   video>>

\* exit_to_shell: continue in the parent's execute, interrupts on; the frame
\* is popped.
ExitToShell ==
    /\ At("exit")
    /\ LET f == shell_esp_array[curr_pid] IN
         cpu' = IF f.sp = NoSp THEN Fault
                ELSE [Context("return", TRUE) EXCEPT !.sp = f.sp, !.uif = f.uif]
    /\ shell_esp_array' = [shell_esp_array EXCEPT ![curr_pid] = NoFrame]
    /\ UNCHANGED <<pcb_status_array, parent_pcb, shell_flag, the_esp, great_esp,
                   active_proc_num, active_root_shell, sched, tss_esp0, cr3,
                   video, irq0>>

-----------------------------------------------------------------------------
(* The system calls that turn interrupts on: terminal_read and read_rtc     *)
(* wait with sti, terminal_write ends with sti.  What they transfer belongs *)
(* to other modules.                                                        *)

IoEnter ==
    /\ At("user")
    /\ tss_esp0 # NoSp
    /\ cpu' = [cpu EXCEPT !.pc = "io", !.sp = tss_esp0, !.ifl = TRUE]
    /\ UNCHANGED <<proc, sched, tss_esp0, cr3, video, irq0>>

\* iret of the system call handler.
Iret ==
    /\ cpu.pc \in {"io", "return"}
    /\ cpu' = User(cpu.uif)
    /\ UNCHANGED <<proc, sched, tss_esp0, cr3, video, irq0>>

\* Entering the kernel on a stack pointer that was never set.
BadStack ==
    /\ At("user")
    /\ tss_esp0 = NoSp
    /\ cpu' = Fault
    /\ UNCHANGED <<proc, sched, tss_esp0, cr3, video, irq0>>

-----------------------------------------------------------------------------
(* Interrupts.                                                              *)

\* Mutant: the ring is not closed.
NextTaskUnwrapped(t) == t + 1

NextTask(t) == (t + 1) % MAX_TERM    \* terminal[t].next

\* A timer interrupt is taken: context_switch advances the ring.
TimerInterrupt ==
    /\ irq0
    /\ cpu.ifl
    /\ cpu.pc \in TickAt
    /\ KernelSp # NoSp
    /\ head' = NextTask(head)

\* The task at the head is the current process or has never been shown.
Stay == terminal[head].pid = curr_pid \/ ~terminal[head].active

\* The frame great_esp was pointed at is popped by the same interrupt's iret.
TickStay ==
    /\ TimerInterrupt
    /\ Stay
    /\ UNCHANGED <<proc, curr_pid, curr_term, terms_pid, terminal, term_on_screen, hw>>

\* Mutants: curr_term is not updated; the page directory is not loaded.
SwitchKeepsTerm(p) ==
    tss_esp0' = Top(p) /\ curr_pid' = p /\ cr3' = p /\ UNCHANGED curr_term
SwitchKeepsPages(p) ==
    tss_esp0' = Top(p) /\ curr_term' = head /\ curr_pid' = p /\ UNCHANGED cr3

SwitchTo(p) ==
    /\ tss_esp0' = Top(p)
    /\ curr_term' = head
    /\ curr_pid' = p
    /\ FlushTlb(p)

\* switch_to_prog: resume where the timer interrupted that process.
TickSwitch ==
    /\ TimerInterrupt
    /\ ~Stay
    /\ ~shell_flag[terminal[head].pid]
    /\ SwitchTo(terminal[head].pid)
    /\ great_esp' = [great_esp EXCEPT ![curr_pid] = Saved,
                                      ![terminal[head].pid] = Popped]
    /\ cpu' = Resumed(great_esp[terminal[head].pid])
    /\ UNCHANGED <<pcb_status_array, parent_pcb, shell_flag, the_esp,
                   active_proc_num, active_root_shell, shell_esp_array,
                   terms_pid, terminal, term_on_screen, video, irq0>>

\* execute_root_shell: first run of a root shell, straight from the interrupt
\* handler, hence with interrupts off in user mode.
TickRootShell ==
    /\ TimerInterrupt
    /\ ~Stay
    /\ shell_flag[terminal[head].pid]
    /\ SwitchTo(terminal[head].pid)
    /\ great_esp' = [great_esp EXCEPT ![curr_pid] = Saved]
    /\ shell_flag' = [shell_flag EXCEPT ![terminal[head].pid] = FALSE]
    /\ cpu' = User(FALSE)
    /\ UNCHANGED <<pcb_status_array, parent_pcb, the_esp, active_proc_num,
                   active_root_shell, shell_esp_array, terms_pid, terminal,
                   term_on_screen, video, irq0>>

Tick == TickStay \/ TickSwitch \/ TickRootShell

\* Alt-F1..F3: show a terminal; the first time, let the scheduler run it.
SwitchTerm(t) ==
    /\ cpu.ifl
    /\ KernelSp # NoSp
    /\ term_on_screen # t
    /\ term_on_screen' = t
    /\ terminal' = [terminal EXCEPT ![t].active = TRUE]
    /\ UNCHANGED <<proc, curr_pid, curr_term, terms_pid, head, hw>>

\* Ctrl-C while a child runs (for a root shell it prints a message only).
CtrlC ==
    /\ cpu.ifl
    /\ cpu.pc \in CtrlCAt
    /\ KernelSp # NoSp
    /\ ~IsRoot(curr_pid)

\* The handler waits, with interrupts off, for a change of terminal.
CtrlCSpin ==
    /\ CtrlC
    /\ term_on_screen # curr_term
    /\ cpu' = [cpu EXCEPT !.pc = "spin", !.sp = KernelSp, !.ifl = FALSE]
    /\ UNCHANGED <<proc, sched, tss_esp0, cr3, video, irq0>>

\* disable_irq(0) and halt(0), run to its end with interrupts off.
CtrlCKill ==
    /\ CtrlC
    /\ term_on_screen = curr_term
    /\ DisableTimer
    /\ active_proc_num' = Dec(active_proc_num)
    /\ cpu' = [cpu EXCEPT !.pc = "halt", !.sp = KernelSp, !.ifl = FALSE]
    /\ UNCHANGED <<pcb_status_array, parent_pcb, shell_flag, the_esp, great_esp,
                   active_root_shell, shell_esp_array, sched, tss_esp0, cr3,
                   video>>

\* while(1) of an exception handler, or of the Ctrl-C handler.
Hang ==
    /\ cpu.pc \in {"spin", "fault"}
    /\ UNCHANGED vars

-----------------------------------------------------------------------------
KernelStep ==
    \/ BootExecute
    \/ ExecuteError \/ ExecuteClear \/ ExecuteFull \/ ExecuteClaim
    \/ ExecuteLoadFail \/ ExecuteFill \/ ExecuteDefer \/ ExecuteLaunch
    \/ ExecuteNullParent \/ JumpToProgram
    \/ HaltRoot \/ HaltRestart \/ HaltFree \/ HaltEsp0 \/ HaltParent
    \/ HaltTerminal \/ ExitToShell \/ Iret

UserStep ==
    \/ \E c \in Commands : ExecuteEnter(c)
    \/ HaltEnter
    \/ IoEnter
    \/ BadStack

Keyboard ==
    \/ \E t \in Term : SwitchTerm(t)
    \/ CtrlCSpin
    \/ CtrlCKill

Next == KernelStep \/ UserStep \/ Tick \/ Keyboard \/ Hang

Spec == Init /\ [][Next]_vars

\* The interrupt controller latches a timer interrupt that finds the line
\* masked or the interrupt flag clear and delivers it when both open: strong
\* fairness.  Kernel code runs on until it waits.  Programs keep reading or
\* writing: every shipped program does in its main loop, the shell to prompt
\* and read between any two commands.
FairSpec ==
    Spec /\ WF_vars(KernelStep) /\ SF_vars(IoEnter) /\ SF_vars(Tick)

\* The same without trust in the programs the shells start, which may compute
\* for ever.
RootIo == IsRoot(curr_pid) /\ IoEnter
PreemptiveSpec ==
    Spec /\ WF_vars(KernelStep) /\ SF_vars(RootIo) /\ SF_vars(Tick)

-----------------------------------------------------------------------------
(* Properties.                                                              *)

\* The kernel is still in its boot sequence.
Booting == At("boot") \/ (cpu.cmd = "boot" /\ cpu.pc # "launch")
\* No execute or halt is under way on the CPU.
Quiet == cpu.pc \in {"user", "io", "return"}
Busy == {p \in Pid : pcb_status_array[p] = 1}
Children == {p \in Busy : ~IsRoot(p)}

\* Every variable keeps its type; the uint8_t counters wrap, the PCB fields are
\* pids, flags, stack pointers and contexts.
TypeOK ==
    /\ pcb_status_array \in [Pid -> 0 .. 1]
    /\ parent_pcb \in [Pid -> Pid \cup {NULL}]
    /\ shell_flag \in [Pid -> BOOLEAN]
    /\ the_esp \in [Pid -> StackPointers]
    /\ great_esp \in [Pid -> Contexts]
    /\ active_proc_num \in Byte
    /\ active_root_shell \in Byte
    /\ curr_pid \in Pid
    /\ curr_term \in Term
    /\ terms_pid \in [Term -> Pid]
    /\ terminal \in [Term -> [pid : Pid, active : BOOLEAN]]
    /\ head \in Term
    /\ term_on_screen \in Term
    /\ tss_esp0 \in StackPointers
    /\ cr3 \in Pid
    /\ video \in [Pid -> Term]
    /\ shell_esp_array \in [Pid -> Frames]
    /\ irq0 \in BOOLEAN
    /\ cpu \in Contexts

\* The scheduler never holds one slot for two terminals: execute's search for
\* a free slot and halt's release of one never let two terminals share a PCB.
ScheduledDistinct ==
    \A s, t \in Term : s # t => terminal[s].pid # terminal[t].pid

\* The slot of every process the scheduler can switch back to is marked busy.
SuspendedBusy ==
    ~Booting => \A t \in Term \ {curr_term} : pcb_status_array[terminal[t].pid] = 1

\* What the timer switched away from stays intact until it runs again: its
\* video page is its terminal's, and the kernel stack that holds its saved
\* context is that of a busy slot of the same terminal.
SuspendedIntact ==
    ~Booting =>
      \A t \in Term \ {curr_term} :
        LET p == terminal[t].pid
            s == great_esp[p].sp.stk
        IN /\ video[p] = t
           /\ terminal[t].active /\ ~shell_flag[p] =>
                 /\ great_esp[p] # Popped
                 /\ s # NULL => pcb_status_array[s] = 1 /\ video[s] = t

\* Outside execute and halt, all the kernel's notions of the current process
\* agree: curr_pid, both terminal tables, the page directory, the video page
\* and the kernel stack (which is how fetch_cur_pcb_ptr finds the PCB).
CurrentIntact ==
    Quiet =>
      /\ pcb_status_array[curr_pid] = 1
      /\ terminal[curr_term].pid = curr_pid
      /\ terms_pid[curr_term] = curr_pid
      /\ cr3 = curr_pid
      /\ video[curr_pid] = curr_term
      /\ tss_esp0.stk = curr_pid
      /\ cpu.pc # "user" => cpu.sp.stk = curr_pid

\* Every child has a parent of its own that waits for it: blocked in execute,
\* with its frame saved on its own stack (or about to be, by a launch the timer
\* interrupted), on the same terminal, and scheduled by no terminal.  halt can
\* then always return to it.
ParentWaits ==
    Quiet =>
      \A p \in Children :
        LET q == parent_pcb[p] IN
          /\ q # NULL
          /\ pcb_status_array[q] = 1
          /\ video[q] = video[p]
          /\ \/ shell_esp_array[q].sp.stk = q
             \/ great_esp[p].pc = "launch" /\ great_esp[p].sp.stk = q
          /\ the_esp[q].stk = q
          /\ \A t \in Term : terminal[t].pid # q
          /\ \A r \in Children : parent_pcb[r] = q => r = p

\* The counters execute decides by agree with the slot table.
CountersAgree ==
    Quiet => /\ active_root_shell = MAX_TERM
             /\ active_proc_num = Cardinality(Busy)

\* A slot marked busy belongs to a process: a terminal runs it, or it waits for
\* a child that is itself busy.
BusyHasProcess ==
    Quiet =>
      \A p \in Busy :
        \/ \E t \in Term : terminal[t].pid = p
        \/ \E q \in Children : q # p /\ parent_pcb[q] = p

\* Both: no slot and no count is lost, whatever the order of starts and ends.
SlotsAccounted == CountersAgree /\ BusyHasProcess

\* The timer never preempts execute between its entry and the launch, so the
\* search for a free slot and its claim are one step for every other process.
ExecuteNotPreempted ==
    LET Critical == {"exec", "load", "setup"}
    IN /\ cpu.pc \in Critical => ~irq0
       /\ \A p \in Pid : great_esp[p].pc \notin Critical

\* If a step releases slots, then its own, by the process its terminal runs.
ReleaseIsOwn ==
    \A p \in Pid : pcb_status_array[p] = 1 /\ pcb_status_array'[p] = 0 =>
      \/ At("boot")
      \/ /\ p = curr_pid
         /\ p = terminal[curr_term].pid
         /\ \A q \in Children : parent_pcb[q] # p

\* A slot is released only by the process that owns it, while it is the one its
\* terminal runs and has no child of its own (boot frees slot 0 once).
ReleasedByOwner == [][ReleaseIsOwn]_vars

\* A kernel stack never grows down into the PCB at its base, so that
\* fetch_cur_pcb_ptr finds the PCB: an execute frame takes 416 bytes (system
\* call entry and locals of the shipped build), the PCB 320 of the 8192.
StackClearOfPcb ==
    Quiet => 4 + 416 * tss_esp0.depth + 320 <= 8192

\* No kernel path dereferences a null parent or resumes a context or a frame
\* that was never saved.
NoFault == cpu.pc # "fault"

\* Every terminal that was ever shown is scheduled again and again.
EveryTerminalRuns ==
    \A t \in Term : [](terminal[t].active => <>(curr_term = t))

\* A process that calls halt gives way: its parent, or a fresh root shell, gets
\* back to user mode.
HaltReturns == At("halt") ~> At("user")

-----------------------------------------------------------------------------
(* Refinement of ProcessStacks: a process is started when ExecuteLaunch     *)
(* hands it the terminal and ended when HaltTerminal hands the terminal to  *)
(* its parent.                                                              *)

\* A slot claimed by an execute that has not launched it yet.
Claimed == IF cpu.pc \in {"load", "setup"} THEN {cpu.l} ELSE {}
Scheduled == {terminal[t].pid : t \in Term}
Used == (Busy \ Claimed) \cup Scheduled

StackTop == [t \in Term |-> terminal[t].pid]
StackBelow == [p \in Pid |-> IF p \in Used /\ ~IsRoot(p) THEN parent_pcb[p] ELSE NULL]
StackUsed == Used \cup Term

Stacks == INSTANCE ProcessStacks WITH
    Terms <- Term, Pids <- Pid, Null <- NULL,
    top <- StackTop, below <- StackBelow, used <- StackUsed, running <- curr_term

\* execute, halt and the scheduler, cut into interruptible steps, implement
\* the atomic operations on per-terminal process stacks.
ImplementsStacks == Stacks!StacksSpec

=============================================================================
