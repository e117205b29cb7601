# A TLA+ model of the ECE391 kernel

This directory holds a verification project for the teaching kernel in
`src/student-distrib`: TLA+ modules, TLC configurations and TLAPS proofs. The
kernel runs on one x86 CPU, shows three text terminals, and runs on each of them
a stack of programs started from a root shell. All line numbers below are of
files in `src/student-distrib` unless another path is given.

## 1. The system

| Part | State | Operations | Interacts with |
|---|---|---|---|
| Process manager (`syscall.c`, `sys_call.S`) | `pcb_status_array`, the PCBs, `active_proc_num`, `active_root_shell`, `curr_pid`, `shell_esp_array` | `execute`, `halt`, `getargs`, `vidmap` | file system (loads programs), paging, TSS, scheduler's `terminal[]` |
| Scheduler (`schedule.c`, `handlers.S`) | `terminal[]` (pid, active), ring `task_list`, `curr_term` | `context_switch` on every timer interrupt | PCBs, TSS, paging, interrupt controller |
| Terminal driver (`terminal.c`) | `terms[]` (line buffer, cursor, read flag), `term_on_screen`, modifier keys | `terminal_read`, `terminal_write`, keyboard handler `kbd`, `switch_term` | scheduler (`active`), `halt` on Ctrl-C, console |
| Console (`lib.c`) | text pages, cursor | `putc`, `printf`, `clear`, `update_cursor`, `scroll_screen` | paging (which page 0xB8000 is) |
| File descriptors (`syscall.c`) | `filesys_desc_array` of each PCB | `open`, `close`, `read`, `write` | file system, terminal, RTC |
| File system (`filesystem.c`) | the boot image (read only), file positions | `read_dentry_by_name/_index`, `read_data`, `directory_read` | descriptors, `execute` |
| RTC (`rtc.c`) | interrupt flag, rate, wall clock | `read_rtc`, `write_rtc`, `rtc_handler`, `gettime` | interrupt controller, console |
| Interrupt controller (`i8259.c`) | masks | `enable_irq`, `disable_irq`, `send_eoi` | everything above |
| Paging (`paging.c`) | per-slot page tables, cr3 | `init_paging`, `flush_tlb` | process manager, scheduler |
| Boot (`kernel.c`) | descriptor tables | `entry` | all |
| Exceptions (`inthandler.c`) | none | print and loop | none |
| Login prompt (`user.c`) | users | never called | none |
| Library (`lib.c`, `src/syscalls/ece391support.c`) | none | string, memory and number routines | kernel and programs |
| User programs (`src/syscalls`) | their buffers | shell, `cat`, `ls`, `grep`, `counter`, tests of the system calls | the kernel, through `int 0x80` |
| Fish demo (`src/fish`) | `blink_array`, `mp1_list_head`, the text page from `vidmap` | `mp1_ioctl` (add, remove, find, sync), `mp1_rtc_tasklet` | RTC, files |

What is hard. The vector 128 gate is a trap gate (`kernel.c` 201-210), so system
calls run with interrupts as the program had them: the timer and the keyboard
interrupt `execute` and `halt` at any instruction, unless they mask the timer.
Ctrl-C runs `halt` from inside the keyboard handler, on top of whatever was
interrupted. One context is spread over a PCB, the TSS, cr3, two pid tables and
two saved stack pointers. Error paths restore some of that and not the rest.
The `hazards` of `PROJECT.json` list these places line by line.

What makes each part correct:

* processes and scheduler: a slot belongs to one process at a time; a suspended
  process is found as it was left; the running process agrees with all tables;
  a process that ends gives way to the one that waits for it; every terminal in
  use keeps running;
* terminal driver: a reader gets the line typed on its terminal, within its
  buffer; keys of one terminal never reach another; switching loses nothing;
* console: the cursor stays on the screen, output lands on the writer's page;
* descriptors and files: reads return the bytes of the file at the position, a
  closed descriptor is free and only then;
* RTC: a reader wakes after the next interrupt; the displayed time is the
  converted one;
* programs: a program gets the arguments of its line, passes on every byte or name
  once, reports every matching line once, and ends;
* fish demo: the list holds the structures in use and no others, each character blinks
  with its own lengths, and what a cell shows agrees with the structure that drew it.

## 2. Modules

| Module | Role |
|---|---|
| `Processes` | process manager, scheduler, timer, Ctrl-C and Alt-Fn, boot |
| `ProcessStacks` | abstract specification: per-terminal stacks of processes with atomic Spawn, Exit, Switch |
| `Console` | cursor movement of `putc` and of the keyboard echo |
| `Terminal` | `terminal_read`, `terminal_write`, key decoding, keyboard handler, terminal switching; extends `Console` |
| `LineInput` | abstract specification: what a read of a terminal promises |
| `Files` | descriptors, lookup, block-wise copy |
| `FileReads` | abstract specification: a descriptor is a position in a sequence of bytes or names |
| `Rtc` | the periodic interrupt, its handler, the device's system calls |
| `Clock` | `gettime` and `display_time` |
| `Library` | `itoa`, `printf`, `strncmp`, `memcpy` and their like, as operators on memories |
| `Syserr` | the calls of the repository's system call tests; extends `Files` |
| `Programs` | the shell, `execute` up to the stored arguments, `cat`, `ls`, `grep`, `counter`, `syserr`, boot messages; extends `Files`, `Library` and `Syserr` |
| `Blink` | the blink list of the fish demo: allocator, calls, tasklet |
| `BlinkList` | abstract specification: a sequence of characters, each with a phase and the time it has left |
| `Fish` | `main` and `add_frames` of the demo, and any other order of calls; extends `Blink` |
| `Induction` | lemmas on numbers: least element, induction and recursion on an initial segment, division |
| `ProcessesProofs`, `TerminalProofs`, `FilesProofs`, `RtcProofs`, `ClockProofs`, `ProgramsProofs`, `FishProofs` | inductive invariants and TLAPS proofs |
| `MCProcesses`, `MCTerminal`, `MCFiles`, `MCRtc`, `MCPrograms`, `MCFish` | constants for TLC |

The components meet in a few shared variables only, so each module has the part of
its neighbours that it can observe: `Processes` has a read or write as an `io` step
during which interrupts are on; `Terminal` has a timer that may give the CPU to any
terminal that has been shown, and programs that are root shells or children;
`Rtc` has the same timer, and keys as what they do to the interrupted program.

Three modules cut code that interrupts can observe into steps, and have constants for
the points at which interrupts are taken (`TickAt`, `CtrlCAt`, `OpenAt`). Equal to
all points, the model is the code as it is. A *shielded* set leaves out a region, as
if it ran under `cli`. The separation shows what is wrong in the code (the violation
run and the refuted configurations of section 3) and that nothing else is (the shielded
runs and the proofs).

### Processes

The variables keep the code's names. Two abstractions carry the model:

* **Contexts by value.** `cpu` is the running context: program counter label,
  the kernel stack it runs on, the interrupt flag, the flag user mode will get
  back, and the locals of `execute` or `halt` that are still to be used. A
  suspended context is stored as a value where the code stores a stack pointer:
  `great_esp` (switched away from by the timer) and `shell_esp_array` (a parent
  inside `execute`). When a frame is popped the value is replaced by `Popped` or
  `NoFrame`: later kernel entries overwrite that memory, so using it again is a
  crash (`Fault`).
* **Stack pointers** are a slot's 8KB stack and a depth in `execute` frames, the
  only frames that survive a return to user mode (through `halt` setting
  `tss.esp0` to the parent's stack pointer inside `execute`).

`execute` is cut at `exec` (timer masked, command parsed), `load` (slot claimed),
`setup` (PCB filled, `curr_pid` switched) and `launch` (timer unmasked, about to
enter user mode); `halt` at `halt`, `restart`, `freed`, `esp0`, `parent`, `exit`,
after each assignment another context can observe. `io` stands for the waiting
part of `terminal_read` and `read_rtc` and the tail of `terminal_write`, which run
with interrupts on; `return` for the way back to user mode after `exit_to_shell`.
Commands are `elf` (a program), `bad` (illegal length, no such file, not ELF),
`empty` (a file of length 0, whose header buffer is never written: both outcomes
of the ELF test are allowed), and `clear`.

The shielded sets leave out `halt` for the timer, and `halt` and the second half of
`execute` for Ctrl-C.

### ProcessStacks

Variables `top`, `below`, `used`, `running`. The refinement mapping is at the end of
`Processes`: a process starts when `ExecuteLaunch` hands it the terminal and ends
when `HaltTerminal` gives the terminal to its parent; a slot claimed but not
launched is not yet used, a slot freed but still scheduled is still used.

### Terminal, Console and LineInput

`terms` is the code's array, with the text page left out; `task` is where each
terminal's program is (in user mode or in `terminal_read`, cut after each assignment
the keyboard handler can see: flag raised, count reset, one byte of the fill per step,
waiting, woken). The handler runs through an interrupt gate with interrupts off and is
one step per key, split by what the key is. Keys are scancodes; a character is
named by its place in `characters[]`. The decoding keeps the fall-through of the key
switch and the reads past the end of the table (key releases), which are zero in the
build. User mode counts as interruptible everywhere, although the shells of terminals 1
and 2 start with interrupts off (`NoPreemption.cfg`): this allows more interleavings. `torn`
records that `scroll_screen`, which works on the running program's page, has moved
another terminal's text than the cursor that caused it. The page before a terminal's
page is not mapped when the cursor is at its first cell, so Backspace there ends in the
page fault handler, which loops (`hung`). The shielded set leaves out the first part
of `terminal_read`.

`LineInput` knows of every read only whether it is open, the line, and what the program
got. The mapping takes a read to be open from the moment the program waits.

### Files and FileReads

System calls on descriptors touch the caller's PCB and a read-only image: there is no
concurrency, but there are any number of calls in any order. A byte is named by its
block and offset, so that a wrong block is seen. `read_data` keeps its loop, as a
recursive function of the number of rounds; a negative count is taken modulo `WORD`
where it is compared unsigned. `FileReads` states the contents of a file
independently, as the concatenation of its blocks cut at its length.

A name has `NAME` (32) bytes in its entry, and one that fills them has no NUL behind it.
`read_dentry_by_name` compares 32 bytes, so a longer name opens the file its first 32
stand for (`Compared`). A directory read takes the `strlen` of the field and ignores the count
(`filesystem.c` 202): a name that fills the field comes with the low byte of the type behind it
(`fn_len`, `EntryString`), 33 bytes where programs ask for 32. The stand-in for the kernel on
Linux stops at the count (`src/syscalls/ece391emulate.c` 193-205). `src/fsdir` has a file with a
name of 32 characters, `verylargetxtwithverylongname.txt`; the image built from it,
`filesys_img`, holds 31 of them and a NUL, but an image with 32 is legal, and the model covers
both. `FileReads` gives such a string as what the directory has to give.

### Rtc

`read_rtc` is cut at the instructions that load and test the flag, the handler at
its port accesses and at the load and the store of the flag; `gettime` ends in `sti`, so from
there on the handler can be preempted. `pf`, `irr` and `isr` are the chip's
signal and the request and service bits of the 8259. The interrupt table has `kbd` and
`rtc_handler` in it and not the register-saving stubs of `handlers.S` (`kernel.c` 31-35), so
`eax` of the interrupted code is part of the state. The other modules take interrupts
as transparent. `send_eoi` and the `iret` are one step: nothing in between is
observable except a nested interrupt that leaves the same state. The shielded set
leaves out the point between selecting and reading register C.

### Clock

`now` is what the chip holds, `shown` what the handler last put on the screen. One step
is one hour. Decoding, the conversion to local time and the digits are the code's; the
calendar of the chip and the numbering of days are the reference.

### Library, Syserr and Programs

One terminal with its shell and the program the shell waits for; both are sequential, so a
step is a system call with the computation up to the next one. Characters are their codes,
because grep, the shell and `execute` tell them apart. A memory is a function from addresses
to codes: the shell's buffer keeps what earlier lines left in it, and `origin` (a history
variable) remembers which line wrote each byte. The file system calls are the actions of
`Files`; `Chars` turns its bytes, named by block and offset, into those of the session's
image. `execute` is cut after its parsing: a word or arguments too long for its locals
overwrite the others before the length is checked, and the model stops there (`lost`, next
to the error return, which is also possible). What `clear` and the output do to the screen
is in `Terminal`; `out` is what the program has written. The byte behind grep's buffer is
uninitialised when line 33 looks at it, so `GrepBuffer` chooses it. `ls` and `grep` put a
character behind a name in a buffer of 33 bytes (`src/syscalls/ece391ls.c` 23,
`src/syscalls/ece391grep.c` 91); with a name and its type there, that is the byte after the
buffer. `PutBehind` lets it be unused or the low byte of the descriptor of the directory, as in
the programs of the image. Then `ls` goes on to read descriptor 10, which fails, and `grep`
reads the names that follow from the keyboard (`GrepKeyboard`), where a line that does not fit
overruns the buffer in its turn: the model stops there too (`lost`). `memset` and `memcpy`
are modelled by the number of bytes their three loops write from a given alignment. `Syserr`
has the eight tests as sequences of calls; a call that should fail is made through the same
actions as any other.

### Blink, BlinkList and Fish

The structures are in an array, linked by `next`; the allocator takes the first with
location 0. `List` follows the links as the code does. The lengths and the countdown are
words of `WORD` values, compared signed. `painter` and `synced` are history variables: which
structure drew a cell last, and whether by `sync`, which draws the off character whatever
the phase (`blink.S` 281). `Fish` runs `main`, one round of a loop per step, with a read of
the clock and the tasklet in one step, since nothing else runs in the program. Instead of
`main`, a second client may make the calls in any order. `BlinkList` keeps a sequence and
knows nothing of slots and links; a period of 0 or with the sign bit set lasts one tick
there.

## 3. Runs

| Run | Instance | Shows |
|---|---|---|
| `processes` | 2 terminals, 4 slots, shielded | all safety properties, and the refinement of `ProcessStacks` |
| `unshielded` | 2 terminals, 3 slots, interrupts anywhere, every command kind | what holds of the code as it is: the atomicity of the slot search against the timer (types are proved) |
| `fair` | 2 terminals, 3 slots, no failing command, no Ctrl-C | no starvation, `halt` returns |
| `halt_race` | the code's 3 and 6, timer anywhere | violation: a suspended process in a slot marked free. In the trace a root shell calls `halt`, which frees the slot (`syscall.c` 26) and turns interrupts on (28); the timer comes before `execute` masks it (57) |
| `terminal` | 2 terminals, buffer 2, screen 2x2, shielded, output that does not wrap | cursor on the screen, Backspace within the page; refinement of `LineInput` |
| `terminal_programs` | 2 terminals, buffer 1, children, Ctrl-C, `clear` | an open read has room, a finished line reaches its program; refinement of `LineInput` |
| `files` | 1 process, 4 descriptors, blocks of 2, six entries | positions within the file; refinement of `FileReads` |
| `rtc` | 2 programs, one reads, shielded, no keys | one handler at a time, no lost signal, no early return, `read_rtc` returns |
| `rtc_unshielded` | 2 programs, frequencies 0 to 1025, keys and Ctrl-C anywhere | types; the chip runs at the frequency set last |
| `clock` | every hour of 2011 and 2012 | where local time, weekday and hour shown are right, and where not |
| `fish` | 3 structures, 9 cells, frames of up to 4 characters; or any calls at 2 locations | the list is the pool in use, cells show the phase, frames are drawn, the demo ends; refinement of `BlinkList` |
| `programs` | 11 directory entries, texts of 5 bytes, buffers of 3 and 4, lines of up to 6 | arguments, output of `cat`, `ls`, `grep`, `counter` and `printf` against references; the system call tests pass; every command comes back |

`halt_race`, `TypeAhead.cfg` and `RtcIndexRace.cfg` are the reason for the three shields.
Further configurations are kept for what the runs above leave out.
`ProcessesThreeTerminals.cfg` (of `ProcessesProofs`) passes: the inductive invariant of section 4 with three
terminals competing for one child slot. TLC finds a counterexample with each of the others:

| Configuration (module) | What the code does |
|---|---|
| `SlotLeak` (`MCProcesses`) | executing an empty file can leave a slot marked busy for ever (`syscall.c` 137) |
| `StackDrift` (`MCProcesses`) | 19 commands in a row without a switch move the shell's kernel stack into its PCB (`syscall.c` 39) |
| `MaskedTimer` (`MCProcesses`) | a failing `execute` leaves IRQ0 masked, and the other terminals starve (`syscall.c` 81, 99, 107, 113) |
| `CtrlCHang` (`MCProcesses`) | Ctrl-C while a child of a terminal not on screen runs hangs the system (`terminal.c` 347) |
| `NoPreemption` (`MCProcesses`) | programs of terminals 1 and 2 run user code with interrupts off (`schedule.c` 172) |
| `TypeAhead` (`MCTerminal`) | a key typed while `terminal_read` fills its buffer turns into a blank (`terminal.c` 122) |
| `LastRow` (`MCTerminal`) | output that wraps on the last row leaves the cursor below the screen (`lib.c` 267) |
| `ScreenTear` (`MCTerminal`) | Enter on the last row scrolls the page of the running program, not the one on screen (`terminal.c` 202) |
| `BadBlock` (`MCFiles`) | only the first block number of a read is compared with the size of the image (`filesystem.c` 149) |
| `RtcIndexRace` (`MCRtc`) | a program that sets the rate between two port accesses of the handler silences the clock (`rtc.c` 146) |
| `RtcCtrlC` (`MCRtc`) | Ctrl-C on a program under `rtc_handler` leaves IRQ8 in service (`rtc.c` 153) |
| `EarlyTick` (`MCRtc`) | a key between two instructions of `read_rtc` makes it return without an interrupt (`kernel.c` 32) |
| `LongName` (`MCPrograms`) | a name that fills its field makes `ls` overwrite its descriptor and fail (`filesystem.c` 202, `src/syscalls/ece391ls.c` 23) |
| `StaleArgs` (`MCPrograms`) | a command without arguments gets the end of an earlier line (`syscall.c` 70) |
| `GrepSplit` (`MCPrograms`) | grep takes an uninitialised byte for the end of a line (`src/syscalls/ece391grep.c` 33) |
| `ZeroLocation` (`MCFish`) | a character at cell 0 leaves its structure free, and the next one closes the list into a ring (`src/fish/fish.c` 165) |

Bounds. `MAX_DEPTH` bounds the drift of the kernel stack (1, that is, one command
between two switches; 20 in `StackDrift.cfg`). Four slots with two terminals allow a
shell started from a shell on one terminal while the other runs a command, or
both children on one terminal, and the full table. Two terminals already give
every order of suspension; the third adds a ring with two other members. One
terminal is enough for `StackDrift.cfg` because the other two stay idle until they are
first shown. The byte counters wrap at 256.

The terminal's buffer of 128 and screen of 80x24 shrink to 1 or 2 and 2x2: the
driver only compares with both ends, and the instances reach them. The assumption
that a full buffer fits on the screen holds of the code's numbers too. `MAX_ROW` stops
writes more than one row below the screen: once there (`LastRow.cfg`), the code moves the
cursor down with every newline without a limit. Blocks of two bytes with files of 0, 1, 4 and 5
bytes have reads that start and end inside, at and across block boundaries. Two programs are
enough for one to interfere with the handler on the other's stack; the theorems of
`RtcProofs` hold for any number. 0 to 1025 contains every frequency the code
accepts and its neighbours. `FirstYear` and `LastYear` span a common and a leap year.

In `programs` the sizes shrink together: lines of 7 fit the shell's buffer (`SHELL_BUF` 10)
and the arguments (`ARGS` 6) as 128 does 1024 and 128, a word may pass `NAME` and `SPARE` (3
and 2), a text of 5 bytes is longer than the buffers of `cat` (`CAT_BUF` 4) and `grep`
(`BUFSIZE` 3), and `grep` reads every text of 5 over two characters and the line end, and
every one over one character, the line end and one NUL. Two of the eleven names fill their
field, a file's and the clock's (whose type, 0, is a NUL); `cat` is given a name longer than
`NAME`, and lines of 1, 4 and 7 characters are typed to a `grep` that reads the keyboard. `UINT` 256 and `HEX` 2 keep the
ratio of a word to its hexadecimal digits; `Edges` has the numbers around each change of
length or sign. `ALIGN` 3 gives the arguments leading bytes, whole words and a rest. Three
descriptors are left when `grep` has the directory open. In `fish`, three structures are a
head, a middle and an end, and a full array; with `WORD` 4 a length of 2 is the largest
whose first countdown is positive and 3 has the sign bit; `WAIT` 7 and `FRAME_LEN` 2 let
every phase end inside a waiting loop.

Fairness. In `Processes` (`FairSpec`), kernel code keeps running (weak fairness of
`KernelStep`). The 8259 latches a timer interrupt that cannot be delivered and delivers it
when the mask and the interrupt flag open, so `Tick` is strongly fair. Programs keep reading
or writing (strong fairness of `IoEnter`): the shell prompts and reads between two commands,
and the other shipped programs write. `PreemptiveSpec` assumes this of the root shells only.

In `Terminal` the timer keeps giving the CPU to every shown terminal and a slice is
long enough for steps inside `terminal_read` (strong fairness per terminal); nothing is
assumed of the user, so only a read that has been ended must return. In `Rtc` the chip
keeps signalling (weak fairness of `ClockPeriod`), the 8259 latches the request until it
can be delivered (strong fairness of `RtcInterrupt`), and every program keeps getting the
CPU. The flag of the clock is toggled, so a reader that only ran after an even number
of interrupts would wait for ever. The two periods (100 timer interrupts and 2 to 1024
clock interrupts a second) are not in step, and the waiting loop runs many times between
two interrupts, so the reader's steps are strongly fair also while the flag has the
awaited value. `ReadReturns` of `rtc` rests on that.

`Programs` and `Fish` take the running program and the kernel under it to continue (weak
fairness of `SystemStep` and `MainStep`); nothing is assumed of the user, and that a read of
the clock returns is what `Rtc` shows.

Every property of a passing run has a mutant of the model, a plausible bug of the
code, that violates it; the mutated forms stand just before the definitions they
replace.

## 4. Proofs

TLAPS checks every theorem below for all values of the constants that satisfy the named
assumptions of the modules. Almost every safety property of section 3 is among
them; the runs show the same formulas on small instances.

### Processes

`ConstantsAssumption`: at least one terminal, no fewer slots than terminals, fewer than 256
slots, `NULL` is not a number. `ProcessesProofs`, for every set of commands and every choice
of interrupt points:

* `TypeCorrect`: `Spec => []TypeOK`. `TypeOK` alone is not inductive, because the local
  `l` is used as a slot at some labels and is null at others; the invariant adds
  `LocalsSet`, which says so for the running and for every suspended context.
* `ExecuteAtomic`: `Spec => []ExecuteNotPreempted`. `execute` masks the timer before it
  searches for a slot, so this holds of the code as it is.

The others assume `Shielded`: no timer interrupt inside `halt`, no Ctrl-C inside
`halt` or after `execute` has claimed a slot, no empty executable. Each is needed: without
the first the properties are false (`halt_race`), without the third too (`SlotLeak`), and
with `CtrlCAt` of `Processes.cfg` extended by any one of `halt`, `freed`, `esp0`, `parent`,
`load`, `setup` or `launch` TLC finds one of them violated (at `restart` and `exit` it does
not; the shield covers all of `halt` for simplicity). Then
`SlotsNeverShared`, `SuspendedAlive`, `SuspendedResumable`, `CurrentAgrees`, `ParentsWait`,
`SlotsAllAccounted`, `NeverFaults` and `OwnersRelease` state the safety properties of the
run `processes`. None of these is inductive: that a slot `execute` finds free is not some
terminal's depends on `halt` having handed the terminal over before it lets anyone else run,
which depends on how far `halt` has got. `SafetyInv` therefore says, for each label of
`execute` and `halt`, which of the tables already name the new process and which
still name the old one; that the counters agree with the slots up to the update under way;
that every suspended context belongs to the process it is stored for; and that the parents
of the busy slots are busy, waiting and not shared. `BootInv` says the same of the boot
sequence. `ProcessesThreeTerminals.cfg` checks it with TLC. `ImplementsProcessStacks`
follows from it step by step: `ExecuteLaunch` is `Spawn`, `HaltTerminal` is `Exit`, a timer
interrupt is `Switch`, everything else stutters.

### Terminal

`TerminalProofs`, for every screen and buffer with a full buffer fitting on the screen:

* `TerminalTypeCorrect`: `Spec => []TypeOK`.
* `BufferNeverOverrun`: `Spec => []OpenHasRoom`, unless both a child can be stopped by Ctrl-C
  and interrupts come before `terminal_read` has reset the count; then a full buffer
  could be left behind with the read open.
* `BackspaceOnPage`: a line can be erased without leaving the page, if no program runs
  `clear`. The invariant `CountOnPage` relates the characters counted to the cursor; `clear`
  moves the cursor and leaves the count of the terminal on screen alone.
* `CursorStaysRight`: `Spec => []CursorRight`, if moreover output fits its row
  (`OutputFits`). `LastRow.cfg` drops this.
* `ReadsReturnTypedLines`: `Spec => ImplementsLineInput`, if interrupts come only while
  programs run or wait. `TypeAhead.cfg` drops this.

### Files

`ImageAssumption`: names have at most `NAME` characters, none of them NUL, the entries of the
directory that are regular files have an inode, and an inode has blocks for its length. The code relies on both; the block numbers may be any.
`FilesProofs` shows `FilesTypeCorrect`, `PositionsWithinFile` and `ReadsReturnContents`
(`Spec => ImplementsFileReads`), for every image, block size, number of processes and sequence
of calls. `FilesInv` says what an open descriptor may hold. The core is the lemma
`CopyLoopReads`: the rounds of `read_data` end, and what they have copied is a contiguous part
of the concatenation of the blocks, which `FileReads` defines without a loop. One lemma for
each call (`OpenKeeps`, `ReadFileKeeps` and so on) says that it keeps `FilesInv`, whoever
makes it; `ProgramsProofs` cites the same lemmas for the programs.

### Programs

`ProgramsProofs`, for every image, every line typed, every number of descriptors and all
sizes of the buffers. Six assumptions, beside those of `Files`:

* `SizesAssumption`: what the code's numbers satisfy. A line (`LINE`, 128) fits the
  shell's buffer (1024) with room to spare, and what follows a blank of it fits the 129 bytes
  of the arguments. `cat`'s buffer holds a name and its type, and there is no descriptor 10, the
  line end that `ls` may write over the number of its own (there are 8).
* `DirectoryAssumption`: the image has one directory, the entry `.`, and not the names that
  the system call tests invent. Every entry, the clock's too, holds an inode number.
* `AnswersAssumption`: what is typed to a program is a line as the keyboard driver makes them.
* `SessionsAssumption`: a line has no NUL and no line end (the keyboard driver maps keys
  to printable characters and ends a line on Enter, `terminal.c` 194-231); the shell's
  uninitialised buffer holds what an earlier shell read there, on the same stack; the
  executables of the image are the programs modelled.
* `HexAssumption` (in `Library`): the words are as wide as `HEX` hexadecimal digits; in the code
  32 bits and 8.
* `MessagesAssumption`: a message has an unsigned word for each of its conversions.

The theorems are `ProgramsTypeCorrect`, `ArgumentsTyped`, `OutputCorrect`, `SyserrCorrect`,
`NumbersCorrect`, `GrepOpensEvery` (the first conjunct of `GrepRight`) and `GrepCorrect` (all of it).
The invariant `ProgramsInv` has a part for each but the last:

* `ShellInv` keeps for every byte of the shell's buffer the line it comes from: it is that
  line's character there, or its terminator, and the rest of the line follows undisturbed.
  So the argument that `execute` finds behind the terminator of a shorter line is the end of
  *one* line. `ArgsInv` carries it from the parse through `memcpy` to the program.
* `CatInv` and `LsInv` relate what has been written to the position in the descriptor that is
  being read, which makes `OutputRight` inductive: the next read starts where the output ends.
  They rest on `ReadOpened`, which takes the contents from `CopyLoopReads`. `LsInv` has a second
  case, from a name that fills its field on: the descriptor is gone, the lines so far are those of
  the entries up to that name, and the next read fails (`ReadsNoDescriptor`).
* `GrepInv` counts descriptors: `grep` has the directory open and one file at most, also when it
  has lost the number of the directory's. No name it takes is that of the directory
  (`NotDirectory`): names from it begin with another character, and so do those typed.
* `SyserrInv` says after each call of a test which descriptors are open and how many calls
  have failed. `MustFail` and `OpenLotsCall` show that each call of a test does
  what the test expects; `TestBounds` adds them up, and no test leaves a descriptor behind.
* `CountInv` says that what `counter` has written ends with a line break and has as many lines
  as it has counted numbers, each the numeral of its place. `LineAdded` shows that another
  line leaves the ones before as they are. `PrintsRight` is inductive as it stands.

`ItoaRight` says that `itoa` gives the numeral of its argument, without a zero in front, for every
number and radix up to 16. The digits come from the lowest up, by a recursion that goes from a
number to its quotient; `DescentInduction` and `DescentRecursion` of `Induction` are
for that. `DigitsFit` bounds their number, `ValueJoined` and `ValueZeros` say what
padding and joining do to the value, and `PrintfIs` that `printf` goes through the states of
`PrintStep`.

`GrepCorrect` has an invariant of its own, `TextInv`, on top of `ProgramsInv`. Let `f[k]` be the
report from place `k` of the text on. At every step, what has been written followed by `f[p]` is
the whole report `f[1]`, where `p` is the place of the text that the start of the unfinished line
in the buffer stands for: `q - last + line_start + 1`, with `q` the position in the descriptor.

* `ReadPlace` says this before a read, with an unfinished line at the front of the buffer;
  `LinePlace` after it, with any number of lines in the buffer.
* A read goes from one to the other (`ReadFollows`), moving an unfinished line to the front back
  (`MoveFollows`), and searching a line either stays, or ends the file (`SearchFollows`).
  `LineComplete` says why the line that is searched is a whole one: its end is in the buffer, or
  the text is at its end, or the line fills the buffer and, by `IsText`, is no longer.
* Both also say that outside of the text in the buffer no line end is left over while there is
  more to read. This is what the byte behind the buffer breaks (`GrepSplit`), and why the theorem
  has `stale # NL` or a file that fits.
* `FoundRight` relates the loop over `strncmp` to `Occurs`, and `ReportIs` says that
  `Report`, a recursion from the end of the text, is `f`. When `q` is the length of the text and
  nothing is left in the buffer, `f[p]` is empty and `out` is `f[1]`.

### Rtc and Clock

`RtcProofs`, for every set of programs and readers (`RtcAssumption`):

* `RtcTypeCorrect`: `Spec => []TypeOK`, for all calls and interrupt points.
* `RateIsAsked`: `Spec => []RateAsAsked`, for all calls and interrupt points.
* `HandlerServed`: without Ctrl-C, `Spec => []ServedByOne`, wherever interrupts land. With
  `TypeOK` it is inductive: the request is only delivered while nothing is in service.
* `ClockStaysAlive`: without Ctrl-C and with the point between selecting and reading
  register C shielded, `Spec => []ClockAlive`. The inductive invariant adds that a
  handler at that point holds the CPU and has register C selected, so
  nobody else can move the index port.
* `ReadWaits`: without keys, `Spec => []ReadAwaitsTick`. The inductive invariant says of a
  program for which no interrupt has been counted since it first looked that the flag,
  its register and the loop it is in agree; the handlers spoil `eax`, but only after they
  have counted.

The assumptions are needed: `RtcCtrlC`, `RtcIndexRace` and `EarlyTick` drop one each.

`ClockProofs`: `LocalTimeRight` (`Spec => []LocalWithinMonth`) and `DisplayedRight`
(`Spec => []DisplayRight`) for all years from 2000 to 2099. `ClockInv` says that the chip
holds a date of the calendar with the weekday that its number among the days gives, and that
what is shown was computed from it. The weekday needs that the number of the days before a
month grows by the length of that month, and division by 7.

### Blink and Fish

`FishProofs`, for every size of the array and the screen, assumes `FishInputs`: clients add
characters with 16-bit lengths at locations other than 0 (`ZeroLocation.cfg` shows what 0
does; `main` and `add_frames` never pass it), and frame files are sequences of characters.

* `ListAlwaysPool`: `Spec => []ListIsPool`. `List` is computed by following links, so the
  invariant `BlinkInv` says that there is a sequence of distinct slots along which the
  links run (`Chain`), with exactly the structures in use in it; then `ListIs` shows
  that the recursion of `Node` visits it and stops. `Pushed` and `Without` give the sequence after
  an add and a removal.
* `CellsShowPhase`: `Spec => []CellShowsPhase`, the part of `ScreenRight` about the list.
* `ScreenCorrect`: `Spec => []ScreenRight`, all of it. It also assumes `FramesFit`: no row
  of a frame file is longer than a row of the screen (the longest of `frame0.txt` and `frame1.txt`
  has 24 characters; in a longer one two characters have the same cell, and the
  oldest structure wins at each change), and `FRAME_LEN`, 15, has no sign bit as a 16-bit
  word. The invariant `DrawInv` has three parts. `Placed` relates each file to `add_frames`:
  its next character is the one of row `row` and column `col`, or it waits at the start of the next
  row, or it is at its end; what was read lies before that cell (`ReadsOn`; `CellsGrow` says
  that later characters have later cells). `Drawing` says that the drawn cells before that place
  have a structure each, with the pictures of both frames, that still owns the cell, and that
  the others are blank and unowned; `RoomLeft` counts them to show that an add does not fail.
  `InPhase` says which phase and countdown all structures have after `i` ticks of the wait.
* `ImplementsList`: `Spec => ImplementsBlinkList`. `TickedEntry` shows that a signed 16-bit
  countdown, with its wrap from 0, lasts as long as the time it stands for.

### What stays with TLC

Liveness under fairness (`EveryTerminalRuns`, `HaltReturns`, both `ReadReturns`, `FishEnds`,
`ProgramsEnd`), which this prover does not do. Every invariant, action property and refinement that a passing
run checks is stated by a theorem.

Inductions over data are proved where they are needed, each as a minimal counterexample
(`LeastNumber` in `Induction`), since the library's induction schemes cannot be instantiated;
this is workable for a loop of one variable (`read_data`, the links of the list, `itoa`, `strncmp`);
a loop over several calls (`grep`) is a matter of the invariant instead.


## 5. Not modelled, and the plan

Not modelled for good: constant tables (GDT, IDT, page tables), port programming (PIT,
CRTC), the login prompt (never called), the contents of the kernel's text pages,
`set_handler` and `sigreturn` (they return -1), `memmove`, `memset_word`, `memset_dword` and
`strncpy` of `lib.c` (no caller in what is modelled), the programs `hello`, `pingpong`,
`testprint` (they only write) and `sigtest` (it needs signals), and `ece391emulate.c`, which
stands in for the kernel when the programs are built for Linux.

Next in the model: `Processes` and `Terminal` meet only in the on-screen terminal; a module that
composes the Ctrl-C path of both.

Proofs left for what is modelled now: liveness only.
