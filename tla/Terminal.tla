------------------------------ MODULE Terminal ------------------------------
(***************************************************************************)
(* The terminal driver (terminal.c): terminal_read and terminal_write of   *)
(* the programs, the keyboard interrupt handler kbd with its key decoding, *)
(* and terminal switching.                                                 *)
(*                                                                         *)
(* Every terminal runs one program at a time; the CPU is on curr_term's.   *)
(* The keyboard always acts on term_on_screen.  terminal_read is cut where *)
(* an interrupt could observe it; the handler runs with interrupts off and *)
(* is one step.  Starting and ending programs, and the scheduler, are in   *)
(* Processes: here a program is a root shell or a child of one, and the    *)
(* timer may give the CPU to any terminal that has been shown.             *)
(***************************************************************************)
EXTENDS Console

CONSTANTS
    MAX_TERM,    \* number of terminals (3)
    BUF_SIZE,    \* size of a line buffer (128)
    Scancodes,   \* the keys pressed and released
    Counts,      \* byte counts programs pass to terminal_read
    Texts,       \* what programs write, sequences of "c" and "nl"
    ARCHITECT,   \* what Ctrl-C prints to a root shell
    Calls,       \* other things programs do, of {"clear", "child"}
    OpenAt,      \* program points at which interrupts are taken
    MAX_ROW      \* bound: the last row writes may start on

Points == {"user", "reset", "fill", "wait", "woken"}

ASSUME TerminalAssumption ==
    /\ MAX_TERM \in Nat \ {0}
    /\ BUF_SIZE \in Nat \ {0}
    /\ BUF_SIZE <= (NUM_ROWS - 1) * NUM_COLS
    /\ Scancodes \subseteq 0 .. 255
    /\ Counts \subseteq Nat
    /\ Texts \subseteq Seq({"c", "nl"})
    /\ ARCHITECT \in Seq({"c", "nl"})
    /\ Calls \subseteq {"clear", "child"}
    /\ OpenAt \subseteq Points
    /\ MAX_ROW \in Nat

Term == 0 .. MAX_TERM - 1

VARIABLES
    terms,          \* term_t: terminal_buf, terminal_cnt, terminal_read_on, cursor
    task,           \* the program of each terminal: program point, loop index,
                    \* byte count asked for, and whether it is a child
    got,            \* what a program's last read returned, until it reads again
    active,         \* terminal[t].active: shown at least once
    term_on_screen,
    curr_term,      \* the terminal whose program has the CPU
    mods,           \* caps_lock_on, l_shift_on, r_shift_on, ctrl_ready, alt_on
    torn,           \* the terminal's text and its cursor have moved apart
    hung            \* the CPU spins in a handler with interrupts off

vars == <<terms, task, got, active, term_on_screen, curr_term, mods, torn, hung>>

-----------------------------------------------------------------------------
(* Keys and characters.  A character is named by its first place in the     *)
(* table characters[], except those the driver tells apart.                 *)

NUL == 0
FILLER == 57        \* ' ', what terminal_read fills the buffer with
ENTER == 28
BACKSPACE == 14

\* characters[122].  Keys beyond it, and all key releases, read what follows
\* the table in memory, which is zero in the build.
characters(i) ==
    CASE i \in {0, 1, 29, 42, 54, 56, 58, 89, 102, 114, 116} \/ i > 117 -> NUL
      [] i \in {14, 74}     -> BACKSPACE
      [] i \in {57, 117}    -> FILLER
      [] i \in {55, 69, 115} -> 55    \* '*'
      [] i \in {88, 103}    -> 88     \* '|', also Shift-Enter
      [] i \in {15, 75}     -> 15
      [] OTHER -> i

Letters == 16 .. 25 \cup 30 .. 38 \cup 44 .. 50
Shifted == mods.l_shift \/ mods.r_shift

CharIndex(k) ==
    IF (mods.caps /\ ~Shifted /\ k \in Letters) \/ (Shifted /\ ~mods.caps)
    THEN k + 60 ELSE k

\* What kbd_to_char returns for a key that is no command.
Input(k) == characters(CharIndex(k))

ModifierKeys == {58, 42, 170, 54, 182, 29, 157, 56, 184, 91, 92, 93}

\* The key switch falls through from L to C to F1..F3.
IsClearKey(k) == k = 38 /\ mods.ctrl
IsInterruptKey(k) == k = 46 /\ mods.ctrl
SwitchTarget(k) ==
    CASE ~mods.alt \/ IsClearKey(k) \/ IsInterruptKey(k) -> -1
      [] k \in {38, 46, 59} -> 0
      [] k = 60 -> 1
      [] k = 61 -> 2
      [] OTHER -> -1

-----------------------------------------------------------------------------
Cur(t) == Cursor(terms[t].x, terms[t].y)
Moved(s, c) == [s EXCEPT !.x = c.x, !.y = c.y]

Filled(c) == [i \in 0 .. BUF_SIZE - 1 |-> c]
\* The characters of terminal t's line.
Line(t) == [i \in 1 .. terms[t].cnt |-> terms[t].buf[i - 1]]

\* scroll_screen moves the page of the program that has the CPU.
ScrollPage(t, c) ==
    torn' = IF c.up /\ t # curr_term
            THEN [torn EXCEPT ![t] = TRUE, ![curr_term] = TRUE] ELSE torn

RowBound(t) == terms[t].y <= MAX_ROW

\* setup_terms and init_schedule.
Init ==
    /\ terms = [t \in Term |-> [buf |-> Filled(NUL), cnt |-> 0, on |-> FALSE,
                                x |-> 0, y |-> 0]]
    /\ task = [t \in Term |-> [pc |-> "user", i |-> 0, n |-> 0, child |-> FALSE]]
    /\ got = [t \in Term |-> <<>>]
    /\ active = [t \in Term |-> t = 0]
    /\ term_on_screen = 0
    /\ curr_term = 0
    /\ mods = [caps |-> FALSE, l_shift |-> FALSE, r_shift |-> FALSE,
               ctrl |-> FALSE, alt |-> FALSE]
    /\ torn = [t \in Term |-> FALSE]
    /\ hung = FALSE

-----------------------------------------------------------------------------
(* The program that has the CPU.                                            *)

At(pc) == ~hung /\ task[curr_term].pc = pc
Goto(pc) == task' = [task EXCEPT ![curr_term].pc = pc]
screen == <<active, term_on_screen, curr_term, mods, torn, hung>>

\* terminal_read: open the read ...
ReadEnter(n) ==
    /\ At("user")
    /\ terms' = [terms EXCEPT ![curr_term].on = TRUE]
    /\ task' = [task EXCEPT ![curr_term].pc = "reset", ![curr_term].n = n]
    /\ got' = [got EXCEPT ![curr_term] = <<>>]
    /\ UNCHANGED screen

\* ... reset the count ...
ReadReset ==
    /\ At("reset")
    /\ terms' = [terms EXCEPT ![curr_term].cnt = 0]
    /\ task' = [task EXCEPT ![curr_term].pc = "fill", ![curr_term].i = 0]
    /\ UNCHANGED <<got, screen>>

\* ... fill the buffer with blanks, one after the other ...
ReadFill ==
    LET i == task[curr_term].i IN
    /\ At("fill")
    /\ i < BUF_SIZE
    /\ terms' = [terms EXCEPT ![curr_term].buf[i] = FILLER]
    /\ task' = [task EXCEPT ![curr_term].i = i + 1]
    /\ UNCHANGED <<got, screen>>

\* ... turn interrupts on and wait ...
ReadWait ==
    /\ At("fill")
    /\ task[curr_term].i = BUF_SIZE
    /\ task' = [task EXCEPT ![curr_term].pc = "wait", ![curr_term].i = 0]
    /\ UNCHANGED <<terms, got, screen>>

\* Mutant: an empty line does not wake the program.
ReadWakeNonempty ==
    /\ At("wait")
    /\ ~terms[curr_term].on
    /\ terms[curr_term].cnt # 0
    /\ Goto("woken")
    /\ UNCHANGED <<terms, got, screen>>

\* ... until the keyboard handler closes the read ...
ReadWake ==
    /\ At("wait")
    /\ ~terms[curr_term].on
    /\ Goto("woken")
    /\ UNCHANGED <<terms, got, screen>>

\* Mutant: the handler's count is not looked at.
CopiedAsAsked == SubSeq(Line(curr_term) \o <<NUL, NUL>>, 1, task[curr_term].n)

\* The whole line, even beyond the count asked for, unless the buffer is full.
Copied ==
    LET s == terms[curr_term] n == task[curr_term].n IN
    IF s.cnt <= n \/ s.cnt < BUF_SIZE THEN Line(curr_term)
                                      ELSE SubSeq(Line(curr_term), 1, n)

\* ... and with interrupts off copy the line and clear the buffer.
ReadReturn ==
    /\ At("woken")
    /\ got' = [got EXCEPT ![curr_term] = Copied]
    /\ terms' = [terms EXCEPT ![curr_term].buf = Filled(NUL)]
    /\ task' = [task EXCEPT ![curr_term].pc = "user", ![curr_term].n = 0]
    /\ UNCHANGED screen

\* terminal_write, with interrupts off.
Write(text) ==
    /\ At("user")
    /\ RowBound(curr_term)
    /\ terms' = [terms EXCEPT ![curr_term] = Moved(@, puts(Cur(curr_term), text))]
    /\ UNCHANGED <<task, got, screen>>

\* The command "clear" blanks the program's page and resets the cursor of the
\* terminal on screen.
Clear ==
    /\ "clear" \in Calls
    /\ At("user")
    /\ terms' = [terms EXCEPT ![term_on_screen] = Moved(@, Cursor(0, 0))]
    /\ torn' = [torn EXCEPT ![term_on_screen] = curr_term # term_on_screen,
                            ![curr_term] = curr_term # term_on_screen]
    /\ UNCHANGED <<task, got, active, term_on_screen, curr_term, mods, hung>>

\* The program starts a child, or a child ends (see Processes).
Child ==
    /\ "child" \in Calls
    /\ At("user")
    /\ task' = [task EXCEPT ![curr_term].child = ~@]
    /\ UNCHANGED <<terms, got, screen>>

-----------------------------------------------------------------------------
(* Interrupts.                                                              *)

Interruptible == ~hung /\ task[curr_term].pc \in OpenAt

\* The timer gives the CPU to another terminal.
Tick(t) ==
    /\ Interruptible
    /\ t # curr_term
    /\ active[t]
    /\ curr_term' = t
    /\ UNCHANGED <<terms, task, got, active, term_on_screen, mods, torn, hung>>

ModsAfter(k) ==
    [caps    |-> IF k = 58 THEN ~mods.caps ELSE mods.caps,
     l_shift |-> IF k \in {42, 170} THEN k = 42 ELSE mods.l_shift,
     r_shift |-> IF k \in {54, 182} THEN k = 54 ELSE mods.r_shift,
     ctrl    |-> IF k \in {29, 157} THEN k = 29 ELSE mods.ctrl,
     alt     |-> IF k \in {56, 184} THEN k = 56 ELSE mods.alt]

KeyModifier(k) ==
    /\ Interruptible
    /\ k \in ModifierKeys
    /\ mods' = ModsAfter(k)
    /\ UNCHANGED <<terms, task, got, active, term_on_screen, curr_term, torn, hung>>

\* Mutant: only the page and the cursor are reset.
KeyClearPage(k) ==
    /\ Interruptible
    /\ IsClearKey(k)
    /\ terms' = [terms EXCEPT ![term_on_screen] = Moved(@, Cursor(0, 0))]
    /\ torn' = [torn EXCEPT ![term_on_screen] = FALSE]
    /\ UNCHANGED <<task, got, active, term_on_screen, curr_term, mods, hung>>

\* Ctrl-L: clear the page on screen, empty the line, close the read.
KeyClear(k) ==
    /\ Interruptible
    /\ IsClearKey(k)
    /\ terms' = [terms EXCEPT ![term_on_screen] =
                   [buf |-> Filled(FILLER), cnt |-> 0, on |-> FALSE,
                    x |-> 0, y |-> 0]]
    /\ torn' = [torn EXCEPT ![term_on_screen] = FALSE]
    /\ UNCHANGED <<task, got, active, term_on_screen, curr_term, mods, hung>>

\* Ctrl-C while a child has the CPU: halt it if its terminal is on screen, wait
\* for that with interrupts off if not.
KeyInterruptChild(k) ==
    /\ Interruptible
    /\ IsInterruptKey(k)
    /\ task[curr_term].child
    /\ IF term_on_screen = curr_term
       THEN /\ task' = [task EXCEPT ![curr_term] =
                          [pc |-> "user", i |-> 0, n |-> 0, child |-> FALSE]]
            /\ UNCHANGED hung
       ELSE hung' = TRUE /\ UNCHANGED task
    /\ UNCHANGED <<terms, got, active, term_on_screen, curr_term, mods, torn>>

\* Ctrl-C while a root shell has the CPU: print on its terminal, close the read
\* of the terminal on screen.
KeyInterruptShell(k) ==
    /\ Interruptible
    /\ IsInterruptKey(k)
    /\ ~task[curr_term].child
    /\ RowBound(curr_term)
    /\ terms' = [[terms EXCEPT ![curr_term] = Moved(@, puts(Cur(curr_term), ARCHITECT))]
                   EXCEPT ![term_on_screen].on = FALSE]
    /\ UNCHANGED <<task, got, screen>>

\* switch_term.
KeySwitch(k) ==
    /\ Interruptible
    /\ SwitchTarget(k) \in Term
    /\ term_on_screen' = SwitchTarget(k)
    /\ active' = [active EXCEPT ![SwitchTarget(k)] = TRUE]
    /\ UNCHANGED <<terms, task, got, curr_term, mods, torn, hung>>

IsCommand(k) == \/ k \in ModifierKeys
                \/ IsClearKey(k) \/ IsInterruptKey(k)
                \/ SwitchTarget(k) # -1

\* Any other key reaches the line of the terminal on screen, if it has a read
\* open and the key a character.
Typed(k) ==
    /\ Interruptible
    /\ ~IsCommand(k)
    /\ Input(k) # NUL
    /\ terms[term_on_screen].on
    /\ RowBound(term_on_screen)

\* Mutant: a full buffer does not close the read.
LeftOpen(s) == s

\* After any such key a full buffer ends the line and closes the read.
Closed(s) == [s EXCEPT !.on = @ /\ s.cnt # BUF_SIZE]
CursorAfter(s, c) == IF s.cnt = BUF_SIZE THEN EchoFull(c) ELSE c

\* The key has turned the terminal on screen into s and its cursor into c.
Accept(s, c) ==
    /\ terms' = [terms EXCEPT ![term_on_screen] = Moved(Closed(s), CursorAfter(s, c))]
    /\ ScrollPage(term_on_screen, CursorAfter(s, c))

KeyEnter(k) ==
    /\ Typed(k)
    /\ Input(k) = ENTER
    /\ Accept([terms[term_on_screen] EXCEPT !.on = FALSE], Newline(Cur(term_on_screen)))
    /\ UNCHANGED <<task, got, active, term_on_screen, curr_term, mods, hung>>

Erased(s) == [s EXCEPT !.buf = [i \in DOMAIN s.buf |-> IF i = s.cnt THEN NUL ELSE s.buf[i]],
                       !.cnt = s.cnt - 1]

\* Backspace.  In the first cell of the page it writes before the page, which
\* is not mapped: a page fault, and the kernel stops.
KeyBackspace(k) ==
    LET s == terms[term_on_screen] c == Cur(term_on_screen) IN
    /\ Typed(k)
    /\ Input(k) = BACKSPACE
    /\ s.cnt # 0
    /\ IF Cell(c) = 0
       THEN /\ terms' = [terms EXCEPT ![term_on_screen] = Erased(s)]
            /\ hung' = TRUE
            /\ UNCHANGED torn
       ELSE Accept(Erased(s), EchoErase(c)) /\ UNCHANGED hung
    /\ UNCHANGED <<task, got, active, term_on_screen, curr_term, mods>>

HasRoom(s) == s.cnt <= BUF_SIZE - 1

Stored(s, c) == [s EXCEPT !.buf = [i \in DOMAIN s.buf |-> IF i = s.cnt THEN c ELSE s.buf[i]],
                          !.cnt = s.cnt + 1]

\* Any other character.
KeyChar(k) ==
    LET s == terms[term_on_screen] c == Cur(term_on_screen) IN
    /\ Typed(k)
    /\ Input(k) \notin {ENTER, BACKSPACE}
    /\ IF HasRoom(s) THEN Accept(Stored(s, Input(k)), EchoChar(c)) ELSE Accept(s, c)
    /\ UNCHANGED <<task, got, active, term_on_screen, curr_term, mods, hung>>

\* The CPU spins, in the Ctrl-C handler or in an exception handler.
Spin == hung /\ UNCHANGED vars

-----------------------------------------------------------------------------
Program ==
    \/ \E n \in Counts : ReadEnter(n)
    \/ ReadReset
    \/ ReadFill
    \/ ReadWait
    \/ ReadWake
    \/ ReadReturn
    \/ \E text \in Texts : Write(text)
    \/ Clear
    \/ Child

Key(k) ==
    \/ KeyModifier(k)
    \/ KeyClear(k)
    \/ KeyInterruptChild(k)
    \/ KeyInterruptShell(k)
    \/ KeySwitch(k)
    \/ KeyEnter(k)
    \/ KeyBackspace(k)
    \/ KeyChar(k)

Next ==
    \/ Program
    \/ \E t \in Term : Tick(t)
    \/ \E k \in Scancodes : Key(k)
    \/ Spin

Spec == Init /\ [][Next]_vars

\* The timer keeps giving the CPU to every terminal, and a time slice is long
\* enough for a program inside terminal_read to get on.
ReadStep == ReadReset \/ ReadFill \/ ReadWait \/ ReadWake \/ ReadReturn
FairSpec == /\ Spec
            /\ \A t \in Term : /\ SF_vars(curr_term = t /\ ReadStep)
                               /\ SF_vars(Tick(t))

-----------------------------------------------------------------------------
(* Properties.                                                              *)

TypeOK ==
    /\ terms \in [Term -> [buf : [0 .. BUF_SIZE - 1 -> 0 .. 255], cnt : 0 .. BUF_SIZE,
                           on : BOOLEAN, x : 0 .. NUM_COLS - 1, y : Nat]]
    /\ task \in [Term -> [pc : Points, i : 0 .. BUF_SIZE,
                          n : Nat, child : BOOLEAN]]
    /\ got \in [Term -> Seq(0 .. 255)]
    /\ active \in [Term -> BOOLEAN]
    /\ term_on_screen \in Term
    /\ curr_term \in Term
    /\ mods \in [caps : BOOLEAN, l_shift : BOOLEAN, r_shift : BOOLEAN,
                 ctrl : BOOLEAN, alt : BOOLEAN]
    /\ torn \in [Term -> BOOLEAN]
    /\ hung \in BOOLEAN

\* A program waiting for its line finds in it only characters that were typed:
\* no blanks of the initial fill, no control keys.
OnlyTyped ==
    \A t \in Term : task[t].pc \in {"wait", "woken"} =>
      \A i \in 0 .. terms[t].cnt - 1 :
        terms[t].buf[i] \notin {NUL, FILLER, ENTER, BACKSPACE}

\* The handler never stores a character beyond the buffer: a terminal whose
\* read is open has room for one more.
OpenHasRoom ==
    \A t \in Term : terms[t].on /\ task[t].pc # "reset" => terms[t].cnt < BUF_SIZE

\* The cursor of every terminal stays on its 24 rows, whatever is typed and
\* written, and so off the row of the clock.
CursorOnScreen ==
    \A t \in Term : terms[t].y \in 0 .. NUM_ROWS - 1

\* Erasing the whole line never leaves the page, so Backspace cannot fault.
LineOnPage ==
    \A t \in Term : terms[t].on /\ task[t].pc # "reset" =>
      terms[t].cnt <= Cell(Cur(t))

\* The cursor is where the echo and Backspace can work, for typing, output that does
\* not wrap, and switching: both of the above.  Neither holds with output that wraps
\* on the last row, nor with the command clear.
CursorRight == CursorOnScreen /\ LineOnPage

\* The text of a terminal and its cursor scroll together.
NeverTorn == \A t \in Term : ~torn[t]

\* A program whose read is closed gets its line, unless the CPU is lost.
ReadReturns ==
    \A t \in Term :
      (task[t].pc = "wait" /\ ~terms[t].on) ~> (task[t].pc = "user" \/ hung)

\* Refinement: a read is open while its program waits and the flag is up.
Reading(t) == task[t].pc \in {"wait", "woken"}
LineMode == [t \in Term |-> IF ~Reading(t) THEN "idle"
                            ELSE IF terms[t].on THEN "edit" ELSE "done"]
LineTyped == [t \in Term |-> IF Reading(t) THEN Line(t) ELSE <<>>]

LineChars == {characters(k) : k \in Scancodes} \cup {characters(k + 60) : k \in Scancodes}

Lines == INSTANCE LineInput WITH
    Terms <- Term, Chars <- LineChars, Limit <- BUF_SIZE,
    mode <- LineMode, line <- LineTyped, out <- got

\* Every read returns the line typed on its own terminal while it was open.
ImplementsLineInput == Lines!LineSpec

=============================================================================
