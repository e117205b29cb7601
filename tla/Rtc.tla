--------------------------------- MODULE Rtc ---------------------------------
(***************************************************************************)
(* The real-time clock (rtc.c): its periodic interrupt through the second  *)
(* 8259, rtc_handler, and the calls programs make on the device.           *)
(*                                                                         *)
(* The handler runs on the stack of the program it interrupts, from the    *)
(* end of gettime on with interrupts enabled: the timer may give the CPU   *)
(* to another program in the middle of it, and Ctrl-C may end the program  *)
(* under it.  The chip is reached through one index port, and raises its   *)
(* line again only after register C has been read.  rtc_handler and kbd    *)
(* are installed without the register-saving stubs of handlers.S, so they  *)
(* leave their own value in eax; timer_hand saves it.                      *)
(***************************************************************************)
EXTENDS Integers

CONSTANTS
    Procs,    \* the programs that share the CPU, one per terminal
    Readers,  \* the ones that read the clock
    Freqs,    \* the frequencies programs ask for
    Calls,    \* what else happens, of {"open", "write", "key", "kill"}
    OpenAt    \* points of the handler at which other interrupts are taken

HandlerPoints == {"display", "index", "readC", "load", "store", "eoi"}
ReadPoints == {"first", "branch", "loadSet", "testSet", "loadClear", "testClear"}

ASSUME RtcAssumption ==
    /\ Procs # {}
    /\ Readers \subseteq Procs
    /\ Freqs \subseteq Nat
    /\ Calls \subseteq {"open", "write", "key", "kill"}
    /\ OpenAt \subseteq HandlerPoints

VARIABLES
    rtc_interrupt_occured,  \* 0 or 1, toggled by every interrupt
    pc,       \* where each program is: in user mode or in read_rtc
    eax,      \* its register, 0 or nonzero (1)
    handler,  \* where the rtc_handler on top of it is, or "none"
    curr,     \* the program that has the CPU
    index,    \* the register the index port selects
    pf,       \* register C: a periodic interrupt is being signalled
    irr,      \* 8259: the interrupt is requested
    isr,      \* 8259: it is in service, end of interrupt is owed
    rate,     \* low four bits of register A
    asked,    \* history: the frequency last set
    ticked    \* history: an interrupt was counted since read_rtc first looked

vars == <<rtc_interrupt_occured, pc, eax, handler, curr, index, pf, irr, isr,
          rate, asked, ticked>>
chip == <<index, pf, rate, asked>>
pic == <<irr, isr>>

REG_A == 10
REG_B == 11
REG_C == 12

-----------------------------------------------------------------------------
(* The rate.                                                                *)

\* Mutant: one row of the table is wrong.
RateOfSlip(freq) ==
    CASE freq = 2 -> 15 [] freq = 4 -> 14 [] freq = 8 -> 13 [] freq = 16 -> 12
      [] freq = 32 -> 11 [] freq = 64 -> 10 [] freq = 128 -> 9 [] freq = 256 -> 8
      [] freq = 512 -> 6 [] freq = 1024 -> 6 [] OTHER -> 0

\* write_rtc's table; 0 stands for the error return.
RateOf(freq) ==
    CASE freq = 2 -> 15 [] freq = 4 -> 14 [] freq = 8 -> 13 [] freq = 16 -> 12
      [] freq = 32 -> 11 [] freq = 64 -> 10 [] freq = 128 -> 9 [] freq = 256 -> 8
      [] freq = 512 -> 7 [] freq = 1024 -> 6 [] OTHER -> 0

\* The frequency the chip produces.
Hz(r) == 2 ^ (16 - r)

-----------------------------------------------------------------------------
\* After open_rtc of entry: 2 Hz, interrupts on.
Init ==
    /\ rtc_interrupt_occured = 0
    /\ pc = [p \in Procs |-> "user"]
    /\ eax = [p \in Procs |-> 0]
    /\ handler = [p \in Procs |-> "none"]
    /\ curr \in Procs
    /\ index = REG_B
    /\ pf = 0
    /\ irr = 0
    /\ isr = 0
    /\ rate = 15
    /\ asked = 2
    /\ ticked = [p \in Procs |-> FALSE]

(* System calls of the program that has the CPU.                            *)
At(point) == pc[curr] = point /\ handler[curr] = "none"
Goto(point) == pc' = [pc EXCEPT ![curr] = point]
Load == eax' = [eax EXCEPT ![curr] = rtc_interrupt_occured]

\* open_rtc, with interrupts off.
OpenRtc ==
    /\ "open" \in Calls
    /\ At("user")
    /\ rate' = 15
    /\ asked' = 2
    /\ index' = REG_B
    /\ UNCHANGED <<rtc_interrupt_occured, pc, eax, handler, curr, pf, pic, ticked>>

\* Mutant: a frequency that is not in the table is written all the same.
WriteRtcUnchecked(freq) ==
    /\ "write" \in Calls
    /\ At("user")
    /\ index' = REG_A
    /\ rate' = RateOf(freq)
    /\ asked' = freq
    /\ UNCHANGED <<rtc_interrupt_occured, pc, eax, handler, curr, pf, pic, ticked>>

\* write_rtc, with interrupts off.
WriteRtc(freq) ==
    /\ "write" \in Calls
    /\ At("user")
    /\ index' = REG_A
    /\ IF RateOf(freq) # 0 THEN rate' = RateOf(freq) /\ asked' = freq
                           ELSE UNCHANGED <<rate, asked>>
    /\ UNCHANGED <<rtc_interrupt_occured, pc, eax, handler, curr, pf, pic, ticked>>

readUnchanged == <<rtc_interrupt_occured, handler, curr, chip, pic>>

\* read_rtc looks at the flag ...
ReadEnter ==
    /\ curr \in Readers
    /\ At("user")
    /\ Goto("first")
    /\ UNCHANGED <<eax, ticked, readUnchanged>>

ReadFirst ==
    /\ At("first")
    /\ Load
    /\ Goto("branch")
    /\ ticked' = [ticked EXCEPT ![curr] = FALSE]
    /\ UNCHANGED readUnchanged

\* Mutant: both values are waited for in the same way.
ReadBranchSame ==
    /\ At("branch")
    /\ Goto("loadClear")
    /\ UNCHANGED <<eax, ticked, readUnchanged>>

\* ... and waits until it has the other value.
ReadBranch ==
    /\ At("branch")
    /\ Goto(IF eax[curr] # 0 THEN "loadSet" ELSE "loadClear")
    /\ UNCHANGED <<eax, ticked, readUnchanged>>

ReadLoad ==
    /\ At("loadSet") \/ At("loadClear")
    /\ Load
    /\ Goto(IF pc[curr] = "loadSet" THEN "testSet" ELSE "testClear")
    /\ UNCHANGED <<ticked, readUnchanged>>

\* The value the loop waits for.
Awaited(p) == IF pc[p] \in {"loadSet", "testSet"} THEN 0 ELSE 1

ReadAgain ==
    /\ At("testSet") \/ At("testClear")
    /\ eax[curr] # Awaited(curr)
    /\ Goto(IF pc[curr] = "testSet" THEN "loadSet" ELSE "loadClear")
    /\ UNCHANGED <<eax, ticked, readUnchanged>>

ReadReturn ==
    /\ At("testSet") \/ At("testClear")
    /\ eax[curr] = Awaited(curr)
    /\ Goto("user")
    /\ UNCHANGED <<eax, ticked, readUnchanged>>

-----------------------------------------------------------------------------
(* Interrupts.                                                              *)

Interruptible == handler[curr] \in {"none"} \cup OpenAt

\* The chip signals a period; while register C is unread it does not again.
ClockPeriod ==
    /\ pf = 0
    /\ pf' = 1
    /\ irr' = 1
    /\ UNCHANGED <<rtc_interrupt_occured, pc, eax, handler, curr, index, isr, rate,
                   asked, ticked>>

\* The 8259 delivers, and the handler reads the time with interrupts off.
RtcInterrupt ==
    /\ irr = 1
    /\ isr = 0
    /\ Interruptible
    /\ handler[curr] = "none"
    /\ irr' = 0
    /\ isr' = 1
    /\ index' = REG_B
    /\ handler' = [handler EXCEPT ![curr] = "display"]
    /\ UNCHANGED <<rtc_interrupt_occured, pc, eax, curr, pf, rate, asked, ticked>>

Handle(from, to) ==
    /\ handler[curr] = from
    /\ handler' = [handler EXCEPT ![curr] = to]

HandlerDisplay ==
    /\ Handle("display", "index")
    /\ UNCHANGED <<rtc_interrupt_occured, pc, eax, curr, chip, pic, ticked>>

\* Mutant: register C is never selected.
HandlerIndexNothing ==
    /\ Handle("index", "readC")
    /\ UNCHANGED <<rtc_interrupt_occured, pc, eax, curr, chip, pic, ticked>>

HandlerIndex ==
    /\ Handle("index", "readC")
    /\ index' = REG_C
    /\ UNCHANGED <<rtc_interrupt_occured, pc, eax, curr, pf, rate, asked, pic, ticked>>

\* Reading the data port clears the signal if register C is selected.
HandlerReadC ==
    /\ Handle("readC", "load")
    /\ pf' = IF index = REG_C THEN 0 ELSE pf
    /\ UNCHANGED <<rtc_interrupt_occured, pc, eax, curr, index, rate, asked, pic, ticked>>

HandlerLoad ==
    /\ Handle("load", "store")
    /\ Load
    /\ UNCHANGED <<rtc_interrupt_occured, pc, curr, chip, pic, ticked>>

\* Mutant: the interrupt is ended before it has been counted.
HandlerStoreEoi ==
    /\ Handle("store", "eoi")
    /\ rtc_interrupt_occured' = IF eax[curr] # 0 THEN 0 ELSE 1
    /\ ticked' = [p \in Procs |-> TRUE]
    /\ isr' = 0
    /\ UNCHANGED <<pc, eax, curr, chip, irr>>

\* Mutant: the flag is set and never reset.
HandlerStoreSet ==
    /\ Handle("store", "eoi")
    /\ rtc_interrupt_occured' = 1
    /\ ticked' = [p \in Procs |-> TRUE]
    /\ UNCHANGED <<pc, eax, curr, chip, pic>>

HandlerStore ==
    /\ Handle("store", "eoi")
    /\ rtc_interrupt_occured' = IF eax[curr] # 0 THEN 0 ELSE 1
    /\ ticked' = [p \in Procs |-> TRUE]
    /\ UNCHANGED <<pc, eax, curr, chip, pic>>

\* send_eoi and the return; the last value sent to the 8259 stays in eax.
HandlerEoi ==
    /\ Handle("eoi", "none")
    /\ isr' = 0
    /\ eax' = [eax EXCEPT ![curr] = 1]
    /\ UNCHANGED <<rtc_interrupt_occured, pc, curr, chip, irr, ticked>>

\* The timer gives the CPU to p.
Tick(p) ==
    /\ Interruptible
    /\ p # curr
    /\ curr' = p
    /\ UNCHANGED <<rtc_interrupt_occured, pc, eax, handler, chip, pic, ticked>>

\* A key: what kbd does is in Terminal, here it leaves its value in eax.
KeyPress ==
    /\ "key" \in Calls
    /\ Interruptible
    /\ eax' = [eax EXCEPT ![curr] = 1]
    /\ UNCHANGED <<rtc_interrupt_occured, pc, handler, curr, chip, pic, ticked>>

\* Ctrl-C ends the program: its stack, with a handler that may be on it, is
\* left behind, and its parent goes on in user mode.
KeyKill ==
    /\ "kill" \in Calls
    /\ Interruptible
    /\ Goto("user")
    /\ handler' = [handler EXCEPT ![curr] = "none"]
    /\ eax' = [eax EXCEPT ![curr] = 0]
    /\ UNCHANGED <<rtc_interrupt_occured, curr, chip, pic, ticked>>

-----------------------------------------------------------------------------
Changed(p) == rtc_interrupt_occured = Awaited(p)
ReadStep == ReadFirst \/ ReadBranch \/ ReadLoad \/ ReadAgain \/ ReadReturn
HandlerStep == \/ HandlerDisplay \/ HandlerIndex \/ HandlerReadC
               \/ HandlerLoad \/ HandlerStore \/ HandlerEoi

Next ==
    \/ OpenRtc
    \/ \E freq \in Freqs : WriteRtc(freq)
    \/ ReadEnter
    \/ ReadStep
    \/ ClockPeriod
    \/ RtcInterrupt
    \/ HandlerStep
    \/ \E p \in Procs : Tick(p)
    \/ KeyPress
    \/ KeyKill

Spec == Init /\ [][Next]_vars

\* The chip keeps signalling, requests are latched until they are delivered,
\* and the timer keeps giving the CPU to every program and its handler.  A
\* waiting program tests the flag many times between two interrupts, and the
\* periods of the timer and of the clock drift against each other, so it also
\* gets to each of its steps while the flag is changed.
FairSpec ==
    /\ Spec
    /\ WF_vars(ClockPeriod)
    /\ SF_vars(RtcInterrupt)
    /\ \A p \in Procs : /\ SF_vars(Tick(p))
                        /\ SF_vars(curr = p /\ HandlerStep)
    /\ \A p \in Readers : /\ SF_vars(curr = p /\ (ReadFirst \/ ReadBranch))
                          /\ SF_vars(Changed(p) /\ Tick(p))
                          /\ SF_vars(Changed(p) /\ curr = p /\ ReadLoad)
                          /\ SF_vars(Changed(p) /\ curr = p /\ ReadAgain)
                          /\ SF_vars(curr = p /\ ReadReturn)

-----------------------------------------------------------------------------
(* Properties.                                                              *)

TypeOK ==
    /\ rtc_interrupt_occured \in {0, 1}
    /\ pc \in [Procs -> {"user"} \cup ReadPoints]
    /\ eax \in [Procs -> {0, 1}]
    /\ handler \in [Procs -> {"none"} \cup HandlerPoints]
    /\ curr \in Procs
    /\ index \in {REG_A, REG_B, REG_C}
    /\ pf \in {0, 1}
    /\ irr \in {0, 1}
    /\ isr \in {0, 1}
    /\ rate \in 1 .. 15
    /\ asked \in Nat
    /\ ticked \in [Procs -> BOOLEAN]

\* The interrupt is in service exactly while one handler is running on some
\* program's stack: the handler never meets itself, and every one is ended.
ServedByOne ==
    /\ \A p \in Procs : handler[p] # "none" => isr = 1
    /\ isr = 1 => \E p \in Procs : handler[p] # "none"
    /\ \A p, q \in Procs : handler[p] # "none" /\ handler[q] # "none" => p = q

\* A signal of the chip is on its way to a handler that will clear it, so the
\* clock cannot fall silent (rtc_handler's read of register C).
ClockAlive ==
    pf = 1 => \/ irr = 1
              \/ \E p \in Procs : \/ handler[p] \in {"display", "index"}
                                  \/ handler[p] = "readC" /\ index = REG_C

\* The chip runs at the frequency last set by open_rtc or write_rtc.
RateAsAsked == Hz(rate) = asked

Waiting(p) == pc[p] \in {"loadSet", "testSet", "loadClear", "testClear"}

\* read_rtc is about to return only if an interrupt has been counted.
ReadAwaitsTick ==
    \A p \in Procs :
      /\ pc[p] \in {"testSet", "testClear"}
      /\ handler[p] = "none"
      /\ eax[p] = Awaited(p)
      => ticked[p]

\* read_rtc returns.
ReadReturns == \A p \in Procs : pc[p] # "user" ~> pc[p] = "user"

=============================================================================
