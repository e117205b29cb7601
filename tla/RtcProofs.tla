------------------------------ MODULE RtcProofs ------------------------------
(***************************************************************************)
(* Proofs about Rtc, for any number of programs.                           *)
(***************************************************************************)
EXTENDS Rtc, TLAPS

\* A frequency in the table gives a rate the register can hold.
LEMMA RateInRange ==
    ASSUME NEW freq \in Nat, RateOf(freq) # 0
    PROVE  RateOf(freq) \in 1 .. 15
  BY DEF RateOf

\* Type correctness is preserved by every step.
LEMMA TypeStep == TypeOK /\ [Next]_vars => TypeOK'
  <1> SUFFICES ASSUME TypeOK, [Next]_vars PROVE TypeOK'
    OBVIOUS
  <1> USE RtcAssumption DEF TypeOK, REG_A, REG_B, REG_C, ReadPoints, HandlerPoints,
                            chip, pic, readUnchanged, At, Goto, Load, Handle
  <1>1. CASE OpenRtc
    BY <1>1 DEF OpenRtc
  <1>2. ASSUME NEW freq \in Freqs, WriteRtc(freq) PROVE TypeOK'
    <2>1. CASE RateOf(freq) # 0
      BY <1>2, <2>1, RateInRange DEF WriteRtc
    <2>2. CASE RateOf(freq) = 0
      BY <1>2, <2>2 DEF WriteRtc
    <2> QED BY <2>1, <2>2
  <1>3. CASE ReadEnter
    BY <1>3 DEF ReadEnter
  <1>4. CASE ReadStep
    <2>1. CASE ReadFirst
      <3>1. ticked' \in [Procs -> BOOLEAN]
        BY <2>1, Zenon DEF ReadFirst
      <3>2. eax' \in [Procs -> {0, 1}]
        BY <2>1 DEF ReadFirst
      <3>3. pc' \in [Procs -> {"user"} \cup ReadPoints]
        BY <2>1 DEF ReadFirst
      <3> QED BY <2>1, <3>1, <3>2, <3>3 DEF ReadFirst
    <2>2. CASE ReadBranch
      BY <2>2 DEF ReadBranch
    <2>3. CASE ReadLoad
      BY <2>3 DEF ReadLoad
    <2>4. CASE ReadAgain
      BY <2>4 DEF ReadAgain
    <2>5. CASE ReadReturn
      BY <2>5 DEF ReadReturn
    <2> QED BY <1>4, <2>1, <2>2, <2>3, <2>4, <2>5 DEF ReadStep
  <1>5. CASE ClockPeriod
    BY <1>5 DEF ClockPeriod
  <1>6. CASE RtcInterrupt
    BY <1>6 DEF RtcInterrupt
  <1>7. CASE HandlerStep
    <2>1. CASE HandlerDisplay
      BY <2>1 DEF HandlerDisplay
    <2>2. CASE HandlerIndex
      BY <2>2 DEF HandlerIndex
    <2>3. CASE HandlerReadC
      BY <2>3 DEF HandlerReadC
    <2>4. CASE HandlerLoad
      BY <2>4 DEF HandlerLoad
    <2>5. CASE HandlerStore
      BY <2>5 DEF HandlerStore
    <2>6. CASE HandlerEoi
      BY <2>6 DEF HandlerEoi
    <2> QED BY <1>7, <2>1, <2>2, <2>3, <2>4, <2>5, <2>6 DEF HandlerStep
  <1>8. ASSUME NEW p \in Procs, Tick(p) PROVE TypeOK'
    BY <1>8 DEF Tick
  <1>9. CASE KeyPress
    BY <1>9 DEF KeyPress
  <1>10. CASE KeyKill
    BY <1>10 DEF KeyKill
  <1>11. CASE UNCHANGED vars
    BY <1>11 DEF vars
  <1> QED
    BY <1>1, <1>2, <1>3, <1>4, <1>5, <1>6, <1>7, <1>8, <1>9, <1>10, <1>11 DEF Next

LEMMA TypeInit == Init => TypeOK
  BY RtcAssumption DEF Init, TypeOK, REG_A, REG_B, REG_C

\* TypeOK holds in every reachable state, wherever interrupts land.
THEOREM RtcTypeCorrect == Spec => []TypeOK
  BY TypeInit, TypeStep, PTL DEF Spec

-----------------------------------------------------------------------------
(* One handler at a time.                                                   *)

\* Steps other than the interrupt, the end of the handler and Ctrl-C keep every
\* handler where it is, or move the running one from one of its points to the next.
LEMMA ServedStep ==
    ASSUME "kill" \notin Calls, TypeOK, ServedByOne, [Next]_vars
    PROVE  ServedByOne'
  <1> USE DEF TypeOK, chip, pic, readUnchanged
  <1>1. CASE UNCHANGED <<handler, isr>>
    BY <1>1 DEF ServedByOne
  <1>2. CASE RtcInterrupt
    BY <1>2 DEF RtcInterrupt, ServedByOne, Interruptible
  <1>3. ASSUME NEW from \in HandlerPoints, NEW to \in HandlerPoints,
               Handle(from, to), UNCHANGED isr
        PROVE  ServedByOne'
    BY <1>3 DEF Handle, ServedByOne, HandlerPoints
  <1>4. CASE HandlerEoi
    BY <1>4 DEF HandlerEoi, Handle, ServedByOne
  <1>5. CASE HandlerStep
    <2>1. CASE HandlerDisplay
      BY <2>1, <1>3 DEF HandlerDisplay, HandlerPoints
    <2>2. CASE HandlerIndex
      BY <2>2, <1>3 DEF HandlerIndex, HandlerPoints
    <2>3. CASE HandlerReadC
      BY <2>3, <1>3 DEF HandlerReadC, HandlerPoints
    <2>4. CASE HandlerLoad
      BY <2>4, <1>3 DEF HandlerLoad, HandlerPoints
    <2>5. CASE HandlerStore
      BY <2>5, <1>3 DEF HandlerStore, HandlerPoints
    <2> QED BY <1>4, <1>5, <2>1, <2>2, <2>3, <2>4, <2>5 DEF HandlerStep
  <1>6. CASE ReadStep
    BY <1>1, <1>6 DEF ReadStep, ReadFirst, ReadBranch, ReadLoad, ReadAgain, ReadReturn
  <1> QED
    BY <1>1, <1>2, <1>5, <1>6
    DEF Next, vars, OpenRtc, WriteRtc, ReadEnter, ClockPeriod, Tick, KeyPress, KeyKill

\* rtc_handler never runs twice at once and every interrupt in service has a
\* handler that will end it, as long as Ctrl-C does not take its stack away.
THEOREM HandlerServed ==
    ASSUME "kill" \notin Calls
    PROVE  Spec => []ServedByOne
  <1>1. Init => TypeOK /\ ServedByOne
    BY TypeInit DEF Init, ServedByOne
  <1>2. TypeOK /\ ServedByOne /\ [Next]_vars => (TypeOK /\ ServedByOne)'
    BY TypeStep, ServedStep
  <1> QED BY <1>1, <1>2, PTL DEF Spec

-----------------------------------------------------------------------------
(* The clock does not fall silent.                                          *)

\* Between the selection and the reading of register C the program that runs
\* the handler keeps the CPU, so nothing else touches the index port.
SelectedInv ==
    \A p \in Procs : handler[p] = "readC" => curr = p /\ index = REG_C

AliveInv == TypeOK /\ SelectedInv /\ ClockAlive

LEMMA SelectedStep ==
    ASSUME "kill" \notin Calls, "readC" \notin OpenAt, TypeOK, SelectedInv, [Next]_vars
    PROVE  SelectedInv'
  <1> USE DEF TypeOK, chip, pic, readUnchanged, At
  <1>1. CASE UNCHANGED <<handler, curr, index>>
    BY <1>1 DEF SelectedInv
  <1>2. CASE RtcInterrupt
    BY <1>2 DEF RtcInterrupt, SelectedInv
  <1>3. CASE HandlerStep
    <2>1. CASE HandlerIndex
      BY <2>1 DEF HandlerIndex, Handle, SelectedInv
    <2>2. CASE HandlerDisplay
      BY <2>2 DEF HandlerDisplay, Handle, SelectedInv
    <2>3. CASE HandlerReadC
      BY <2>3 DEF HandlerReadC, Handle, SelectedInv
    <2>4. CASE HandlerLoad
      BY <2>4 DEF HandlerLoad, Handle, SelectedInv
    <2>5. CASE HandlerStore
      BY <2>5 DEF HandlerStore, Handle, SelectedInv
    <2>6. CASE HandlerEoi
      BY <2>6 DEF HandlerEoi, Handle, SelectedInv
    <2> QED BY <1>3, <2>1, <2>2, <2>3, <2>4, <2>5, <2>6 DEF HandlerStep
  <1>4. ASSUME NEW p \in Procs, Tick(p) PROVE SelectedInv'
    BY <1>4 DEF Tick, Interruptible, SelectedInv
  <1>5. CASE OpenRtc
    BY <1>5 DEF OpenRtc, SelectedInv
  <1>6. ASSUME NEW freq \in Freqs, WriteRtc(freq) PROVE SelectedInv'
    BY <1>6 DEF WriteRtc, SelectedInv
  <1>7. CASE ReadStep
    BY <1>1, <1>7 DEF ReadStep, ReadFirst, ReadBranch, ReadLoad, ReadAgain, ReadReturn
  <1> QED
    BY <1>1, <1>2, <1>3, <1>4, <1>5, <1>6, <1>7
    DEF Next, vars, ReadEnter, ClockPeriod, KeyPress, KeyKill

LEMMA AliveStep ==
    ASSUME "kill" \notin Calls, "readC" \notin OpenAt, AliveInv, [Next]_vars
    PROVE  ClockAlive'
  <1> USE DEF AliveInv, TypeOK, SelectedInv, chip, pic, readUnchanged
  <1>1. CASE UNCHANGED <<handler, pf, irr>>
    <2>1. SelectedInv'
      BY SelectedStep
    <2> QED BY <1>1, <2>1 DEF ClockAlive
  <1>2. CASE ClockPeriod
    BY <1>2 DEF ClockPeriod, ClockAlive
  <1>3. CASE RtcInterrupt
    BY <1>3 DEF RtcInterrupt, ClockAlive
  <1>4. CASE HandlerStep
    <2>1. CASE HandlerDisplay
      BY <2>1 DEF HandlerDisplay, Handle, ClockAlive
    <2>2. CASE HandlerIndex
      BY <2>2 DEF HandlerIndex, Handle, ClockAlive
    <2>3. CASE HandlerReadC
      BY <2>3 DEF HandlerReadC, Handle, ClockAlive
    <2>4. CASE HandlerLoad
      BY <2>4 DEF HandlerLoad, Handle, ClockAlive
    <2>5. CASE HandlerStore
      BY <2>5 DEF HandlerStore, Handle, ClockAlive
    <2>6. CASE HandlerEoi
      BY <2>6 DEF HandlerEoi, Handle, ClockAlive
    <2> QED BY <1>4, <2>1, <2>2, <2>3, <2>4, <2>5, <2>6 DEF HandlerStep
  <1>5. CASE ReadStep
    BY <1>1, <1>5 DEF ReadStep, ReadFirst, ReadBranch, ReadLoad, ReadAgain, ReadReturn
  <1> QED
    BY <1>1, <1>2, <1>3, <1>4, <1>5
    DEF Next, vars, OpenRtc, WriteRtc, ReadEnter, Tick, KeyPress, KeyKill

\* Every signal of the chip reaches a handler that clears it, if no interrupt
\* is taken between the selection and the reading of register C and Ctrl-C does
\* not end a program under the handler: the two runs that violate ReadReturns
\* show that both conditions are needed.
THEOREM ClockStaysAlive ==
    ASSUME "kill" \notin Calls, "readC" \notin OpenAt
    PROVE  Spec => []ClockAlive
  <1>1. Init => AliveInv
    BY TypeInit DEF Init, AliveInv, SelectedInv, ClockAlive
  <1>2. AliveInv /\ [Next]_vars => AliveInv'
    BY TypeStep, SelectedStep, AliveStep DEF AliveInv
  <1>3. AliveInv => ClockAlive
    BY DEF AliveInv
  <1> QED BY <1>1, <1>2, <1>3, PTL DEF Spec

-----------------------------------------------------------------------------
(* read_rtc waits.                                                          *)

\* As long as no interrupt has been counted the flag is what read_rtc first
\* saw, and so is the register it tests; a handler that has counted its
\* interrupt may spoil the register.
UntickedInv ==
    \A p \in Procs :
      /\ handler[p] = "eoi" => ticked[p]
      /\ ~ticked[p] =>
           /\ pc[p] \in {"branch", "testSet", "testClear"} => eax[p] = rtc_interrupt_occured
           /\ Waiting(p) => rtc_interrupt_occured # Awaited(p)

LEMMA UntickedStep ==
    ASSUME "key" \notin Calls, TypeOK, UntickedInv, [Next]_vars
    PROVE  UntickedInv'
  <1> USE DEF TypeOK, chip, pic, readUnchanged, At, Goto, Load, Waiting, Awaited,
              UntickedInv, ReadPoints
  <1>1. CASE UNCHANGED <<handler, ticked, pc, eax, rtc_interrupt_occured>>
    BY <1>1
  <1>2. CASE ReadEnter
    BY <1>2 DEF ReadEnter
  <1>3. CASE ReadStep
    <2>1. CASE ReadFirst
      BY <2>1 DEF ReadFirst
    <2>2. CASE ReadBranch
      BY <2>2 DEF ReadBranch
    <2>3. CASE ReadLoad
      BY <2>3 DEF ReadLoad
    <2>4. CASE ReadAgain
      BY <2>4 DEF ReadAgain
    <2>5. CASE ReadReturn
      BY <2>5 DEF ReadReturn
    <2> QED BY <1>3, <2>1, <2>2, <2>3, <2>4, <2>5 DEF ReadStep
  <1>4. CASE RtcInterrupt
    BY <1>4 DEF RtcInterrupt
  <1>5. CASE HandlerStep
    <2>1. CASE HandlerDisplay
      BY <2>1 DEF HandlerDisplay, Handle
    <2>2. CASE HandlerIndex
      BY <2>2 DEF HandlerIndex, Handle
    <2>3. CASE HandlerReadC
      BY <2>3 DEF HandlerReadC, Handle
    <2>4. CASE HandlerLoad
      BY <2>4 DEF HandlerLoad, Handle
    <2>5. CASE HandlerStore
      BY <2>5 DEF HandlerStore, Handle
    <2>6. CASE HandlerEoi
      BY <2>6 DEF HandlerEoi, Handle
    <2> QED BY <1>5, <2>1, <2>2, <2>3, <2>4, <2>5, <2>6 DEF HandlerStep
  <1>6. CASE KeyKill
    BY <1>6 DEF KeyKill
  <1> QED
    BY <1>1, <1>2, <1>3, <1>4, <1>5, <1>6
    DEF Next, vars, OpenRtc, WriteRtc, ClockPeriod, Tick, KeyPress

\* read_rtc does not return before an interrupt has been counted, wherever
\* interrupts land and whatever the timer and Ctrl-C do, as long as kbd does not
\* overwrite the register it tests.
THEOREM ReadWaits ==
    ASSUME "key" \notin Calls
    PROVE  Spec => []ReadAwaitsTick
  <1>1. Init => TypeOK /\ UntickedInv
    BY TypeInit DEF Init, UntickedInv, Waiting
  <1>2. TypeOK /\ UntickedInv /\ [Next]_vars => (TypeOK /\ UntickedInv)'
    BY TypeStep, UntickedStep
  <1>3. TypeOK /\ UntickedInv => ReadAwaitsTick
    BY DEF TypeOK, UntickedInv, ReadAwaitsTick, Waiting
  <1> QED BY <1>1, <1>2, <1>3, PTL DEF Spec


-----------------------------------------------------------------------------
(* The rate.                                                                *)

\* Every row of write_rtc's table holds the rate at which the chip runs with
\* the frequency of that row.
LEMMA TableRight ==
    ASSUME NEW freq \in Nat, RateOf(freq) # 0
    PROVE  Hz(RateOf(freq)) = freq
  <1>1. freq \in {2, 4, 8, 16, 32, 64, 128, 256, 512, 1024}
    BY DEF RateOf
  <1>3. /\ RateOf(2) = 15 /\ RateOf(4) = 14 /\ RateOf(8) = 13 /\ RateOf(16) = 12
        /\ RateOf(32) = 11 /\ RateOf(64) = 10 /\ RateOf(128) = 9 /\ RateOf(256) = 8
        /\ RateOf(512) = 7 /\ RateOf(1024) = 6
    BY DEF RateOf
  <1>2. /\ Hz(15) = 2 /\ Hz(14) = 4 /\ Hz(13) = 8 /\ Hz(12) = 16 /\ Hz(11) = 32
        /\ Hz(10) = 64 /\ Hz(9) = 128 /\ Hz(8) = 256 /\ Hz(7) = 512 /\ Hz(6) = 1024
    BY DEF Hz
  <1> QED BY <1>1, <1>2, <1>3

\* The chip runs at the frequency open_rtc or write_rtc last set, whatever
\* frequencies programs ask for: one that is not in the table leaves the rate
\* and the register that holds it alone.
THEOREM RateIsAsked == Spec => []RateAsAsked
  <1>1. Init => RateAsAsked
    BY DEF Init, RateAsAsked, Hz
  <1>2. RateAsAsked /\ [Next]_vars => RateAsAsked'
    <2> SUFFICES ASSUME RateAsAsked, [Next]_vars PROVE RateAsAsked'
      OBVIOUS
    <2>1. CASE UNCHANGED <<rate, asked>>
      BY <2>1 DEF RateAsAsked
    <2>2. CASE OpenRtc
      BY <2>2 DEF OpenRtc, RateAsAsked, Hz
    <2>3. ASSUME NEW freq \in Freqs, WriteRtc(freq) PROVE RateAsAsked'
      <3>1. CASE RateOf(freq) # 0
        BY <2>3, <3>1, TableRight, RtcAssumption DEF WriteRtc, RateAsAsked
      <3>2. CASE RateOf(freq) = 0
        BY <2>1, <2>3, <3>2 DEF WriteRtc
      <3> QED BY <3>1, <3>2
    <2>4. CASE ReadStep \/ HandlerStep
      BY <2>1, <2>4
      DEF ReadStep, ReadFirst, ReadBranch, ReadLoad, ReadAgain, ReadReturn,
          HandlerStep, HandlerDisplay, HandlerIndex, HandlerReadC, HandlerLoad,
          HandlerStore, HandlerEoi, readUnchanged, chip
    <2> QED
      BY <2>1, <2>2, <2>3, <2>4
      DEF Next, vars, ReadEnter, ClockPeriod, RtcInterrupt, Tick, KeyPress, KeyKill,
          readUnchanged, chip
  <1> QED BY <1>1, <1>2, PTL DEF Spec

=============================================================================
