------------------------- MODULE CalibrationProofs -------------------------
(***************************************************************************)
(* Safety of the calibration for every calibration constant, frequency and *)
(* bus: the two devices are active only while their handlers are there.    *)
(***************************************************************************)
EXTENDS Calibration, TLAPS

Setup == {"oneshot", "clear", "sub_apic", "sub_rtc", "rtc_on", "start", "sti"}
Cleanup == {"interval", "unsub_apic", "unsub_rtc", "periodic", "sub_update",
            "restart"}
Points == {"cli"} \cup Setup \cup {"wait"} \cup Cleanup \cup {"kernel"}

(* Interrupts are off during the set-up and on from the wait on.           *)
InterruptFlag ==
  /\ pc \in Points
  /\ frame \in {"main", "handler", "done", "stopped"}
  /\ frame # "main" => vector \in Vectors
  /\ irr \subseteq Vectors
  /\ pc \in Setup => frame = "main" /\ ~iflag
  /\ pc \notin Setup \cup {"cli"} => (frame = "main" => iflag)

(* What the table holds at each point of timer_init.                       *)
Table ==
  /\ subscribers \in [Vectors -> Subscribers \cup {NULL}]
  /\ subscribers[APIC_TIMER_IV] =
       IF pc \in {"sub_rtc", "rtc_on", "start", "sti", "wait", "interval",
                  "unsub_apic"}
       THEN "temp_intr_routine_apic_timer"
       ELSE IF pc \in {"restart", "kernel"} THEN "timer_update" ELSE NULL
  /\ subscribers[RTC_TIMER_IV] =
       IF pc \in {"rtc_on", "start", "sti", "wait", "interval", "unsub_apic",
                  "unsub_rtc"}
       THEN "temp_intr_routine_rtc_tick" ELSE NULL
  /\ subscribers[APIC_LINT0_IV] = NULL

(* A device is active if it may interrupt, has asked to, or is being       *)
(* served by a handler that has not done its work.                         *)
Serving(v) == frame = "handler" /\ vector = v
ApicActive == counting \/ APIC_TIMER_IV \in irr \/ Serving(APIC_TIMER_IV)
RtcActive == pie \/ RTC_TIMER_IV \in irr \/ Serving(RTC_TIMER_IV)

(* The APIC timer runs down once, and again only when the kernel runs.     *)
ApicPhase ==
  /\ ApicActive => \/ pc \in {"sti", "wait"} /\ lvt = "oneshot"
                                             /\ apic_timer_done = FALSE
                   \/ pc = "kernel"
  /\ pc # "kernel" =>
       /\ ~(counting /\ APIC_TIMER_IV \in irr)
       /\ ~(Serving(APIC_TIMER_IV) /\ (counting \/ APIC_TIMER_IV \in irr))
  /\ pc \in {"clear", "sub_apic", "sub_rtc", "rtc_on", "start", "sti", "wait"}
       => lvt = "oneshot"

(* The RTC is on from rtc_enable_timer to the handler of the APIC timer.   *)
RtcPhase ==
  /\ RtcActive => pc \in {"start", "sti", "wait"}
  /\ apic_timer_done = TRUE => ~pie /\ pc \notin Setup \cup {"cli"}
  /\ pc \in Cleanup => apic_timer_done = TRUE
  /\ apic_timer_done \in BOOLEAN

IInv == AcknowledgedOnce /\ InterruptFlag /\ Table /\ ApicPhase /\ RtcPhase

(* timer_init leaves nothing of an interrupt behind before it starts.      *)
LEMMA InitIInv == Init => IInv
<1> SUFFICES ASSUME Init PROVE IInv
  OBVIOUS
<1>1. AcknowledgedOnce /\ InterruptFlag
  BY DEF Init, AcknowledgedOnce, InterruptFlag, Points, Setup
<1>2. Table
  <2>1. /\ subscribers = [v \in Vectors |-> NULL] /\ pc = "cli"
        /\ {APIC_TIMER_IV, RTC_TIMER_IV, APIC_LINT0_IV} \subseteq Vectors
    BY DEF Init, Vectors
  <2> QED BY <2>1 DEF Table
<1>3. ApicPhase
  BY DEF Init, ApicPhase, ApicActive, Serving, APIC_TIMER_IV
<1>4. RtcPhase
  BY DEF Init, RtcPhase, RtcActive, Serving, Setup, Cleanup, RTC_TIMER_IV
<1> QED BY <1>1, <1>2, <1>3, <1>4 DEF IInv

(* While the RTC asks for an interrupt and interrupts are on, no main code *)
(* runs: 210 is above every other vector.                                  *)
LEMMA RtcFirst ==
  ASSUME irr \subseteq Vectors, in_service = {}, iflag, RTC_TIMER_IV \in irr
  PROVE  \E v \in Vectors : Deliverable(v)
<1>1. RTC_TIMER_IV \in Vectors /\ \A w \in irr : w <= RTC_TIMER_IV
  BY DEF Vectors, APIC_LINT0_IV, APIC_TIMER_IV, RTC_TIMER_IV
<1> QED BY <1>1 DEF Deliverable

(* timer_init keeps the invariant, statement by statement.                 *)
LEMMA MainIInv == IInv /\ timer_init => IInv'
<1> SUFFICES ASSUME IInv, timer_init PROVE IInv'
  OBVIOUS
<1> USE CalibrationAssumption
    DEF IInv, AcknowledgedOnce, InterruptFlag, Table, ApicPhase, RtcPhase,
        ApicActive, RtcActive, Serving, Points, Setup, Cleanup, Vectors,
        Subscribers, APIC_LINT0_IV, APIC_TIMER_IV, RTC_TIMER_IV
<1>1. CASE cpu_disable_interrupt
  BY <1>1
  DEF cpu_disable_interrupt, At, MainRuns, code, apic, rtc
<1>2. CASE SetOneShot
  BY <1>2
  DEF SetOneShot, At, MainRuns, code, apic, rtc
<1>3. CASE ClearCounters
  <2>1. AcknowledgedOnce' /\ InterruptFlag' /\ Table'
    BY <1>3 DEF ClearCounters, At, MainRuns, apic, rtc
  <2>2. ApicPhase'
    BY <1>3 DEF ClearCounters, At, MainRuns, apic, rtc
  <2>3. RtcPhase'
    BY <1>3 DEF ClearCounters, At, MainRuns, apic, rtc
  <2> QED BY <2>1, <2>2, <2>3
<1>4. CASE SubscribeApic
  BY <1>4
  DEF SubscribeApic, At, MainRuns, code, apic, rtc, intr_subscribe
<1>5. CASE SubscribeRtc
  BY <1>5
  DEF SubscribeRtc, At, MainRuns, code, apic, rtc, intr_subscribe
<1>6. CASE rtc_enable_timer
  BY <1>6
  DEF rtc_enable_timer, At, MainRuns, code, apic, rtc
<1>7. CASE StartCalibration
  BY <1>7
  DEF StartCalibration, At, MainRuns, code, apic, rtc
<1>8. CASE cpu_enable_interrupt
  BY <1>8
  DEF cpu_enable_interrupt, At, MainRuns, code, apic, rtc
<1>9. CASE Spin
  BY <1>9, RtcFirst
  DEF Spin, At, MainRuns, code, apic, rtc
<1>10. CASE SetInterval
  BY <1>10
  DEF SetInterval, At, MainRuns, code, apic, rtc
<1>11. CASE UnsubscribeApic
  BY <1>11
  DEF UnsubscribeApic, At, MainRuns, code, apic, rtc, intr_subscribe, intr_unsubscribe
<1>12. CASE UnsubscribeRtc
  BY <1>12
  DEF UnsubscribeRtc, At, MainRuns, code, apic, rtc, intr_subscribe, intr_unsubscribe
<1>13. CASE SetPeriodic
  BY <1>13
  DEF SetPeriodic, At, MainRuns, code, apic, rtc
<1>14. CASE SubscribeUpdate
  BY <1>14
  DEF SubscribeUpdate, At, MainRuns, code, apic, rtc, intr_subscribe
<1>15. CASE StartTicks
  BY <1>15
  DEF StartTicks, At, MainRuns, code, apic, rtc
<1>16. CASE RestOfKernel
  BY <1>16
  DEF RestOfKernel, At, MainRuns, code, apic, rtc
<1> QED
  BY <1>1, <1>2, <1>3, <1>4, <1>5, <1>6, <1>7, <1>8, <1>9, <1>10, <1>11, <1>12, <1>13, <1>14, <1>15, <1>16
  DEF timer_init

(* Acceptance, the handlers and the end of interrupt keep it.              *)
LEMMA HandlerIInv == IInv /\ Handler => IInv'
<1> SUFFICES ASSUME IInv, Handler PROVE IInv'
  OBVIOUS
<1> USE CalibrationAssumption
    DEF IInv, AcknowledgedOnce, InterruptFlag, Table, ApicPhase, RtcPhase,
        ApicActive, RtcActive, Serving, Points, Setup, Cleanup, Vectors,
        Subscribers, APIC_LINT0_IV, APIC_TIMER_IV, RTC_TIMER_IV
<1>1. ASSUME NEW v \in Vectors, Accept(v)
      PROVE  IInv'
  BY <1>1
  DEF Accept, Deliverable, Class, table, rtc, code, apic, lapic, aux
<1>2. CASE temp_intr_routine_rtc_tick
  BY <1>2
  DEF temp_intr_routine_rtc_tick, Calls, rtc, code, apic, lapic, aux
<1>3. CASE temp_intr_routine_apic_timer
  <2>1. AcknowledgedOnce' /\ InterruptFlag' /\ Table'
    BY <1>3
    DEF temp_intr_routine_apic_timer, Calls, apic, lapic, aux
  <2>2. ApicPhase'
    BY <1>3
    DEF temp_intr_routine_apic_timer, Calls, apic, lapic, aux
  <2>3. pc = "wait"
    <3>1. Serving(APIC_TIMER_IV)
      BY <1>3 DEF temp_intr_routine_apic_timer, Calls
    <3> QED BY <1>3, <3>1 DEF temp_intr_routine_apic_timer, Calls
  <2>4. pc' = "wait"
    BY <1>3, <2>3 DEF temp_intr_routine_apic_timer, Calls
  <2>5. RtcPhase'
    <3>1. CASE rtc_counter = 0
      <4>1. UNCHANGED <<pie, irr, apic_timer_done>>
        BY <1>3, <3>1 DEF temp_intr_routine_apic_timer, Calls, lapic
      <4> QED BY <2>3, <2>4, <4>1
    <3>2. CASE rtc_counter # 0
      <4>1. pie' = FALSE /\ apic_timer_done' = TRUE
        BY <1>3, <3>2 DEF temp_intr_routine_apic_timer
      <4> QED BY <2>4, <4>1
    <3> QED BY <3>1, <3>2
  <2> QED BY <2>1, <2>2, <2>5
<1>4. CASE timer_update
  BY <1>4
  DEF timer_update, Calls, rtc, code, apic, lapic, aux
<1>5. CASE CallFallback
  BY <1>5
  DEF CallFallback, Calls, rtc, code, apic, lapic, aux
<1>6. CASE IntrDone
  <2>1. vector \in Vectors
    BY <1>6 DEF IntrDone
  <2>2. in_service' = in_service \ {vector}
    BY <1>6, <2>1 DEF IntrDone, EX_INTERRUPT_BEGIN, APIC_SPIV_IV
  <2> QED
    BY <1>6, <2>1, <2>2
    DEF IntrDone, table, rtc, code, apic, lapic, aux
<1> HIDE DEF IInv, Vectors
<1> QED
  BY <1>1, <1>2, <1>3, <1>4, <1>5, <1>6 DEF Handler

(* The devices keep it.                                                    *)
LEMMA DeviceIInv ==
  IInv /\ (RtcPeriod \/ ApicTimerExpires \/ Lint0) => IInv'
<1> SUFFICES ASSUME IInv, RtcPeriod \/ ApicTimerExpires \/ Lint0
             PROVE  IInv'
  OBVIOUS
<1> USE CalibrationAssumption
    DEF IInv, AcknowledgedOnce, InterruptFlag, Table, ApicPhase, RtcPhase,
        ApicActive, RtcActive, Serving, Points, Setup, Cleanup, Vectors,
        Subscribers, APIC_LINT0_IV, APIC_TIMER_IV, RTC_TIMER_IV
<1>1. CASE RtcPeriod
  BY <1>1
  DEF RtcPeriod, cpu, table, code, rtc, apic, aux
<1>2. CASE ApicTimerExpires
  BY <1>2
  DEF ApicTimerExpires, cpu, table, code, rtc, apic, aux
<1>3. CASE Lint0
  BY <1>3
  DEF Lint0, cpu, table, code, rtc, apic, aux
<1> QED BY <1>1, <1>2, <1>3

(* Every step keeps it.                                                    *)
LEMMA StepIInv == IInv /\ [Next]_vars => IInv'
<1>1. IInv /\ UNCHANGED vars => IInv'
  BY DEF vars, cpu, table, code, rtc, apic, lapic, aux, IInv, AcknowledgedOnce,
         InterruptFlag, Table, ApicPhase, RtcPhase, ApicActive, RtcActive,
         Serving
<1> QED BY <1>1, MainIInv, HandlerIInv, DeviceIInv DEF Next

(* The invariant holds.                                                    *)
LEMMA SpecIInv == Spec => []IInv
  BY StepIInv, InitIInv, PTL DEF Spec

(* Every interrupt is acknowledged exactly once, by the handler that       *)
(* serves it (interrupts.c:50-55).                                         *)
THEOREM EveryInterruptAcknowledged == Spec => []AcknowledgedOnce
  BY SpecIInv, PTL DEF IInv

(* No interrupt of the APIC timer or the RTC finds its vector without a    *)
(* subscriber, at any speed of bus and processor (timer.c:98-130).         *)
THEOREM NoInterruptUnknown == Spec => []NoUnknownInterrupt
<1>1. IInv => NoUnknownInterrupt
  BY CalibrationAssumption
  DEF IInv, InterruptFlag, Table, ApicPhase, RtcPhase, ApicActive, RtcActive,
      Serving, Points, Setup, Cleanup, Vectors, Subscribers, APIC_LINT0_IV,
      APIC_TIMER_IV, RTC_TIMER_IV, NoUnknownInterrupt
<1> QED BY <1>1, SpecIInv, PTL

-----------------------------------------------------------------------------
(* What is measured.                                                       *)

(* The RTC periods noticed: counted, or about to be.                       *)
RtcPending == RTC_TIMER_IV \in irr \/ Serving(RTC_TIMER_IV)
Periods == rtc_counter + (IF RtcPending THEN 1 ELSE 0)

(* The timer has run down and its handler has not come yet.  From the wait *)
(* on main code does not run, so a single further period can end; no       *)
(* period is left to count when the handler of the APIC timer is taken.    *)
RunDown ==
  /\ APIC_TIMER_IV \in irr \/ Serving(APIC_TIMER_IV)
  /\ elapsed >= 1
  /\ pc = "sti" => Periods = elapsed
  /\ Periods \in elapsed .. (elapsed + (IF ran THEN 1 ELSE 2))
  /\ Serving(APIC_TIMER_IV) => rtc_counter >= elapsed

NothingCounted ==
  /\ pc \in {"cli"} \cup Setup => rtc_counter = 0
  /\ pc \in {"cli"} \cup (Setup \ {"sti"}) => elapsed = 0

(* The RTC asks for an interrupt as long as its flag is set.               *)
RtcAsks ==
  /\ pc \in {"start", "sti", "wait"} /\ apic_timer_done = FALSE => pie
  /\ pie /\ pf => RtcPending
  /\ RTC_TIMER_IV \in irr => ~Serving(RTC_TIMER_IV)

(* While the timer counts down every period is noticed, and the first may  *)
(* have been noticed before.                                               *)
PeriodsNoticed ==
  pc \in {"sti", "wait"} /\ apic_timer_done = FALSE =>
    IF counting THEN Periods \in elapsed .. (elapsed + 1) ELSE RunDown

Measuring ==
  /\ rtc_counter \in Nat /\ elapsed \in Nat /\ ran \in BOOLEAN
  /\ pf \in BOOLEAN /\ pie \in BOOLEAN /\ counting \in BOOLEAN
  /\ NothingCounted /\ RtcAsks /\ PeriodsNoticed
  /\ pc \in {"sub_update", "restart", "kernel"} => lvt = "periodic"

(* While the APIC timer asks for an interrupt and interrupts are on, no    *)
(* main code runs.                                                         *)
LEMMA ApicWaits ==
  ASSUME irr \subseteq Vectors, in_service = {}, APIC_TIMER_IV \in irr
  PROVE  \E v \in Vectors : Deliverable(v)
<1>1. CASE RTC_TIMER_IV \in irr
  <2>1. RTC_TIMER_IV \in Vectors /\ \A w \in irr : w <= RTC_TIMER_IV
    BY DEF Vectors, APIC_LINT0_IV, APIC_TIMER_IV, RTC_TIMER_IV
  <2> QED BY <1>1, <2>1 DEF Deliverable
<1>2. CASE RTC_TIMER_IV \notin irr
  <2>1. APIC_TIMER_IV \in Vectors /\ \A w \in irr : w <= APIC_TIMER_IV
    BY <1>2 DEF Vectors, APIC_LINT0_IV, APIC_TIMER_IV, RTC_TIMER_IV
  <2> QED BY <2>1 DEF Deliverable
<1> QED BY <1>1, <1>2

(* Nothing has been counted when timer_init starts.                        *)
LEMMA InitMeasures == Init => Measuring
<1> SUFFICES ASSUME Init PROVE Measuring
  OBVIOUS
<1>1. pc = "cli" /\ rtc_counter = 0 /\ elapsed = 0 /\ irr = {} /\ frame = "main"
  BY DEF Init
<1>2. ran \in BOOLEAN /\ pf \in BOOLEAN /\ pie = FALSE /\ counting = FALSE
  BY DEF Init
<1> QED BY <1>1, <1>2 DEF Measuring, NothingCounted, RtcAsks, PeriodsNoticed

(* timer_init keeps it: the statements before the start count nothing.     *)
LEMMA MainMeasures == IInv /\ Measuring /\ timer_init => Measuring'
<1> SUFFICES ASSUME IInv, Measuring, timer_init PROVE Measuring'
  OBVIOUS
<1> USE CalibrationAssumption
    DEF IInv, AcknowledgedOnce, InterruptFlag, ApicPhase, RtcPhase, ApicActive,
        RtcActive, Measuring, NothingCounted, RtcAsks, PeriodsNoticed, RunDown,
        Periods, RtcPending, Serving, Points, Setup, Cleanup, Vectors,
        APIC_LINT0_IV, APIC_TIMER_IV, RTC_TIMER_IV
<1>1. CASE cpu_disable_interrupt
  BY <1>1 DEF cpu_disable_interrupt, At, MainRuns, code, apic, rtc
<1>2. CASE SetOneShot
  BY <1>2 DEF SetOneShot, At, MainRuns, code, apic, rtc
<1>3. CASE ClearCounters
  BY <1>3 DEF ClearCounters, At, MainRuns, code, apic, rtc
<1>4. CASE SubscribeApic
  BY <1>4 DEF SubscribeApic, At, MainRuns, code, apic, rtc
<1>5. CASE SubscribeRtc
  BY <1>5 DEF SubscribeRtc, At, MainRuns, code, apic, rtc
<1>6. CASE rtc_enable_timer
  BY <1>6 DEF rtc_enable_timer, At, MainRuns, code, apic, rtc
<1>7. CASE StartCalibration
  BY <1>7 DEF StartCalibration, At, MainRuns, code, apic, rtc
<1>8. CASE cpu_enable_interrupt
  BY <1>8 DEF cpu_enable_interrupt, At, MainRuns, code, apic, rtc
<1>9. CASE Spin
  BY <1>9, ApicWaits DEF Spin, At, MainRuns, code, apic, rtc
<1>10. CASE SetInterval
  BY <1>10 DEF SetInterval, At, MainRuns, code, apic, rtc
<1>11. CASE UnsubscribeApic
  BY <1>11 DEF UnsubscribeApic, At, MainRuns, code, apic, rtc
<1>12. CASE UnsubscribeRtc
  BY <1>12 DEF UnsubscribeRtc, At, MainRuns, code, apic, rtc
<1>13. CASE SetPeriodic
  BY <1>13 DEF SetPeriodic, At, MainRuns, code, apic, rtc
<1>14. CASE SubscribeUpdate
  BY <1>14 DEF SubscribeUpdate, At, MainRuns, code, apic, rtc
<1>15. CASE StartTicks
  BY <1>15 DEF StartTicks, At, MainRuns, code, apic, rtc
<1>16. CASE RestOfKernel
  BY <1>16 DEF RestOfKernel, At, MainRuns, code, apic, rtc
<1> HIDE DEF Measuring
<1> QED
  BY <1>1, <1>2, <1>3, <1>4, <1>5, <1>6, <1>7, <1>8, <1>9, <1>10, <1>11, <1>12,
     <1>13, <1>14, <1>15, <1>16
  DEF timer_init

(* The handlers keep it: a period is counted when it is no longer pending, *)
(* and the APIC timer is served when none is.                              *)
LEMMA HandlerMeasures == IInv /\ Measuring /\ Handler => Measuring'
<1> SUFFICES ASSUME IInv, Measuring, Handler PROVE Measuring'
  OBVIOUS
<1> USE CalibrationAssumption
    DEF IInv, AcknowledgedOnce, InterruptFlag, ApicPhase, RtcPhase, ApicActive,
        RtcActive, Measuring, NothingCounted, RtcAsks, PeriodsNoticed, RunDown,
        Periods, RtcPending, Serving, Points, Setup, Cleanup, Vectors,
        APIC_LINT0_IV, APIC_TIMER_IV, RTC_TIMER_IV
<1>1. ASSUME NEW v \in Vectors, Accept(v)
      PROVE  Measuring'
  BY <1>1 DEF Accept, Deliverable, Class, table, rtc, code, apic, lapic, aux
<1>2. CASE temp_intr_routine_rtc_tick
  <2>1. /\ frame = "handler" /\ subscribers[vector] = "temp_intr_routine_rtc_tick"
        /\ UNCHANGED <<pc, vector, elapsed, ran, irr, lvt, counting>>
    BY <1>2 DEF temp_intr_routine_rtc_tick, Calls, lapic, aux, apic
  <2>2. vector = RTC_TIMER_IV
    BY <2>1 DEF Table, Subscribers
  <2>3. /\ rtc_counter' = rtc_counter + 1 /\ pf' = FALSE /\ frame' = "done"
        /\ UNCHANGED <<apic_timer_done, pie>>
    BY <1>2 DEF temp_intr_routine_rtc_tick
  <2>4. Periods' = Periods /\ ~Serving(APIC_TIMER_IV)' /\ ~Serving(RTC_TIMER_IV)'
    BY <2>1, <2>2, <2>3
  <2>5. PeriodsNoticed'
    BY <2>1, <2>2, <2>3, <2>4
  <2>6. NothingCounted' /\ RtcAsks'
    <3>1. pc \notin {"cli"} \cup Setup
      BY <2>1, <2>2
    <3> QED BY <3>1, <2>1, <2>2, <2>3, <2>4
  <2>7. rtc_counter' \in Nat
    BY <2>3
  <2>8. pf' \in BOOLEAN
    BY ONLY <2>3
  <2>9. UNCHANGED <<pc, elapsed, ran, pie, counting, lvt>>
    BY <2>1, <2>3
  <2> HIDE DEF NothingCounted, RtcAsks, PeriodsNoticed
  <2> QED BY <2>5, <2>6, <2>7, <2>8, <2>9
<1>3. CASE temp_intr_routine_apic_timer
  <2>1. /\ frame = "handler" /\ subscribers[vector] = "temp_intr_routine_apic_timer"
        /\ UNCHANGED <<pc, vector, elapsed, ran, irr, lvt, counting>>
        /\ UNCHANGED <<rtc_counter, pf>>
    BY <1>3 DEF temp_intr_routine_apic_timer, Calls, lapic, aux, apic
  <2>2. vector = APIC_TIMER_IV
    BY <2>1 DEF Table, Subscribers
  <2>3. pc = "wait" /\ apic_timer_done = FALSE /\ lvt = "oneshot"
    BY <2>1, <2>2 DEF Table
  <2>4. counting = FALSE /\ rtc_counter # 0
    BY <2>1, <2>2, <2>3
  <2>5. apic_timer_done' = TRUE /\ pie' = FALSE /\ frame' = "done"
    BY <1>3, <2>4 DEF temp_intr_routine_apic_timer
  <2>6. RtcAsks' /\ PeriodsNoticed' /\ NothingCounted'
    BY <2>1, <2>3, <2>5
  <2>7. pie' \in BOOLEAN
    BY ONLY <2>5
  <2>8. pc \notin {"sub_update", "restart", "kernel"}
    BY <2>3
  <2> HIDE DEF NothingCounted, RtcAsks, PeriodsNoticed
  <2> QED BY <2>1, <2>6, <2>7, <2>8
<1>4. CASE timer_update
  BY <1>4 DEF Table, timer_update, Calls, rtc, code, apic, lapic, aux
<1>5. CASE CallFallback
  <2>1. /\ frame = "handler" /\ subscribers[vector] = NULL
        /\ UNCHANGED <<pc, vector, elapsed, ran, irr, lvt, counting>>
        /\ UNCHANGED <<rtc_counter, apic_timer_done, pie, pf>>
    BY <1>5 DEF CallFallback, Calls, rtc, lapic, aux, apic
  <2>2. frame' \in {"done", "stopped"}
    BY <1>5 DEF CallFallback
  <2>3. ~Serving(APIC_TIMER_IV) /\ ~Serving(RTC_TIMER_IV)
    BY <2>1 DEF Table, Subscribers
  <2>4. ~Serving(APIC_TIMER_IV)' /\ ~Serving(RTC_TIMER_IV)'
    BY <2>2
  <2> QED BY <2>1, <2>3, <2>4
<1>6. CASE IntrDone
  BY <1>6 DEF IntrDone, table, rtc, code, apic, lapic, aux
<1> HIDE DEF Measuring, Vectors
<1> QED
  BY <1>1, <1>2, <1>3, <1>4, <1>5, <1>6 DEF Handler

(* The devices keep it: a period that ends is noticed at once.             *)
LEMMA DeviceMeasures ==
  IInv /\ Measuring /\ (RtcPeriod \/ ApicTimerExpires \/ Lint0) => Measuring'
<1> SUFFICES ASSUME IInv, Measuring, RtcPeriod \/ ApicTimerExpires \/ Lint0
             PROVE  Measuring'
  OBVIOUS
<1> USE CalibrationAssumption
    DEF IInv, AcknowledgedOnce, InterruptFlag, ApicPhase, RtcPhase, ApicActive,
        RtcActive, Measuring, NothingCounted, RtcAsks, PeriodsNoticed, RunDown,
        Periods, RtcPending, Serving, Points, Setup, Cleanup, Vectors,
        APIC_LINT0_IV, APIC_TIMER_IV, RTC_TIMER_IV
<1>1. CASE RtcPeriod
  <2>1. /\ ran = TRUE /\ ran' = FALSE /\ RTC_TIMER_IV \notin irr \cup in_service
        /\ UNCHANGED <<pc, frame, vector, rtc_counter, apic_timer_done, pie>>
        /\ UNCHANGED <<lvt, counting>> /\ pf' = TRUE
    BY <1>1 DEF RtcPeriod, cpu, code, apic
  <2>2. ~RtcPending
    BY <2>1
  <2>3. irr' = IF pie THEN irr \cup {RTC_TIMER_IV} ELSE irr
    BY <1>1, <2>2 DEF RtcPeriod
  <2>4. elapsed' = IF lvt = "oneshot" /\ counting THEN elapsed + 1 ELSE elapsed
    BY <1>1 DEF RtcPeriod
  <2>5. pie => RtcPending' /\ Periods' = Periods + 1
    BY <2>1, <2>2, <2>3
  <2>6. RtcAsks'
    BY <2>1, <2>2, <2>5
  <2>7. NothingCounted'
    BY <2>1, <2>4
  <2>8. ASSUME pc \in {"sti", "wait"}, apic_timer_done = FALSE
        PROVE  IF counting THEN Periods' \in elapsed' .. (elapsed' + 1) ELSE RunDown'
    <3>1. pie /\ Periods' = Periods + 1
      BY <2>5, <2>8
    <3>2. CASE counting
      <4>1. elapsed' = elapsed + 1
        BY <2>4, <2>8, <3>2
      <4> QED BY <2>8, <3>1, <3>2, <4>1
    <3>3. CASE ~counting
      <4>1. elapsed' = elapsed /\ pc # "sti"
        BY <2>1, <2>2, <2>4, <2>8, <3>3
      <4> QED BY <2>1, <2>3, <2>8, <3>1, <3>3, <4>1
    <3> QED BY <3>2, <3>3
  <2>9. UNCHANGED <<pc, rtc_counter, counting, lvt, apic_timer_done, pie>>
    BY <2>1
  <2>10. PeriodsNoticed'
    BY ONLY <2>8, <2>9 DEF PeriodsNoticed
  <2>11. elapsed' \in Nat
    BY <2>4
  <2>12. ran' \in BOOLEAN /\ pf' \in BOOLEAN
    BY ONLY <2>1
  <2> HIDE DEF NothingCounted, RtcAsks, PeriodsNoticed
  <2> QED BY <2>6, <2>7, <2>9, <2>10, <2>11, <2>12
<1>2. CASE ApicTimerExpires
  BY <1>2 DEF ApicTimerExpires, cpu, table, code, rtc, apic, aux
<1>3. CASE Lint0
  BY <1>3 DEF Lint0, cpu, table, code, rtc, apic, aux
<1> QED BY <1>1, <1>2, <1>3

(* The frequency is set once, from the count the invariant bounds; then no *)
(* period counts any more.                                                 *)
LEMMA FrequencyStep ==
  ASSUME IInv, Measuring, FrequencyIsMeasured, [Next]_vars
  PROVE  FrequencyIsMeasured'
<1>1. CASE temp_intr_routine_apic_timer
  <2>1. /\ Serving(APIC_TIMER_IV) /\ subscribers[APIC_TIMER_IV] = "temp_intr_routine_apic_timer"
        /\ elapsed' = elapsed
    <3>1. /\ frame = "handler" /\ subscribers[vector] = "temp_intr_routine_apic_timer"
          /\ vector \in Vectors /\ elapsed' = elapsed
      BY <1>1 DEF temp_intr_routine_apic_timer, Calls, aux, IInv, InterruptFlag
    <3>2. vector = APIC_TIMER_IV
      BY <3>1, CalibrationAssumption DEF IInv, Table, Vectors, Subscribers
    <3> QED BY <3>1, <3>2 DEF Serving
  <2>2. pc = "wait" /\ apic_timer_done = FALSE /\ ~counting
    <3>1. pc # "kernel"
      BY <2>1 DEF IInv, Table
    <3>2. ApicActive /\ ~counting
      BY <2>1, <3>1 DEF IInv, ApicPhase, ApicActive
    <3>3. pc \in {"sti", "wait"} /\ apic_timer_done = FALSE
      BY <3>1, <3>2 DEF IInv, ApicPhase
    <3>4. pc # "sti"
      BY <2>1 DEF IInv, InterruptFlag, Setup, Serving
    <3> QED BY <3>2, <3>3, <3>4
  <2>3. RunDown /\ rtc_counter \in Nat /\ elapsed \in Nat
    BY <2>2 DEF Measuring, PeriodsNoticed
  <2>4. rtc_counter \in elapsed .. (elapsed + 2) /\ rtc_counter # 0
    BY <2>1, <2>3 DEF RunDown, Periods
  <2>5. base_frequency' = (CALIBRATION_CONST \div rtc_counter) * RTC_FREQUENCY
    BY <1>1, <2>4 DEF temp_intr_routine_apic_timer
  <2> QED BY <2>1, <2>4, <2>5 DEF FrequencyIsMeasured
<1>2. CASE ~temp_intr_routine_apic_timer
  <2>1. CASE ClearCounters
    BY <2>1 DEF ClearCounters, FrequencyIsMeasured
  <2>2. CASE ~ClearCounters
    <3>1. base_frequency' = base_frequency /\ apic_timer_done' = apic_timer_done
      BY <1>2, <2>2
      DEF Next, vars, timer_init, Handler, code, aux, RtcPeriod, ApicTimerExpires,
          Lint0, Accept, temp_intr_routine_rtc_tick, timer_update, CallFallback,
          IntrDone, cpu_disable_interrupt, SetOneShot, SubscribeApic, SubscribeRtc,
          rtc_enable_timer, StartCalibration, cpu_enable_interrupt, Spin, SetInterval,
          UnsubscribeApic, UnsubscribeRtc, SetPeriodic, SubscribeUpdate, StartTicks,
          RestOfKernel
    <3>2. apic_timer_done = TRUE => elapsed' = elapsed
      <4>1. CASE RtcPeriod
        <5>1. apic_timer_done = TRUE => ~(lvt = "oneshot" /\ counting)
          <6>1. counting /\ apic_timer_done = TRUE => pc = "kernel"
            BY DEF IInv, ApicPhase, ApicActive
          <6> QED BY <6>1 DEF Measuring
        <5> QED BY <4>1, <5>1 DEF RtcPeriod
      <4>2. CASE ~RtcPeriod
        BY <1>2, <4>2
        DEF Next, vars, timer_init, Handler, aux, ApicTimerExpires, Calls, At,
            Lint0, Accept, temp_intr_routine_rtc_tick, timer_update, CallFallback,
            IntrDone, cpu_disable_interrupt, SetOneShot, SubscribeApic, SubscribeRtc,
            rtc_enable_timer, StartCalibration, cpu_enable_interrupt, Spin, SetInterval,
            UnsubscribeApic, UnsubscribeRtc, SetPeriodic, SubscribeUpdate, StartTicks,
            RestOfKernel, ClearCounters
      <4> QED BY <4>1, <4>2
    <3>3. apic_timer_done \in BOOLEAN
      BY DEF IInv, RtcPhase
    <3> QED BY <3>1, <3>2, <3>3 DEF FrequencyIsMeasured
  <2> QED BY <2>1, <2>2
<1> QED BY <1>1, <1>2

(* The invariants of the measurement hold.                                 *)
LEMMA SpecMeasures == Spec => [](IInv /\ Measuring /\ FrequencyIsMeasured)
<1>1. Init => IInv /\ Measuring /\ FrequencyIsMeasured
  BY InitIInv, InitMeasures DEF Init, FrequencyIsMeasured
<1>2. ASSUME IInv, Measuring, FrequencyIsMeasured, [Next]_vars
      PROVE  IInv' /\ Measuring' /\ FrequencyIsMeasured'
  <2>1. IInv'
    BY <1>2, StepIInv
  <2>2. ASSUME UNCHANGED vars PROVE Measuring'
    <3>1. /\ UNCHANGED <<pc, frame, vector, rtc_counter, apic_timer_done, lvt>>
          /\ UNCHANGED <<counting, pie, pf, irr, elapsed, ran>>
      BY <2>2 DEF vars, cpu, code, rtc, apic, lapic, aux
    <3>2. NothingCounted' /\ RtcAsks'
      BY <1>2, <3>1 DEF Measuring, NothingCounted, RtcAsks, RtcPending, Serving
    <3>3. PeriodsNoticed'
      BY <1>2, <3>1 DEF Measuring, PeriodsNoticed, RunDown, Periods, RtcPending, Serving
    <3> QED BY <1>2, <3>1, <3>2, <3>3 DEF Measuring
  <2>3. Measuring'
    BY <1>2, <2>2, MainMeasures, HandlerMeasures, DeviceMeasures DEF Next
  <2> QED BY <1>2, <2>1, <2>3, FrequencyStep
<1> QED BY <1>1, <1>2, PTL DEF Spec

(* The frequency computed is that of the bus, whatever its speed: the      *)
(* periods counted are those of the count-down and at most two more        *)
(* (timer.c:92-95, 183).                                                   *)
THEOREM MeasuredFrequency == Spec => []FrequencyIsMeasured
  BY SpecMeasures, PTL

(* temp_intr_routine_apic_timer never divides by zero (timer.c:183).       *)
THEOREM PeriodsWereCounted ==
  Spec => [](Serving(APIC_TIMER_IV)
             /\ subscribers[APIC_TIMER_IV] = "temp_intr_routine_apic_timer"
               => rtc_counter > 0)
<1>1. IInv /\ Measuring =>
        (Serving(APIC_TIMER_IV)
         /\ subscribers[APIC_TIMER_IV] = "temp_intr_routine_apic_timer"
           => rtc_counter > 0)
  <2> SUFFICES ASSUME IInv, Measuring, Serving(APIC_TIMER_IV),
                      subscribers[APIC_TIMER_IV] = "temp_intr_routine_apic_timer"
               PROVE  rtc_counter > 0
    OBVIOUS
  <2>1. pc # "kernel"
    BY DEF IInv, Table
  <2>2. pc \in {"sti", "wait"} /\ apic_timer_done = FALSE /\ ~counting
    BY <2>1 DEF IInv, ApicPhase, ApicActive
  <2> QED BY <2>2 DEF Measuring, PeriodsNoticed, RunDown
<1> QED BY <1>1, SpecMeasures, PTL
=============================================================================
