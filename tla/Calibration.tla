---------------------------- MODULE Calibration ----------------------------
(***************************************************************************)
(* How timer_init (kernel/timer.c) measures the bus frequency, with the    *)
(* interrupt dispatch of kernel/asm/x86/interrupts.c and the periodic      *)
(* interrupt of hal/rtc.c: main code, two devices and the handlers they    *)
(* cause.                                                                  *)
(*                                                                         *)
(* The APIC timer is started with CALIBRATION_CONST; while it counts down, *)
(* a handler counts RTC periods; its interrupt computes the frequency and  *)
(* releases the main code, which sets up the periodic timer.               *)
(*                                                                         *)
(* Devices: the RTC raises IRQ 8 when its periodic flag meets the enable   *)
(* bit, and again only after register C was read; interrupts wait in irr   *)
(* and are in service (in_service) until the write to EOI.  The processor  *)
(* takes a pending interrupt before its next instruction when interrupts   *)
(* are on.  Handlers run with interrupts off (interrupt gates).            *)
(***************************************************************************)
EXTENDS Integers

CONSTANTS
  NULL,
  CALIBRATION_CONST,   \* APIC_CALIBRATION_CONST
  RTC_FREQUENCY,       \* RTC_TIMER_BASE_FREQUENCY
  FREQUENCY,           \* the argument of timer_init
  MinPeriods,          \* RTC periods the count-down lasts, at least
  MaxPeriods,          \* ... and at most (bound: a slowest bus)
  MaxStray             \* interrupts on LINT0, from the 8259 (bound)

EX_INTERRUPT_BEGIN == 200
APIC_LINT0_IV == 201
APIC_TIMER_IV == 202
APIC_SPIV_IV == 203
RTC_TIMER_IV == 210
Vectors == {APIC_LINT0_IV, APIC_TIMER_IV, RTC_TIMER_IV}
Subscribers == {"temp_intr_routine_apic_timer", "temp_intr_routine_rtc_tick",
                "timer_update"}

(* A bus on which the timer lasts a period and the quotients are not 0.    *)
ASSUME CalibrationAssumption ==
  /\ NULL \notin Subscribers
  /\ MinPeriods \in Nat \ {0} /\ MaxPeriods \in Nat /\ MaxStray \in Nat
  /\ RTC_FREQUENCY \in Nat \ {0} /\ FREQUENCY \in Nat \ {0}
  /\ CALIBRATION_CONST \in Nat
  /\ (CALIBRATION_CONST \div (MaxPeriods + 2)) * RTC_FREQUENCY >= FREQUENCY

VARIABLES
  pc,                \* where timer_init is
  iflag,             \* the interrupt flag of the processor
  frame,             \* "main", "handler", "done" (before EOI) or "stopped"
  vector,            \* param->vector of the handler that runs
  subscribers,       \* interrupts.c
  fallback,
  base_frequency,    \* timer.c
  rtc_counter,
  apic_timer_done,
  tick_interval,
  lvt,               \* mode of the APIC timer
  counting,          \* the APIC timer counts down
  pie, pf,           \* RTC: periodic interrupt enabled (B), flag (C)
  irr, in_service,   \* local APIC
  elapsed,           \* history: RTC periods while the APIC timer counted
  ran,               \* main code has run since the last RTC period
  strays             \* interrupts on LINT0 so far

code == <<base_frequency, rtc_counter, apic_timer_done, tick_interval>>
table == <<subscribers, fallback>>
cpu == <<iflag, frame, vector>>
rtc == <<pie, pf>>
apic == <<lvt, counting>>
lapic == <<irr, in_service>>
aux == <<elapsed, ran, strays>>
vars == <<pc, cpu, table, code, rtc, apic, lapic, aux>>

(* timer_init is called after rtc_init; the flag of the RTC may be left    *)
(* over, since nobody reads register C.                                    *)
Init ==
  /\ pc = "cli" /\ iflag \in BOOLEAN /\ frame = "main" /\ vector = NULL
  /\ subscribers = [v \in Vectors |-> NULL]
  /\ fallback = "intr_set_fallback_handler"
  /\ base_frequency = 0 /\ rtc_counter = 0 /\ apic_timer_done = FALSE
  /\ tick_interval = 0
  /\ lvt = "masked" /\ counting = FALSE
  /\ pie = FALSE /\ pf \in BOOLEAN
  /\ irr = {} /\ in_service = {}
  /\ elapsed = 0 /\ ran = TRUE /\ strays = 0

-----------------------------------------------------------------------------
(* The main code: one step per statement of timer_init.                    *)

Class(v) == v \div 16

(* What the local APIC offers: a pending vector of the highest priority,   *)
(* in a class above everything in service.                                 *)
Deliverable(v) ==
  /\ v \in irr
  /\ \A w \in irr : w <= v
  /\ \A w \in in_service : Class(v) > Class(w)

MainRuns == frame = "main" /\ ~(iflag /\ \E v \in Vectors : Deliverable(v))

At(here, there) ==
  /\ MainRuns
  /\ pc = here /\ pc' = there
  /\ ran' = TRUE
  /\ UNCHANGED <<frame, vector, fallback, elapsed, strays, in_service>>

cpu_disable_interrupt ==
  /\ At("cli", "oneshot")
  /\ iflag' = FALSE
  /\ UNCHANGED <<subscribers, code, rtc, apic, irr>>

SetOneShot ==
  /\ At("oneshot", "clear")
  /\ lvt' = "oneshot"
  /\ UNCHANGED <<iflag, subscribers, code, rtc, counting, irr>>

ClearCounters ==
  /\ At("clear", "sub_apic")
  /\ base_frequency' = 0 /\ rtc_counter' = 0 /\ apic_timer_done' = FALSE
  /\ UNCHANGED <<iflag, subscribers, tick_interval, rtc, apic, irr>>

intr_subscribe(v, subscriber) ==
  subscribers' = [subscribers EXCEPT ![v] = subscriber]

intr_unsubscribe(v, subscriber) ==
  IF subscribers[v] = subscriber THEN intr_subscribe(v, NULL)
                                 ELSE UNCHANGED subscribers

SubscribeApic ==
  /\ At("sub_apic", "sub_rtc")
  /\ intr_subscribe(APIC_TIMER_IV, "temp_intr_routine_apic_timer")
  /\ UNCHANGED <<iflag, code, rtc, apic, irr>>

SubscribeRtc ==
  /\ At("sub_rtc", "rtc_on")
  /\ intr_subscribe(RTC_TIMER_IV, "temp_intr_routine_rtc_tick")
  /\ UNCHANGED <<iflag, code, rtc, apic, irr>>

rtc_enable_timer ==
  /\ At("rtc_on", "start")
  /\ pie' = TRUE
  /\ irr' = IF pf THEN irr \cup {RTC_TIMER_IV} ELSE irr
  /\ UNCHANGED <<iflag, subscribers, code, pf, apic>>

StartCalibration ==
  /\ At("start", "sti")
  /\ counting' = TRUE
  /\ UNCHANGED <<iflag, subscribers, code, rtc, lvt, irr>>

cpu_enable_interrupt ==
  /\ At("sti", "wait")
  /\ iflag' = TRUE
  /\ UNCHANGED <<subscribers, code, rtc, apic, irr>>

Spin ==                                      \* wait_until(apic_timer_done)
  /\ At("wait", IF apic_timer_done THEN "interval" ELSE "wait")
  /\ UNCHANGED <<iflag, subscribers, code, rtc, apic, irr>>

(* Seeded fault: the frequencies are divided the other way round.          *)
SetInterval_Inverse ==
  /\ At("interval", "unsub_apic")
  /\ tick_interval' = FREQUENCY \div base_frequency
  /\ UNCHANGED <<iflag, subscribers, base_frequency, rtc_counter,
                 apic_timer_done, rtc, apic, irr>>

SetInterval ==
  /\ At("interval", "unsub_apic")
  /\ tick_interval' = base_frequency \div FREQUENCY
  /\ UNCHANGED <<iflag, subscribers, base_frequency, rtc_counter,
                 apic_timer_done, rtc, apic, irr>>

UnsubscribeApic ==
  /\ At("unsub_apic", "unsub_rtc")
  /\ intr_unsubscribe(APIC_TIMER_IV, "temp_intr_routine_apic_timer")
  /\ UNCHANGED <<iflag, code, rtc, apic, irr>>

UnsubscribeRtc ==
  /\ At("unsub_rtc", "periodic")
  /\ intr_unsubscribe(RTC_TIMER_IV, "temp_intr_routine_rtc_tick")
  /\ UNCHANGED <<iflag, code, rtc, apic, irr>>

(* Seeded fault: the timer starts before its handler is there.             *)
SetPeriodic_Starts ==
  /\ At("periodic", "sub_update")
  /\ lvt' = "periodic" /\ counting' = TRUE
  /\ UNCHANGED <<iflag, subscribers, code, rtc, irr>>

(* A timer that has run down stays stopped until its count is written.     *)
SetPeriodic ==
  /\ At("periodic", "sub_update")
  /\ lvt' = "periodic"
  /\ UNCHANGED <<iflag, subscribers, code, rtc, counting, irr>>

SubscribeUpdate ==
  /\ At("sub_update", "restart")
  /\ intr_subscribe(APIC_TIMER_IV, "timer_update")
  /\ UNCHANGED <<iflag, code, rtc, apic, irr>>

StartTicks ==
  /\ At("restart", "kernel")
  /\ counting' = (tick_interval # 0)
  /\ UNCHANGED <<iflag, subscribers, code, rtc, lvt, irr>>

RestOfKernel ==
  /\ At("kernel", "kernel")
  /\ UNCHANGED <<iflag, subscribers, code, rtc, apic, irr>>

timer_init ==
  \/ cpu_disable_interrupt \/ SetOneShot \/ ClearCounters \/ SubscribeApic
  \/ SubscribeRtc \/ rtc_enable_timer \/ StartCalibration
  \/ cpu_enable_interrupt \/ Spin \/ SetInterval \/ UnsubscribeApic
  \/ UnsubscribeRtc \/ SetPeriodic \/ SubscribeUpdate \/ StartTicks
  \/ RestOfKernel

-----------------------------------------------------------------------------
(* Interrupts: acceptance, intr_handler, the subscribers, the end.         *)

Accept(v) ==
  /\ frame = "main" /\ iflag /\ Deliverable(v)
  /\ frame' = "handler" /\ vector' = v /\ iflag' = FALSE
  /\ irr' = irr \ {v}
  /\ in_service' = in_service \cup {v}
  /\ UNCHANGED <<pc, table, code, rtc, apic, aux>>

Calls(subscriber) ==
  /\ frame = "handler" /\ subscribers[vector] = subscriber
  /\ UNCHANGED <<pc, iflag, vector, subscribers, tick_interval, apic, lapic,
                 aux>>

(* Seeded fault: register C is not read.                                   *)
temp_intr_routine_rtc_tick_NoRead ==
  /\ Calls("temp_intr_routine_rtc_tick")
  /\ rtc_counter' = rtc_counter + 1
  /\ frame' = "done"
  /\ UNCHANGED <<fallback, base_frequency, apic_timer_done, rtc>>

temp_intr_routine_rtc_tick ==
  /\ Calls("temp_intr_routine_rtc_tick")
  /\ rtc_counter' = rtc_counter + 1
  /\ pf' = FALSE                             \* the read of register C
  /\ frame' = "done"
  /\ UNCHANGED <<fallback, base_frequency, apic_timer_done, pie>>

(* Without a period counted the division faults, and the kernel stops      *)
(* (intr_routine_divide_zero).                                             *)
temp_intr_routine_apic_timer ==
  /\ Calls("temp_intr_routine_apic_timer")
  /\ IF rtc_counter = 0
     THEN /\ frame' = "stopped"
          /\ UNCHANGED <<base_frequency, apic_timer_done, pie>>
     ELSE /\ base_frequency' =
               (CALIBRATION_CONST \div rtc_counter) * RTC_FREQUENCY
          /\ apic_timer_done' = TRUE
          /\ pie' = FALSE                    \* rtc_disable_timer
          /\ frame' = "done"
  /\ UNCHANGED <<fallback, rtc_counter, pf>>

(* The walk over the timers is module Timer's.                             *)
timer_update ==
  /\ Calls("timer_update")
  /\ frame' = "done"
  /\ UNCHANGED <<fallback, base_frequency, rtc_counter, apic_timer_done, rtc>>

(* No subscriber: intr_routine_init has made intr_set_fallback_handler the *)
(* fallback handler, so a first unknown interrupt makes its own param the  *)
(* fallback handler, and a second one jumps there.                         *)
CallFallback ==
  /\ Calls(NULL)
  /\ IF fallback = "intr_set_fallback_handler"
     THEN fallback' = "param" /\ frame' = "done"
     ELSE fallback' = fallback /\ frame' = "stopped"
  /\ UNCHANGED <<base_frequency, rtc_counter, apic_timer_done, rtc>>

(* Seeded fault: no end of interrupt.                                      *)
IntrDone_NoEoi ==
  /\ frame = "done"
  /\ frame' = "main" /\ vector' = NULL /\ iflag' = TRUE
  /\ UNCHANGED <<pc, table, code, rtc, apic, lapic, aux>>

(* EOI, but not for exceptions and spurious interrupts, and iret.          *)
IntrDone ==
  /\ frame = "done"
  /\ in_service' = IF vector >= EX_INTERRUPT_BEGIN /\ vector # APIC_SPIV_IV
                   THEN in_service \ {vector} ELSE in_service
  /\ frame' = "main" /\ vector' = NULL /\ iflag' = TRUE
  /\ UNCHANGED <<pc, table, code, rtc, apic, irr, aux>>

Handler ==
  \/ \E v \in Vectors : Accept(v)
  \/ temp_intr_routine_rtc_tick \/ temp_intr_routine_apic_timer
  \/ timer_update \/ CallFallback \/ IntrDone

-----------------------------------------------------------------------------
(* Devices.                                                                *)

(* A period of the RTC ends.  Periods are long: the interrupt of the one   *)
(* before has been handled, and main code has run since.                   *)
RtcPeriod ==
  /\ ran /\ RTC_TIMER_IV \notin irr \cup in_service
  /\ lvt = "oneshot" /\ counting => elapsed < MaxPeriods
  /\ pf' = TRUE
  /\ irr' = IF pie /\ ~pf THEN irr \cup {RTC_TIMER_IV} ELSE irr
  /\ elapsed' = IF lvt = "oneshot" /\ counting THEN elapsed + 1 ELSE elapsed
  /\ ran' = FALSE
  /\ UNCHANGED <<pc, cpu, table, code, pie, apic, in_service, strays>>

ApicTimerExpires ==
  /\ counting
  /\ lvt = "oneshot" => elapsed >= MinPeriods
  /\ counting' = (lvt = "periodic")
  /\ irr' = irr \cup {APIC_TIMER_IV}
  /\ UNCHANGED <<pc, cpu, table, code, rtc, lvt, in_service, aux>>

(* The 8259, disabled, may still raise a spurious interrupt.               *)
Lint0 ==
  /\ strays < MaxStray
  /\ strays' = strays + 1
  /\ irr' = irr \cup {APIC_LINT0_IV}
  /\ UNCHANGED <<pc, cpu, table, code, rtc, apic, in_service, elapsed, ran>>

Next == timer_init \/ Handler \/ RtcPeriod \/ ApicTimerExpires \/ Lint0

(* The processor runs, and the two clocks go on.                           *)
Spec ==
  /\ Init /\ [][Next]_vars
  /\ WF_vars(timer_init) /\ WF_vars(Handler)
  /\ WF_vars(RtcPeriod) /\ WF_vars(ApicTimerExpires)

-----------------------------------------------------------------------------
(* No timer interrupt and no RTC interrupt comes while its vector has no   *)
(* subscriber: not before the handlers are there (timer.c:102), not        *)
(* between the two handlers of the APIC timer (123-128), and none of the   *)
(* RTC after its handler is gone (124).                                    *)
NoUnknownInterrupt ==
  frame = "handler" /\ vector # APIC_LINT0_IV => subscribers[vector] # NULL

(* The end of interrupt is sent once for each interrupt taken              *)
(* (interrupts.c:50-55): in main code nothing is in service, in a handler  *)
(* exactly its own vector.                                                 *)
AcknowledgedOnce ==
  in_service = IF frame = "main" THEN {} ELSE {vector}

(* The frequency is the one of the bus: the periods counted (timer.c:183)  *)
(* are those the count-down took, give or take the one that was left over  *)
(* and the one that was under way (timer.c:92-95).                         *)
FrequencyIsMeasured ==
  apic_timer_done =>
    \E k \in elapsed .. (elapsed + 2) :
      base_frequency = (CALIBRATION_CONST \div k) * RTC_FREQUENCY

(* timer_init gets past its wait (timer.c:111) and the timer it starts     *)
(* ticks for ever: no division by zero, no interval of 0, no interrupt     *)
(* left in service that blocks the others.                                 *)
TicksKeepComing == []<>(frame = "done" /\ subscribers[vector] = "timer_update")
=============================================================================
