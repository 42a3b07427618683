------------------------------ MODULE BareMetal ------------------------------
(***************************************************************************)
(* The bare-metal template: a main loop that drains the receive ring and   *)
(* polls the expiry flags of two one-shot timers, interrupted at any point *)
(* by the UART and by the timers.  What the library does in a call is      *)
(* abstracted to the timers it starts and stops, any of them and in any    *)
(* order (t1_start, t1_stop, t2_start, t2_stop of hdlc_private.h, which    *)
(* call the template's functions of the same names); the ring to the       *)
(* number of octets in it (UartPath has the ring itself).                  *)
(***************************************************************************)
EXTENDS Naturals

CONSTANTS
  RingRoom,   \* octets the ring holds: RX_RING_SIZE - 1
  MaxBurst    \* octets the line delivers in one round of the loop, at most

ASSUME BareMetalAssumption == RingRoom \in Nat \ {0} /\ MaxBurst \in Nat

Timer == {1, 2}

VARIABLES
  armed,     \* the hardware timers that run
  expired,   \* t1_expired_flag, t2_expired_flag
  active,    \* the timers the library believes to run: T1_ACTIVE, T2_ACTIVE
  at,        \* where the main loop is
  op,        \* what it is doing there
  waiting,   \* octets in the ring
  burst,     \* octets received in this round
  raced      \* history: timers that ran out while being started or stopped

timers == <<armed, expired, active, raced>>
line   == <<waiting, burst>>
vars   == <<timers, at, op, line>>

\* Main-loop positions in the order of a round.
Place == {"drain", "t1", "t2", "app"}
After == [drain |-> "drain", t1 |-> "t2", t2 |-> "app", app |-> "drain"]
Turn  == [t1 |-> 1, t2 |-> 2]

\* Between library calls; with an expiry flag found set; in a call; in the
\* middle of starting or stopping a timer.
Op == [do : {"poll", "taken", "call"}] \cup [do : {"start", "stop"}, timer : Timer]

Polling == [do |-> "poll"]
InCall  == [do |-> "call"]

Changing(t) == op.do \in {"start", "stop"} /\ op.timer = t

\* main has initialised the library and calls atc_hdlc_link_setup.
Init == /\ armed = {} /\ expired = {} /\ active = {} /\ raced = {}
        /\ at = "app" /\ op = InCall
        /\ waiting = 0 /\ burst = 0

--------------------------------------------------------------------------
(* The main loop.                                                          *)

\* rx_drain: an octet to atc_hdlc_data_in, or none is left.
DataIn == /\ at = "drain" /\ op = Polling /\ waiting > 0
          /\ waiting' = waiting - 1 /\ op' = InCall
          /\ UNCHANGED <<timers, at, burst>>

Drained == /\ at = "drain" /\ op = Polling /\ waiting = 0
           /\ at' = "t1"
           /\ UNCHANGED <<timers, op, line>>

\* The test of an expiry flag ...
TestFlag(t) ==
  /\ at \in {"t1", "t2"} /\ op = Polling /\ Turn[at] = t
  /\ IF t \in expired
     THEN op' = [do |-> "taken"] /\ UNCHANGED at
     ELSE at' = After[at] /\ UNCHANGED op
  /\ UNCHANGED <<timers, line>>

\* Mutant of HandleExpiry: the flag is not cleared.
HandleExpiryKeeps(t) ==
  /\ op.do = "taken" /\ Turn[at] = t
  /\ active' = active \ {t} /\ op' = InCall
  /\ UNCHANGED <<armed, expired, raced, at, line>>

\* Mutant of HandleExpiry: the library goes on believing that the timer runs.
HandleExpiryActive(t) ==
  /\ op.do = "taken" /\ Turn[at] = t
  /\ expired' = expired \ {t} /\ op' = InCall
  /\ UNCHANGED <<armed, active, raced, at, line>>

\* ... then it is cleared and t1_expired or t2_expired called, which clears
\* the active flag first.
HandleExpiry(t) ==
  /\ op.do = "taken" /\ Turn[at] = t
  /\ expired' = expired \ {t} /\ active' = active \ {t} /\ op' = InCall
  /\ UNCHANGED <<armed, raced, at, line>>

\* The application's turn: transmit_i, or nothing.
AppCall == at = "app" /\ op = Polling /\ op' = InCall /\ UNCHANGED <<timers, at, line>>

NoAppCall == /\ at = "app" /\ op = Polling
             /\ at' = "drain" /\ burst' = 0
             /\ UNCHANGED <<timers, op, waiting>>

\* The library call returns to the loop.
Return == /\ op = InCall /\ op' = Polling
          /\ at' = After[at]
          /\ burst' = IF at = "app" THEN 0 ELSE burst
          /\ UNCHANGED <<timers, waiting>>

--------------------------------------------------------------------------
(* The library starts and stops timers: the template clears the expiry     *)
(* flag first and turns to the hardware then.                              *)

StartTimer(t) ==
  /\ op = InCall /\ op' = [do |-> "start", timer |-> t]
  /\ expired' = expired \ {t} /\ raced' = raced \ {t}
  /\ UNCHANGED <<armed, active, at, line>>

\* Mutant of FinishStart: a timer believed to run already is not armed again.
FinishStartOnce(t) ==
  /\ op = [do |-> "start", timer |-> t] /\ op' = InCall
  /\ armed' = IF t \in active THEN armed ELSE armed \cup {t}
  /\ active' = active \cup {t}
  /\ UNCHANGED <<expired, raced, at, line>>

FinishStart(t) ==
  /\ op = [do |-> "start", timer |-> t] /\ op' = InCall
  /\ armed' = armed \cup {t} /\ active' = active \cup {t}
  /\ UNCHANGED <<expired, raced, at, line>>

\* Mutant of StopTimer: the expiry flag stays as it is.
StopTimerKeeps(t) ==
  /\ op = InCall /\ t \in active /\ op' = [do |-> "stop", timer |-> t]
  /\ raced' = raced \ {t}
  /\ UNCHANGED <<armed, expired, active, at, line>>

\* Only a timer believed to run is stopped.
StopTimer(t) ==
  /\ op = InCall /\ t \in active /\ op' = [do |-> "stop", timer |-> t]
  /\ expired' = expired \ {t} /\ raced' = raced \ {t}
  /\ UNCHANGED <<armed, active, at, line>>

FinishStop(t) ==
  /\ op = [do |-> "stop", timer |-> t] /\ op' = InCall
  /\ armed' = armed \ {t} /\ active' = active \ {t}
  /\ UNCHANGED <<expired, raced, at, line>>

--------------------------------------------------------------------------
(* The interrupts.                                                         *)

\* Mutant of uart_rx_isr: the octet is stored whether or not there is room.
uart_rx_isr_unchecked == /\ burst < MaxBurst /\ burst' = burst + 1
                         /\ waiting' = waiting + 1
                         /\ UNCHANGED <<timers, at, op>>

uart_rx_isr == /\ burst < MaxBurst /\ burst' = burst + 1
               /\ waiting' = IF waiting < RingRoom THEN waiting + 1 ELSE waiting
               /\ UNCHANGED <<timers, at, op>>

timer_isr(t) == /\ t \in armed
                /\ armed' = armed \ {t} /\ expired' = expired \cup {t}
                /\ raced' = IF Changing(t) THEN raced \cup {t} ELSE raced
                /\ UNCHANGED <<active, at, op, line>>

--------------------------------------------------------------------------

Loop == \/ DataIn \/ Drained \/ AppCall \/ NoAppCall \/ Return
        \/ \E t \in Timer : \/ TestFlag(t) \/ HandleExpiry(t)
                            \/ StartTimer(t) \/ FinishStart(t)
                            \/ StopTimer(t) \/ FinishStop(t)

Next == Loop \/ uart_rx_isr \/ \E t \in Timer : timer_isr(t)

Spec == Init /\ [][Next]_vars

\* The processor goes on, a library call starts and stops timers only finitely
\* often before it returns, and a hardware timer that runs runs out.
Fairness == /\ WF_vars(DataIn) /\ WF_vars(Drained) /\ WF_vars(AppCall \/ NoAppCall)
            /\ SF_vars(Return)
            /\ \A t \in Timer : /\ WF_vars(TestFlag(t)) /\ WF_vars(HandleExpiry(t))
                               /\ WF_vars(FinishStart(t)) /\ WF_vars(FinishStop(t))
                               /\ WF_vars(timer_isr(t))

FairSpec == Spec /\ Fairness

--------------------------------------------------------------------------

\* Timers, flags and the loop keep their shape.
TypeOK == /\ armed \subseteq Timer /\ expired \subseteq Timer
          /\ active \subseteq Timer /\ raced \subseteq Timer
          /\ at \in Place /\ op \in Op
          /\ waiting \in 0 .. RingRoom /\ burst \in 0 .. MaxBurst

\* A timer the library believes to run has not been lost between the interrupt
\* and the loop: the hardware runs it, or its expiry is still to be taken
\* (t1_start, t1_timer_isr and the loop's test and clear of the flag).
ActiveIsTimed == \A t \in active : Changing(t) \/ t \in armed \/ t \in expired

\* A timer the library has stopped reports an expiry only if it ran out in the
\* middle of being stopped, after its flag was cleared and before the hardware
\* was disarmed (t1_stop).
StoppedIsSilent == \A t \in expired : Changing(t) \/ t \in active \/ t \in raced

\* An expiry is taken by the loop sooner or later, through any traffic and any
\* restarts of the other timer (rx_drain comes to an end, the tests of main).
ExpiryTaken == \A t \in Timer : t \in expired ~> t \notin expired

\* Nor does a timer the library waits for hang: it is handled, restarted or
\* stopped (the expiry that UnackedWatched and SetupWatched count on).
NoTimerHangs == \A t \in Timer : t \in active ~> t \notin active \/ Changing(t)

==========================================================================
