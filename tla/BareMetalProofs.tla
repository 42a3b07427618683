--------------------------- MODULE BareMetalProofs ---------------------------
(***************************************************************************)
(* Theorems about the bare-metal template, for every ring and any traffic: *)
(* the library and the hardware agree about the timers.                    *)
(***************************************************************************)
EXTENDS BareMetal, TLAPS

\* Inductive strengthening of StoppedIsSilent.  While a timer is started or
\* stopped its flag, cleared at the beginning, is set only by a race; only a
\* race sets the flag of a timer that then runs again, or leaves the hardware
\* running behind the library's back; and the loop handles a flag it found set.
ClearedFirst == \A t \in expired : Changing(t) \/ t \in armed => t \in raced
ArmedIsKnown == \A t \in armed : t \in active \/ Changing(t) \/ t \in raced
TakenIsSet   == op.do = "taken" => Turn[at] \in expired

IInv == /\ TypeOK /\ ActiveIsTimed /\ StoppedIsSilent
        /\ ClearedFirst /\ ArmedIsKnown /\ TakenIsSet

LEMMA PlaceFacts ==
  ASSUME NEW place \in Place
  PROVE  /\ After[place] \in Place
         /\ place \in {"t1", "t2"} => Turn[place] \in Timer
BY DEF Place, After, Turn, Timer

\* Between the two halves of a start or a stop no other timer is changing.
LEMMA OpFacts ==
  /\ Polling \in Op /\ InCall \in Op /\ [do |-> "taken"] \in Op
  /\ \A t \in Timer : /\ [do |-> "start", timer |-> t] \in Op
                      /\ [do |-> "stop", timer |-> t] \in Op
BY DEF Op, Polling, InCall

LEMMA InitGood == Init => IInv
BY OpFacts, BareMetalAssumption
DEF Init, IInv, InCall, TypeOK, ActiveIsTimed, StoppedIsSilent, ClearedFirst, ArmedIsKnown, TakenIsSet, Place

\* Steps of the loop that leave the timers alone.
LEMMA PlainGood ==
  ASSUME IInv, UNCHANGED timers, op \in {Polling, InCall, [do |-> "taken"]},
         op' \in {Polling, InCall, [do |-> "taken"]},
         at' \in Place, waiting' \in 0 .. RingRoom, burst' \in 0 .. MaxBurst,
         TakenIsSet'
  PROVE  IInv'
<1>1. op' \in Op BY OpFacts
<1>2. \A t : ~Changing(t) /\ ~Changing(t)' BY DEF Changing, Polling, InCall
<1>3. TypeOK' BY <1>1 DEF IInv, TypeOK, timers
<1>4. ActiveIsTimed' /\ StoppedIsSilent' BY <1>2 DEF IInv, ActiveIsTimed, StoppedIsSilent, timers
<1>5. ClearedFirst' /\ ArmedIsKnown' BY <1>2 DEF IInv, ClearedFirst, ArmedIsKnown, timers
<1> QED BY <1>3, <1>4, <1>5 DEF IInv

LEMMA NextGood == IInv /\ [Next]_vars => IInv'
<1> SUFFICES ASSUME IInv, [Next]_vars PROVE IInv' OBVIOUS
<1>a. TypeOK /\ ActiveIsTimed /\ StoppedIsSilent /\ ClearedFirst /\ ArmedIsKnown /\ TakenIsSet BY DEF IInv
<1>b. at \in Place /\ waiting \in 0 .. RingRoom /\ burst \in 0 .. MaxBurst BY <1>a DEF TypeOK
<1>c. After[at] \in Place BY <1>b, PlaceFacts
<1>d. 0 \in 0 .. MaxBurst BY BareMetalAssumption
<1>1. CASE DataIn
  BY <1>1, <1>b, PlainGood, BareMetalAssumption DEF DataIn, TakenIsSet, Polling, InCall
<1>2. CASE Drained
  BY <1>2, <1>b, PlainGood DEF Drained, TakenIsSet, Polling, InCall, Place, line
<1>3. CASE AppCall
  BY <1>3, <1>b, PlainGood DEF AppCall, TakenIsSet, Polling, InCall, line
<1>4. CASE NoAppCall
  BY <1>4, <1>b, <1>d, PlainGood DEF NoAppCall, TakenIsSet, Polling, InCall, Place
<1>5. CASE Return
  BY <1>5, <1>b, <1>c, <1>d, PlainGood DEF Return, TakenIsSet, Polling, InCall
<1>6. ASSUME NEW t \in Timer, TestFlag(t) PROVE IInv'
  <2>1. CASE t \in expired
    BY <1>6, <1>b, <2>1, PlainGood DEF TestFlag, TakenIsSet, Polling, line, timers
  <2>2. CASE t \notin expired
    BY <1>6, <1>b, <1>c, <2>2, PlainGood DEF TestFlag, TakenIsSet, Polling, line
  <2> QED BY <2>1, <2>2
<1>7. ASSUME NEW t \in Timer, HandleExpiry(t) PROVE IInv'
  <2>1. op' = InCall /\ UNCHANGED <<armed, raced, at, line>>
        /\ expired' = expired \ {t} /\ active' = active \ {t}
    BY <1>7 DEF HandleExpiry
  <2>2. \A u : ~Changing(u) /\ ~Changing(u)' BY <1>7, <2>1 DEF HandleExpiry, Changing, InCall
  <2>3. TypeOK' BY <1>a, <2>1, OpFacts DEF TypeOK, line
  <2>4. ActiveIsTimed' BY <1>a, <2>1, <2>2 DEF ActiveIsTimed
  <2>a. t \in expired BY <1>7, <1>a DEF HandleExpiry, TakenIsSet
  <2>5. StoppedIsSilent' /\ ClearedFirst' /\ ArmedIsKnown'
    BY <1>a, <2>1, <2>2, <2>a DEF StoppedIsSilent, ClearedFirst, ArmedIsKnown, TypeOK
  <2>6. TakenIsSet' BY <2>1 DEF TakenIsSet, InCall
  <2> QED BY <2>3, <2>4, <2>5, <2>6 DEF IInv
<1>8. ASSUME NEW t \in Timer, StartTimer(t) PROVE IInv'
  <2>1. op = InCall /\ op' = [do |-> "start", timer |-> t] /\ UNCHANGED <<armed, active, at, line>>
        /\ expired' = expired \ {t} /\ raced' = raced \ {t}
    BY <1>8 DEF StartTimer
  <2>2. \A u : ~Changing(u) /\ (Changing(u)' <=> u = t) BY <2>1 DEF Changing, InCall
  <2>3. TypeOK' BY <1>a, <2>1, OpFacts DEF TypeOK, line
  <2>4. ActiveIsTimed' BY <1>a, <2>1, <2>2 DEF ActiveIsTimed
  <2>5. StoppedIsSilent' /\ ClearedFirst' /\ ArmedIsKnown'
    BY <1>a, <2>1, <2>2 DEF StoppedIsSilent, ClearedFirst, ArmedIsKnown, TypeOK
  <2>6. TakenIsSet' BY <2>1 DEF TakenIsSet, InCall
  <2> QED BY <2>3, <2>4, <2>5, <2>6 DEF IInv
<1>9. ASSUME NEW t \in Timer, FinishStart(t) PROVE IInv'
  <2>1. op = [do |-> "start", timer |-> t] /\ op' = InCall /\ UNCHANGED <<expired, raced, at, line>>
        /\ armed' = armed \cup {t} /\ active' = active \cup {t}
    BY <1>9 DEF FinishStart
  <2>2. \A u : (Changing(u) <=> u = t) /\ ~Changing(u)' BY <2>1 DEF Changing, InCall
  <2>3. TypeOK' BY <1>a, <2>1, OpFacts DEF TypeOK, line
  <2>4. ActiveIsTimed' BY <1>a, <2>1, <2>2 DEF ActiveIsTimed
  <2>5. StoppedIsSilent' /\ ClearedFirst' /\ ArmedIsKnown'
    BY <1>a, <2>1, <2>2 DEF StoppedIsSilent, ClearedFirst, ArmedIsKnown, TypeOK
  <2>6. TakenIsSet' BY <2>1 DEF TakenIsSet, InCall
  <2> QED BY <2>3, <2>4, <2>5, <2>6 DEF IInv
<1>10. ASSUME NEW t \in Timer, StopTimer(t) PROVE IInv'
  <2>1. op = InCall /\ op' = [do |-> "stop", timer |-> t] /\ UNCHANGED <<armed, active, at, line>>
        /\ expired' = expired \ {t} /\ raced' = raced \ {t}
    BY <1>10 DEF StopTimer
  <2>2. \A u : ~Changing(u) /\ (Changing(u)' <=> u = t) BY <2>1 DEF Changing, InCall
  <2>3. TypeOK' BY <1>a, <2>1, OpFacts DEF TypeOK, line
  <2>4. ActiveIsTimed' BY <1>a, <2>1, <2>2 DEF ActiveIsTimed
  <2>5. StoppedIsSilent' /\ ClearedFirst' /\ ArmedIsKnown'
    BY <1>a, <2>1, <2>2 DEF StoppedIsSilent, ClearedFirst, ArmedIsKnown, TypeOK
  <2>6. TakenIsSet' BY <2>1 DEF TakenIsSet, InCall
  <2> QED BY <2>3, <2>4, <2>5, <2>6 DEF IInv
<1>11. ASSUME NEW t \in Timer, FinishStop(t) PROVE IInv'
  <2>1. op = [do |-> "stop", timer |-> t] /\ op' = InCall /\ UNCHANGED <<expired, raced, at, line>>
        /\ armed' = armed \ {t} /\ active' = active \ {t}
    BY <1>11 DEF FinishStop
  <2>2. \A u : (Changing(u) <=> u = t) /\ ~Changing(u)' BY <2>1 DEF Changing, InCall
  <2>3. TypeOK' BY <1>a, <2>1, OpFacts DEF TypeOK, line
  <2>4. ActiveIsTimed' BY <1>a, <2>1, <2>2 DEF ActiveIsTimed
  <2>5. StoppedIsSilent' /\ ClearedFirst' /\ ArmedIsKnown'
    BY <1>a, <2>1, <2>2 DEF StoppedIsSilent, ClearedFirst, ArmedIsKnown, TypeOK
  <2>6. TakenIsSet' BY <2>1 DEF TakenIsSet, InCall
  <2> QED BY <2>3, <2>4, <2>5, <2>6 DEF IInv
<1>12. CASE uart_rx_isr
  <2>1. waiting' \in 0 .. RingRoom /\ burst' \in 0 .. MaxBurst
    BY <1>12, <1>b, BareMetalAssumption DEF uart_rx_isr
  <2>2. UNCHANGED <<armed, expired, active, raced, at, op>> BY <1>12 DEF uart_rx_isr, timers
  <2> QED BY <1>a, <2>1, <2>2
      DEF IInv, TypeOK, ActiveIsTimed, StoppedIsSilent, ClearedFirst, ArmedIsKnown, TakenIsSet, Changing
<1>13. ASSUME NEW t \in Timer, timer_isr(t) PROVE IInv'
  <2>1. UNCHANGED <<active, at, op, waiting, burst>> /\ armed' = armed \ {t}
        /\ expired' = expired \cup {t}
        /\ t \in armed
        /\ raced' = IF Changing(t) THEN raced \cup {t} ELSE raced
    BY <1>13 DEF timer_isr, line
  <2>2. \A u : Changing(u)' <=> Changing(u) BY <2>1 DEF Changing
  <2>3. TypeOK' BY <1>a, <2>1 DEF TypeOK
  <2>4. ActiveIsTimed' BY <1>a, <2>1, <2>2 DEF ActiveIsTimed
  <2>5. StoppedIsSilent' BY <1>a, <2>1, <2>2 DEF StoppedIsSilent, ArmedIsKnown
  <2>6. ClearedFirst' /\ ArmedIsKnown' /\ TakenIsSet'
    BY <1>a, <2>1, <2>2 DEF ClearedFirst, ArmedIsKnown, TakenIsSet
  <2> QED BY <2>3, <2>4, <2>5, <2>6 DEF IInv
<1>14. CASE UNCHANGED vars
  BY <1>14 DEF vars, timers, line, IInv, TypeOK, ActiveIsTimed, StoppedIsSilent, ClearedFirst, ArmedIsKnown, TakenIsSet, Changing
<1> QED
  BY <1>1, <1>2, <1>3, <1>4, <1>5, <1>6, <1>7, <1>8, <1>9, <1>10, <1>11, <1>12, <1>13, <1>14
  DEF Next, Loop

LEMMA Invariance == Spec => []IInv
BY InitGood, NextGood, PTL DEF Spec

--------------------------------------------------------------------------
(* The theorems.                                                          *)

\* Timers, flags, ring count and loop position keep their shape, for every
\* ring size and any traffic.
THEOREM TypeCorrect == Spec => []TypeOK
<1>1. IInv => TypeOK BY DEF IInv
<1> QED BY <1>1, Invariance, PTL

\* t1_start, t2_start, the timer interrupts and the tests of the main loop
\* lose no expiry: a timer the library counts on is armed or has its flag set.
THEOREM NoExpiryLost == Spec => []ActiveIsTimed
<1>1. IInv => ActiveIsTimed BY DEF IInv
<1> QED BY <1>1, Invariance, PTL

\* t1_stop and t2_stop leave no expiry behind but the one that strikes between
\* clearing the flag and disarming the hardware.
THEOREM SilentUnlessRaced == Spec => []StoppedIsSilent
<1>1. IInv => StoppedIsSilent BY DEF IInv
<1> QED BY <1>1, Invariance, PTL

==========================================================================
