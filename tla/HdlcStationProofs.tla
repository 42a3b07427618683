-------------------------- MODULE HdlcStationProofs --------------------------
(***************************************************************************)
(* Theorems about one station, for every window size, retry limit, buffer  *)
(* content and callback policy the assumptions of HdlcCore and HdlcStation *)
(* allow.  The inductive invariants are conjunctions of predicates on a    *)
(* context; HdlcApiProofs (windows, timers, acknowledgements) and          *)
(* HdlcFlowProofs (payloads, retransmissions, resets) have a lemma for     *)
(* each operator of the engine, and the theorems put the lemmas together   *)
(* action by action.                                                       *)
(***************************************************************************)
EXTENDS HdlcStation, HdlcFlowProofs

IInv == TypeOK /\ Good(ctx)

LEMMA CallGood ==
  ASSUME NEW c \in Ctx, Good(c), Call(c)
  PROVE  ctx' \in Ctx /\ Good(ctx)' /\ out' \in Seq(Frame) /\ told' \in BOOLEAN
<1>1. ctx' \in Ctx /\ Good(ctx') BY DrainedGood DEF Call
<1>2. out' \in Seq(Frame) /\ told' \in BOOLEAN BY CtxFields DEF Call
<1> QED BY <1>1, <1>2 DEF Good, Windowed, Unacked, Watched, Promised, Counted, Outstanding

LEMMA ApiCallGood ==
  ASSUME NEW c \in Ctx, Good(c), ApiCall(c), IInv
  PROVE  IInv'
BY CallGood DEF ApiCall, IInv, TypeOK

LEMMA InitGood == Init => IInv
<1>1. InitCtx \in Ctx /\ Good(InitCtx) BY InitCtxGood
<1>2. 0 \in 0 .. MaxChunk /\ << >> \in Seq(Frame) BY MaxChunkAssumption
<1> QED BY <1>1, <1>2 DEF Init, IInv, TypeOK

LEMMA NextGood == IInv /\ [Next]_vars => IInv'
<1> SUFFICES ASSUME IInv, [Next]_vars PROVE IInv' OBVIOUS
<1>1. ctx \in Ctx /\ Good(ctx) BY DEF IInv, TypeOK
<1>2. CASE LinkSetup
  <2>1. link_setup(ctx) \in Ctx /\ Good(link_setup(ctx))
    BY <1>1, LinkSetupKeeps DEF Good, Keeps
  <2> QED BY <1>2, <2>1, ApiCallGood DEF LinkSetup
<1>3. CASE Disconnect BY <1>1, <1>3, DisconnectGood, ApiCallGood DEF Disconnect
<1>4. CASE LinkReset BY <1>1, <1>4, LinkResetGood, ApiCallGood DEF LinkReset
<1>5. CASE SetLocalBusy BY <1>1, <1>5, LocalBusyGood, ApiCallGood DEF SetLocalBusy
<1>6. CASE TransmitI
  <2>1. transmit_i(ctx) \in Ctx /\ Good(transmit_i(ctx))
    BY <1>1, TransmitType, TransmitKeeps DEF Good, Keeps
  <2> QED BY <1>6, <2>1, ApiCallGood DEF TransmitI
<1>7. CASE TransmitUI BY <1>1, <1>7, TransmitOthersGood, ApiCallGood DEF TransmitUI
<1>8. CASE TransmitTest BY <1>1, <1>8, TransmitOthersGood, ApiCallGood DEF TransmitTest
<1>9. CASE T1Expired BY <1>1, <1>9, BeginGood, T1ExpiredGood, ApiCallGood DEF T1Expired
<1>10. CASE T2Expired BY <1>1, <1>10, T2ExpiredGood, ApiCallGood DEF T2Expired
<1>11. CASE Abort BY <1>1, <1>11, AbortGood, ApiCallGood DEF Abort
<1>12. CASE RxFrame
  <2>1. PICK f \in Frames, react \in BOOLEAN : Call(dispatch_frame(Begin(ctx, react), f))
    BY <1>12 DEF RxFrame
  <2>2. f \in Frame BY FramesAssumption
  <2>3. Begin(ctx, react) \in Ctx /\ Good(Begin(ctx, react)) BY <1>1, BeginGood
  <2>4. ctx' \in Ctx /\ Good(ctx)' /\ out' \in Seq(Frame) /\ told' \in BOOLEAN
    BY <2>1, <2>2, <2>3, DispatchGood, CallGood
  <2>5. chunk' \in 0 .. MaxChunk
    BY <1>12, MaxChunkAssumption DEF RxFrame, IInv, TypeOK
  <2> QED BY <2>4, <2>5 DEF IInv, TypeOK
<1>13. CASE EndDataIn
  <2> DEFINE r == IF ctx.RETRANSMIT_PENDING THEN retransmit_outstanding(ctx) ELSE ctx
  <2>1. r \in Ctx /\ Good(r) BY <1>1, RetransmitGood
  <2>2. Call(r) /\ chunk' = 0 BY <1>13 DEF EndDataIn
  <2> HIDE DEF r
  <2>3. ctx' \in Ctx /\ Good(ctx)' /\ out' \in Seq(Frame) /\ told' \in BOOLEAN BY <2>1, <2>2, CallGood
  <2>4. chunk' \in 0 .. MaxChunk BY <2>2, MaxChunkAssumption
  <2> QED BY <2>3, <2>4 DEF IInv, TypeOK
<1>14. CASE UNCHANGED vars
  BY <1>14 DEF vars, IInv, TypeOK, Good, Windowed, Unacked, Watched, Promised, Counted, Outstanding
<1> QED BY <1>2, <1>3, <1>4, <1>5, <1>6, <1>7, <1>8, <1>9, <1>10, <1>11, <1>12, <1>13, <1>14
    DEF Next

LEMMA Invariance == Spec => []IInv
BY InitGood, NextGood, PTL DEF Spec

--------------------------------------------------------------------------
(* What a step does to the payloads.                                      *)

\* A call that came out of ctx with r.
Came(r) == r \in Ctx /\ Call(r) /\ Outcome(ctx, r)

\* So did one whose callbacks may or may not react.
LEMMA OutcomeBegun ==
  ASSUME NEW c \in Ctx, NEW react \in BOOLEAN, NEW r, Outcome(Begin(c, react), r)
  PROVE  Outcome(c, r)
<1> DEFINE b == Begin(c, react)
<1>1. /\ SameWindow(c, b) /\ b.state = c.state /\ b.tx = c.tx /\ SamePending(c, b)
      /\ (Held(c) => Held(b)) /\ (Quiet(c) => Quiet(b))
  BY BeginFlow
<1>2. Outcome(b, r) OBVIOUS
<1> HIDE DEF b
<1>3. Sent(c, 0) => Sent(b, 0) BY <1>1, SameSent
<1>4. Spares(b, r) => Spares(c, r) BY <1>1 DEF Spares, SameWindow
<1> QED BY <1>1, <1>2, <1>3, <1>4 DEF Outcome, SamePending

\* Every action is a call with an outcome, one of the two calls that wipe the
\* connection without an event, or the end of data_in.
LEMMA StepResult ==
  ASSUME IInv, Next
  PROVE  \/ \E r : Came(r) /\ ((Idle /\ UNCHANGED chunk /\ SamePending(ctx, r)) \/ RxFrame)
         \/ /\ LinkReset \/ Abort
            /\ Idle /\ UNCHANGED chunk
            /\ \E r \in Ctx : Call(r) /\ Silent(ctx, r)
         \/ EndDataIn
<1>1. ctx \in Ctx /\ Good(ctx) BY DEF IInv, TypeOK
<1> DEFINE Goal == \E r : Came(r) /\ Idle /\ UNCHANGED chunk /\ SamePending(ctx, r)
<1>2. ASSUME NEW r \in Ctx, Outcome(ctx, r), SamePending(ctx, r), ApiCall(r) PROVE Goal
  BY <1>2 DEF ApiCall, Came
<1>3. CASE LinkSetup
  <2>1. link_setup(ctx) \in Ctx /\ Outcome(ctx, link_setup(ctx)) /\ SamePending(ctx, link_setup(ctx))
    BY <1>1, LinkSetupKeeps, LinkSetupOutcome, LinkSetupPending
  <2> QED BY <1>2, <1>3, <2>1 DEF LinkSetup
<1>4. CASE Disconnect
  <2>1. disconnect(ctx) \in Ctx /\ Outcome(ctx, disconnect(ctx)) /\ SamePending(ctx, disconnect(ctx))
    BY <1>1, DisconnectGood, DisconnectOutcome, DisconnectPending
  <2> QED BY <1>2, <1>4, <2>1 DEF Disconnect
<1>5. CASE LinkReset
  BY <1>1, <1>5, LinkResetGood, LinkResetSilent DEF LinkReset, ApiCall
<1>6. CASE SetLocalBusy
  <2>1. PICK busy \in BOOLEAN : ApiCall(set_local_busy(ctx, busy)) BY <1>6 DEF SetLocalBusy
  <2>2. set_local_busy(ctx, busy) \in Ctx /\ Outcome(ctx, set_local_busy(ctx, busy))
        /\ SamePending(ctx, set_local_busy(ctx, busy))
    BY <1>1, <1>6, LocalBusyGood, LocalBusyOutcome, LocalBusyPending DEF SetLocalBusy
  <2> QED BY <1>2, <2>1, <2>2
<1>7. CASE TransmitI
  <2>1. transmit_i(ctx) \in Ctx /\ Outcome(ctx, transmit_i(ctx)) /\ SamePending(ctx, transmit_i(ctx))
    BY <1>1, TransmitType, TransmitOutcome, TransmitPending
  <2> QED BY <1>2, <1>7, <2>1 DEF TransmitI
<1>8. CASE TransmitUI
  <2>1. PICK cmd \in BOOLEAN : ApiCall(transmit_ui(ctx, cmd, Empty)) BY <1>8 DEF TransmitUI
  <2>2. transmit_ui(ctx, cmd, Empty) \in Ctx /\ Outcome(ctx, transmit_ui(ctx, cmd, Empty))
        /\ SamePending(ctx, transmit_ui(ctx, cmd, Empty))
    BY <1>1, TransmitOthersGood, TransmitOthersOutcome, TransmitOthersPending
  <2> QED BY <1>2, <2>1, <2>2
<1>9. CASE TransmitTest
  <2>1. PICK cmd \in BOOLEAN : ApiCall(transmit_test(ctx, cmd, Empty)) BY <1>9 DEF TransmitTest
  <2>2. transmit_test(ctx, cmd, Empty) \in Ctx /\ Outcome(ctx, transmit_test(ctx, cmd, Empty))
        /\ SamePending(ctx, transmit_test(ctx, cmd, Empty))
    BY <1>1, TransmitOthersGood, TransmitOthersOutcome, TransmitOthersPending
  <2> QED BY <1>2, <2>1, <2>2
<1>10. CASE T1Expired
  <2>1. PICK react \in BOOLEAN : ApiCall(t1_expired(Begin(ctx, react))) BY <1>10 DEF T1Expired
  <2>2. Begin(ctx, react) \in Ctx /\ Good(Begin(ctx, react)) BY <1>1, BeginGood
  <2>3. t1_expired(Begin(ctx, react)) \in Ctx BY <2>2, T1ExpiredGood
  <2>4. Outcome(ctx, t1_expired(Begin(ctx, react)))
    BY <1>1, <2>2, T1ExpiredOutcome, OutcomeBegun
  <2>5. SamePending(ctx, t1_expired(Begin(ctx, react)))
    BY <1>1, <2>2, BeginFlow, T1ExpiredPending DEF SamePending
  <2> QED BY <1>2, <2>1, <2>3, <2>4, <2>5
<1>11. CASE T2Expired
  <2>1. t2_expired(ctx) \in Ctx /\ Outcome(ctx, t2_expired(ctx)) /\ SamePending(ctx, t2_expired(ctx))
    BY <1>1, T2ExpiredGood, T2ExpiredOutcome, T2ExpiredPending
  <2> QED BY <1>2, <1>11, <2>1 DEF T2Expired
<1>12. CASE Abort
  BY <1>1, <1>12, AbortGood, AbortSilent DEF Abort, ApiCall
<1>13. CASE RxFrame
  <2>1. PICK f \in Frames, react \in BOOLEAN : Call(dispatch_frame(Begin(ctx, react), f))
    BY <1>13 DEF RxFrame
  <2> DEFINE r == dispatch_frame(Begin(ctx, react), f)
  <2>2. f \in Frame BY FramesAssumption
  <2>3. Begin(ctx, react) \in Ctx /\ Good(Begin(ctx, react)) BY <1>1, BeginGood
  <2>4. r \in Ctx BY <2>2, <2>3, DispatchGood
  <2>5. Outcome(ctx, r) BY <1>1, <2>2, <2>3, DispatchOutcome, OutcomeBegun
  <2>6. Came(r) BY <2>1, <2>4, <2>5 DEF Came
  <2> QED BY <1>13, <2>6
<1>14. CASE EndDataIn BY <1>14
<1> QED BY <1>3, <1>4, <1>5, <1>6, <1>7, <1>8, <1>9, <1>10, <1>11, <1>12, <1>13, <1>14 DEF Next

\* The end of data_in leaves the payloads, the state and the slots alone.
LEMMA EndFlow ==
  ASSUME NEW c \in Ctx
  PROVE  LET r == IF c.RETRANSMIT_PENDING THEN retransmit_outstanding(c) ELSE c
         IN SameWindow(c, r) /\ r.state = c.state /\ ~r.RETRANSMIT_PENDING
<1>1. CASE c.RETRANSMIT_PENDING BY <1>1, RetransmitFields
<1>2. CASE ~c.RETRANSMIT_PENDING BY <1>2 DEF SameWindow
<1> QED BY <1>1, <1>2

LEMMA EndResult ==
  ASSUME IInv, EndDataIn
  PROVE  \E r \in Ctx : /\ Call(r) /\ Good(r)
                        /\ r = IF ctx.RETRANSMIT_PENDING THEN retransmit_outstanding(ctx) ELSE ctx
                        /\ SameWindow(ctx, r) /\ r.state = ctx.state /\ ~r.RETRANSMIT_PENDING
<1>1. ctx \in Ctx /\ Good(ctx) BY DEF IInv, TypeOK
<1> DEFINE r == IF ctx.RETRANSMIT_PENDING THEN retransmit_outstanding(ctx) ELSE ctx
<1>2. r \in Ctx /\ Good(r) BY <1>1, RetransmitGood
<1>3. SameWindow(ctx, r) /\ r.state = ctx.state /\ ~r.RETRANSMIT_PENDING BY <1>1, EndFlow
<1>4. Call(r) BY DEF EndDataIn
<1> QED BY <1>2, <1>3, <1>4

--------------------------------------------------------------------------
(* The window of payloads, for data_in calls of any length.               *)

\* What the last call handed out has been taken.
FInv == IInv /\ Held(ctx) /\ ctx.tx = << >>

LEMMA CallHeld ==
  ASSUME NEW r \in Ctx, Call(r), Held(r)
  PROVE  Held(ctx)' /\ ctx'.tx = << >>
<1>1. ctx' = Drained(r) BY DEF Call
<1>2. Held(Drained(r)) /\ Drained(r).tx = << >> BY DrainedFlow
<1> QED BY <1>1, <1>2 DEF Held, Outstanding, Named

LEMMA HeldStep ==
  ASSUME FInv, [Next]_vars
  PROVE  FInv'
<1>1. IInv' BY NextGood DEF FInv
<1>2. ctx \in Ctx /\ IInv BY DEF FInv, IInv, TypeOK
<1>3. CASE UNCHANGED vars BY <1>1, <1>3 DEF FInv, vars, Held, Outstanding, Named
<1>4. ASSUME NEW r, Came(r) PROVE FInv' BY <1>1, <1>4, CallHeld DEF FInv, Came, Outcome
<1>5. ASSUME NEW r \in Ctx, Call(r), Silent(ctx, r) PROVE FInv'
  BY <1>1, <1>5, CallHeld DEF FInv, Silent
<1>6. CASE EndDataIn
  <2>1. PICK r \in Ctx : Call(r) /\ SameWindow(ctx, r) BY <1>2, <1>6, EndResult
  <2>2. Held(r) BY <2>1, SameHeld DEF FInv
  <2> QED BY <1>1, <2>1, <2>2, CallHeld DEF FInv
<1> QED BY <1>2, <1>3, <1>4, <1>5, <1>6, StepResult

LEMMA HeldInvariance == Spec => []FInv
<1>1. Init => FInv
  <2>1. Init => Held(ctx) /\ ctx.tx = << >> BY InitFlow DEF Init, InitCtx
  <2> QED BY <2>1, InitGood DEF FInv
<1>2. FInv /\ [Next]_vars => FInv' BY HeldStep
<1> QED BY <1>1, <1>2, PTL DEF Spec

\* A connection comes up fresh.
LEMMA FreshStep ==
  ASSUME IInv, [Next]_vars, ctx.state # "CONNECTED", ctx'.state = "CONNECTED"
  PROVE  Fresh(ctx)'
<1>1. ctx \in Ctx BY DEF IInv, TypeOK
<1>2. ~UNCHANGED vars BY DEF vars
<1>3. ASSUME NEW r \in Ctx, Call(r) PROVE ctx' = Drained(r) /\ r.state = "CONNECTED"
  BY <1>3, DrainedFlow DEF Call
<1>4. ASSUME NEW r, Came(r) PROVE Fresh(ctx)'
  <2>1. r \in Ctx /\ ctx' = Drained(r) /\ r.state = "CONNECTED" BY <1>3, <1>4 DEF Came
  <2>2. Fresh(r) BY <1>4, <2>1 DEF Came, Outcome
  <2>3. Fresh(Drained(r)) BY <2>1, <2>2, DrainedFlow
  <2> QED BY <2>1, <2>3 DEF Fresh
<1>5. ASSUME NEW r \in Ctx, Call(r), Silent(ctx, r) PROVE FALSE BY <1>3, <1>5 DEF Silent
<1>6. CASE EndDataIn BY <1>3, <1>6, EndResult
<1> QED BY <1>2, <1>4, <1>5, <1>6, StepResult

\* A slot that is wiped is told of, or the application's own doing.
LEMMA LossStep ==
  ASSUME IInv, [Next]_vars, ctx.state = "CONNECTED", SlotWiped
  PROVE  told' \/ LinkReset \/ Abort
<1>1. ctx \in Ctx BY DEF IInv, TypeOK
<1>2. PICK s \in 0 .. (SlotCount - 1) : ctx.slots[s] # Empty /\ ctx'.slots[s] = Empty
  BY <1>1, CtxFields DEF SlotWiped
<1>3. ~UNCHANGED vars BY <1>2 DEF vars
<1>4. ASSUME NEW r \in Ctx, Call(r) PROVE r.slots[s] = Empty
  <2>1. ctx' = Drained(r) /\ Drained(r).slots = r.slots BY <1>4, DrainedFlow DEF Call, SameWindow
  <2> QED BY <1>2, <2>1
<1>5. ASSUME NEW r, Came(r) PROVE told'
  <2>1. r \in Ctx /\ Call(r) /\ Outcome(ctx, r) BY <1>5 DEF Came
  <2>2. ~Spares(ctx, r) BY <1>2, <1>4, <2>1 DEF Spares
  <2> QED BY <2>1, <2>2 DEF Outcome, Call
<1>6. CASE EndDataIn BY <1>2, <1>4, <1>6, EndResult DEF SameWindow
<1> QED BY <1>3, <1>5, <1>6, StepResult

--------------------------------------------------------------------------
(* Retransmission.                                                        *)

LEMMA CallFaithful ==
  ASSUME NEW r \in Ctx, Call(r), NEW n, Sent(r, n)
  PROVE  FaithfulFrames'
<1>1. ctx' = Drained(r) /\ out' = r.tx BY DEF Call
<1> DEFINE d == Drained(r)
<1>2. SameWindow(r, d) BY DrainedFlow
<1>3. ASSUME NEW i \in 1 .. Len(r.tx), r.tx[i].type = "I"
      PROVE  r.tx[i].info = Named(d, Dist(d.vs, r.tx[i].ns))
  <2>1. Faithful(r, r.tx[i], n) BY DEF Sent
  <2>2. Faithful(d, r.tx[i], n) BY <1>2, <2>1, SameFaithful
  <2> QED BY <1>3, <2>2 DEF Faithful
<1> HIDE DEF d
<1>4. ctx' = d BY <1>1 DEF d
<1> QED BY <1>1, <1>3, <1>4 DEF FaithfulFrames, Named

LEMMA CallPending ==
  ASSUME NEW r \in Ctx, Call(r)
  PROVE  /\ Quiet(r) => Quiet(ctx)'
         /\ Pending(r) => Pending(ctx)'
         /\ Due(r) => Due(ctx)'
         /\ ctx'.RETRANSMIT_PENDING = r.RETRANSMIT_PENDING
<1> DEFINE d == Drained(r)
<1>1. ctx' = d BY DEF Call
<1>2. /\ SameWindow(r, d) /\ (Quiet(r) => Quiet(d)) /\ (Pending(r) => Pending(d))
      /\ d.RETRANSMIT_PENDING = r.RETRANSMIT_PENDING
  BY DrainedFlow
<1>3. Due(r) => Due(d)
  <2> SUFFICES ASSUME Due(r), r.RETRANSMIT_PENDING PROVE Due(d) BY <1>2 DEF Due
  <2>1. d.retransmit_from = r.retransmit_from BY DEF Drained, Ctx
  <2> HIDE DEF d
  <2>2. SameWindow(Asked(r), Asked(d)) BY <1>2, <2>1 DEF SameWindow, Asked, Ctx
  <2>3. (Held(Asked(r)) => Held(Asked(d))) /\ (Windowed(Asked(r)) => Windowed(Asked(d)))
    BY <2>2, SameHeld DEF SameWindow, Windowed, Outstanding
  <2> QED BY <1>2, <2>3 DEF Due, Wiped, SameWindow
<1> HIDE DEF d
<1> QED BY <1>1, <1>2, <1>3
    DEF Quiet, Pending, Due, Wiped, Asked, Windowed, Held, Outstanding, Named

(* When a data_in call holds one frame.                                   *)

RInv == /\ FInv /\ Quiet(ctx) /\ Pending(ctx) /\ FaithfulFrames
        /\ chunk = 0 => ~ctx.RETRANSMIT_PENDING

LEMMA RetransmitStep ==
  ASSUME MaxChunk = 1, RInv, [Next]_vars
  PROVE  RInv'
<1>1. FInv' BY HeldStep DEF RInv
<1>2. ctx \in Ctx /\ Good(ctx) /\ IInv /\ ctx.tx = << >> /\ Held(ctx) BY DEF RInv, FInv, IInv, TypeOK
<1>3. Sent(ctx, 0) BY <1>2 DEF Sent
<1>4. CASE UNCHANGED vars
  <2>1. Quiet(ctx)' /\ Pending(ctx)' BY <1>4 DEF RInv, vars, Quiet, Pending
  <2>2. FaithfulFrames' BY <1>4 DEF RInv, vars, FaithfulFrames
  <2> QED BY <1>1, <1>4, <2>1, <2>2 DEF RInv, vars
<1>5. ASSUME NEW r, Came(r), (Idle /\ UNCHANGED chunk /\ SamePending(ctx, r)) \/ RxFrame
      PROVE  RInv'
  <2>1. chunk = 0 BY <1>2, <1>5 DEF Idle, RxFrame, IInv, TypeOK
  <2>2. Outcome(ctx, r) /\ Sent(r, 2) /\ Quiet(r) /\ Pending(r) /\ r \in Ctx /\ Call(r)
    BY <1>3, <1>5, <2>1 DEF RInv, Came, Outcome
  <2>3. Quiet(ctx)' /\ Pending(ctx)' /\ FaithfulFrames' /\ ctx'.RETRANSMIT_PENDING = r.RETRANSMIT_PENDING
    BY <2>2, CallFaithful, CallPending
  <2>4. chunk' = 0 => ~ctx'.RETRANSMIT_PENDING
    BY <1>5, <2>1, <2>3 DEF RInv, RxFrame, SamePending
  <2> QED BY <1>1, <2>3, <2>4 DEF RInv
<1>6. ASSUME NEW r \in Ctx, Call(r), Silent(ctx, r), Idle, UNCHANGED chunk PROVE RInv'
  <2>1. Sent(r, 2) /\ Quiet(r) /\ ~r.RETRANSMIT_PENDING
    BY <1>3, <1>6 DEF Silent, SamePending, RInv, Idle
  <2>2. Quiet(ctx)' /\ Pending(ctx)' /\ FaithfulFrames' /\ ~ctx'.RETRANSMIT_PENDING
    BY <1>6, <2>1, CallFaithful, CallPending DEF Pending
  <2> QED BY <1>1, <2>2 DEF RInv
<1>7. CASE EndDataIn
  <2>1. PICK r \in Ctx : /\ Call(r)
                         /\ r = IF ctx.RETRANSMIT_PENDING THEN retransmit_outstanding(ctx) ELSE ctx
                         /\ r.state = ctx.state /\ ~r.RETRANSMIT_PENDING
    BY <1>2, <1>7, EndResult
  <2>2. Sent(r, MOD8 - 1)
    <3>1. CASE ctx.RETRANSMIT_PENDING
      <4>1. Windowed(ctx) /\ ctx.retransmit_from = ctx.va BY <1>2, <3>1 DEF Good, RInv, Pending
      <4> QED BY <1>2, <2>1, <3>1, <4>1, RetransmitSent
    <3>2. CASE ~ctx.RETRANSMIT_PENDING
      <4>1. Len(r.tx) = 0 BY <1>2, <2>1, <3>2
      <4> QED BY <4>1 DEF Sent
    <3> QED BY <3>1, <3>2
  <2>3. Quiet(r)
    <3>1. CASE ctx.RETRANSMIT_PENDING BY <2>1, <3>1 DEF RInv, Pending, Quiet
    <3>2. CASE ~ctx.RETRANSMIT_PENDING BY <2>1, <3>2 DEF RInv
    <3> QED BY <3>1, <3>2
  <2>4. Quiet(ctx)' /\ Pending(ctx)' /\ FaithfulFrames' /\ ~ctx'.RETRANSMIT_PENDING
    BY <2>1, <2>2, <2>3, CallFaithful, CallPending DEF Pending
  <2> QED BY <1>1, <2>4 DEF RInv
<1> QED BY <1>2, <1>4, <1>5, <1>6, <1>7, StepResult

LEMMA RetransmitInvariance ==
  ASSUME MaxChunk = 1
  PROVE  Spec => []RInv
<1>1. Init => RInv
  <2> SUFFICES ASSUME Init PROVE RInv OBVIOUS
  <2>1. Held(ctx) /\ ctx.tx = << >> /\ Quiet(ctx) /\ Pending(ctx) /\ ~ctx.RETRANSMIT_PENDING
    BY InitFlow DEF Init, InitCtx
  <2>2. FaithfulFrames BY DEF Init, FaithfulFrames
  <2> QED BY <2>1, <2>2, InitGood DEF RInv, FInv
<1>2. RInv /\ [Next]_vars => RInv' BY RetransmitStep
<1> QED BY <1>1, <1>2, PTL DEF Spec

(* When it holds any number, and the application sends nothing from        *)
(* callbacks.                                                              *)

OInv == /\ FInv /\ Due(ctx) /\ FaithfulUnlessWiped
        /\ chunk = 0 => ~ctx.RETRANSMIT_PENDING

\* A frame leaves what is pending fit to be sent, and sends nothing numbered.
LEMMA FrameDue ==
  ASSUME SendOn = {}, OInv, RxFrame
  PROVE  Due(ctx)' /\ FaithfulFrames'
<1>1. ctx \in Ctx /\ Good(ctx) /\ ctx.tx = << >> /\ Held(ctx) /\ Due(ctx)
  BY DEF OInv, FInv, IInv, TypeOK
<1>2. PICK f \in Frames, react \in BOOLEAN : Call(dispatch_frame(Begin(ctx, react), f))
  BY DEF RxFrame
<1> DEFINE b == Begin(ctx, react)
           r == dispatch_frame(b, f)
<1>3. f \in Frame BY FramesAssumption
<1>4. b \in Ctx /\ Good(b) BY <1>1, BeginGood
<1>5. Leaves(ctx, b)
  <2>1. /\ b.vs = ctx.vs /\ b.tx_next_slot = ctx.tx_next_slot /\ b.slots = ctx.slots
        /\ b.accepted = ctx.accepted /\ b.tx = ctx.tx /\ SamePending(ctx, b)
        /\ b.retransmit_from = ctx.retransmit_from
    BY <1>1 DEF Begin, SamePending, Ctx
  <2> QED BY <1>4, <2>1, SentNone DEF Leaves
<1>6. r \in Ctx /\ Good(r) BY <1>3, <1>4, DispatchGood
<1>7. Outcome(ctx, r) BY <1>1, <1>3, <1>4, DispatchOutcome, OutcomeBegun
<1>8. Overtakes(b, r) BY <1>3, <1>4, DispatchOvertakes
<1>9. Call(r) BY <1>2
<1> HIDE DEF b, r
<1>10. Overtakes(ctx, r) BY <1>5, <1>8, LeavesBefore
<1>11. Due(r) BY <1>1, <1>6, <1>7, <1>10, OvertakesDue DEF Outcome, Good
<1>12. Sent(r, 0)
  <2>1. Sent(ctx, 0) BY <1>1 DEF Sent
  <2> QED BY <1>10, <2>1 DEF Overtakes
<1> QED BY <1>6, <1>9, <1>11, <1>12, CallFaithful, CallPending

\* What data_in sends again at its end is faithful, unless the slots are wiped.
LEMMA EndFaithful ==
  ASSUME OInv, EndDataIn
  PROVE  FaithfulUnlessWiped' /\ ~ctx'.RETRANSMIT_PENDING
<1>1. ctx \in Ctx /\ IInv /\ ctx.tx = << >> /\ Due(ctx) BY DEF OInv, FInv, IInv, TypeOK
<1>2. PICK r \in Ctx : /\ Call(r)
                       /\ r = IF ctx.RETRANSMIT_PENDING THEN retransmit_outstanding(ctx) ELSE ctx
                       /\ SameWindow(ctx, r) /\ ~r.RETRANSMIT_PENDING
  BY <1>1, EndResult
<1>3. ~ctx'.RETRANSMIT_PENDING BY <1>2, CallPending
<1>4. CASE ctx.RETRANSMIT_PENDING /\ Wiped(ctx)
  <2>1. ctx'.slots = ctx.slots BY <1>2, DrainedFlow DEF Call, SameWindow
  <2>2. \A s \in DOMAIN ctx'.slots : ctx'.slots[s] = Empty BY <1>1, <1>4, <2>1, CtxFields DEF Wiped
  <2> QED BY <1>3, <2>2 DEF FaithfulUnlessWiped
<1>5. CASE ctx.RETRANSMIT_PENDING /\ ~Wiped(ctx)
  <2>1. Sent(r, MOD8 - 1) BY <1>1, <1>2, <1>5, RetransmitDue
  <2> QED BY <1>2, <1>3, <2>1, CallFaithful DEF FaithfulUnlessWiped
<1>6. CASE ~ctx.RETRANSMIT_PENDING
  <2>1. Sent(r, 0) BY <1>1, <1>2, <1>6 DEF Sent
  <2> QED BY <1>2, <1>3, <2>1, CallFaithful DEF FaithfulUnlessWiped
<1> QED BY <1>4, <1>5, <1>6

LEMMA OvertakenStep ==
  ASSUME SendOn = {}, OInv, [Next]_vars
  PROVE  OInv'
<1>1. FInv' BY HeldStep DEF OInv
<1>2. ctx \in Ctx /\ IInv /\ ctx.tx = << >> BY DEF OInv, FInv, IInv, TypeOK
<1>3. Sent(ctx, 0) BY <1>2 DEF Sent
<1>4. CASE UNCHANGED vars
  <2>1. Due(ctx)' BY <1>4 DEF OInv, vars, Due, Wiped, Asked, Windowed, Held, Outstanding, Named
  <2>2. FaithfulUnlessWiped' BY <1>4 DEF OInv, vars, FaithfulUnlessWiped, FaithfulFrames
  <2> QED BY <1>1, <1>4, <2>1, <2>2 DEF OInv, vars
<1>5. ASSUME NEW r \in Ctx, Call(r), Sent(r, 2), SamePending(ctx, r), Idle, UNCHANGED chunk
      PROVE  OInv'
  <2>1. ~r.RETRANSMIT_PENDING BY <1>5 DEF OInv, Idle, SamePending
  <2>2. Due(ctx)' /\ FaithfulFrames' /\ ~ctx'.RETRANSMIT_PENDING
    BY <1>5, <2>1, CallFaithful, CallPending DEF Due
  <2> QED BY <1>1, <2>2 DEF OInv, FaithfulUnlessWiped
<1>6. CASE RxFrame
  <2>1. Due(ctx)' /\ FaithfulFrames' BY <1>6, FrameDue
  <2>2. chunk' # 0 BY <1>2, <1>6, MaxChunkAssumption DEF RxFrame, IInv, TypeOK
  <2> QED BY <1>1, <2>1, <2>2 DEF OInv, FaithfulUnlessWiped
<1>7. CASE EndDataIn
  <2>1. FaithfulUnlessWiped' /\ ~ctx'.RETRANSMIT_PENDING BY <1>7, EndFaithful
  <2>2. Due(ctx)' BY <2>1 DEF Due
  <2> QED BY <1>1, <2>1, <2>2 DEF OInv
<1> QED BY <1>2, <1>3, <1>4, <1>5, <1>6, <1>7, StepResult DEF Came, Outcome, Silent

LEMMA OvertakenInvariance ==
  ASSUME SendOn = {}
  PROVE  Spec => []OInv
<1>1. Init => OInv
  <2> SUFFICES ASSUME Init PROVE OInv OBVIOUS
  <2>1. Held(ctx) /\ ctx.tx = << >> /\ ~ctx.RETRANSMIT_PENDING BY InitFlow DEF Init, InitCtx
  <2>2. FaithfulUnlessWiped BY DEF Init, FaithfulUnlessWiped, FaithfulFrames
  <2> QED BY <2>1, <2>2, InitGood DEF OInv, FInv, Due
<1>2. OInv /\ [Next]_vars => OInv' BY OvertakenStep
<1> QED BY <1>1, <1>2, PTL DEF Spec

--------------------------------------------------------------------------
(* The theorems.                                                          *)

\* Every state the library reaches, in any environment and with any callback
\* policy, has the shape of an atc_hdlc_ctx_t and sends well formed frames.
THEOREM TypeCorrect == Spec => []TypeOK
<1>1. IInv => TypeOK BY DEF IInv
<1> QED BY <1>1, Invariance, PTL

\* transmit_i, validate_nr and the resets together never let more frames
\* be unacknowledged than there are retransmission slots.
THEOREM WindowSafe == Spec => []WindowBound
<1>1. IInv => WindowBound BY DEF IInv, Good, Windowed, WindowBound
<1> QED BY <1>1, Invariance, PTL

\* handle_in_sequence_iframe and the frames that carry N(R) never lose an
\* acknowledgement: it has been sent, or T2 runs, or an FRMR was sent.
THEOREM AckSafe == Spec => []AckPromised
<1>1. IInv => AckPromised BY DEF IInv, Good, Promised, AckPromised
<1> QED BY <1>1, Invariance, PTL

\* t1_expired leaves no retry counter above N2, whatever resets it meets.
THEOREM RetriesSafe == Spec => []RetriesBounded
<1>1. IInv => RetriesBounded BY DEF IInv, Good, Counted, RetriesBounded
<1> QED BY <1>1, Invariance, PTL

\* An unacknowledged frame is watched by T1 or about to be sent again, as long
\* as the application does not send from WINDOW_OPEN nor set the link up from
\* LINK_FAILURE (process_nr, handle_sframe, t1_expired, transmit_i).
THEOREM UnackedSafe ==
  ASSUME Polite
  PROVE  Spec => []UnackedWatched
<1>1. IInv => UnackedWatched BY DEF IInv, Good, Unacked, UnackedWatched
<1> QED BY <1>1, Invariance, PTL

\* Under the same policy a station waiting for the answer to its SABM or DISC
\* has T1 running (link_setup, disconnect, link_reset, t1_expired).
THEOREM SetupSafe ==
  ASSUME Polite
  PROVE  Spec => []SetupWatched
<1>1. IInv => SetupWatched BY DEF IInv, Good, Watched, SetupWatched
<1> QED BY <1>1, Invariance, PTL

\* The slots behind tx_next_slot hold the unacknowledged payloads in order,
\* through any sends, acknowledgements, resets and reactions in callbacks, and
\* however many frames one data_in call dispatches (transmit_i, reset_state).
THEOREM SlotsSafe == Spec => []SlotsHoldWindow
<1>1. FInv => SlotsHoldWindow BY DEF FInv, Held, Named, SlotsHoldWindow
<1> QED BY <1>1, HeldInvariance, PTL

\* On every path into CONNECTED the resets come before anything the new
\* connection could inherit: a UA to the own SABM, a SABM of the peer in any
\* state, and the application's reactions in the callbacks on the way.
THEOREM FreshSafe == Spec => FreshStart
<1>1. IInv /\ [Next]_vars =>
        [ctx.state # "CONNECTED" /\ ctx'.state = "CONNECTED" =>
           /\ ctx'.va = 0 /\ ctx'.vr = 0 /\ ctx'.n2 = 0
           /\ ~ctx'.REJ_EXCEPTION /\ ~ctx'.REMOTE_BUSY /\ ~ctx'.LOCAL_BUSY /\ ~ctx'.T2_ACTIVE]_vars
  BY FreshStep DEF Fresh
<1> QED BY <1>1, Invariance, PTL DEF Spec, FreshStart

\* Whatever wipes a slot of a live connection fires an event, unless the
\* application called link_reset or abort itself: no handler, timer or reaction
\* drops an accepted frame in silence.
THEOREM LossSafe == Spec => LossReported
<1>1. IInv /\ [Next]_vars =>
        [ctx.state = "CONNECTED" /\ ctx.vs # ctx.va /\ SlotWiped
           => told' \/ LinkReset \/ Abort]_vars
  BY LossStep
<1> QED BY <1>1, Invariance, PTL DEF Spec, LossReported

\* However many frames a buffer holds, and whatever they acknowledge, ask for or
\* report after the one that asked for a retransmission: what data_in sends again
\* at its end is what was accepted under each N(S), or all slots are wiped.  The
\* proviso is that callbacks send nothing (trigger_retransmit, process_nr and
\* retransmit_outstanding); what happens after a wipe is shown by run stale_pending.
THEOREM OvertakenSafe ==
  ASSUME SendOn = {}
  PROVE  Spec => []FaithfulUnlessWiped
<1>1. OInv => FaithfulUnlessWiped BY DEF OInv
<1> QED BY <1>1, OvertakenInvariance, PTL

\* When every data_in call holds one frame, every I-frame on the line, first sent
\* by transmit_i or sent again by retransmit_outstanding, carries the payload the
\* application handed over under its N(S), under any callback policy.
THEOREM FaithfulSafe ==
  ASSUME MaxChunk = 1
  PROVE  Spec => []FaithfulFrames
<1>1. RInv => FaithfulFrames BY DEF RInv
<1> QED BY <1>1, RetransmitInvariance, PTL

\* Then, too, no T1 runs without a connection: every way into DISCONNECTED
\* stops it, and nothing starts it there.
THEOREM QuietSafe ==
  ASSUME MaxChunk = 1
  PROVE  Spec => []QuietWhenDown
<1>1. RInv => QuietWhenDown BY DEF RInv, Quiet, QuietWhenDown
<1> QED BY <1>1, RetransmitInvariance, PTL

==========================================================================
