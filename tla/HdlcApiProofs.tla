---------------------------- MODULE HdlcApiProofs ----------------------------
(***************************************************************************)
(* What the operators of HdlcCore, HdlcDispatch and HdlcApi do to a good   *)
(* context, for every window size, retry limit and callback policy the     *)
(* assumptions of HdlcCore allow: a lemma for each operator, which the     *)
(* theorems about one station and about the link put together.             *)
(***************************************************************************)
EXTENDS HdlcApi, TLAPS

(***************************************************************************)
(* The parts of the invariant, as predicates on a context.                 *)
(***************************************************************************)
Windowed(c) == Outstanding(c) <= SlotCount
Unacked(c)  == c.state = "CONNECTED" /\ c.vs # c.va => c.T1_ACTIVE \/ c.RETRANSMIT_PENDING
Watched(c)  == c.state \in {"CONNECTING", "DISCONNECTING"} => c.T1_ACTIVE
Promised(c) == c.state = "CONNECTED" /\ c.ackOwed /\ ~c.frmrSent => c.T2_ACTIVE
Counted(c)  == MaxRetries > 0 => c.n2 <= MaxRetries

\* The application neither sends from WINDOW_OPEN nor sets the link up again
\* from LINK_FAILURE.
Polite == "WINDOW_OPEN" \notin SendOn /\ "LINK_FAILURE" \notin SetupOn

Good(c) == /\ Windowed(c) /\ Promised(c) /\ Counted(c)
           /\ Polite => Unacked(c) /\ Watched(c)

\* What a callback does to the parts of the invariant: r is as good as c.
Keeps(c, r) == /\ Windowed(c) => Windowed(r)
               /\ Unacked(c) => Unacked(r)
               /\ Watched(c) => Watched(r)
               /\ Promised(c) => Promised(r)
               /\ Counted(c) => Counted(r)

--------------------------------------------------------------------------
(* Arithmetic and types.                                                  *)

LEMMA DistRange ==
  ASSUME NEW a \in Seqs, NEW b \in Seqs
  PROVE  Dist(a, b) \in Seqs
BY ModulusAssumption DEF Dist, Seqs

LEMMA DistNat ==
  ASSUME NEW a \in Seqs, NEW b \in Seqs
  PROVE  Dist(a, b) \in Nat
BY DistRange, ModulusAssumption DEF Seqs

LEMMA SlotRange ==
  ASSUME NEW n \in Nat
  PROVE  n % SlotCount \in 0 .. (SlotCount - 1)
BY SlotCountAssumption, ModulusAssumption

LEMMA PayloadRange ==
  ASSUME NEW n \in Nat
  PROVE  n % PayloadCount \in 0 .. (PayloadCount - 1)
BY PayloadAssumption, ModulusAssumption

LEMMA NextRange ==
  ASSUME NEW n \in Seqs
  PROVE  Next8(n) \in Seqs
BY ModulusAssumption DEF Seqs, Next8

LEMMA CtxFields ==
  ASSUME NEW c \in Ctx
  PROVE  /\ c.state \in States /\ c.vs \in Seqs /\ c.vr \in Seqs /\ c.va \in Seqs
         /\ c.n2 \in 0 .. (U8 - 1)
         /\ c.tx_next_slot \in 0 .. (SlotCount - 1)
         /\ c.slots \in [0 .. (SlotCount - 1) -> Payload]
         /\ c.retransmit_from \in Seqs
         /\ c.tx \in Seq(Frame) /\ c.events \in Seq(Events) /\ c.rcvd \in Seq(Payload)
         /\ c.accepted \in 0 .. (PayloadCount - 1) /\ c.received \in 0 .. (PayloadCount - 1)
BY DEF Ctx

LEMMA DistNext ==
  ASSUME NEW a \in Seqs, NEW b \in Seqs, Dist(a, b) < SlotCount
  PROVE  Dist(Next8(a), b) = Dist(a, b) + 1
<1>1. CASE MOD8 = 4 BY <1>1, ModulusAssumption, SlotCountAssumption DEF Dist, Next8, Seqs
<1>2. CASE MOD8 = 8 BY <1>2, ModulusAssumption, SlotCountAssumption DEF Dist, Next8, Seqs
<1> QED BY <1>1, <1>2, ModulusAssumption

LEMMA DistZero ==
  ASSUME NEW a \in Seqs, NEW b \in Seqs
  PROVE  Dist(a, b) = 0 <=> a = b
<1>1. CASE MOD8 = 4 BY <1>1, ModulusAssumption DEF Dist, Seqs
<1>2. CASE MOD8 = 8 BY <1>2, ModulusAssumption DEF Dist, Seqs
<1> QED BY <1>1, <1>2, ModulusAssumption

\* Acknowledging inside the window never widens it.
LEMMA DistAck ==
  ASSUME NEW vs \in Seqs, NEW va \in Seqs, NEW nr \in Seqs, Dist(nr, va) <= Dist(vs, va)
  PROVE  Dist(vs, nr) <= Dist(vs, va)
<1>1. CASE MOD8 = 4 BY <1>1, ModulusAssumption DEF Dist, Seqs
<1>2. CASE MOD8 = 8 BY <1>2, ModulusAssumption DEF Dist, Seqs
<1> QED BY <1>1, <1>2, ModulusAssumption

\* Contexts that agree on what the invariant speaks of.
LEMMA AlikeKeeps ==
  ASSUME NEW c, NEW r,
         r.state = c.state, r.vs = c.vs, r.va = c.va, r.n2 = c.n2,
         r.T1_ACTIVE = c.T1_ACTIVE, r.T2_ACTIVE = c.T2_ACTIVE,
         r.RETRANSMIT_PENDING = c.RETRANSMIT_PENDING,
         r.ackOwed = c.ackOwed, r.frmrSent = c.frmrSent
  PROVE  Keeps(c, r) /\ (Good(c) => Good(r))
BY DEF Good, Keeps, Windowed, Unacked, Watched, Promised, Counted, Outstanding

--------------------------------------------------------------------------
(* Operators of HdlcCore.                                                 *)

LEMMA AppendTx ==
  ASSUME NEW c \in Ctx, NEW f \in Frame
  PROVE  Append(c.tx, f) \in Seq(Frame)
BY CtxFields

LEMMA AppendEvent ==
  ASSUME NEW c \in Ctx, NEW e \in Events
  PROVE  Append(c.events, e) \in Seq(Events)
BY CtxFields

LEMMA ZeroAndEmpty == 0 \in Seqs /\ Empty \in Payload
BY ModulusAssumption, PayloadAssumption DEF Seqs, Empty, Payload, Garbage

LEMMA UFrameType ==
  ASSUME NEW cmd \in BOOLEAN, NEW pf \in BOOLEAN, NEW type \in FrameTypes, NEW info \in Payload
  PROVE  UFrame(cmd, type, pf, info) \in Frame
BY ZeroAndEmpty DEF Frame, UFrame

LEMMA SFrameType ==
  ASSUME NEW cmd \in BOOLEAN, NEW pf \in BOOLEAN, NEW type \in SFrames, NEW nr \in Seqs
  PROVE  SFrame(cmd, type, nr, pf) \in Frame
BY ZeroAndEmpty DEF Frame, SFrame, FrameTypes

LEMMA IFrameType ==
  ASSUME NEW ns \in Seqs, NEW nr \in Seqs, NEW info \in Payload
  PROVE  IFrame(ns, nr, info) \in Frame
BY DEF Frame, IFrame, FrameTypes

LEMMA TransmitType ==
  ASSUME NEW c \in Ctx
  PROVE  transmit_i(c) \in Ctx
<1>1. Next8(c.vs) \in Seqs BY NextRange, CtxFields
<1>2. (c.tx_next_slot + 1) % SlotCount \in 0 .. (SlotCount - 1)
  <2>1. c.tx_next_slot + 1 \in Nat BY CtxFields, SlotCountAssumption, ModulusAssumption
  <2> QED BY <2>1, SlotRange
<1>3. (c.accepted + 1) % PayloadCount \in 0 .. (PayloadCount - 1)
  <2>1. c.accepted + 1 \in Nat BY CtxFields, PayloadAssumption
  <2> QED BY <2>1, PayloadRange
<1>4. IFrame(c.vs, c.vr, c.accepted) \in Frame
  <2>1. c.accepted \in Payload BY CtxFields, PayloadAssumption DEF Payload, Garbage
  <2> QED BY <2>1, CtxFields, IFrameType
<1>5. Append(c.tx, IFrame(c.vs, c.vr, c.accepted)) \in Seq(Frame)
  BY <1>4, CtxFields
<1>6. [c.slots EXCEPT ![c.tx_next_slot] = c.accepted] \in [0 .. (SlotCount - 1) -> Payload]
  BY CtxFields, PayloadAssumption DEF Payload, Garbage
<1> DEFINE frame == IFrame(c.vs, c.vr, c.accepted)
           sent == [c EXCEPT !.slots[c.tx_next_slot] = c.accepted,
                             !.tx_next_slot = (c.tx_next_slot + 1) % SlotCount,
                             !.tx = Append(@, frame),
                             !.vs = Next8(c.vs),
                             !.accepted = (c.accepted + 1) % PayloadCount,
                             !.ackOwed = FALSE,
                             !.T2_ACTIVE = FALSE]
<1>7. transmit_i(c) \in {c, sent, t1_start(sent)} BY Zenon DEF transmit_i
<1>8. sent \in Ctx
  <2> HIDE DEF frame
  <2>1. Append(c.tx, frame) \in Seq(Frame) BY <1>5 DEF frame
  <2> QED BY <1>1, <1>2, <1>3, <1>6, <2>1 DEF Ctx
<1> HIDE DEF sent
<1>9. t1_start(sent) \in Ctx BY <1>8 DEF t1_start, Ctx
<1> QED BY <1>7, <1>8, <1>9

LEMMA TransmitKeeps ==
  ASSUME NEW c \in Ctx
  PROVE  Keeps(c, transmit_i(c))
<1>1. CASE ~CanTransmit(c) BY <1>1 DEF transmit_i, Keeps
<1>2. CASE CanTransmit(c)
  <2>1. Dist(Next8(c.vs), c.va) = Dist(c.vs, c.va) + 1
    BY <1>2, DistNext, CtxFields DEF CanTransmit, Outstanding
  <2>2. Dist(c.vs, c.va) \in Seqs /\ Outstanding(c) < SlotCount
    BY <1>2, DistRange, CtxFields DEF CanTransmit
  <2>3. Windowed(transmit_i(c))
    BY <1>2, <2>1, <2>2, SlotCountAssumption, ModulusAssumption
    DEF transmit_i, t1_start, Outstanding, Windowed, Ctx, Seqs
  <2>4. Unacked(c) => Unacked(transmit_i(c))
    BY <1>2, DistZero, CtxFields DEF transmit_i, t1_start, Outstanding, Unacked, Ctx
  <2>5. Watched(transmit_i(c))
    BY <1>2 DEF transmit_i, t1_start, CanTransmit, Watched, Ctx
  <2>6. Promised(transmit_i(c))
    BY <1>2 DEF transmit_i, t1_start, Promised, Ctx
  <2>7. Counted(c) => Counted(transmit_i(c))
    BY <1>2 DEF transmit_i, t1_start, Counted, Ctx
  <2> QED BY <2>3, <2>4, <2>5, <2>6, <2>7 DEF Keeps
<1> QED BY <1>1, <1>2

LEMMA LinkSetupKeeps ==
  ASSUME NEW c \in Ctx
  PROVE  link_setup(c) \in Ctx /\ Keeps(c, link_setup(c))
<1>1. UFrame(TRUE, "SABM", TRUE, Empty) \in Frame
  BY UFrameType, ZeroAndEmpty DEF FrameTypes
<1>2. /\ Append(c.tx, UFrame(TRUE, "SABM", TRUE, Empty)) \in Seq(Frame)
      /\ Append(c.events, "SETUP_REQ") \in Seq(Events)
  <2>1. Append(c.tx, UFrame(TRUE, "SABM", TRUE, Empty)) \in Seq(Frame) BY <1>1, AppendTx
  <2>2. "SETUP_REQ" \in Events BY DEF Events
  <2> QED BY <2>1, <2>2, AppendEvent
<1>3. link_setup(c) \in Ctx
  <2> DEFINE u == send_u(c, TRUE, "SABM", TRUE)
             t == t1_start(u)
  <2>1. u \in Ctx /\ u.events = c.events BY <1>2 DEF send_u, Ctx
  <2> HIDE DEF u
  <2>2. t \in Ctx /\ t.events = c.events BY <2>1 DEF t1_start, Ctx
  <2>3. link_setup(c) \in {c, [t EXCEPT !.state = "CONNECTING", !.events = Append(@, "SETUP_REQ")]}
    BY Zenon DEF link_setup, t, u
  <2> HIDE DEF t
  <2>4. [t EXCEPT !.state = "CONNECTING", !.events = Append(@, "SETUP_REQ")] \in Ctx
    BY <1>2, <2>2 DEF Ctx, States
  <2> QED BY <2>3, <2>4
<1>4. Keeps(c, link_setup(c))
  BY DEF link_setup, send_u, t1_start, Ctx, Keeps, Windowed, Unacked, Watched, Promised,
         Counted, Outstanding
<1> QED BY <1>3, <1>4

LEMMA OnEventKeeps ==
  ASSUME NEW c \in Ctx, NEW e \in Events
  PROVE  on_event(c, e) \in Ctx /\ Keeps(c, on_event(c, e))
<1> DEFINE d == [c EXCEPT !.events = Append(@, e)]
<1>1. d \in Ctx
  <2>1. Append(c.events, e) \in Seq(Events) BY CtxFields
  <2> QED BY <2>1 DEF Ctx
<1>2. Keeps(c, d)
  BY DEF Ctx, Keeps, Windowed, Unacked, Watched, Promised, Counted, Outstanding
<1>3. /\ transmit_i(d) \in Ctx /\ Keeps(d, transmit_i(d))
      /\ link_setup(d) \in Ctx /\ Keeps(d, link_setup(d))
  BY <1>1, TransmitType, TransmitKeeps, LinkSetupKeeps
<1>4. on_event(c, e) \in {d, transmit_i(d), link_setup(d)} BY Zenon DEF on_event
<1> HIDE DEF d
<1> QED BY <1>1, <1>2, <1>3, <1>4 DEF Keeps

LEMMA OnDataKeeps ==
  ASSUME NEW c \in Ctx, NEW info \in Payload
  PROVE  on_data(c, info) \in Ctx /\ Keeps(c, on_data(c, info))
<1> DEFINE d == [c EXCEPT !.rcvd = Append(@, info)]
<1>1. d \in Ctx
  <2>1. Append(c.rcvd, info) \in Seq(Payload) BY CtxFields
  <2> QED BY <2>1 DEF Ctx
<1>2. Keeps(c, d)
  BY DEF Ctx, Keeps, Windowed, Unacked, Watched, Promised, Counted, Outstanding
<1>3. transmit_i(d) \in Ctx /\ Keeps(d, transmit_i(d))
  BY <1>1, TransmitType, TransmitKeeps
<1>4. on_data(c, info) \in {d, transmit_i(d)} BY Zenon DEF on_data
<1> HIDE DEF d
<1> QED BY <1>1, <1>2, <1>3, <1>4 DEF Keeps

LEMMA StateKept ==
  ASSUME NEW c \in Ctx, NEW e \in Events, c.state # "DISCONNECTED"
  PROVE  on_event(c, e).state = c.state
<1> DEFINE d == [c EXCEPT !.events = Append(@, e)]
<1>1. d.state = c.state BY DEF Ctx
<1>2. d \in Ctx
  <2>1. Append(c.events, e) \in Seq(Events) BY AppendEvent
  <2> QED BY <2>1 DEF Ctx
<1>3. transmit_i(d).state = d.state BY <1>2 DEF transmit_i, t1_start, Ctx
<1>4. link_setup(d).state = d.state BY <1>1 DEF link_setup
<1>5. on_event(c, e) \in {d, transmit_i(d), link_setup(d)} BY Zenon DEF on_event
<1> HIDE DEF d
<1> QED BY <1>1, <1>3, <1>4, <1>5

LEMMA SendUKeeps ==
  ASSUME NEW c \in Ctx, NEW cmd \in BOOLEAN, NEW pf \in BOOLEAN, NEW type \in FrameTypes
  PROVE  send_u(c, cmd, type, pf) \in Ctx /\ Keeps(c, send_u(c, cmd, type, pf))
<1>1. Append(c.tx, UFrame(cmd, type, pf, Empty)) \in Seq(Frame)
  BY AppendTx, UFrameType, ZeroAndEmpty
<1>2. send_u(c, cmd, type, pf) \in Ctx BY <1>1 DEF send_u, Ctx
<1>3. Keeps(c, send_u(c, cmd, type, pf))
  BY DEF send_u, Ctx, Keeps, Windowed, Unacked, Watched, Promised, Counted, Outstanding
<1> QED BY <1>2, <1>3

LEMMA SendSKeeps ==
  ASSUME NEW c \in Ctx, NEW cmd \in BOOLEAN, NEW pf \in BOOLEAN, NEW type \in SFrames
  PROVE  /\ send_s(c, cmd, type, pf) \in Ctx
         /\ Keeps(c, send_s(c, cmd, type, pf))
         /\ ~send_s(c, cmd, type, pf).ackOwed
         /\ send_s(c, cmd, type, pf).state = c.state
<1>1. Append(c.tx, SFrame(cmd, type, c.vr, pf)) \in Seq(Frame)
  BY AppendTx, SFrameType, CtxFields
<1>2. send_s(c, cmd, type, pf) \in Ctx BY <1>1 DEF send_s, Ctx
<1>3. Keeps(c, send_s(c, cmd, type, pf))
  BY DEF send_s, Ctx, Keeps, Windowed, Unacked, Watched, Promised, Counted, Outstanding
<1>4. ~send_s(c, cmd, type, pf).ackOwed /\ send_s(c, cmd, type, pf).state = c.state
  BY DEF send_s, Ctx
<1> QED BY <1>2, <1>3, <1>4

\* Every supervisory frame the station sends, at once.
LEMMA SendRKeeps ==
  ASSUME NEW c \in Ctx, NEW pf \in BOOLEAN,
         NEW r \in {send_rr(c, pf), send_rr_resp(c, pf), send_rnr(c, pf), send_rej(c, pf)}
  PROVE  r \in Ctx /\ Keeps(c, r) /\ ~r.ackOwed /\ r.state = c.state
<1>1. \E cmd \in BOOLEAN, type \in SFrames : r = send_s(c, cmd, type, pf)
  BY DEF send_rr, send_rr_resp, send_rnr, send_rej, SFrames
<1> QED BY <1>1, SendSKeeps

\* Stopping T2 is harmless once N(R) has been sent, or when none is owed.
LEMMA StopT2Keeps ==
  ASSUME NEW c \in Ctx, ~c.ackOwed \/ c.frmrSent \/ c.state # "CONNECTED"
  PROVE  /\ t2_stop(c) \in Ctx /\ Keeps(c, t2_stop(c)) /\ Promised(t2_stop(c))
         /\ t2_stop(c).state = c.state
BY DEF t2_stop, Ctx, Keeps, Windowed, Unacked, Watched, Promised, Counted, Outstanding

LEMMA StartT1Keeps ==
  ASSUME NEW c \in Ctx
  PROVE  /\ t1_start(c) \in Ctx /\ Keeps(c, t1_start(c))
         /\ Unacked(t1_start(c)) /\ Watched(t1_start(c))
         /\ t1_start(c).state = c.state /\ t1_start(c).T1_ACTIVE
BY DEF t1_start, Ctx, Keeps, Windowed, Unacked, Watched, Promised, Counted, Outstanding

--------------------------------------------------------------------------
(* Operators of HdlcDispatch.                                             *)

LEMMA ResetGood ==
  ASSUME NEW c \in Ctx
  PROVE  /\ reset_state(c) \in Ctx /\ reset_state(c).state = c.state
         /\ Windowed(reset_state(c)) /\ Unacked(reset_state(c))
         /\ Promised(reset_state(c)) /\ Counted(reset_state(c))
         /\ reset_state(c).vs = reset_state(c).va /\ ~reset_state(c).ackOwed
<1>1. Dist(0, 0) = 0 BY ModulusAssumption DEF Dist
<1>2. [s \in 0 .. (SlotCount - 1) |-> Empty] \in [0 .. (SlotCount - 1) -> Payload]
  BY ZeroAndEmpty
<1>3. 0 \in 0 .. (SlotCount - 1) /\ 0 \in 0 .. (U8 - 1) /\ 0 \in 0 .. (PayloadCount - 1)
  BY SlotCountAssumption, WidthAssumption, ModulusAssumption, PayloadAssumption
<1>4. reset_state(c) \in Ctx
  <2> DEFINE wiped == [s \in 0 .. (SlotCount - 1) |-> Empty]
             zeroed == [c EXCEPT !.vs = 0, !.vr = 0, !.va = 0, !.tx_next_slot = 0, !.slots = wiped,
                                 !.n2 = 0, !.accepted = 0, !.received = 0]
             cleared == [zeroed EXCEPT !.REJ_EXCEPTION = FALSE, !.REMOTE_BUSY = FALSE,
                                       !.LOCAL_BUSY = FALSE, !.T1_ACTIVE = FALSE,
                                       !.T2_ACTIVE = FALSE, !.ackOwed = FALSE, !.frmrSent = FALSE]
  <2>1. wiped \in [0 .. (SlotCount - 1) -> Payload] BY <1>2, Zenon
  <2>2. 0 \in Seqs BY ZeroAndEmpty
  <2>3. reset_state(c) = cleared BY ZenonT(60) DEF reset_state, Ctx
  <2> HIDE DEF wiped
  <2>4. zeroed \in Ctx BY <1>3, <2>1, <2>2 DEF Ctx
  <2> HIDE DEF zeroed
  <2>5. cleared \in Ctx BY <2>4, ZenonT(60) DEF Ctx
  <2> QED BY <2>3, <2>5
<1>5. /\ reset_state(c).state = c.state /\ reset_state(c).vs = 0 /\ reset_state(c).va = 0
      /\ ~reset_state(c).ackOwed /\ reset_state(c).n2 = 0
  BY DEF reset_state, Ctx
<1> QED BY <1>1, <1>4, <1>5, SlotCountAssumption, MaxRetriesAssumption
    DEF Windowed, Unacked, Promised, Counted, Outstanding

\* set_state is as good as the context with the state replaced.
LEMMA SetStateKeeps ==
  ASSUME NEW c \in Ctx, NEW st \in States, NEW e \in Events
  PROVE  /\ set_state(c, st, e) \in Ctx
         /\ Keeps([c EXCEPT !.state = st], set_state(c, st, e))
<1> DEFINE d == [c EXCEPT !.state = st]
<1>1. d \in Ctx BY DEF Ctx
<1>2. CASE c.state # st \/ e = "CONN_REQ"
  BY <1>1, <1>2, OnEventKeeps DEF set_state
<1>3. CASE ~(c.state # st \/ e = "CONN_REQ")
  <2>1. set_state(c, st, e) = c BY <1>3 DEF set_state
  <2>2. Keeps(d, c)
    BY <1>3 DEF Ctx, Keeps, Windowed, Unacked, Watched, Promised, Counted, Outstanding
  <2> QED BY <2>1, <2>2
<1> QED BY <1>2, <1>3

LEMMA FramesAckedKeeps ==
  ASSUME NEW c \in Ctx, NEW nr \in Seqs, ValidNr(c, nr), c.state = "CONNECTED"
  PROVE  /\ frames_acked(c, nr) \in Ctx /\ Keeps(c, frames_acked(c, nr))
         /\ frames_acked(c, nr).state = "CONNECTED"
         /\ Polite => frames_acked(c, nr).va = nr /\ frames_acked(c, nr).vs = c.vs
<1> DEFINE a == [c EXCEPT !.va = nr, !.n2 = 0]
<1>1. CASE nr = c.va
  BY <1>1 DEF frames_acked, Keeps
<1>2. CASE nr # c.va
  <2>1. 0 \in 0 .. (U8 - 1) BY WidthAssumption, ModulusAssumption
  <2>2. a \in Ctx /\ a.state = "CONNECTED" /\ a.va = nr /\ a.vs = c.vs BY <2>1 DEF Ctx
  <2>3. Windowed(c) => Windowed(a)
    <3>1. Dist(c.vs, nr) <= Dist(c.vs, c.va) BY DistAck, CtxFields DEF ValidNr
    <3>2. Dist(c.vs, nr) \in Nat /\ Dist(c.vs, c.va) \in Nat
      BY DistNat, CtxFields
    <3> QED BY <2>2, <3>1, <3>2, SlotCountAssumption, ModulusAssumption DEF Windowed, Outstanding
  <2>4. Unacked(c) => Unacked(a)
    <3>1. c.vs = c.va => nr = c.va
      <4>1. Dist(c.vs, c.vs) = 0 BY DistZero, CtxFields
      <4>2. SUFFICES ASSUME c.vs = c.va PROVE nr = c.va OBVIOUS
      <4>3. Dist(nr, c.va) <= 0 BY <4>1, <4>2 DEF ValidNr
      <4>4. Dist(nr, c.va) \in Nat BY DistNat, CtxFields
      <4> QED BY <4>3, <4>4, DistZero, CtxFields
    <3> QED BY <1>2, <3>1 DEF Unacked, Ctx
  <2>5. Keeps(c, a)
    BY <2>3, <2>4, MaxRetriesAssumption DEF Keeps, Watched, Promised, Counted, Ctx
  <2>6. /\ on_event(a, "WINDOW_OPEN") \in Ctx /\ Keeps(a, on_event(a, "WINDOW_OPEN"))
        /\ on_event(a, "WINDOW_OPEN").state = "CONNECTED"
    <3>1. "WINDOW_OPEN" \in Events BY DEF Events
    <3> QED BY <2>2, <3>1, OnEventKeeps, StateKept
  <2>7. Polite => on_event(a, "WINDOW_OPEN").va = nr /\ on_event(a, "WINDOW_OPEN").vs = c.vs
    <3> DEFINE d == [a EXCEPT !.events = Append(@, "WINDOW_OPEN")]
    <3>1. d.state = "CONNECTED" /\ d.va = nr /\ d.vs = c.vs BY <2>2 DEF Ctx
    <3>2. link_setup(d) = d BY <3>1 DEF link_setup
    <3>3. Polite => on_event(a, "WINDOW_OPEN") \in {d, link_setup(d)}
      BY Zenon DEF on_event, Polite
    <3> HIDE DEF d
    <3> QED BY <3>1, <3>2, <3>3
  <2>8. frames_acked(c, nr) \in {a, on_event(a, "WINDOW_OPEN")}
    BY <1>2, Zenon DEF frames_acked
  <2> HIDE DEF a
  <2> QED BY <2>2, <2>5, <2>6, <2>7, <2>8 DEF Keeps
<1> QED BY <1>1, <1>2

LEMMA ProcessNrGood ==
  ASSUME NEW c \in Ctx, NEW nr \in Seqs, ValidNr(c, nr), c.state = "CONNECTED", Good(c)
  PROVE  process_nr(c, nr) \in Ctx /\ Good(process_nr(c, nr)) /\ process_nr(c, nr).state = "CONNECTED"
<1> DEFINE a == frames_acked(c, nr)
<1>1. a \in Ctx /\ Keeps(c, a) /\ a.state = "CONNECTED" /\ (Polite => a.va = nr /\ a.vs = c.vs)
  BY FramesAckedKeeps
<1> HIDE DEF a
<1>2. Good(a) BY <1>1 DEF Good, Keeps
<1>3. CASE c.vs = nr
  <2>1. process_nr(c, nr) = t1_stop(a) BY <1>3 DEF process_nr, a
  <2>2. t1_stop(a) \in Ctx /\ t1_stop(a).state = "CONNECTED" BY <1>1 DEF t1_stop, Ctx
  <2>3. Good(t1_stop(a))
    BY <1>1, <1>2, <1>3
    DEF t1_stop, Good, Windowed, Unacked, Watched, Promised, Counted, Outstanding, Ctx
  <2> QED BY <2>1, <2>2, <2>3
<1>4. CASE c.vs # nr /\ c.va # nr
  <2>1. process_nr(c, nr) = t1_start(a) BY <1>4 DEF process_nr, a
  <2> QED BY <1>1, <1>2, <2>1, StartT1Keeps DEF Good, Keeps
<1>5. CASE c.vs # nr /\ c.va = nr
  BY <1>5 DEF process_nr
<1> QED BY <1>3, <1>4, <1>5

LEMMA TriggerGood ==
  ASSUME NEW c \in Ctx, NEW from \in Seqs
  PROVE  /\ trigger_retransmit(c, from) \in Ctx
         /\ Keeps(c, trigger_retransmit(c, from))
         /\ c.vs # from => Unacked(trigger_retransmit(c, from))
         /\ trigger_retransmit(c, from).state = c.state
<1> DEFINE t == [c EXCEPT !.retransmit_from = from, !.RETRANSMIT_PENDING = TRUE]
<1>1. t \in Ctx BY DEF Ctx
<1>2. Keeps(c, t) /\ Unacked(t) /\ t.state = c.state
  BY DEF Ctx, Keeps, Windowed, Unacked, Watched, Promised, Counted, Outstanding
<1>3. trigger_retransmit(c, from) = IF c.vs = from THEN c ELSE t
  BY Zenon DEF trigger_retransmit
<1> HIDE DEF t
<1> QED BY <1>1, <1>2, <1>3 DEF Keeps

LEMMA AcceptSabmGood ==
  ASSUME NEW c \in Ctx, NEW f \in Frame
  PROVE  accept_sabm(c, f) \in Ctx /\ Good(accept_sabm(c, f))
<1> DEFINE r == reset_state(c)
           u == send_ua(r, f.pf)
           d == [u EXCEPT !.state = "CONNECTED"]
<1>1. r \in Ctx /\ Windowed(r) /\ Counted(r) /\ r.vs = r.va /\ ~r.ackOwed BY ResetGood
<1>2. u \in Ctx /\ Keeps(r, u) /\ u.vs = u.va /\ ~u.ackOwed
  <2>1. f.pf \in BOOLEAN /\ "UA" \in FrameTypes BY DEF Frame, FrameTypes
  <2>2. u \in Ctx /\ Keeps(r, u) BY <1>1, <2>1, SendUKeeps DEF send_ua
  <2>3. u.vs = r.vs /\ u.va = r.va /\ u.ackOwed = r.ackOwed
    BY <1>1 DEF send_ua, send_u, Ctx
  <2> QED BY <1>1, <2>2, <2>3
<1>3. Windowed(u) /\ Counted(u) BY <1>1, <1>2 DEF Keeps
<1> HIDE DEF r, u
<1>4. Good(d)
  BY <1>2, <1>3 DEF Good, Windowed, Unacked, Watched, Promised, Counted, Outstanding, Ctx
<1>5. set_state(u, "CONNECTED", "CONN_REQ") \in Ctx /\ Keeps(d, set_state(u, "CONNECTED", "CONN_REQ"))
  BY <1>2, SetStateKeeps DEF States, Events
<1> QED BY <1>4, <1>5 DEF accept_sabm, Good, Keeps, u, r

LEMMA StopT1Down ==
  ASSUME NEW c \in Ctx, NEW e \in Events, Good(c)
  PROVE  /\ set_state(t1_stop(c), "DISCONNECTED", e) \in Ctx
         /\ Good(set_state(t1_stop(c), "DISCONNECTED", e))
<1> DEFINE t == t1_stop(c)
           d == [t EXCEPT !.state = "DISCONNECTED"]
<1>1. t \in Ctx BY DEF t1_stop, Ctx
<1>2. Good(d)
  BY DEF t1_stop, Ctx, Good, Windowed, Unacked, Watched, Promised, Counted, Outstanding
<1> HIDE DEF t
<1>3. set_state(t, "DISCONNECTED", e) \in Ctx /\ Keeps(d, set_state(t, "DISCONNECTED", e))
  BY <1>1, SetStateKeeps DEF States
<1> QED BY <1>2, <1>3 DEF Good, Keeps, t

LEMMA RepliesGood ==
  ASSUME NEW c \in Ctx, NEW f \in Frame, Good(c)
  PROVE  /\ send_ua(c, f.pf) \in Ctx /\ Good(send_ua(c, f.pf))
         /\ send_dm(c, f.pf) \in Ctx /\ Good(send_dm(c, f.pf))
         /\ send_dm(c, TRUE) \in Ctx /\ Good(send_dm(c, TRUE))
         /\ on_data(c, f.info) \in Ctx /\ Good(on_data(c, f.info))
<1>1. f.pf \in BOOLEAN /\ f.info \in Payload BY DEF Frame
<1>2. {"UA", "DM"} \subseteq FrameTypes BY DEF FrameTypes
<1> QED BY <1>1, <1>2, SendUKeeps, OnDataKeeps DEF send_ua, send_dm, Good, Keeps

LEMMA DisconnectedGood ==
  ASSUME NEW c \in Ctx, NEW f \in Frame, Good(c)
  PROVE  state_disconnected(c, f) \in Ctx /\ Good(state_disconnected(c, f))
<1>1. state_disconnected(c, f)
        \in {accept_sabm(c, f), send_ua(c, f.pf), on_data(c, f.info), send_dm(c, f.pf), c}
  BY Zenon DEF state_disconnected
<1> QED BY <1>1, AcceptSabmGood, RepliesGood

LEMMA ConnectingGood ==
  ASSUME NEW c \in Ctx, NEW f \in Frame, Good(c)
  PROVE  state_connecting(c, f) \in Ctx /\ Good(state_connecting(c, f))
<1> DEFINE r == reset_state(c)
           d == [r EXCEPT !.state = "CONNECTED"]
           up == set_state(r, "CONNECTED", "CONN_ACCEPTED")
           down == set_state(t1_stop(c), "DISCONNECTED", "PEER_REJECT")
<1>1. r \in Ctx /\ Windowed(r) /\ Counted(r) /\ r.vs = r.va /\ ~r.ackOwed BY ResetGood
<1>2. up \in Ctx /\ Good(up)
  <2> HIDE DEF r
  <2>1. Good(d)
    BY <1>1 DEF Good, Windowed, Unacked, Watched, Promised, Counted, Outstanding, Ctx
  <2>2. up \in Ctx /\ Keeps(d, up) BY <1>1, SetStateKeeps DEF States, Events
  <2> QED BY <2>1, <2>2 DEF Good, Keeps
<1>3. down \in Ctx /\ Good(down) BY StopT1Down DEF Events
<1>4. state_connecting(c, f) \in {send_ua(c, f.pf), up, down, send_dm(c, f.pf), c}
  BY Zenon DEF state_connecting
<1> HIDE DEF up, down, r
<1> QED BY <1>2, <1>3, <1>4, RepliesGood

LEMMA SendFrmrGood ==
  ASSUME NEW c \in Ctx, Good(c)
  PROVE  /\ send_frmr(c) \in Ctx /\ Good(send_frmr(c)) /\ send_frmr(c).state = c.state
         /\ send_frmr(c).T1_ACTIVE /\ send_frmr(c).frmrSent
<1> DEFINE t == [t2_stop(c) EXCEPT !.frmrSent = TRUE]
           u == retransmit_frmr(t)
<1>1. t \in Ctx /\ Good(t) /\ t.state = c.state /\ t.frmrSent
  <2>1. t \in Ctx BY DEF t2_stop, Ctx
  <2>2. /\ t.state = c.state /\ t.vs = c.vs /\ t.va = c.va /\ t.n2 = c.n2 /\ t.frmrSent
        /\ t.T1_ACTIVE = c.T1_ACTIVE /\ t.RETRANSMIT_PENDING = c.RETRANSMIT_PENDING
    BY DEF t2_stop, Ctx
  <2> HIDE DEF t
  <2> QED BY <2>1, <2>2 DEF Good, Windowed, Unacked, Watched, Promised, Counted, Outstanding
<1> HIDE DEF t
<1>2. u \in Ctx /\ Keeps(t, u) /\ u.state = t.state /\ u.frmrSent
  <2>1. u \in Ctx /\ Keeps(t, u)
    BY <1>1, SendUKeeps DEF retransmit_frmr, FrameTypes
  <2>2. u.state = t.state /\ u.frmrSent = t.frmrSent
    BY <1>1 DEF retransmit_frmr, send_u, Ctx
  <2> QED BY <1>1, <2>1, <2>2
<1> HIDE DEF u
<1>3. t1_start(u).frmrSent BY <1>2 DEF t1_start, Ctx
<1>4. send_frmr(c) = t1_start(u) BY DEF send_frmr, u, t
<1> QED BY <1>1, <1>2, <1>3, <1>4, StartT1Keeps DEF Good, Keeps

LEMMA RejectNrGood ==
  ASSUME NEW c \in Ctx, Good(c)
  PROVE  reject_nr(c) \in Ctx /\ Good(reject_nr(c))
<1> DEFINE u == send_frmr(c)
           d == [u EXCEPT !.state = "FRMR_ERROR"]
<1>1. u \in Ctx /\ Good(u) BY SendFrmrGood
<1> HIDE DEF u
<1>2. Good(d)
  BY <1>1 DEF Good, Windowed, Unacked, Watched, Promised, Counted, Outstanding, Ctx
<1>3. /\ set_state(u, "FRMR_ERROR", "PROTOCOL_ERROR") \in Ctx
      /\ Keeps(d, set_state(u, "FRMR_ERROR", "PROTOCOL_ERROR"))
  BY <1>1, SetStateKeeps DEF States, Events
<1> QED BY <1>2, <1>3 DEF reject_nr, Good, Keeps, u

LEMMA OnDataState ==
  ASSUME NEW c \in Ctx, NEW info \in Payload
  PROVE  on_data(c, info).state = c.state
<1> DEFINE d == [c EXCEPT !.rcvd = Append(@, info)]
<1>1. d.state = c.state BY DEF Ctx
<1>2. d \in Ctx
  <2>1. Append(c.rcvd, info) \in Seq(Payload) BY CtxFields
  <2> QED BY <2>1 DEF Ctx
<1>3. transmit_i(d).state = d.state BY <1>2 DEF transmit_i, t1_start, Ctx
<1>4. on_data(c, info) \in {d, transmit_i(d)} BY Zenon DEF on_data
<1> HIDE DEF d
<1> QED BY <1>1, <1>3, <1>4

LEMMA InSequenceGood ==
  ASSUME NEW c \in Ctx, NEW f \in Frame, Good(c)
  PROVE  /\ handle_in_sequence_iframe(c, f) \in Ctx
         /\ Good(handle_in_sequence_iframe(c, f))
<1> DEFINE m == [c EXCEPT !.vr = Next8(c.vr), !.REJ_EXCEPTION = FALSE, !.ackOwed = TRUE,
                          !.received = (c.received + 1) % PayloadCount]
           d == deliver_iframe(c, f)
           h == handle_in_sequence_iframe(c, f)
<1>1. m \in Ctx
  <2>1. (c.received + 1) % PayloadCount \in 0 .. (PayloadCount - 1)
    <3>1. c.received + 1 \in Nat BY CtxFields, PayloadAssumption
    <3> QED BY <3>1, PayloadRange
  <2> QED BY <2>1, NextRange, CtxFields DEF Ctx
<1>2. Windowed(m) /\ Counted(m) /\ (Polite => Unacked(m) /\ Watched(m))
  BY DEF Good, Windowed, Unacked, Watched, Counted, Outstanding, Ctx
<1>3. d \in Ctx /\ Keeps(m, d)
  <2>1. d = on_data(m, f.info) BY DEF deliver_iframe
  <2> HIDE DEF m, d
  <2> QED BY <1>1, <2>1, OnDataKeeps DEF Frame
<1> HIDE DEF m
<1>4. Windowed(d) /\ Counted(d) /\ (Polite => Unacked(d) /\ Watched(d))
  BY <1>2, <1>3 DEF Keeps
<1>5. CASE f.pf
  <2> DEFINE r == IF d.LOCAL_BUSY THEN send_rnr(d, TRUE) ELSE send_rr_resp(d, TRUE)
  <2>1. h = t2_stop(r) BY <1>5 DEF handle_in_sequence_iframe
  <2>2. r \in {send_rr(d, TRUE), send_rr_resp(d, TRUE), send_rnr(d, TRUE), send_rej(d, TRUE)}
    OBVIOUS
  <2> HIDE DEF r, d
  <2>3. r \in Ctx /\ Keeps(d, r) /\ ~r.ackOwed BY <1>3, <2>2, SendRKeeps
  <2>4. t2_stop(r) \in Ctx /\ Keeps(r, t2_stop(r)) /\ Promised(t2_stop(r))
    BY <2>3, StopT2Keeps
  <2> QED BY <1>4, <2>1, <2>3, <2>4 DEF Good, Keeps
<1>6. CASE ~f.pf /\ ~d.T2_ACTIVE /\ d.LOCAL_BUSY
  <2>1. h = send_rnr(d, FALSE) BY <1>6 DEF handle_in_sequence_iframe
  <2> HIDE DEF d
  <2>2. /\ send_rnr(d, FALSE) \in Ctx /\ Keeps(d, send_rnr(d, FALSE))
        /\ ~send_rnr(d, FALSE).ackOwed
    BY <1>3, SendRKeeps
  <2> QED BY <1>4, <2>1, <2>2 DEF Good, Keeps, Promised
<1>7. CASE ~f.pf /\ ~d.T2_ACTIVE /\ ~d.LOCAL_BUSY
  <2>1. h = t2_start(d) BY <1>7 DEF handle_in_sequence_iframe
  <2> HIDE DEF d
  <2>2. t2_start(d) \in Ctx /\ Promised(t2_start(d)) /\ Keeps(d, t2_start(d))
    BY <1>3 DEF t2_start, Ctx, Keeps, Windowed, Unacked, Watched, Promised, Counted, Outstanding
  <2> QED BY <1>4, <2>1, <2>2 DEF Good, Keeps
<1>8. CASE ~f.pf /\ d.T2_ACTIVE
  <2>1. h = d BY <1>8 DEF handle_in_sequence_iframe
  <2> HIDE DEF d
  <2> QED BY <1>3, <1>4, <1>8, <2>1 DEF Good, Promised
<1>9. f.pf \in BOOLEAN BY DEF Frame
<1> QED BY <1>5, <1>6, <1>7, <1>8, <1>9

LEMMA OutOfSequenceGood ==
  ASSUME NEW c \in Ctx, NEW f \in Frame, Good(c)
  PROVE  /\ handle_out_of_sequence_iframe(c, f) \in Ctx
         /\ Good(handle_out_of_sequence_iframe(c, f))
<1> DEFINE x == [c EXCEPT !.REJ_EXCEPTION = TRUE]
           r == send_rej(x, f.pf)
<1>1. f.pf \in BOOLEAN BY DEF Frame
<1>2. send_rr_resp(c, TRUE) \in Ctx /\ Good(send_rr_resp(c, TRUE))
  BY SendRKeeps DEF Good, Keeps
<1>3. x \in Ctx /\ Good(x)
  BY DEF Good, Windowed, Unacked, Watched, Promised, Counted, Outstanding, Ctx
<1> HIDE DEF x
<1>4. r \in Ctx /\ Keeps(x, r) /\ ~r.ackOwed BY <1>1, <1>3, SendRKeeps
<1> HIDE DEF r
<1>5. t2_stop(r) \in Ctx /\ Good(t2_stop(r))
  BY <1>3, <1>4, StopT2Keeps DEF Good, Keeps
<1>6. handle_out_of_sequence_iframe(c, f) \in {send_rr_resp(c, TRUE), t2_stop(r), c}
  BY Zenon DEF handle_out_of_sequence_iframe, r, x
<1> QED BY <1>2, <1>5, <1>6

LEMMA IFrameGood ==
  ASSUME NEW c \in Ctx, NEW f \in Frame, Good(c), c.state = "CONNECTED"
  PROVE  handle_iframe(c, f) \in Ctx /\ Good(handle_iframe(c, f))
<1> DEFINE p == process_nr(c, f.nr)
<1>1. f.nr \in Seqs BY DEF Frame
<1>2. CASE ~ValidNr(c, f.nr) BY <1>2, RejectNrGood DEF handle_iframe
<1>3. CASE ValidNr(c, f.nr)
  <2>1. p \in Ctx /\ Good(p) BY <1>1, <1>3, ProcessNrGood
  <2>2. handle_iframe(c, f)
          \in {handle_in_sequence_iframe(p, f), handle_out_of_sequence_iframe(p, f)}
    BY <1>3, Zenon DEF handle_iframe
  <2> HIDE DEF p
  <2> QED BY <2>1, <2>2, InSequenceGood, OutOfSequenceGood
<1> QED BY <1>2, <1>3

LEMMA RemoteBusyGood ==
  ASSUME NEW c \in Ctx, NEW f \in Frame, Good(c), c.state = "CONNECTED"
  PROVE  /\ remote_busy_update(c, f) \in Ctx /\ Good(remote_busy_update(c, f))
         /\ remote_busy_update(c, f).state = "CONNECTED"
<1> DEFINE x == [c EXCEPT !.REMOTE_BUSY = FALSE]
           y == [c EXCEPT !.REMOTE_BUSY = TRUE]
<1>1. x \in Ctx /\ Good(x) /\ x.state = "CONNECTED"
  BY DEF Good, Windowed, Unacked, Watched, Promised, Counted, Outstanding, Ctx
<1>2. y \in Ctx /\ Good(y) /\ y.state = "CONNECTED"
  BY DEF Good, Windowed, Unacked, Watched, Promised, Counted, Outstanding, Ctx
<1>3. remote_busy_update(c, f) \in {on_event(x, "PEER_READY"), on_event(y, "PEER_BUSY"), x, c}
  BY Zenon DEF remote_busy_update
<1>4. "PEER_READY" \in Events /\ "PEER_BUSY" \in Events BY DEF Events
<1> HIDE DEF x, y
<1> QED BY <1>1, <1>2, <1>3, <1>4, OnEventKeeps, StateKept DEF Good, Keeps

LEMMA RejGood ==
  ASSUME NEW c \in Ctx, NEW nr \in Seqs, ValidNr(c, nr), c.state = "CONNECTED", Good(c)
  PROVE  handle_rej(c, nr) \in Ctx /\ Good(handle_rej(c, nr))
<1> DEFINE a == frames_acked(c, nr)
           t == t1_stop(a)
<1>1. a \in Ctx /\ Keeps(c, a) /\ a.state = "CONNECTED" /\ (Polite => a.va = nr)
  BY FramesAckedKeeps
<1> HIDE DEF a
<1>2. Good(a) BY <1>1 DEF Good, Keeps
<1>3. /\ t \in Ctx /\ t.state = "CONNECTED" /\ t.vs = a.vs /\ t.va = a.va
      /\ Windowed(t) /\ Promised(t) /\ Counted(t) /\ Watched(t)
  <2>1. t \in Ctx BY <1>1 DEF t1_stop, Ctx
  <2>2. /\ t.state = a.state /\ t.vs = a.vs /\ t.va = a.va /\ t.n2 = a.n2
        /\ t.T2_ACTIVE = a.T2_ACTIVE /\ t.frmrSent = a.frmrSent /\ t.ackOwed = a.ackOwed
    BY <1>1 DEF t1_stop, Ctx
  <2> HIDE DEF t
  <2> QED BY <1>1, <1>2, <2>1, <2>2
      DEF Good, Windowed, Watched, Promised, Counted, Outstanding
<1>4. handle_rej(c, nr) = IF t.va # t.vs THEN trigger_retransmit(t, nr) ELSE t
  BY DEF handle_rej, t, a
<1> HIDE DEF t
<1>5. CASE t.va = t.vs
  BY <1>3, <1>4, <1>5 DEF Good, Unacked
<1>6. CASE t.va # t.vs
  BY <1>1, <1>3, <1>4, <1>6, TriggerGood DEF Good, Keeps
<1> QED BY <1>5, <1>6

LEMMA SFrameGood ==
  ASSUME NEW c \in Ctx, NEW f \in Frame, Good(c), c.state = "CONNECTED"
  PROVE  handle_sframe(c, f) \in Ctx /\ Good(handle_sframe(c, f))
<1> DEFINE b == remote_busy_update(c, f)
           r == IF f.cmd /\ f.pf THEN t2_stop(send_rr_resp(b, TRUE)) ELSE b
           p == IF f.type = "REJ" THEN handle_rej(r, f.nr) ELSE process_nr(r, f.nr)
<1>1. b \in Ctx /\ Good(b) /\ b.state = "CONNECTED" BY RemoteBusyGood
<1>2. r \in Ctx /\ Good(r) /\ r.state = "CONNECTED"
  <2> HIDE DEF b
  <2> DEFINE u == send_rr_resp(b, TRUE)
  <2>1. u \in Ctx /\ Keeps(b, u) /\ ~u.ackOwed /\ u.state = b.state BY <1>1, SendRKeeps
  <2> HIDE DEF u
  <2>2. t2_stop(u) \in Ctx /\ Keeps(u, t2_stop(u)) /\ t2_stop(u).state = u.state
    BY <2>1, StopT2Keeps
  <2>3. r \in {t2_stop(u), b} BY DEF u
  <2> QED BY <1>1, <2>1, <2>2, <2>3 DEF Good, Keeps
<1>3. f.nr \in Seqs BY DEF Frame
<1>4. handle_sframe(c, f) \in {reject_nr(r), trigger_retransmit(p, p.va), p}
  BY Zenon DEF handle_sframe
<1>5. ~ValidNr(r, f.nr) => handle_sframe(c, f) = reject_nr(r)
  BY Zenon DEF handle_sframe
<1> HIDE DEF r, b
<1>6. CASE ~ValidNr(r, f.nr) BY <1>2, <1>5, <1>6, RejectNrGood
<1>7. CASE ValidNr(r, f.nr)
  <2>1. p \in Ctx /\ Good(p) BY <1>2, <1>3, <1>7, ProcessNrGood, RejGood
  <2>2. reject_nr(r) \in Ctx /\ Good(reject_nr(r)) BY <1>2, RejectNrGood
  <2> HIDE DEF p
  <2>3. trigger_retransmit(p, p.va) \in Ctx /\ Keeps(p, trigger_retransmit(p, p.va))
    BY <2>1, CtxFields, TriggerGood
  <2> QED BY <1>4, <2>1, <2>2, <2>3 DEF Good, Keeps
<1> QED BY <1>6, <1>7

\* A connection torn down to a state in which no answer is awaited.
LEMMA TornDownGood ==
  ASSUME NEW c \in Ctx, NEW e \in Events, NEW st \in {"DISCONNECTED", "FRMR_ERROR"},
         Windowed(c), Counted(c)
  PROVE  set_state(c, st, e) \in Ctx /\ Good(set_state(c, st, e))
<1> DEFINE d == [c EXCEPT !.state = st]
<1>1. st \in States BY DEF States
<1>2. set_state(c, st, e) \in Ctx /\ Keeps(d, set_state(c, st, e)) BY <1>1, SetStateKeeps
<1>3. Good(d) BY DEF Good, Windowed, Unacked, Watched, Promised, Counted, Outstanding, Ctx
<1> QED BY <1>2, <1>3 DEF Good, Keeps

LEMMA UFrameGood ==
  ASSUME NEW c \in Ctx, NEW f \in Frame, Good(c), is_uframe(f)
  PROVE  handle_uframe(c, f) \in Ctx /\ Good(handle_uframe(c, f))
<1> DEFINE r == reset_state(c)
           u == send_ua(r, f.pf)
           echo == [c EXCEPT !.tx = Append(@, UFrame(FALSE, "TEST", f.pf, f.info))]
           disc == set_state(u, "DISCONNECTED", "PEER_DISC")
           dm == set_state(r, "DISCONNECTED", "PEER_REJECT")
           frmr == set_state(r, "FRMR_ERROR", "PROTOCOL_ERROR")
<1>1. r \in Ctx /\ Windowed(r) /\ Counted(r) BY ResetGood
<1>2. f.pf \in BOOLEAN /\ f.info \in Payload /\ f.cmd \in BOOLEAN /\ f.type \in FrameTypes
  BY DEF Frame
<1>3. u \in Ctx /\ Windowed(u) /\ Counted(u)
  <2>1. "UA" \in FrameTypes BY DEF FrameTypes
  <2> HIDE DEF r
  <2> QED BY <1>1, <1>2, <2>1, SendUKeeps DEF send_ua, Keeps
<1> HIDE DEF r, u
<1>4. disc \in Ctx /\ Good(disc) BY <1>3, TornDownGood DEF Events
<1>5. dm \in Ctx /\ Good(dm) BY <1>1, TornDownGood DEF Events
<1>6. frmr \in Ctx /\ Good(frmr) BY <1>1, TornDownGood DEF Events
<1>7. echo \in Ctx /\ Good(echo)
  <2>1. "TEST" \in FrameTypes BY DEF FrameTypes
  <2>2. Append(c.tx, UFrame(FALSE, "TEST", f.pf, f.info)) \in Seq(Frame)
    BY <1>2, <2>1, UFrameType, AppendTx
  <2>3. echo \in Ctx BY <2>2 DEF Ctx
  <2> QED BY <2>3 DEF Good, Windowed, Unacked, Watched, Promised, Counted, Outstanding, Ctx
<1>8. handle_uframe(c, f) \in {accept_sabm(c, f), disc, dm, frmr, on_data(c, f.info), echo, c,
                               send_dm(c, f.pf), send_frmr(c)}
  <2>1. f.type \in {"SABM", "DISC", "DM", "FRMR", "UI", "TEST", "SNRM", "SABME", "UA", "UNKNOWN"}
    BY <1>2 DEF is_uframe, is_iframe, is_sframe, SFrames, FrameTypes
  <2>2. CASE f.type \in {"SABM", "DISC", "DM", "FRMR", "UI"}
    BY <2>2 DEF handle_uframe, r, u
  <2>3. CASE f.type \in {"TEST", "SNRM", "SABME", "UA", "UNKNOWN"}
    BY <1>2, <2>3 DEF handle_uframe
  <2> QED BY <2>1, <2>2, <2>3
<1> HIDE DEF disc, dm, frmr, echo
<1> QED BY <1>4, <1>5, <1>6, <1>7, <1>8, AcceptSabmGood, RepliesGood, SendFrmrGood

LEMMA ConnectedGood ==
  ASSUME NEW c \in Ctx, NEW f \in Frame, Good(c), c.state = "CONNECTED"
  PROVE  state_connected(c, f) \in Ctx /\ Good(state_connected(c, f))
<1>1. CASE is_iframe(f)
  <2>1. ~is_sframe(f) /\ ~is_uframe(f) BY <1>1 DEF is_iframe, is_sframe, is_uframe, SFrames
  <2> QED BY <1>1, <2>1, IFrameGood DEF state_connected
<1>2. CASE is_sframe(f)
  <2>1. ~is_iframe(f) /\ ~is_uframe(f) BY <1>2 DEF is_iframe, is_sframe, is_uframe, SFrames
  <2> QED BY <1>2, <2>1, SFrameGood DEF state_connected
<1>3. CASE is_uframe(f)
  <2>1. ~is_iframe(f) /\ ~is_sframe(f) BY <1>3 DEF is_uframe
  <2> QED BY <1>3, <2>1, UFrameGood DEF state_connected
<1> QED BY <1>1, <1>2, <1>3 DEF is_uframe

LEMMA DisconnectingGood ==
  ASSUME NEW c \in Ctx, NEW f \in Frame, Good(c)
  PROVE  state_disconnecting(c, f) \in Ctx /\ Good(state_disconnecting(c, f))
<1> DEFINE done == set_state(t1_stop(c), "DISCONNECTED", "DISC_DONE")
           refused == set_state(t1_stop(c), "DISCONNECTED", "PEER_REJECT")
<1>1. done \in Ctx /\ Good(done) /\ refused \in Ctx /\ Good(refused)
  BY StopT1Down DEF Events
<1>2. state_disconnecting(c, f)
        \in {send_dm(c, TRUE), send_dm(c, f.pf), send_ua(c, f.pf), done, refused, c}
  BY Zenon DEF state_disconnecting
<1> HIDE DEF done, refused
<1> QED BY <1>1, <1>2, RepliesGood

LEMMA DispatchGood ==
  ASSUME NEW c \in Ctx, NEW f \in Frame, Good(c)
  PROVE  dispatch_frame(c, f) \in Ctx /\ Good(dispatch_frame(c, f))
<1>1. c.state \in States BY CtxFields
<1>2. CASE c.state = "DISCONNECTED" BY <1>2, DisconnectedGood DEF dispatch_frame
<1>3. CASE c.state = "CONNECTING" BY <1>3, ConnectingGood DEF dispatch_frame
<1>4. CASE c.state = "CONNECTED" BY <1>4, ConnectedGood DEF dispatch_frame
<1>5. CASE c.state = "DISCONNECTING" BY <1>5, DisconnectingGood DEF dispatch_frame
<1>6. CASE c.state = "FRMR_ERROR" BY <1>6, AcceptSabmGood DEF dispatch_frame, state_frmr_error
<1> QED BY <1>1, <1>2, <1>3, <1>4, <1>5, <1>6 DEF States

LEMMA RetransmitGood ==
  ASSUME NEW c \in Ctx, Good(c)
  PROVE  retransmit_outstanding(c) \in Ctx /\ Good(retransmit_outstanding(c))
<1> DEFINE n      == Dist(c.vs, c.retransmit_from)
           oldest == OldestSlot(c, n)
           slot(k) == IF k = 0 THEN oldest ELSE (oldest + k) % SlotCount
           resent == [k \in 1 .. n |-> IFrame((c.retransmit_from + k - 1) % MOD8, c.vr,
                                              SlotContent(c, slot(k - 1)))]
           sent == c.tx \o resent
           owed == c.ackOwed /\ n = 0
           r == [c EXCEPT !.RETRANSMIT_PENDING = FALSE, !.tx = sent, !.ackOwed = owed]
<1>1. n \in Nat BY DistNat, CtxFields
<1>2. \A s : SlotContent(c, s) \in Payload
  <2>1. Garbage \in Payload BY PayloadAssumption DEF Payload, Garbage
  <2>2. \A s \in 0 .. (SlotCount - 1) : c.slots[s] \in Payload BY CtxFields
  <2> QED BY <2>1, <2>2 DEF SlotContent
<1>3. sent \in Seq(Frame)
  <2>1. \A k \in 1 .. n : (c.retransmit_from + k - 1) % MOD8 \in Seqs
    BY <1>1, CtxFields, ModulusAssumption DEF Seqs
  <2> HIDE DEF slot, n
  <2>2. \A k \in 1 .. n : resent[k] \in Frame BY <1>2, <2>1, CtxFields, IFrameType
  <2>3. resent \in [1 .. n -> Frame] BY <2>2
  <2> HIDE DEF resent
  <2>4. resent \in Seq(Frame) BY <1>1, <2>3
  <2> QED BY <2>4, CtxFields
<1>4. retransmit_outstanding(c) = t1_start(r) BY Zenon DEF retransmit_outstanding
<1> HIDE DEF resent, n
<1>5. owed \in BOOLEAN /\ (owed => c.ackOwed) BY DEF Ctx
<1> HIDE DEF sent, owed
<1>6. r \in Ctx BY <1>3, <1>5 DEF Ctx
<1>7. /\ r.state = c.state /\ r.vs = c.vs /\ r.va = c.va /\ r.n2 = c.n2
      /\ r.T2_ACTIVE = c.T2_ACTIVE /\ r.frmrSent = c.frmrSent /\ (r.ackOwed => c.ackOwed)
  BY <1>5 DEF Ctx
<1> HIDE DEF r
<1>8. Windowed(r) /\ Promised(r) /\ Counted(r)
  BY <1>7 DEF Good, Windowed, Promised, Counted, Outstanding
<1> QED BY <1>4, <1>6, <1>8, StartT1Keeps DEF Good, Keeps

--------------------------------------------------------------------------
(* Operators of HdlcApi.                                                  *)

\* Whatever else happened, starting T1 restores what the timer is for.
LEMMA TimedGood ==
  ASSUME NEW c \in Ctx, Windowed(c), Promised(c), Counted(c)
  PROVE  t1_start(c) \in Ctx /\ Good(t1_start(c)) /\ t1_start(c).T1_ACTIVE
BY StartT1Keeps DEF Good, Keeps

\* A set_state to a state whose timer already runs.
LEMMA TimedStateGood ==
  ASSUME NEW c \in Ctx, NEW st \in States \ {"CONNECTED"}, NEW e \in Events,
         Windowed(c), Counted(c), c.T1_ACTIVE
  PROVE  set_state(c, st, e) \in Ctx /\ Good(set_state(c, st, e))
<1> DEFINE d == [c EXCEPT !.state = st]
<1>1. Good(d) BY DEF Good, Windowed, Unacked, Watched, Promised, Counted, Outstanding, Ctx
<1>2. set_state(c, st, e) \in Ctx /\ Keeps(d, set_state(c, st, e)) BY SetStateKeeps
<1> QED BY <1>1, <1>2 DEF Good, Keeps

LEMMA DisconnectGood ==
  ASSUME NEW c \in Ctx, Good(c)
  PROVE  disconnect(c) \in Ctx /\ Good(disconnect(c))
<1> DEFINE u == send_u(c, TRUE, "DISC", TRUE)
<1>1. u \in Ctx /\ Keeps(c, u) BY SendUKeeps DEF FrameTypes
<1> HIDE DEF u
<1>2. t1_start(u) \in Ctx /\ Good(t1_start(u)) /\ t1_start(u).T1_ACTIVE
  BY <1>1, TimedGood DEF Good, Keeps
<1> QED BY <1>2, TimedStateGood DEF disconnect, u, Good, States, Events

LEMMA LinkResetGood ==
  ASSUME NEW c \in Ctx
  PROVE  link_reset(c) \in Ctx /\ Good(link_reset(c))
<1> DEFINE r == reset_state(c)
           u == send_u(r, TRUE, "SABM", TRUE)
<1>1. r \in Ctx /\ Windowed(r) /\ Promised(r) /\ Counted(r) BY ResetGood
<1> HIDE DEF r
<1>2. u \in Ctx /\ Keeps(r, u) BY <1>1, SendUKeeps DEF FrameTypes
<1> HIDE DEF u
<1>3. t1_start(u) \in Ctx /\ Good(t1_start(u)) /\ t1_start(u).T1_ACTIVE
  BY <1>1, <1>2, TimedGood DEF Keeps
<1> QED BY <1>3, TimedStateGood DEF link_reset, u, r, Good, States, Events

LEMMA LocalBusyGood ==
  ASSUME NEW c \in Ctx, NEW busy \in BOOLEAN, Good(c)
  PROVE  set_local_busy(c, busy) \in Ctx /\ Good(set_local_busy(c, busy))
<1> DEFINE x == [c EXCEPT !.LOCAL_BUSY = TRUE]
           y == [c EXCEPT !.LOCAL_BUSY = FALSE]
<1>1. x \in Ctx /\ Good(x)
  <2>1. x \in Ctx BY DEF Ctx
  <2>2. Good(x)
    BY DEF Good, Windowed, Unacked, Watched, Promised, Counted, Outstanding, Ctx
  <2> QED BY <2>1, <2>2
<1>2. y \in Ctx /\ Good(y)
  <2>1. y \in Ctx BY DEF Ctx
  <2>2. Good(y)
    BY DEF Good, Windowed, Unacked, Watched, Promised, Counted, Outstanding, Ctx
  <2> QED BY <2>1, <2>2
<1>3. set_local_busy(c, busy) \in {x, send_rr(y, FALSE), c} BY Zenon DEF set_local_busy
<1> HIDE DEF x, y
<1>4. send_rr(y, FALSE) \in Ctx /\ Keeps(y, send_rr(y, FALSE)) BY <1>2, SendRKeeps
<1>5. Good(send_rr(y, FALSE)) BY <1>2, <1>4 DEF Good, Keeps
<1> QED BY <1>1, <1>3, <1>4, <1>5

LEMMA T1RetryGood ==
  ASSUME NEW c \in Ctx, Windowed(c), Promised(c), Counted(c)
  PROVE  T1Retry(c) \in Ctx /\ Good(T1Retry(c))
<1> DEFINE sabm == send_u(c, TRUE, "SABM", TRUE)
           disc == send_u(c, TRUE, "DISC", TRUE)
           frmr == retransmit_frmr(c)
<1>1. \A r \in {sabm, disc, frmr, Enquire(c)} : t1_start(r) \in Ctx /\ Good(t1_start(r))
  <2>1. sabm \in Ctx /\ Keeps(c, sabm) /\ disc \in Ctx /\ Keeps(c, disc)
        /\ frmr \in Ctx /\ Keeps(c, frmr)
    BY SendUKeeps DEF FrameTypes, retransmit_frmr
  <2>2. Enquire(c) \in Ctx /\ Keeps(c, Enquire(c)) BY SendRKeeps DEF Enquire
  <2> QED BY <2>1, <2>2, TimedGood DEF Keeps
<1> HIDE DEF sabm, disc, frmr
<1>2. CASE c.state = "CONNECTING" BY <1>1, <1>2 DEF T1Retry, sabm
<1>3. CASE c.state = "DISCONNECTING" BY <1>1, <1>3 DEF T1Retry, disc
<1>4. CASE c.state = "CONNECTED" /\ c.va # c.vs BY <1>1, <1>4 DEF T1Retry
<1>5. CASE c.state = "CONNECTED" /\ c.va = c.vs
  BY <1>5 DEF T1Retry, Good, Unacked, Watched
<1>6. CASE c.state = "FRMR_ERROR" BY <1>1, <1>6 DEF T1Retry, frmr
<1>7. CASE c.state = "DISCONNECTED" BY <1>7 DEF T1Retry, Good, Unacked, Watched
<1> QED BY <1>2, <1>3, <1>4, <1>5, <1>6, <1>7, CtxFields DEF States

\* Under the polite policy nothing follows the report of a lost link.
LEMMA LinkFailureState ==
  ASSUME NEW c \in Ctx, Polite
  PROVE  set_state(c, "DISCONNECTED", "LINK_FAILURE").state = "DISCONNECTED"
<1> DEFINE d == [c EXCEPT !.state = "DISCONNECTED"]
           g == [d EXCEPT !.events = Append(@, "LINK_FAILURE")]
<1>1. CASE c.state = "DISCONNECTED" BY <1>1 DEF set_state
<1>2. CASE c.state # "DISCONNECTED"
  <2>1. set_state(c, "DISCONNECTED", "LINK_FAILURE") = on_event(d, "LINK_FAILURE")
    BY <1>2 DEF set_state
  <2>2. on_event(d, "LINK_FAILURE") \in {g, transmit_i(g)} BY Zenon DEF on_event, Polite
  <2>3. g.state = "DISCONNECTED" BY DEF Ctx
  <2> HIDE DEF g
  <2>4. transmit_i(g) = g BY <2>3 DEF transmit_i, CanTransmit
  <2> QED BY <2>1, <2>2, <2>3, <2>4
<1> QED BY <1>1, <1>2

LEMMA T1ExpiredGood ==
  ASSUME NEW c \in Ctx, Good(c)
  PROVE  t1_expired(c) \in Ctx /\ Good(t1_expired(c))
<1> DEFINE e == T1Counted(c)
           s == set_state(e, "DISCONNECTED", "LINK_FAILURE")
<1>1. e \in Ctx /\ Windowed(e) /\ Promised(e)
  <2>1. (c.n2 + 1) % U8 \in 0 .. (U8 - 1)
    <3>1. c.n2 + 1 \in Nat BY CtxFields, WidthAssumption, ModulusAssumption
    <3>2. U8 \in Nat /\ U8 > 0 BY WidthAssumption, ModulusAssumption
    <3> QED BY <3>1, <3>2
  <2> QED BY <2>1 DEF T1Counted, Good, Windowed, Promised, Outstanding, Ctx
<1> HIDE DEF e
<1>2. CASE RetriesExhausted(e)
  <2>1. t1_expired(c) = reset_state(s) BY <1>2 DEF t1_expired, e
  <2>2. s \in Ctx BY <1>1, SetStateKeeps DEF States, Events
  <2>3. Polite => s.state = "DISCONNECTED" BY <1>1, LinkFailureState
  <2> HIDE DEF s
  <2>4. reset_state(s) \in Ctx /\ Windowed(reset_state(s)) /\ Unacked(reset_state(s))
        /\ Promised(reset_state(s)) /\ Counted(reset_state(s))
        /\ reset_state(s).state = s.state
    BY <2>2, ResetGood
  <2> QED BY <2>1, <2>3, <2>4 DEF Good, Watched
<1>3. CASE ~RetriesExhausted(e)
  <2>1. t1_expired(c) = T1Retry(e) BY <1>3 DEF t1_expired, e
  <2>2. Counted(e)
    BY <1>1, <1>3, CtxFields, MaxRetriesAssumption, WidthAssumption
    DEF RetriesExhausted, Counted
  <2> QED BY <1>1, <2>1, <2>2, T1RetryGood
<1> QED BY <1>2, <1>3

LEMMA T2ExpiredGood ==
  ASSUME NEW c \in Ctx, Good(c)
  PROVE  t2_expired(c) \in Ctx /\ Good(t2_expired(c))
<1> DEFINE e == [c EXCEPT !.T2_ACTIVE = FALSE]
<1>1. e \in Ctx BY DEF Ctx
<1>2. Windowed(e) /\ Counted(e) /\ (Polite => Unacked(e) /\ Watched(e))
  BY DEF Good, Windowed, Unacked, Watched, Counted, Outstanding, Ctx
<1>3. t2_expired(c) \in {send_rnr(e, FALSE), send_rr(e, FALSE)} BY Zenon DEF t2_expired
<1> HIDE DEF e
<1>4. PICK r \in {send_rnr(e, FALSE), send_rr(e, FALSE)} : r = t2_expired(c) BY <1>3
<1>5. r \in Ctx /\ Keeps(e, r) /\ ~r.ackOwed BY <1>1, <1>4, SendRKeeps
<1> QED BY <1>2, <1>4, <1>5 DEF Good, Keeps, Promised

LEMMA AbortGood ==
  ASSUME NEW c \in Ctx
  PROVE  abort(c) \in Ctx /\ Good(abort(c))
<1> DEFINE r == reset_state(c)
<1>1. r \in Ctx /\ Windowed(r) /\ Counted(r) BY ResetGood
<1> HIDE DEF r
<1>2. [r EXCEPT !.state = "DISCONNECTED"] \in Ctx BY <1>1 DEF Ctx, States
<1>3. Good([r EXCEPT !.state = "DISCONNECTED"])
  BY <1>1 DEF Good, Windowed, Unacked, Watched, Promised, Counted, Outstanding, Ctx
<1> QED BY <1>2, <1>3 DEF abort, r

--------------------------------------------------------------------------
(* Between calls.                                                         *)

\* The outputs of a call are taken away; nothing the invariant speaks of changes.
LEMMA DrainedGood ==
  ASSUME NEW c \in Ctx, Good(c)
  PROVE  Drained(c) \in Ctx /\ Good(Drained(c))
<1>1. << >> \in Seq(Frame) /\ << >> \in Seq(Events) /\ << >> \in Seq(Payload) OBVIOUS
<1>2. (IF c.RETRANSMIT_PENDING THEN c.retransmit_from ELSE 0) \in Seqs BY CtxFields, ZeroAndEmpty
<1>3. Drained(c) \in Ctx BY <1>1, <1>2 DEF Drained, Ctx
<1>4. /\ Drained(c).state = c.state /\ Drained(c).vs = c.vs /\ Drained(c).va = c.va
      /\ Drained(c).n2 = c.n2 /\ Drained(c).frmrSent = c.frmrSent
      /\ Drained(c).T1_ACTIVE = c.T1_ACTIVE /\ Drained(c).T2_ACTIVE = c.T2_ACTIVE
      /\ Drained(c).RETRANSMIT_PENDING = c.RETRANSMIT_PENDING
      /\ Drained(c).ackOwed = c.ackOwed
  BY DEF Drained, Ctx
<1> QED BY <1>3, <1>4, AlikeKeeps

LEMMA BeginGood ==
  ASSUME NEW c \in Ctx, NEW react \in BOOLEAN, Good(c)
  PROVE  Begin(c, react) \in Ctx /\ Good(Begin(c, react))
<1> DEFINE b == [c EXCEPT !.react = react]
<1>1. b \in Ctx BY DEF Ctx
<1>2. /\ b.state = c.state /\ b.vs = c.vs /\ b.va = c.va /\ b.n2 = c.n2
      /\ b.T1_ACTIVE = c.T1_ACTIVE /\ b.T2_ACTIVE = c.T2_ACTIVE
      /\ b.RETRANSMIT_PENDING = c.RETRANSMIT_PENDING
      /\ b.ackOwed = c.ackOwed /\ b.frmrSent = c.frmrSent
  BY DEF Ctx
<1>3. b = Begin(c, react) BY DEF Begin
<1> HIDE DEF b
<1> QED BY <1>1, <1>2, <1>3, AlikeKeeps

LEMMA TransmitOthersGood ==
  ASSUME NEW c \in Ctx, NEW cmd \in BOOLEAN, Good(c)
  PROVE  /\ transmit_ui(c, cmd, Empty) \in Ctx /\ Good(transmit_ui(c, cmd, Empty))
         /\ transmit_test(c, cmd, Empty) \in Ctx /\ Good(transmit_test(c, cmd, Empty))
<1>1. /\ Append(c.tx, UFrame(cmd, "UI", FALSE, Empty)) \in Seq(Frame)
      /\ Append(c.tx, UFrame(cmd, "TEST", TRUE, Empty)) \in Seq(Frame)
  <2>1. {"UI", "TEST"} \subseteq FrameTypes BY DEF FrameTypes
  <2> QED BY <2>1, UFrameType, ZeroAndEmpty, AppendTx
<1>2. transmit_ui(c, cmd, Empty) \in Ctx /\ transmit_test(c, cmd, Empty) \in Ctx
  BY <1>1 DEF transmit_ui, transmit_test, Ctx
<1>3. Good(transmit_ui(c, cmd, Empty))
  BY DEF transmit_ui, Good, Windowed, Unacked, Watched, Promised, Counted, Outstanding, Ctx
<1>4. Good(transmit_test(c, cmd, Empty))
  BY DEF transmit_test, Good, Windowed, Unacked, Watched, Promised, Counted, Outstanding, Ctx
<1> QED BY <1>2, <1>3, <1>4

LEMMA InitCtxGood == InitCtx \in Ctx /\ Good(InitCtx)
<1>1. Dist(0, 0) = 0 BY ModulusAssumption DEF Dist
<1>2. 0 \in 0 .. (SlotCount - 1) /\ 0 \in 0 .. (U8 - 1) /\ 0 \in 0 .. (PayloadCount - 1)
  BY SlotCountAssumption, WidthAssumption, ModulusAssumption, PayloadAssumption
<1>3. [s \in 0 .. (SlotCount - 1) |-> Empty] \in [0 .. (SlotCount - 1) -> Payload]
  BY ZeroAndEmpty
<1>4. << >> \in Seq(Frame) /\ << >> \in Seq(Events) /\ << >> \in Seq(Payload) OBVIOUS
<1>5. InitCtx \in Ctx BY <1>2, <1>3, <1>4, ZeroAndEmpty DEF InitCtx, Ctx, States
<1>6. Good(InitCtx)
  BY <1>1, SlotCountAssumption, MaxRetriesAssumption
  DEF InitCtx, Good, Windowed, Unacked, Watched, Promised, Counted, Outstanding
<1> QED BY <1>5, <1>6

--------------------------------------------------------------------------
(* A call of the API or a timer leaves a pending retransmission as it is.  *)

SamePending(c, r) == r.RETRANSMIT_PENDING = c.RETRANSMIT_PENDING

LEMMA TransmitPending ==
  ASSUME NEW c \in Ctx
  PROVE  SamePending(c, transmit_i(c))
BY DEF transmit_i, t1_start, SamePending, Ctx

LEMMA LinkSetupPending ==
  ASSUME NEW c \in Ctx
  PROVE  SamePending(c, link_setup(c))
BY DEF link_setup, t1_start, send_u, SamePending, Ctx

LEMMA SetStatePending ==
  ASSUME NEW c \in Ctx, NEW new_state \in States, NEW event \in Events
  PROVE  SamePending(c, set_state(c, new_state, event))
<1> DEFINE n     == [c EXCEPT !.state = new_state]
           fired == [n EXCEPT !.events = Append(@, event)]
<1>1. fired \in Ctx
  <2>1. Append(c.events, event) \in Seq(Events) BY CtxFields
  <2> QED BY <2>1 DEF Ctx
<1>2. SamePending(c, fired) BY DEF SamePending, Ctx
<1> HIDE DEF fired
<1>3. SamePending(c, transmit_i(fired)) /\ SamePending(c, link_setup(fired))
  BY <1>1, <1>2, TransmitPending, LinkSetupPending DEF SamePending
<1>4. SamePending(c, on_event(n, event)) BY <1>2, <1>3 DEF on_event, fired
<1>5. SamePending(c, c) BY DEF SamePending
<1> QED BY <1>4, <1>5 DEF set_state

LEMMA PlainPending ==
  ASSUME NEW c \in Ctx
  PROVE  /\ \A cmd, type, pf : SamePending(c, send_u(c, cmd, type, pf))
         /\ \A cmd, type, pf : SamePending(c, send_s(c, cmd, type, pf))
         /\ SamePending(c, t1_start(c)) /\ SamePending(c, reset_state(c))
BY DEF send_u, send_s, t1_start, reset_state, SamePending, Ctx

LEMMA DisconnectPending ==
  ASSUME NEW c \in Ctx
  PROVE  SamePending(c, disconnect(c))
<1> DEFINE u == send_u(c, TRUE, "DISC", TRUE)
<1>1. u \in Ctx /\ SamePending(c, u) BY SendUKeeps, PlainPending DEF FrameTypes
<1> HIDE DEF u
<1>2. t1_start(u) \in Ctx /\ SamePending(c, t1_start(u))
  BY <1>1, PlainPending DEF t1_start, SamePending, Ctx
<1>3. SamePending(t1_start(u), set_state(t1_start(u), "DISCONNECTING", "DISC_REQ"))
  BY <1>2, SetStatePending DEF States, Events
<1> QED BY <1>2, <1>3 DEF disconnect, u, SamePending

LEMMA LinkResetPending ==
  ASSUME NEW c \in Ctx
  PROVE  SamePending(c, link_reset(c))
<1> DEFINE r == reset_state(c)
           u == send_u(r, TRUE, "SABM", TRUE)
<1>1. r \in Ctx /\ SamePending(c, r) BY ResetGood, PlainPending
<1> HIDE DEF r
<1>2. u \in Ctx /\ SamePending(r, u) BY <1>1, SendUKeeps, PlainPending DEF FrameTypes
<1> HIDE DEF u
<1>3. t1_start(u) \in Ctx /\ SamePending(u, t1_start(u))
  BY <1>2, PlainPending DEF t1_start, Ctx
<1>4. SamePending(t1_start(u), set_state(t1_start(u), "CONNECTING", "RESET"))
  BY <1>3, SetStatePending DEF States, Events
<1> QED BY <1>1, <1>2, <1>3, <1>4 DEF link_reset, u, r, SamePending

LEMMA LocalBusyPending ==
  ASSUME NEW c \in Ctx, NEW busy \in BOOLEAN
  PROVE  SamePending(c, set_local_busy(c, busy))
BY DEF set_local_busy, send_rr, send_s, SamePending, Ctx

LEMMA AbortPending ==
  ASSUME NEW c \in Ctx
  PROVE  SamePending(c, abort(c))
<1>1. reset_state(c) \in Ctx /\ SamePending(c, reset_state(c)) BY ResetGood, PlainPending
<1> QED BY <1>1 DEF abort, SamePending, Ctx

LEMMA T1RetryPending ==
  ASSUME NEW c \in Ctx
  PROVE  SamePending(c, T1Retry(c))
<1> DEFINE sabm == send_u(c, TRUE, "SABM", TRUE)
           disc == send_u(c, TRUE, "DISC", TRUE)
           frmr == retransmit_frmr(c)
<1>1. \A r \in {sabm, disc, frmr, Enquire(c)} : SamePending(c, t1_start(r))
  <2>1. sabm \in Ctx /\ disc \in Ctx /\ frmr \in Ctx
    BY SendUKeeps DEF FrameTypes, retransmit_frmr
  <2>2. Enquire(c) \in Ctx BY SendRKeeps DEF Enquire
  <2>3. SamePending(c, sabm) /\ SamePending(c, disc) /\ SamePending(c, frmr)
    BY PlainPending DEF retransmit_frmr
  <2>4. SamePending(c, Enquire(c)) BY PlainPending DEF Enquire, send_rr, send_rnr
  <2> HIDE DEF sabm, disc, frmr
  <2> QED BY <2>1, <2>2, <2>3, <2>4, PlainPending DEF SamePending
<1> HIDE DEF sabm, disc, frmr
<1>2. SamePending(c, c) BY DEF SamePending
<1> QED BY <1>1, <1>2 DEF T1Retry, sabm, disc, frmr

LEMMA T1ExpiredPending ==
  ASSUME NEW c \in Ctx
  PROVE  SamePending(c, t1_expired(c))
<1> DEFINE e == T1Counted(c)
           s == set_state(e, "DISCONNECTED", "LINK_FAILURE")
<1>1. e \in Ctx /\ SamePending(c, e)
  <2>1. (c.n2 + 1) % U8 \in 0 .. (U8 - 1)
    <3>1. c.n2 + 1 \in Nat BY CtxFields, WidthAssumption, ModulusAssumption
    <3>2. U8 \in Nat /\ U8 > 0 BY WidthAssumption, ModulusAssumption
    <3> QED BY <3>1, <3>2
  <2> QED BY <2>1 DEF T1Counted, SamePending, Ctx
<1> HIDE DEF e
<1>2. s \in Ctx /\ SamePending(e, s)
  BY <1>1, SetStateKeeps, SetStatePending DEF States, Events
<1> HIDE DEF s
<1>3. SamePending(s, reset_state(s)) BY <1>2, PlainPending
<1>4. SamePending(e, T1Retry(e)) BY <1>1, T1RetryPending
<1> QED BY <1>1, <1>2, <1>3, <1>4 DEF t1_expired, e, s, SamePending

LEMMA T2ExpiredPending ==
  ASSUME NEW c \in Ctx
  PROVE  SamePending(c, t2_expired(c))
BY DEF t2_expired, send_rr, send_rnr, send_s, SamePending, Ctx

LEMMA TransmitOthersPending ==
  ASSUME NEW c \in Ctx, NEW cmd \in BOOLEAN
  PROVE  SamePending(c, transmit_ui(c, cmd, Empty)) /\ SamePending(c, transmit_test(c, cmd, Empty))
BY DEF transmit_ui, transmit_test, SamePending, Ctx

==========================================================================
