---------------------------- MODULE HdlcFlowProofs ----------------------------
(***************************************************************************)
(* What the operators of HdlcCore, HdlcDispatch and HdlcApi do to the data *)
(* under way: which payload a retransmission slot and a numbered frame     *)
(* hold, what a pending retransmission refers to, and what a connection    *)
(* leaves to the next.  Nothing is assumed of the callback policy.         *)
(***************************************************************************)
EXTENDS HdlcApiProofs

(***************************************************************************)
(* Predicates on a context, and relations between the contexts before and  *)
(* after an operator.                                                      *)
(***************************************************************************)

\* The payload of the frame sent k frames ago, V(S) having moved by k since.
Named(c, k) == (c.accepted + PayloadCount - k) % PayloadCount

\* The slots behind tx_next_slot hold the unacknowledged payloads.
Held(c) ==
  \A k \in 1 .. Outstanding(c) :
    c.slots[(c.tx_next_slot + SlotCount - k) % SlotCount] = Named(c, k)

Quiet(c) == c.state = "DISCONNECTED" => ~c.T1_ACTIVE

\* A pending retransmission starts at V(A), on a connection.
Pending(c) == c.RETRANSMIT_PENDING => c.state = "CONNECTED" /\ c.retransmit_from = c.va

\* A frame, if numbered, is one of the last n before V(S) and carries its payload.
Faithful(c, f, n) ==
  f.type = "I" => Dist(c.vs, f.ns) \in 1 .. n /\ f.info = Named(c, Dist(c.vs, f.ns))

\* So is every frame this call has sent.
Sent(c, n) == \A i \in 1 .. Len(c.tx) : Faithful(c, c.tx[i], n)

\* What a new connection inherits nothing of.
Fresh(c) == /\ c.va = 0 /\ c.vr = 0 /\ c.n2 = 0
            /\ ~c.REJ_EXCEPTION /\ ~c.REMOTE_BUSY /\ ~c.LOCAL_BUSY /\ ~c.T2_ACTIVE

\* No retransmission slot is wiped.
Spares(c, r) == \A s \in 0 .. (SlotCount - 1) : c.slots[s] # Empty => r.slots[s] # Empty

\* Everything that is about the payloads is the same.
SameWindow(c, r) == /\ r.vs = c.vs /\ r.va = c.va /\ r.tx_next_slot = c.tx_next_slot
                    /\ r.slots = c.slots /\ r.accepted = c.accepted

\* The connection goes on, with what is pending on it.
Carries(c, r) == /\ r \in Ctx /\ r.state = c.state
                 /\ Held(c) => Held(r)
                 /\ Spares(c, r)
                 /\ SamePending(c, r) /\ r.retransmit_from = c.retransmit_from

\* An operator that answers the peer at most, or moves timers and flags.
Replies(c, r) == /\ Carries(c, r) /\ SameWindow(c, r)
                 /\ \A n \in 0 .. 2 : Sent(c, n) => Sent(r, n)

\* What the application's reaction in a callback may do.
Reacts(c, r) == /\ r \in Ctx /\ r.va = c.va
                /\ \/ Carries(c, r)
                   \/ c.state = "DISCONNECTED" /\ r.state = "CONNECTING"
                /\ Held(c) => Held(r)
                /\ SamePending(c, r) /\ r.retransmit_from = c.retransmit_from
                /\ Fresh(c) => Fresh(r)
                /\ Quiet(c) => Quiet(r)
                /\ \A n \in {0, 1} : Sent(c, n) => Sent(r, n + 1)
                /\ c.state # "CONNECTED" => (Sent(c, 0) => Sent(r, 0))

--------------------------------------------------------------------------
(* Arithmetic of rings.                                                    *)

LEMMA ModSmall ==
  ASSUME NEW n \in Nat \ {0}, NEW x \in 0 .. (n - 1)
  PROVE  x % n = x
OBVIOUS

LEMMA ModTwice ==
  ASSUME NEW n \in Nat \ {0}, NEW x \in n .. (2 * n - 1)
  PROVE  x % n = x - n
OBVIOUS

\* One place behind the next is here.
LEMMA BackFirst ==
  ASSUME NEW n \in Nat \ {0}, NEW x \in 0 .. (n - 1)
  PROVE  (((x + 1) % n) + n - 1) % n = x
<1>1. CASE x + 1 < n
  <2>1. (x + 1) % n = x + 1 BY <1>1, ModSmall
  <2>2. (x + n) % n = x BY ModTwice
  <2> QED BY <2>1, <2>2
<1>2. CASE x + 1 = n
  <2>1. (x + 1) % n = 0 BY <1>2, ModTwice
  <2>2. (n - 1) % n = x BY <1>2, ModSmall
  <2> QED BY <2>1, <2>2
<1> QED BY <1>1, <1>2

\* k places behind the next are k - 1 behind here.
LEMMA BackNext ==
  ASSUME NEW n \in Nat \ {0}, NEW x \in 0 .. (n - 1), NEW k \in 2 .. n
  PROVE  (((x + 1) % n) + n - k) % n = (x + n - (k - 1)) % n
<1>1. CASE x + 1 < n
  <2>1. (x + 1) % n = x + 1 BY <1>1, ModSmall
  <2> QED BY <2>1
<1>2. CASE x + 1 = n
  <2>1. (x + 1) % n = 0 BY <1>2, ModTwice
  <2>2. (n - k) % n = n - k BY ModSmall
  <2>3. (n - 1 + n - (k - 1)) % n = n - k BY ModTwice
  <2> QED BY <1>2, <2>1, <2>2, <2>3
<1> QED BY <1>1, <1>2

\* Fewer than n places behind is somewhere else.
LEMMA BackOther ==
  ASSUME NEW n \in Nat \ {0}, NEW x \in 0 .. (n - 1), NEW k \in 1 .. (n - 1)
  PROVE  (x + n - k) % n # x /\ (x + n - k) % n \in 0 .. (n - 1)
<1>1. CASE x < k
  <2>1. (x + n - k) % n = x + n - k BY <1>1, ModSmall
  <2> QED BY <1>1, <2>1
<1>2. CASE x >= k
  <2>1. (x + n - k) % n = x - k
    <3>1. x + n - k \in n .. (2 * n - 1) BY <1>2
    <3> QED BY <3>1, ModTwice
  <2> QED BY <1>2, <2>1
<1> QED BY <1>1, <1>2

\* From m places behind, j places forward: m - j behind.
LEMMA BackForth ==
  ASSUME NEW n \in Nat \ {0}, NEW x \in 0 .. (n - 1), NEW m \in 1 .. n, NEW j \in 0 .. (m - 1)
  PROVE  (((x + n - m) % n) + j) % n = (x + n - (m - j)) % n
<1>1. CASE x < m
  <2>1. (x + n - m) % n = x + n - m BY <1>1, ModSmall
  <2> QED BY <2>1
<1>2. CASE x >= m
  <2>1. (x + n - m) % n = x - m
    <3>1. x + n - m \in n .. (2 * n - 1) BY <1>2
    <3> QED BY <3>1, ModTwice
  <2>2. (x - m + j) % n = x - m + j BY <1>2, ModSmall
  <2>3. (x + n - (m - j)) % n = x - m + j
    <3>1. x + n - (m - j) \in n .. (2 * n - 1) BY <1>2
    <3> QED BY <3>1, ModTwice
  <2> QED BY <2>1, <2>2, <2>3
<1> QED BY <1>1, <1>2

LEMMA Sizes ==
  /\ SlotCount \in Nat \ {0} /\ SlotCount < MOD8
  /\ PayloadCount \in Nat \ {0} /\ MOD8 <= PayloadCount
BY ModulusAssumption, SlotCountAssumption, PayloadAssumption

LEMMA OutstandingNat ==
  ASSUME NEW c \in Ctx
  PROVE  Outstanding(c) \in Nat /\ Outstanding(c) < MOD8
<1>1. Dist(c.vs, c.va) \in Seqs BY DistRange, CtxFields
<1> QED BY <1>1, ModulusAssumption DEF Outstanding, Seqs

--------------------------------------------------------------------------
(* transmit_i.                                                            *)

LEMMA TransmitFields ==
  ASSUME NEW c \in Ctx, CanTransmit(c)
  PROVE  /\ transmit_i(c).vs = Next8(c.vs) /\ transmit_i(c).va = c.va
         /\ transmit_i(c).tx_next_slot = (c.tx_next_slot + 1) % SlotCount
         /\ transmit_i(c).slots = [c.slots EXCEPT ![c.tx_next_slot] = c.accepted]
         /\ transmit_i(c).accepted = (c.accepted + 1) % PayloadCount
         /\ transmit_i(c).tx = Append(c.tx, IFrame(c.vs, c.vr, c.accepted))
         /\ transmit_i(c).state = c.state /\ SamePending(c, transmit_i(c))
         /\ transmit_i(c).retransmit_from = c.retransmit_from
         /\ transmit_i(c).events = c.events
<1> DEFINE frame == IFrame(c.vs, c.vr, c.accepted)
           sent == [c EXCEPT !.slots[c.tx_next_slot] = c.accepted,
                             !.tx_next_slot = (c.tx_next_slot + 1) % SlotCount,
                             !.tx = Append(@, frame),
                             !.vs = Next8(c.vs),
                             !.accepted = (c.accepted + 1) % PayloadCount,
                             !.ackOwed = FALSE,
                             !.T2_ACTIVE = FALSE]
<1>1. transmit_i(c) \in {sent, t1_start(sent)} BY Zenon DEF transmit_i
<1>2. /\ sent.vs = Next8(c.vs) /\ sent.va = c.va
      /\ sent.tx_next_slot = (c.tx_next_slot + 1) % SlotCount
      /\ sent.slots = [c.slots EXCEPT ![c.tx_next_slot] = c.accepted]
      /\ sent.accepted = (c.accepted + 1) % PayloadCount
      /\ sent.tx = Append(c.tx, frame)
      /\ sent.state = c.state /\ SamePending(c, sent)
      /\ sent.retransmit_from = c.retransmit_from /\ sent.events = c.events
      /\ DOMAIN sent = DOMAIN c
  <2> HIDE DEF frame
  <2> QED BY DEF Ctx, SamePending
<1> HIDE DEF sent
<1>3. /\ t1_start(sent).vs = sent.vs /\ t1_start(sent).va = sent.va
      /\ t1_start(sent).tx_next_slot = sent.tx_next_slot
      /\ t1_start(sent).slots = sent.slots /\ t1_start(sent).accepted = sent.accepted
      /\ t1_start(sent).tx = sent.tx /\ t1_start(sent).state = sent.state
      /\ t1_start(sent).RETRANSMIT_PENDING = sent.RETRANSMIT_PENDING
      /\ t1_start(sent).retransmit_from = sent.retransmit_from
      /\ t1_start(sent).events = sent.events
  BY <1>2 DEF t1_start, Ctx
<1> QED BY <1>1, <1>2, <1>3 DEF SamePending, frame

\* The name of a payload, one frame later.
LEMMA NamedNext ==
  ASSUME NEW c \in Ctx, CanTransmit(c)
  PROVE  /\ Named(transmit_i(c), 1) = c.accepted
         /\ \A k \in 2 .. MOD8 : Named(transmit_i(c), k) = Named(c, k - 1)
<1>1. transmit_i(c).accepted = (c.accepted + 1) % PayloadCount BY TransmitFields
<1>2. c.accepted \in 0 .. (PayloadCount - 1) BY CtxFields
<1>3. \A k \in 2 .. MOD8 : k \in 2 .. PayloadCount BY Sizes, ModulusAssumption
<1>4. Named(transmit_i(c), 1) = c.accepted BY <1>1, <1>2, Sizes, BackFirst DEF Named
<1>5. ASSUME NEW k \in 2 .. MOD8 PROVE Named(transmit_i(c), k) = Named(c, k - 1)
  BY <1>1, <1>2, <1>3, Sizes, BackNext DEF Named
<1> QED BY <1>4, <1>5

LEMMA TransmitHeld ==
  ASSUME NEW c \in Ctx, CanTransmit(c), Held(c)
  PROVE  Held(transmit_i(c))
<1> DEFINE r == transmit_i(c)
           x == c.tx_next_slot
<1>1. x \in 0 .. (SlotCount - 1) /\ c.slots \in [0 .. (SlotCount - 1) -> Payload] BY CtxFields
<1>2. /\ r.slots = [c.slots EXCEPT ![x] = c.accepted]
      /\ r.tx_next_slot = (x + 1) % SlotCount
  BY TransmitFields
<1>3. Outstanding(c) \in Nat /\ Outstanding(c) < SlotCount
  BY OutstandingNat DEF CanTransmit
<1>4. Outstanding(r) = Outstanding(c) + 1
  <2>1. c.vs \in Seqs /\ c.va \in Seqs /\ Dist(c.vs, c.va) < SlotCount
    BY <1>3, CtxFields DEF Outstanding
  <2>2. r.vs = Next8(c.vs) /\ r.va = c.va BY TransmitFields
  <2> QED BY <2>1, <2>2, DistNext DEF Outstanding
<1> SUFFICES ASSUME NEW k \in 1 .. Outstanding(r)
             PROVE  r.slots[(r.tx_next_slot + SlotCount - k) % SlotCount] = Named(r, k)
  BY DEF Held
<1>5. CASE k = 1
  <2>1. (r.tx_next_slot + SlotCount - 1) % SlotCount = x BY <1>1, <1>2, Sizes, BackFirst
  <2> QED BY <1>1, <1>2, <1>5, <2>1, NamedNext
<1>6. CASE k # 1
  <2>1. k \in 2 .. SlotCount /\ k \in 2 .. MOD8 /\ k - 1 \in 1 .. Outstanding(c)
        /\ k - 1 \in 1 .. (SlotCount - 1)
    BY <1>3, <1>4, <1>6, Sizes, ModulusAssumption
  <2> DEFINE y == (x + SlotCount - (k - 1)) % SlotCount
  <2>2. (r.tx_next_slot + SlotCount - k) % SlotCount = y BY <1>1, <1>2, <2>1, Sizes, BackNext
  <2>3. y # x /\ y \in 0 .. (SlotCount - 1) BY <1>1, <2>1, Sizes, BackOther
  <2>4. c.slots[y] = Named(c, k - 1) BY <2>1 DEF Held
  <2>5. Named(r, k) = Named(c, k - 1) BY <2>1, NamedNext
  <2> HIDE DEF y, r
  <2> QED BY <1>1, <1>2, <2>2, <2>3, <2>4, <2>5
<1> QED BY <1>5, <1>6

\* V(S) has moved by one: a distance grows by one, until it wraps.
LEMMA DistGrows ==
  ASSUME NEW a \in Seqs, NEW b \in Seqs, NEW n \in {0, 1}
  PROVE  /\ Dist(a, b) \in 1 .. n => Dist(Next8(a), b) = Dist(a, b) + 1
         /\ Dist(Next8(a), a) = 1
<1>1. CASE MOD8 = 4 BY <1>1 DEF Dist, Next8, Seqs
<1>2. CASE MOD8 = 8 BY <1>2 DEF Dist, Next8, Seqs
<1> QED BY <1>1, <1>2, ModulusAssumption

LEMMA TransmitSent ==
  ASSUME NEW c \in Ctx, CanTransmit(c), NEW n \in {0, 1}, Sent(c, n)
  PROVE  Sent(transmit_i(c), n + 1)
<1> DEFINE r == transmit_i(c)
           f == IFrame(c.vs, c.vr, c.accepted)
<1>1. r.tx = Append(c.tx, f) /\ r.vs = Next8(c.vs) BY TransmitFields
<1>2. c.tx \in Seq(Frame) /\ c.vs \in Seqs BY CtxFields
<1>3. f.type = "I" /\ f.ns = c.vs /\ f.info = c.accepted BY DEF IFrame
<1>4. Faithful(r, f, n + 1) BY <1>1, <1>2, <1>3, DistGrows, NamedNext DEF Faithful
<1> HIDE DEF r, f
<1>5. ASSUME NEW g \in Frame, Faithful(c, g, n) PROVE Faithful(r, g, n + 1)
  <2> SUFFICES ASSUME g.type = "I"
               PROVE  Dist(r.vs, g.ns) \in 1 .. (n + 1) /\ g.info = Named(r, Dist(r.vs, g.ns))
    BY DEF Faithful
  <2>1. g.ns \in Seqs /\ Dist(c.vs, g.ns) \in 1 .. n /\ g.info = Named(c, Dist(c.vs, g.ns))
    BY <1>5 DEF Faithful, Frame
  <2>2. Dist(r.vs, g.ns) = Dist(c.vs, g.ns) + 1 BY <1>1, <1>2, <2>1, DistGrows
  <2>3. Dist(c.vs, g.ns) = 1 /\ n = 1 BY <2>1
  <2>4. Named(r, 2) = Named(c, 1) BY NamedNext, ModulusAssumption DEF r
  <2> QED BY <2>1, <2>2, <2>3, <2>4
<1> SUFFICES ASSUME NEW i \in 1 .. Len(r.tx) PROVE Faithful(r, r.tx[i], n + 1)
  BY DEF Sent, r
<1>6. CASE i = Len(c.tx) + 1 BY <1>1, <1>2, <1>4, <1>6
<1>7. CASE i \in 1 .. Len(c.tx)
  <2>1. r.tx[i] = c.tx[i] /\ c.tx[i] \in Frame BY <1>1, <1>2, <1>7
  <2> QED BY <1>5, <1>7, <2>1 DEF Sent
<1>8. Len(r.tx) = Len(c.tx) + 1 /\ Len(c.tx) \in Nat BY <1>1, <1>2
<1> QED BY <1>6, <1>7, <1>8

--------------------------------------------------------------------------
(* What the relations rest on.                                            *)

LEMMA SameHeld ==
  ASSUME NEW c, NEW r, SameWindow(c, r)
  PROVE  (Held(c) => Held(r)) /\ Spares(c, r)
<1>1. Outstanding(r) = Outstanding(c) BY DEF SameWindow, Outstanding
<1>2. \A k : Named(r, k) = Named(c, k) BY DEF SameWindow, Named
<1>3. Held(c) => Held(r) BY <1>1, <1>2 DEF Held, SameWindow
<1>4. Spares(c, r) BY DEF Spares, SameWindow
<1> QED BY <1>3, <1>4

LEMMA SameFaithful ==
  ASSUME NEW c, NEW r, SameWindow(c, r), NEW f, NEW n
  PROVE  Faithful(c, f, n) => Faithful(r, f, n)
BY DEF SameWindow, Faithful, Named

LEMMA SameSent ==
  ASSUME NEW c, NEW r, SameWindow(c, r), r.tx = c.tx, NEW n
  PROVE  Sent(c, n) => Sent(r, n)
BY SameFaithful DEF Sent

LEMMA SentMore ==
  ASSUME NEW c, NEW n \in Nat, NEW m \in Nat, n <= m
  PROVE  Sent(c, n) => Sent(c, m)
<1>1. \A f : Faithful(c, f, n) => Faithful(c, f, m) BY DEF Faithful
<1> QED BY <1>1 DEF Sent

LEMMA SameFields ==
  ASSUME NEW c, NEW r \in Ctx, SameWindow(c, r), r.tx = c.tx, r.state = c.state,
         SamePending(c, r), r.retransmit_from = c.retransmit_from
  PROVE  Replies(c, r) /\ Carries(c, r)
BY SameHeld, SameSent DEF Replies, Carries

LEMMA ReactsSelf ==
  ASSUME NEW c \in Ctx
  PROVE  Reacts(c, c)
<1>1. Carries(c, c) BY DEF Carries, Spares, SamePending
<1>2. \A n \in {0, 1} : Sent(c, n) => Sent(c, n + 1)
  <2>1. Sent(c, 0) => Sent(c, 1) BY SentMore
  <2>2. Sent(c, 1) => Sent(c, 2) BY SentMore
  <2> QED BY <2>1, <2>2
<1> QED BY <1>1, <1>2 DEF Reacts, SamePending

\* A reaction of d is one of c, when d differs from c in what was handed out.
LEMMA ReactsAlike ==
  ASSUME NEW c, NEW d \in Ctx, NEW r, SameWindow(c, d), d.tx = c.tx, d.state = c.state,
         SamePending(c, d), d.retransmit_from = c.retransmit_from,
         Fresh(c) => Fresh(d), Quiet(c) => Quiet(d), Reacts(d, r)
  PROVE  Reacts(c, r)
<1>1. Carries(c, d) BY SameFields
<1>2. \A n : Sent(c, n) => Sent(d, n) BY SameSent
<1>3. d.va = c.va BY DEF SameWindow
<1>4. Carries(d, r) => Carries(c, r) BY <1>1 DEF Carries, Spares, SamePending
<1> QED BY <1>1, <1>2, <1>3, <1>4 DEF Reacts, Carries, SamePending

LEMMA TransmitReacts ==
  ASSUME NEW c \in Ctx
  PROVE  Reacts(c, transmit_i(c)) /\ transmit_i(c).events = c.events
<1>1. CASE ~CanTransmit(c) BY <1>1, ReactsSelf DEF transmit_i
<1>2. CASE CanTransmit(c)
  <2> DEFINE r == transmit_i(c)
  <2>1. r \in Ctx BY TransmitType
  <2>2. Held(c) => Held(r) BY <1>2, TransmitHeld
  <2>3. Spares(c, r)
    <3>1. r.slots = [c.slots EXCEPT ![c.tx_next_slot] = c.accepted] BY <1>2, TransmitFields
    <3>2. c.slots \in [0 .. (SlotCount - 1) -> Payload] /\ c.accepted # Empty
      BY CtxFields, Sizes DEF Empty
    <3> HIDE DEF r
    <3> QED BY <3>1, <3>2 DEF Spares
  <2>4. Carries(c, r) BY <1>2, <2>1, <2>2, <2>3, TransmitFields DEF Carries
  <2>5. Fresh(c) => Fresh(r) BY <1>2 DEF transmit_i, t1_start, Fresh, Ctx
  <2>6. Quiet(r) BY <1>2, TransmitFields DEF Quiet, CanTransmit
  <2>7. \A n \in {0, 1} : Sent(c, n) => Sent(r, n + 1) BY <1>2, TransmitSent
  <2> QED BY <1>2, <2>1, <2>4, <2>5, <2>6, <2>7, TransmitFields DEF Reacts, Carries, CanTransmit
<1> QED BY <1>1, <1>2

--------------------------------------------------------------------------
(* Sending frames without a number.                                       *)

LEMMA AppendSent ==
  ASSUME NEW c \in Ctx, NEW r, SameWindow(c, r),
         NEW f \in Frame, f.type # "I", r.tx = Append(c.tx, f), NEW n
  PROVE  Sent(c, n) => Sent(r, n)
<1> SUFFICES ASSUME Sent(c, n), NEW i \in 1 .. Len(r.tx) PROVE Faithful(r, r.tx[i], n)
  BY DEF Sent
<1>1. c.tx \in Seq(Frame) /\ Len(c.tx) \in Nat /\ Len(r.tx) = Len(c.tx) + 1 BY CtxFields
<1>2. CASE i = Len(c.tx) + 1 BY <1>1, <1>2 DEF Faithful
<1>3. CASE i \in 1 .. Len(c.tx)
  <2>1. r.tx[i] = c.tx[i] BY <1>1, <1>3
  <2>2. Faithful(c, c.tx[i], n) BY <1>3 DEF Sent
  <2> QED BY <2>1, <2>2, SameFaithful
<1> QED BY <1>1, <1>2, <1>3

LEMMA AppendReplies ==
  ASSUME NEW c \in Ctx, NEW r \in Ctx, SameWindow(c, r), r.state = c.state,
         SamePending(c, r), r.retransmit_from = c.retransmit_from,
         NEW f \in Frame, f.type # "I", r.tx = Append(c.tx, f)
  PROVE  Replies(c, r)
BY SameHeld, AppendSent DEF Replies, Carries

LEMMA ReplyThen ==
  ASSUME NEW c, NEW d, NEW r, Replies(c, d), Replies(d, r)
  PROVE  Replies(c, r)
BY DEF Replies, Carries, SameWindow, Spares, SamePending

LEMMA SendUReplies ==
  ASSUME NEW c \in Ctx, NEW cmd \in BOOLEAN, NEW pf \in BOOLEAN,
         NEW type \in FrameTypes \ {"I"}
  PROVE  /\ Replies(c, send_u(c, cmd, type, pf))
         /\ send_u(c, cmd, type, pf).T1_ACTIVE = c.T1_ACTIVE
         /\ send_u(c, cmd, type, pf).events = c.events
         /\ Fresh(c) => Fresh(send_u(c, cmd, type, pf))
<1> DEFINE f == UFrame(cmd, type, pf, Empty)
           r == send_u(c, cmd, type, pf)
<1>1. r \in Ctx BY SendUKeeps
<1>2. f \in Frame /\ f.type # "I" BY UFrameType, ZeroAndEmpty DEF UFrame
<1>3. /\ SameWindow(c, r) /\ r.state = c.state /\ SamePending(c, r)
      /\ r.retransmit_from = c.retransmit_from /\ r.tx = Append(c.tx, f)
      /\ r.T1_ACTIVE = c.T1_ACTIVE /\ r.events = c.events /\ (Fresh(c) => Fresh(r))
  <2> HIDE DEF f
  <2>1. r = [c EXCEPT !.tx = Append(@, f)] BY DEF send_u, f
  <2> QED BY <2>1 DEF SameWindow, SamePending, Fresh, Ctx
<1> QED BY <1>1, <1>2, <1>3, AppendReplies

LEMMA SendSReplies ==
  ASSUME NEW c \in Ctx, NEW cmd \in BOOLEAN, NEW pf \in BOOLEAN, NEW type \in SFrames
  PROVE  Replies(c, send_s(c, cmd, type, pf))
<1> DEFINE f == SFrame(cmd, type, c.vr, pf)
           r == send_s(c, cmd, type, pf)
<1>1. r \in Ctx BY SendSKeeps
<1>2. f \in Frame /\ f.type # "I" BY SFrameType, CtxFields DEF SFrame, SFrames
<1>3. /\ SameWindow(c, r) /\ r.state = c.state /\ SamePending(c, r)
      /\ r.retransmit_from = c.retransmit_from /\ r.tx = Append(c.tx, f)
  <2> HIDE DEF f
  <2>1. r = [c EXCEPT !.tx = Append(@, f), !.ackOwed = FALSE] BY DEF send_s, f
  <2> QED BY <2>1 DEF SameWindow, SamePending, Ctx
<1> QED BY <1>1, <1>2, <1>3, AppendReplies

LEMMA SendRReplies ==
  ASSUME NEW c \in Ctx, NEW pf \in BOOLEAN,
         NEW r \in {send_rr(c, pf), send_rr_resp(c, pf), send_rnr(c, pf), send_rej(c, pf)}
  PROVE  Replies(c, r)
<1>1. \E cmd \in BOOLEAN, type \in SFrames : r = send_s(c, cmd, type, pf)
  BY DEF send_rr, send_rr_resp, send_rnr, send_rej, SFrames
<1> QED BY <1>1, SendSReplies

LEMMA TimersReply ==
  ASSUME NEW c \in Ctx
  PROVE  /\ Replies(c, t1_start(c)) /\ Replies(c, t1_stop(c))
         /\ Replies(c, t2_start(c)) /\ Replies(c, t2_stop(c))
<1>1. t1_start(c) \in Ctx /\ t1_stop(c) \in Ctx /\ t2_start(c) \in Ctx /\ t2_stop(c) \in Ctx
  BY DEF t1_start, t1_stop, t2_start, t2_stop, Ctx
<1>2. \A r \in {t1_start(c), t1_stop(c), t2_start(c), t2_stop(c)} :
        /\ SameWindow(c, r) /\ r.tx = c.tx /\ r.state = c.state /\ SamePending(c, r)
        /\ r.retransmit_from = c.retransmit_from
  BY DEF t1_start, t1_stop, t2_start, t2_stop, SameWindow, SamePending, Ctx
<1> QED BY <1>1, <1>2, SameFields

--------------------------------------------------------------------------
(* Callbacks.                                                             *)

LEMMA LinkSetupReacts ==
  ASSUME NEW c \in Ctx
  PROVE  /\ Reacts(c, link_setup(c))
         /\ c.events # << >> => link_setup(c).events # << >>
<1>1. CASE c.state # "DISCONNECTED" BY <1>1, ReactsSelf DEF link_setup
<1>2. CASE c.state = "DISCONNECTED"
  <2> DEFINE u == send_u(c, TRUE, "SABM", TRUE)
             t == t1_start(u)
             r == link_setup(c)
  <2>1. u \in Ctx /\ Replies(c, u) /\ (Fresh(c) => Fresh(u))
    BY SendUKeeps, SendUReplies DEF FrameTypes
  <2> HIDE DEF u
  <2>2. t \in Ctx /\ Replies(u, t) /\ (Fresh(u) => Fresh(t))
    BY <2>1, StartT1Keeps, TimersReply DEF t1_start, Fresh, Ctx
  <2>3. r = [t EXCEPT !.state = "CONNECTING", !.events = Append(@, "SETUP_REQ")]
    BY <1>2, Zenon DEF link_setup, t, u
  <2>4. r \in Ctx BY LinkSetupKeeps
  <2> HIDE DEF t, r
  <2>5. /\ SameWindow(t, r) /\ r.tx = t.tx /\ SamePending(t, r)
        /\ r.retransmit_from = t.retransmit_from /\ r.state = "CONNECTING"
        /\ (Fresh(t) => Fresh(r)) /\ r.events = Append(t.events, "SETUP_REQ")
    BY <2>2, <2>3 DEF SameWindow, SamePending, Fresh, Ctx
  <2>6. Held(c) => Held(r) BY <2>1, <2>2, <2>5, SameHeld DEF Replies, Carries
  <2>7. (\A n \in {0, 1} : Sent(c, n) => Sent(r, n + 1)) /\ (Sent(c, 0) => Sent(r, 0))
    <3>1. \A n \in {0, 1} : Sent(c, n) => Sent(r, n)
      BY <2>1, <2>2, <2>5, SameSent DEF Replies
    <3>2. \A n \in {0, 1} : Sent(r, n) => Sent(r, n + 1) BY ReactsSelf, <2>4 DEF Reacts
    <3> QED BY <3>1, <3>2
  <2>8. Quiet(r) BY <2>5 DEF Quiet
  <2>9. r.events # << >>
    <3>1. t.events \in Seq(Events) BY <2>2, CtxFields
    <3> QED BY <2>5, <3>1
  <2>10. r.va = c.va BY <2>1, <2>2, <2>5 DEF Replies, SameWindow
  <2>11. SamePending(c, r) /\ r.retransmit_from = c.retransmit_from
    BY <2>1, <2>2, <2>5 DEF Replies, Carries, SamePending
  <2>12. Reacts(c, r)
    BY <1>2, <2>1, <2>2, <2>4, <2>5, <2>6, <2>7, <2>8, <2>10, <2>11 DEF Reacts
  <2> QED BY <2>9, <2>12 DEF r
<1> QED BY <1>1, <1>2

LEMMA OnEventReacts ==
  ASSUME NEW c \in Ctx, NEW e \in Events
  PROVE  Reacts(c, on_event(c, e)) /\ on_event(c, e).events # << >>
<1> DEFINE d == [c EXCEPT !.events = Append(@, e)]
<1>1. d \in Ctx
  <2>1. Append(c.events, e) \in Seq(Events) BY CtxFields
  <2> QED BY <2>1 DEF Ctx
<1>2. /\ SameWindow(c, d) /\ d.tx = c.tx /\ d.state = c.state /\ SamePending(c, d)
      /\ d.retransmit_from = c.retransmit_from
      /\ (Fresh(c) => Fresh(d)) /\ (Quiet(c) => Quiet(d)) /\ d.events = Append(c.events, e)
  BY DEF SameWindow, SamePending, Fresh, Quiet, Ctx
<1>3. d.events # << >>
  <2>1. c.events \in Seq(Events) BY CtxFields
  <2> QED BY <1>2, <2>1
<1>4. on_event(c, e) \in {d, transmit_i(d), link_setup(d)} BY Zenon DEF on_event
<1> HIDE DEF d
<1>5. \A r \in {d, transmit_i(d), link_setup(d)} : Reacts(d, r) /\ r.events # << >>
  BY <1>1, <1>3, ReactsSelf, TransmitReacts, LinkSetupReacts
<1> QED BY <1>1, <1>2, <1>4, <1>5, ReactsAlike

LEMMA OnDataReacts ==
  ASSUME NEW c \in Ctx, NEW info \in Payload
  PROVE  Reacts(c, on_data(c, info))
<1> DEFINE d == [c EXCEPT !.rcvd = Append(@, info)]
<1>1. d \in Ctx
  <2>1. Append(c.rcvd, info) \in Seq(Payload) BY CtxFields
  <2> QED BY <2>1 DEF Ctx
<1>2. /\ SameWindow(c, d) /\ d.tx = c.tx /\ d.state = c.state /\ SamePending(c, d)
      /\ d.retransmit_from = c.retransmit_from
      /\ (Fresh(c) => Fresh(d)) /\ (Quiet(c) => Quiet(d))
  BY DEF SameWindow, SamePending, Fresh, Quiet, Ctx
<1>3. on_data(c, info) \in {d, transmit_i(d)} BY Zenon DEF on_data
<1> HIDE DEF d
<1>4. \A r \in {d, transmit_i(d)} : Reacts(d, r) BY <1>1, ReactsSelf, TransmitReacts
<1> QED BY <1>1, <1>2, <1>3, <1>4, ReactsAlike

\* set_state reacts like the context with the state replaced.
LEMMA SetStateReacts ==
  ASSUME NEW c \in Ctx, NEW st \in States, NEW e \in Events
  PROVE  /\ Reacts([c EXCEPT !.state = st], set_state(c, st, e))
         /\ c.state # st \/ e = "CONN_REQ" => set_state(c, st, e).events # << >>
<1> DEFINE d == [c EXCEPT !.state = st]
<1>1. d \in Ctx BY DEF Ctx
<1>2. CASE c.state # st \/ e = "CONN_REQ"
  BY <1>1, <1>2, OnEventReacts DEF set_state
<1>3. CASE ~(c.state # st \/ e = "CONN_REQ")
  <2>1. set_state(c, st, e) = c BY <1>3 DEF set_state
  <2>2. /\ SameWindow(d, c) /\ c.tx = d.tx /\ c.state = d.state /\ SamePending(d, c)
        /\ c.retransmit_from = d.retransmit_from
        /\ (Fresh(d) => Fresh(c)) /\ (Quiet(d) => Quiet(c))
    BY <1>3 DEF SameWindow, SamePending, Fresh, Quiet, Ctx
  <2>3. Reacts(c, c) BY ReactsSelf
  <2> HIDE DEF d
  <2>4. Reacts(d, c) BY <2>2, <2>3, ReactsAlike
  <2> QED BY <1>3, <2>1, <2>4 DEF d
<1> QED BY <1>2, <1>3

--------------------------------------------------------------------------
(* Resets, and the set_state that follows.                                *)

\* Nothing outstanding, nothing to hold.
LEMMA HeldEmpty ==
  ASSUME NEW c \in Ctx, c.vs = c.va
  PROVE  Held(c)
<1>1. Outstanding(c) = 0 BY DistZero, CtxFields DEF Outstanding
<1> QED BY <1>1 DEF Held

LEMMA ResetFlow ==
  ASSUME NEW c \in Ctx
  PROVE  /\ Held(reset_state(c)) /\ Fresh(reset_state(c)) /\ ~reset_state(c).T1_ACTIVE
         /\ SamePending(c, reset_state(c))
         /\ reset_state(c).events = c.events
         /\ Sent(c, 0) => Sent(reset_state(c), 0)
<1> DEFINE r == reset_state(c)
<1>1. r \in Ctx /\ r.vs = r.va BY ResetGood
<1>2. Fresh(r) /\ ~r.T1_ACTIVE /\ SamePending(c, r) /\ r.events = c.events /\ r.tx = c.tx
  BY DEF reset_state, Fresh, SamePending, Ctx
<1>3. \A f : Faithful(c, f, 0) => Faithful(r, f, 0) BY DEF Faithful
<1>4. Sent(c, 0) => Sent(r, 0) BY <1>2, <1>3 DEF Sent
<1> QED BY <1>1, <1>2, <1>4, HeldEmpty

\* What every call or frame does to the data under way.  The last part is
\* about the frames a call sends: from a call that has sent no numbered frame.
Outcome(c, r) == /\ Held(c) => Held(r)
                 /\ Quiet(c) => Quiet(r)
                 /\ ~c.RETRANSMIT_PENDING => Pending(r)
                 /\ c.state = "CONNECTED" => Spares(c, r) \/ r.events # << >>
                 /\ c.state # "CONNECTED" /\ r.state = "CONNECTED" => Fresh(r)
                 /\ Sent(c, 0) => Sent(r, 2)

\* A handler that wipes the connection, may answer, and changes the state.
LEMMA WipedOutcome ==
  ASSUME NEW c \in Ctx, NEW st \in States, NEW e \in Events, NEW r \in Ctx,
         Replies(reset_state(c), r), r.T1_ACTIVE = reset_state(c).T1_ACTIVE,
         Fresh(reset_state(c)) => Fresh(r),
         c.state = "CONNECTED" => st # "CONNECTED" \/ e = "CONN_REQ"
  PROVE  Outcome(c, set_state(r, st, e))
<1> DEFINE d == [r EXCEPT !.state = st]
           x == set_state(r, st, e)
<1>1. r.state = c.state /\ SamePending(c, r) BY ResetFlow, ResetGood DEF Replies, Carries, SamePending
<1>2. Held(r) /\ Fresh(r) /\ ~r.T1_ACTIVE /\ (Sent(c, 0) => Sent(r, 0))
  BY ResetFlow DEF Replies, Carries
<1>3. SameWindow(r, d) /\ d.tx = r.tx /\ Fresh(d) /\ ~d.T1_ACTIVE /\ SamePending(r, d)
  BY <1>2 DEF SameWindow, Fresh, SamePending, Ctx
<1>4. Held(d) /\ Quiet(d) /\ (Sent(r, 0) => Sent(d, 0)) BY <1>2, <1>3, SameHeld, SameSent DEF Quiet
<1>5. Reacts(d, x) /\ (r.state # st \/ e = "CONN_REQ" => x.events # << >>) BY SetStateReacts
<1> HIDE DEF d, x
<1>6. Held(x) /\ Quiet(x) /\ Fresh(x) BY <1>3, <1>4, <1>5 DEF Reacts
<1>7. Sent(c, 0) => Sent(x, 2)
  <2>1. Sent(d, 0) => Sent(x, 1) BY <1>5 DEF Reacts
  <2>2. Sent(x, 1) => Sent(x, 2) BY SentMore
  <2> QED BY <1>2, <1>4, <2>1, <2>2
<1>8. ~c.RETRANSMIT_PENDING => ~x.RETRANSMIT_PENDING BY <1>1, <1>3, <1>5 DEF Reacts, SamePending
<1> QED BY <1>1, <1>5, <1>6, <1>7, <1>8 DEF Outcome, Pending, x

LEMMA ResetReplies ==
  ASSUME NEW c \in Ctx
  PROVE  Replies(reset_state(c), reset_state(c))
<1>1. reset_state(c) \in Ctx BY ResetGood
<1> QED BY <1>1 DEF Replies, Carries, SameWindow, Spares, SamePending

LEMMA ResetUaReplies ==
  ASSUME NEW c \in Ctx, NEW pf \in BOOLEAN
  PROVE  LET r == send_ua(reset_state(c), pf)
         IN /\ r \in Ctx /\ Replies(reset_state(c), r)
            /\ r.T1_ACTIVE = reset_state(c).T1_ACTIVE
            /\ Fresh(reset_state(c)) => Fresh(r)
<1>1. reset_state(c) \in Ctx BY ResetGood
<1>2. "UA" \in FrameTypes /\ "UA" \in FrameTypes \ {"I"} BY DEF FrameTypes
<1> QED BY <1>1, <1>2, SendUReplies, SendUKeeps DEF send_ua

LEMMA AcceptSabmOutcome ==
  ASSUME NEW c \in Ctx, NEW f \in Frame
  PROVE  Outcome(c, accept_sabm(c, f))
<1>1. f.pf \in BOOLEAN BY DEF Frame
<1>2. "CONNECTED" \in States /\ "CONN_REQ" \in Events BY DEF States, Events
<1> QED BY <1>1, <1>2, ResetUaReplies, WipedOutcome DEF accept_sabm

\* A handler that keeps the connection and the state.
LEMMA CarriedOutcome ==
  ASSUME NEW c, NEW r, Carries(c, r), Quiet(c) => Quiet(r), Sent(c, 0) => Sent(r, 2)
  PROVE  Outcome(c, r)
BY DEF Outcome, Carries, Pending, SamePending

LEMMA ReactsOutcome ==
  ASSUME NEW c \in Ctx, NEW r, Reacts(c, r)
  PROVE  Outcome(c, r)
<1>1. Sent(c, 0) => Sent(r, 2)
  <2>1. Sent(c, 0) => Sent(r, 1) BY DEF Reacts
  <2>2. Sent(r, 1) => Sent(r, 2) BY SentMore
  <2> QED BY <2>1, <2>2
<1>2. CASE Carries(c, r) BY <1>1, <1>2, CarriedOutcome DEF Reacts
<1>3. CASE c.state = "DISCONNECTED" /\ r.state = "CONNECTING"
  BY <1>1, <1>3 DEF Outcome, Reacts, Pending, SamePending
<1> QED BY <1>2, <1>3 DEF Reacts

LEMMA RepliesOutcome ==
  ASSUME NEW c \in Ctx, NEW r, Replies(c, r), r.T1_ACTIVE = c.T1_ACTIVE \/ c.state # "DISCONNECTED"
  PROVE  Outcome(c, r)
<1>1. Sent(c, 0) => Sent(r, 2)
  <2>1. Sent(r, 0) => Sent(r, 2) BY SentMore
  <2> QED BY <2>1 DEF Replies
<1> QED BY <1>1, CarriedOutcome DEF Replies, Carries, Quiet

\* The answers every state gives.
LEMMA AnswerOutcome ==
  ASSUME NEW c \in Ctx, NEW f \in Frame
  PROVE  /\ Outcome(c, send_ua(c, f.pf)) /\ Outcome(c, send_dm(c, f.pf))
         /\ Outcome(c, send_dm(c, TRUE)) /\ Outcome(c, on_data(c, f.info)) /\ Outcome(c, c)
<1>1. f.pf \in BOOLEAN /\ f.info \in Payload BY DEF Frame
<1>2. {"UA", "DM"} \subseteq FrameTypes \ {"I"} BY DEF FrameTypes
<1>3. Outcome(c, send_ua(c, f.pf)) /\ Outcome(c, send_dm(c, f.pf)) /\ Outcome(c, send_dm(c, TRUE))
  BY <1>1, <1>2, SendUReplies, RepliesOutcome DEF send_ua, send_dm
<1> QED BY <1>1, <1>3, OnDataReacts, ReactsSelf, ReactsOutcome

--------------------------------------------------------------------------
(* DISCONNECTED, CONNECTING, DISCONNECTING.                               *)

LEMMA DisconnectedOutcome ==
  ASSUME NEW c \in Ctx, NEW f \in Frame
  PROVE  Outcome(c, state_disconnected(c, f))
<1>1. state_disconnected(c, f)
        \in {accept_sabm(c, f), send_ua(c, f.pf), on_data(c, f.info), send_dm(c, f.pf), c}
  BY Zenon DEF state_disconnected
<1> QED BY <1>1, AcceptSabmOutcome, AnswerOutcome

\* T1 is stopped before the state changes.
LEMMA StoppedOutcome ==
  ASSUME NEW c \in Ctx, c.state # "CONNECTED", NEW e \in Events
  PROVE  Outcome(c, set_state(t1_stop(c), "DISCONNECTED", e))
<1> DEFINE t == t1_stop(c)
           d == [t EXCEPT !.state = "DISCONNECTED"]
           x == set_state(t, "DISCONNECTED", e)
<1>1. t \in Ctx /\ Replies(c, t) /\ ~t.T1_ACTIVE
  <2>1. t \in Ctx /\ ~t.T1_ACTIVE BY DEF t1_stop, Ctx
  <2> QED BY <2>1, TimersReply
<1> HIDE DEF t
<1>2. SameWindow(t, d) /\ d.tx = t.tx /\ Quiet(d) /\ SamePending(t, d) /\ d.state = "DISCONNECTED"
  BY <1>1 DEF SameWindow, Quiet, SamePending, Ctx
<1>3. Reacts(d, x) BY <1>1, SetStateReacts DEF States
<1> HIDE DEF d, x
<1>4. Held(c) => Held(x) BY <1>1, <1>2, <1>3, SameHeld DEF Replies, Carries, Reacts
<1>5. Quiet(x) /\ x.state # "CONNECTED" BY <1>2, <1>3 DEF Reacts, Carries
<1>6. ~c.RETRANSMIT_PENDING => ~x.RETRANSMIT_PENDING
  BY <1>1, <1>2, <1>3 DEF Replies, Carries, Reacts, SamePending
<1>7. Sent(c, 0) => Sent(x, 2)
  <2>1. Sent(c, 0) => Sent(d, 0) BY <1>1, <1>2, SameSent DEF Replies
  <2>2. Sent(d, 0) => Sent(x, 1) BY <1>3 DEF Reacts
  <2>3. Sent(x, 1) => Sent(x, 2) BY SentMore
  <2> QED BY <2>1, <2>2, <2>3
<1> QED BY <1>4, <1>5, <1>6, <1>7 DEF Outcome, Pending, x, t

LEMMA ConnectingOutcome ==
  ASSUME NEW c \in Ctx, NEW f \in Frame, c.state = "CONNECTING"
  PROVE  Outcome(c, state_connecting(c, f))
<1> DEFINE up == set_state(reset_state(c), "CONNECTED", "CONN_ACCEPTED")
           down == set_state(t1_stop(c), "DISCONNECTED", "PEER_REJECT")
<1>1. Outcome(c, up)
  <2>1. reset_state(c) \in Ctx BY ResetGood
  <2>2. "CONNECTED" \in States /\ "CONN_ACCEPTED" \in Events BY DEF States, Events
  <2> QED BY <2>1, <2>2, ResetReplies, WipedOutcome
<1>2. Outcome(c, down) BY StoppedOutcome DEF Events
<1>3. state_connecting(c, f) \in {send_ua(c, f.pf), up, down, send_dm(c, f.pf), c}
  BY Zenon DEF state_connecting
<1> HIDE DEF up, down
<1> QED BY <1>1, <1>2, <1>3, AnswerOutcome

LEMMA DisconnectingOutcome ==
  ASSUME NEW c \in Ctx, NEW f \in Frame, c.state = "DISCONNECTING"
  PROVE  Outcome(c, state_disconnecting(c, f))
<1> DEFINE done == set_state(t1_stop(c), "DISCONNECTED", "DISC_DONE")
           refused == set_state(t1_stop(c), "DISCONNECTED", "PEER_REJECT")
<1>1. Outcome(c, done) /\ Outcome(c, refused) BY StoppedOutcome DEF Events
<1>2. state_disconnecting(c, f)
        \in {send_dm(c, TRUE), send_dm(c, f.pf), send_ua(c, f.pf), done, refused, c}
  BY Zenon DEF state_disconnecting
<1> HIDE DEF done, refused
<1> QED BY <1>1, <1>2, AnswerOutcome

--------------------------------------------------------------------------
(* CONNECTED.                                                             *)

\* A handler of the data phase: the connection goes on, and one callback at
\* most may have sent a frame.
Goes(c, r) == /\ r \in Ctx /\ r.state = "CONNECTED"
              /\ Held(c) => Held(r)
              /\ Spares(c, r)
              /\ SamePending(c, r)
              /\ \A n \in {0, 1} : Sent(c, n) => Sent(r, n + 1)

LEMMA GoesReply ==
  ASSUME NEW c, NEW d, NEW r, Goes(c, d), Replies(d, r)
  PROVE  Goes(c, r)
<1>1. \A n \in {0, 1} : Sent(d, n + 1) => Sent(r, n + 1) BY DEF Replies
<1>2. Spares(c, r) BY DEF Goes, Replies, Carries, Spares
<1> QED BY <1>1, <1>2 DEF Goes, Replies, Carries, SamePending

LEMMA RepliesGo ==
  ASSUME NEW c \in Ctx, NEW r, Replies(c, r), c.state = "CONNECTED"
  PROVE  Goes(c, r)
<1>1. \A n \in {0, 1} : Sent(r, n) => Sent(r, n + 1)
  <2>1. r \in Ctx BY DEF Replies, Carries
  <2> QED BY <2>1, ReactsSelf DEF Reacts
<1> QED BY <1>1 DEF Goes, Replies, Carries

LEMMA ReactsGo ==
  ASSUME NEW c \in Ctx, NEW r, Reacts(c, r), c.state = "CONNECTED"
  PROVE  Goes(c, r)
BY DEF Goes, Reacts, Carries

\* What trigger_retransmit does, from V(A).
Triggers(c, r) == /\ r \in Ctx /\ SameWindow(c, r) /\ r.tx = c.tx /\ r.state = c.state
                  /\ Pending(c) => Pending(r)

\* Two handlers in a row, and a retransmission recorded at the end.
LEMMA GoThenGo ==
  ASSUME NEW c \in Ctx, NEW d, NEW e, NEW r, c.state = "CONNECTED",
         Goes(c, d), Goes(d, e), Triggers(e, r)
  PROVE  Outcome(c, r)
<1>1. (Held(e) => Held(r)) /\ Spares(e, r) /\ (Sent(e, 2) => Sent(r, 2))
  BY SameHeld, SameSent DEF Triggers
<1>2. Spares(c, r) BY <1>1 DEF Goes, Spares
<1>3. Quiet(r) BY DEF Goes, Quiet, Triggers
<1>4. Sent(c, 0) => Sent(r, 2) BY <1>1 DEF Goes
<1>5. ~c.RETRANSMIT_PENDING => Pending(r) BY DEF Goes, Pending, SamePending, Triggers
<1>6. Held(c) => Held(r) BY <1>1 DEF Goes
<1> QED BY <1>2, <1>3, <1>4, <1>5, <1>6 DEF Outcome

LEMMA GoesSelf ==
  ASSUME NEW c \in Ctx, c.state = "CONNECTED"
  PROVE  Goes(c, c) /\ Replies(c, c) /\ Triggers(c, c)
<1>1. Replies(c, c) BY SameFields DEF SameWindow, SamePending
<1> QED BY <1>1, RepliesGo DEF Triggers, SameWindow

\* An acknowledgement narrows the window from behind.
LEMMA AckHeld ==
  ASSUME NEW c \in Ctx, NEW r \in Ctx, NEW nr \in Seqs, ValidNr(c, nr), Held(c),
         r.va = nr, r.vs = c.vs, r.tx_next_slot = c.tx_next_slot, r.slots = c.slots,
         r.accepted = c.accepted
  PROVE  Held(r)
<1>1. Outstanding(r) <= Outstanding(c) BY DistAck, CtxFields DEF ValidNr, Outstanding
<1>2. Outstanding(r) \in Nat /\ Outstanding(c) \in Nat BY OutstandingNat
<1>3. \A k \in 1 .. Outstanding(r) : k \in 1 .. Outstanding(c) BY <1>1, <1>2
<1>4. \A k : Named(r, k) = Named(c, k) BY DEF Named
<1> QED BY <1>3, <1>4 DEF Held

LEMMA FramesAckedGoes ==
  ASSUME NEW c \in Ctx, NEW nr \in Seqs, ValidNr(c, nr), c.state = "CONNECTED"
  PROVE  Goes(c, frames_acked(c, nr)) /\ frames_acked(c, nr).va = nr
<1> DEFINE a == [c EXCEPT !.va = nr, !.n2 = 0]
<1>1. CASE nr = c.va
  <2>1. frames_acked(c, nr) = c BY <1>1 DEF frames_acked
  <2> QED BY <1>1, <2>1, ReactsSelf, ReactsGo
<1>2. CASE nr # c.va
  <2>1. a \in Ctx
    <3>1. 0 \in 0 .. (U8 - 1) BY WidthAssumption, ModulusAssumption
    <3> QED BY <3>1 DEF Ctx
  <2>2. /\ a.state = "CONNECTED" /\ a.va = nr /\ a.vs = c.vs /\ a.tx = c.tx
        /\ a.tx_next_slot = c.tx_next_slot /\ a.slots = c.slots /\ a.accepted = c.accepted
        /\ SamePending(c, a)
    BY DEF SamePending, Ctx
  <2>3. frames_acked(c, nr) \in {a, on_event(a, "WINDOW_OPEN")}
    BY <1>2, Zenon DEF frames_acked
  <2> HIDE DEF a
  <2>4. Held(c) => Held(a) BY <2>1, <2>2, AckHeld
  <2>5. Spares(c, a) BY <2>2 DEF Spares
  <2>6. \A n : Sent(c, n) => Sent(a, n)
    <3>1. \A f, n : Faithful(c, f, n) => Faithful(a, f, n) BY <2>2 DEF Faithful, Named
    <3> QED BY <2>2, <3>1 DEF Sent
  <2>7. Reacts(a, a) /\ Reacts(a, on_event(a, "WINDOW_OPEN"))
    BY <2>1, ReactsSelf, OnEventReacts DEF Events
  <2>8. ASSUME NEW r, Reacts(a, r)
        PROVE  Goes(c, r) /\ r.va = nr
    <3>1. Goes(a, r) /\ r.va = nr BY <2>1, <2>2, <2>8, ReactsGo DEF Reacts
    <3>2. Spares(c, r) BY <2>5, <3>1 DEF Goes, Spares
    <3> QED BY <2>2, <2>4, <2>6, <3>1, <3>2 DEF Goes, SamePending
  <2> QED BY <2>3, <2>7, <2>8
<1> QED BY <1>1, <1>2

LEMMA ProcessNrGoes ==
  ASSUME NEW c \in Ctx, NEW nr \in Seqs, ValidNr(c, nr), c.state = "CONNECTED"
  PROVE  Goes(c, process_nr(c, nr)) /\ process_nr(c, nr).va = nr
<1> DEFINE a == frames_acked(c, nr)
<1>1. Goes(c, a) /\ a.va = nr BY FramesAckedGoes
<1>2. process_nr(c, nr) \in {t1_stop(a), t1_start(a), c} /\ (c.va # nr => process_nr(c, nr) \in {t1_stop(a), t1_start(a)})
  BY Zenon DEF process_nr
<1> HIDE DEF a
<1>3. a \in Ctx BY <1>1 DEF Goes
<1>4. \A r \in {t1_stop(a), t1_start(a)} : Goes(c, r) /\ r.va = nr
  BY <1>1, <1>3, TimersReply, GoesReply DEF Replies, SameWindow
<1>5. Goes(c, c) BY GoesSelf
<1> QED BY <1>2, <1>4, <1>5

LEMMA InSequenceGoes ==
  ASSUME NEW c \in Ctx, NEW f \in Frame, c.state = "CONNECTED"
  PROVE  Goes(c, handle_in_sequence_iframe(c, f))
<1> DEFINE m == [c EXCEPT !.vr = Next8(c.vr), !.REJ_EXCEPTION = FALSE, !.ackOwed = TRUE,
                          !.received = (c.received + 1) % PayloadCount]
           d == deliver_iframe(c, f)
           busy == send_rnr(d, TRUE)
           ready == send_rr_resp(d, TRUE)
<1>1. m \in Ctx
  <2>1. (c.received + 1) % PayloadCount \in 0 .. (PayloadCount - 1)
    <3>1. c.received + 1 \in Nat BY CtxFields, Sizes
    <3> QED BY <3>1, PayloadRange
  <2> QED BY <2>1, NextRange, CtxFields DEF Ctx
<1>2. /\ SameWindow(c, m) /\ m.tx = c.tx /\ m.state = c.state /\ SamePending(c, m)
      /\ m.retransmit_from = c.retransmit_from
  BY DEF SameWindow, SamePending, Ctx
<1>3. d = on_data(m, f.info) BY DEF deliver_iframe
<1> HIDE DEF m, d
<1>4. Goes(c, d)
  <2>1. Replies(c, m) BY <1>1, <1>2, SameFields
  <2>2. Goes(m, d) BY <1>1, <1>2, <1>3, OnDataReacts, ReactsGo DEF Frame
  <2>3. Spares(c, d) BY <2>1, <2>2 DEF Goes, Replies, Carries, Spares
  <2> QED BY <2>1, <2>2, <2>3 DEF Goes, Replies, Carries, SamePending
<1>5. d \in Ctx BY <1>4 DEF Goes
<1>6. handle_in_sequence_iframe(c, f)
        \in {t2_stop(busy), t2_stop(ready), send_rnr(d, FALSE), t2_start(d), d}
  BY Zenon DEF handle_in_sequence_iframe, d
<1>7. busy \in Ctx /\ Replies(d, busy) /\ ready \in Ctx /\ Replies(d, ready)
      /\ Replies(d, send_rnr(d, FALSE))
  BY <1>5, SendRKeeps, SendRReplies
<1> HIDE DEF busy, ready
<1>8. Replies(d, t2_stop(busy)) /\ Replies(d, t2_stop(ready)) /\ Replies(d, t2_start(d))
  BY <1>5, <1>7, TimersReply, ReplyThen
<1> QED BY <1>4, <1>6, <1>7, <1>8, GoesReply

LEMMA OutOfSequenceGoes ==
  ASSUME NEW c \in Ctx, NEW f \in Frame, c.state = "CONNECTED"
  PROVE  Goes(c, handle_out_of_sequence_iframe(c, f))
<1> DEFINE x == [c EXCEPT !.REJ_EXCEPTION = TRUE]
           r == send_rej(x, f.pf)
<1>1. f.pf \in BOOLEAN BY DEF Frame
<1>2. x \in Ctx /\ Replies(c, x)
  <2>1. x \in Ctx BY DEF Ctx
  <2>2. /\ SameWindow(c, x) /\ x.tx = c.tx /\ x.state = c.state /\ SamePending(c, x)
        /\ x.retransmit_from = c.retransmit_from
    BY DEF SameWindow, SamePending, Ctx
  <2> QED BY <2>1, <2>2, SameFields
<1> HIDE DEF x
<1>3. r \in Ctx /\ Replies(x, r) BY <1>1, <1>2, SendRKeeps, SendRReplies
<1> HIDE DEF r
<1>4. Replies(c, t2_stop(r)) BY <1>2, <1>3, TimersReply, ReplyThen
<1>5. Replies(c, send_rr_resp(c, TRUE)) BY SendRReplies
<1>6. handle_out_of_sequence_iframe(c, f) \in {send_rr_resp(c, TRUE), t2_stop(r), c}
  BY Zenon DEF handle_out_of_sequence_iframe, r, x
<1> QED BY <1>4, <1>5, <1>6, RepliesGo, GoesSelf

LEMMA SendFrmrReplies ==
  ASSUME NEW c \in Ctx
  PROVE  send_frmr(c) \in Ctx /\ Replies(c, send_frmr(c))
<1> DEFINE t == [t2_stop(c) EXCEPT !.frmrSent = TRUE]
           u == retransmit_frmr(t)
<1>1. t \in Ctx /\ Replies(c, t)
  <2>1. t \in Ctx BY DEF t2_stop, Ctx
  <2>2. /\ SameWindow(c, t) /\ t.tx = c.tx /\ t.state = c.state /\ SamePending(c, t)
        /\ t.retransmit_from = c.retransmit_from
    BY DEF t2_stop, SameWindow, SamePending, Ctx
  <2> QED BY <2>1, <2>2, SameFields
<1> HIDE DEF t
<1>2. u \in Ctx /\ Replies(t, u)
  <2>1. "FRMR" \in FrameTypes \ {"I"} BY DEF FrameTypes
  <2> QED BY <1>1, <2>1, SendUReplies, SendUKeeps DEF retransmit_frmr
<1> HIDE DEF u
<1>3. t1_start(u) \in Ctx /\ Replies(u, t1_start(u)) BY <1>2, TimersReply, StartT1Keeps
<1>4. send_frmr(c) = t1_start(u) BY DEF send_frmr, u, t
<1> QED BY <1>1, <1>2, <1>3, <1>4, ReplyThen

\* An FRMR is sent and the connection is given up, with an event.
LEMMA RejectNrOutcome ==
  ASSUME NEW c \in Ctx, c.state = "CONNECTED", NEW d, Goes(c, d)
  PROVE  Outcome(c, reject_nr(d))
<1> DEFINE v == send_frmr(d)
           g == [v EXCEPT !.state = "FRMR_ERROR"]
           x == set_state(v, "FRMR_ERROR", "PROTOCOL_ERROR")
<1>1. d \in Ctx BY DEF Goes
<1>2. v \in Ctx /\ Goes(c, v) BY <1>1, SendFrmrReplies, GoesReply
<1> HIDE DEF v
<1>3. SameWindow(v, g) /\ g.tx = v.tx /\ g.state = "FRMR_ERROR" /\ SamePending(v, g)
  BY <1>2 DEF SameWindow, SamePending, Ctx
<1>4. Reacts(g, x) /\ x.events # << >>
  <2>1. v.state # "FRMR_ERROR" BY <1>2 DEF Goes
  <2>2. "FRMR_ERROR" \in States /\ "PROTOCOL_ERROR" \in Events BY DEF States, Events
  <2> QED BY <1>2, <2>1, <2>2, SetStateReacts
<1> HIDE DEF g, x
<1>5. Held(c) => Held(x) BY <1>2, <1>3, <1>4, SameHeld DEF Goes, Reacts
<1>6. x.state = "FRMR_ERROR" BY <1>3, <1>4 DEF Reacts, Carries
<1>7. ~c.RETRANSMIT_PENDING => ~x.RETRANSMIT_PENDING
  BY <1>2, <1>3, <1>4 DEF Goes, Reacts, SamePending
<1>8. Sent(c, 0) => Sent(x, 2)
  <2>1. Sent(c, 0) => Sent(v, 1) BY <1>2 DEF Goes
  <2>2. Sent(v, 1) => Sent(g, 1) BY <1>3, SameSent
  <2>3. Sent(g, 1) => Sent(x, 2) BY <1>4 DEF Reacts
  <2> QED BY <2>1, <2>2, <2>3
<1>9. Outcome(c, x) BY <1>4, <1>5, <1>6, <1>7, <1>8 DEF Outcome, Pending, Quiet
<1> QED BY <1>9 DEF reject_nr, x, v

LEMMA IFrameOutcome ==
  ASSUME NEW c \in Ctx, NEW f \in Frame, c.state = "CONNECTED"
  PROVE  Outcome(c, handle_iframe(c, f))
<1> DEFINE p == process_nr(c, f.nr)
<1>1. f.nr \in Seqs BY DEF Frame
<1>2. CASE ~ValidNr(c, f.nr) BY <1>2, GoesSelf, RejectNrOutcome DEF handle_iframe
<1>3. CASE ValidNr(c, f.nr)
  <2>1. Goes(c, p) BY <1>1, <1>3, ProcessNrGoes
  <2>2. handle_iframe(c, f)
          \in {handle_in_sequence_iframe(p, f), handle_out_of_sequence_iframe(p, f)}
    BY <1>3, Zenon DEF handle_iframe
  <2> HIDE DEF p
  <2>3. p \in Ctx /\ p.state = "CONNECTED" BY <2>1 DEF Goes
  <2>4. \A h \in {handle_in_sequence_iframe(p, f), handle_out_of_sequence_iframe(p, f)} : Goes(p, h)
    BY <2>3, InSequenceGoes, OutOfSequenceGoes
  <2>5. \A h : Goes(p, h) => Triggers(h, h) BY GoesSelf DEF Goes
  <2> QED BY <2>1, <2>2, <2>4, <2>5, GoThenGo
<1> QED BY <1>2, <1>3

LEMMA RemoteBusyGoes ==
  ASSUME NEW c \in Ctx, NEW f \in Frame, c.state = "CONNECTED"
  PROVE  Goes(c, remote_busy_update(c, f))
<1> DEFINE x == [c EXCEPT !.REMOTE_BUSY = FALSE]
           y == [c EXCEPT !.REMOTE_BUSY = TRUE]
<1>1. x \in Ctx /\ y \in Ctx BY DEF Ctx
<1>2. \A z \in {x, y} : /\ SameWindow(c, z) /\ z.tx = c.tx /\ z.state = c.state /\ SamePending(c, z)
                        /\ z.retransmit_from = c.retransmit_from
  BY DEF SameWindow, SamePending, Ctx
<1>3. remote_busy_update(c, f) \in {on_event(x, "PEER_READY"), on_event(y, "PEER_BUSY"), x, c}
  BY Zenon DEF remote_busy_update
<1> HIDE DEF x, y
<1>4. ASSUME NEW z \in {x, y}, NEW r, Reacts(z, r) PROVE Goes(c, r)
  <2>1. z \in Ctx /\ Replies(c, z) BY <1>1, <1>2, SameFields
  <2>2. Goes(z, r) BY <1>2, <1>4, <2>1, ReactsGo
  <2>3. Spares(c, r) BY <2>1, <2>2 DEF Goes, Replies, Carries, Spares
  <2> QED BY <2>1, <2>2, <2>3 DEF Goes, Replies, Carries, SamePending
<1>5. Reacts(x, on_event(x, "PEER_READY")) /\ Reacts(y, on_event(y, "PEER_BUSY")) /\ Reacts(x, x)
  <2>1. "PEER_READY" \in Events /\ "PEER_BUSY" \in Events BY DEF Events
  <2> QED BY <1>1, <2>1, OnEventReacts, ReactsSelf
<1> QED BY <1>3, <1>4, <1>5, GoesSelf

LEMMA TriggerFlow ==
  ASSUME NEW c \in Ctx, c.state = "CONNECTED"
  PROVE  Triggers(c, trigger_retransmit(c, c.va))
<1> DEFINE t == [c EXCEPT !.retransmit_from = c.va, !.RETRANSMIT_PENDING = TRUE]
<1>1. t \in Ctx BY CtxFields DEF Ctx
<1>2. SameWindow(c, t) /\ t.tx = c.tx /\ t.state = c.state /\ Pending(t)
  BY DEF SameWindow, Pending, Ctx
<1>3. trigger_retransmit(c, c.va) \in {c, t} BY Zenon DEF trigger_retransmit
<1> HIDE DEF t
<1> QED BY <1>1, <1>2, <1>3, GoesSelf DEF Triggers

LEMMA RejFlow ==
  ASSUME NEW c \in Ctx, NEW nr \in Seqs, ValidNr(c, nr), c.state = "CONNECTED"
  PROVE  \E a : Goes(c, a) /\ Triggers(a, handle_rej(c, nr))
<1> DEFINE b == frames_acked(c, nr)
           a == t1_stop(b)
<1>1. Goes(c, b) /\ b.va = nr BY FramesAckedGoes
<1> HIDE DEF b
<1>2. Goes(c, a) /\ a.va = nr
  <2>1. Replies(b, a) BY <1>1, TimersReply DEF Goes
  <2> QED BY <1>1, <2>1, GoesReply DEF Replies, SameWindow
<1>3. handle_rej(c, nr) \in {trigger_retransmit(a, nr), a} BY Zenon DEF handle_rej, a, b
<1> HIDE DEF a
<1>4. Triggers(a, trigger_retransmit(a, nr)) /\ Triggers(a, a)
  BY <1>2, TriggerFlow, GoesSelf DEF Goes
<1> QED BY <1>2, <1>3, <1>4

LEMMA SFrameOutcome ==
  ASSUME NEW c \in Ctx, NEW f \in Frame, c.state = "CONNECTED"
  PROVE  Outcome(c, handle_sframe(c, f))
<1> DEFINE b == remote_busy_update(c, f)
           u == send_rr_resp(b, TRUE)
           r == IF f.cmd /\ f.pf THEN t2_stop(u) ELSE b
           p == IF f.type = "REJ" THEN handle_rej(r, f.nr) ELSE process_nr(r, f.nr)
           h == handle_sframe(c, f)
<1>1. Goes(c, b) BY RemoteBusyGoes
<1>2. h \in {reject_nr(r), trigger_retransmit(p, p.va), p} /\ (~ValidNr(r, f.nr) => h = reject_nr(r))
      /\ (ValidNr(r, f.nr) => h \in {trigger_retransmit(p, p.va), p})
  BY Zenon DEF handle_sframe
<1> HIDE DEF b, h
<1>3. Goes(c, r)
  <2>1. b \in Ctx BY <1>1 DEF Goes
  <2>2. u \in Ctx /\ Replies(b, u) BY <2>1, SendRKeeps, SendRReplies
  <2> HIDE DEF u
  <2>3. Replies(b, t2_stop(u)) BY <2>2, TimersReply, ReplyThen
  <2>4. r \in {t2_stop(u), b} OBVIOUS
  <2> QED BY <1>1, <2>3, <2>4, GoesReply
<1> HIDE DEF r
<1>4. f.nr \in Seqs BY DEF Frame
<1>5. r \in Ctx /\ r.state = "CONNECTED" BY <1>3 DEF Goes
<1>6. CASE ~ValidNr(r, f.nr) BY <1>2, <1>3, <1>6, RejectNrOutcome DEF h
<1>7. CASE ValidNr(r, f.nr)
  <2>1. \E e : Goes(r, e) /\ Triggers(e, p)
    <3>1. CASE f.type = "REJ" BY <1>4, <1>5, <1>7, <3>1, RejFlow
    <3>2. CASE f.type # "REJ"
      <4>1. Goes(r, process_nr(r, f.nr)) BY <1>4, <1>5, <1>7, ProcessNrGoes
      <4> QED BY <3>2, <4>1, GoesSelf DEF Goes
    <3> QED BY <3>1, <3>2
  <2> HIDE DEF p
  <2>2. PICK e : Goes(r, e) /\ Triggers(e, p) BY <2>1
  <2>3. p \in Ctx /\ p.state = "CONNECTED" BY <2>2 DEF Goes, Triggers
  <2>4. Triggers(p, trigger_retransmit(p, p.va)) BY <2>3, TriggerFlow
  <2>5. Triggers(e, trigger_retransmit(p, p.va)) BY <2>2, <2>4 DEF Triggers, SameWindow
  <2> QED BY <1>2, <1>3, <1>7, <2>2, <2>5, GoThenGo DEF h
<1> QED BY <1>6, <1>7

LEMMA UFrameOutcome ==
  ASSUME NEW c \in Ctx, NEW f \in Frame, c.state = "CONNECTED", is_uframe(f)
  PROVE  Outcome(c, handle_uframe(c, f))
<1> DEFINE r == reset_state(c)
           disc == set_state(send_ua(r, f.pf), "DISCONNECTED", "PEER_DISC")
           dm == set_state(r, "DISCONNECTED", "PEER_REJECT")
           frmr == set_state(r, "FRMR_ERROR", "PROTOCOL_ERROR")
           echo == [c EXCEPT !.tx = Append(@, UFrame(FALSE, "TEST", f.pf, f.info))]
<1>1. f.pf \in BOOLEAN /\ f.info \in Payload /\ f.cmd \in BOOLEAN /\ f.type \in FrameTypes
  BY DEF Frame
<1>2. {"DISCONNECTED", "FRMR_ERROR"} \subseteq States \ {"CONNECTED"}
      /\ {"PEER_DISC", "PEER_REJECT", "PROTOCOL_ERROR"} \subseteq Events
  BY DEF States, Events
<1>3. Outcome(c, disc) BY <1>1, <1>2, ResetUaReplies, WipedOutcome
<1>4. Outcome(c, dm) /\ Outcome(c, frmr) BY <1>2, ResetGood, ResetReplies, WipedOutcome
<1>5. Outcome(c, echo)
  <2> DEFINE test == UFrame(FALSE, "TEST", f.pf, f.info)
  <2>1. "TEST" \in FrameTypes BY DEF FrameTypes
  <2>2. test \in Frame /\ test.type # "I" BY <1>1, <2>1, UFrameType DEF UFrame
  <2> HIDE DEF test
  <2>3. /\ SameWindow(c, echo) /\ echo.state = c.state /\ SamePending(c, echo)
        /\ echo.retransmit_from = c.retransmit_from /\ echo.tx = Append(c.tx, test)
    BY DEF SameWindow, SamePending, Ctx, test
  <2>4. echo \in Ctx
    <3>1. Append(c.tx, test) \in Seq(Frame) BY <2>2, AppendTx
    <3>2. echo = [c EXCEPT !.tx = Append(c.tx, test)] BY DEF test
    <3> QED BY <3>1, <3>2 DEF Ctx
  <2> HIDE DEF echo
  <2>5. Replies(c, echo) BY <2>2, <2>3, <2>4, AppendReplies
  <2> QED BY <2>5, RepliesOutcome
<1>6. Outcome(c, send_frmr(c)) BY SendFrmrReplies, RepliesOutcome
<1>7. handle_uframe(c, f) \in {accept_sabm(c, f), disc, dm, frmr, on_data(c, f.info), echo, c,
                               send_dm(c, f.pf), send_frmr(c)}
  <2>1. f.type \in {"SABM", "DISC", "DM", "FRMR", "UI", "TEST", "SNRM", "SABME", "UA", "UNKNOWN"}
    BY <1>1 DEF is_uframe, is_iframe, is_sframe, SFrames, FrameTypes
  <2>2. CASE f.type \in {"SABM", "DISC", "DM", "FRMR", "UI"}
    BY <2>2 DEF handle_uframe
  <2>3. CASE f.type \in {"TEST", "SNRM", "SABME", "UA", "UNKNOWN"}
    BY <1>1, <2>3 DEF handle_uframe
  <2> QED BY <2>1, <2>2, <2>3
<1> HIDE DEF r, disc, dm, frmr, echo
<1> QED BY <1>3, <1>4, <1>5, <1>6, <1>7, AcceptSabmOutcome, AnswerOutcome

LEMMA ConnectedOutcome ==
  ASSUME NEW c \in Ctx, NEW f \in Frame, c.state = "CONNECTED"
  PROVE  Outcome(c, state_connected(c, f))
<1>1. CASE is_iframe(f)
  <2>1. ~is_sframe(f) /\ ~is_uframe(f) BY <1>1 DEF is_iframe, is_sframe, is_uframe, SFrames
  <2> QED BY <1>1, <2>1, IFrameOutcome DEF state_connected
<1>2. CASE is_sframe(f)
  <2>1. ~is_iframe(f) /\ ~is_uframe(f) BY <1>2 DEF is_iframe, is_sframe, is_uframe, SFrames
  <2> QED BY <1>2, <2>1, SFrameOutcome DEF state_connected
<1>3. CASE is_uframe(f)
  <2>1. ~is_iframe(f) /\ ~is_sframe(f) BY <1>3 DEF is_uframe
  <2> QED BY <1>3, <2>1, UFrameOutcome DEF state_connected
<1> QED BY <1>1, <1>2, <1>3 DEF is_uframe

LEMMA DispatchOutcome ==
  ASSUME NEW c \in Ctx, NEW f \in Frame
  PROVE  Outcome(c, dispatch_frame(c, f))
<1>1. c.state \in States BY CtxFields
<1>2. CASE c.state = "DISCONNECTED" BY <1>2, DisconnectedOutcome DEF dispatch_frame
<1>3. CASE c.state = "CONNECTING" BY <1>3, ConnectingOutcome DEF dispatch_frame
<1>4. CASE c.state = "CONNECTED" BY <1>4, ConnectedOutcome DEF dispatch_frame
<1>5. CASE c.state = "DISCONNECTING" BY <1>5, DisconnectingOutcome DEF dispatch_frame
<1>6. CASE c.state = "FRMR_ERROR"
  <2>1. dispatch_frame(c, f) \in {accept_sabm(c, f), c}
    BY <1>6 DEF dispatch_frame, state_frmr_error
  <2> QED BY <2>1, AcceptSabmOutcome, AnswerOutcome
<1> QED BY <1>1, <1>2, <1>3, <1>4, <1>5, <1>6 DEF States

--------------------------------------------------------------------------
(* retransmit_outstanding.                                                *)

LEMMA RetransmitFields ==
  ASSUME NEW c \in Ctx
  PROVE  LET r == retransmit_outstanding(c)
         IN /\ SameWindow(c, r) /\ r.state = c.state /\ r.events = c.events
            /\ ~r.RETRANSMIT_PENDING
<1> DEFINE n == Dist(c.vs, c.retransmit_from)
           oldest == OldestSlot(c, n)
           slot(k) == IF k = 0 THEN oldest ELSE (oldest + k) % SlotCount
           resent == [k \in 1 .. n |-> IFrame((c.retransmit_from + k - 1) % MOD8, c.vr,
                                              SlotContent(c, slot(k - 1)))]
           sent == c.tx \o resent
           owed == c.ackOwed /\ n = 0
           r == [c EXCEPT !.RETRANSMIT_PENDING = FALSE, !.tx = sent, !.ackOwed = owed]
<1>1. retransmit_outstanding(c) = t1_start(r) BY Zenon DEF retransmit_outstanding
<1> HIDE DEF sent, owed
<1>2. SameWindow(c, t1_start(r)) /\ t1_start(r).state = c.state /\ t1_start(r).events = c.events
      /\ ~t1_start(r).RETRANSMIT_PENDING
  BY DEF t1_start, SameWindow, Ctx
<1> QED BY <1>1, <1>2

\* The k-th of the n last numbers is n - k + 1 behind V(S).
LEMMA DistForth ==
  ASSUME NEW vs \in Seqs, NEW from \in Seqs, NEW k \in 1 .. Dist(vs, from)
  PROVE  /\ (from + k - 1) % MOD8 \in Seqs
         /\ Dist(vs, (from + k - 1) % MOD8) = Dist(vs, from) - k + 1
<1>1. k \in Seqs /\ k \in Nat BY DistRange, ModulusAssumption DEF Seqs
<1>2. CASE MOD8 = 4 BY <1>1, <1>2 DEF Dist, Seqs
<1>3. CASE MOD8 = 8 BY <1>1, <1>3 DEF Dist, Seqs
<1> QED BY <1>2, <1>3, ModulusAssumption

\* A frame sent again: one of the last Outstanding(c), with what was accepted
\* under its number.
Resent(c, f) == /\ f.type = "I" /\ f.nr = c.vr /\ f.ns \in Seqs
                /\ Dist(c.vs, f.ns) \in 1 .. Outstanding(c)
                /\ f.info = Named(c, Dist(c.vs, f.ns))

\* What retransmit_outstanding adds to the output, from V(A) on.
LEMMA ResentFrames ==
  ASSUME NEW c \in Ctx, Windowed(c), Held(c), c.retransmit_from = c.va
  PROVE  \E o : /\ retransmit_outstanding(c).tx = c.tx \o o
                /\ o \in Seq(Frame)
                /\ \A k \in 1 .. Len(o) : Resent(c, o[k])
<1> DEFINE n == Dist(c.vs, c.retransmit_from)
           oldest == OldestSlot(c, n)
           slot(k) == IF k = 0 THEN oldest ELSE (oldest + k) % SlotCount
           resent == [k \in 1 .. n |-> IFrame((c.retransmit_from + k - 1) % MOD8, c.vr,
                                              SlotContent(c, slot(k - 1)))]
           r == retransmit_outstanding(c)
           x == c.tx_next_slot
<1>1. n \in Nat /\ n < MOD8 /\ n = Outstanding(c) /\ n <= SlotCount
  BY OutstandingNat DEF Outstanding, Windowed
<1>2. x \in 0 .. (SlotCount - 1) /\ c.vs \in Seqs /\ c.retransmit_from \in Seqs BY CtxFields
<1>3. ASSUME NEW k \in 1 .. n
      PROVE  SlotContent(c, slot(k - 1)) = Named(c, n - k + 1)
  <2>1. k \in Nat /\ 1 <= k /\ k <= n /\ n - (k - 1) = n - k + 1 BY <1>1
  <2>2. oldest = (x + SlotCount - n) % SlotCount
    <3>1. x + SlotCount - n \in Nat BY <1>1, <1>2, Sizes
    <3>2. (x + SlotCount - n) % SlotCount \in 0 .. (SlotCount - 1) BY <3>1, SlotRange
    <3>3. (x + SlotCount - n) % SlotCount \in 0 .. (U8 - 1) /\ U8 \in Nat \ {0}
      BY <3>2, Sizes, WidthAssumption, ModulusAssumption
    <3>4. CRem(x + SlotCount - n, SlotCount) = (x + SlotCount - n) % SlotCount
      BY <3>1 DEF CRem
    <3> HIDE DEF n
    <3> QED BY <3>3, <3>4, ModSmall DEF OldestSlot
  <2>3. slot(k - 1) = (x + SlotCount - (n - k + 1)) % SlotCount
    <3> HIDE DEF n, oldest
    <3>1. CASE k = 1 BY <1>1, <2>1, <2>2, <3>1
    <3>2. CASE k # 1
      <4>1. slot(k - 1) = (oldest + (k - 1)) % SlotCount BY <2>1, <3>2
      <4>2. n \in 1 .. SlotCount /\ k - 1 \in 0 .. (n - 1) BY <1>1, <2>1
      <4>3. (((x + SlotCount - n) % SlotCount) + (k - 1)) % SlotCount
              = (x + SlotCount - (n - (k - 1))) % SlotCount
        BY <1>2, <4>2, Sizes, BackForth
      <4> QED BY <2>1, <2>2, <4>1, <4>3
    <3> QED BY <3>1, <3>2
  <2>4. n - k + 1 \in 1 .. Outstanding(c) /\ n - k + 1 \in 1 .. SlotCount
    <3> HIDE DEF n
    <3> QED BY <1>1, <2>1, Sizes
  <2>5. slot(k - 1) \in 0 .. (SlotCount - 1)
    <3>1. x + SlotCount - (n - k + 1) \in Nat BY <1>2, <2>4, Sizes
    <3> QED BY <2>3, <3>1, SlotRange
  <2> HIDE DEF n, slot
  <2> QED BY <2>3, <2>4, <2>5 DEF Held, SlotContent
<1>4. r.tx = c.tx \o resent
  <2> DEFINE s == [c EXCEPT !.RETRANSMIT_PENDING = FALSE, !.tx = @ \o resent,
                            !.ackOwed = @ /\ n = 0]
  <2>1. r = t1_start(s) BY Zenon DEF retransmit_outstanding
  <2> HIDE DEF resent, n
  <2>2. t1_start(s).tx = c.tx \o resent BY DEF t1_start, Ctx
  <2> QED BY <2>1, <2>2
<1>5. ASSUME NEW k \in 1 .. n PROVE resent[k] \in Frame /\ Resent(c, resent[k])
  <2> DEFINE ns == (c.retransmit_from + k - 1) % MOD8
             content == SlotContent(c, slot(k - 1))
  <2>1. resent[k] = IFrame(ns, c.vr, content) OBVIOUS
  <2>2. ns \in Seqs /\ Dist(c.vs, ns) = n - k + 1 BY <1>2, DistForth
  <2>3. content = Named(c, n - k + 1) BY <1>3
  <2> HIDE DEF n, slot, resent, ns, content
  <2>4. n - k + 1 \in 1 .. Outstanding(c) /\ k \in Nat BY <1>1
  <2>5. content \in Payload
    <3> DEFINE back == n - k + 1
    <3>0. back \in 1 .. Outstanding(c) /\ c.accepted \in Nat BY <2>4, CtxFields
    <3> HIDE DEF back
    <3>1. c.accepted + PayloadCount - back \in Nat
      <4>1. Outstanding(c) \in Nat /\ Outstanding(c) <= PayloadCount
        BY Sizes, OutstandingNat, ModulusAssumption
      <4>2. back \in Nat /\ back <= PayloadCount /\ PayloadCount \in Nat BY <3>0, <4>1, Sizes
      <4> QED BY <3>0, <4>2
    <3>2. content \in 0 .. (PayloadCount - 1) BY <2>3, <3>1, PayloadRange DEF Named, back
    <3> QED BY <3>2, Sizes DEF Payload, Garbage
  <2>6. resent[k] \in Frame BY <2>1, <2>2, <2>5, IFrameType, CtxFields
  <2>7. Resent(c, resent[k]) BY <2>1, <2>2, <2>3, <2>4 DEF Resent, IFrame
  <2> QED BY <2>6, <2>7
<1> HIDE DEF n, resent, r
<1>6. resent \in Seq(Frame) /\ Len(resent) = n
  <2>1. resent = [k \in 1 .. n |-> resent[k]] BY DEF resent
  <2> QED BY <1>1, <1>5, <2>1
<1> QED BY <1>4, <1>5, <1>6 DEF r

\* What is sent again is what was accepted under that number.
LEMMA RetransmitSent ==
  ASSUME NEW c \in Ctx, Windowed(c), Held(c), c.retransmit_from = c.va, c.tx = << >>
  PROVE  Sent(retransmit_outstanding(c), MOD8 - 1)
<1> DEFINE r == retransmit_outstanding(c)
<1>1. PICK o \in Seq(Frame) : /\ r.tx = c.tx \o o
                              /\ \A k \in 1 .. Len(o) : Resent(c, o[k])
  BY ResentFrames
<1>2. SameWindow(c, r) BY RetransmitFields
<1>3. r.tx = o BY <1>1
<1>4. 1 .. Outstanding(c) \subseteq 1 .. (MOD8 - 1) BY OutstandingNat, ModulusAssumption
<1> HIDE DEF r
<1> SUFFICES ASSUME NEW k \in 1 .. Len(o) PROVE Faithful(r, o[k], MOD8 - 1)
  BY <1>3 DEF Sent, r
<1>5. Faithful(c, o[k], MOD8 - 1) BY <1>1, <1>4 DEF Resent, Faithful
<1> QED BY <1>2, <1>5, SameFaithful

--------------------------------------------------------------------------
(* Calls of the API and of the timers.                                    *)

LEMMA LinkSetupOutcome ==
  ASSUME NEW c \in Ctx
  PROVE  Outcome(c, link_setup(c))
BY LinkSetupReacts, ReactsOutcome

LEMMA TransmitOutcome ==
  ASSUME NEW c \in Ctx
  PROVE  Outcome(c, transmit_i(c))
BY TransmitReacts, ReactsOutcome

\* A reply and a change to a state in which T1 runs.
LEMMA AskedOutcome ==
  ASSUME NEW c \in Ctx, NEW r \in Ctx, Replies(c, r), NEW e \in Events,
         NEW st \in {"CONNECTING", "DISCONNECTING"}
  PROVE  Outcome(c, set_state(r, st, e))
<1> DEFINE d == [r EXCEPT !.state = st]
           x == set_state(r, st, e)
<1>1. SameWindow(r, d) /\ d.tx = r.tx /\ d.state = st /\ SamePending(r, d)
  BY DEF SameWindow, SamePending, Ctx
<1>2. Reacts(d, x) BY SetStateReacts DEF States
<1> HIDE DEF d, x
<1>3. Held(c) => Held(x) BY <1>1, <1>2, SameHeld DEF Replies, Carries, Reacts
<1>4. x.state = st BY <1>1, <1>2 DEF Reacts, Carries
<1>5. ~c.RETRANSMIT_PENDING => ~x.RETRANSMIT_PENDING
  BY <1>1, <1>2 DEF Replies, Carries, Reacts, SamePending
<1>6. Sent(c, 0) => Sent(x, 2)
  <2>1. Sent(c, 0) => Sent(d, 0) BY <1>1, SameSent DEF Replies
  <2>2. Sent(d, 0) => Sent(x, 1) BY <1>2 DEF Reacts
  <2>3. Sent(x, 1) => Sent(x, 2) BY SentMore
  <2> QED BY <2>1, <2>2, <2>3
<1>7. Spares(c, x)
  <2>1. Spares(c, r) /\ Spares(r, d) BY <1>1, SameHeld DEF Replies, Carries
  <2>2. Spares(d, x) BY <1>1, <1>2 DEF Reacts, Carries
  <2> QED BY <2>1, <2>2 DEF Spares
<1> QED BY <1>3, <1>4, <1>5, <1>6, <1>7 DEF Outcome, Pending, Quiet, x

LEMMA DisconnectOutcome ==
  ASSUME NEW c \in Ctx
  PROVE  Outcome(c, disconnect(c))
<1> DEFINE u == send_u(c, TRUE, "DISC", TRUE)
<1>1. u \in Ctx /\ Replies(c, u) BY SendUKeeps, SendUReplies DEF FrameTypes
<1> HIDE DEF u
<1>2. t1_start(u) \in Ctx /\ Replies(c, t1_start(u))
  BY <1>1, StartT1Keeps, TimersReply, ReplyThen
<1> QED BY <1>2, AskedOutcome DEF disconnect, u, Events

\* link_reset and abort wipe the slots without an event: the fourth part of
\* Outcome is not theirs.
Silent(c, r) == /\ Held(r) /\ Quiet(r) /\ SamePending(c, r) /\ r.state # "CONNECTED"
                /\ Sent(c, 0) => Sent(r, 2)

LEMMA LinkResetSilent ==
  ASSUME NEW c \in Ctx
  PROVE  Silent(c, link_reset(c))
<1> DEFINE r == reset_state(c)
           u == send_u(r, TRUE, "SABM", TRUE)
           t == t1_start(u)
           d == [t EXCEPT !.state = "CONNECTING"]
           x == set_state(t, "CONNECTING", "RESET")
<1>1. r \in Ctx /\ Held(r) /\ SamePending(c, r) /\ (Sent(c, 0) => Sent(r, 0))
  BY ResetGood, ResetFlow
<1> HIDE DEF r
<1>2. u \in Ctx /\ Replies(r, u) BY <1>1, SendUKeeps, SendUReplies DEF FrameTypes
<1> HIDE DEF u
<1>3. t \in Ctx /\ Replies(r, t) BY <1>2, StartT1Keeps, TimersReply, ReplyThen
<1> HIDE DEF t
<1>4. SameWindow(t, d) /\ d.tx = t.tx /\ d.state = "CONNECTING" /\ SamePending(t, d)
  BY <1>3 DEF SameWindow, SamePending, Ctx
<1>5. Reacts(d, x) BY <1>3, SetStateReacts DEF States, Events
<1> HIDE DEF d, x
<1>6. Held(x) BY <1>1, <1>3, <1>4, <1>5, SameHeld DEF Replies, Carries, Reacts
<1>7. x.state = "CONNECTING" BY <1>4, <1>5 DEF Reacts, Carries
<1>8. SamePending(c, x) BY <1>1, <1>3, <1>4, <1>5 DEF Replies, Carries, Reacts, SamePending
<1>9. Sent(c, 0) => Sent(x, 2)
  <2>1. Sent(c, 0) => Sent(d, 0) BY <1>1, <1>3, <1>4, SameSent DEF Replies
  <2>2. Sent(d, 0) => Sent(x, 1) BY <1>5 DEF Reacts
  <2>3. Sent(x, 1) => Sent(x, 2) BY SentMore
  <2> QED BY <2>1, <2>2, <2>3
<1>10. Silent(c, x) BY <1>6, <1>7, <1>8, <1>9 DEF Silent, Quiet
<1> QED BY <1>10 DEF link_reset, x, t, u, r

LEMMA AbortSilent ==
  ASSUME NEW c \in Ctx
  PROVE  Silent(c, abort(c))
<1> DEFINE r == reset_state(c)
           a == [r EXCEPT !.state = "DISCONNECTED"]
<1>1. r \in Ctx /\ Held(r) /\ ~r.T1_ACTIVE /\ SamePending(c, r) /\ (Sent(c, 0) => Sent(r, 0))
  BY ResetGood, ResetFlow
<1> HIDE DEF r
<1>2. SameWindow(r, a) /\ a.tx = r.tx /\ a.state = "DISCONNECTED" /\ SamePending(r, a) /\ ~a.T1_ACTIVE
  BY <1>1 DEF SameWindow, SamePending, Ctx
<1> HIDE DEF a
<1>3. Sent(r, 0) => Sent(a, 2) BY <1>2, SameSent, SentMore
<1>4. Silent(c, a) BY <1>1, <1>2, <1>3, SameHeld DEF Silent, Quiet, SamePending
<1> QED BY <1>4 DEF abort, a, r

LEMMA LocalBusyOutcome ==
  ASSUME NEW c \in Ctx, c.state = "CONNECTED", NEW busy \in BOOLEAN
  PROVE  Outcome(c, set_local_busy(c, busy))
<1> DEFINE x == [c EXCEPT !.LOCAL_BUSY = TRUE]
           y == [c EXCEPT !.LOCAL_BUSY = FALSE]
<1>1. x \in Ctx /\ y \in Ctx BY DEF Ctx
<1>2. \A z \in {x, y} : /\ SameWindow(c, z) /\ z.tx = c.tx /\ z.state = c.state /\ SamePending(c, z)
                        /\ z.retransmit_from = c.retransmit_from
  BY DEF SameWindow, SamePending, Ctx
<1>3. set_local_busy(c, busy) \in {x, send_rr(y, FALSE), c} BY Zenon DEF set_local_busy
<1> HIDE DEF x, y
<1>4. Replies(c, x) /\ Replies(c, y) BY <1>1, <1>2, SameFields
<1>5. Replies(c, send_rr(y, FALSE))
  <2>1. Replies(y, send_rr(y, FALSE)) BY <1>1, SendRReplies
  <2> QED BY <1>4, <2>1, ReplyThen
<1>6. Replies(c, c) BY GoesSelf
<1> QED BY <1>3, <1>4, <1>5, <1>6, RepliesOutcome

LEMMA TransmitOthersOutcome ==
  ASSUME NEW c \in Ctx, NEW cmd \in BOOLEAN
  PROVE  Outcome(c, transmit_ui(c, cmd, Empty)) /\ Outcome(c, transmit_test(c, cmd, Empty))
<1> DEFINE ui == UFrame(cmd, "UI", FALSE, Empty)
           test == UFrame(cmd, "TEST", TRUE, Empty)
<1>1. ui \in Frame /\ ui.type # "I" /\ test \in Frame /\ test.type # "I"
  <2>1. {"UI", "TEST"} \subseteq FrameTypes BY DEF FrameTypes
  <2> QED BY <2>1, UFrameType, ZeroAndEmpty DEF UFrame
<1> HIDE DEF ui, test
<1>2. ASSUME NEW f \in {ui, test}
      PROVE  Outcome(c, [c EXCEPT !.tx = Append(@, f)])
  <2> DEFINE r == [c EXCEPT !.tx = Append(@, f)]
  <2>1. r \in Ctx
    <3>1. Append(c.tx, f) \in Seq(Frame) BY <1>1, AppendTx
    <3> QED BY <3>1 DEF Ctx
  <2>2. /\ SameWindow(c, r) /\ r.state = c.state /\ SamePending(c, r)
        /\ r.retransmit_from = c.retransmit_from /\ r.tx = Append(c.tx, f)
        /\ r.T1_ACTIVE = c.T1_ACTIVE
    BY DEF SameWindow, SamePending, Ctx
  <2> HIDE DEF r
  <2>3. Replies(c, r) BY <1>1, <2>1, <2>2, AppendReplies
  <2>4. Outcome(c, r) BY <2>2, <2>3, RepliesOutcome
  <2> QED BY <2>4 DEF r
<1> QED BY <1>2 DEF transmit_ui, transmit_test, ui, test

LEMMA T2ExpiredOutcome ==
  ASSUME NEW c \in Ctx
  PROVE  Outcome(c, t2_expired(c))
<1> DEFINE e == [c EXCEPT !.T2_ACTIVE = FALSE]
           r == t2_expired(c)
<1>1. e = t2_stop(c) BY DEF t2_stop
<1>2. e \in Ctx /\ Replies(c, e)
  <2>1. e \in Ctx BY DEF Ctx
  <2> QED BY <1>1, <2>1, TimersReply
<1>3. r \in {send_rnr(e, FALSE), send_rr(e, FALSE)} BY Zenon DEF t2_expired
<1>4. r.T1_ACTIVE = c.T1_ACTIVE BY DEF t2_expired, send_rnr, send_rr, send_s, Ctx
<1> HIDE DEF e, r
<1>5. Replies(e, r) BY <1>2, <1>3, SendRReplies
<1>6. Outcome(c, r) BY <1>2, <1>4, <1>5, ReplyThen, RepliesOutcome
<1> QED BY <1>6 DEF r

LEMMA T1RetryReplies ==
  ASSUME NEW c \in Ctx
  PROVE  Replies(c, T1Retry(c)) /\ (c.state = "DISCONNECTED" => T1Retry(c) = c)
<1> DEFINE sabm == send_u(c, TRUE, "SABM", TRUE)
           disc == send_u(c, TRUE, "DISC", TRUE)
           frmr == retransmit_frmr(c)
<1>1. \A r \in {sabm, disc, frmr, Enquire(c)} : r \in Ctx /\ Replies(c, r)
  <2>1. sabm \in Ctx /\ Replies(c, sabm) /\ disc \in Ctx /\ Replies(c, disc)
        /\ frmr \in Ctx /\ Replies(c, frmr)
    BY SendUKeeps, SendUReplies DEF FrameTypes, retransmit_frmr
  <2>2. Enquire(c) \in Ctx /\ Replies(c, Enquire(c)) BY SendRKeeps, SendRReplies DEF Enquire
  <2> QED BY <2>1, <2>2
<1>2. T1Retry(c) \in {t1_start(sabm), t1_start(disc), t1_start(frmr), t1_start(Enquire(c)), c}
      /\ (c.state = "DISCONNECTED" => T1Retry(c) = c)
  <2> HIDE DEF sabm, disc, frmr
  <2> QED BY DEF T1Retry, sabm, disc, frmr
<1> HIDE DEF sabm, disc, frmr
<1>3. \A r \in {sabm, disc, frmr, Enquire(c)} : Replies(c, t1_start(r))
  BY <1>1, TimersReply, ReplyThen
<1>4. Replies(c, c) BY SameFields DEF SameWindow, SamePending
<1> QED BY <1>2, <1>3, <1>4

LEMMA T1ExpiredOutcome ==
  ASSUME NEW c \in Ctx
  PROVE  Outcome(c, t1_expired(c))
<1> DEFINE e == T1Counted(c)
           d == [e EXCEPT !.state = "DISCONNECTED"]
           s == set_state(e, "DISCONNECTED", "LINK_FAILURE")
           r == reset_state(s)
<1>1. e \in Ctx
  <2>1. (c.n2 + 1) % U8 \in 0 .. (U8 - 1)
    <3>1. c.n2 + 1 \in Nat BY CtxFields, WidthAssumption, ModulusAssumption
    <3>2. U8 \in Nat /\ U8 > 0 BY WidthAssumption, ModulusAssumption
    <3> QED BY <3>1, <3>2
  <2> QED BY <2>1 DEF T1Counted, Ctx
<1>2. Replies(c, e) /\ ~e.T1_ACTIVE
  <2>1. /\ SameWindow(c, e) /\ e.tx = c.tx /\ e.state = c.state /\ SamePending(c, e)
        /\ e.retransmit_from = c.retransmit_from /\ ~e.T1_ACTIVE
    BY DEF T1Counted, SameWindow, SamePending, Ctx
  <2> QED BY <1>1, <2>1, SameFields
<1>3. t1_expired(c) \in {r, T1Retry(e)} BY Zenon DEF t1_expired
<1> HIDE DEF e
<1>4. Outcome(c, T1Retry(e))
  <2> DEFINE y == T1Retry(e)
  <2>1. Replies(c, y) /\ (e.state = "DISCONNECTED" => y = e)
    BY <1>1, <1>2, T1RetryReplies, ReplyThen
  <2>2. e.state = c.state BY <1>2 DEF Replies, Carries
  <2>3. Quiet(y) BY <1>2, <2>1, <2>2 DEF Quiet, Replies, Carries
  <2>4. Sent(c, 0) => Sent(y, 2)
    <3>1. Sent(y, 0) => Sent(y, 2) BY SentMore
    <3> QED BY <2>1, <3>1 DEF Replies
  <2> HIDE DEF y
  <2>5. Outcome(c, y) BY <2>1, <2>3, <2>4, CarriedOutcome DEF Replies
  <2> QED BY <2>5 DEF y
<1>5. Outcome(c, r)
  <2>1. SameWindow(e, d) /\ d.tx = e.tx /\ d.state = "DISCONNECTED" /\ SamePending(e, d)
    BY <1>1 DEF SameWindow, SamePending, Ctx
  <2>2. Reacts(d, s) /\ (e.state # "DISCONNECTED" => s.events # << >>)
    BY <1>1, SetStateReacts DEF States, Events
  <2> HIDE DEF d, s
  <2>3. s \in Ctx /\ s.state # "CONNECTED" BY <2>1, <2>2 DEF Reacts, Carries
  <2>4. Held(r) /\ ~r.T1_ACTIVE /\ SamePending(s, r) /\ r.events = s.events
        /\ r.state = s.state
    BY <2>3, ResetFlow, ResetGood
  <2>5. c.state = "CONNECTED" => r.events # << >>
    BY <1>2, <2>2, <2>4 DEF Replies, Carries
  <2>6. ~c.RETRANSMIT_PENDING => ~r.RETRANSMIT_PENDING
    BY <1>2, <2>1, <2>2, <2>4 DEF Replies, Carries, Reacts, SamePending
  <2>7. Sent(c, 0) => Sent(r, 2)
    <3>1. Sent(c, 0) => Sent(d, 0) BY <1>2, <2>1, SameSent DEF Replies
    <3>2. Sent(d, 0) => Sent(s, 0) BY <2>1, <2>2 DEF Reacts
    <3>3. Sent(s, 0) => Sent(r, 0) BY <2>3, ResetFlow
    <3>4. Sent(r, 0) => Sent(r, 2) BY SentMore
    <3> QED BY <3>1, <3>2, <3>3, <3>4
  <2> QED BY <2>3, <2>4, <2>5, <2>6, <2>7 DEF Outcome, Pending, Quiet
<1> QED BY <1>3, <1>4, <1>5

--------------------------------------------------------------------------
(* Between calls.                                                         *)

LEMMA DrainedFlow ==
  ASSUME NEW c \in Ctx
  PROVE  LET r == Drained(c)
         IN /\ SameWindow(c, r) /\ r.state = c.state /\ r.tx = << >>
            /\ r.RETRANSMIT_PENDING = c.RETRANSMIT_PENDING
            /\ Held(c) => Held(r)
            /\ Quiet(c) => Quiet(r)
            /\ Pending(c) => Pending(r)
            /\ Fresh(c) => Fresh(r)
<1> DEFINE r == Drained(c)
<1>1. SameWindow(c, r) BY DEF Drained, Ctx, SameWindow
<1>2. /\ r.state = c.state /\ r.tx = << >> /\ r.RETRANSMIT_PENDING = c.RETRANSMIT_PENDING
      /\ r.T1_ACTIVE = c.T1_ACTIVE /\ r.va = c.va
      /\ c.RETRANSMIT_PENDING => r.retransmit_from = c.retransmit_from
  BY DEF Drained, Ctx
<1>3. Fresh(c) => Fresh(r) BY DEF Drained, Ctx, Fresh
<1> HIDE DEF r
<1>4. Held(c) => Held(r) BY <1>1, SameHeld
<1>5. (Quiet(c) => Quiet(r)) /\ (Pending(c) => Pending(r)) BY <1>2 DEF Quiet, Pending
<1> QED BY <1>1, <1>2, <1>3, <1>4, <1>5 DEF r

LEMMA BeginFlow ==
  ASSUME NEW c \in Ctx, NEW react \in BOOLEAN
  PROVE  LET b == Begin(c, react)
         IN /\ b \in Ctx /\ SameWindow(c, b) /\ b.state = c.state /\ b.tx = c.tx
            /\ SamePending(c, b)
            /\ Held(c) => Held(b)
            /\ Quiet(c) => Quiet(b)
<1> DEFINE b == Begin(c, react)
<1>1. /\ b \in Ctx /\ b.state = c.state /\ b.tx = c.tx /\ b.T1_ACTIVE = c.T1_ACTIVE
      /\ SameWindow(c, b) /\ SamePending(c, b)
  BY DEF Begin, Ctx, SameWindow, SamePending
<1> HIDE DEF b
<1>2. (Held(c) => Held(b)) /\ (Quiet(c) => Quiet(b)) BY <1>1, SameHeld DEF Quiet
<1> QED BY <1>1, <1>2 DEF b

LEMMA InitFlow == Held(InitCtx) /\ Quiet(InitCtx) /\ Pending(InitCtx)
<1>1. InitCtx \in Ctx BY InitCtxGood
<1>2. /\ InitCtx.vs = InitCtx.va /\ ~InitCtx.T1_ACTIVE /\ ~InitCtx.RETRANSMIT_PENDING
  BY DEF InitCtx
<1>3. Held(InitCtx) BY <1>1, <1>2, HeldEmpty
<1> QED BY <1>2, <1>3 DEF Quiet, Pending

--------------------------------------------------------------------------
(* Retransmissions overtaken by other frames of the same buffer, when the  *)
(* application sends nothing from callbacks.                               *)

\* Every retransmission slot is empty.
Wiped(c) == \A s \in 0 .. (SlotCount - 1) : c.slots[s] = Empty

\* The window as retransmit_outstanding sees it: V(A) is not read there.
Asked(c) == [c EXCEPT !.va = c.retransmit_from]

\* What is pending can still be sent: the slots from retransmit_from on hold
\* what was accepted, or nothing at all.
Due(c) == c.RETRANSMIT_PENDING => Wiped(c) \/ (Windowed(Asked(c)) /\ Held(Asked(c)))

\* Nothing about the slots or the pending retransmission has changed, V(A) may
\* have, and no numbered frame was sent.
Leaves(c, r) == /\ r \in Ctx
                /\ r.vs = c.vs /\ r.tx_next_slot = c.tx_next_slot
                /\ r.slots = c.slots /\ r.accepted = c.accepted
                /\ SamePending(c, r) /\ r.retransmit_from = c.retransmit_from
                /\ Sent(c, 0) => Sent(r, 0)

\* What one frame may do to what an earlier one left pending.
Overtakes(c, r) == /\ Sent(c, 0) => Sent(r, 0)
                   /\ \/ Leaves(c, r)
                      \/ Wiped(r)
                      \/ r.retransmit_from = r.va

\* With n = 0, no frame is numbered.
LEMMA SentNone ==
  ASSUME NEW c, NEW r, r.tx = c.tx
  PROVE  Sent(c, 0) => Sent(r, 0)
<1>1. \A f : Faithful(c, f, 0) => Faithful(r, f, 0) BY DEF Faithful
<1> QED BY <1>1 DEF Sent

LEMMA RepliesLeaves ==
  ASSUME NEW c, NEW r, Replies(c, r)
  PROVE  Leaves(c, r)
BY DEF Replies, Carries, SameWindow, Leaves

LEMMA LeavesThen ==
  ASSUME NEW c, NEW d, NEW r, Leaves(c, d), Leaves(d, r)
  PROVE  Leaves(c, r)
BY DEF Leaves, SamePending

LEMMA LeavesSelf ==
  ASSUME NEW c \in Ctx
  PROVE  Leaves(c, c)
BY DEF Leaves, SamePending

LEMMA LinkSetupLeaves ==
  ASSUME NEW c \in Ctx
  PROVE  Leaves(c, link_setup(c))
<1>1. CASE c.state # "DISCONNECTED" BY <1>1, LeavesSelf DEF link_setup
<1>2. CASE c.state = "DISCONNECTED"
  <2> DEFINE u == send_u(c, TRUE, "SABM", TRUE)
             t == t1_start(u)
             r == link_setup(c)
  <2>1. u \in Ctx /\ Replies(c, u) BY SendUKeeps, SendUReplies DEF FrameTypes
  <2> HIDE DEF u
  <2>2. t \in Ctx /\ Replies(c, t) BY <2>1, StartT1Keeps, TimersReply, ReplyThen
  <2>3. r = [t EXCEPT !.state = "CONNECTING", !.events = Append(@, "SETUP_REQ")]
    BY <1>2, Zenon DEF link_setup, t, u
  <2>4. r \in Ctx BY LinkSetupKeeps
  <2> HIDE DEF t, r
  <2>5. /\ r.vs = t.vs /\ r.tx_next_slot = t.tx_next_slot /\ r.slots = t.slots
        /\ r.accepted = t.accepted /\ r.tx = t.tx /\ SamePending(t, r)
        /\ r.retransmit_from = t.retransmit_from
    BY <2>2, <2>3 DEF SamePending, Ctx
  <2>6. Leaves(t, r) BY <2>4, <2>5, SentNone DEF Leaves
  <2>7. Leaves(c, r) BY <2>2, <2>6, RepliesLeaves, LeavesThen
  <2> QED BY <2>7 DEF r
<1> QED BY <1>1, <1>2

LEMMA OnEventLeaves ==
  ASSUME SendOn = {}, NEW c \in Ctx, NEW e \in Events
  PROVE  Leaves(c, on_event(c, e)) /\ on_event(c, e).va = c.va
<1> DEFINE d == [c EXCEPT !.events = Append(@, e)]
<1>1. d \in Ctx
  <2>1. Append(c.events, e) \in Seq(Events) BY CtxFields
  <2> QED BY <2>1 DEF Ctx
<1>2. /\ SameWindow(c, d) /\ d.tx = c.tx /\ d.state = c.state /\ SamePending(c, d)
      /\ d.retransmit_from = c.retransmit_from
  BY DEF SameWindow, SamePending, Ctx
<1>3. on_event(c, e) \in {d, link_setup(d)} BY Zenon DEF on_event
<1>4. Reacts(c, on_event(c, e)) BY OnEventReacts
<1> HIDE DEF d
<1>5. Leaves(c, d) BY <1>1, <1>2, SameFields, RepliesLeaves
<1>6. Leaves(c, link_setup(d)) BY <1>1, <1>5, LinkSetupLeaves, LeavesThen
<1> QED BY <1>3, <1>4, <1>5, <1>6 DEF Reacts

LEMMA OnDataLeaves ==
  ASSUME SendOn = {}, NEW c \in Ctx, NEW info \in Payload
  PROVE  Leaves(c, on_data(c, info))
<1> DEFINE d == [c EXCEPT !.rcvd = Append(@, info)]
<1>1. d \in Ctx
  <2>1. Append(c.rcvd, info) \in Seq(Payload) BY CtxFields
  <2> QED BY <2>1 DEF Ctx
<1>2. /\ SameWindow(c, d) /\ d.tx = c.tx /\ d.state = c.state /\ SamePending(c, d)
      /\ d.retransmit_from = c.retransmit_from
  BY DEF SameWindow, SamePending, Ctx
<1>3. on_data(c, info) = d BY Zenon DEF on_data
<1> HIDE DEF d
<1> QED BY <1>1, <1>2, <1>3, SameFields, RepliesLeaves

LEMMA SetStateLeaves ==
  ASSUME SendOn = {}, NEW c \in Ctx, NEW st \in States, NEW e \in Events
  PROVE  Leaves(c, set_state(c, st, e))
<1> DEFINE d == [c EXCEPT !.state = st]
<1>1. d \in Ctx BY DEF Ctx
<1>2. /\ d.vs = c.vs /\ d.tx_next_slot = c.tx_next_slot /\ d.slots = c.slots
      /\ d.accepted = c.accepted /\ d.tx = c.tx /\ SamePending(c, d)
      /\ d.retransmit_from = c.retransmit_from
  BY DEF SamePending, Ctx
<1>3. set_state(c, st, e) \in {on_event(d, e), c} BY Zenon DEF set_state
<1> HIDE DEF d
<1>4. Leaves(c, d) BY <1>1, <1>2, SentNone DEF Leaves
<1>5. Leaves(c, on_event(d, e)) BY <1>1, <1>4, OnEventLeaves, LeavesThen
<1> QED BY <1>3, <1>5, LeavesSelf

LEMMA ResetOvertakes ==
  ASSUME NEW c \in Ctx, NEW r, Leaves(reset_state(c), r)
  PROVE  Overtakes(c, r)
<1>1. Wiped(reset_state(c)) /\ reset_state(c).tx = c.tx BY DEF reset_state, Wiped, Ctx
<1>2. Wiped(r) BY <1>1 DEF Wiped, Leaves
<1>3. Sent(c, 0) => Sent(r, 0) BY <1>1, SentNone DEF Leaves
<1> QED BY <1>2, <1>3 DEF Overtakes

LEMMA AcceptSabmOvertakes ==
  ASSUME SendOn = {}, NEW c \in Ctx, NEW f \in Frame
  PROVE  Overtakes(c, accept_sabm(c, f))
<1> DEFINE u == send_ua(reset_state(c), f.pf)
<1>1. f.pf \in BOOLEAN BY DEF Frame
<1>2. u \in Ctx /\ Leaves(reset_state(c), u) BY <1>1, ResetUaReplies, RepliesLeaves
<1> HIDE DEF u
<1>3. Leaves(u, set_state(u, "CONNECTED", "CONN_REQ")) BY <1>2, SetStateLeaves DEF States, Events
<1>4. Overtakes(c, set_state(u, "CONNECTED", "CONN_REQ")) BY <1>2, <1>3, LeavesThen, ResetOvertakes
<1> QED BY <1>4 DEF accept_sabm, u

LEMMA LeavesOvertakes ==
  ASSUME NEW c, NEW r, Leaves(c, r)
  PROVE  Overtakes(c, r)
BY DEF Leaves, Overtakes

\* The answers every state gives, and the ways down that stop T1.
LEMMA AnswerOvertakes ==
  ASSUME SendOn = {}, NEW c \in Ctx, NEW f \in Frame, NEW e \in Events
  PROVE  /\ Overtakes(c, send_ua(c, f.pf)) /\ Overtakes(c, send_dm(c, f.pf))
         /\ Overtakes(c, send_dm(c, TRUE)) /\ Overtakes(c, on_data(c, f.info))
         /\ Overtakes(c, set_state(t1_stop(c), "DISCONNECTED", e)) /\ Overtakes(c, c)
<1>1. f.pf \in BOOLEAN /\ f.info \in Payload BY DEF Frame
<1>2. {"UA", "DM"} \subseteq FrameTypes \ {"I"} BY DEF FrameTypes
<1>3. Overtakes(c, send_ua(c, f.pf)) /\ Overtakes(c, send_dm(c, f.pf)) /\ Overtakes(c, send_dm(c, TRUE))
  BY <1>1, <1>2, SendUReplies, RepliesLeaves, LeavesOvertakes DEF send_ua, send_dm
<1>4. Overtakes(c, set_state(t1_stop(c), "DISCONNECTED", e))
  <2>1. t1_stop(c) \in Ctx /\ Leaves(c, t1_stop(c)) BY TimersReply, RepliesLeaves DEF Leaves
  <2>2. Leaves(t1_stop(c), set_state(t1_stop(c), "DISCONNECTED", e))
    BY <2>1, SetStateLeaves DEF States
  <2> QED BY <2>1, <2>2, LeavesThen, LeavesOvertakes
<1> QED BY <1>1, <1>3, <1>4, OnDataLeaves, LeavesSelf, LeavesOvertakes

LEMMA FramesAckedLeaves ==
  ASSUME SendOn = {}, NEW c \in Ctx, NEW nr \in Seqs
  PROVE  Leaves(c, frames_acked(c, nr)) /\ frames_acked(c, nr).va = nr
<1> DEFINE a == [c EXCEPT !.va = nr, !.n2 = 0]
<1>1. CASE nr = c.va BY <1>1, LeavesSelf DEF frames_acked
<1>2. CASE nr # c.va
  <2>1. a \in Ctx
    <3>1. 0 \in 0 .. (U8 - 1) BY WidthAssumption, ModulusAssumption
    <3> QED BY <3>1 DEF Ctx
  <2>2. /\ a.vs = c.vs /\ a.tx_next_slot = c.tx_next_slot /\ a.slots = c.slots
        /\ a.accepted = c.accepted /\ a.tx = c.tx /\ SamePending(c, a) /\ a.va = nr
        /\ a.retransmit_from = c.retransmit_from
    BY DEF SamePending, Ctx
  <2>3. frames_acked(c, nr) \in {a, on_event(a, "WINDOW_OPEN")} BY <1>2, Zenon DEF frames_acked
  <2> HIDE DEF a
  <2>4. Leaves(c, a) BY <2>1, <2>2, SentNone DEF Leaves
  <2>5. Leaves(a, on_event(a, "WINDOW_OPEN")) /\ on_event(a, "WINDOW_OPEN").va = nr
    BY <2>1, <2>2, OnEventLeaves DEF Events
  <2> QED BY <2>2, <2>3, <2>4, <2>5, LeavesThen
<1> QED BY <1>1, <1>2

LEMMA ProcessNrLeaves ==
  ASSUME SendOn = {}, NEW c \in Ctx, NEW nr \in Seqs
  PROVE  Leaves(c, process_nr(c, nr))
<1> DEFINE a == frames_acked(c, nr)
<1>1. a \in Ctx /\ Leaves(c, a) BY FramesAckedLeaves DEF Leaves
<1>2. process_nr(c, nr) \in {t1_stop(a), t1_start(a), c} BY Zenon DEF process_nr
<1> HIDE DEF a
<1>3. Leaves(a, t1_stop(a)) /\ Leaves(a, t1_start(a)) BY <1>1, TimersReply, RepliesLeaves
<1> QED BY <1>1, <1>2, <1>3, LeavesThen, LeavesSelf

LEMMA InSequenceLeaves ==
  ASSUME SendOn = {}, NEW c \in Ctx, NEW f \in Frame
  PROVE  Leaves(c, handle_in_sequence_iframe(c, f))
<1> DEFINE m == [c EXCEPT !.vr = Next8(c.vr), !.REJ_EXCEPTION = FALSE, !.ackOwed = TRUE,
                          !.received = (c.received + 1) % PayloadCount]
           d == deliver_iframe(c, f)
           busy == send_rnr(d, TRUE)
           ready == send_rr_resp(d, TRUE)
<1>1. m \in Ctx
  <2>1. (c.received + 1) % PayloadCount \in 0 .. (PayloadCount - 1)
    <3>1. c.received + 1 \in Nat BY CtxFields, Sizes
    <3> QED BY <3>1, PayloadRange
  <2> QED BY <2>1, NextRange, CtxFields DEF Ctx
<1>2. /\ SameWindow(c, m) /\ m.tx = c.tx /\ m.state = c.state /\ SamePending(c, m)
      /\ m.retransmit_from = c.retransmit_from
  BY DEF SameWindow, SamePending, Ctx
<1>3. d = on_data(m, f.info) BY DEF deliver_iframe
<1> HIDE DEF m, d
<1>4. Leaves(c, d)
  <2>1. Leaves(c, m) BY <1>1, <1>2, SameFields, RepliesLeaves
  <2>2. Leaves(m, d) BY <1>1, <1>3, OnDataLeaves DEF Frame
  <2> QED BY <2>1, <2>2, LeavesThen
<1>5. d \in Ctx BY <1>4 DEF Leaves
<1>6. handle_in_sequence_iframe(c, f)
        \in {t2_stop(busy), t2_stop(ready), send_rnr(d, FALSE), t2_start(d), d}
  BY Zenon DEF handle_in_sequence_iframe, d
<1>7. busy \in Ctx /\ Replies(d, busy) /\ ready \in Ctx /\ Replies(d, ready)
      /\ Replies(d, send_rnr(d, FALSE))
  BY <1>5, SendRKeeps, SendRReplies
<1> HIDE DEF busy, ready
<1>8. Replies(d, t2_stop(busy)) /\ Replies(d, t2_stop(ready)) /\ Replies(d, t2_start(d))
  BY <1>5, <1>7, TimersReply, ReplyThen
<1>9. \A h : Replies(d, h) => Leaves(c, h) BY <1>4, RepliesLeaves, LeavesThen
<1> QED BY <1>4, <1>6, <1>7, <1>8, <1>9

LEMMA OutOfSequenceLeaves ==
  ASSUME NEW c \in Ctx, NEW f \in Frame
  PROVE  Leaves(c, handle_out_of_sequence_iframe(c, f))
<1> DEFINE x == [c EXCEPT !.REJ_EXCEPTION = TRUE]
           r == send_rej(x, f.pf)
<1>1. f.pf \in BOOLEAN BY DEF Frame
<1>2. x \in Ctx /\ Replies(c, x)
  <2>1. x \in Ctx BY DEF Ctx
  <2>2. /\ SameWindow(c, x) /\ x.tx = c.tx /\ x.state = c.state /\ SamePending(c, x)
        /\ x.retransmit_from = c.retransmit_from
    BY DEF SameWindow, SamePending, Ctx
  <2> QED BY <2>1, <2>2, SameFields
<1> HIDE DEF x
<1>3. r \in Ctx /\ Replies(x, r) BY <1>1, <1>2, SendRKeeps, SendRReplies
<1> HIDE DEF r
<1>4. Replies(c, t2_stop(r)) BY <1>2, <1>3, TimersReply, ReplyThen
<1>5. Replies(c, send_rr_resp(c, TRUE)) BY SendRReplies
<1>6. handle_out_of_sequence_iframe(c, f) \in {send_rr_resp(c, TRUE), t2_stop(r), c}
  BY Zenon DEF handle_out_of_sequence_iframe, r, x
<1> QED BY <1>4, <1>5, <1>6, RepliesLeaves, LeavesSelf

LEMMA RejectNrLeaves ==
  ASSUME SendOn = {}, NEW c \in Ctx
  PROVE  Leaves(c, reject_nr(c))
<1> DEFINE v == send_frmr(c)
<1>1. v \in Ctx /\ Leaves(c, v) BY SendFrmrReplies, RepliesLeaves
<1> HIDE DEF v
<1>2. Leaves(v, set_state(v, "FRMR_ERROR", "PROTOCOL_ERROR")) BY <1>1, SetStateLeaves DEF States, Events
<1> QED BY <1>1, <1>2, LeavesThen DEF reject_nr, v

LEMMA IFrameLeaves ==
  ASSUME SendOn = {}, NEW c \in Ctx, NEW f \in Frame
  PROVE  Leaves(c, handle_iframe(c, f))
<1> DEFINE p == process_nr(c, f.nr)
<1>1. p \in Ctx /\ Leaves(c, p) BY ProcessNrLeaves DEF Frame, Leaves
<1>2. handle_iframe(c, f)
        \in {reject_nr(c), handle_in_sequence_iframe(p, f), handle_out_of_sequence_iframe(p, f)}
  BY Zenon DEF handle_iframe
<1> HIDE DEF p
<1>3. Leaves(p, handle_in_sequence_iframe(p, f)) /\ Leaves(p, handle_out_of_sequence_iframe(p, f))
  BY <1>1, InSequenceLeaves, OutOfSequenceLeaves
<1> QED BY <1>1, <1>2, <1>3, RejectNrLeaves, LeavesThen

\* trigger_retransmit from V(A).
LEMMA TriggerOvertakes ==
  ASSUME NEW c, NEW d \in Ctx, Overtakes(c, d)
  PROVE  LET t == trigger_retransmit(d, d.va) IN t \in Ctx /\ Overtakes(c, t)
<1> DEFINE t == [d EXCEPT !.retransmit_from = d.va, !.RETRANSMIT_PENDING = TRUE]
<1>1. t \in Ctx BY CtxFields DEF Ctx
<1>2. t.tx = d.tx /\ t.retransmit_from = t.va BY DEF Ctx
<1>3. trigger_retransmit(d, d.va) \in {d, t} BY Zenon DEF trigger_retransmit
<1> HIDE DEF t
<1>4. Overtakes(c, t) BY <1>2, SentNone DEF Overtakes
<1> QED BY <1>1, <1>3, <1>4

LEMMA RejOvertakes ==
  ASSUME SendOn = {}, NEW c \in Ctx, NEW nr \in Seqs
  PROVE  handle_rej(c, nr) \in Ctx /\ Overtakes(c, handle_rej(c, nr))
<1> DEFINE b == frames_acked(c, nr)
           a == t1_stop(b)
<1>1. b \in Ctx /\ Leaves(c, b) /\ b.va = nr BY FramesAckedLeaves DEF Leaves
<1> HIDE DEF b
<1>2. a \in Ctx /\ Leaves(c, a) /\ a.va = nr
  <2>1. Replies(b, a) BY <1>1, TimersReply
  <2> QED BY <1>1, <2>1, RepliesLeaves, LeavesThen DEF Leaves, Replies, SameWindow
<1>3. handle_rej(c, nr) \in {trigger_retransmit(a, nr), a} BY Zenon DEF handle_rej, a, b
<1> HIDE DEF a
<1> QED BY <1>2, <1>3, LeavesOvertakes, TriggerOvertakes

LEMMA RemoteBusyLeaves ==
  ASSUME SendOn = {}, NEW c \in Ctx, NEW f \in Frame
  PROVE  Leaves(c, remote_busy_update(c, f))
<1> DEFINE x == [c EXCEPT !.REMOTE_BUSY = FALSE]
           y == [c EXCEPT !.REMOTE_BUSY = TRUE]
<1>1. x \in Ctx /\ y \in Ctx BY DEF Ctx
<1>2. \A z \in {x, y} : /\ SameWindow(c, z) /\ z.tx = c.tx /\ z.state = c.state /\ SamePending(c, z)
                        /\ z.retransmit_from = c.retransmit_from
  BY DEF SameWindow, SamePending, Ctx
<1>3. remote_busy_update(c, f) \in {on_event(x, "PEER_READY"), on_event(y, "PEER_BUSY"), x, c}
  BY Zenon DEF remote_busy_update
<1> HIDE DEF x, y
<1>4. Leaves(c, x) /\ Leaves(c, y) BY <1>1, <1>2, SameFields, RepliesLeaves
<1>5. Leaves(x, on_event(x, "PEER_READY")) /\ Leaves(y, on_event(y, "PEER_BUSY"))
  BY <1>1, OnEventLeaves DEF Events
<1> QED BY <1>3, <1>4, <1>5, LeavesThen, LeavesSelf

\* What comes before changes neither the slots nor what is pending.
LEMMA LeavesBefore ==
  ASSUME NEW c, NEW d, NEW r, Leaves(c, d), Overtakes(d, r)
  PROVE  Overtakes(c, r)
<1>1. CASE Leaves(d, r) BY <1>1, LeavesThen, LeavesOvertakes
<1>2. CASE ~Leaves(d, r) BY <1>2 DEF Overtakes, Leaves
<1> QED BY <1>1, <1>2

LEMMA SFrameOvertakes ==
  ASSUME SendOn = {}, NEW c \in Ctx, NEW f \in Frame
  PROVE  Overtakes(c, handle_sframe(c, f))
<1> DEFINE b == remote_busy_update(c, f)
           u == send_rr_resp(b, TRUE)
           r == IF f.cmd /\ f.pf THEN t2_stop(u) ELSE b
           p == IF f.type = "REJ" THEN handle_rej(r, f.nr) ELSE process_nr(r, f.nr)
           h == handle_sframe(c, f)
<1>1. h \in {reject_nr(r), trigger_retransmit(p, p.va), p} BY Zenon DEF handle_sframe
<1>2. b \in Ctx /\ Leaves(c, b) BY RemoteBusyLeaves DEF Leaves
<1> HIDE DEF b, h
<1>3. r \in Ctx /\ Leaves(c, r)
  <2>1. u \in Ctx /\ Replies(b, u) BY <1>2, SendRKeeps, SendRReplies
  <2> HIDE DEF u
  <2>2. Replies(b, t2_stop(u)) BY <2>1, TimersReply, ReplyThen
  <2>3. r \in {t2_stop(u), b} OBVIOUS
  <2> QED BY <1>2, <2>2, <2>3, RepliesLeaves, LeavesThen DEF Leaves
<1> HIDE DEF r
<1>4. p \in Ctx /\ Overtakes(r, p)
  <2>1. handle_rej(r, f.nr) \in Ctx /\ Overtakes(r, handle_rej(r, f.nr))
    BY <1>3, RejOvertakes DEF Frame
  <2>2. process_nr(r, f.nr) \in Ctx /\ Overtakes(r, process_nr(r, f.nr))
    BY <1>3, ProcessNrLeaves, LeavesOvertakes DEF Frame, Leaves
  <2> QED BY <2>1, <2>2
<1> HIDE DEF p
<1>5. Overtakes(r, trigger_retransmit(p, p.va)) BY <1>4, TriggerOvertakes
<1>6. Overtakes(r, reject_nr(r)) BY <1>3, RejectNrLeaves, LeavesOvertakes
<1> QED BY <1>1, <1>3, <1>4, <1>5, <1>6, LeavesBefore DEF h

LEMMA UFrameOvertakes ==
  ASSUME SendOn = {}, NEW c \in Ctx, NEW f \in Frame, is_uframe(f)
  PROVE  Overtakes(c, handle_uframe(c, f))
<1> DEFINE r == reset_state(c)
           ua == send_ua(r, f.pf)
           disc == set_state(ua, "DISCONNECTED", "PEER_DISC")
           dm == set_state(r, "DISCONNECTED", "PEER_REJECT")
           frmr == set_state(r, "FRMR_ERROR", "PROTOCOL_ERROR")
           test == UFrame(FALSE, "TEST", f.pf, f.info)
           echo == [c EXCEPT !.tx = Append(@, test)]
<1>1. f.pf \in BOOLEAN /\ f.info \in Payload /\ f.cmd \in BOOLEAN /\ f.type \in FrameTypes
  BY DEF Frame
<1>2. handle_uframe(c, f) \in {accept_sabm(c, f), disc, dm, frmr, on_data(c, f.info), echo, c,
                               send_dm(c, f.pf), send_frmr(c)}
  <2>1. f.type \in {"SABM", "DISC", "DM", "FRMR", "UI", "TEST", "SNRM", "SABME", "UA", "UNKNOWN"}
    BY <1>1 DEF is_uframe, is_iframe, is_sframe, SFrames, FrameTypes
  <2>2. CASE f.type \in {"SABM", "DISC", "DM", "FRMR", "UI"}
    BY <2>2 DEF handle_uframe
  <2>3. CASE f.type \in {"TEST", "SNRM", "SABME", "UA", "UNKNOWN"}
    BY <1>1, <2>3 DEF handle_uframe
  <2> QED BY <2>1, <2>2, <2>3
<1>3. r \in Ctx /\ Leaves(r, r) /\ ua \in Ctx /\ Leaves(r, ua)
  BY <1>1, ResetGood, LeavesSelf, ResetUaReplies, RepliesLeaves
<1>4. Replies(c, echo)
  <2>1. "TEST" \in FrameTypes BY DEF FrameTypes
  <2>2. test \in Frame /\ test.type # "I" BY <1>1, <2>1, UFrameType DEF UFrame
  <2> HIDE DEF test
  <2>3. /\ SameWindow(c, echo) /\ echo.state = c.state /\ SamePending(c, echo)
        /\ echo.retransmit_from = c.retransmit_from /\ echo.tx = Append(c.tx, test)
    BY DEF SameWindow, SamePending, Ctx
  <2>4. echo \in Ctx
    <3>1. Append(c.tx, test) \in Seq(Frame) BY <2>2, AppendTx
    <3> QED BY <3>1 DEF Ctx
  <2> HIDE DEF echo
  <2> QED BY <2>2, <2>3, <2>4, AppendReplies
<1> HIDE DEF ua, echo
<1>5. Overtakes(c, disc) /\ Overtakes(c, dm) /\ Overtakes(c, frmr)
  <2>1. Leaves(r, disc) /\ Leaves(r, dm) /\ Leaves(r, frmr)
    <3> HIDE DEF r
    <3> QED BY <1>3, SetStateLeaves, LeavesThen DEF States, Events
  <2> QED BY <2>1, ResetOvertakes
<1> HIDE DEF r, disc, dm, frmr
<1>6. Overtakes(c, echo) /\ Overtakes(c, send_frmr(c))
  BY <1>4, SendFrmrReplies, RepliesLeaves, LeavesOvertakes
<1>7. /\ Overtakes(c, send_dm(c, f.pf)) /\ Overtakes(c, on_data(c, f.info)) /\ Overtakes(c, c)
  BY AnswerOvertakes DEF Events
<1> QED BY <1>2, <1>5, <1>6, <1>7, AcceptSabmOvertakes

LEMMA DispatchOvertakes ==
  ASSUME SendOn = {}, NEW c \in Ctx, NEW f \in Frame
  PROVE  Overtakes(c, dispatch_frame(c, f))
<1> DEFINE up == set_state(reset_state(c), "CONNECTED", "CONN_ACCEPTED")
           refused == set_state(t1_stop(c), "DISCONNECTED", "PEER_REJECT")
           done == set_state(t1_stop(c), "DISCONNECTED", "DISC_DONE")
<1>1. c.state \in States BY CtxFields
<1>2. Overtakes(c, accept_sabm(c, f)) BY AcceptSabmOvertakes
<1>3. /\ Overtakes(c, send_ua(c, f.pf)) /\ Overtakes(c, send_dm(c, f.pf))
      /\ Overtakes(c, send_dm(c, TRUE)) /\ Overtakes(c, on_data(c, f.info))
      /\ Overtakes(c, refused) /\ Overtakes(c, done) /\ Overtakes(c, c)
  BY AnswerOvertakes DEF Events
<1>4. Overtakes(c, up)
  <2>1. reset_state(c) \in Ctx BY ResetGood
  <2>2. Leaves(reset_state(c), up) BY <2>1, SetStateLeaves DEF States, Events
  <2> QED BY <2>2, ResetOvertakes
<1> HIDE DEF up, refused, done
<1>5. CASE c.state = "DISCONNECTED"
  <2>1. state_disconnected(c, f)
          \in {accept_sabm(c, f), send_ua(c, f.pf), on_data(c, f.info), send_dm(c, f.pf), c}
    BY Zenon DEF state_disconnected
  <2> QED BY <1>2, <1>3, <1>5, <2>1 DEF dispatch_frame
<1>6. CASE c.state = "CONNECTING"
  <2>1. state_connecting(c, f) \in {send_ua(c, f.pf), up, refused, send_dm(c, f.pf), c}
    BY Zenon DEF state_connecting, up, refused
  <2> QED BY <1>3, <1>4, <1>6, <2>1 DEF dispatch_frame
<1>7. CASE c.state = "CONNECTED"
  <2>1. CASE is_iframe(f)
    <3>1. ~is_sframe(f) /\ ~is_uframe(f) BY <2>1 DEF is_iframe, is_sframe, is_uframe, SFrames
    <3> QED BY <1>7, <2>1, <3>1, IFrameLeaves, LeavesOvertakes DEF dispatch_frame, state_connected
  <2>2. CASE is_sframe(f)
    <3>1. ~is_iframe(f) /\ ~is_uframe(f) BY <2>2 DEF is_iframe, is_sframe, is_uframe, SFrames
    <3> QED BY <1>7, <2>2, <3>1, SFrameOvertakes DEF dispatch_frame, state_connected
  <2>3. CASE is_uframe(f)
    <3>1. ~is_iframe(f) /\ ~is_sframe(f) BY <2>3 DEF is_uframe
    <3> QED BY <1>7, <2>3, <3>1, UFrameOvertakes DEF dispatch_frame, state_connected
  <2> QED BY <2>1, <2>2, <2>3 DEF is_uframe
<1>8. CASE c.state = "DISCONNECTING"
  <2>1. state_disconnecting(c, f)
          \in {send_dm(c, TRUE), send_dm(c, f.pf), send_ua(c, f.pf), done, refused, c}
    BY Zenon DEF state_disconnecting, done, refused
  <2> QED BY <1>3, <1>8, <2>1 DEF dispatch_frame
<1>9. CASE c.state = "FRMR_ERROR"
  BY <1>2, <1>3, <1>9 DEF dispatch_frame, state_frmr_error
<1> QED BY <1>1, <1>5, <1>6, <1>7, <1>8, <1>9 DEF States

\* A frame leaves what is pending possible to send.
LEMMA OvertakesDue ==
  ASSUME NEW c \in Ctx, NEW r \in Ctx, Overtakes(c, r), Due(c), Windowed(r), Held(r)
  PROVE  Due(r)
<1>1. CASE Leaves(c, r)
  <2>1. Asked(c).vs = c.vs /\ Asked(c).va = c.retransmit_from /\ Asked(c).slots = c.slots
        /\ Asked(c).tx_next_slot = c.tx_next_slot /\ Asked(c).accepted = c.accepted
    BY DEF Asked, Ctx
  <2>2. Asked(r).vs = r.vs /\ Asked(r).va = r.retransmit_from /\ Asked(r).slots = r.slots
        /\ Asked(r).tx_next_slot = r.tx_next_slot /\ Asked(r).accepted = r.accepted
    BY DEF Asked, Ctx
  <2>3. SameWindow(Asked(c), Asked(r)) BY <1>1, <2>1, <2>2 DEF Leaves, SameWindow
  <2>4. (Held(Asked(c)) => Held(Asked(r))) /\ (Windowed(Asked(c)) => Windowed(Asked(r)))
    BY <2>3, SameHeld DEF SameWindow, Windowed, Outstanding
  <2> QED BY <1>1, <2>4 DEF Due, Leaves, SamePending, Wiped
<1>2. CASE Wiped(r) BY <1>2 DEF Due
<1>3. CASE r.retransmit_from = r.va
  <2>1. Asked(r) = r BY <1>3 DEF Asked, Ctx
  <2> QED BY <2>1 DEF Due
<1> QED BY <1>1, <1>2, <1>3 DEF Overtakes

\* What is sent again, from wherever it was asked for.
LEMMA RetransmitDue ==
  ASSUME NEW c \in Ctx, c.RETRANSMIT_PENDING, Due(c), ~Wiped(c), c.tx = << >>
  PROVE  Sent(retransmit_outstanding(c), MOD8 - 1)
<1> DEFINE a == Asked(c)
           r == retransmit_outstanding(c)
           q == retransmit_outstanding(a)
<1>1. a \in Ctx /\ a.retransmit_from = a.va /\ a.tx = << >> BY CtxFields DEF Asked, Ctx
<1>2. Windowed(a) /\ Held(a) BY DEF Due
<1>3. SameWindow(c, r) /\ SameWindow(a, q) BY <1>1, RetransmitFields
<1>4. /\ a.vs = c.vs /\ a.vr = c.vr /\ a.tx_next_slot = c.tx_next_slot /\ a.slots = c.slots
      /\ a.accepted = c.accepted /\ a.retransmit_from = c.retransmit_from /\ a.tx = c.tx
  BY DEF Asked, Ctx
<1>5. q.tx = r.tx
  BY <1>1, <1>4 DEF retransmit_outstanding, t1_start, OldestSlot, SlotContent, Ctx
<1>6. Sent(q, MOD8 - 1) BY <1>1, <1>2, RetransmitSent
<1> HIDE DEF a, q, r
<1>7. \A f, n : Faithful(q, f, n) => Faithful(r, f, n)
  BY <1>3, <1>4 DEF SameWindow, Faithful, Named
<1>8. Sent(r, MOD8 - 1) BY <1>5, <1>6, <1>7 DEF Sent
<1> QED BY <1>8 DEF r

==========================================================================
