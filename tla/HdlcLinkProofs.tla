--------------------------- MODULE HdlcLinkProofs ---------------------------
(***************************************************************************)
(* Theorems about two stations on a line, for every window size, retry     *)
(* limit, callback policy, provisioning and bound: what HdlcApiProofs says *)
(* of an operator holds at both ends, and frames under way keep their      *)
(* shape.                                                                  *)
(***************************************************************************)
EXTENDS HdlcLink, HdlcFlowProofs, SequenceTheorems

Element == [address : Address, frame : Frame]

\* Between two calls of a side nothing is left to be sent again: its data_in
\* calls hold one frame each and end with the retransmission.
Rested(c) == c \in Ctx /\ Good(c) /\ Held(c) /\ ~c.RETRANSMIT_PENDING

LInv == TypeOK /\ \A s \in Side : Rested(st[s])

--------------------------------------------------------------------------
(* Sides, addresses and lines.                                            *)

LEMMA PeerFacts ==
  ASSUME NEW s \in Side
  PROVE  Peer(s) \in Side /\ Peer(s) # s /\ s \in Address /\ Peer(s) \in Address
BY DEF Side, Peer, Address

LEMMA OutputType ==
  ASSUME NEW s \in Side, NEW tx \in Seq(Frame), peer_address' \in [Side -> Address]
  PROVE  [i \in DOMAIN tx |-> Addressed(s, tx[i])] \in Seq(Element)
<1> DEFINE o == [i \in DOMAIN tx |-> Addressed(s, tx[i])]
<1>1. Len(tx) \in Nat /\ DOMAIN tx = 1 .. Len(tx) BY LenProperties
<1>2. ASSUME NEW i \in 1 .. Len(tx) PROVE Addressed(s, tx[i]) \in Element
  <2>1. tx[i] \in Frame BY ElementOfSeq
  <2>2. peer_address'[s] \in Address /\ s \in Address BY PeerFacts
  <2> QED BY <2>1, <2>2 DEF Addressed, Element
<1>3. o \in [1 .. Len(tx) -> Element] BY <1>1, <1>2
<1> HIDE DEF o
<1>4. o \in Seq(Element) BY <1>1, <1>3, SeqDef
<1> QED BY <1>4 DEF o

LEMMA RunsKeeps ==
  ASSUME LInv, NEW s \in Side, NEW c, Rested(c), NEW n \in Nat,
         peer_address' \in [Side -> Address], Runs(s, c, n)
  PROVE  LInv'
<1> DEFINE output == [i \in DOMAIN c.tx |-> Addressed(s, c.tx[i])]
           rest   == SubSeq(line[s], n + 1, Len(line[s]))
<1>1. c \in Ctx /\ Good(c) /\ Held(c) /\ ~c.RETRANSMIT_PENDING /\ c.tx \in Seq(Frame)
  BY CtxFields DEF Rested
<1>2. /\ st \in [Side -> Ctx] /\ line \in [Side -> Seq(Element)]
      /\ \A side \in Side : Rested(st[side])
  BY DEF LInv, TypeOK, Element
<1>3. output \in Seq(Element) BY <1>1, OutputType
<1>4. rest \in Seq(Element)
  <2>1. line[s] \in Seq(Element) /\ Len(line[s]) \in Nat BY <1>2, LenProperties
  <2>2. \A i \in (n + 1) .. Len(line[s]) : line[s][i] \in Element
    BY <2>1, ElementOfSeq
  <2> QED BY <2>1, <2>2, SubSeqProperties
<1>5. line[Peer(s)] \o output \in Seq(Element)
  BY <1>2, <1>3, PeerFacts, ConcatProperties
<1> HIDE DEF output, rest
<1>6. line' \in [Side -> Seq(Element)]
  <2>1. line' = [line EXCEPT ![s] = rest, ![Peer(s)] = line[Peer(s)] \o output]
    BY <1>2, PeerFacts DEF Runs, output, rest
  <2> QED BY <1>2, <1>4, <1>5, <2>1
<1>7. Rested(Drained(c))
  <2>1. Drained(c) \in Ctx /\ Good(Drained(c)) BY <1>1, DrainedGood
  <2>2. Held(Drained(c)) /\ ~Drained(c).RETRANSMIT_PENDING BY <1>1, DrainedFlow
  <2> QED BY <2>1, <2>2 DEF Rested
<1>8. st' \in [Side -> Ctx] /\ \A side \in Side : Rested(st'[side])
  <2>1. st' = [st EXCEPT ![s] = Drained(c)] BY DEF Runs
  <2> QED BY <1>2, <1>7, <2>1 DEF Rested
<1> QED BY <1>6, <1>8 DEF LInv, TypeOK, Element, Rested, Good, Held, Named, Windowed, Unacked, Watched,
                          Promised, Counted, Outstanding

LEMMA AppCallKeeps ==
  ASSUME LInv, NEW s \in Side, NEW name, NEW c, Rested(c), AppCall(s, name, c)
  PROVE  LInv'
<1>1. peer_address' \in [Side -> Address] BY PeerFacts DEF LInv, TypeOK, AppCall
<1>2. Runs(s, c, 0) BY DEF AppCall
<1> QED BY <1>1, <1>2, RunsKeeps

--------------------------------------------------------------------------
(* The calls.                                                             *)

LEMMA CallsRested ==
  ASSUME NEW c, Rested(c), NEW busy \in BOOLEAN
  PROVE  /\ Rested(link_setup(c)) /\ Rested(disconnect(c)) /\ Rested(link_reset(c))
         /\ c.state = "CONNECTED" => Rested(set_local_busy(c, busy))
         /\ Rested(abort(c)) /\ Rested(transmit_i(c))
         /\ Rested(t1_expired(c)) /\ Rested(t2_expired(c))
<1>1. c \in Ctx /\ Good(c) /\ Held(c) /\ ~c.RETRANSMIT_PENDING BY DEF Rested
<1>10. /\ Held(link_setup(c)) /\ Held(transmit_i(c)) /\ Held(disconnect(c)) /\ Held(link_reset(c))
       /\ Held(abort(c)) /\ Held(t1_expired(c)) /\ Held(t2_expired(c))
       /\ c.state = "CONNECTED" => Held(set_local_busy(c, busy))
  BY <1>1, LinkSetupOutcome, TransmitOutcome, DisconnectOutcome, LinkResetSilent, AbortSilent,
     T1ExpiredOutcome, T2ExpiredOutcome, LocalBusyOutcome DEF Outcome, Silent
<1>2. Rested(link_setup(c)) BY <1>1, <1>10, LinkSetupKeeps, LinkSetupPending DEF Rested, SamePending, Good, Keeps
<1>3. Rested(transmit_i(c))
  BY <1>1, <1>10, TransmitType, TransmitKeeps, TransmitPending DEF Rested, SamePending, Good, Keeps
<1>4. Rested(disconnect(c)) BY <1>1, <1>10, DisconnectGood, DisconnectPending DEF Rested, SamePending
<1>5. Rested(link_reset(c)) BY <1>1, <1>10, LinkResetGood, LinkResetPending DEF Rested, SamePending
<1>6. c.state = "CONNECTED" => Rested(set_local_busy(c, busy))
  BY <1>1, <1>10, LocalBusyGood, LocalBusyPending DEF Rested, SamePending
<1>7. Rested(abort(c)) BY <1>1, <1>10, AbortGood, AbortPending DEF Rested, SamePending
<1>8. Rested(t1_expired(c)) BY <1>1, <1>10, T1ExpiredGood, T1ExpiredPending DEF Rested, SamePending
<1>9. Rested(t2_expired(c)) BY <1>1, <1>10, T2ExpiredGood, T2ExpiredPending DEF Rested, SamePending
<1> QED BY <1>2, <1>3, <1>4, <1>5, <1>6, <1>7, <1>8, <1>9

LEMMA DataInRested ==
  ASSUME NEW d \in Ctx, Good(d), Held(d)
  PROVE  Rested(IF d.RETRANSMIT_PENDING THEN retransmit_outstanding(d) ELSE d)
<1>1. CASE d.RETRANSMIT_PENDING
  <2>1. retransmit_outstanding(d) \in Ctx /\ Good(retransmit_outstanding(d)) BY RetransmitGood
  <2>2. ~retransmit_outstanding(d).RETRANSMIT_PENDING /\ Held(retransmit_outstanding(d))
    BY RetransmitFields, SameHeld
  <2> QED BY <1>1, <2>1, <2>2 DEF Rested
<1>2. CASE ~d.RETRANSMIT_PENDING BY <1>2 DEF Rested
<1> QED BY <1>1, <1>2

LEMMA LinkInit == Init => LInv
<1> SUFFICES ASSUME Init PROVE LInv OBVIOUS
<1>1. InitCtx \in Ctx /\ Good(InitCtx) BY InitCtxGood
<1>2. ~InitCtx.RETRANSMIT_PENDING /\ Held(InitCtx) BY InitFlow DEF InitCtx
<1>3. st = [s \in Side |-> InitCtx] /\ line = [s \in Side |-> << >>] BY DEF Init
<1>4. peer_address \in [Side -> Address] BY PeerFacts DEF Init, Address
<1>5. line \in [Side -> Seq(Element)] BY <1>3
<1> HIDE DEF Init
<1>6. \A s \in Side : Rested(st[s]) BY <1>1, <1>2, <1>3 DEF Rested
<1> QED BY <1>1, <1>3, <1>4, <1>5, <1>6 DEF LInv, TypeOK, Element

LEMMA ReceiveKeeps ==
  ASSUME LInv, NEW s \in Side, Receive(s)
  PROVE  LInv'
<1> DEFINE f == Heard(s)
           d == IF HeardBy(s, Head(line[s]).address) THEN dispatch_frame(st[s], f) ELSE st[s]
<1>1. st[s] \in Ctx /\ Good(st[s]) /\ Held(st[s]) /\ peer_address' \in [Side -> Address]
  BY DEF LInv, Rested, TypeOK, Receive
<1>2. Head(line[s]) \in Element
  <2>1. line[s] \in Seq(Element) /\ line[s] # << >> BY DEF LInv, TypeOK, Element, Receive
  <2> QED BY <2>1, HeadTailProperties
<1>3. f \in Frame BY <1>2 DEF Heard, Element, Frame
<1> HIDE DEF f
<1>4. d \in Ctx /\ Good(d) /\ Held(d) BY <1>1, <1>3, DispatchGood, DispatchOutcome DEF Outcome
<1>5. Runs(s, IF d.RETRANSMIT_PENDING THEN retransmit_outstanding(d) ELSE d, 1) BY DEF Receive, f
<1> HIDE DEF d
<1>6. Rested(IF d.RETRANSMIT_PENDING THEN retransmit_outstanding(d) ELSE d) BY <1>4, DataInRested
<1> QED BY <1>1, <1>5, <1>6, RunsKeeps

LEMMA LoseKeeps ==
  ASSUME LInv, NEW s \in Side, Lose(s)
  PROVE  LInv'
<1>1. line[s] \in Seq(Element) /\ line[s] # << >> BY DEF LInv, TypeOK, Element, Lose
<1>2. Tail(line[s]) \in Seq(Element) BY <1>1, HeadTailProperties
<1>3. line' \in [Side -> Seq(Element)] BY <1>2 DEF LInv, TypeOK, Element, Lose
<1> QED BY <1>3 DEF LInv, TypeOK, Element, Lose, Rested, Good, Held, Named, Windowed, Unacked,
                    Watched, Promised, Counted, Outstanding

LEMMA LinkNext == LInv /\ [Next]_vars => LInv'
<1> SUFFICES ASSUME LInv, [Next]_vars PROVE LInv' OBVIOUS
<1>1. ASSUME NEW s \in Side
      PROVE  /\ Rested(st[s])
             /\ UNCHANGED peer_address => peer_address' \in [Side -> Address]
  BY <1>1 DEF LInv, TypeOK
<1>2. ASSUME NEW s \in Side, LinkSetup(s) PROVE LInv'
  BY <1>1, <1>2, CallsRested, AppCallKeeps DEF LinkSetup
<1>3. ASSUME NEW s \in Side, Disconnect(s) PROVE LInv'
  BY <1>1, <1>3, CallsRested, AppCallKeeps DEF Disconnect
<1>4. ASSUME NEW s \in Side, LinkReset(s) PROVE LInv'
  BY <1>1, <1>4, CallsRested, AppCallKeeps DEF LinkReset
<1>5. ASSUME NEW s \in Side, SetLocalBusy(s) PROVE LInv'
  <2>1. (~st[s].LOCAL_BUSY) \in BOOLEAN OBVIOUS
  <2> QED BY <1>1, <1>5, <2>1, CallsRested, AppCallKeeps DEF SetLocalBusy
<1>6. ASSUME NEW s \in Side, Abort(s) PROVE LInv'
  BY <1>1, <1>6, CallsRested, AppCallKeeps DEF Abort
<1>7. ASSUME NEW s \in Side, TransmitI(s) PROVE LInv'
  BY <1>1, <1>7, CallsRested, RunsKeeps DEF TransmitI
<1>8. ASSUME NEW s \in Side, Receive(s) PROVE LInv' BY <1>8, ReceiveKeeps
<1>9. ASSUME NEW s \in Side, Lose(s) PROVE LInv' BY <1>9, LoseKeeps
<1>10. ASSUME NEW s \in Side, T1Expired(s) \/ T1Early(s) PROVE LInv'
  BY <1>1, <1>10, CallsRested, RunsKeeps DEF T1Expired, T1Early
<1>11. ASSUME NEW s \in Side, T2Expired(s) PROVE LInv'
  BY <1>1, <1>11, CallsRested, RunsKeeps DEF T2Expired
<1>12. CASE UNCHANGED vars
  BY <1>12 DEF vars, LInv, TypeOK, Rested, Good, Held, Named, Windowed, Unacked, Watched, Promised,
                   Counted, Outstanding
<1> QED BY <1>2, <1>3, <1>4, <1>5, <1>6, <1>7, <1>8, <1>9, <1>10, <1>11, <1>12 DEF Next

LEMMA LinkInvariance == Spec => []LInv
BY LinkInit, LinkNext, PTL DEF Spec

--------------------------------------------------------------------------
(* The theorems.                                                          *)

\* Both contexts and every frame under way keep their shape, whoever knows
\* whose address and whatever the line loses.
THEOREM TypeCorrect == Spec => []TypeOK
<1>1. LInv => TypeOK BY DEF LInv
<1> QED BY <1>1, LinkInvariance, PTL

\* Whoever waits for the peer, to set up, to disconnect or to be acknowledged,
\* has T1 running, as long as the application does not send from WINDOW_OPEN
\* nor set the link up from LINK_FAILURE: nothing that the line, the peer or
\* the order of events does can leave a wait untimed.
THEOREM AttendedSafe ==
  ASSUME Polite
  PROVE  Spec => []Attended
<1>1. LInv => Attended BY DEF LInv, Rested, Good, Unacked, Watched, Attended, Waits, HasUnacked
<1> QED BY <1>1, LinkInvariance, PTL

==========================================================================
