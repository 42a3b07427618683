------------------------------ MODULE HdlcLink ------------------------------
(***************************************************************************)
(* Two stations running the library on the two ends of a full-duplex line. *)
(* The line keeps frames in order and may lose them: a frame that arrives  *)
(* damaged is dropped by the FCS check.  Each arriving frame is a call of  *)
(* atc_hdlc_data_in of its own, retransmission at its end included; calls  *)
(* of one station never overlap (the loop of the bare-metal template).     *)
(*                                                                         *)
(* A frame carries an address: a command the address its sender knows its  *)
(* peer by, a response the sender's own.  A station that never called      *)
(* link_setup knows its peer as 0, unless the field was set by hand.  The  *)
(* applications do not call back from their callbacks: HdlcStation is      *)
(* about that.                                                             *)
(***************************************************************************)
EXTENDS HdlcApi

CONSTANTS
  Provisioned, \* the sides whose peer_address is set by hand
  MaxSends,   \* calls of transmit_i, per side
  MaxCalls,   \* other calls of the application, per side
  Calls,      \* which ones: a set of names of the actions below
  Patient,    \* whether link_setup waits for the old connection to be over
  MaxLosses,  \* frames the line loses
  MaxEarly    \* T1 expiries that come before a possible answer

Side == {1, 2}
Peer(s) == 3 - s

\* The my_address of a side is its number.
Address == Side \cup {0}

ASSUME LinkAssumption ==
  /\ Provisioned \subseteq Side
  /\ MaxSends \in [Side -> Nat] /\ MaxCalls \in [Side -> Nat]
  /\ Calls \subseteq {"LinkSetup", "Disconnect", "LinkReset", "SetLocalBusy", "Abort"}
  /\ Patient \in BOOLEAN
  /\ MaxLosses \in Nat /\ MaxEarly \in Nat

VARIABLES
  st,            \* the two contexts
  peer_address,  \* the field of that name in each
  line,          \* frames under way to each side, with their addresses
  left           \* what is left of the bounds

vars == <<st, peer_address, line, left>>

\* A frame as side s writes it to the line.
Addressed(s, f) == [address |-> IF f.cmd THEN peer_address'[s] ELSE s, frame |-> f]

\* The addresses rx_byte lets through.
HeardBy(s, a) == a \in {s, peer_address[s]}

\* Side s runs a call with result c, after taking the first n frames off its line.
Runs(s, c, n) ==
  /\ st' = [st EXCEPT ![s] = Drained(c)]
  /\ line' = [line EXCEPT ![s] = SubSeq(@, n + 1, Len(@)),
                          ![Peer(s)] = @ \o [i \in DOMAIN c.tx |-> Addressed(s, c.tx[i])]]

\* An application call, counted against its bound.
AppCall(s, name, c) ==
  /\ name \in Calls /\ left.calls[s] > 0
  /\ peer_address' = [peer_address EXCEPT ![s] = IF name = "LinkSetup" THEN Peer(s) ELSE @]
  /\ Runs(s, c, 0)
  /\ left' = [left EXCEPT !.calls[s] = @ - 1]

--------------------------------------------------------------------------

Init == /\ st = [s \in Side |-> InitCtx]
        /\ peer_address = [s \in Side |-> IF s \in Provisioned THEN Peer(s) ELSE 0]
        /\ line = [s \in Side |-> << >>]
        /\ left = [sends |-> MaxSends, calls |-> MaxCalls, losses |-> MaxLosses, early |-> MaxEarly]

\* Nothing is left of an earlier connection: no frame but a SABM, no timer that
\* its end left running, no retry counted, nobody disconnecting.
Over(s) ==
  /\ st[s].n2 = 0
  /\ \A t \in Side : /\ st[t].state # "DISCONNECTING" /\ ~st[t].T2_ACTIVE
                     /\ \A i \in DOMAIN line[t] : line[t][i].frame.type = "SABM"

LinkSetup(s) == /\ st[s].state = "DISCONNECTED" /\ (Patient => Over(s))
                /\ AppCall(s, "LinkSetup", link_setup(st[s]))

Disconnect(s) == /\ st[s].state \in {"CONNECTED", "FRMR_ERROR"}
                 /\ AppCall(s, "Disconnect", disconnect(st[s]))

LinkReset(s) == AppCall(s, "LinkReset", link_reset(st[s]))

SetLocalBusy(s) == /\ st[s].state = "CONNECTED"
                   /\ AppCall(s, "SetLocalBusy", set_local_busy(st[s], ~st[s].LOCAL_BUSY))

Abort(s) == AppCall(s, "Abort", abort(st[s]))

TransmitI(s) == /\ CanTransmit(st[s]) /\ left.sends[s] > 0
                /\ UNCHANGED peer_address
                /\ Runs(s, transmit_i(st[s]), 0)
                /\ left' = [left EXCEPT !.sends[s] = @ - 1]

\* What dispatch_frame is called with: is_cmd compares the address.
Heard(s) == [Head(line[s]).frame EXCEPT !.cmd = (Head(line[s]).address = s)]

Receive(s) ==
  /\ line[s] # << >>
  /\ UNCHANGED <<peer_address, left>>
  /\ LET d == IF HeardBy(s, Head(line[s]).address) THEN dispatch_frame(st[s], Heard(s)) ELSE st[s]
     IN Runs(s, IF d.RETRANSMIT_PENDING THEN retransmit_outstanding(d) ELSE d, 1)

Lose(s) == /\ line[s] # << >> /\ left.losses > 0
           /\ line' = [line EXCEPT ![s] = Tail(@)]
           /\ left' = [left EXCEPT !.losses = @ - 1]
           /\ UNCHANGED <<st, peer_address>>

\* T1 is longer than a round trip and the peer's T2 (t2_ms < t1_ms): when it
\* expires there is nothing left to wait for.
Unanswered(s) == line[1] = << >> /\ line[2] = << >> /\ ~st[Peer(s)].T2_ACTIVE

T1Expired(s) == /\ st[s].T1_ACTIVE /\ Unanswered(s)
                /\ UNCHANGED <<peer_address, left>>
                /\ Runs(s, t1_expired(st[s]), 0)

\* T1 is set too short for this line.
T1Early(s) == /\ st[s].T1_ACTIVE /\ ~Unanswered(s) /\ left.early > 0
              /\ UNCHANGED peer_address
              /\ Runs(s, t1_expired(st[s]), 0)
              /\ left' = [left EXCEPT !.early = @ - 1]

T2Expired(s) == /\ st[s].T2_ACTIVE
                /\ UNCHANGED <<peer_address, left>>
                /\ Runs(s, t2_expired(st[s]), 0)

Next == \E s \in Side :
          \/ LinkSetup(s) \/ Disconnect(s) \/ LinkReset(s) \/ SetLocalBusy(s) \/ Abort(s)
          \/ TransmitI(s) \/ Receive(s) \/ Lose(s)
          \/ T1Expired(s) \/ T1Early(s) \/ T2Expired(s)

\* The timers run out and the receive loop runs; the applications need not act.
\* The first conjunct is WF_vars(Receive(s)): a frame on the line can be read.
Fairness ==
  \A s \in Side : /\ []<>(line[s] = << >>) \/ []<><<Receive(s)>>_vars
                 /\ WF_vars(T1Expired(s)) /\ WF_vars(T2Expired(s))

Spec == Init /\ [][Next]_vars
FairSpec == Spec /\ Fairness

--------------------------------------------------------------------------

\* Contexts and lines keep their shape on both sides.
TypeOK == /\ st \in [Side -> Ctx] /\ peer_address \in [Side -> Address]
          /\ line \in [Side -> Seq([address : Address, frame : Frame])]

Up == \A s \in Side : st[s].state = "CONNECTED"

Acked(s) == st[s].accepted - Outstanding(st[s])

\* While both ends are connected, each direction is a reliable stream:
\* what the sender holds acknowledged has been delivered, what is delivered
\* was accepted, and the counts move one frame at a time (every handler of
\* the data phase, over any losses).
Forth == INSTANCE ReliableStream WITH
  up <- Up, accepted <- st[1].accepted, delivered <- st[2].received, confirmed <- Acked(1)
Back == INSTANCE ReliableStream WITH
  up <- Up, accepted <- st[2].accepted, delivered <- st[1].received, confirmed <- Acked(2)

StreamForth == Forth!Spec
StreamBack  == Back!Spec

\* The frame handed to on_data is the next one the sender accepted: no gap, no
\* repetition, no slot mixed up (handle_in_sequence_iframe with the peer's
\* transmit_i and retransmit_outstanding).
InOrder ==
  [][\A s \in Side :
       Up /\ st'[s].received = st[s].received + 1 => Head(line[s]).frame.info = st[s].received]_vars

\* While both ends are connected neither gives up nor sends an FRMR, as long
\* as the line loses no more frames than N2 allows for (t1_expired,
\* frames_acked, handle_uframe).
StaysUp ==
  [][Up => \A s \in Side : st'[s].state \in {"CONNECTED", "DISCONNECTING"} /\ ~st'[s].frmrSent]_vars

\* When nothing is under way and no T1 runs, both ends agree on whether there
\* is a connection: none is left half open (the handlers of SABM, UA, DISC and
\* DM in every state).
Agreement ==
  line[1] = << >> /\ line[2] = << >> /\ (\A s \in Side : ~st[s].T1_ACTIVE)
    => (st[1].state = "CONNECTED" <=> st[2].state = "CONNECTED")

Waits(s) == st[s].state \in {"CONNECTING", "DISCONNECTING"}
HasUnacked(s) == st[s].state = "CONNECTED" /\ st[s].vs # st[s].va

\* Whoever waits for the peer has T1 running, through crossing requests and a
\* retransmission decided and made in the same call: the safety half of
\* Settles and AllAcked (process_nr, handle_rej with the end of data_in).
Attended == \A s \in Side : Waits(s) \/ HasUnacked(s) => st[s].T1_ACTIVE

\* A setup or a disconnection comes to an end, at both ends at once: neither
\* keeps the other waiting (T1Retry, N2 and the answers of every state).
Settles == (\E s \in Side : Waits(s)) ~> (\A s \in Side : ~Waits(s))

\* Every frame sent is acknowledged in the end, or its connection is over: no
\* frame is forgotten with nothing left to ask about it (T1, T2, REJ and the
\* retransmission together).
AllAcked == (\E s \in Side : HasUnacked(s)) ~> (\A s \in Side : ~HasUnacked(s))

==========================================================================
