----------------------------- MODULE HdlcStation -----------------------------
(***************************************************************************)
(* One station in an arbitrary environment: the application calls any      *)
(* function of the public API, the timers expire, and the line delivers    *)
(* any valid frame.  A call is a step, except atc_hdlc_data_in, which      *)
(* takes a buffer of bytes that may hold several frames: every frame is a  *)
(* step (RxFrame) and the end of the call another (EndDataIn).  The        *)
(* library is not re-entered from outside in between: the timer flags are  *)
(* polled by the loop that calls data_in, as in the bare-metal template.   *)
(***************************************************************************)
EXTENDS HdlcApi

CONSTANTS
  Frames,      \* what the line can deliver
  MaxChunk,    \* frames in one call of atc_hdlc_data_in, at most
  StaleExpiry  \* whether a stopped timer may still be reported as expired

ASSUME FramesAssumption == Frames \subseteq Frame
ASSUME MaxChunkAssumption == MaxChunk \in Nat \ {0}
ASSUME StaleAssumption == StaleExpiry \in BOOLEAN

VARIABLES
  ctx,    \* the context, between calls
  chunk,  \* frames dispatched by the data_in call in progress, 0 if none is
  out,    \* frames the last step sent
  told    \* whether the last step called on_event

vars == <<ctx, chunk, out, told>>

Idle == chunk = 0

Call(c) == ctx' = Drained(c) /\ out' = c.tx /\ told' = (c.events # << >>)

\* A call of the API or of a timer, from outside atc_hdlc_data_in.
ApiCall(c) == Idle /\ Call(c) /\ UNCHANGED chunk

--------------------------------------------------------------------------

Init == ctx = InitCtx /\ chunk = 0 /\ out = << >> /\ told = FALSE

LinkSetup == ctx.state = "DISCONNECTED" /\ ApiCall(link_setup(ctx))

Disconnect == ctx.state \in {"CONNECTED", "FRMR_ERROR"} /\ ApiCall(disconnect(ctx))

LinkReset == ApiCall(link_reset(ctx))

SetLocalBusy == /\ ctx.state = "CONNECTED"
                /\ \E busy \in BOOLEAN : ApiCall(set_local_busy(ctx, busy))

TransmitI == CanTransmit(ctx) /\ ApiCall(transmit_i(ctx))

TransmitUI == \E cmd \in BOOLEAN : ApiCall(transmit_ui(ctx, cmd, Empty))

TransmitTest == \E cmd \in BOOLEAN : ApiCall(transmit_test(ctx, cmd, Empty))

\* The timer the station started runs out, or, on a platform like that of
\* BareMetal, one it has stopped; the callback may report the link lost.
T1Expired == /\ ctx.T1_ACTIVE \/ StaleExpiry
             /\ \E react \in BOOLEAN : ApiCall(t1_expired(Begin(ctx, react)))

T2Expired == (ctx.T2_ACTIVE \/ StaleExpiry) /\ ApiCall(t2_expired(ctx))

Abort == ApiCall(abort(ctx))

RxFrame == /\ chunk < MaxChunk
           /\ \E f \in Frames, react \in BOOLEAN : Call(dispatch_frame(Begin(ctx, react), f))
           /\ chunk' = chunk + 1

EndDataIn == /\ chunk > 0
             /\ Call(IF ctx.RETRANSMIT_PENDING THEN retransmit_outstanding(ctx) ELSE ctx)
             /\ chunk' = 0

Next == \/ LinkSetup \/ Disconnect \/ LinkReset \/ SetLocalBusy
        \/ TransmitI \/ TransmitUI \/ TransmitTest
        \/ T1Expired \/ T2Expired \/ Abort
        \/ RxFrame \/ EndDataIn

Spec == Init /\ [][Next]_vars

--------------------------------------------------------------------------

\* The context, the data_in progress and the sent frames keep their shape.
TypeOK == /\ ctx \in Ctx /\ chunk \in 0 .. MaxChunk
          /\ out \in Seq(Frame) /\ told \in BOOLEAN

\* Never more unacknowledged frames than retransmission slots, through any
\* order of sends, acknowledgements, rejections and resets (transmit_i's
\* window check, validate_nr, and V(A) and V(S) in every reset).
WindowBound == Outstanding(ctx) <= SlotCount

\* An unacknowledged frame on a live connection is watched by T1, or is about
\* to be sent again when data_in returns: otherwise nothing would ever ask the
\* peer about it (process_nr, handle_sframe, t1_expired, transmit_i).
UnackedWatched ==
  ctx.state = "CONNECTED" /\ ctx.vs # ctx.va => ctx.T1_ACTIVE \/ ctx.RETRANSMIT_PENDING

\* A station waiting for the answer to its SABM or DISC has T1 running.
SetupWatched == ctx.state \in {"CONNECTING", "DISCONNECTING"} => ctx.T1_ACTIVE

\* What was received but not yet acknowledged is acknowledged soon: the peer
\* has been sent the current V(R) in some N(R), or T2 runs.  An FRMR cancels T2
\* (send_frmr) and is set aside.
AckPromised ==
  ctx.state = "CONNECTED" /\ ctx.ackOwed /\ ~ctx.frmrSent => ctx.T2_ACTIVE

\* The slots behind tx_next_slot hold the unacknowledged payloads, in order:
\* what retransmit_outstanding will look up (transmit_i, reset_state).
SlotsHoldWindow ==
  ctx.state = "CONNECTED" =>
    \A k \in 1 .. Outstanding(ctx) :
      ctx.slots[(ctx.tx_next_slot + SlotCount - k) % SlotCount]
        = (ctx.accepted + PayloadCount - k) % PayloadCount

\* An I-frame on the line, first sent or sent again, carries the payload the
\* application handed over under that N(S) (transmit_i and the slot
\* arithmetic of retransmit_outstanding).
FaithfulFrames ==
  \A i \in 1 .. Len(out) :
    out[i].type = "I" =>
      out[i].info = (ctx.accepted + PayloadCount - Dist(ctx.vs, out[i].ns)) % PayloadCount

\* A retransmission decided on one frame and made after the others of the same
\* buffer sends what was accepted under each N(S), although they may have
\* acknowledged part of it, or all, or asked for another; unless a reset has
\* wiped the slots in between (retransmit_from against V(A) and tx_next_slot at
\* the end of data_in).
FaithfulUnlessWiped == (\E s \in DOMAIN ctx.slots : ctx.slots[s] # Empty) => FaithfulFrames

\* No retransmission timer runs without a connection.
QuietWhenDown == ctx.state = "DISCONNECTED" => ~ctx.T1_ACTIVE

\* The retry counter never stays above N2.
RetriesBounded == MaxRetries > 0 => ctx.n2 <= MaxRetries

\* A connection begins clean on every path into CONNECTED: nothing received
\* or acknowledged, no busy or reject condition, no retry counted, no pending
\* acknowledgement (the resets before UA, on UA and on SABM).
FreshStart ==
  [][ctx.state # "CONNECTED" /\ ctx'.state = "CONNECTED" =>
       /\ ctx'.va = 0 /\ ctx'.vr = 0 /\ ctx'.n2 = 0
       /\ ~ctx'.REJ_EXCEPTION /\ ~ctx'.REMOTE_BUSY /\ ~ctx'.LOCAL_BUSY /\ ~ctx'.T2_ACTIVE]_vars

\* A step that wipes a retransmission slot.
SlotWiped == \E s \in DOMAIN ctx.slots : ctx.slots[s] # Empty /\ ctx'.slots[s] = Empty

\* A frame transmit_i has accepted is never dropped behind the application's
\* back: whatever wipes the slots of a connection with unacknowledged frames
\* is the application's own call or comes with an event, a SABM in CONNECTED
\* included, which changes no state (reset_state and set_state in every
\* handler).
LossReported ==
  [][ctx.state = "CONNECTED" /\ ctx.vs # ctx.va /\ SlotWiped
       => told' \/ LinkReset \/ Abort]_vars

--------------------------------------------------------------------------
(* Statements of the repository's comments that the code does not keep in  *)
(* every case; a run of its own shows a counterexample to each.            *)

\* "Peer sent RNR; outgoing I-frame transmission suspended": nothing is sent
\* to a busy peer, not even again (hdlc_types.h; handle_sframe,
\* retransmit_outstanding).
BusyPeerSpared == ctx.REMOTE_BUSY => \A i \in 1 .. Len(out) : out[i].type # "I"

\* N2 counts the attempts of one exchange: a link set up anew starts from
\* zero (hdlc_types.h, max_retries; atc_hdlc_link_setup, state_disconnecting).
SetupCountsFromZero ==
  [][ctx.state = "DISCONNECTED" /\ ctx'.state = "CONNECTING" => ctx'.n2 = 0]_vars

==========================================================================
