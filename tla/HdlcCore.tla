------------------------------ MODULE HdlcCore ------------------------------
(***************************************************************************)
(* The protocol engine of one station, as operators from a context to a    *)
(* context.  A context is the record atc_hdlc_ctx_t, with what a call      *)
(* hands to the platform (frames, events, data) collected beside it, and   *)
(* every operator is the C function of the same name: its guards in the    *)
(* order the code tests them, its assignments in the order it makes them.  *)
(*                                                                         *)
(* Data is abstract.  A payload is a number naming what the application    *)
(* handed over; a frame is a record, with  cmd  telling whether it carries *)
(* the receiver's own address (a command, is_cmd) or the sender's (a       *)
(* response).  The three information octets of an FRMR are left out:       *)
(* no receiver reads them.                                                 *)
(***************************************************************************)
EXTENDS Integers, Sequences

CONSTANTS
  MOD8,         \* sequence modulus: 8 in the code, 4 scales the runs down
  SlotCount,    \* tx_window->slot_count
  MaxRetries,   \* config->max_retries (N2); 0 means no limit
  U8,           \* number of values of an atc_hdlc_u8
  PayloadCount, \* payloads are the numbers below this: more than can be outstanding
  SendOn,       \* callbacks in which the application may call transmit_i
  SetupOn       \* events on which the application may call link_setup

ASSUME ModulusAssumption == MOD8 \in {4, 8}
ASSUME SlotCountAssumption == SlotCount \in 1 .. (MOD8 - 1)
ASSUME WidthAssumption == U8 \in Nat /\ U8 >= MOD8
ASSUME MaxRetriesAssumption == MaxRetries \in 0 .. (U8 - 1)
ASSUME PayloadAssumption == PayloadCount \in Nat /\ PayloadCount >= MOD8

States == {"DISCONNECTED", "CONNECTING", "CONNECTED", "FRMR_ERROR", "DISCONNECTING"}

Events == {"SETUP_REQ", "CONN_ACCEPTED", "CONN_REQ", "RESET", "DISC_REQ",
           "DISC_DONE", "PEER_DISC", "PEER_REJECT", "PROTOCOL_ERROR",
           "LINK_FAILURE", "PEER_BUSY", "PEER_READY", "WINDOW_OPEN"}

ASSUME CallbackAssumption == SendOn \subseteq Events \cup {"DATA"} /\ SetupOn \subseteq Events

Seqs    == 0 .. (MOD8 - 1)
Empty   == PayloadCount       \* a slot whose slot_lens entry is zero
Garbage == PayloadCount + 1   \* memory outside the slot array
Payload == 0 .. Garbage

\* SNRM stands for SNRM, SNRME and SARME, which every handler treats alike;
\* SREJ is the fourth supervisory code and UNKNOWN any other control octet of
\* an unnumbered frame.
SFrames    == {"RR", "RNR", "REJ", "SREJ"}
FrameTypes == SFrames \cup
              {"I", "SABM", "DISC", "UA", "DM", "FRMR", "UI", "TEST", "SNRM", "SABME", "UNKNOWN"}

Frame == [cmd : BOOLEAN, type : FrameTypes, ns : Seqs, nr : Seqs, pf : BOOLEAN, info : Payload]

is_iframe(f) == f.type = "I"
is_sframe(f) == f.type \in SFrames
is_uframe(f) == ~is_iframe(f) /\ ~is_sframe(f)

(***************************************************************************)
(* The context.  tx, events and rcvd collect what the current call hands   *)
(* to on_send, on_event and on_data.  Five fields are not in the C         *)
(* structure: react says whether the application calls back into the       *)
(* library from the callbacks of this call; accepted counts the I-frames   *)
(* accepted on this connection and so names their payloads; received       *)
(* counts those delivered to the application on this connection; ackOwed   *)
(* says that no frame sent since V(R) last moved carried it as N(R);       *)
(* frmrSent says that an FRMR was sent on this connection.                 *)
(***************************************************************************)
Ctx == [state : States, vs : Seqs, vr : Seqs, va : Seqs, n2 : 0 .. (U8 - 1),
        tx_next_slot : 0 .. (SlotCount - 1), slots : [0 .. (SlotCount - 1) -> Payload],
        retransmit_from : Seqs, T1_ACTIVE : BOOLEAN, T2_ACTIVE : BOOLEAN,
        REJ_EXCEPTION : BOOLEAN, REMOTE_BUSY : BOOLEAN, LOCAL_BUSY : BOOLEAN,
        RETRANSMIT_PENDING : BOOLEAN,
        tx : Seq(Frame), events : Seq(Events), rcvd : Seq(Payload),
        react : BOOLEAN, accepted : 0 .. (PayloadCount - 1),
        received : 0 .. (PayloadCount - 1), ackOwed : BOOLEAN, frmrSent : BOOLEAN]

\* What memset leaves after atc_hdlc_init.
InitCtx ==
  [state |-> "DISCONNECTED", vs |-> 0, vr |-> 0, va |-> 0, n2 |-> 0,
   tx_next_slot |-> 0, slots |-> [s \in 0 .. (SlotCount - 1) |-> Empty],
   retransmit_from |-> 0, T1_ACTIVE |-> FALSE, T2_ACTIVE |-> FALSE,
   REJ_EXCEPTION |-> FALSE, REMOTE_BUSY |-> FALSE, LOCAL_BUSY |-> FALSE,
   RETRANSMIT_PENDING |-> FALSE,
   tx |-> << >>, events |-> << >>, rcvd |-> << >>,
   react |-> FALSE, accepted |-> 0, received |-> 0, ackOwed |-> FALSE, frmrSent |-> FALSE]

\* A context at the start of a call, and one whose outputs have been taken.
Begin(c, react) == [c EXCEPT !.react = react]
\* retransmit_from is read only while a retransmission is pending.
Drained(c) ==
  [c EXCEPT !.tx = << >>, !.events = << >>, !.rcvd = << >>, !.react = FALSE,
            !.retransmit_from = IF c.RETRANSMIT_PENDING THEN @ ELSE 0]

\* (a - b) modulo MOD8: the masks and remainders the code uses for distances.
Dist(a, b) == (a - b + MOD8) % MOD8
\* Mutant of Next8: the increment forgets the modulus.
Next8Unwrapped(n) == n + 1

Next8(n) == (n + 1) % MOD8

Outstanding(c) == Dist(c.vs, c.va)

--------------------------------------------------------------------------
(* Timers and flags: hdlc_private.h.                                      *)

t1_start(c) == [c EXCEPT !.T1_ACTIVE = TRUE]
t1_stop(c)  == [c EXCEPT !.T1_ACTIVE = FALSE]
t2_start(c) == [c EXCEPT !.T2_ACTIVE = TRUE]
t2_stop(c)  == [c EXCEPT !.T2_ACTIVE = FALSE]

(* Sending: hdlc_frame.h.  A frame to peer_address is a command, one to    *)
(* my_address a response.                                                 *)

UFrame(cmd, type, pf, info) ==
  [cmd |-> cmd, type |-> type, ns |-> 0, nr |-> 0, pf |-> pf, info |-> info]
SFrame(cmd, type, nr, pf) ==
  [cmd |-> cmd, type |-> type, ns |-> 0, nr |-> nr, pf |-> pf, info |-> Empty]
IFrame(ns, nr, info) ==
  [cmd |-> TRUE, type |-> "I", ns |-> ns, nr |-> nr, pf |-> FALSE, info |-> info]

send_u(c, cmd, type, pf) == [c EXCEPT !.tx = Append(@, UFrame(cmd, type, pf, Empty))]
send_ua(c, pf) == send_u(c, FALSE, "UA", pf)
send_dm(c, pf) == send_u(c, FALSE, "DM", pf)

send_s(c, cmd, type, pf) ==
  [c EXCEPT !.tx = Append(@, SFrame(cmd, type, c.vr, pf)), !.ackOwed = FALSE]
send_rr(c, pf)      == send_s(c, TRUE, "RR", pf)
send_rr_resp(c, pf) == send_s(c, FALSE, "RR", pf)
send_rnr(c, pf)     == send_s(c, FALSE, "RNR", pf)
send_rej(c, pf)     == send_s(c, TRUE, "REJ", pf)

retransmit_frmr(c) == send_u(c, FALSE, "FRMR", FALSE)
send_frmr(c) == t1_start(retransmit_frmr([t2_stop(c) EXCEPT !.frmrSent = TRUE]))

--------------------------------------------------------------------------
(* Sending I-frames: hdlc_out.c.                                          *)

\* Mutant of CanTransmit: the window check is off by one.
CanTransmitOneOver(c) ==
  c.state = "CONNECTED" /\ ~c.REMOTE_BUSY /\ Outstanding(c) <= SlotCount

CanTransmit(c) ==
  /\ c.state = "CONNECTED"
  /\ ~c.REMOTE_BUSY
  /\ Outstanding(c) < SlotCount

transmit_i(c) ==
  IF ~CanTransmit(c)
  THEN c
  ELSE LET sent == [c EXCEPT !.slots[c.tx_next_slot] = c.accepted,
                             !.tx_next_slot = (c.tx_next_slot + 1) % SlotCount,
                             !.tx = Append(@, IFrame(c.vs, c.vr, c.accepted)),
                             !.vs = Next8(c.vs),
                             !.accepted = (c.accepted + 1) % PayloadCount,
                             !.ackOwed = FALSE,
                             !.T2_ACTIVE = FALSE]
       IN IF Outstanding(c) = 0 THEN t1_start(sent) ELSE sent

transmit_ui(c, cmd, info) == [c EXCEPT !.tx = Append(@, UFrame(cmd, "UI", FALSE, info))]
transmit_test(c, cmd, info) == [c EXCEPT !.tx = Append(@, UFrame(cmd, "TEST", TRUE, info))]

--------------------------------------------------------------------------
(* Callbacks.  on_event and on_data run the application's code before the  *)
(* library's call goes on, so an application that reacts by calling        *)
(* transmit_i or link_setup changes the context in the middle of it.       *)

\* atc_hdlc_link_setup.  Its set_state fires SETUP_REQ in CONNECTING, where
\* both calls the application could make are refused.
link_setup(c) ==
  IF c.state # "DISCONNECTED"
  THEN c
  ELSE [t1_start(send_u(c, TRUE, "SABM", TRUE))
          EXCEPT !.state = "CONNECTING", !.events = Append(@, "SETUP_REQ")]

on_event(c, e) ==
  LET fired == [c EXCEPT !.events = Append(@, e)]
  IN CASE c.react /\ e \in SendOn  -> transmit_i(fired)
       [] c.react /\ e \in SetupOn \ SendOn -> link_setup(fired)
       [] OTHER -> fired

on_data(c, info) ==
  LET fired == [c EXCEPT !.rcvd = Append(@, info)]
  IN IF c.react /\ "DATA" \in SendOn THEN transmit_i(fired) ELSE fired

\* Mutant of set_state: an event is a change of state and nothing else.
set_state_changes_only(c, new_state, event) ==
  IF c.state # new_state
  THEN on_event([c EXCEPT !.state = new_state], event)
  ELSE c

set_state(c, new_state, event) ==
  IF c.state # new_state \/ event = "CONN_REQ"
  THEN on_event([c EXCEPT !.state = new_state], event)
  ELSE c

==========================================================================
