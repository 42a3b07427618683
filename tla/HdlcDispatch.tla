---------------------------- MODULE HdlcDispatch ----------------------------
(***************************************************************************)
(* What a station does with one valid frame (hdlc_dispatch.c), and the     *)
(* Go-Back-N retransmission that ends a call of atc_hdlc_data_in           *)
(* (hdlc_in.c).  Operators are named after the C functions.                *)
(***************************************************************************)
EXTENDS HdlcCore

\* Mutant of reset_state: the peer's busy condition outlives the connection.
reset_state_keeps_busy(c) ==
  [c EXCEPT !.vs = 0, !.vr = 0, !.va = 0, !.tx_next_slot = 0,
            !.slots = [s \in 0 .. (SlotCount - 1) |-> Empty],
            !.REJ_EXCEPTION = FALSE, !.LOCAL_BUSY = FALSE,
            !.n2 = 0, !.T1_ACTIVE = FALSE, !.T2_ACTIVE = FALSE,
            !.accepted = 0, !.received = 0, !.ackOwed = FALSE, !.frmrSent = FALSE]

\* The slot lengths, hence the payloads, are wiped; retransmit_from and
\* RETRANSMIT_PENDING stay what they were.
reset_state(c) ==
  [c EXCEPT !.vs = 0, !.vr = 0, !.va = 0, !.tx_next_slot = 0,
            !.slots = [s \in 0 .. (SlotCount - 1) |-> Empty],
            !.REJ_EXCEPTION = FALSE, !.REMOTE_BUSY = FALSE, !.LOCAL_BUSY = FALSE,
            !.n2 = 0, !.T1_ACTIVE = FALSE, !.T2_ACTIVE = FALSE,
            !.accepted = 0, !.received = 0, !.ackOwed = FALSE, !.frmrSent = FALSE]

\* Mutant of frames_acked: every outstanding frame is taken as acknowledged.
frames_acked_all(c, nr) ==
  IF nr = c.va
  THEN c
  ELSE LET acked == [c EXCEPT !.va = c.vs, !.n2 = 0]
       IN IF Outstanding(c) >= SlotCount THEN on_event(acked, "WINDOW_OPEN") ELSE acked

frames_acked(c, nr) ==
  IF nr = c.va
  THEN c
  ELSE LET acked == [c EXCEPT !.va = nr, !.n2 = 0]
       IN IF Outstanding(c) >= SlotCount THEN on_event(acked, "WINDOW_OPEN") ELSE acked

\* Mutant of process_nr: a partial acknowledgement stops T1 too.
process_nr_always_stops(c, nr) ==
  IF c.va # nr \/ c.vs = nr THEN t1_stop(frames_acked(c, nr)) ELSE c

process_nr(c, nr) ==
  CASE c.vs = nr               -> t1_stop(frames_acked(c, nr))
    [] c.vs # nr /\ c.va # nr  -> t1_start(frames_acked(c, nr))
    [] OTHER                   -> c

trigger_retransmit(c, from) ==
  IF c.vs = from THEN c
  ELSE [c EXCEPT !.retransmit_from = from, !.RETRANSMIT_PENDING = TRUE]

--------------------------------------------------------------------------
(* DISCONNECTED and CONNECTING.                                           *)

accept_sabm(c, f) == set_state(send_ua(reset_state(c), f.pf), "CONNECTED", "CONN_REQ")

state_disconnected(c, f) ==
  CASE f.type = "SABM"              -> accept_sabm(c, f)
    [] f.type = "DISC"              -> send_ua(c, f.pf)
    [] f.type = "UI"                -> on_data(c, f.info)
    [] f.type \in {"SNRM", "SABME"} -> send_dm(c, f.pf)
    [] OTHER                        -> c

\* Mutant of state_connecting: a refused setup leaves T1 running.
state_connecting_dm_leaves_t1(c, f) ==
  CASE f.type = "SABM"        -> send_ua(c, f.pf)
    [] f.type = "UA" /\ f.pf  -> set_state(reset_state(c), "CONNECTED", "CONN_ACCEPTED")
    [] f.type = "DM" /\ f.pf  -> set_state(c, "DISCONNECTED", "PEER_REJECT")
    [] f.type = "DISC"        -> send_dm(c, f.pf)
    [] OTHER                  -> c

state_connecting(c, f) ==
  CASE f.type = "SABM"        -> send_ua(c, f.pf)
    [] f.type = "UA" /\ f.pf  -> set_state(reset_state(c), "CONNECTED", "CONN_ACCEPTED")
    [] f.type = "DM" /\ f.pf  -> set_state(t1_stop(c), "DISCONNECTED", "PEER_REJECT")
    [] f.type = "DISC"        -> send_dm(c, f.pf)
    [] OTHER                  -> c

--------------------------------------------------------------------------
(* CONNECTED.                                                             *)

\* Mutant of ValidNr: any N(R) is believed.
AnyNrValid(c, nr) == TRUE

\* The caller goes on only when this holds; otherwise the frame is rejected.
ValidNr(c, nr) == Dist(nr, c.va) <= Dist(c.vs, c.va)

reject_nr(c) == set_state(send_frmr(c), "FRMR_ERROR", "PROTOCOL_ERROR")

\* Mutant of deliver_iframe: V(R) is left where it was.
deliver_iframe_vr_kept(c, f) ==
  on_data([c EXCEPT !.REJ_EXCEPTION = FALSE, !.ackOwed = TRUE,
                    !.received = (c.received + 1) % PayloadCount],
          f.info)

\* V(R) moves before on_data is called: what the callback sends acknowledges
\* the frame it was called for.
deliver_iframe(c, f) ==
  on_data([c EXCEPT !.vr = Next8(c.vr), !.REJ_EXCEPTION = FALSE, !.ackOwed = TRUE,
                    !.received = (c.received + 1) % PayloadCount],
          f.info)

\* Mutant of handle_in_sequence_iframe: a busy station acknowledges nothing.
handle_in_sequence_iframe_busy_silent(c, f) ==
  LET d == deliver_iframe(c, f)
  IN CASE f.pf                                   -> t2_stop(send_rr_resp(d, TRUE))
       [] ~f.pf /\ ~d.T2_ACTIVE /\ ~d.LOCAL_BUSY -> t2_start(d)
       [] OTHER                                  -> d

handle_in_sequence_iframe(c, f) ==
  LET d == deliver_iframe(c, f)
  IN CASE f.pf                  -> t2_stop(IF d.LOCAL_BUSY THEN send_rnr(d, TRUE)
                                                           ELSE send_rr_resp(d, TRUE))
       [] ~f.pf /\ ~d.T2_ACTIVE -> IF d.LOCAL_BUSY THEN send_rnr(d, FALSE) ELSE t2_start(d)
       [] OTHER                 -> d

handle_out_of_sequence_iframe(c, f) ==
  CASE c.REJ_EXCEPTION /\ f.pf -> send_rr_resp(c, TRUE)
    [] ~c.REJ_EXCEPTION        -> t2_stop(send_rej([c EXCEPT !.REJ_EXCEPTION = TRUE], f.pf))
    [] OTHER                   -> c

handle_iframe(c, f) ==
  IF ~ValidNr(c, f.nr)
  THEN reject_nr(c)
  ELSE LET p == process_nr(c, f.nr)
       IN IF f.ns = p.vr THEN handle_in_sequence_iframe(p, f)
                         ELSE handle_out_of_sequence_iframe(p, f)

remote_busy_update(c, f) ==
  CASE f.type = "RR" /\ c.REMOTE_BUSY   -> on_event([c EXCEPT !.REMOTE_BUSY = FALSE], "PEER_READY")
    [] f.type = "RNR" /\ ~c.REMOTE_BUSY -> on_event([c EXCEPT !.REMOTE_BUSY = TRUE], "PEER_BUSY")
    [] f.type = "REJ"                   -> [c EXCEPT !.REMOTE_BUSY = FALSE]
    [] OTHER                            -> c

handle_rej(c, nr) ==
  LET a == t1_stop(frames_acked(c, nr))
  IN IF a.va # a.vs THEN trigger_retransmit(a, nr) ELSE a

handle_sframe(c, f) ==
  LET b == remote_busy_update(c, f)
      r == IF f.cmd /\ f.pf THEN t2_stop(send_rr_resp(b, TRUE)) ELSE b
      p == IF f.type = "REJ" THEN handle_rej(r, f.nr) ELSE process_nr(r, f.nr)
  IN CASE ~ValidNr(r, f.nr)                                  -> reject_nr(r)
       [] ValidNr(r, f.nr) /\ ~f.cmd /\ f.pf /\ p.va # p.vs  -> trigger_retransmit(p, p.va)
       [] OTHER                                              -> p

handle_uframe(c, f) ==
  CASE f.type = "SABM" -> accept_sabm(c, f)
    [] f.type = "DISC" -> set_state(send_ua(reset_state(c), f.pf), "DISCONNECTED", "PEER_DISC")
    [] f.type = "DM"   -> set_state(reset_state(c), "DISCONNECTED", "PEER_REJECT")
    [] f.type = "FRMR" -> set_state(reset_state(c), "FRMR_ERROR", "PROTOCOL_ERROR")
    [] f.type = "UI"   -> on_data(c, f.info)
    [] f.type = "TEST" /\ f.cmd -> [c EXCEPT !.tx = Append(@, UFrame(FALSE, "TEST", f.pf, f.info))]
    [] f.type = "TEST" /\ ~f.cmd -> IF f.info # Empty THEN on_data(c, f.info) ELSE c
    [] f.type \in {"SNRM", "SABME"} -> send_dm(c, f.pf)
    [] f.type \in {"UA", "UNKNOWN"} -> send_frmr(c)

state_connected(c, f) ==
  CASE is_iframe(f) -> handle_iframe(c, f)
    [] is_sframe(f) -> handle_sframe(c, f)
    [] is_uframe(f) -> handle_uframe(c, f)

--------------------------------------------------------------------------
(* DISCONNECTING and FRMR_ERROR.                                          *)

\* Mutant of state_disconnecting: a DISC that crosses the own one ends the wait
\* for its answer.
state_disconnecting_crossed(c, f) ==
  CASE ~is_uframe(f) /\ f.pf         -> send_dm(c, TRUE)
    [] f.type \in {"SABM", "SABME"}  -> send_dm(c, f.pf)
    [] f.type = "DISC"               -> t1_stop(send_ua(c, f.pf))
    [] f.type = "UA" /\ f.pf         -> set_state(t1_stop(c), "DISCONNECTED", "DISC_DONE")
    [] f.type = "DM" /\ f.pf         -> set_state(t1_stop(c), "DISCONNECTED", "PEER_REJECT")
    [] OTHER                         -> c

state_disconnecting(c, f) ==
  CASE ~is_uframe(f) /\ f.pf         -> send_dm(c, TRUE)
    [] f.type \in {"SABM", "SABME"}  -> send_dm(c, f.pf)
    [] f.type = "DISC"               -> send_ua(c, f.pf)
    [] f.type = "UA" /\ f.pf         -> set_state(t1_stop(c), "DISCONNECTED", "DISC_DONE")
    [] f.type = "DM" /\ f.pf         -> set_state(t1_stop(c), "DISCONNECTED", "PEER_REJECT")
    [] OTHER                         -> c

state_frmr_error(c, f) == IF f.type = "SABM" THEN accept_sabm(c, f) ELSE c

dispatch_frame(c, f) ==
  CASE c.state = "DISCONNECTED"  -> state_disconnected(c, f)
    [] c.state = "CONNECTING"    -> state_connecting(c, f)
    [] c.state = "CONNECTED"     -> state_connected(c, f)
    [] c.state = "DISCONNECTING" -> state_disconnecting(c, f)
    [] c.state = "FRMR_ERROR"    -> state_frmr_error(c, f)

--------------------------------------------------------------------------
(* Retransmission.                                                        *)

\* (tx_next_slot + w - outstanding) % w: the operands are int, so C's
\* remainder truncates towards zero, and the result goes back to eight bits.
CRem(a, n) == IF a >= 0 THEN a % n ELSE -((-a) % n)

\* Mutant of OldestSlot: the retransmission starts at the next free slot.
OldestSlotIsNext(c, outstanding) == c.tx_next_slot

OldestSlot(c, outstanding) == CRem(c.tx_next_slot + SlotCount - outstanding, SlotCount) % U8

SlotContent(c, s) == IF s \in 0 .. (SlotCount - 1) THEN c.slots[s] ELSE Garbage

\* Mutant of retransmit_outstanding: T1 is not started again.
retransmit_outstanding_unwatched(c) == [c EXCEPT !.RETRANSMIT_PENDING = FALSE]

\* Mutant of retransmit_outstanding: the slots are counted back from V(S) to V(A),
\* the frames to retransmit_from.
retransmit_outstanding_slots_of_va(c) ==
  LET n      == Dist(c.vs, c.retransmit_from)
      oldest == OldestSlot(c, Outstanding(c))
      slot(k) == IF k = 0 THEN oldest ELSE (oldest + k) % SlotCount
      resent == [k \in 1 .. n |-> IFrame((c.retransmit_from + k - 1) % MOD8, c.vr,
                                         SlotContent(c, slot(k - 1)))]
  IN t1_start([c EXCEPT !.RETRANSMIT_PENDING = FALSE,
                        !.tx = @ \o resent,
                        !.ackOwed = @ /\ n = 0])

\* Every frame from retransmit_from up to V(S), which ends where it started.
retransmit_outstanding(c) ==
  LET n      == Dist(c.vs, c.retransmit_from)
      oldest == OldestSlot(c, n)
      slot(k) == IF k = 0 THEN oldest ELSE (oldest + k) % SlotCount
      resent == [k \in 1 .. n |-> IFrame((c.retransmit_from + k - 1) % MOD8, c.vr,
                                         SlotContent(c, slot(k - 1)))]
  IN t1_start([c EXCEPT !.RETRANSMIT_PENDING = FALSE,
                        !.tx = @ \o resent,
                        !.ackOwed = @ /\ n = 0])

==========================================================================
