------------------------------- MODULE HdlcApi -------------------------------
(***************************************************************************)
(* The calls the application and its timers make (hdlc_station.c), as      *)
(* operators on the context; transmit_i, transmit_ui, transmit_test and    *)
(* link_setup are in HdlcCore.  A call refused in the current state leaves *)
(* the context alone; that guard is in the action that makes the call.     *)
(***************************************************************************)
EXTENDS HdlcDispatch

\* Mutant of disconnect: the DISC is not timed.
disconnect_untimed(c) == set_state(send_u(c, TRUE, "DISC", TRUE), "DISCONNECTING", "DISC_REQ")

disconnect(c) ==
  set_state(t1_start(send_u(c, TRUE, "DISC", TRUE)), "DISCONNECTING", "DISC_REQ")

link_reset(c) ==
  set_state(t1_start(send_u(reset_state(c), TRUE, "SABM", TRUE)), "CONNECTING", "RESET")

set_local_busy(c, busy) ==
  CASE busy /\ ~c.LOCAL_BUSY -> [c EXCEPT !.LOCAL_BUSY = TRUE]
    [] ~busy /\ c.LOCAL_BUSY -> send_rr([c EXCEPT !.LOCAL_BUSY = FALSE], FALSE)
    [] OTHER                 -> c

Enquire(c) == IF c.LOCAL_BUSY THEN send_rnr(c, TRUE) ELSE send_rr(c, TRUE)

T1Counted(c) == [c EXCEPT !.T1_ACTIVE = FALSE, !.n2 = (c.n2 + 1) % U8]

\* Mutant of RetriesExhausted: one retry too many.
RetriesExhaustedLate(c) == MaxRetries > 0 /\ c.n2 > MaxRetries + 1

\* Mutant of RetriesExhausted: one retry too few.
RetriesExhaustedEarly(c) == MaxRetries > 0 /\ c.n2 >= MaxRetries

RetriesExhausted(c) == MaxRetries > 0 /\ c.n2 > MaxRetries

\* Mutant of T1Retry: the repeated SABM is not timed.
T1RetryUntimed(c) ==
  CASE c.state = "CONNECTING"    -> send_u(c, TRUE, "SABM", TRUE)
    [] c.state = "DISCONNECTING" -> t1_start(send_u(c, TRUE, "DISC", TRUE))
    [] c.state = "CONNECTED"     -> IF c.va # c.vs THEN t1_start(Enquire(c)) ELSE c
    [] c.state = "FRMR_ERROR"    -> t1_start(retransmit_frmr(c))
    [] OTHER                     -> c

T1Retry(c) ==
  CASE c.state = "CONNECTING"    -> t1_start(send_u(c, TRUE, "SABM", TRUE))
    [] c.state = "DISCONNECTING" -> t1_start(send_u(c, TRUE, "DISC", TRUE))
    [] c.state = "CONNECTED"     -> IF c.va # c.vs THEN t1_start(Enquire(c)) ELSE c
    [] c.state = "FRMR_ERROR"    -> t1_start(retransmit_frmr(c))
    [] OTHER                     -> c

t1_expired(c) ==
  LET e == T1Counted(c)
  IN IF RetriesExhausted(e)
     THEN reset_state(set_state(e, "DISCONNECTED", "LINK_FAILURE"))
     ELSE T1Retry(e)

t2_expired(c) ==
  LET e == [c EXCEPT !.T2_ACTIVE = FALSE]
  IN IF e.LOCAL_BUSY THEN send_rnr(e, FALSE) ELSE send_rr(e, FALSE)

abort(c) == [reset_state(c) EXCEPT !.state = "DISCONNECTED"]

==========================================================================
