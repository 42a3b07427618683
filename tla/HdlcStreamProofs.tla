--------------------------- MODULE HdlcStreamProofs ---------------------------
(***************************************************************************)
(* The reliable stream: two stations whose applications only set up the    *)
(* link, send and declare themselves busy, over a line that loses frames   *)
(* and a T1 longer than the round trip, for every window, every number of  *)
(* frames and losses.  The proof is the argument for Go-Back-N: what is    *)
(* under way in one direction was sent from the present window, what is    *)
(* under way in the other acknowledges no less, frame after frame, and     *)
(* nothing of an older connection lies in front of a station that listens. *)
(***************************************************************************)
EXTENDS HdlcLinkProofs

--------------------------------------------------------------------------
(* The engine when the application does not react in callbacks.           *)

\* A numbered frame, the only kind the data phase sends.
Numbered(f) == f.type = "I" \/ f.type \in SFrames

\* This call has sent supervisory frames at most, with the present V(R).
Answers(c) == \A i \in 1 .. Len(c.tx) : c.tx[i].type \in SFrames /\ c.tx[i].nr = c.vr

\* The numbers and payloads are the same in both directions.
Steady(c, r) == /\ r \in Ctx /\ SameWindow(c, r) /\ r.state = c.state
                /\ r.vr = c.vr /\ r.received = c.received
                /\ r.react = c.react /\ r.frmrSent = c.frmrSent
                /\ SamePending(c, r) /\ r.retransmit_from = c.retransmit_from

\* So they are, and at most a supervisory frame was sent.
Says(c, r) == Steady(c, r) /\ (Answers(c) => Answers(r))

LEMMA SaysThen ==
  ASSUME NEW c, NEW d, NEW r, Says(c, d), Says(d, r)
  PROVE  Says(c, r)
BY DEF Says, Steady, SameWindow, SamePending

LEMMA SaysNothing ==
  ASSUME NEW c, NEW r, Steady(c, r), r.tx = c.tx
  PROVE  Says(c, r)
BY DEF Says, Steady, Answers

LEMMA SaysS ==
  ASSUME NEW c \in Ctx, NEW cmd \in BOOLEAN, NEW pf \in BOOLEAN, NEW type \in SFrames
  PROVE  Says(c, send_s(c, cmd, type, pf))
<1> DEFINE f == SFrame(cmd, type, c.vr, pf)
           r == send_s(c, cmd, type, pf)
<1>1. r \in Ctx BY SendSKeeps
<1>2. f.type \in SFrames /\ f.nr = c.vr BY DEF SFrame
<1>3. Steady(c, r) /\ r.tx = Append(c.tx, f)
  <2> HIDE DEF f
  <2>1. r = [c EXCEPT !.tx = Append(@, f), !.ackOwed = FALSE] BY DEF send_s, f
  <2> QED BY <1>1, <2>1 DEF Steady, SameWindow, SamePending, Ctx
<1> HIDE DEF f, r
<1>4. ASSUME Answers(c), NEW i \in 1 .. Len(r.tx)
      PROVE  r.tx[i].type \in SFrames /\ r.tx[i].nr = r.vr
  <2>1. c.tx \in Seq(Frame) /\ Len(c.tx) \in Nat /\ Len(r.tx) = Len(c.tx) + 1 BY <1>3, CtxFields
  <2>2. r.vr = c.vr BY <1>3 DEF Steady
  <2>3. CASE i = Len(c.tx) + 1 BY <1>2, <1>3, <2>1, <2>2, <2>3
  <2>4. CASE i \in 1 .. Len(c.tx)
    <3>1. r.tx[i] = c.tx[i] BY <1>3, <2>1, <2>4
    <3> QED BY <1>4, <2>2, <2>4, <3>1 DEF Answers
  <2> QED BY <2>1, <2>3, <2>4
<1>5. Answers(c) => Answers(r) BY <1>4 DEF Answers
<1> QED BY <1>3, <1>5 DEF Says, r

LEMMA SaysR ==
  ASSUME NEW c \in Ctx, NEW pf \in BOOLEAN,
         NEW r \in {send_rr(c, pf), send_rr_resp(c, pf), send_rnr(c, pf), send_rej(c, pf)}
  PROVE  Says(c, r)
<1>1. \E cmd \in BOOLEAN, type \in SFrames : r = send_s(c, cmd, type, pf)
  BY DEF send_rr, send_rr_resp, send_rnr, send_rej, SFrames
<1> QED BY <1>1, SaysS

LEMMA TimersSay ==
  ASSUME NEW c \in Ctx
  PROVE  /\ Says(c, t1_start(c)) /\ Says(c, t1_stop(c))
         /\ Says(c, t2_start(c)) /\ Says(c, t2_stop(c))
<1>1. Steady(c, t1_start(c)) /\ t1_start(c).tx = c.tx
  BY DEF t1_start, Steady, SameWindow, SamePending, Ctx
<1>2. Steady(c, t1_stop(c)) /\ t1_stop(c).tx = c.tx
  BY DEF t1_stop, Steady, SameWindow, SamePending, Ctx
<1>3. Steady(c, t2_start(c)) /\ t2_start(c).tx = c.tx
  BY DEF t2_start, Steady, SameWindow, SamePending, Ctx
<1>4. Steady(c, t2_stop(c)) /\ t2_stop(c).tx = c.tx
  BY DEF t2_stop, Steady, SameWindow, SamePending, Ctx
<1> QED BY <1>1, <1>2, <1>3, <1>4, SaysNothing

\* Without a reaction a callback changes nothing.
LEMMA CalmEvent ==
  ASSUME NEW c \in Ctx, ~c.react, NEW e \in Events
  PROVE  on_event(c, e) = [c EXCEPT !.events = Append(@, e)] /\ Says(c, on_event(c, e))
<1> DEFINE r == [c EXCEPT !.events = Append(@, e)]
<1>1. on_event(c, e) = r BY DEF on_event
<1>2. r \in Ctx BY AppendEvent DEF Ctx
<1>3. Steady(c, r) /\ r.tx = c.tx BY <1>2 DEF Steady, SameWindow, SamePending, Ctx
<1> HIDE DEF r
<1> QED BY <1>1, <1>3, SaysNothing DEF r

LEMMA CalmData ==
  ASSUME NEW c \in Ctx, ~c.react, NEW info \in Payload
  PROVE  Says(c, on_data(c, info))
<1> DEFINE r == [c EXCEPT !.rcvd = Append(@, info)]
<1>1. on_data(c, info) = r BY DEF on_data
<1>2. r \in Ctx
  <2>1. Append(c.rcvd, info) \in Seq(Payload) BY CtxFields
  <2> QED BY <2>1 DEF Ctx
<1>3. Steady(c, r) /\ r.tx = c.tx BY <1>2 DEF Steady, SameWindow, SamePending, Ctx
<1> HIDE DEF r
<1> QED BY <1>1, <1>3, SaysNothing

\* A change of state is that, and an event.
LEMMA CalmState ==
  ASSUME NEW c \in Ctx, ~c.react, NEW st0 \in States, NEW e \in Events, c.state # st0 \/ e = "CONN_REQ"
  PROVE  Says([c EXCEPT !.state = st0], set_state(c, st0, e))
<1> DEFINE d == [c EXCEPT !.state = st0]
<1>1. d \in Ctx /\ ~d.react BY DEF Ctx
<1>2. set_state(c, st0, e) = on_event(d, e) BY DEF set_state
<1> HIDE DEF d
<1> QED BY <1>1, <1>2, CalmEvent DEF d

--------------------------------------------------------------------------
(* Reception in the data phase.                                           *)

\* V(A) has moved to nr; nothing was sent and no number else has changed.
Moved(c, nr, r) == /\ r \in Ctx /\ r.va = nr
                   /\ r.vs = c.vs /\ r.tx_next_slot = c.tx_next_slot /\ r.slots = c.slots
                   /\ r.accepted = c.accepted /\ r.vr = c.vr /\ r.received = c.received
                   /\ r.state = c.state /\ r.react = c.react /\ r.frmrSent = c.frmrSent
                   /\ r.tx = c.tx

\* A retransmission under way starts at V(A).
Starts(c) == c.RETRANSMIT_PENDING => c.retransmit_from = c.va

LEMMA CalmAcked ==
  ASSUME NEW c \in Ctx, ~c.react, NEW nr \in Seqs
  PROVE  Moved(c, nr, frames_acked(c, nr)) /\ SamePending(c, frames_acked(c, nr))
<1> DEFINE a == [c EXCEPT !.va = nr, !.n2 = 0]
<1>1. CASE nr = c.va BY <1>1 DEF frames_acked, Moved, SamePending
<1>2. CASE nr # c.va
  <2>1. a \in Ctx /\ Moved(c, nr, a) /\ SamePending(c, a) /\ ~a.react
    <3>1. 0 \in 0 .. (U8 - 1) BY WidthAssumption, ModulusAssumption
    <3> QED BY <3>1 DEF Moved, SamePending, Ctx
  <2>2. frames_acked(c, nr) \in {a, on_event(a, "WINDOW_OPEN")} BY <1>2 DEF frames_acked
  <2> HIDE DEF a
  <2> DEFINE w == on_event(a, "WINDOW_OPEN")
  <2>3. w = [a EXCEPT !.events = Append(@, "WINDOW_OPEN")] /\ Says(a, w)
    BY <2>1, CalmEvent DEF Events
  <2>4. w.tx = a.tx BY <2>1, <2>3 DEF Ctx
  <2> HIDE DEF w
  <2>5. Moved(c, nr, w) /\ SamePending(c, w)
    BY <2>1, <2>3, <2>4 DEF Says, Steady, SameWindow, SamePending, Moved
  <2> QED BY <2>1, <2>2, <2>5 DEF w
<1> QED BY <1>1, <1>2

LEMMA TimerMoved ==
  ASSUME NEW c, NEW nr, NEW a \in Ctx, Moved(c, nr, a), SamePending(c, a)
  PROVE  /\ Moved(c, nr, t1_start(a)) /\ SamePending(c, t1_start(a))
         /\ Moved(c, nr, t1_stop(a)) /\ SamePending(c, t1_stop(a))
<1>1. Moved(c, nr, t1_start(a)) /\ SamePending(c, t1_start(a))
  BY DEF Moved, SamePending, t1_start, Ctx
<1>2. Moved(c, nr, t1_stop(a)) /\ SamePending(c, t1_stop(a))
  BY DEF Moved, SamePending, t1_stop, Ctx
<1> QED BY <1>1, <1>2

LEMMA CalmNr ==
  ASSUME NEW c \in Ctx, ~c.react, NEW nr \in Seqs, ~c.RETRANSMIT_PENDING
  PROVE  Moved(c, nr, process_nr(c, nr)) /\ ~process_nr(c, nr).RETRANSMIT_PENDING
<1> DEFINE a == frames_acked(c, nr)
<1>1. Moved(c, nr, a) /\ SamePending(c, a) /\ a \in Ctx BY CalmAcked DEF Moved
<1>2. process_nr(c, nr) \in {t1_stop(a), t1_start(a)}
      \/ (process_nr(c, nr) = c /\ c.va = nr)
  BY DEF process_nr
<1> HIDE DEF a
<1>3. CASE process_nr(c, nr) \in {t1_stop(a), t1_start(a)}
  BY <1>1, <1>3, TimerMoved DEF SamePending
<1>4. CASE process_nr(c, nr) = c /\ c.va = nr BY <1>4 DEF Moved
<1> QED BY <1>2, <1>3, <1>4

LEMMA CalmTrigger ==
  ASSUME NEW c \in Ctx
  PROVE  /\ Moved(c, c.va, trigger_retransmit(c, c.va))
         /\ Starts(c) => Starts(trigger_retransmit(c, c.va))
<1> DEFINE t == [c EXCEPT !.retransmit_from = c.va, !.RETRANSMIT_PENDING = TRUE]
<1>1. trigger_retransmit(c, c.va) \in {c, t} BY DEF trigger_retransmit
<1>2. Moved(c, c.va, t) /\ Starts(t) BY CtxFields DEF Moved, Starts, Ctx
<1>3. Moved(c, c.va, c) BY DEF Moved
<1> HIDE DEF t
<1> QED BY <1>1, <1>2, <1>3

LEMMA CalmRej ==
  ASSUME NEW c \in Ctx, ~c.react, NEW nr \in Seqs, ~c.RETRANSMIT_PENDING
  PROVE  Moved(c, nr, handle_rej(c, nr)) /\ Starts(handle_rej(c, nr))
<1> DEFINE a == t1_stop(frames_acked(c, nr))
<1>1. Moved(c, nr, a) /\ SamePending(c, a) /\ a \in Ctx
  BY CalmAcked, TimerMoved DEF Moved
<1>2. handle_rej(c, nr) \in {a, trigger_retransmit(a, a.va)} BY <1>1 DEF handle_rej, Moved
<1> HIDE DEF a
<1>3. Starts(a) BY <1>1 DEF Starts, SamePending
<1>4. Moved(a, a.va, trigger_retransmit(a, a.va)) /\ Starts(trigger_retransmit(a, a.va))
  BY <1>1, <1>3, CalmTrigger
<1> QED BY <1>1, <1>2, <1>3, <1>4 DEF Moved

\* What a numbered frame does to the numbers of a station in the data phase.
Turns(c, f, r) ==
  /\ r \in Ctx /\ r.va = f.nr
  /\ r.vs = c.vs /\ r.tx_next_slot = c.tx_next_slot /\ r.slots = c.slots
  /\ r.accepted = c.accepted
  /\ r.state = c.state /\ r.react = c.react /\ r.frmrSent = c.frmrSent
  /\ IF f.type = "I" /\ f.ns = c.vr
     THEN r.vr = Next8(c.vr) /\ r.received = (c.received + 1) % PayloadCount
     ELSE r.vr = c.vr /\ r.received = c.received

\* What dispatch_frame makes of it.
Took(c, f, r) == Turns(c, f, r) /\ Starts(r) /\ Answers(r)

\* In sequence: V(R) moves, the payload is handed over, and the present V(R)
\* is sent now or when T2 expires.
LEMMA CalmInSequence ==
  ASSUME NEW p \in Ctx, NEW f \in Frame, ~p.react, p.tx = << >>
  PROVE  \E m \in Ctx : /\ m.vr = Next8(p.vr) /\ m.received = (p.received + 1) % PayloadCount
                        /\ SameWindow(p, m) /\ m.state = p.state /\ m.react = p.react
                        /\ m.frmrSent = p.frmrSent /\ SamePending(p, m)
                        /\ m.tx = << >>
                        /\ Says(m, handle_in_sequence_iframe(p, f))
<1> DEFINE m == [p EXCEPT !.vr = Next8(p.vr), !.REJ_EXCEPTION = FALSE, !.ackOwed = TRUE,
                          !.received = (p.received + 1) % PayloadCount]
           d == on_data(m, f.info)
           r == handle_in_sequence_iframe(p, f)
<1>1. Next8(p.vr) \in Seqs /\ (p.received + 1) % PayloadCount \in 0 .. (PayloadCount - 1)
  <2>1. p.vr \in Seqs /\ p.received + 1 \in Nat BY CtxFields
  <2> QED BY <2>1, NextRange, PayloadRange
<1>2. /\ m \in Ctx /\ m.vr = Next8(p.vr) /\ m.received = (p.received + 1) % PayloadCount
      /\ SameWindow(p, m) /\ m.state = p.state /\ m.react = p.react
      /\ m.frmrSent = p.frmrSent /\ SamePending(p, m) /\ m.tx = << >>
  BY <1>1 DEF SameWindow, SamePending, Ctx
<1>3. r \in {t2_stop(send_rr_resp(d, TRUE)), t2_stop(send_rnr(d, TRUE)), send_rnr(d, FALSE),
             t2_start(d), d}
  BY Zenon DEF handle_in_sequence_iframe, deliver_iframe
<1> HIDE DEF m
<1>4. d \in Ctx /\ Says(m, d)
  <2>1. f.info \in Payload BY DEF Frame
  <2> QED BY <1>2, <2>1, CalmData DEF Says, Steady
<1> HIDE DEF d
<1>5. \A pf \in BOOLEAN : Says(d, send_rr_resp(d, pf)) /\ Says(d, send_rnr(d, pf)) BY <1>4, SaysR
<1>6. ASSUME NEW x, Says(d, x) PROVE Says(d, t2_stop(x))
  <2>1. x \in Ctx BY <1>6 DEF Says, Steady
  <2> QED BY <1>6, <2>1, TimersSay, SaysThen
<1>7. Says(d, d) BY <1>4, SaysNothing DEF Steady, SameWindow, SamePending
<1>8. Says(d, t2_start(d)) BY <1>4, TimersSay
<1>9. Says(d, r) BY <1>3, <1>5, <1>6, <1>7, <1>8
<1> HIDE DEF r
<1>10. Says(m, r) BY <1>4, <1>9, SaysThen
<1> QED BY <1>2, <1>10 DEF r

LEMMA CalmOutOfSequence ==
  ASSUME NEW p \in Ctx, NEW f \in Frame
  PROVE  Says(p, handle_out_of_sequence_iframe(p, f))
<1> DEFINE x == [p EXCEPT !.REJ_EXCEPTION = TRUE]
           r == handle_out_of_sequence_iframe(p, f)
<1>1. x \in Ctx /\ Steady(p, x) /\ x.tx = p.tx BY DEF Steady, SameWindow, SamePending, Ctx
<1>2. f.pf \in BOOLEAN BY DEF Frame
<1>3. r \in {send_rr_resp(p, TRUE), t2_stop(send_rej(x, f.pf)), p}
  BY <1>2, Zenon DEF handle_out_of_sequence_iframe
<1> HIDE DEF x
<1>4. Says(p, send_rr_resp(p, TRUE)) BY SaysR
<1>5. Says(p, t2_stop(send_rej(x, f.pf)))
  <2>1. Says(x, send_rej(x, f.pf)) /\ send_rej(x, f.pf) \in Ctx BY <1>1, <1>2, SaysR DEF Says, Steady
  <2>2. Says(p, x) BY <1>1, SaysNothing
  <2> QED BY <2>1, <2>2, TimersSay, SaysThen
<1>6. Says(p, p) BY SaysNothing DEF Steady, SameWindow, SamePending
<1> QED BY <1>3, <1>4, <1>5, <1>6

LEMMA CalmIFrame ==
  ASSUME NEW c \in Ctx, NEW f \in Frame, f.type = "I", ~c.react, ~c.RETRANSMIT_PENDING,
         c.tx = << >>, ValidNr(c, f.nr)
  PROVE  Took(c, f, handle_iframe(c, f))
<1> DEFINE p == process_nr(c, f.nr)
           r == handle_iframe(c, f)
<1>1. Moved(c, f.nr, p) /\ ~p.RETRANSMIT_PENDING /\ p \in Ctx
  <2>1. f.nr \in Seqs BY DEF Frame
  <2> QED BY <2>1, CalmNr DEF Moved
<1>2. r = IF f.ns = p.vr THEN handle_in_sequence_iframe(p, f)
                         ELSE handle_out_of_sequence_iframe(p, f)
  BY DEF handle_iframe
<1> HIDE DEF p, r
<1>3. CASE f.ns = p.vr
  <2>1. PICK m \in Ctx : /\ m.vr = Next8(p.vr) /\ m.received = (p.received + 1) % PayloadCount
                         /\ SameWindow(p, m) /\ m.state = p.state /\ m.react = p.react
                         /\ m.frmrSent = p.frmrSent /\ SamePending(p, m)
                         /\ m.tx = << >>
                         /\ Says(m, r)
    BY <1>1, <1>2, <1>3, CalmInSequence DEF Moved
  <2>2. Answers(m) BY <2>1 DEF Answers
  <2>3. Took(c, f, r)
    BY <1>1, <1>3, <2>1, <2>2
    DEF Took, Turns, Moved, Says, Steady, SameWindow, SamePending, Starts
  <2> QED BY <2>3 DEF r
<1>4. CASE f.ns # p.vr
  <2>1. Says(p, r) BY <1>1, <1>2, <1>4, CalmOutOfSequence
  <2>2. Answers(p) BY <1>1 DEF Answers, Moved
  <2>3. Took(c, f, r)
    BY <1>1, <1>4, <2>1, <2>2
    DEF Took, Turns, Moved, Says, Steady, SameWindow, SamePending, Starts
  <2> QED BY <2>3 DEF r
<1> QED BY <1>3, <1>4

LEMMA CalmBusyUpdate ==
  ASSUME NEW c \in Ctx, NEW f \in Frame, ~c.react
  PROVE  Says(c, remote_busy_update(c, f))
<1> DEFINE x == [c EXCEPT !.REMOTE_BUSY = FALSE]
           y == [c EXCEPT !.REMOTE_BUSY = TRUE]
           r == remote_busy_update(c, f)
<1>1. Steady(c, x) /\ x.tx = c.tx /\ ~x.react /\ x \in Ctx BY DEF Steady, SameWindow, SamePending, Ctx
<1>2. Steady(c, y) /\ y.tx = c.tx /\ ~y.react /\ y \in Ctx BY DEF Steady, SameWindow, SamePending, Ctx
<1>3. r \in {on_event(x, "PEER_READY"), on_event(y, "PEER_BUSY"), x, c}
  BY Zenon DEF remote_busy_update
<1> HIDE DEF x, y
<1>4. Says(c, x) /\ Says(c, y) BY <1>1, <1>2, SaysNothing
<1>5. Says(x, on_event(x, "PEER_READY")) /\ Says(y, on_event(y, "PEER_BUSY"))
  BY <1>1, <1>2, CalmEvent DEF Events
<1>6. Says(c, c) BY SaysNothing DEF Steady, SameWindow, SamePending
<1> QED BY <1>3, <1>4, <1>5, <1>6, SaysThen

LEMMA CalmSFrame ==
  ASSUME NEW c \in Ctx, NEW f \in Frame, is_sframe(f), ~c.react, ~c.RETRANSMIT_PENDING,
         c.tx = << >>, ValidNr(c, f.nr)
  PROVE  Took(c, f, handle_sframe(c, f))
<1> DEFINE b == remote_busy_update(c, f)
           r == IF f.cmd /\ f.pf THEN t2_stop(send_rr_resp(b, TRUE)) ELSE b
           p == IF f.type = "REJ" THEN handle_rej(r, f.nr) ELSE process_nr(r, f.nr)
           h == handle_sframe(c, f)
<1>1. f.nr \in Seqs /\ f.type # "I" BY DEF Frame, is_sframe, SFrames
<1>2. Says(c, b) /\ b \in Ctx BY CalmBusyUpdate DEF Says, Steady
<1>3. ValidNr(r, f.nr) => h \in {p, trigger_retransmit(p, p.va)}
  BY Zenon DEF handle_sframe
<1> HIDE DEF b
<1>4. Says(c, r) /\ r \in Ctx
  <2>1. Says(b, send_rr_resp(b, TRUE)) /\ send_rr_resp(b, TRUE) \in Ctx
    BY <1>2, SaysR DEF Says, Steady
  <2>2. Says(b, t2_stop(send_rr_resp(b, TRUE))) BY <2>1, TimersSay, SaysThen
  <2>3. Says(c, t2_stop(send_rr_resp(b, TRUE))) BY <1>2, <2>2, SaysThen
  <2> QED BY <1>2, <2>3 DEF Says, Steady
<1> HIDE DEF r
<1>5. ~r.react /\ ~r.RETRANSMIT_PENDING /\ ValidNr(r, f.nr) /\ Answers(r)
  BY <1>4 DEF Says, Steady, SameWindow, SamePending, Answers, ValidNr
<1>6. Moved(r, f.nr, p) /\ Starts(p) /\ p \in Ctx
  BY <1>1, <1>4, <1>5, CalmRej, CalmNr DEF Moved, Starts
<1> HIDE DEF p
<1>7. \A x : Moved(r, f.nr, x) /\ Starts(x) => Took(c, f, x)
  BY <1>1, <1>4, <1>5 DEF Moved, Took, Turns, Says, Steady, SameWindow, Answers
<1>8. Moved(r, f.nr, trigger_retransmit(p, p.va)) /\ Starts(trigger_retransmit(p, p.va))
  <2> DEFINE t == trigger_retransmit(p, p.va)
  <2>1. Moved(p, p.va, t) /\ Starts(t) BY <1>6, CalmTrigger
  <2> HIDE DEF t
  <2> QED BY <1>6, <2>1 DEF Moved, t
<1>9. Took(c, f, p) /\ Took(c, f, trigger_retransmit(p, p.va)) BY <1>6, <1>7, <1>8
<1>10. h \in {p, trigger_retransmit(p, p.va)} BY <1>3, <1>5
<1> QED BY <1>9, <1>10

LEMMA CalmDispatch ==
  ASSUME NEW c \in Ctx, NEW f \in Frame, Numbered(f), c.state = "CONNECTED",
         ~c.react, ~c.RETRANSMIT_PENDING, c.tx = << >>, ValidNr(c, f.nr)
  PROVE  Took(c, f, dispatch_frame(c, f))
<1>1. CASE f.type = "I"
  <2>1. dispatch_frame(c, f) = handle_iframe(c, f)
    BY <1>1 DEF dispatch_frame, state_connected, is_iframe, is_sframe, is_uframe, SFrames
  <2> QED BY <1>1, <2>1, CalmIFrame
<1>2. CASE f.type # "I"
  <2>1. is_sframe(f) BY <1>2 DEF Numbered, is_sframe
  <2>2. dispatch_frame(c, f) = handle_sframe(c, f)
    BY <1>2, <2>1 DEF dispatch_frame, state_connected, is_iframe, is_sframe, is_uframe, SFrames
  <2> QED BY <2>1, <2>2, CalmSFrame
<1> QED BY <1>1, <1>2

\* Everything this call has sent is numbered with the present V(R); its
\* I-frames are of the present window.
Speaks(c) ==
  \A i \in 1 .. Len(c.tx) :
    Numbered(c.tx[i]) /\ c.tx[i].nr = c.vr /\ (c.tx[i].type = "I" => Resent(c, c.tx[i]))

LEMMA AnswersSpeak ==
  ASSUME NEW c, Answers(c)
  PROVE  Speaks(c)
BY DEF Answers, Speaks, Numbered, SFrames

LEMMA CalmRetransmit ==
  ASSUME NEW c \in Ctx, Good(c), Held(c), c.retransmit_from = c.va, Answers(c)
  PROVE  LET r == retransmit_outstanding(c)
         IN Turns(c, [type |-> "RR", nr |-> c.va], r) /\ Speaks(r)
<1> DEFINE r == retransmit_outstanding(c)
<1>1. PICK o \in Seq(Frame) : /\ r.tx = c.tx \o o
                              /\ \A k \in 1 .. Len(o) : Resent(c, o[k])
  BY ResentFrames DEF Good
<1>2. r.vr = c.vr /\ r.received = c.received /\ r.react = c.react /\ r.frmrSent = c.frmrSent
  <2> DEFINE n == Dist(c.vs, c.retransmit_from)
             oldest == OldestSlot(c, n)
             slot(k) == IF k = 0 THEN oldest ELSE (oldest + k) % SlotCount
             resent == [k \in 1 .. n |-> IFrame((c.retransmit_from + k - 1) % MOD8, c.vr,
                                                SlotContent(c, slot(k - 1)))]
             sent == c.tx \o resent
             owed == c.ackOwed /\ n = 0
             x == [c EXCEPT !.RETRANSMIT_PENDING = FALSE, !.tx = sent, !.ackOwed = owed]
  <2>1. r = t1_start(x) BY Zenon DEF retransmit_outstanding
  <2> HIDE DEF sent, owed
  <2>2. /\ t1_start(x).vr = c.vr /\ t1_start(x).received = c.received
        /\ t1_start(x).react = c.react /\ t1_start(x).frmrSent = c.frmrSent
    BY DEF t1_start, Ctx
  <2> QED BY <2>1, <2>2
<1>3. SameWindow(c, r) /\ r.state = c.state BY RetransmitFields
<1>4. r \in Ctx BY RetransmitGood
<1> HIDE DEF r
<1>5. Turns(c, [type |-> "RR", nr |-> c.va], r) BY <1>2, <1>3, <1>4 DEF Turns, SameWindow
<1>6. ASSUME NEW i \in 1 .. Len(r.tx)
      PROVE  Numbered(r.tx[i]) /\ r.tx[i].nr = r.vr /\ (r.tx[i].type = "I" => Resent(r, r.tx[i]))
  <2>1. c.tx \in Seq(Frame) /\ Len(c.tx) \in Nat /\ Len(o) \in Nat /\ Len(r.tx) = Len(c.tx) + Len(o)
    BY <1>1, CtxFields
  <2>2. CASE i \in 1 .. Len(c.tx)
    <3>1. r.tx[i] = c.tx[i] BY <1>1, <2>1, <2>2
    <3>2. c.tx[i].type \in SFrames /\ c.tx[i].nr = c.vr BY <2>2 DEF Answers
    <3> QED BY <1>2, <3>1, <3>2 DEF Numbered, SFrames
  <2>3. CASE i \in (Len(c.tx) + 1) .. Len(r.tx)
    <3>1. i - Len(c.tx) \in 1 .. Len(o) /\ r.tx[i] = o[i - Len(c.tx)] BY <1>1, <2>1, <2>3
    <3>2. Resent(c, r.tx[i]) BY <1>1, <3>1
    <3>3. Resent(r, r.tx[i]) BY <1>2, <1>3, <3>2 DEF Resent, SameWindow, Outstanding, Named
    <3> QED BY <3>3 DEF Resent, Numbered
  <2> QED BY <2>1, <2>2, <2>3
<1>7. Speaks(r) BY <1>6 DEF Speaks
<1> QED BY <1>5, <1>7 DEF r

\* A data_in call with one numbered frame.
LEMMA CalmReceive ==
  ASSUME NEW c, Rested(c), NEW f \in Frame, Numbered(f), c.state = "CONNECTED",
         ~c.react, c.tx = << >>, ValidNr(c, f.nr)
  PROVE  LET d == dispatch_frame(c, f)
             r == IF d.RETRANSMIT_PENDING THEN retransmit_outstanding(d) ELSE d
         IN Turns(c, f, r) /\ Speaks(r)
<1> DEFINE d == dispatch_frame(c, f)
           r == IF d.RETRANSMIT_PENDING THEN retransmit_outstanding(d) ELSE d
<1>1. c \in Ctx /\ Good(c) /\ Held(c) /\ ~c.RETRANSMIT_PENDING BY DEF Rested
<1>2. Took(c, f, d) BY <1>1, CalmDispatch
<1>3. d \in Ctx /\ Good(d) /\ Held(d) BY <1>1, DispatchGood, DispatchOutcome DEF Outcome
<1> HIDE DEF d
<1>4. ASSUME d.RETRANSMIT_PENDING PROVE Turns(c, f, r) /\ Speaks(r)
  <2> DEFINE x == retransmit_outstanding(d)
  <2>1. d.retransmit_from = d.va /\ Answers(d)
    BY <1>2, <1>4 DEF Took, Starts
  <2>2. Turns(d, [type |-> "RR", nr |-> d.va], x) /\ Speaks(x) BY <1>3, <2>1, CalmRetransmit
  <2> HIDE DEF x
  <2>3. Turns(c, f, x) BY <1>2, <2>2 DEF Turns, Took
  <2> QED BY <1>4, <2>2, <2>3 DEF x
<1>5. ASSUME ~d.RETRANSMIT_PENDING PROVE Turns(c, f, r) /\ Speaks(r)
  BY <1>2, <1>5, AnswersSpeak DEF Took
<1>6. Turns(c, f, r) /\ Speaks(r) BY <1>4, <1>5
<1> QED BY <1>6 DEF d

--------------------------------------------------------------------------
(* The other calls and frames.                                            *)

LEMMA CalmTransmit ==
  ASSUME NEW c \in Ctx, CanTransmit(c), c.tx = << >>
  PROVE  LET r == transmit_i(c)
         IN /\ r \in Ctx /\ r.state = c.state /\ r.react = c.react /\ r.frmrSent = c.frmrSent
            /\ r.vr = c.vr /\ r.received = c.received
            /\ r.va = c.va /\ r.vs = Next8(c.vs)
            /\ r.accepted = (c.accepted + 1) % PayloadCount
            /\ Outstanding(r) = Outstanding(c) + 1
            /\ Speaks(r)
<1> DEFINE r == transmit_i(c)
           f == IFrame(c.vs, c.vr, c.accepted)
<1>1. r.vr = c.vr /\ r.received = c.received /\ r.react = c.react /\ r.frmrSent = c.frmrSent
  <2> DEFINE sent == [c EXCEPT !.slots[c.tx_next_slot] = c.accepted,
                               !.tx_next_slot = (c.tx_next_slot + 1) % SlotCount,
                               !.tx = Append(@, f),
                               !.vs = Next8(c.vs),
                               !.accepted = (c.accepted + 1) % PayloadCount,
                               !.ackOwed = FALSE,
                               !.T2_ACTIVE = FALSE]
  <2>1. r \in {sent, t1_start(sent)} BY Zenon DEF transmit_i
  <2>2. /\ sent.vr = c.vr /\ sent.received = c.received /\ sent.react = c.react
        /\ sent.frmrSent = c.frmrSent /\ DOMAIN sent = DOMAIN c
    <3> HIDE DEF f
    <3> QED BY DEF Ctx
  <2> HIDE DEF sent
  <2>3. /\ t1_start(sent).vr = sent.vr /\ t1_start(sent).received = sent.received
        /\ t1_start(sent).react = sent.react /\ t1_start(sent).frmrSent = sent.frmrSent
    BY <2>2 DEF t1_start, Ctx
  <2> QED BY <2>1, <2>2, <2>3
<1>2. /\ r.va = c.va /\ r.vs = Next8(c.vs) /\ r.accepted = (c.accepted + 1) % PayloadCount
      /\ r.tx = Append(c.tx, f) /\ r.state = c.state
  BY TransmitFields
<1>3. r \in Ctx BY TransmitType
<1>4. c.vs \in Seqs /\ c.va \in Seqs /\ Outstanding(c) \in Nat /\ Outstanding(c) < SlotCount
  BY CtxFields, OutstandingNat DEF CanTransmit
<1>5. Outstanding(r) = Outstanding(c) + 1 BY <1>2, <1>4, DistNext DEF Outstanding
<1>6. Dist(r.vs, c.vs) = 1 BY <1>2, <1>4, DistGrows
<1>7. Named(r, 1) = c.accepted BY NamedNext
<1>8. f.type = "I" /\ f.nr = c.vr /\ f.ns = c.vs /\ f.info = c.accepted BY DEF IFrame
<1>9. Resent(r, f) BY <1>1, <1>4, <1>5, <1>6, <1>7, <1>8 DEF Resent
<1> HIDE DEF r, f
<1>10. r.tx = <<f>> BY <1>2
<1>11. Speaks(r) BY <1>1, <1>8, <1>9, <1>10 DEF Speaks, Numbered
<1> QED BY <1>1, <1>2, <1>3, <1>5, <1>11 DEF r

LEMMA CalmT2 ==
  ASSUME NEW c \in Ctx
  PROVE  Says(c, t2_expired(c))
<1> DEFINE e == [c EXCEPT !.T2_ACTIVE = FALSE]
<1>1. Steady(c, e) /\ e.tx = c.tx /\ e \in Ctx BY DEF Steady, SameWindow, SamePending, Ctx
<1>2. t2_expired(c) \in {send_rnr(e, FALSE), send_rr(e, FALSE)} BY DEF t2_expired
<1> HIDE DEF e
<1>3. Says(e, send_rnr(e, FALSE)) /\ Says(e, send_rr(e, FALSE)) BY <1>1, SaysR
<1>4. Says(c, e) BY <1>1, SaysNothing
<1>5. Says(c, send_rnr(e, FALSE)) BY <1>3, <1>4, SaysThen
<1>6. Says(c, send_rr(e, FALSE)) BY <1>3, <1>4, SaysThen
<1> QED BY <1>2, <1>5, <1>6

LEMMA CalmBusy ==
  ASSUME NEW c \in Ctx, NEW busy \in BOOLEAN
  PROVE  Says(c, set_local_busy(c, busy))
<1> DEFINE x == [c EXCEPT !.LOCAL_BUSY = TRUE]
           y == [c EXCEPT !.LOCAL_BUSY = FALSE]
<1>1. Steady(c, x) /\ x.tx = c.tx BY DEF Steady, SameWindow, SamePending, Ctx
<1>2. Steady(c, y) /\ y.tx = c.tx /\ y \in Ctx BY DEF Steady, SameWindow, SamePending, Ctx
<1>3. set_local_busy(c, busy) \in {x, send_rr(y, FALSE), c} BY Zenon DEF set_local_busy
<1> HIDE DEF x, y
<1>4. Says(c, x) /\ Says(c, y) BY <1>1, <1>2, SaysNothing
<1>5. Says(y, send_rr(y, FALSE)) BY <1>2, SaysR
<1>6. Says(c, c) BY SaysNothing DEF Steady, SameWindow, SamePending
<1> QED BY <1>3, <1>4, <1>5, <1>6, SaysThen

\* Everything is as a reset leaves it, on a connection that is up.
Started(r) == /\ r \in Ctx /\ r.state = "CONNECTED" /\ ~r.react /\ ~r.frmrSent
              /\ r.vs = 0 /\ r.va = 0 /\ r.vr = 0 /\ r.accepted = 0 /\ r.received = 0

\* Nothing is expected of this station, and it has sent nothing in this call.
Down(r) == /\ r \in Ctx /\ r.state = "DISCONNECTED" /\ ~r.react /\ ~r.frmrSent
           /\ ~r.T2_ACTIVE /\ r.tx = << >>

LEMMA CalmReset ==
  ASSUME NEW c \in Ctx, ~c.react
  PROVE  LET r == reset_state(c)
         IN /\ r \in Ctx /\ r.state = c.state /\ ~r.react /\ ~r.frmrSent /\ ~r.T2_ACTIVE
            /\ r.vs = 0 /\ r.va = 0 /\ r.vr = 0 /\ r.accepted = 0 /\ r.received = 0
            /\ r.tx = c.tx
<1>1. reset_state(c) \in Ctx /\ reset_state(c).state = c.state BY ResetGood
<1>2. LET r == reset_state(c)
      IN /\ ~r.react /\ ~r.frmrSent /\ ~r.T2_ACTIVE
         /\ r.vs = 0 /\ r.va = 0 /\ r.vr = 0 /\ r.accepted = 0 /\ r.received = 0
         /\ r.tx = c.tx
  BY DEF reset_state, Ctx
<1> QED BY <1>1, <1>2

\* The answer to a SABM, out of CONNECTING.
LEMMA CalmAccept ==
  ASSUME NEW c \in Ctx, NEW f \in Frame, ~c.react, c.tx = << >>
  PROVE  LET r == accept_sabm(c, f)
         IN Started(r) /\ r.tx = <<UFrame(FALSE, "UA", f.pf, Empty)>>
<1> DEFINE z == reset_state(c)
           u == send_ua(z, f.pf)
           d == [u EXCEPT !.state = "CONNECTED"]
           a == UFrame(FALSE, "UA", f.pf, Empty)
           r == accept_sabm(c, f)
<1>1. /\ z \in Ctx /\ ~z.react /\ ~z.frmrSent /\ z.vs = 0 /\ z.va = 0 /\ z.vr = 0
      /\ z.accepted = 0 /\ z.received = 0 /\ z.tx = << >>
  BY CalmReset
<1>2. f.pf \in BOOLEAN BY DEF Frame
<1>3. r = set_state(u, "CONNECTED", "CONN_REQ") BY DEF accept_sabm
<1> HIDE DEF z
<1>4. u \in Ctx BY <1>1, <1>2, SendUKeeps DEF send_ua, FrameTypes
<1>5. u = [z EXCEPT !.tx = Append(@, a)] BY DEF send_ua, send_u
<1> HIDE DEF u, a
<1>6. /\ ~u.react /\ ~u.frmrSent /\ u.vs = 0 /\ u.va = 0 /\ u.vr = 0
      /\ u.accepted = 0 /\ u.received = 0 /\ u.tx = Append(<< >>, a)
  <2>1. DOMAIN z = DOMAIN u BY <1>5
  <2>2. u.tx = Append(z.tx, a) BY <1>1, <1>5 DEF Ctx
  <2>3. /\ u.react = z.react /\ u.frmrSent = z.frmrSent /\ u.vs = z.vs /\ u.va = z.va
        /\ u.vr = z.vr /\ u.accepted = z.accepted /\ u.received = z.received
    BY <1>5
  <2> QED BY <1>1, <2>2, <2>3
<1>7. /\ d \in Ctx /\ ~d.react /\ ~d.frmrSent /\ d.vs = 0 /\ d.va = 0 /\ d.vr = 0
      /\ d.accepted = 0 /\ d.received = 0 /\ d.tx = <<a>> /\ d.state = "CONNECTED"
  <2>1. "CONNECTED" \in States BY DEF States
  <2>2. d \in Ctx /\ d.state = "CONNECTED" BY <1>4, <2>1 DEF Ctx
  <2>3. /\ d.react = u.react /\ d.frmrSent = u.frmrSent /\ d.vs = u.vs /\ d.va = u.va
        /\ d.vr = u.vr /\ d.accepted = u.accepted /\ d.received = u.received /\ d.tx = u.tx
    OBVIOUS
  <2>4. Append(<< >>, a) = <<a>> OBVIOUS
  <2> QED BY <1>6, <2>2, <2>3, <2>4
<1>8. r = on_event(d, "CONN_REQ") BY <1>3 DEF set_state
<1> HIDE DEF d, r
<1>9. r = [d EXCEPT !.events = Append(@, "CONN_REQ")] /\ Says(d, r)
  BY <1>7, <1>8, CalmEvent DEF Events
<1>10. Started(r) BY <1>7, <1>9 DEF Started, Says, Steady, SameWindow
<1>11. r.tx = <<a>> BY <1>7, <1>9 DEF Ctx
<1> QED BY <1>10, <1>11 DEF r, a

\* The UA to the own SABM.
LEMMA CalmUp ==
  ASSUME NEW c \in Ctx, ~c.react, c.tx = << >>, c.state = "CONNECTING"
  PROVE  LET r == set_state(reset_state(c), "CONNECTED", "CONN_ACCEPTED")
         IN Started(r) /\ r.tx = << >>
<1> DEFINE z == reset_state(c)
           d == [z EXCEPT !.state = "CONNECTED"]
           r == set_state(z, "CONNECTED", "CONN_ACCEPTED")
<1>1. /\ z \in Ctx /\ ~z.react /\ ~z.frmrSent /\ z.vs = 0 /\ z.va = 0 /\ z.vr = 0
      /\ z.accepted = 0 /\ z.received = 0 /\ z.tx = << >> /\ z.state = "CONNECTING"
  BY CalmReset
<1> HIDE DEF z
<1>2. /\ d \in Ctx /\ ~d.react /\ ~d.frmrSent /\ d.vs = 0 /\ d.va = 0 /\ d.vr = 0
      /\ d.accepted = 0 /\ d.received = 0 /\ d.tx = << >> /\ d.state = "CONNECTED"
  <2>1. "CONNECTED" \in States BY DEF States
  <2> QED BY <1>1, <2>1 DEF Ctx
<1>3. r = on_event(d, "CONN_ACCEPTED") BY <1>1 DEF set_state
<1> HIDE DEF d, r
<1>4. r = [d EXCEPT !.events = Append(@, "CONN_ACCEPTED")] /\ Says(d, r)
  BY <1>2, <1>3, CalmEvent DEF Events
<1>5. Started(r) BY <1>2, <1>4 DEF Started, Says, Steady, SameWindow
<1>6. r.tx = << >> BY <1>2, <1>4 DEF Ctx
<1> QED BY <1>5, <1>6 DEF r, z
--------------------------------------------------------------------------
(* Counting modulo MOD8.                                                  *)

LEMMA RingDist ==
  ASSUME NEW x \in Nat, NEW y \in Nat, y <= x, x - y < MOD8
  PROVE  Dist(x % MOD8, y % MOD8) = x - y
<1>1. CASE MOD8 = 4 BY <1>1 DEF Dist
<1>2. CASE MOD8 = 8 BY <1>2 DEF Dist
<1> QED BY <1>1, <1>2, ModulusAssumption

\* A number of the window is its count modulo MOD8.
LEMMA RingBack ==
  ASSUME NEW x \in Nat, NEW n \in Seqs, Dist(x % MOD8, n) <= x
  PROVE  n = (x - Dist(x % MOD8, n)) % MOD8
<1>1. CASE MOD8 = 4 BY <1>1 DEF Dist, Seqs
<1>2. CASE MOD8 = 8 BY <1>2 DEF Dist, Seqs
<1> QED BY <1>1, <1>2, ModulusAssumption

LEMMA RingSame ==
  ASSUME NEW x \in Nat, NEW y \in Nat, x % MOD8 = y % MOD8, x < y + MOD8, y < x + MOD8
  PROVE  x = y
<1>1. CASE MOD8 = 4 BY <1>1
<1>2. CASE MOD8 = 8 BY <1>2
<1> QED BY <1>1, <1>2, ModulusAssumption

LEMMA RingNext ==
  ASSUME NEW x \in Nat
  PROVE  Next8(x % MOD8) = (x + 1) % MOD8
<1>1. CASE MOD8 = 4 BY <1>1 DEF Next8
<1>2. CASE MOD8 = 8 BY <1>2 DEF Next8
<1> QED BY <1>1, <1>2, ModulusAssumption

LEMMA RingPart ==
  ASSUME NEW x \in Seqs, NEW n \in Seqs, NEW a \in Seqs, Dist(n, a) <= Dist(x, a)
  PROVE  Dist(x, n) = Dist(x, a) - Dist(n, a)
<1>1. CASE MOD8 = 4 BY <1>1 DEF Dist, Seqs
<1>2. CASE MOD8 = 8 BY <1>2 DEF Dist, Seqs
<1> QED BY <1>1, <1>2, ModulusAssumption

--------------------------------------------------------------------------
(* The two directions.                                                    *)

Confirmed(c) == c.accepted - Outstanding(c)

\* The sequence numbers are the counts of this connection modulo MOD8.
Aligned(c) == /\ c.vs = c.accepted % MOD8 /\ c.vr = c.received % MOD8
              /\ Outstanding(c) <= c.accepted /\ Outstanding(c) <= SlotCount

\* c sends, d receives.
Meets(c, d) == Confirmed(c) <= d.received /\ d.received <= c.accepted

\* An I-frame of c on its way: of a window that may be past, but not by more
\* than the window's size.
Fits(c, d, f) == /\ f.ns = f.info % MOD8 /\ f.info < c.accepted
                 /\ d.received <= f.info + SlotCount

IsData(F, k) == F[k].frame.type = "I"

\* F leads from c to d: later frames are less than a window older than earlier.
InLine(c, d, F) ==
  /\ \A k \in 1 .. Len(F) : IsData(F, k) => Fits(c, d, F[k].frame)
  /\ \A i, k \in 1 .. Len(F) : i < k /\ IsData(F, i) /\ IsData(F, k)
                                 => F[i].frame.info < F[k].frame.info + SlotCount

\* What the k-th frame of B acknowledges to c, if it is numbered.
Gain(c, B, k) == Dist(B[k].frame.nr, c.va)

\* B leads from d to c: nothing is acknowledged but what d received, and no
\* frame acknowledges less than one before it.
Acks(c, d, B) ==
  /\ \A k \in 1 .. Len(B) : Numbered(B[k].frame) => Gain(c, B, k) <= d.received - Confirmed(c)
  /\ \A i, k \in 1 .. Len(B) : i < k /\ Numbered(B[i].frame) /\ Numbered(B[k].frame)
                                 => Gain(c, B, i) <= Gain(c, B, k)

Flow(c, d, F, B) == Meets(c, d) /\ InLine(c, d, F) /\ Acks(c, d, B)

Both(c, d, F, B) == Aligned(c) /\ Aligned(d) /\ Flow(c, d, F, B) /\ Flow(d, c, B, F)

SameCounts(c, r) == /\ r.vs = c.vs /\ r.va = c.va /\ r.vr = c.vr
                    /\ r.accepted = c.accepted /\ r.received = c.received

LEMMA Counts ==
  ASSUME NEW c \in Ctx, Aligned(c)
  PROVE  /\ c.accepted \in Nat /\ c.received \in Nat /\ Outstanding(c) \in Nat
         /\ Confirmed(c) \in Nat /\ c.accepted = Confirmed(c) + Outstanding(c)
         /\ Outstanding(c) <= SlotCount /\ SlotCount \in Nat /\ SlotCount < MOD8 /\ MOD8 \in Nat
         /\ c.accepted < PayloadCount /\ c.received < PayloadCount
         /\ c.va = Confirmed(c) % MOD8
         /\ c.va \in Seqs /\ c.vs \in Seqs /\ c.vr \in Seqs
<1>1. /\ c.accepted \in Nat /\ c.received \in Nat /\ Outstanding(c) \in Nat
      /\ c.accepted < PayloadCount /\ c.received < PayloadCount
      /\ c.va \in Seqs /\ c.vs \in Seqs /\ c.vr \in Seqs
  BY CtxFields, OutstandingNat, Sizes, ModulusAssumption
<1>2. c.va = Confirmed(c) % MOD8 BY <1>1, RingBack DEF Aligned, Confirmed, Outstanding
<1> QED BY <1>1, <1>2, Sizes, ModulusAssumption DEF Aligned, Confirmed

LEMMA FrameFields ==
  ASSUME NEW F \in Seq(Element), NEW k \in 1 .. Len(F)
  PROVE  /\ F[k] \in Element /\ F[k].frame \in Frame
         /\ F[k].frame.nr \in Seqs /\ F[k].frame.ns \in Seqs /\ F[k].frame.info \in Nat
         /\ F[k].frame.pf \in BOOLEAN
<1>1. F[k] \in Element BY ElementOfSeq
<1>2. F[k].frame \in Frame BY <1>1 DEF Element
<1> QED BY <1>1, <1>2, Sizes DEF Frame, Payload, Garbage

LEMMA TailFields ==
  ASSUME NEW F \in Seq(Element), F # << >>
  PROVE  /\ Tail(F) \in Seq(Element) /\ Len(F) \in Nat \ {0} /\ Len(Tail(F)) = Len(F) - 1
         /\ Head(F) = F[1] /\ Head(F) \in Element
         /\ \A k \in 1 .. Len(Tail(F)) : Tail(F)[k] = F[k + 1] /\ k + 1 \in 1 .. Len(F)
BY HeadTailProperties, EmptySeq, LenProperties

LEMMA JoinFields ==
  ASSUME NEW F \in Seq(Element), NEW o \in Seq(Element)
  PROVE  /\ F \o o \in Seq(Element) /\ Len(F) \in Nat /\ Len(o) \in Nat
         /\ Len(F \o o) = Len(F) + Len(o)
         /\ \A k \in 1 .. Len(F) : (F \o o)[k] = F[k]
         /\ \A k \in 1 .. Len(F \o o) :
              k \notin 1 .. Len(F) => k - Len(F) \in 1 .. Len(o) /\ (F \o o)[k] = o[k - Len(F)]
<1>1. /\ F \o o \in Seq(Element) /\ Len(F \o o) = Len(F) + Len(o)
      /\ \A k \in 1 .. Len(F) + Len(o) : (F \o o)[k] = IF k <= Len(F) THEN F[k] ELSE o[k - Len(F)]
  BY ConcatProperties
<1>2. Len(F) \in Nat /\ Len(o) \in Nat BY LenProperties
<1> QED BY <1>1, <1>2

LEMMA BothSides ==
  ASSUME NEW c, NEW d, NEW F, NEW B
  PROVE  Both(c, d, F, B) <=> Both(d, c, B, F)
BY DEF Both

LEMMA BothSame ==
  ASSUME NEW c, NEW d, NEW r, NEW F, NEW B, SameCounts(c, r), Both(c, d, F, B)
  PROVE  Both(r, d, F, B)
BY DEF SameCounts, Both, Aligned, Flow, Meets, InLine, Acks, Fits, Gain, Confirmed, Outstanding

LEMMA BothStart ==
  ASSUME NEW c \in Ctx, NEW d \in Ctx, SameCounts(InitCtx, c), SameCounts(InitCtx, d)
  PROVE  Both(c, d, << >>, << >>)
<1>1. /\ c.vs = 0 /\ c.va = 0 /\ c.vr = 0 /\ c.accepted = 0 /\ c.received = 0
      /\ d.vs = 0 /\ d.va = 0 /\ d.vr = 0 /\ d.accepted = 0 /\ d.received = 0
  BY DEF SameCounts, InitCtx
<1>2. Outstanding(c) = 0 /\ Outstanding(d) = 0 BY <1>1, DistZero, ZeroAndEmpty DEF Outstanding
<1>3. 0 % MOD8 = 0 /\ 0 <= SlotCount BY ModSmall, Sizes, ModulusAssumption
<1>4. Aligned(c) /\ Aligned(d) BY <1>1, <1>2, <1>3 DEF Aligned
<1>5. Meets(c, d) /\ Meets(d, c) BY <1>1, <1>2 DEF Meets, Confirmed
<1> QED BY <1>4, <1>5 DEF Both, Flow, InLine, Acks

LEMMA BothDrop ==
  ASSUME NEW c, NEW d, NEW F \in Seq(Element), NEW B, F # << >>, Both(c, d, F, B)
  PROVE  Both(c, d, Tail(F), B)
<1>1. \A k \in 1 .. Len(Tail(F)) : Tail(F)[k] = F[k + 1] /\ k + 1 \in 1 .. Len(F) BY TailFields
<1>2. Len(F) \in Nat /\ Len(Tail(F)) \in Nat BY TailFields
<1> DEFINE T == Tail(F)
<1> HIDE DEF T
<1>3. InLine(c, d, T)
  <2>1. \A k \in 1 .. Len(T) : IsData(T, k) => Fits(c, d, T[k].frame)
    BY <1>1 DEF Both, Flow, InLine, IsData, T
  <2>2. \A i, k \in 1 .. Len(T) : i < k /\ IsData(T, i) /\ IsData(T, k)
                                   => T[i].frame.info < T[k].frame.info + SlotCount
    BY <1>1, <1>2 DEF Both, Flow, InLine, IsData, T
  <2> QED BY <2>1, <2>2 DEF InLine
<1>4. Acks(d, c, T)
  <2>1. \A k \in 1 .. Len(T) : Numbered(T[k].frame) => Gain(d, T, k) <= c.received - Confirmed(d)
    BY <1>1 DEF Both, Flow, Acks, Gain, T
  <2>2. \A i, k \in 1 .. Len(T) : i < k /\ Numbered(T[i].frame) /\ Numbered(T[k].frame)
                                   => Gain(d, T, i) <= Gain(d, T, k)
    BY <1>1, <1>2 DEF Both, Flow, Acks, Gain, T
  <2> QED BY <2>1, <2>2 DEF Acks
<1> QED BY <1>3, <1>4 DEF Both, Flow, T

\* The next frame from d acknowledges what c has outstanding.
LEMMA BothValid ==
  ASSUME NEW c \in Ctx, NEW d \in Ctx, NEW F, NEW B \in Seq(Element), Both(c, d, F, B),
         B # << >>, Numbered(B[1].frame)
  PROVE  /\ ValidNr(c, B[1].frame.nr)
         /\ Gain(c, B, 1) \in Nat /\ Gain(c, B, 1) <= d.received - Confirmed(c)
<1>1. 1 \in 1 .. Len(B) BY TailFields
<1>2. B[1].frame.nr \in Seqs BY <1>1, FrameFields
<1>3. Gain(c, B, 1) <= d.received - Confirmed(c) BY <1>1 DEF Both, Flow, Acks
<1>4. c.accepted = Confirmed(c) + Outstanding(c) /\ Confirmed(c) \in Nat /\ Outstanding(c) \in Nat
      /\ d.received \in Nat /\ c.va \in Seqs /\ c.accepted \in Nat
  BY Counts DEF Both
<1>5. Gain(c, B, 1) \in Nat BY <1>2, <1>4, DistNat DEF Gain
<1>6. d.received <= c.accepted BY DEF Both, Flow, Meets
<1>7. Gain(c, B, 1) <= Outstanding(c) BY <1>3, <1>4, <1>5, <1>6
<1> QED BY <1>3, <1>5, <1>7 DEF ValidNr, Gain, Outstanding

\* An I-frame with the number d expects is the next one c accepted.
LEMMA BothNext ==
  ASSUME NEW c \in Ctx, NEW d \in Ctx, NEW F \in Seq(Element), NEW B, Both(c, d, F, B),
         F # << >>, IsData(F, 1), F[1].frame.ns = d.vr
  PROVE  F[1].frame.info = d.received /\ d.received < c.accepted
<1>1. 1 \in 1 .. Len(F) BY TailFields
<1>2. F[1].frame.info \in Nat BY <1>1, FrameFields
<1>3. Fits(c, d, F[1].frame) BY <1>1 DEF Both, Flow, InLine
<1>4. /\ c.accepted = Confirmed(c) + Outstanding(c) /\ Confirmed(c) \in Nat /\ Outstanding(c) \in Nat
      /\ d.received \in Nat /\ c.accepted \in Nat /\ Outstanding(c) <= SlotCount
      /\ SlotCount \in Nat /\ SlotCount < MOD8 /\ MOD8 \in Nat
  BY Counts DEF Both
<1>5. d.vr = d.received % MOD8 /\ Confirmed(c) <= d.received BY DEF Both, Aligned, Flow, Meets
<1>6. F[1].frame.info < d.received + MOD8 /\ d.received < F[1].frame.info + MOD8
  BY <1>2, <1>3, <1>4, <1>5 DEF Fits
<1>7. F[1].frame.info % MOD8 = d.received % MOD8 BY <1>3, <1>5 DEF Fits
<1>8. F[1].frame.info = d.received BY <1>2, <1>4, <1>6, <1>7, RingSame
<1> QED BY <1>3, <1>8 DEF Fits

\* The sender's half of taking a frame.
LEMMA TakeAcks ==
  ASSUME NEW c \in Ctx, NEW d \in Ctx, NEW F, NEW B \in Seq(Element), NEW r \in Ctx,
         Aligned(c), Aligned(d), Flow(c, d, F, B), B # << >>, Numbered(B[1].frame),
         r.vs = c.vs, r.accepted = c.accepted, r.va = B[1].frame.nr
  PROVE  /\ Outstanding(r) = Outstanding(c) - Gain(c, B, 1)
         /\ Flow(r, d, F, Tail(B))
<1> DEFINE T == Tail(B)
           g == Gain(c, B, 1)
<1>1. 1 \in 1 .. Len(B) /\ \A k \in 1 .. Len(T) : T[k] = B[k + 1] /\ k + 1 \in 1 .. Len(B)
  BY TailFields
<1>2. Len(B) \in Nat /\ Len(T) \in Nat BY TailFields
<1>3. B[1].frame.nr \in Seqs BY <1>1, FrameFields
<1>4. /\ c.accepted = Confirmed(c) + Outstanding(c) /\ Confirmed(c) \in Nat /\ Outstanding(c) \in Nat
      /\ d.received \in Nat /\ c.va \in Seqs /\ c.vs \in Seqs /\ c.accepted \in Nat
  BY Counts
<1>5. g \in Nat BY <1>3, <1>4, DistNat DEF Gain
<1>6. g <= d.received - Confirmed(c) /\ d.received <= c.accepted
  BY <1>1 DEF Flow, Acks, Meets
<1>7. g <= Outstanding(c) BY <1>4, <1>5, <1>6
<1>8. Outstanding(r) = Outstanding(c) - g
  BY <1>3, <1>4, <1>7, RingPart DEF Outstanding, Gain
<1>9. Confirmed(r) = Confirmed(c) + g BY <1>4, <1>5, <1>8 DEF Confirmed
<1>10. ASSUME NEW k \in 1 .. Len(T), Numbered(T[k].frame)
       PROVE  Gain(r, T, k) = Gain(c, B, k + 1) - g /\ Gain(c, B, k + 1) \in Nat
  <2>1. T[k] = B[k + 1] /\ k + 1 \in 1 .. Len(B) /\ 1 < k + 1 BY <1>1, <1>2
  <2>2. B[k + 1].frame.nr \in Seqs BY <2>1, FrameFields
  <2>3. g <= Gain(c, B, k + 1) BY <1>1, <1>10, <2>1 DEF Flow, Acks
  <2>4. Gain(c, B, k + 1) \in Nat BY <1>4, <2>2, DistNat DEF Gain
  <2> HIDE DEF T
  <2> QED BY <1>3, <1>4, <2>1, <2>2, <2>3, <2>4, RingPart DEF Gain
<1> HIDE DEF g, T
<1>11. Acks(r, d, T)
  <2>1. ASSUME NEW k \in 1 .. Len(T), Numbered(T[k].frame)
        PROVE  Gain(r, T, k) <= d.received - Confirmed(r)
    <3>1. Gain(c, B, k + 1) <= d.received - Confirmed(c) BY <1>1, <2>1 DEF Flow, Acks
    <3> QED BY <1>4, <1>5, <1>9, <1>10, <2>1, <3>1
  <2>2. ASSUME NEW i \in 1 .. Len(T), NEW k \in 1 .. Len(T), i < k,
               Numbered(T[i].frame), Numbered(T[k].frame)
        PROVE  Gain(r, T, i) <= Gain(r, T, k)
    <3>1. i + 1 < k + 1 BY <1>2, <2>2
    <3>2. Gain(c, B, i + 1) <= Gain(c, B, k + 1) BY <1>1, <2>2, <3>1 DEF Flow, Acks
    <3> QED BY <1>5, <1>10, <2>2, <3>2
  <2> QED BY <2>1, <2>2 DEF Acks
<1>12. Meets(r, d) BY <1>4, <1>5, <1>6, <1>9 DEF Meets
<1>13. InLine(r, d, F) BY DEF Flow, InLine, Fits
<1> QED BY <1>8, <1>11, <1>12, <1>13 DEF Flow, g, T

\* Both directions after c has taken the next frame from d, before it answers.
LEMMA BothTake ==
  ASSUME NEW c \in Ctx, NEW d \in Ctx, NEW F \in Seq(Element), NEW B \in Seq(Element), NEW r,
         Both(c, d, F, B), B # << >>, Numbered(B[1].frame), Turns(c, B[1].frame, r)
  PROVE  Both(r, d, F, Tail(B))
<1> DEFINE T == Tail(B)
           f == B[1].frame
<1>1. 1 \in 1 .. Len(B) /\ \A k \in 1 .. Len(T) : T[k] = B[k + 1] /\ k + 1 \in 1 .. Len(B)
  BY TailFields
<1>2. Len(B) \in Nat /\ Len(T) \in Nat BY TailFields
<1>3. /\ r \in Ctx /\ r.va = f.nr /\ r.vs = c.vs /\ r.accepted = c.accepted
      /\ IF f.type = "I" /\ f.ns = c.vr
         THEN r.vr = Next8(c.vr) /\ r.received = (c.received + 1) % PayloadCount
         ELSE r.vr = c.vr /\ r.received = c.received
  BY DEF Turns
<1>4. Outstanding(r) = Outstanding(c) - Gain(c, B, 1) /\ Flow(r, d, F, T)
  BY <1>3, TakeAcks DEF Both
<1>5. Gain(c, B, 1) \in Nat BY BothValid
<1>6. /\ Outstanding(c) \in Nat /\ Outstanding(c) <= c.accepted /\ Outstanding(c) <= SlotCount
      /\ c.accepted \in Nat /\ c.received \in Nat /\ SlotCount \in Nat
      /\ d.accepted \in Nat /\ d.accepted < PayloadCount /\ Confirmed(d) \in Nat
      /\ c.vr = c.received % MOD8
  BY Counts DEF Both, Aligned
<1> HIDE DEF T
\* c.received frames have been taken, or one more.
<1>7. \/ /\ r.received = c.received + 1 /\ r.vr = Next8(c.vr) /\ c.received < d.accepted
         /\ IsData(B, 1) /\ f.info = c.received
      \/ r.received = c.received /\ r.vr = c.vr
  <2>1. ASSUME f.type = "I", f.ns = c.vr
        PROVE  /\ r.received = c.received + 1 /\ r.vr = Next8(c.vr) /\ c.received < d.accepted
               /\ IsData(B, 1) /\ f.info = c.received
    <3>1. f.info = c.received /\ c.received < d.accepted
      BY <2>1, BothNext, BothSides DEF IsData
    <3>2. c.received + 1 \in 0 .. (PayloadCount - 1) BY <1>6, <3>1, Sizes
    <3>3. (c.received + 1) % PayloadCount = c.received + 1 BY <3>2, ModSmall, Sizes
    <3> QED BY <1>3, <2>1, <3>1, <3>3 DEF IsData
  <2>2. CASE ~(f.type = "I" /\ f.ns = c.vr) BY <1>3, <2>2
  <2> QED BY <2>1, <2>2
<1>8. Aligned(r)
  <2>1. r.vr = r.received % MOD8 BY <1>6, <1>7, RingNext
  <2>2. Outstanding(r) <= r.accepted /\ Outstanding(r) <= SlotCount BY <1>3, <1>4, <1>5, <1>6
  <2> QED BY <1>3, <2>1, <2>2 DEF Aligned, Both
<1>9. Meets(d, r) BY <1>6, <1>7 DEF Meets, Both, Flow
<1>10. InLine(d, r, T)
  <2>1. ASSUME NEW k \in 1 .. Len(T), IsData(T, k) PROVE Fits(d, r, T[k].frame)
    <3>1. T[k] = B[k + 1] /\ k + 1 \in 1 .. Len(B) /\ IsData(B, k + 1) /\ 1 < k + 1
      BY <1>1, <1>2, <2>1 DEF IsData
    <3>2. B[k + 1].frame.info \in Nat BY <3>1, FrameFields
    <3>3. Fits(d, c, B[k + 1].frame) BY <3>1 DEF Both, Flow, InLine
    <3>4. CASE r.received = c.received BY <3>1, <3>3, <3>4 DEF Fits
    <3>5. CASE r.received = c.received + 1 /\ IsData(B, 1) /\ f.info = c.received
      <4>1. f.info < B[k + 1].frame.info + SlotCount
        BY <1>1, <3>1, <3>5 DEF Both, Flow, InLine
      <4>2. c.received < B[k + 1].frame.info + SlotCount BY <3>5, <4>1
      <4>3. r.received = c.received + 1 BY <3>5
      <4>4. \A x, y, z \in Nat : x < y + z => x + 1 <= y + z OBVIOUS
      <4>5. r.received <= B[k + 1].frame.info + SlotCount BY <1>6, <3>2, <4>2, <4>3, <4>4
      <4> QED BY <3>1, <3>3, <4>5 DEF Fits
    <3> QED BY <1>7, <3>4, <3>5
  <2>2. ASSUME NEW i \in 1 .. Len(T), NEW k \in 1 .. Len(T), i < k, IsData(T, i), IsData(T, k)
        PROVE  T[i].frame.info < T[k].frame.info + SlotCount
    <3>1. /\ T[i] = B[i + 1] /\ i + 1 \in 1 .. Len(B) /\ T[k] = B[k + 1] /\ k + 1 \in 1 .. Len(B)
          /\ i + 1 < k + 1
      BY <1>1, <1>2, <2>2
    <3>2. IsData(B, i + 1) /\ IsData(B, k + 1) BY <2>2, <3>1 DEF IsData
    <3> QED BY <3>1, <3>2 DEF Both, Flow, InLine
  <2> QED BY <2>1, <2>2 DEF InLine
<1>11. Acks(d, r, F)
  <2>1. Acks(d, c, F) BY DEF Both, Flow
  <2>2. c.received - Confirmed(d) <= r.received - Confirmed(d) BY <1>6, <1>7
  <2>3. ASSUME NEW k \in 1 .. Len(F), Numbered(F[k].frame)
        PROVE  Gain(d, F, k) <= r.received - Confirmed(d)
    <3>1. Gain(d, F, k) <= c.received - Confirmed(d) BY <2>1, <2>3 DEF Acks
    <3>2. CASE r.received = c.received BY <3>1, <3>2
    <3>3. CASE r.received = c.received + 1
      <4>1. Gain(d, F, k) \in Nat
        <5>1. F[k].frame.nr \in Seqs /\ d.va \in Seqs BY FrameFields, CtxFields
        <5> QED BY <5>1, DistNat DEF Gain
      <4> QED BY <1>6, <3>1, <3>3, <4>1
    <3> QED BY <1>7, <3>2, <3>3
  <2> QED BY <2>1, <2>3 DEF Acks
<1> QED BY <1>4, <1>8, <1>9, <1>10, <1>11 DEF Both, Flow, T

\* One more frame accepted by c.
LEMMA BothAccept ==
  ASSUME NEW c \in Ctx, NEW d \in Ctx, NEW F \in Seq(Element), NEW B, NEW r \in Ctx,
         Both(c, d, F, B),
         r.va = c.va, r.vs = Next8(c.vs), r.vr = c.vr, r.received = c.received,
         r.accepted = c.accepted + 1, Outstanding(c) < SlotCount,
         Outstanding(r) = Outstanding(c) + 1
  PROVE  Both(r, d, F, B)
<1>1. /\ Outstanding(c) \in Nat /\ Outstanding(c) <= c.accepted /\ c.accepted \in Nat
      /\ c.vs = c.accepted % MOD8 /\ SlotCount \in Nat /\ d.received \in Nat
  BY Counts DEF Both, Aligned
<1>2. Aligned(r)
  <2>1. r.vs = r.accepted % MOD8 BY <1>1, RingNext
  <2>2. Outstanding(r) <= r.accepted /\ Outstanding(r) <= SlotCount BY <1>1
  <2> QED BY <2>1, <2>2 DEF Aligned, Both
<1>3. Confirmed(r) = Confirmed(c) BY <1>1 DEF Confirmed
<1>4. Meets(r, d) BY <1>1, <1>3 DEF Meets, Both, Flow
<1>5. InLine(r, d, F)
  <2>1. ASSUME NEW k \in 1 .. Len(F), IsData(F, k) PROVE Fits(r, d, F[k].frame)
    <3>1. Fits(c, d, F[k].frame) BY <2>1 DEF Both, Flow, InLine
    <3>2. F[k].frame.info \in Nat BY FrameFields
    <3> QED BY <1>1, <3>1, <3>2 DEF Fits
  <2> QED BY <2>1 DEF Both, Flow, InLine
<1>6. Acks(r, d, B) BY <1>3 DEF Both, Flow, Acks, Gain
<1>7. Flow(d, r, B, F) BY DEF Both, Flow, Meets, InLine, Acks, Fits
<1> QED BY <1>2, <1>4, <1>5, <1>6, <1>7 DEF Both, Flow

\* What a call hands to on_send, with addresses.
Written(o, tx) == /\ o \in Seq(Element) /\ Len(o) = Len(tx)
                  /\ \A k \in 1 .. Len(o) : o[k].frame = tx[k]

\* A frame sent again fits, and is no older than the window is wide.
LEMMA ResentFits ==
  ASSUME NEW c \in Ctx, NEW d \in Ctx, Aligned(c), Meets(c, d), d.received \in Nat,
         NEW f, Resent(c, f)
  PROVE  Fits(c, d, f) /\ f.info \in Nat /\ c.accepted <= f.info + SlotCount
<1> DEFINE k == Dist(c.vs, f.ns)
<1>1. /\ f.ns \in Seqs /\ k \in 1 .. Outstanding(c)
      /\ f.info = (c.accepted + PayloadCount - k) % PayloadCount
  BY DEF Resent, Named
<1>2. /\ c.accepted \in Nat /\ Outstanding(c) \in Nat /\ Outstanding(c) <= c.accepted
      /\ Outstanding(c) <= SlotCount /\ SlotCount \in Nat /\ c.accepted < PayloadCount
      /\ c.vs = c.accepted % MOD8
  BY Counts DEF Aligned
<1>3. f.ns = (c.accepted - k) % MOD8 BY <1>1, <1>2, RingBack
<1> HIDE DEF k
<1>4. f.info = c.accepted - k
  <2>1. c.accepted + PayloadCount - k \in PayloadCount .. (2 * PayloadCount - 1)
    BY <1>1, <1>2, Sizes
  <2> QED BY <1>1, <1>2, <2>1, ModTwice, Sizes
<1>5. f.info \in Nat /\ f.info < c.accepted /\ c.accepted <= f.info + SlotCount
  BY <1>1, <1>2, <1>4
<1>6. d.received <= f.info + SlotCount BY <1>2, <1>5 DEF Meets
<1> QED BY <1>3, <1>4, <1>5, <1>6 DEF Fits

\* What c says now acknowledges all it has received, and its I-frames are of
\* its present window.
LEMMA BothOutput ==
  ASSUME NEW c \in Ctx, NEW d \in Ctx, NEW F \in Seq(Element), NEW B, Both(c, d, F, B),
         Speaks(c), NEW o, Written(o, c.tx)
  PROVE  Both(c, d, F \o o, B)
<1> DEFINE G == F \o o
<1>1. /\ G \in Seq(Element) /\ Len(F) \in Nat /\ Len(o) \in Nat
      /\ Len(G) = Len(F) + Len(o)
      /\ \A k \in 1 .. Len(F) : G[k] = F[k]
      /\ \A k \in 1 .. Len(G) :
           k \notin 1 .. Len(F) => k - Len(F) \in 1 .. Len(o) /\ G[k] = o[k - Len(F)]
  BY JoinFields DEF Written
<1> HIDE DEF G
<1>2. ASSUME NEW k \in 1 .. Len(G), k \notin 1 .. Len(F)
      PROVE  /\ Numbered(G[k].frame) /\ G[k].frame.nr = c.vr
             /\ G[k].frame.type = "I" => Resent(c, G[k].frame)
  <2>1. k - Len(F) \in 1 .. Len(o) /\ G[k] = o[k - Len(F)] BY <1>1, <1>2
  <2>2. G[k].frame = c.tx[k - Len(F)] /\ k - Len(F) \in 1 .. Len(c.tx) BY <2>1 DEF Written
  <2> QED BY <2>2 DEF Speaks
<1>3. /\ c.accepted \in Nat /\ c.received \in Nat /\ SlotCount \in Nat /\ c.vr = c.received % MOD8
      /\ d.received \in Nat
      /\ d.va = Confirmed(d) % MOD8 /\ Confirmed(d) \in Nat /\ d.va \in Seqs
      /\ d.accepted = Confirmed(d) + Outstanding(d) /\ Outstanding(d) <= SlotCount
      /\ Outstanding(d) \in Nat /\ SlotCount < MOD8 /\ MOD8 \in Nat
  BY Counts DEF Both, Aligned
<1>4. \A k \in 1 .. Len(G) : k \notin 1 .. Len(F) /\ IsData(G, k)
        => /\ Fits(c, d, G[k].frame) /\ G[k].frame.info \in Nat
           /\ c.accepted <= G[k].frame.info + SlotCount
  BY <1>2, <1>3, ResentFits DEF Both, Flow, IsData
<1>5. \A k \in 1 .. Len(F) : IsData(G, k) =>
        /\ Fits(c, d, G[k].frame) /\ G[k].frame.info \in Nat /\ G[k].frame.info < c.accepted
  <2>1. ASSUME NEW k \in 1 .. Len(F), IsData(G, k)
        PROVE  /\ Fits(c, d, G[k].frame) /\ G[k].frame.info \in Nat
               /\ G[k].frame.info < c.accepted
    <3>1. G[k] = F[k] /\ IsData(F, k) BY <1>1, <2>1 DEF IsData
    <3>2. Fits(c, d, F[k].frame) BY <3>1 DEF Both, Flow, InLine
    <3> QED BY <3>1, <3>2, FrameFields DEF Fits
  <2> QED BY <2>1
<1>6. InLine(c, d, G)
  <2>1. \A k \in 1 .. Len(G) : IsData(G, k) => Fits(c, d, G[k].frame) BY <1>4, <1>5
  <2>2. ASSUME NEW i \in 1 .. Len(G), NEW k \in 1 .. Len(G), i < k, IsData(G, i), IsData(G, k)
        PROVE  G[i].frame.info < G[k].frame.info + SlotCount
    <3>1. CASE k \in 1 .. Len(F)
      <4>1. i \in 1 .. Len(F) BY <1>1, <2>2, <3>1
      <4>2. IsData(F, i) /\ IsData(F, k) BY <1>1, <2>2, <3>1, <4>1 DEF IsData
      <4>3. F[i].frame.info < F[k].frame.info + SlotCount
        BY <2>2, <3>1, <4>1, <4>2 DEF Both, Flow, InLine
      <4> QED BY <1>1, <3>1, <4>1, <4>3
    <3>2. CASE k \notin 1 .. Len(F)
      <4>1. c.accepted <= G[k].frame.info + SlotCount /\ G[k].frame.info \in Nat
        BY <1>4, <2>2, <3>2
      <4>2. G[i].frame.info < c.accepted /\ G[i].frame.info \in Nat
        BY <1>4, <1>5, <2>2 DEF Fits
      <4>3. c.accepted \in Nat /\ SlotCount \in Nat BY <1>3
      <4> QED BY <4>1, <4>2, <4>3
    <3> QED BY <3>1, <3>2
  <2> QED BY <2>1, <2>2 DEF InLine
\* N(R) = V(R) acknowledges everything received.
<1>7. Dist(c.vr, d.va) = c.received - Confirmed(d)
  <2>1. Confirmed(d) <= c.received /\ c.received <= d.accepted BY DEF Both, Flow, Meets
  <2>2. c.received - Confirmed(d) < MOD8 BY <1>3, <2>1
  <2> QED BY <1>3, <2>1, <2>2, RingDist
<1>8. \A k \in 1 .. Len(G) : k \notin 1 .. Len(F) => Gain(d, G, k) = c.received - Confirmed(d)
  BY <1>2, <1>7 DEF Gain
<1>9. \A k \in 1 .. Len(F) : Gain(d, G, k) = Gain(d, F, k) /\ Numbered(G[k].frame) = Numbered(F[k].frame)
  BY <1>1 DEF Gain
<1>10. Acks(d, c, F) BY DEF Both, Flow
<1>11. \A k \in 1 .. Len(G) : Numbered(G[k].frame) => Gain(d, G, k) <= c.received - Confirmed(d)
  <2>1. c.received - Confirmed(d) <= c.received - Confirmed(d) BY <1>3
  <2> QED BY <1>8, <1>9, <1>10, <2>1 DEF Acks
<1>12. Acks(d, c, G)
  <2>1. ASSUME NEW i \in 1 .. Len(G), NEW k \in 1 .. Len(G), i < k,
               Numbered(G[i].frame), Numbered(G[k].frame)
        PROVE  Gain(d, G, i) <= Gain(d, G, k)
    <3>1. CASE k \in 1 .. Len(F)
      <4>1. i \in 1 .. Len(F) BY <1>1, <2>1, <3>1
      <4>2. Numbered(F[i].frame) /\ Numbered(F[k].frame) BY <1>9, <2>1, <3>1, <4>1
      <4>3. Gain(d, F, i) <= Gain(d, F, k) BY <1>10, <2>1, <3>1, <4>1, <4>2 DEF Acks
      <4> QED BY <1>9, <3>1, <4>1, <4>3
    <3>2. CASE k \notin 1 .. Len(F) BY <1>8, <1>11, <2>1, <3>2
    <3> QED BY <3>1, <3>2
  <2> QED BY <1>11, <2>1 DEF Acks
<1> QED BY <1>6, <1>12 DEF Both, Flow, G

--------------------------------------------------------------------------
(* The calls of a station that is not yet connected, and T1.              *)

Sabm == UFrame(TRUE, "SABM", TRUE, Empty)
Ua   == UFrame(FALSE, "UA", TRUE, Empty)

\* A station of such an application.
Calm(c) == /\ c \in Ctx /\ ~c.react /\ ~c.frmrSent
           /\ c.state \in {"DISCONNECTED", "CONNECTING", "CONNECTED"}
           /\ c.T2_ACTIVE => c.state = "CONNECTED"
           /\ c.state = "CONNECTING" => c.T1_ACTIVE

\* It has asked for a connection.
Asks(r) == Calm(r) /\ r.state = "CONNECTING" /\ r.tx = <<Sabm>>

LEMMA CalmAsk ==
  ASSUME NEW c \in Ctx, Calm(c), c.state # "CONNECTED", c.tx = << >>
  PROVE  LET r == t1_start(send_u(c, TRUE, "SABM", TRUE))
         IN /\ r \in Ctx /\ r.state = c.state /\ ~r.react /\ ~r.frmrSent /\ ~r.T2_ACTIVE
            /\ r.T1_ACTIVE /\ r.tx = <<Sabm>>
<1> DEFINE u == send_u(c, TRUE, "SABM", TRUE)
           r == t1_start(u)
<1>1. u \in Ctx BY SendUKeeps DEF FrameTypes
<1>2. u = [c EXCEPT !.tx = Append(@, Sabm)] BY DEF send_u, Sabm
<1> HIDE DEF u
<1>3. u.state = c.state /\ ~u.react /\ ~u.frmrSent /\ ~u.T2_ACTIVE BY <1>2 DEF Calm, Ctx
<1>4. u.tx = <<Sabm>>
  <2>1. u.tx = Append(c.tx, Sabm) BY <1>2 DEF Ctx
  <2>2. Append(<< >>, Sabm) = <<Sabm>> OBVIOUS
  <2> QED BY <2>1, <2>2
<1>5. r \in Ctx /\ r.state = u.state /\ r.react = u.react /\ r.frmrSent = u.frmrSent
      /\ r.T2_ACTIVE = u.T2_ACTIVE /\ r.T1_ACTIVE /\ r.tx = u.tx
  BY <1>1 DEF t1_start, Ctx
<1> HIDE DEF r
<1> QED BY <1>3, <1>4, <1>5 DEF r, u

LEMMA CalmSetup ==
  ASSUME NEW c \in Ctx, Calm(c), c.state = "DISCONNECTED", c.tx = << >>
  PROVE  Asks(link_setup(c))
<1> DEFINE a == t1_start(send_u(c, TRUE, "SABM", TRUE))
           r == [a EXCEPT !.state = "CONNECTING", !.events = Append(@, "SETUP_REQ")]
<1>1. /\ a \in Ctx /\ ~a.react /\ ~a.frmrSent /\ ~a.T2_ACTIVE
      /\ a.T1_ACTIVE /\ a.tx = <<Sabm>>
  BY CalmAsk
<1>2. link_setup(c) = r BY DEF link_setup
<1> HIDE DEF a
<1>3. r \in Ctx
  <2>1. Append(a.events, "SETUP_REQ") \in Seq(Events) BY <1>1, AppendEvent DEF Events
  <2> QED BY <1>1, <2>1 DEF Ctx, States
<1>4. /\ r.state = "CONNECTING" /\ ~r.react /\ ~r.frmrSent /\ ~r.T2_ACTIVE
      /\ r.T1_ACTIVE /\ r.tx = <<Sabm>>
  BY <1>1 DEF Ctx
<1> HIDE DEF r
<1> QED BY <1>2, <1>3, <1>4 DEF Asks, Calm

\* The answer to a SABM that crosses the own.
LEMMA CalmCross ==
  ASSUME NEW c \in Ctx, Calm(c), c.state = "CONNECTING", c.tx = << >>
  PROVE  LET r == send_ua(c, TRUE)
         IN Calm(r) /\ r.state = "CONNECTING" /\ r.tx = <<Ua>>
            /\ r.RETRANSMIT_PENDING = c.RETRANSMIT_PENDING
<1> DEFINE r == send_ua(c, TRUE)
<1>1. r \in Ctx BY SendUKeeps DEF send_ua, FrameTypes
<1>2. r = [c EXCEPT !.tx = Append(@, Ua)] BY DEF send_ua, send_u, Ua
<1> HIDE DEF r
<1>3. /\ r.state = c.state /\ r.react = c.react /\ r.frmrSent = c.frmrSent
      /\ r.T2_ACTIVE = c.T2_ACTIVE /\ r.T1_ACTIVE = c.T1_ACTIVE
      /\ r.RETRANSMIT_PENDING = c.RETRANSMIT_PENDING
  BY <1>2 DEF Ctx
<1>4. r.tx = <<Ua>>
  <2>1. r.tx = Append(c.tx, Ua) BY <1>2 DEF Ctx
  <2>2. Append(<< >>, Ua) = <<Ua>> OBVIOUS
  <2> QED BY <2>1, <2>2
<1> QED BY <1>1, <1>3, <1>4 DEF Calm, r

\* LINK_FAILURE: down, with everything wiped.
LEMMA CalmFailure ==
  ASSUME NEW e \in Ctx, ~e.react, e.tx = << >>
  PROVE  LET r == reset_state(set_state(e, "DISCONNECTED", "LINK_FAILURE"))
         IN Down(r) /\ r.received = 0
<1> DEFINE d == [e EXCEPT !.state = "DISCONNECTED"]
           s == set_state(e, "DISCONNECTED", "LINK_FAILURE")
<1>1. d \in Ctx /\ ~d.react /\ d.state = "DISCONNECTED" /\ d.tx = << >> BY DEF Ctx, States
<1>2. s = on_event(d, "LINK_FAILURE") \/ (s = e /\ e.state = "DISCONNECTED") BY DEF set_state
<1> HIDE DEF d, s
<1>3. on_event(d, "LINK_FAILURE") = [d EXCEPT !.events = Append(@, "LINK_FAILURE")]
      /\ Says(d, on_event(d, "LINK_FAILURE"))
  BY <1>1, CalmEvent DEF Events
<1> DEFINE v == on_event(d, "LINK_FAILURE")
<1>4. v \in Ctx /\ ~v.react /\ v.state = "DISCONNECTED" BY <1>1, <1>3 DEF Says, Steady
<1>5. v.tx = << >> BY <1>1, <1>3 DEF Ctx
<1>6. s \in Ctx /\ ~s.react /\ s.state = "DISCONNECTED" /\ s.tx = << >>
  BY <1>2, <1>4, <1>5
<1> QED BY <1>6, CalmReset DEF Down, s

\* T1 in every state such a station can be in.
LEMMA CalmT1 ==
  ASSUME NEW c \in Ctx, Calm(c), c.tx = << >>
  PROVE  LET r == t1_expired(c)
         IN \/ c.state = "CONNECTED" /\ Says(c, r)
            \/ c.state = "CONNECTING" /\ Asks(r)
            \/ c.state = "DISCONNECTED" /\ Down(r)
            \/ MaxRetries > 0 /\ Down(r) /\ r.received = 0
<1> DEFINE e == T1Counted(c)
           r == t1_expired(c)
<1>1. e \in Ctx /\ Steady(c, e) /\ e.tx = c.tx /\ e.T2_ACTIVE = c.T2_ACTIVE
  <2>1. (c.n2 + 1) % U8 \in 0 .. (U8 - 1) BY CtxFields, WidthAssumption, ModulusAssumption
  <2> QED BY <2>1 DEF T1Counted, Steady, SameWindow, SamePending, Ctx
<1>2. r = IF RetriesExhausted(e) THEN reset_state(set_state(e, "DISCONNECTED", "LINK_FAILURE"))
                                 ELSE T1Retry(e)
  BY DEF t1_expired
<1> HIDE DEF e, r
<1>3. ~e.react /\ ~e.frmrSent /\ e.state = c.state /\ e.tx = << >> BY <1>1 DEF Steady, Calm
<1>4. CASE RetriesExhausted(e)
  BY <1>1, <1>2, <1>3, <1>4, CalmFailure DEF RetriesExhausted, r
<1>5. CASE ~RetriesExhausted(e) /\ c.state = "CONNECTED"
  <2>1. r \in {e, t1_start(Enquire(e))} BY <1>2, <1>3, <1>5 DEF T1Retry
  <2>2. Says(c, e) BY <1>1, SaysNothing
  <2>3. Says(e, Enquire(e))
    <3>1. Says(e, send_rnr(e, TRUE)) /\ Says(e, send_rr(e, TRUE)) BY <1>1, SaysR
    <3> QED BY <3>1 DEF Enquire
  <2>4. Enquire(e) \in Ctx BY <2>3 DEF Says, Steady
  <2>5. Says(Enquire(e), t1_start(Enquire(e))) BY <2>4, TimersSay
  <2>6. Says(c, t1_start(Enquire(e))) BY <2>2, <2>3, <2>5, SaysThen
  <2> QED BY <1>5, <2>1, <2>2, <2>6 DEF r
<1>6. CASE ~RetriesExhausted(e) /\ c.state = "CONNECTING"
  <2> DEFINE q == [e EXCEPT !.T1_ACTIVE = TRUE]
             a == t1_start(send_u(q, TRUE, "SABM", TRUE))
  <2>1. r = a
    <3>1. r = t1_start(send_u(e, TRUE, "SABM", TRUE)) BY <1>2, <1>3, <1>6 DEF T1Retry
    <3> QED BY <1>1, <3>1 DEF t1_start, send_u, Ctx
  <2>2. q \in Ctx /\ Calm(q) /\ q.state = "CONNECTING" /\ q.tx = << >>
    BY <1>1, <1>3, <1>6 DEF Calm, Ctx
  <2> HIDE DEF q
  <2>3. /\ a \in Ctx /\ a.state = q.state /\ ~a.react /\ ~a.frmrSent /\ ~a.T2_ACTIVE
        /\ a.T1_ACTIVE /\ a.tx = <<Sabm>>
    BY <2>2, CalmAsk
  <2> HIDE DEF a
  <2> QED BY <1>6, <2>1, <2>2, <2>3 DEF Asks, Calm, r
<1>7. CASE ~RetriesExhausted(e) /\ c.state = "DISCONNECTED"
  <2>1. r = e BY <1>2, <1>3, <1>7 DEF T1Retry
  <2> QED BY <1>1, <1>3, <1>7, <2>1 DEF Down, Calm, r
<1> QED BY <1>4, <1>5, <1>6, <1>7 DEF Calm

\* What the platform has taken is gone; the rest is as it was.
LEMMA CalmDrained ==
  ASSUME NEW r, Calm(r)
  PROVE  /\ Calm(Drained(r)) /\ Drained(r).tx = << >> /\ Drained(r).state = r.state
         /\ SameCounts(r, Drained(r))
         /\ Drained(r).T1_ACTIVE = r.T1_ACTIVE /\ Drained(r).T2_ACTIVE = r.T2_ACTIVE
<1> DEFINE d == Drained(r)
<1>1. d \in Ctx
  <2>1. << >> \in Seq(Frame) /\ << >> \in Seq(Events) /\ << >> \in Seq(Payload) OBVIOUS
  <2>2. (IF r.RETRANSMIT_PENDING THEN r.retransmit_from ELSE 0) \in Seqs
    BY CtxFields, ZeroAndEmpty DEF Calm
  <2> QED BY <2>1, <2>2 DEF Drained, Calm, Ctx
<1>2. /\ ~d.react /\ d.frmrSent = r.frmrSent /\ d.state = r.state /\ d.tx = << >>
      /\ d.T1_ACTIVE = r.T1_ACTIVE /\ d.T2_ACTIVE = r.T2_ACTIVE /\ SameCounts(r, d)
  BY DEF Drained, SameCounts, Calm, Ctx
<1> HIDE DEF d
<1> QED BY <1>1, <1>2 DEF Calm, d

--------------------------------------------------------------------------
(* A station, its peer and the two lines between them.                    *)

IsSabm(F, k) == F[k].frame.type = "SABM"
IsUa(F, k)   == F[k].frame.type = "UA"

\* The frames behind the u-th.
After(F, u) == SubSeq(F, u + 1, Len(F))

\* A frame these stations send.
Usual(f) == \/ Numbered(f)
            \/ f.type \in {"SABM", "UA"} /\ f.pf

\* What can be under way: a SABM only in front, and one UA.
OnLine(F) ==
  /\ \A k \in 1 .. Len(F) : Usual(F[k].frame)
  /\ \A k \in 1 .. Len(F) : IsSabm(F, k) => k = 1
  /\ \A i, k \in 1 .. Len(F) : IsUa(F, i) /\ IsUa(F, k) => i = k

\* What c has under way in its state.
Sends(c, F) ==
  /\ c.state = "DISCONNECTED" => Len(F) = 0
  /\ c.state = "CONNECTING" => \A k \in 1 .. Len(F) : ~Numbered(F[k].frame)
  /\ c.state = "CONNECTED" => \A k \in 1 .. Len(F) : ~IsSabm(F, k)

\* c's half of the connection to d, with F from c to d and B from d to c.  A UA
\* is on its way to a station that waits for it, and nothing in front of what
\* was sent after it: then everything starts from nothing.
Half(c, d, F, B) ==
  /\ Calm(c) /\ OnLine(F) /\ Sends(c, F)
  /\ \A u \in 1 .. Len(F) : IsUa(F, u) =>
       d.state = "CONNECTING" /\ \A k \in 1 .. Len(B) : ~IsSabm(B, k)
  /\ c.state = "CONNECTED" /\ d.state = "CONNECTED" => Both(c, d, F, B)
  /\ c.state = "CONNECTED" =>
       \A u \in 1 .. Len(F) : IsUa(F, u) => Len(B) = 0 /\ Both(c, InitCtx, After(F, u), << >>)
  /\ MaxRetries = 0 /\ c.state = "CONNECTED" => d.state # "DISCONNECTED"

Pair(c, d, F, B) == Half(c, d, F, B) /\ Half(d, c, B, F)

LEMMA PairSides ==
  ASSUME NEW c, NEW d, NEW F, NEW B
  PROVE  Pair(c, d, F, B) <=> Pair(d, c, B, F)
BY DEF Pair

LEMMA AfterFields ==
  ASSUME NEW F \in Seq(Element), NEW u \in 1 .. Len(F)
  PROVE  /\ After(F, u) \in Seq(Element) /\ Len(After(F, u)) = Len(F) - u /\ Len(F) \in Nat
         /\ \A k \in 1 .. Len(F) - u : After(F, u)[k] = F[u + k]
<1>1. Len(F) \in Nat /\ \A k \in (u + 1) .. Len(F) : F[k] \in Element
  BY LenProperties, ElementOfSeq
<1>2. /\ After(F, u) \in Seq(Element)
      /\ Len(After(F, u)) = IF u + 1 <= Len(F) THEN Len(F) - (u + 1) + 1 ELSE 0
      /\ \A k \in 1 .. Len(F) - (u + 1) + 1 : After(F, u)[k] = F[u + 1 + k - 1]
  BY <1>1, SubSeqProperties DEF After
<1> QED BY <1>1, <1>2

LEMMA NoneAfter ==
  ASSUME NEW F \in Seq(Element), Len(F) = 0
  PROVE  F = << >>
BY EmptySeq

LEMMA AfterJoin ==
  ASSUME NEW F \in Seq(Element), NEW o \in Seq(Element), NEW u \in 1 .. Len(F)
  PROVE  After(F \o o, u) = After(F, u) \o o
<1>1. /\ F \o o \in Seq(Element) /\ Len(F) \in Nat /\ Len(o) \in Nat
      /\ Len(F \o o) = Len(F) + Len(o)
      /\ \A k \in 1 .. Len(F) : (F \o o)[k] = F[k]
      /\ \A k \in 1 .. Len(F \o o) :
           k \notin 1 .. Len(F) => k - Len(F) \in 1 .. Len(o) /\ (F \o o)[k] = o[k - Len(F)]
  BY JoinFields
<1> DEFINE G == F \o o
           a == After(F, u)
<1>2. u \in 1 .. Len(G) BY <1>1
<1>3. /\ a \in Seq(Element) /\ Len(a) = Len(F) - u
      /\ \A k \in 1 .. Len(F) - u : a[k] = F[u + k]
  BY AfterFields
<1> HIDE DEF G
<1>4. /\ After(G, u) \in Seq(Element) /\ Len(After(G, u)) = Len(G) - u
      /\ \A k \in 1 .. Len(G) - u : After(G, u)[k] = G[u + k]
  BY <1>1, <1>2, AfterFields DEF G
<1> HIDE DEF a
<1>5. /\ a \o o \in Seq(Element) /\ Len(a \o o) = Len(a) + Len(o)
      /\ \A k \in 1 .. Len(a) : (a \o o)[k] = a[k]
      /\ \A k \in 1 .. Len(a \o o) : k \notin 1 .. Len(a) => (a \o o)[k] = o[k - Len(a)]
  BY <1>3, JoinFields
<1>6. ASSUME NEW k \in 1 .. Len(After(G, u)) PROVE After(G, u)[k] = (a \o o)[k]
  <2>1. After(G, u)[k] = G[u + k] /\ u + k \in 1 .. Len(G) BY <1>1, <1>4, <1>6 DEF G
  <2>2. CASE k \in 1 .. Len(a)
    <3>1. u + k \in 1 .. Len(F) BY <1>1, <1>3, <2>2
    <3> QED BY <1>1, <1>3, <1>5, <2>1, <2>2, <3>1 DEF G
  <2>3. CASE k \notin 1 .. Len(a)
    <3>1. u + k \notin 1 .. Len(F) /\ k \in 1 .. Len(a \o o)
      BY <1>1, <1>3, <1>4, <1>5, <1>6, <2>3 DEF G
    <3>2. G[u + k] = o[u + k - Len(F)] BY <1>1, <2>1, <3>1 DEF G
    <3>3. u + k - Len(F) = k - Len(a) BY <1>1, <1>3
    <3> QED BY <1>5, <2>1, <2>3, <3>1, <3>2, <3>3
  <2> QED BY <2>2, <2>3
<1>7. Len(After(G, u)) = Len(a \o o) BY <1>1, <1>3, <1>4, <1>5 DEF G
<1>8. After(G, u) = a \o o BY <1>4, <1>5, <1>6, <1>7, SeqEqual
<1> QED BY <1>8 DEF G, a

LEMMA AfterTail ==
  ASSUME NEW F \in Seq(Element), F # << >>, NEW u \in 1 .. Len(Tail(F))
  PROVE  After(Tail(F), u) = After(F, u + 1)
<1> DEFINE T == Tail(F)
<1>1. /\ T \in Seq(Element) /\ Len(F) \in Nat \ {0} /\ Len(T) = Len(F) - 1
      /\ \A k \in 1 .. Len(T) : T[k] = F[k + 1] /\ k + 1 \in 1 .. Len(F)
  BY TailFields
<1> HIDE DEF T
<1>2. u \in 1 .. Len(T) /\ u + 1 \in 1 .. Len(F) BY <1>1 DEF T
<1>3. /\ After(T, u) \in Seq(Element) /\ Len(After(T, u)) = Len(T) - u
      /\ \A k \in 1 .. Len(T) - u : After(T, u)[k] = T[u + k]
  BY <1>1, <1>2, AfterFields
<1>4. /\ After(F, u + 1) \in Seq(Element) /\ Len(After(F, u + 1)) = Len(F) - (u + 1)
      /\ \A k \in 1 .. Len(F) - (u + 1) : After(F, u + 1)[k] = F[u + 1 + k]
  BY <1>2, AfterFields
<1>5. ASSUME NEW k \in 1 .. Len(After(T, u)) PROVE After(T, u)[k] = After(F, u + 1)[k]
  <2>1. u + k \in 1 .. Len(T) /\ k \in 1 .. Len(F) - (u + 1) BY <1>1, <1>2, <1>3, <1>5
  <2>2. After(T, u)[k] = F[u + k + 1] BY <1>1, <1>3, <1>5, <2>1
  <2>3. u + k + 1 = u + 1 + k BY <1>2, <2>1
  <2> QED BY <1>4, <2>1, <2>2, <2>3
<1>6. Len(After(T, u)) = Len(After(F, u + 1))
  <2>1. Len(After(T, u)) = Len(F) - 1 - u BY <1>1, <1>3
  <2>2. Len(After(F, u + 1)) = Len(F) - (u + 1) BY <1>4
  <2>3. Len(F) \in Nat /\ u \in Nat BY <1>1, <1>2
  <2> QED BY <2>1, <2>2, <2>3
<1> QED BY <1>3, <1>4, <1>5, <1>6, SeqEqual DEF T

LEMMA AfterHead ==
  ASSUME NEW F \in Seq(Element), F # << >>
  PROVE  After(F, 1) = Tail(F) /\ 1 \in 1 .. Len(F)
<1>1. /\ Tail(F) \in Seq(Element) /\ Len(F) \in Nat \ {0} /\ Len(Tail(F)) = Len(F) - 1
      /\ \A k \in 1 .. Len(Tail(F)) : Tail(F)[k] = F[k + 1]
  BY TailFields
<1>2. 1 \in 1 .. Len(F) BY <1>1
<1>3. /\ After(F, 1) \in Seq(Element) /\ Len(After(F, 1)) = Len(F) - 1
      /\ \A k \in 1 .. Len(F) - 1 : After(F, 1)[k] = F[1 + k]
  BY <1>2, AfterFields
<1>4. \A k \in 1 .. Len(After(F, 1)) : After(F, 1)[k] = Tail(F)[k] BY <1>1, <1>3
<1> QED BY <1>1, <1>2, <1>3, <1>4, SeqEqual

\* The head of a line is gone.
LEMMA LineDrop ==
  ASSUME NEW c, NEW F \in Seq(Element), F # << >>, OnLine(F), Sends(c, F)
  PROVE  /\ OnLine(Tail(F)) /\ Sends(c, Tail(F))
         /\ \A k \in 1 .. Len(Tail(F)) : ~IsSabm(Tail(F), k)
<1> DEFINE T == Tail(F)
<1>1. /\ Len(F) \in Nat \ {0}
      /\ \A k \in 1 .. Len(T) : T[k] = F[k + 1] /\ k + 1 \in 1 .. Len(F)
  BY TailFields
<1> HIDE DEF T
<1>2. \A k \in 1 .. Len(T) : ~IsSabm(T, k)
  <2>1. ASSUME NEW k \in 1 .. Len(T) PROVE ~IsSabm(T, k)
    <3>1. IsSabm(T, k) => IsSabm(F, k + 1) BY <1>1 DEF IsSabm
    <3>2. k + 1 # 1 OBVIOUS
    <3> QED BY <1>1, <3>1, <3>2 DEF OnLine
  <2> QED BY <2>1
<1>3. \A k \in 1 .. Len(T) : Usual(T[k].frame)
  BY <1>1 DEF OnLine
<1>4. ASSUME NEW i \in 1 .. Len(T), NEW k \in 1 .. Len(T), IsUa(T, i), IsUa(T, k) PROVE i = k
  <2>1. IsUa(F, i + 1) /\ IsUa(F, k + 1) BY <1>1, <1>4 DEF IsUa
  <2>2. i + 1 = k + 1 BY <1>1, <2>1 DEF OnLine
  <2> QED BY <2>2
<1>5. OnLine(T) BY <1>2, <1>3, <1>4 DEF OnLine
<1>6. Sends(c, T) BY <1>1, <1>2 DEF Sends
<1> QED BY <1>2, <1>5, <1>6 DEF T

\* A frame from d is lost, or not heard.
LEMMA PairDrop ==
  ASSUME NEW c, NEW d, NEW F \in Seq(Element), NEW B \in Seq(Element), B # << >>, Pair(c, d, F, B)
  PROVE  Pair(c, d, F, Tail(B))
<1> DEFINE T == Tail(B)
<1>1. OnLine(T) /\ Sends(d, T) /\ \A k \in 1 .. Len(T) : ~IsSabm(T, k)
  BY LineDrop DEF Pair, Half
<1>2. /\ Len(B) \in Nat \ {0}
      /\ \A k \in 1 .. Len(T) : T[k] = B[k + 1] /\ k + 1 \in 1 .. Len(B)
  BY TailFields
<1>3. c.state = "CONNECTED" /\ d.state = "CONNECTED" => Both(c, d, F, T) /\ Both(d, c, T, F)
  BY BothDrop, BothSides DEF Pair, Half
<1>4. \A u \in 1 .. Len(T) : After(T, u) = After(B, u + 1) BY AfterTail
<1> HIDE DEF T
<1>5. Half(c, d, F, T) BY <1>1, <1>2, <1>3 DEF Pair, Half
<1>6. Half(d, c, T, F)
  <2>1. ASSUME NEW u \in 1 .. Len(T), IsUa(T, u)
        PROVE  /\ c.state = "CONNECTING" /\ \A k \in 1 .. Len(F) : ~IsSabm(F, k)
               /\ d.state = "CONNECTED" => Len(F) = 0 /\ Both(d, InitCtx, After(T, u), << >>)
    <3>1. u + 1 \in 1 .. Len(B) /\ IsUa(B, u + 1) BY <1>2, <2>1 DEF IsUa
    <3> QED BY <1>4, <3>1 DEF Pair, Half
  <2> QED BY <1>1, <1>3, <2>1 DEF Pair, Half
<1> QED BY <1>5, <1>6 DEF Pair, T

\* Nothing but flags and timers has changed.
LEMMA PairSame ==
  ASSUME NEW c, NEW d, NEW F, NEW B, NEW r, Pair(c, d, F, B),
         Calm(r), r.state = c.state, SameCounts(c, r)
  PROVE  Pair(r, d, F, B)
<1>1. c.state = "CONNECTED" /\ d.state = "CONNECTED" => Both(r, d, F, B) /\ Both(d, r, B, F)
  BY BothSame, BothSides DEF Pair, Half
<1>2. Sends(r, F) BY DEF Pair, Half, Sends
<1>3. c.state = "CONNECTED" =>
        \A u \in 1 .. Len(F) : IsUa(F, u) => Len(B) = 0 /\ Both(r, InitCtx, After(F, u), << >>)
  BY BothSame DEF Pair, Half
<1>4. Half(r, d, F, B) BY <1>1, <1>2, <1>3 DEF Pair, Half
<1>5. Half(d, r, B, F) BY <1>1 DEF Pair, Half
<1> QED BY <1>4, <1>5 DEF Pair

\* Whatever the other end is, c may go on as r and send o.
Talks(c, r, o) ==
  /\ Calm(r) /\ c.state = "CONNECTED" /\ r.state = "CONNECTED"
  /\ o \in Seq(Element) /\ \A k \in 1 .. Len(o) : Numbered(o[k].frame)
  /\ \A e \in Ctx : \A F, B \in Seq(Element) : Both(c, e, F, B) => Both(r, e, F \o o, B)

LEMMA NumberedOnly ==
  ASSUME NEW F, NEW k, Numbered(F[k].frame)
  PROVE  ~IsSabm(F, k) /\ ~IsUa(F, k)
BY DEF Numbered, SFrames, IsSabm, IsUa

\* A connected station sends.
LEMMA PairTalk ==
  ASSUME NEW c, NEW d, NEW F \in Seq(Element), NEW B \in Seq(Element), Pair(c, d, F, B),
         NEW r, NEW o, Talks(c, r, o)
  PROVE  Pair(r, d, F \o o, B)
<1> DEFINE G == F \o o
<1>1. /\ G \in Seq(Element) /\ Len(F) \in Nat /\ Len(o) \in Nat /\ Len(G) = Len(F) + Len(o)
      /\ \A k \in 1 .. Len(F) : G[k] = F[k] /\ k \in 1 .. Len(G)
      /\ \A k \in 1 .. Len(G) : k \notin 1 .. Len(F) => Numbered(G[k].frame)
  BY JoinFields DEF Talks
<1>2. \A u \in 1 .. Len(F) : After(G, u) = After(F, u) \o o BY AfterJoin DEF Talks
<1>3. d \in Ctx /\ InitCtx \in Ctx BY InitCtxGood DEF Pair, Half, Calm
<1>4. c.state = "CONNECTED" /\ d.state = "CONNECTED" => Both(r, d, G, B) /\ Both(d, r, B, G)
  BY <1>3, BothSides DEF Pair, Half, Talks
<1> HIDE DEF G
<1>5. \A k \in 1 .. Len(G) : IsUa(G, k) => k \in 1 .. Len(F) /\ IsUa(F, k)
  BY <1>1, NumberedOnly DEF IsUa
<1>6. \A k \in 1 .. Len(G) : ~IsSabm(G, k)
  <2>1. \A k \in 1 .. Len(F) : ~IsSabm(F, k) BY DEF Pair, Half, Sends, Talks
  <2> QED BY <1>1, <2>1, NumberedOnly DEF IsSabm
<1>7. OnLine(G)
  <2>1. \A k \in 1 .. Len(G) : Usual(G[k].frame)
    BY <1>1 DEF Pair, Half, OnLine, Usual
  <2>2. \A i, k \in 1 .. Len(G) : IsUa(G, i) /\ IsUa(G, k) => i = k
    BY <1>5 DEF Pair, Half, OnLine
  <2> QED BY <1>6, <2>1, <2>2 DEF OnLine
<1>8. Half(r, d, G, B)
  <2>1. Sends(r, G) BY <1>6 DEF Sends, Talks
  <2>2. \A u \in 1 .. Len(G) : IsUa(G, u) =>
          /\ d.state = "CONNECTING" /\ \A k \in 1 .. Len(B) : ~IsSabm(B, k)
          /\ Len(B) = 0 /\ Both(r, InitCtx, After(G, u), << >>)
    <3>1. ASSUME NEW u \in 1 .. Len(G), IsUa(G, u)
          PROVE  /\ d.state = "CONNECTING" /\ \A k \in 1 .. Len(B) : ~IsSabm(B, k)
                 /\ Len(B) = 0 /\ Both(r, InitCtx, After(G, u), << >>)
      <4>1. u \in 1 .. Len(F) /\ IsUa(F, u) BY <1>5, <3>1
      <4>2. After(F, u) \in Seq(Element) /\ << >> \in Seq(Element) BY <4>1, AfterFields
      <4>3. /\ d.state = "CONNECTING" /\ \A k \in 1 .. Len(B) : ~IsSabm(B, k)
            /\ Len(B) = 0 /\ Both(c, InitCtx, After(F, u), << >>)
        BY <4>1 DEF Pair, Half, Talks
      <4> QED BY <1>2, <1>3, <4>1, <4>2, <4>3 DEF Talks
    <3> QED BY <3>1
  <2> QED BY <1>4, <1>7, <2>1, <2>2 DEF Pair, Half, Talks
<1>9. Half(d, r, B, G)
  <2>1. \A u \in 1 .. Len(B) : ~IsUa(B, u) BY DEF Pair, Half, Talks
  <2> QED BY <1>4, <2>1 DEF Pair, Half, Talks
<1> QED BY <1>8, <1>9 DEF Pair, G

\* Whoever has a frame under way is not DISCONNECTED; the head tells its state.
LEMMA PairHead ==
  ASSUME NEW c, NEW d, NEW F, NEW B \in Seq(Element), Pair(c, d, F, B), B # << >>
  PROVE  /\ d.state \in {"CONNECTING", "CONNECTED"}
         /\ Numbered(B[1].frame) => d.state = "CONNECTED"
         /\ IsSabm(B, 1) => d.state = "CONNECTING" /\ B[1].frame.pf
         /\ IsUa(B, 1) => c.state = "CONNECTING" /\ B[1].frame.pf
         /\ Usual(B[1].frame)
<1>1. 1 \in 1 .. Len(B) /\ Len(B) # 0 BY TailFields
<1>2. d.state \in {"CONNECTING", "CONNECTED"} BY <1>1 DEF Pair, Half, Sends, Calm
<1>3. /\ Numbered(B[1].frame) => d.state = "CONNECTED"
      /\ IsSabm(B, 1) => d.state = "CONNECTING"
      /\ IsUa(B, 1) => c.state = "CONNECTING"
  BY <1>1, <1>2 DEF Pair, Half, Sends
<1>4. Usual(B[1].frame) BY <1>1 DEF Pair, Half, OnLine
<1>5. IsSabm(B, 1) \/ IsUa(B, 1) => B[1].frame.pf
  BY <1>4, NumberedOnly DEF Usual
<1> QED BY <1>2, <1>3, <1>4, <1>5

\* A connected station takes a numbered frame, before it answers.
LEMMA PairTake ==
  ASSUME NEW c, NEW d, NEW F \in Seq(Element), NEW B \in Seq(Element), Pair(c, d, F, B),
         B # << >>, Numbered(B[1].frame), c.state = "CONNECTED",
         NEW r, Turns(c, B[1].frame, r), Calm(r)
  PROVE  Pair(r, d, F, Tail(B))
<1> DEFINE T == Tail(B)
<1>1. Pair(c, d, F, T) BY PairDrop
<1>2. d.state = "CONNECTED" /\ r.state = "CONNECTED" BY PairHead DEF Turns
<1>3. Both(c, d, F, B) /\ c \in Ctx /\ d \in Ctx BY <1>2 DEF Pair, Half, Calm
<1>4. Both(r, d, F, T) /\ Both(d, r, T, F) BY <1>3, BothTake, BothSides
<1>5. Len(B) # 0 BY TailFields
<1> HIDE DEF T
<1>6. \A u \in 1 .. Len(F) : ~IsUa(F, u) BY <1>2 DEF Pair, Half
<1>7. \A u \in 1 .. Len(T) : ~IsUa(T, u) BY <1>1 DEF Pair, Half
<1>8. Sends(r, F) BY <1>1, <1>2 DEF Pair, Half, Sends
<1>9. Half(r, d, F, T) BY <1>1, <1>2, <1>4, <1>6, <1>8 DEF Pair, Half
<1>10. Half(d, r, T, F) BY <1>1, <1>2, <1>4, <1>7 DEF Pair, Half
<1> QED BY <1>9, <1>10 DEF Pair, T

\* One frame on an empty line, or behind the others.
LEMMA OneMore ==
  ASSUME NEW F \in Seq(Element), NEW a, NEW o, Written(o, <<a>>)
  PROVE  /\ F \o o \in Seq(Element) /\ Len(F) \in Nat /\ Len(F \o o) = Len(F) + 1
         /\ \A k \in 1 .. Len(F) : (F \o o)[k] = F[k] /\ k # Len(F) + 1
         /\ (F \o o)[Len(F) + 1].frame = a
         /\ \A k \in 1 .. Len(F \o o) : k = Len(F) + 1 \/ k \in 1 .. Len(F)
         /\ Len(F) + 1 \in 1 .. Len(F \o o)
         /\ Len(After(F \o o, Len(F) + 1)) = 0 /\ After(F \o o, Len(F) + 1) \in Seq(Element)
<1>1. o \in Seq(Element) /\ Len(o) = 1 /\ o[1].frame = a BY DEF Written
<1>2. /\ F \o o \in Seq(Element) /\ Len(F) \in Nat /\ Len(F \o o) = Len(F) + 1
      /\ \A k \in 1 .. Len(F) : (F \o o)[k] = F[k]
      /\ \A k \in 1 .. Len(F \o o) :
           k \notin 1 .. Len(F) => (F \o o)[k] = o[k - Len(F)]
  <2>1. /\ F \o o \in Seq(Element) /\ Len(F) \in Nat /\ Len(F \o o) = Len(F) + Len(o)
        /\ \A k \in 1 .. Len(F) : (F \o o)[k] = F[k]
        /\ \A k \in 1 .. Len(F \o o) :
             k \notin 1 .. Len(F) => k - Len(F) \in 1 .. Len(o) /\ (F \o o)[k] = o[k - Len(F)]
    BY <1>1, JoinFields
  <2> QED BY <1>1, <2>1
<1> DEFINE G == F \o o
<1> HIDE DEF G
<1>3. Len(F) + 1 \in 1 .. Len(G) /\ Len(F) + 1 \notin 1 .. Len(F) BY <1>2 DEF G
<1>4. G[Len(F) + 1] = o[Len(F) + 1 - Len(F)] BY <1>2, <1>3 DEF G
<1>5. Len(F) + 1 - Len(F) = 1 BY <1>2
<1>6. After(G, Len(F) + 1) \in Seq(Element) /\ Len(After(G, Len(F) + 1)) = Len(G) - (Len(F) + 1)
  BY <1>2, <1>3, AfterFields DEF G
<1>7. Len(G) - (Len(F) + 1) = 0 BY <1>2 DEF G
<1>8. \A k \in 1 .. Len(G) : k = Len(F) + 1 \/ k \in 1 .. Len(F) BY <1>2 DEF G
<1> QED BY <1>1, <1>2, <1>3, <1>4, <1>5, <1>6, <1>7, <1>8 DEF G

LEMMA Requests ==
  /\ Sabm.type = "SABM" /\ Sabm.pf /\ Ua.type = "UA" /\ Ua.pf
  /\ ~Numbered(Sabm) /\ ~Numbered(Ua) /\ Usual(Sabm) /\ Usual(Ua)
BY DEF Sabm, Ua, UFrame, Numbered, SFrames, Usual

\* A SABM is sent: from DISCONNECTED, or after T1 with nothing under way.
LEMMA PairAsk ==
  ASSUME NEW c, NEW d, NEW F \in Seq(Element), NEW B \in Seq(Element), Pair(c, d, F, B),
         c.state = "DISCONNECTED" \/ (c.state = "CONNECTING" /\ F = << >> /\ B = << >>),
         NEW r, Asks(r), NEW o, Written(o, r.tx)
  PROVE  Pair(r, d, F \o o, B)
<1> DEFINE G == F \o o
<1>1. Len(F) = 0 BY DEF Pair, Half, Sends
<1>2. /\ G \in Seq(Element) /\ G[1].frame = Sabm
      /\ \A k \in 1 .. Len(G) : k = 1
  BY <1>1, OneMore DEF Asks
<1> HIDE DEF G
<1>3. \A k \in 1 .. Len(G) : ~IsUa(G, k) /\ ~Numbered(G[k].frame) /\ Usual(G[k].frame)
  BY <1>2, Requests DEF IsUa
<1>4. \A u \in 1 .. Len(B) : ~IsUa(B, u)
  <2>1. CASE c.state = "DISCONNECTED" BY <2>1 DEF Pair, Half
  <2>2. CASE B = << >> BY <2>2
  <2> QED BY <2>1, <2>2
<1>5. OnLine(G) /\ Sends(r, G) BY <1>2, <1>3 DEF OnLine, Sends, Asks
<1>6. Half(r, d, G, B) BY <1>3, <1>5 DEF Half, Asks
<1>7. Half(d, r, B, G) BY <1>4 DEF Pair, Half, Asks
<1> QED BY <1>6, <1>7 DEF Pair, G

\* A SABM is answered while the own is on its way.
LEMMA PairCross ==
  ASSUME NEW c, NEW d, NEW F \in Seq(Element), NEW B \in Seq(Element), Pair(c, d, F, B),
         c.state = "CONNECTING", B # << >>, IsSabm(B, 1),
         NEW r, Calm(r), r.state = "CONNECTING", r.tx = <<Ua>>, NEW o, Written(o, r.tx)
  PROVE  Pair(r, d, F \o o, Tail(B))
<1> DEFINE G == F \o o
           T == Tail(B)
           n == Len(F) + 1
<1>1. Pair(c, d, F, T) /\ d.state = "CONNECTING" BY PairDrop, PairHead
<1>2. \A k \in 1 .. Len(T) : ~IsSabm(T, k) BY LineDrop DEF Pair, Half
<1>3. 1 \in 1 .. Len(B) BY TailFields
<1>4. \A u \in 1 .. Len(F) : ~IsUa(F, u) BY <1>3 DEF Pair, Half
<1>5. /\ \A k \in 1 .. Len(F) : G[k] = F[k] /\ k # n
      /\ G[n].frame = Ua
      /\ \A k \in 1 .. Len(G) : k = n \/ k \in 1 .. Len(F)
  BY OneMore
<1> HIDE DEF G, T, n
<1>6. /\ \A k \in 1 .. Len(G) : Usual(G[k].frame) /\ ~Numbered(G[k].frame)
      /\ \A k \in 1 .. Len(G) : IsUa(G, k) => k = n
      /\ \A k \in 1 .. Len(G) : IsSabm(G, k) => k \in 1 .. Len(F) /\ IsSabm(F, k)
  BY <1>4, <1>5, Requests DEF Pair, Half, OnLine, Sends, IsUa, IsSabm
<1>7. OnLine(G) /\ Sends(r, G) BY <1>6 DEF OnLine, Sends, Pair, Half
<1>8. Half(r, d, G, T) BY <1>1, <1>2, <1>7 DEF Half
<1>9. ASSUME NEW u \in 1 .. Len(T), IsUa(T, u) PROVE \A k \in 1 .. Len(G) : ~IsSabm(G, k)
  BY <1>1, <1>6, <1>9 DEF Pair, Half
<1>10. Half(d, r, T, G) BY <1>1, <1>9 DEF Pair, Half
<1> QED BY <1>8, <1>10 DEF Pair, G, T

\* A SABM opens a connection, or starts one again.
LEMMA PairAgree ==
  ASSUME NEW c, NEW d, NEW F \in Seq(Element), NEW B \in Seq(Element), Pair(c, d, F, B),
         c.state \in {"DISCONNECTED", "CONNECTED"}, B # << >>, IsSabm(B, 1),
         NEW r, Calm(r), Started(r), r.tx = <<Ua>>, NEW o, Written(o, r.tx)
  PROVE  Pair(r, d, F \o o, Tail(B))
<1> DEFINE G == F \o o
           T == Tail(B)
           n == Len(F) + 1
<1>1. Pair(c, d, F, T) /\ d.state = "CONNECTING" BY PairDrop, PairHead
<1>2. \A k \in 1 .. Len(T) : ~IsSabm(T, k) BY LineDrop DEF Pair, Half
<1>3. 1 \in 1 .. Len(B) /\ T \in Seq(Element) /\ Len(T) \in Nat BY TailFields, LenProperties
<1>4. \A u \in 1 .. Len(F) : ~IsUa(F, u) BY <1>3 DEF Pair, Half
<1>5. /\ \A k \in 1 .. Len(F) : G[k] = F[k] /\ k # n
      /\ G[n].frame = Ua
      /\ \A k \in 1 .. Len(G) : k = n \/ k \in 1 .. Len(F)
      /\ Len(After(G, n)) = 0 /\ After(G, n) \in Seq(Element)
  BY OneMore
<1>6. After(G, n) = << >> BY <1>5, NoneAfter
<1> HIDE DEF G, T, n
\* Nothing else is on its way to c.
<1>7. Len(T) = 0
  <2>1. \A k \in 1 .. Len(T) : ~IsUa(T, k) /\ ~Numbered(T[k].frame) /\ Usual(T[k].frame)
    BY <1>1 DEF Pair, Half, Sends, OnLine
  <2>2. \A k \in 1 .. Len(T) : FALSE BY <1>2, <2>1 DEF Usual, IsUa, IsSabm
  <2> QED BY <1>3, <2>2
<1>8. \A k \in 1 .. Len(F) : ~IsSabm(F, k) BY DEF Pair, Half, Sends
<1>9. /\ \A k \in 1 .. Len(G) : Usual(G[k].frame) /\ ~IsSabm(G, k)
      /\ \A k \in 1 .. Len(G) : IsUa(G, k) => k = n
  BY <1>4, <1>5, <1>8, Requests DEF Pair, Half, OnLine, IsUa, IsSabm
<1>10. OnLine(G) /\ Sends(r, G) BY <1>9 DEF OnLine, Sends, Started
<1>11. Both(r, InitCtx, << >>, << >>)
  <2>1. SameCounts(InitCtx, r) /\ SameCounts(InitCtx, InitCtx) BY DEF SameCounts, InitCtx, Started
  <2> QED BY <2>1, BothStart, InitCtxGood DEF Started
<1>12. Half(r, d, G, T) BY <1>1, <1>2, <1>6, <1>7, <1>9, <1>10, <1>11 DEF Half, Started
<1>13. Half(d, r, T, G) BY <1>1, <1>7 DEF Pair, Half, Started
<1> QED BY <1>12, <1>13 DEF Pair, G, T

\* The UA to the own SABM: what the peer sent since is all there is.
LEMMA PairUp ==
  ASSUME NEW c, NEW d, NEW F \in Seq(Element), NEW B \in Seq(Element), Pair(c, d, F, B),
         c.state = "CONNECTING", B # << >>, IsUa(B, 1),
         NEW r, Calm(r), Started(r)
  PROVE  Pair(r, d, F, Tail(B))
<1> DEFINE T == Tail(B)
<1>1. Pair(c, d, F, T) BY PairDrop
<1>2. \A k \in 1 .. Len(T) : ~IsSabm(T, k) BY LineDrop DEF Pair, Half
<1>3. /\ 1 \in 1 .. Len(B) /\ T \in Seq(Element) /\ Len(T) \in Nat
      /\ \A k \in 1 .. Len(T) : T[k] = B[k + 1] /\ k + 1 \in 1 .. Len(B) /\ k + 1 # 1
  BY TailFields, LenProperties
<1>4. d.state \in {"CONNECTING", "CONNECTED"} BY PairHead
<1>5. \A k \in 1 .. Len(F) : ~IsSabm(F, k) BY <1>3 DEF Pair, Half
<1>6. After(B, 1) = T BY AfterHead
<1> HIDE DEF T
<1>7. \A k \in 1 .. Len(T) : ~IsUa(T, k)
  <2>1. ASSUME NEW k \in 1 .. Len(T), IsUa(T, k) PROVE FALSE
    <3>1. IsUa(B, k + 1) /\ k + 1 # 1 /\ k + 1 \in 1 .. Len(B) BY <1>3, <2>1 DEF IsUa
    <3> QED BY <1>3, <3>1 DEF Pair, Half, OnLine
  <2> QED BY <2>1
<1>8. SameCounts(InitCtx, r) /\ SameCounts(InitCtx, InitCtx) /\ r \in Ctx /\ InitCtx \in Ctx
  BY InitCtxGood DEF SameCounts, InitCtx, Started
<1>9. d.state = "CONNECTED" => Both(r, d, F, T) /\ Both(d, r, T, F)
  <2>1. ASSUME d.state = "CONNECTED" PROVE Both(r, d, F, T)
    <3>1. Len(F) = 0 /\ Both(d, InitCtx, T, << >>) BY <1>3, <1>6, <2>1 DEF Pair, Half
    <3>2. F = << >> BY <3>1, NoneAfter
    <3>3. Both(InitCtx, d, << >>, T) BY <3>1, BothSides
    <3> QED BY <1>8, <3>2, <3>3, BothSame
  <2> QED BY <2>1, BothSides
\* Of an UA of its own, in answer to a SABM that crossed, nothing is behind.
<1>10. ASSUME NEW u \in 1 .. Len(F), IsUa(F, u)
       PROVE  Len(T) = 0 /\ Both(r, InitCtx, After(F, u), << >>)
  <2>1. d.state = "CONNECTING" BY <1>10 DEF Pair, Half
  <2>2. \A k \in 1 .. Len(T) : FALSE
    BY <1>1, <1>2, <1>7, <2>1 DEF Pair, Half, Sends, OnLine, Usual, IsSabm, IsUa
  <2>3. Len(T) = 0 BY <1>3, <2>2
  <2>4. \A k \in 1 .. Len(F) : k = u
    BY <1>5, <1>10 DEF Pair, Half, Sends, OnLine, Usual, IsSabm, IsUa
  <2>5. After(F, u) \in Seq(Element) /\ Len(After(F, u)) = Len(F) - u /\ Len(F) \in Nat
    BY AfterFields
  <2>6. Len(F) = u BY <2>4, <2>5
  <2>7. After(F, u) = << >> BY <2>5, <2>6, NoneAfter
  <2> QED BY <1>8, <2>3, <2>7, BothStart
<1>11. Sends(r, F) BY <1>5 DEF Sends, Started
<1>12. Half(r, d, F, T) BY <1>2, <1>4, <1>9, <1>10, <1>11 DEF Pair, Half, Started
<1>13. Half(d, r, T, F) BY <1>1, <1>7, <1>9 DEF Pair, Half, Started
<1> QED BY <1>12, <1>13 DEF Pair, T

\* A station gives up with nothing under way, or was down already.
LEMMA PairDown ==
  ASSUME NEW c, NEW d, Pair(c, d, << >>, << >>), NEW r, Down(r),
         c.state = "DISCONNECTED" \/ MaxRetries > 0
  PROVE  Pair(r, d, << >>, << >>)
<1>1. Calm(r) BY DEF Down, Calm
<1>2. OnLine(<< >>) /\ Sends(r, << >>) BY DEF OnLine, Sends
<1>3. Half(r, d, << >>, << >>) BY <1>1, <1>2 DEF Half, Down
<1>4. Half(d, r, << >>, << >>) BY DEF Pair, Half, Down
<1> QED BY <1>3, <1>4 DEF Pair

LEMMA PairStart == Pair(InitCtx, InitCtx, << >>, << >>)
<1>1. /\ InitCtx \in Ctx /\ ~InitCtx.react /\ ~InitCtx.frmrSent /\ InitCtx.state = "DISCONNECTED"
      /\ ~InitCtx.T2_ACTIVE
  BY InitCtxGood DEF InitCtx
<1>2. Calm(InitCtx) BY <1>1 DEF Calm
<1>3. OnLine(<< >>) /\ Sends(InitCtx, << >>) BY DEF OnLine, Sends
<1>4. Half(InitCtx, InitCtx, << >>, << >>) BY <1>1, <1>2, <1>3 DEF Half
<1> QED BY <1>4 DEF Pair

--------------------------------------------------------------------------
(* Calls of a connected station, as the lines see them.                   *)

LEMMA SpeaksTalks ==
  ASSUME NEW r, Calm(r), r.state = "CONNECTED", Speaks(r), NEW o, Written(o, r.tx)
  PROVE  Talks(r, r, o)
<1>1. \A e \in Ctx : \A F, B \in Seq(Element) : Both(r, e, F, B) => Both(r, e, F \o o, B)
  BY BothOutput DEF Calm
<1>2. \A k \in 1 .. Len(o) : Numbered(o[k].frame) BY DEF Written, Speaks
<1> QED BY <1>1, <1>2 DEF Talks, Written

LEMMA SaysTalks ==
  ASSUME NEW c, Calm(c), c.state = "CONNECTED", c.tx = << >>, NEW r, Says(c, r),
         NEW o, Written(o, r.tx)
  PROVE  Talks(c, r, o) /\ SameCounts(c, r)
<1>1. SameCounts(c, r) BY DEF Says, Steady, SameWindow, SameCounts
<1>2. Calm(r) /\ r.state = "CONNECTED" BY DEF Says, Steady, Calm
<1>3. Answers(c) BY DEF Answers
<1>4. Speaks(r) BY <1>3, AnswersSpeak DEF Says
<1>5. Talks(r, r, o) BY <1>2, <1>4, SpeaksTalks
<1>6. \A e, F, B : Both(c, e, F, B) => Both(r, e, F, B) BY <1>1, BothSame
<1> QED BY <1>1, <1>5, <1>6 DEF Talks

LEMMA TransmitTalks ==
  ASSUME NEW c, Calm(c), CanTransmit(c), c.tx = << >>, c.accepted + 1 < PayloadCount,
         NEW o, Written(o, transmit_i(c).tx)
  PROVE  LET r == transmit_i(c)
         IN /\ Talks(c, r, o) /\ r.accepted = c.accepted + 1 /\ r.received = c.received
            /\ Outstanding(r) = Outstanding(c) + 1
<1> DEFINE r == transmit_i(c)
<1>1. /\ r \in Ctx /\ r.state = c.state /\ r.react = c.react /\ r.frmrSent = c.frmrSent
      /\ r.vr = c.vr /\ r.received = c.received
      /\ r.va = c.va /\ r.vs = Next8(c.vs)
      /\ r.accepted = (c.accepted + 1) % PayloadCount
      /\ Outstanding(r) = Outstanding(c) + 1
      /\ Speaks(r)
  BY CalmTransmit DEF Calm
<1>2. c \in Ctx /\ c.state = "CONNECTED" /\ Outstanding(c) < SlotCount BY DEF Calm, CanTransmit
<1> HIDE DEF r
<1>3. r.accepted = c.accepted + 1
  <2>1. c.accepted \in Nat BY <1>2, CtxFields, Sizes
  <2>2. c.accepted + 1 \in 0 .. (PayloadCount - 1) BY <2>1, Sizes
  <2> QED BY <1>1, <2>2, ModSmall, Sizes
<1>4. Calm(r) /\ r.state = "CONNECTED" BY <1>1, <1>2 DEF Calm
<1>5. Talks(r, r, o) BY <1>1, <1>4, SpeaksTalks DEF r
<1>6. \A e \in Ctx : \A F, B \in Seq(Element) : Both(c, e, F, B) => Both(r, e, F, B)
  BY <1>1, <1>2, <1>3, BothAccept
<1>7. Talks(c, r, o) BY <1>2, <1>5, <1>6 DEF Talks
<1> QED BY <1>1, <1>3, <1>7 DEF r

--------------------------------------------------------------------------
(* The link.                                                              *)

\* The applications set up the link, send and declare themselves busy, T1 is
\* long enough, and payloads have names enough for one connection.
Streaming == /\ Calls \subseteq {"LinkSetup", "SetLocalBusy"} /\ MaxEarly = 0
             /\ \A s \in Side : MaxSends[s] < PayloadCount

Paired == \A t \in Side : st[t].tx = << >> /\ Pair(st[t], st[Peer(t)], line[Peer(t)], line[t])

\* What one step of a connected station with a connected peer does: it goes
\* down, accepts a frame, or takes one at most.
Shape(c, r, L) ==
  \/ r.state # "CONNECTED" /\ r.received = 0
  \/ /\ r.accepted = c.accepted + 1 /\ Outstanding(r) = Outstanding(c) + 1
     /\ r.received = c.received
  \/ /\ r.accepted = c.accepted /\ Outstanding(r) <= Outstanding(c)
     /\ \/ r.received = c.received
        \/ /\ r.received = c.received + 1
           /\ L # << >> /\ IsData(L, 1) /\ L[1].frame.ns = c.vr

Advances(s) ==
  /\ Paired' /\ st'[Peer(s)] = st[Peer(s)]
  /\ st[s].state = "CONNECTED" /\ st[Peer(s)].state = "CONNECTED" => Shape(st[s], st'[s], line[s])
  /\ MaxRetries = 0 /\ st[s].state = "CONNECTED" => st'[s].state = "CONNECTED"

\* The frames of a sequence that are left after n have been taken.
Rest(L, n) == IF n = 0 THEN L ELSE Tail(L)

LEMMA RestFields ==
  ASSUME NEW L \in Seq(Element), NEW n \in {0, 1}, n = 1 => L # << >>
  PROVE  SubSeq(L, n + 1, Len(L)) = Rest(L, n) /\ Rest(L, n) \in Seq(Element)
<1>1. CASE n = 0 BY <1>1, SubSeqFull DEF Rest
<1>2. CASE n = 1
  <2>1. Tail(L) = SubSeq(L, 2, Len(L)) /\ Tail(L) \in Seq(Element) BY <1>2, TailIsSubSeq, TailFields
  <2>2. n + 1 = 2 BY <1>2
  <2> QED BY <1>2, <2>1, <2>2 DEF Rest
<1> QED BY <1>1, <1>2

LEMMA LinkFields ==
  ASSUME LInv, NEW s \in Side
  PROVE  /\ Rested(st[s]) /\ st[s] \in Ctx /\ ~st[s].RETRANSMIT_PENDING
         /\ line[s] \in Seq(Element) /\ line[Peer(s)] \in Seq(Element)
         /\ st \in [Side -> Ctx] /\ line \in [Side -> Seq(Element)]
         /\ Peer(s) \in Side /\ Peer(s) # s /\ Peer(Peer(s)) = s /\ \A t \in Side : t = s \/ t = Peer(s)
<1>1. /\ Peer(s) \in Side /\ Peer(s) # s /\ Peer(Peer(s)) = s
      /\ \A t \in Side : t = s \/ t = Peer(s)
  BY DEF Side, Peer
<1> QED BY <1>1 DEF LInv, TypeOK, Rested, Element

LEMMA OutputWritten ==
  ASSUME NEW s \in Side, NEW tx \in Seq(Frame), peer_address' \in [Side -> Address]
  PROVE  Written([i \in DOMAIN tx |-> Addressed(s, tx[i])], tx)
<1> DEFINE o == [i \in DOMAIN tx |-> Addressed(s, tx[i])]
<1>1. o \in Seq(Element) BY OutputType
<1>2. DOMAIN tx = 1 .. Len(tx) /\ Len(tx) \in Nat BY LenProperties
<1>3. DOMAIN o = 1 .. Len(tx) BY <1>2
<1>4. DOMAIN o = 1 .. Len(o) /\ Len(o) \in Nat BY <1>1, LenProperties
<1>5. Len(o) = Len(tx) BY <1>2, <1>3, <1>4
<1>6. \A k \in 1 .. Len(tx) : o[k].frame = tx[k] BY <1>2 DEF Addressed
<1> HIDE DEF o
<1> QED BY <1>1, <1>5, <1>6 DEF Written, o

\* A call of s whose result fits the other end keeps both ends fitting.
LEMMA RunsPaired ==
  ASSUME LInv, LInv', Paired, NEW s \in Side, NEW r, NEW n \in {0, 1},
         n = 1 => line[s] # << >>, Runs(s, r, n), Calm(r), r.tx \in Seq(Frame),
         \A o : Written(o, r.tx) => Pair(r, st[Peer(s)], line[Peer(s)] \o o, Rest(line[s], n))
  PROVE  /\ Paired' /\ st'[Peer(s)] = st[Peer(s)]
         /\ st'[s] = Drained(r) /\ st'[s].state = r.state /\ SameCounts(r, st'[s])
<1> DEFINE p == Peer(s)
           o == [i \in DOMAIN r.tx |-> Addressed(s, r.tx[i])]
           d == Drained(r)
<1>1. /\ line[s] \in Seq(Element) /\ line[p] \in Seq(Element)
      /\ st \in [Side -> Ctx] /\ line \in [Side -> Seq(Element)]
      /\ p \in Side /\ p # s /\ Peer(p) = s /\ \A t \in Side : t = s \/ t = p
  BY LinkFields
<1>2. peer_address' \in [Side -> Address] BY DEF LInv, TypeOK
<1>3. Written(o, r.tx) BY <1>2, OutputWritten
<1> HIDE DEF o, d
<1>4. Pair(r, st[p], line[p] \o o, Rest(line[s], n)) BY <1>3
<1>5. /\ Calm(d) /\ d.tx = << >> /\ d.state = r.state /\ SameCounts(r, d)
  BY CalmDrained DEF d
<1>6. Pair(d, st[p], line[p] \o o, Rest(line[s], n)) BY <1>4, <1>5, PairSame
<1>7. /\ st' = [st EXCEPT ![s] = d]
      /\ line' = [line EXCEPT ![s] = SubSeq(line[s], n + 1, Len(line[s])), ![p] = line[p] \o o]
  BY <1>1 DEF Runs, d, o
<1>8. /\ st'[s] = d /\ st'[p] = st[p]
      /\ line'[s] = Rest(line[s], n) /\ line'[p] = line[p] \o o
  BY <1>1, <1>7, RestFields
<1>9. Pair(st'[s], st'[p], line'[p], line'[s]) /\ Pair(st'[p], st'[s], line'[s], line'[p])
  BY <1>6, <1>8, PairSides
<1>10. st'[s].tx = << >> /\ st'[p].tx = << >> BY <1>1, <1>5, <1>8 DEF Paired
<1> HIDE DEF p
<1>11. \A t \in Side : st'[t].tx = << >> /\ Pair(st'[t], st'[Peer(t)], line'[Peer(t)], line'[t])
  BY <1>1, <1>9, <1>10 DEF p
<1>12. Paired' BY <1>11 DEF Paired
<1> QED BY <1>5, <1>8, <1>12 DEF d, p

LEMMA PairedFields ==
  ASSUME LInv, Paired, NEW s \in Side
  PROVE  /\ Pair(st[s], st[Peer(s)], line[Peer(s)], line[s])
         /\ Calm(st[s]) /\ st[s].tx = << >> /\ Calm(st[Peer(s)])
BY LinkFields DEF Paired, Pair, Half

\* A call of a connected station.
LEMMA TalkAdvances ==
  ASSUME LInv, LInv', Paired, NEW s \in Side, NEW r, Runs(s, r, 0), r.tx \in Seq(Frame),
         \A o : Written(o, r.tx) => Talks(st[s], r, o), Calm(r), r.state = "CONNECTED",
         Shape(st[s], r, line[s])
  PROVE  Advances(s) /\ st'[s].accepted = r.accepted
<1>1. ASSUME NEW o, Written(o, r.tx)
      PROVE  Pair(r, st[Peer(s)], line[Peer(s)] \o o, Rest(line[s], 0))
  BY <1>1, LinkFields, PairedFields, PairTalk DEF Rest
<1>2. /\ Paired' /\ st'[Peer(s)] = st[Peer(s)]
      /\ st'[s].state = r.state /\ SameCounts(r, st'[s])
  BY <1>1, RunsPaired
<1>3. Shape(st[s], st'[s], line[s]) BY <1>2 DEF Shape, SameCounts, Outstanding
<1> QED BY <1>2, <1>3 DEF Advances, SameCounts

LEMMA SaysAdvances ==
  ASSUME LInv, LInv', Paired, NEW s \in Side, NEW r, Runs(s, r, 0),
         st[s].state = "CONNECTED", Says(st[s], r)
  PROVE  Advances(s) /\ st'[s].accepted = st[s].accepted
<1>1. Calm(st[s]) /\ st[s].tx = << >> /\ st[s] \in Ctx BY PairedFields DEF Calm
<1>2. r \in Ctx /\ r.tx \in Seq(Frame) /\ Calm(r) /\ r.state = "CONNECTED"
  BY <1>1, CtxFields DEF Says, Steady, Calm
<1>3. \A o : Written(o, r.tx) => Talks(st[s], r, o) BY <1>1, SaysTalks
<1>4. SameCounts(st[s], r) BY DEF Says, Steady, SameWindow, SameCounts
<1>5. Shape(st[s], r, line[s])
  <2>1. Outstanding(st[s]) \in Nat /\ Outstanding(r) = Outstanding(st[s])
    BY <1>1, <1>4, OutstandingNat DEF Outstanding, SameCounts
  <2> QED BY <1>4, <2>1 DEF Shape, SameCounts
<1> QED BY <1>2, <1>3, <1>4, <1>5, TalkAdvances DEF SameCounts

\* The number of frames s has had accepted on this connection.
Accepts(s, n) == st'[s].state = "CONNECTED" => st'[s].accepted = n

Kept(s) == st[s].state = "CONNECTED" /\ Accepts(s, st[s].accepted)

LEMMA AskAdvances ==
  ASSUME LInv, LInv', Paired, NEW s \in Side, NEW r, Runs(s, r, 0), Asks(r),
         \/ st[s].state = "DISCONNECTED"
         \/ st[s].state = "CONNECTING" /\ line[Peer(s)] = << >> /\ line[s] = << >>
  PROVE  Advances(s) /\ Accepts(s, 0)
<1>1. Calm(r) /\ r.state = "CONNECTING" BY DEF Asks
<1>2. r.tx \in Seq(Frame) BY <1>1, CtxFields DEF Calm
<1>3. ASSUME NEW o, Written(o, r.tx)
      PROVE  Pair(r, st[Peer(s)], line[Peer(s)] \o o, Rest(line[s], 0))
  BY <1>3, LinkFields, PairedFields, PairAsk DEF Rest
<1>4. /\ Paired' /\ st'[Peer(s)] = st[Peer(s)] /\ st'[s].state = r.state
  BY <1>1, <1>2, <1>3, RunsPaired
<1> QED BY <1>1, <1>4 DEF Advances, Accepts

LEMMA SetupAdvances ==
  ASSUME LInv, LInv', Paired, NEW s \in Side, LinkSetup(s)
  PROVE  Advances(s) /\ Accepts(s, 0)
<1>1. st[s].state = "DISCONNECTED" /\ Runs(s, link_setup(st[s]), 0) BY DEF LinkSetup, AppCall
<1>2. Calm(st[s]) /\ st[s].tx = << >> /\ st[s] \in Ctx BY PairedFields DEF Calm
<1>3. Asks(link_setup(st[s])) BY <1>1, <1>2, CalmSetup
<1> QED BY <1>1, <1>3, AskAdvances

LEMMA BusyAdvances ==
  ASSUME LInv, LInv', Paired, NEW s \in Side, SetLocalBusy(s)
  PROVE  Advances(s) /\ Kept(s)
<1> DEFINE b == ~st[s].LOCAL_BUSY
<1>1. st[s].state = "CONNECTED" /\ Runs(s, set_local_busy(st[s], b), 0)
  BY DEF SetLocalBusy, AppCall
<1>2. b \in BOOLEAN OBVIOUS
<1>3. st[s] \in Ctx BY LinkFields
<1> HIDE DEF b
<1>4. Says(st[s], set_local_busy(st[s], b)) BY <1>2, <1>3, CalmBusy
<1> QED BY <1>1, <1>4, SaysAdvances DEF Kept, Accepts

LEMMA TransmitAdvances ==
  ASSUME LInv, LInv', Paired, NEW s \in Side, TransmitI(s), st[s].accepted + 1 < PayloadCount
  PROVE  Advances(s) /\ st[s].state = "CONNECTED" /\ Accepts(s, st[s].accepted + 1)
<1> DEFINE c == st[s]
           r == transmit_i(c)
<1>1. Calm(c) /\ c.tx = << >> /\ CanTransmit(c) /\ Runs(s, r, 0) /\ c.state = "CONNECTED"
  BY PairedFields DEF TransmitI, CanTransmit
<1>2. \A o : Written(o, r.tx) => /\ Talks(c, r, o) /\ r.accepted = c.accepted + 1
                                /\ r.received = c.received
                                /\ Outstanding(r) = Outstanding(c) + 1
  BY <1>1, TransmitTalks
<1>3. r \in Ctx /\ r.tx \in Seq(Frame) BY <1>1, TransmitType, CtxFields DEF Calm
<1>4. \E o : Written(o, r.tx)
  <2>1. peer_address' \in [Side -> Address] BY DEF LInv, TypeOK
  <2> QED BY <1>3, <2>1, OutputWritten
<1> HIDE DEF r
<1>5. /\ Calm(r) /\ r.state = "CONNECTED" /\ r.accepted = c.accepted + 1
      /\ r.received = c.received /\ Outstanding(r) = Outstanding(c) + 1
  BY <1>2, <1>4 DEF Talks
<1>6. Shape(c, r, line[s]) BY <1>5 DEF Shape
<1> QED BY <1>1, <1>2, <1>3, <1>5, <1>6, TalkAdvances DEF Accepts

LEMMA T2Advances ==
  ASSUME LInv, LInv', Paired, NEW s \in Side, T2Expired(s)
  PROVE  Advances(s) /\ Kept(s)
<1>1. st[s].T2_ACTIVE /\ Runs(s, t2_expired(st[s]), 0) BY DEF T2Expired
<1>2. st[s].state = "CONNECTED" /\ st[s] \in Ctx BY <1>1, PairedFields DEF Calm
<1>3. Says(st[s], t2_expired(st[s])) BY <1>2, CalmT2
<1> QED BY <1>1, <1>2, <1>3, SaysAdvances DEF Kept, Accepts

LEMMA T1Advances ==
  ASSUME LInv, LInv', Paired, NEW s \in Side, T1Expired(s)
  PROVE  Advances(s) /\ (Kept(s) \/ Accepts(s, 0))
<1> DEFINE r == t1_expired(st[s])
           p == Peer(s)
<1>1. Runs(s, r, 0) /\ line[s] = << >> /\ line[p] = << >>
  BY DEF T1Expired, Unanswered, Side, Peer
<1>2. Calm(st[s]) /\ st[s].tx = << >> /\ st[s] \in Ctx BY PairedFields DEF Calm
<1>3. \/ st[s].state = "CONNECTED" /\ Says(st[s], r)
      \/ st[s].state = "CONNECTING" /\ Asks(r)
      \/ st[s].state = "DISCONNECTED" /\ Down(r)
      \/ MaxRetries > 0 /\ Down(r) /\ r.received = 0
  BY <1>2, CalmT1
<1> HIDE DEF r
<1>4. CASE st[s].state = "CONNECTED" /\ Says(st[s], r)
  BY <1>1, <1>4, SaysAdvances DEF Kept, Accepts
<1>5. CASE st[s].state = "CONNECTING" /\ Asks(r) BY <1>1, <1>5, AskAdvances
<1>6. CASE /\ Down(r)
           /\ st[s].state = "DISCONNECTED" \/ (MaxRetries > 0 /\ r.received = 0)
  <2>1. Calm(r) /\ r.tx = << >> /\ r.tx \in Seq(Frame) /\ r.state = "DISCONNECTED"
    BY <1>6 DEF Down, Calm
  <2>2. Pair(r, st[p], << >>, << >>) BY <1>1, <1>6, PairedFields, PairDown
  <2>3. \A o : Written(o, r.tx) => o = << >>
    <3>1. Len(r.tx) = 0 BY <2>1
    <3> QED BY <3>1, NoneAfter DEF Written
  <2>4. << >> \o << >> = << >> OBVIOUS
  <2>5. ASSUME NEW o, Written(o, r.tx)
        PROVE  Pair(r, st[Peer(s)], line[Peer(s)] \o o, Rest(line[s], 0))
    BY <1>1, <2>2, <2>3, <2>4, <2>5 DEF Rest
  <2>6. /\ Paired' /\ st'[Peer(s)] = st[Peer(s)] /\ st'[s].state = r.state
        /\ SameCounts(r, st'[s])
    <3>1. Runs(s, r, 0) BY <1>1
    <3>2. Calm(r) /\ r.tx \in Seq(Frame) BY <2>1
    <3> QED BY <2>5, <3>1, <3>2, RunsPaired
  <2>7. MaxRetries = 0 => st[s].state # "CONNECTED" BY <1>6, MaxRetriesAssumption
  <2>8. st[s].state = "CONNECTED" => st'[s].received = 0 BY <1>6, <2>6 DEF SameCounts
  <2> QED BY <2>1, <2>6, <2>7, <2>8 DEF Advances, Shape, Accepts
<1> QED BY <1>3, <1>4, <1>5, <1>6

LEMMA LoseAdvances ==
  ASSUME LInv, LInv', Paired, NEW s \in Side, Lose(s)
  PROVE  Advances(s) /\ st' = st
<1> DEFINE p == Peer(s)
           T == Tail(line[s])
<1>1. st' = st /\ line' = [line EXCEPT ![s] = T] /\ line[s] # << >> BY DEF Lose
<1>2. /\ line[s] \in Seq(Element) /\ line[p] \in Seq(Element) /\ line \in [Side -> Seq(Element)]
      /\ p \in Side /\ p # s /\ Peer(p) = s /\ \A t \in Side : t = s \/ t = p
  BY LinkFields
<1>3. Pair(st[s], st[p], line[p], T) BY <1>1, <1>2, PairedFields, PairDrop
<1> HIDE DEF T
<1>4. line'[s] = T /\ line'[p] = line[p] BY <1>1, <1>2
<1>5. Pair(st'[s], st'[p], line'[p], line'[s]) /\ Pair(st'[p], st'[s], line'[s], line'[p])
  BY <1>1, <1>3, <1>4, PairSides
<1>6. \A t \in Side : st'[t].tx = << >> BY <1>1 DEF Paired
<1>7. \A t \in Side : st'[t].tx = << >> /\ Pair(st'[t], st'[Peer(t)], line'[Peer(t)], line'[t])
  BY <1>2, <1>5, <1>6
<1>8. Paired' BY <1>7 DEF Paired
<1>9. st[s].state = "CONNECTED" => Shape(st[s], st'[s], line[s])
  <2>1. Outstanding(st[s]) \in Nat BY LinkFields, OutstandingNat
  <2> QED BY <1>1, <2>1 DEF Shape
<1> QED BY <1>1, <1>8, <1>9 DEF Advances

\* A frame that is not heard, or not expected, is as good as lost.
LEMMA IgnoreAdvances ==
  ASSUME LInv, LInv', Paired, NEW s \in Side, Runs(s, st[s], 1), line[s] # << >>
  PROVE  Advances(s) /\ Accepts(s, st[s].accepted) /\ st'[s].state = st[s].state
<1> DEFINE c == st[s]
<1>1. Calm(c) /\ c.tx = << >> /\ c.tx \in Seq(Frame) /\ c \in Ctx
      /\ Pair(c, st[Peer(s)], line[Peer(s)], line[s])
  BY PairedFields, CtxFields DEF Calm
<1>2. line[s] \in Seq(Element) /\ line[Peer(s)] \in Seq(Element) BY LinkFields
<1>3. Pair(c, st[Peer(s)], line[Peer(s)], Tail(line[s])) BY <1>1, <1>2, PairDrop
<1>4. ASSUME NEW o, Written(o, c.tx)
      PROVE  Pair(c, st[Peer(s)], line[Peer(s)] \o o, Rest(line[s], 1))
  <2>1. Len(c.tx) = 0 BY <1>1
  <2>2. o = << >> BY <1>4, <2>1, NoneAfter DEF Written
  <2>3. line[Peer(s)] \o o = line[Peer(s)] BY <1>2, <2>2, ConcatEmptySeq
  <2> QED BY <1>3, <2>3 DEF Rest
<1> HIDE DEF c
<1>5. Runs(s, c, 1) BY DEF c
<1>6. Calm(c) /\ c.tx \in Seq(Frame) BY <1>1
<1>7. /\ Paired' /\ st'[Peer(s)] = st[Peer(s)]
      /\ st'[s].state = c.state /\ SameCounts(c, st'[s])
  BY <1>4, <1>5, <1>6, RunsPaired
<1>8. Shape(c, st'[s], line[s])
  <2>1. Outstanding(c) \in Nat /\ Outstanding(st'[s]) = Outstanding(c)
    BY <1>1, <1>7, OutstandingNat DEF Outstanding, SameCounts
  <2> QED BY <1>7, <2>1 DEF Shape, SameCounts
<1> QED BY <1>7, <1>8 DEF Advances, Accepts, SameCounts, c

LEMMA AcceptPending ==
  ASSUME NEW c \in Ctx, NEW f \in Frame
  PROVE  SamePending(c, accept_sabm(c, f))
         /\ SamePending(c, set_state(reset_state(c), "CONNECTED", "CONN_ACCEPTED"))
<1> DEFINE z == reset_state(c)
           u == send_ua(z, f.pf)
<1>1. z \in Ctx /\ SamePending(c, z) BY ResetGood, PlainPending
<1> HIDE DEF z
<1>2. f.pf \in BOOLEAN BY DEF Frame
<1>3. u \in Ctx /\ SamePending(z, u)
  BY <1>1, <1>2, SendUKeeps, PlainPending DEF send_ua, FrameTypes
<1> HIDE DEF u
<1>4. SamePending(u, set_state(u, "CONNECTED", "CONN_REQ"))
      /\ SamePending(z, set_state(z, "CONNECTED", "CONN_ACCEPTED"))
  BY <1>1, <1>3, SetStatePending DEF States, Events
<1> QED BY <1>1, <1>3, <1>4 DEF accept_sabm, SamePending, u, z

\* A numbered frame in the data phase.
LEMMA TakeAdvances ==
  ASSUME LInv, LInv', Paired, NEW s \in Side, line[s] # << >>, NEW f \in Frame,
         st[s].state = "CONNECTED", Numbered(line[s][1].frame),
         f = [line[s][1].frame EXCEPT !.cmd = f.cmd],
         LET d == dispatch_frame(st[s], f)
         IN Runs(s, IF d.RETRANSMIT_PENDING THEN retransmit_outstanding(d) ELSE d, 1)
  PROVE  Advances(s) /\ Kept(s)
<1> DEFINE c == st[s]
           p == Peer(s)
           g == line[s][1].frame
           d == dispatch_frame(c, f)
           r == IF d.RETRANSMIT_PENDING THEN retransmit_outstanding(d) ELSE d
<1>1. Calm(c) /\ c.tx = << >> /\ Pair(c, st[p], line[p], line[s]) BY PairedFields
<1>2. line[s] \in Seq(Element) /\ line[p] \in Seq(Element) /\ Rested(c) BY LinkFields
<1>3. 1 \in 1 .. Len(line[s]) /\ g \in Frame BY <1>2, TailFields, FrameFields
<1>4. f.type = g.type /\ f.nr = g.nr /\ f.ns = g.ns BY <1>3 DEF Frame
<1>5. st[p].state = "CONNECTED" BY <1>1, <1>2, PairHead
<1>6. Both(c, st[p], line[p], line[s]) /\ st[p] \in Ctx /\ c \in Ctx
  BY <1>1, <1>5 DEF Pair, Half, Calm
<1>7. /\ ValidNr(c, g.nr)
      /\ Gain(c, line[s], 1) \in Nat
  BY <1>2, <1>6, BothValid
<1>8. Turns(c, f, r) /\ Speaks(r)
  <2>1. Numbered(f) BY <1>4 DEF Numbered
  <2>2. ~c.react BY <1>1 DEF Calm
  <2> QED BY <1>1, <1>2, <1>4, <1>7, <2>1, <2>2, CalmReceive
<1>9. Runs(s, r, 1) OBVIOUS
<1> HIDE DEF r, d
<1>10. Turns(c, g, r) BY <1>4, <1>8 DEF Turns
<1>11. Calm(r) /\ r.state = "CONNECTED" /\ r \in Ctx /\ r.tx \in Seq(Frame)
  BY <1>1, <1>8, CtxFields DEF Turns, Calm
<1>12. Pair(r, st[p], line[p], Tail(line[s])) BY <1>1, <1>2, <1>10, <1>11, PairTake
<1>13. Tail(line[s]) \in Seq(Element) BY <1>2, TailFields
<1>14. ASSUME NEW o, Written(o, r.tx)
       PROVE  Pair(r, st[Peer(s)], line[Peer(s)] \o o, Rest(line[s], 1))
  <2>1. Talks(r, r, o) BY <1>8, <1>11, <1>14, SpeaksTalks
  <2>2. Pair(r, st[p], line[p] \o o, Tail(line[s])) BY <1>2, <1>12, <1>13, <2>1, PairTalk
  <2> QED BY <2>2 DEF Rest
<1>15. /\ Paired' /\ st'[Peer(s)] = st[Peer(s)]
       /\ st'[s].state = r.state /\ SameCounts(r, st'[s])
  BY <1>9, <1>11, <1>14, RunsPaired
<1>16. Outstanding(r) <= Outstanding(c)
  <2>1. Outstanding(r) = Outstanding(c) - Gain(c, line[s], 1)
    BY <1>2, <1>6, <1>10, <1>11, TakeAcks DEF Turns, Both
  <2>2. Outstanding(c) \in Nat BY <1>6, OutstandingNat
  <2> QED BY <1>7, <2>1, <2>2
<1>17. \/ r.received = c.received
       \/ r.received = c.received + 1 /\ IsData(line[s], 1) /\ g.ns = c.vr
  <2>1. ASSUME g.type = "I", g.ns = c.vr PROVE r.received = c.received + 1
    <3>1. Both(st[p], c, line[s], line[p]) BY <1>6, BothSides
    <3>2. c.received < st[p].accepted BY <1>2, <1>6, <2>1, <3>1, BothNext DEF IsData
    <3>3. c.received \in Nat /\ st[p].accepted \in Nat /\ st[p].accepted < PayloadCount
      BY <1>6, Counts DEF Both
    <3>4. c.received + 1 \in 0 .. (PayloadCount - 1) BY <3>2, <3>3, Sizes
    <3>5. (c.received + 1) % PayloadCount = c.received + 1 BY <3>4, ModSmall, Sizes
    <3> QED BY <1>10, <2>1, <3>5 DEF Turns
  <2> QED BY <1>10, <2>1 DEF Turns, IsData
<1>18. Shape(c, st'[s], line[s])
  <2>1. Shape(c, r, line[s]) BY <1>10, <1>16, <1>17 DEF Shape, Turns
  <2> QED BY <1>15, <2>1 DEF Shape, SameCounts, Outstanding
<1>19. r.accepted = c.accepted BY <1>10 DEF Turns
<1> QED BY <1>11, <1>15, <1>18, <1>19 DEF Advances, Kept, Accepts, SameCounts

\* A call of data_in that begins the connection anew, or has yet to.
LEMMA OpenAdvances ==
  ASSUME LInv, LInv', Paired, NEW s \in Side, NEW r, Runs(s, r, 1), line[s] # << >>, Calm(r),
         \A o : Written(o, r.tx) => Pair(r, st[Peer(s)], line[Peer(s)] \o o, Tail(line[s])),
         st[s].state # "CONNECTED" \/ st[Peer(s)].state # "CONNECTED",
         r.state = st[s].state \/ r.state = "CONNECTED",
         r.state = "CONNECTED" => r.accepted = 0
  PROVE  Advances(s) /\ Accepts(s, 0)
<1>1. r.tx \in Seq(Frame) BY CtxFields DEF Calm
<1>2. \A o : Written(o, r.tx) => Pair(r, st[Peer(s)], line[Peer(s)] \o o, Rest(line[s], 1))
  BY DEF Rest
<1>3. /\ Paired' /\ st'[Peer(s)] = st[Peer(s)]
      /\ st'[s].state = r.state /\ SameCounts(r, st'[s])
  BY <1>1, <1>2, RunsPaired
<1> QED BY <1>3 DEF Advances, Accepts, SameCounts

LEMMA ReceiveAdvances ==
  ASSUME LInv, LInv', Paired, NEW s \in Side, Receive(s)
  PROVE  Advances(s) /\ (Kept(s) \/ Accepts(s, 0))
<1> DEFINE c == st[s]
           p == Peer(s)
           B == line[s]
           f == Heard(s)
           d == dispatch_frame(c, f)
<1>1. B # << >> BY DEF Receive
<1>2. /\ Calm(c) /\ c.tx = << >> /\ c \in Ctx /\ ~c.react /\ ~c.RETRANSMIT_PENDING
      /\ Pair(c, st[p], line[p], B) /\ B \in Seq(Element) /\ line[p] \in Seq(Element)
  BY LinkFields, PairedFields DEF Calm
<1>3. /\ Head(B) = B[1] /\ 1 \in 1 .. Len(B) /\ B[1].frame \in Frame
  BY <1>1, <1>2, TailFields, FrameFields
<1>4. f = [B[1].frame EXCEPT !.cmd = f.cmd] /\ f \in Frame
  <2>1. f = [B[1].frame EXCEPT !.cmd = (Head(B).address = s)] BY <1>3 DEF Heard
  <2> HIDE DEF f
  <2>2. f.cmd = (Head(B).address = s) BY <1>3, <2>1 DEF Frame
  <2> QED BY <1>3, <2>1, <2>2 DEF Frame
<1>5. f.type = B[1].frame.type /\ f.pf = B[1].frame.pf BY <1>3, <1>4 DEF Frame
<1>6. /\ Numbered(B[1].frame) => st[p].state = "CONNECTED"
      /\ IsSabm(B, 1) => st[p].state = "CONNECTING" /\ B[1].frame.pf
      /\ IsUa(B, 1) => c.state = "CONNECTING" /\ B[1].frame.pf
      /\ Usual(B[1].frame)
  BY <1>1, <1>2, PairHead
<1>7. LET h == IF HeardBy(s, Head(B).address) THEN d ELSE c
      IN Runs(s, IF h.RETRANSMIT_PENDING THEN retransmit_outstanding(h) ELSE h, 1)
  BY DEF Receive
<1>8. c.state \in {"DISCONNECTED", "CONNECTING", "CONNECTED"} BY <1>2 DEF Calm
\* Not heard, or not expected in this state.
<1>9. ASSUME Runs(s, c, 1) PROVE Advances(s) /\ (Kept(s) \/ Accepts(s, 0))
  <2>1. Advances(s) /\ Accepts(s, c.accepted) /\ st'[s].state = c.state
    BY <1>1, <1>9, IgnoreAdvances
  <2> QED BY <2>1 DEF Kept, Accepts
<1> HIDE DEF f, d
<1>10. CASE ~HeardBy(s, Head(B).address) BY <1>2, <1>7, <1>9, <1>10
<1>11. ASSUME HeardBy(s, Head(B).address)
       PROVE  Runs(s, IF d.RETRANSMIT_PENDING THEN retransmit_outstanding(d) ELSE d, 1)
  BY <1>7, <1>11
<1>12. ASSUME HeardBy(s, Head(B).address), Numbered(B[1].frame), c.state = "CONNECTED"
       PROVE  Advances(s) /\ Kept(s)
  BY <1>1, <1>4, <1>11, <1>12, TakeAdvances DEF d
<1>13. ASSUME HeardBy(s, Head(B).address), Numbered(B[1].frame), c.state # "CONNECTED"
       PROVE  Runs(s, c, 1)
  <2>1. d = c
    BY <1>5, <1>8, <1>13
    DEF d, dispatch_frame, state_disconnected, state_connecting, Numbered, SFrames
  <2> QED BY <1>2, <1>11, <1>13, <2>1
<1>14. ASSUME HeardBy(s, Head(B).address), IsSabm(B, 1), c.state # "CONNECTING"
       PROVE  Advances(s) /\ Accepts(s, 0)
  <2>1. f.type = "SABM" /\ f.pf = TRUE
    <3>1. f.pf BY <1>5, <1>6, <1>14
    <3>2. f.pf \in BOOLEAN BY <1>4 DEF Frame
    <3> QED BY <1>5, <1>14, <3>1, <3>2 DEF IsSabm
  <2>2. d = accept_sabm(c, f)
    BY <1>8, <1>14, <2>1
    DEF d, dispatch_frame, state_disconnected, state_connected, handle_uframe, is_iframe, is_sframe,
        is_uframe, SFrames
  <2>3. Started(d) /\ d.tx = <<Ua>> BY <1>2, <1>4, <2>1, <2>2, CalmAccept DEF Ua
  <2>4. ~d.RETRANSMIT_PENDING BY <1>2, <1>4, <2>2, AcceptPending DEF SamePending
  <2>5. Runs(s, d, 1) BY <1>11, <1>14, <2>4
  <2>6. Calm(d) /\ d.state = "CONNECTED" /\ d.accepted = 0 BY <2>3 DEF Started, Calm
  <2>7. ASSUME NEW o, Written(o, d.tx) PROVE Pair(d, st[p], line[p] \o o, Tail(B))
    BY <1>1, <1>2, <1>8, <1>14, <2>3, <2>6, <2>7, PairAgree
  <2> QED BY <1>1, <1>6, <1>14, <2>5, <2>6, <2>7, OpenAdvances
<1>15. ASSUME HeardBy(s, Head(B).address), IsSabm(B, 1), c.state = "CONNECTING"
       PROVE  Advances(s) /\ Accepts(s, 0)
  <2>1. f.type = "SABM" /\ f.pf = TRUE
    <3>1. f.pf BY <1>5, <1>6, <1>15
    <3>2. f.pf \in BOOLEAN BY <1>4 DEF Frame
    <3> QED BY <1>5, <1>15, <3>1, <3>2 DEF IsSabm
  <2>2. d = send_ua(c, TRUE) BY <1>15, <2>1 DEF d, dispatch_frame, state_connecting
  <2>3. Calm(d) /\ d.state = "CONNECTING" /\ d.tx = <<Ua>> /\ ~d.RETRANSMIT_PENDING
    BY <1>2, <1>15, <2>2, CalmCross
  <2>4. Runs(s, d, 1) BY <1>11, <1>15, <2>3
  <2>5. ASSUME NEW o, Written(o, d.tx) PROVE Pair(d, st[p], line[p] \o o, Tail(B))
    BY <1>1, <1>2, <1>15, <2>3, <2>5, PairCross
  <2> QED BY <1>1, <1>15, <2>3, <2>4, <2>5, OpenAdvances
<1>16. ASSUME HeardBy(s, Head(B).address), IsUa(B, 1)
       PROVE  Advances(s) /\ Accepts(s, 0)
  <2>1. f.type = "UA" /\ f.pf /\ c.state = "CONNECTING" BY <1>5, <1>6, <1>16 DEF IsUa
  <2>2. d = set_state(reset_state(c), "CONNECTED", "CONN_ACCEPTED")
    BY <2>1 DEF d, dispatch_frame, state_connecting
  <2>3. Started(d) /\ d.tx = << >> BY <1>2, <2>1, <2>2, CalmUp
  <2>4. ~d.RETRANSMIT_PENDING BY <1>2, <1>4, <2>2, AcceptPending DEF SamePending
  <2>5. Runs(s, d, 1) BY <1>11, <1>16, <2>4
  <2>6. Calm(d) /\ d.state = "CONNECTED" /\ d.accepted = 0 BY <2>3 DEF Started, Calm
  <2>7. Pair(d, st[p], line[p], Tail(B)) BY <1>1, <1>2, <1>16, <2>1, <2>3, <2>6, PairUp
  <2>8. ASSUME NEW o, Written(o, d.tx) PROVE Pair(d, st[p], line[p] \o o, Tail(B))
    <3>1. Len(d.tx) = 0 BY <2>3
    <3>2. o = << >> BY <2>8, <3>1, NoneAfter DEF Written
    <3>3. line[p] \o o = line[p] BY <1>2, <3>2, ConcatEmptySeq
    <3> QED BY <2>7, <3>3
  <2> QED BY <1>1, <2>1, <2>5, <2>6, <2>8, OpenAdvances
<1> QED
  BY <1>6, <1>9, <1>10, <1>12, <1>13, <1>14, <1>15, <1>16 DEF Usual, IsSabm, IsUa

--------------------------------------------------------------------------
(* The invariant.                                                         *)

\* What a side has sent and may still send stays within its bound.
Budget ==
  /\ left \in [sends : [Side -> Nat], calls : [Side -> Nat], losses : Nat, early : Nat]
  /\ left.early = 0
  /\ \A s \in Side : /\ left.sends[s] <= MaxSends[s]
                     /\ st[s].state = "CONNECTED" => st[s].accepted + left.sends[s] <= MaxSends[s]

SInv == LInv /\ Paired /\ Budget

LEMMA StreamInit ==
  ASSUME Streaming
  PROVE  Init => SInv
<1> SUFFICES ASSUME Init PROVE SInv OBVIOUS
<1>1. /\ \A s \in Side : st[s] = InitCtx /\ line[s] = << >> /\ Peer(s) \in Side
      /\ left = [sends |-> MaxSends, calls |-> MaxCalls, losses |-> MaxLosses, early |-> MaxEarly]
  BY PeerFacts DEF Init
<1>2. LInv BY LinkInit
<1>3. InitCtx.tx = << >> /\ InitCtx.state = "DISCONNECTED" BY DEF InitCtx
<1>4. Paired BY <1>1, <1>3, PairStart DEF Paired
<1>5. left.early = 0 /\ left.sends = MaxSends BY <1>1 DEF Streaming
<1>6. left \in [sends : [Side -> Nat], calls : [Side -> Nat], losses : Nat, early : Nat]
  BY <1>1, LinkAssumption
<1>7. \A s \in Side : MaxSends[s] <= MaxSends[s] BY LinkAssumption
<1>8. Budget BY <1>1, <1>3, <1>5, <1>6, <1>7 DEF Budget
<1> QED BY <1>2, <1>4, <1>8 DEF SInv

\* A call that accepts no frame, or starts from none accepted.
LEMMA BudgetKept ==
  ASSUME SInv, NEW s \in Side, Advances(s), Kept(s) \/ Accepts(s, 0),
         left' \in [sends : [Side -> Nat], calls : [Side -> Nat], losses : Nat, early : Nat],
         left'.sends = left.sends, left'.early = left.early
  PROVE  Budget'
<1>1. \A t \in Side : t = s \/ t = Peer(s) BY LinkFields DEF SInv
<1>2. /\ left'.early = 0 /\ \A t \in Side : left'.sends[t] <= MaxSends[t]
      /\ \A t \in Side : left.sends[t] \in Nat /\ MaxSends[t] \in Nat
  BY LinkAssumption DEF SInv, Budget
<1>3. ASSUME st'[s].state = "CONNECTED"
      PROVE  st'[s].accepted + left'.sends[s] <= MaxSends[s]
  <2>1. CASE Kept(s)
    <3>1. st'[s].accepted = st[s].accepted /\ st[s].state = "CONNECTED" BY <1>3, <2>1 DEF Kept, Accepts
    <3>2. st[s].accepted + left.sends[s] <= MaxSends[s] BY <3>1 DEF SInv, Budget
    <3> QED BY <3>1, <3>2
  <2>2. CASE Accepts(s, 0)
    <3>1. st'[s].accepted = 0 BY <1>3, <2>2 DEF Accepts
    <3>2. left.sends[s] <= MaxSends[s] /\ left.sends[s] \in Nat BY <1>2 DEF SInv, Budget
    <3>3. 0 + left.sends[s] = left.sends[s] BY <3>2
    <3> QED BY <3>1, <3>2, <3>3
  <2> QED BY <2>1, <2>2
<1>4. ASSUME st'[Peer(s)].state = "CONNECTED"
      PROVE  st'[Peer(s)].accepted + left'.sends[Peer(s)] <= MaxSends[Peer(s)]
  <2>1. st'[Peer(s)] = st[Peer(s)] BY DEF Advances
  <2>2. Peer(s) \in Side BY PeerFacts
  <2> QED BY <1>4, <2>1, <2>2 DEF SInv, Budget
<1>5. \A t \in Side : st'[t].state = "CONNECTED" => st'[t].accepted + left'.sends[t] <= MaxSends[t]
  BY <1>1, <1>3, <1>4
<1> QED BY <1>2, <1>5 DEF Budget

LEMMA BudgetSent ==
  ASSUME SInv, Streaming, NEW s \in Side, TransmitI(s)
  PROVE  /\ st[s].accepted + 1 < PayloadCount
         /\ Advances(s) /\ Accepts(s, st[s].accepted + 1) => Budget'
<1>1. /\ Peer(s) \in Side /\ Peer(s) # s /\ \A t \in Side : t = s \/ t = Peer(s)
      /\ st[s] \in Ctx
  BY LinkFields DEF SInv
<1>2. /\ st[s].state = "CONNECTED" /\ left.sends[s] > 0
      /\ left' = [left EXCEPT !.sends[s] = @ - 1]
  BY DEF TransmitI, CanTransmit
<1>3. st[s].accepted + left.sends[s] <= MaxSends[s] BY <1>2 DEF SInv, Budget
<1>4. /\ left.sends \in [Side -> Nat] /\ MaxSends \in [Side -> Nat] /\ st[s].accepted \in Nat
      /\ PayloadCount \in Nat
  BY <1>1, LinkAssumption, CtxFields, Sizes DEF SInv, Budget
<1>5. st[s].accepted + 1 < PayloadCount
  <2>1. MaxSends[s] < PayloadCount BY DEF Streaming
  <2>2. left.sends[s] \in Nat /\ MaxSends[s] \in Nat BY <1>4
  <2> QED BY <1>2, <1>3, <1>4, <2>1, <2>2
<1> DEFINE n == [left.sends EXCEPT ![s] = left.sends[s] - 1]
<1>6. /\ left'.sends = n /\ left'.early = left.early
      /\ left' \in [sends : [Side -> Nat], calls : [Side -> Nat], losses : Nat, early : Nat]
  <2>1. left' = [left EXCEPT !.sends = n] BY <1>2 DEF SInv, Budget
  <2>2. n \in [Side -> Nat]
    <3>1. left.sends[s] - 1 \in Nat BY <1>2, <1>4
    <3> QED BY <1>4, <3>1
  <2> HIDE DEF n
  <2> QED BY <2>1, <2>2 DEF SInv, Budget
<1>7. n[s] = left.sends[s] - 1 /\ n[Peer(s)] = left.sends[Peer(s)] BY <1>1, <1>4
<1> HIDE DEF n
<1>8. ASSUME Advances(s), Accepts(s, st[s].accepted + 1) PROVE Budget'
  <2>1. st'[Peer(s)] = st[Peer(s)] BY <1>8 DEF Advances
  <2>2. /\ n[Peer(s)] <= MaxSends[Peer(s)]
        /\ st'[Peer(s)].state = "CONNECTED" =>
             st'[Peer(s)].accepted + n[Peer(s)] <= MaxSends[Peer(s)]
    BY <1>1, <1>7, <2>1 DEF SInv, Budget
  <2>3. n[s] <= MaxSends[s]
    <3>1. left.sends[s] <= MaxSends[s] /\ left.sends[s] \in Nat /\ MaxSends[s] \in Nat
      BY <1>4 DEF SInv, Budget
    <3> QED BY <1>7, <3>1
  <2>4. ASSUME st'[s].state = "CONNECTED" PROVE st'[s].accepted + n[s] <= MaxSends[s]
    <3>1. st'[s].accepted = st[s].accepted + 1 BY <1>8, <2>4 DEF Accepts
    <3>2. left.sends[s] \in Nat /\ MaxSends[s] \in Nat BY <1>4
    <3> QED BY <1>3, <1>4, <1>7, <3>1, <3>2
  <2>5. \A t \in Side : /\ n[t] <= MaxSends[t]
                        /\ st'[t].state = "CONNECTED" => st'[t].accepted + n[t] <= MaxSends[t]
    BY <1>1, <2>2, <2>3, <2>4
  <2>6. left'.early = 0 BY <1>6 DEF SInv, Budget
  <2> QED BY <1>6, <2>5, <2>6 DEF Budget
<1> QED BY <1>5, <1>8

\* Every step is one station's.
LEMMA StreamStep ==
  ASSUME Streaming, SInv, LInv', Next
  PROVE  Budget' /\ \E s \in Side : Advances(s)
<1> DEFINE Typed(l) == l \in [sends : [Side -> Nat], calls : [Side -> Nat], losses : Nat, early : Nat]
<1>1. LInv /\ Paired /\ Budget /\ Typed(left) /\ left.early = 0 BY DEF SInv, Budget
<1>2. ASSUME NEW s \in Side, NEW name, NEW c, AppCall(s, name, c)
      PROVE  /\ name \in {"LinkSetup", "SetLocalBusy"}
             /\ Typed(left') /\ left'.sends = left.sends /\ left'.early = left.early
  <2>1. name \in Calls /\ left.calls[s] > 0 /\ left' = [left EXCEPT !.calls[s] = @ - 1]
    BY <1>2 DEF AppCall
  <2>2. left.calls[s] - 1 \in Nat
    <3>1. left.calls[s] \in Nat BY <1>1
    <3> QED BY <2>1, <3>1
  <2>3. [left.calls EXCEPT ![s] = left.calls[s] - 1] \in [Side -> Nat] BY <1>1, <2>2
  <2>4. left' = [left EXCEPT !.calls = [left.calls EXCEPT ![s] = left.calls[s] - 1]] BY <1>1, <2>1
  <2> QED BY <1>1, <2>1, <2>3, <2>4 DEF Streaming
<1>3. ASSUME NEW s \in Side, LinkSetup(s) PROVE Budget' /\ Advances(s)
  <2>1. Advances(s) /\ Accepts(s, 0) BY <1>1, <1>3, SetupAdvances
  <2>2. AppCall(s, "LinkSetup", link_setup(st[s])) BY <1>3 DEF LinkSetup
  <2> QED BY <1>2, <2>1, <2>2, BudgetKept
<1>4. ASSUME NEW s \in Side, SetLocalBusy(s) PROVE Budget' /\ Advances(s)
  <2>1. Advances(s) /\ Kept(s) BY <1>1, <1>4, BusyAdvances
  <2>2. AppCall(s, "SetLocalBusy", set_local_busy(st[s], ~st[s].LOCAL_BUSY))
    BY <1>4 DEF SetLocalBusy
  <2> QED BY <1>2, <2>1, <2>2, BudgetKept
<1>5. ASSUME NEW s \in Side, Disconnect(s) \/ LinkReset(s) \/ Abort(s) PROVE FALSE
  BY <1>2, <1>5 DEF Disconnect, LinkReset, Abort
<1>6. ASSUME NEW s \in Side, TransmitI(s) PROVE Budget' /\ Advances(s)
  <2>1. st[s].accepted + 1 < PayloadCount BY <1>6, BudgetSent
  <2>2. Advances(s) /\ Accepts(s, st[s].accepted + 1) BY <1>1, <1>6, <2>1, TransmitAdvances
  <2> QED BY <1>6, <2>2, BudgetSent
<1>7. ASSUME NEW s \in Side, Receive(s) PROVE Budget' /\ Advances(s)
  <2>1. Advances(s) /\ (Kept(s) \/ Accepts(s, 0)) BY <1>1, <1>7, ReceiveAdvances
  <2>2. left' = left BY <1>7 DEF Receive
  <2> QED BY <1>1, <2>1, <2>2, BudgetKept
<1>8. ASSUME NEW s \in Side, Lose(s) PROVE Budget' /\ Advances(s)
  <2>1. Advances(s) /\ st' = st BY <1>1, <1>8, LoseAdvances
  <2>2. left.losses > 0 /\ left' = [left EXCEPT !.losses = @ - 1] BY <1>8 DEF Lose
  <2>3. left.losses - 1 \in Nat BY <1>1, <2>2
  <2>4. Typed(left') /\ left'.sends = left.sends /\ left'.early = left.early
    BY <1>1, <2>2, <2>3
  <2> QED BY <1>1, <2>1, <2>4 DEF Budget
<1>9. ASSUME NEW s \in Side, T1Expired(s) PROVE Budget' /\ Advances(s)
  <2>1. Advances(s) /\ (Kept(s) \/ Accepts(s, 0)) BY <1>1, <1>9, T1Advances
  <2>2. left' = left BY <1>9 DEF T1Expired
  <2> QED BY <1>1, <2>1, <2>2, BudgetKept
<1>10. ASSUME NEW s \in Side, T1Early(s) PROVE FALSE BY <1>1, <1>10 DEF T1Early
<1>11. ASSUME NEW s \in Side, T2Expired(s) PROVE Budget' /\ Advances(s)
  <2>1. Advances(s) /\ Kept(s) BY <1>1, <1>11, T2Advances
  <2>2. left' = left BY <1>11 DEF T2Expired
  <2> QED BY <1>1, <2>1, <2>2, BudgetKept
<1> QED BY <1>3, <1>4, <1>5, <1>6, <1>7, <1>8, <1>9, <1>10, <1>11 DEF Next

LEMMA StreamInvariance ==
  ASSUME Streaming
  PROVE  Spec => []SInv
<1>1. Init => SInv BY StreamInit
<1>2. SInv /\ [Next]_vars => SInv'
  <2> SUFFICES ASSUME SInv, [Next]_vars PROVE SInv' OBVIOUS
  <2>1. LInv' BY LinkNext DEF SInv
  <2>2. CASE Next
    <3>1. Budget' /\ \E s \in Side : Advances(s) BY <2>1, <2>2, StreamStep
    <3> QED BY <2>1, <3>1 DEF Advances, SInv
  <2>3. CASE UNCHANGED vars
    <3>1. st' = st /\ line' = line /\ left' = left BY <2>3 DEF vars
    <3> QED BY <2>1, <3>1 DEF SInv, Paired, Budget
  <2> QED BY <2>2, <2>3
<1> QED BY <1>1, <1>2, PTL DEF Spec

--------------------------------------------------------------------------
(* What a step does while both ends are connected.                        *)

\* One station moves, both ends fit before and after.
LEMMA UpStep ==
  ASSUME SInv, Up, NEW s \in Side, Advances(s)
  PROVE  /\ Both(st[s], st[Peer(s)], line[Peer(s)], line[s])
         /\ Both(st[Peer(s)], st[s], line[s], line[Peer(s)])
         /\ Shape(st[s], st'[s], line[s]) /\ st'[Peer(s)] = st[Peer(s)]
         /\ st[s] \in Ctx /\ st[Peer(s)] \in Ctx /\ st'[s] \in Ctx
         /\ line[s] \in Seq(Element) /\ line[Peer(s)] \in Seq(Element)
         /\ Up' => Both(st'[s], st'[Peer(s)], line'[Peer(s)], line'[s])
<1>1. LInv /\ Paired /\ Peer(s) \in Side BY PeerFacts DEF SInv
<1>2. st[s].state = "CONNECTED" /\ st[Peer(s)].state = "CONNECTED" BY <1>1 DEF Up
<1>3. Both(st[s], st[Peer(s)], line[Peer(s)], line[s]) BY <1>1, <1>2, PairedFields DEF Pair, Half
<1>4. Pair(st'[s], st'[Peer(s)], line'[Peer(s)], line'[s]) BY DEF Advances, Paired
<1>5. Up' => Both(st'[s], st'[Peer(s)], line'[Peer(s)], line'[s])
  BY <1>1, <1>4 DEF Up, Pair, Half
<1>6. st'[s] \in Ctx BY <1>4 DEF Pair, Half, Calm
<1>7. /\ st[s] \in Ctx /\ st[Peer(s)] \in Ctx
      /\ line[s] \in Seq(Element) /\ line[Peer(s)] \in Seq(Element)
  BY <1>1, LinkFields
<1> QED BY <1>2, <1>3, <1>5, <1>6, <1>7, BothSides DEF Advances

LEMMA OrderStep ==
  ASSUME SInv, Up, NEW s \in Side, Advances(s), NEW t \in Side,
         st'[t].received = st[t].received + 1
  PROVE  Head(line[t]).frame.info = st[t].received
<1>1. /\ Both(st[Peer(s)], st[s], line[s], line[Peer(s)])
      /\ Shape(st[s], st'[s], line[s]) /\ st'[Peer(s)] = st[Peer(s)]
      /\ st[s] \in Ctx /\ st[Peer(s)] \in Ctx /\ line[s] \in Seq(Element)
  BY UpStep
<1>2. st[s].received \in Nat /\ st[Peer(s)].received \in Nat BY <1>1, CtxFields, Sizes
<1>3. t = s \/ t = Peer(s) BY LinkFields DEF SInv
<1>4. t = s
  <2>1. ASSUME t = Peer(s) PROVE FALSE
    <3>1. st[Peer(s)].received = st[Peer(s)].received + 1 BY <1>1, <2>1
    <3> QED BY <1>2, <3>1
  <2> QED BY <1>3, <2>1
<1>5. line[s] # << >> /\ IsData(line[s], 1) /\ line[s][1].frame.ns = st[s].vr
  <2>1. st'[s].received = st[s].received + 1 BY <1>4
  <2>2. st'[s].received # st[s].received /\ st'[s].received # 0 BY <1>2, <2>1
  <2> QED BY <1>1, <2>2 DEF Shape
<1>6. line[s][1].frame.info = st[s].received BY <1>1, <1>5, BothNext
<1>7. Head(line[s]) = line[s][1] BY <1>1, <1>5, TailFields
<1> QED BY <1>4, <1>6, <1>7

\* What one direction shows of a step: c is the station that moves.
LEMMA CountStep ==
  ASSUME SInv, Up, NEW s \in Side, Advances(s), Up'
  PROVE  LET c == st[s]
             r == st'[s]
             d == st[Peer(s)]
         IN /\ c.accepted \in Nat /\ c.received \in Nat /\ d.accepted \in Nat /\ d.received \in Nat
            /\ Confirmed(c) \in Nat /\ Confirmed(r) \in Nat /\ Confirmed(d) \in Nat
            \* what c sends
            /\ \/ r.accepted = c.accepted + 1 /\ Confirmed(r) = Confirmed(c)
               \/ r.accepted = c.accepted /\ Confirmed(c) <= Confirmed(r) /\ Confirmed(r) <= d.received
            \* what c receives
            /\ \/ r.received = c.received
               \/ r.received = c.received + 1 /\ c.received < d.accepted
<1> DEFINE c == st[s]
           r == st'[s]
           d == st[Peer(s)]
<1>1. /\ Both(c, d, line[Peer(s)], line[s]) /\ Both(d, c, line[s], line[Peer(s)])
      /\ Shape(c, r, line[s]) /\ st'[Peer(s)] = d
      /\ c \in Ctx /\ d \in Ctx /\ r \in Ctx
      /\ line[s] \in Seq(Element)
      /\ Both(r, d, line'[Peer(s)], line'[s])
  BY UpStep
<1>2. r.state = "CONNECTED" BY DEF Up
<1> HIDE DEF c, d, r
<1>3. /\ c.accepted \in Nat /\ c.received \in Nat /\ Outstanding(c) \in Nat /\ Confirmed(c) \in Nat
      /\ d.accepted \in Nat /\ d.received \in Nat /\ Confirmed(d) \in Nat
      /\ r.accepted \in Nat /\ Outstanding(r) \in Nat /\ Confirmed(r) \in Nat
  BY <1>1, Counts DEF Both
<1>4. Confirmed(r) <= d.received BY <1>1 DEF Both, Flow, Meets
<1>5. \/ r.accepted = c.accepted + 1 /\ Confirmed(r) = Confirmed(c)
      \/ r.accepted = c.accepted /\ Confirmed(c) <= Confirmed(r) /\ Confirmed(r) <= d.received
  <2>1. \/ r.accepted = c.accepted + 1 /\ Outstanding(r) = Outstanding(c) + 1
        \/ r.accepted = c.accepted /\ Outstanding(r) <= Outstanding(c)
    BY <1>1, <1>2 DEF Shape
  <2>2. ASSUME r.accepted = c.accepted + 1, Outstanding(r) = Outstanding(c) + 1
        PROVE  Confirmed(r) = Confirmed(c)
    BY <1>3, <2>2 DEF Confirmed
  <2>3. ASSUME r.accepted = c.accepted, Outstanding(r) <= Outstanding(c)
        PROVE  Confirmed(c) <= Confirmed(r)
    BY <1>3, <2>3 DEF Confirmed
  <2> QED BY <1>4, <2>1, <2>2, <2>3
<1>6. \/ r.received = c.received
      \/ r.received = c.received + 1 /\ c.received < d.accepted
  <2>1. \/ r.received = c.received
        \/ /\ r.received = c.received + 1
           /\ line[s] # << >> /\ IsData(line[s], 1) /\ line[s][1].frame.ns = c.vr
    BY <1>1, <1>2 DEF Shape
  <2>2. ASSUME line[s] # << >>, IsData(line[s], 1), line[s][1].frame.ns = c.vr
        PROVE  c.received < d.accepted
    BY <1>1, <2>2, BothNext
  <2> QED BY <2>1, <2>2
<1> QED BY <1>3, <1>5, <1>6 DEF c, d, r

\* The same of the direction from a to b.
LEMMA StreamStepOf ==
  ASSUME SInv, Up, NEW s \in Side, Advances(s), Up', NEW a \in Side, NEW b \in Side, b = Peer(a)
  PROVE  \/ /\ st'[a].accepted = st[a].accepted + 1
            /\ st'[b].received = st[b].received /\ Acked(a)' = Acked(a)
         \/ /\ st[b].received < st[a].accepted /\ st'[b].received = st[b].received + 1
            /\ st'[a].accepted = st[a].accepted /\ Acked(a)' = Acked(a)
         \/ /\ Acked(a) < Acked(a)' /\ Acked(a)' <= st[b].received
            /\ st'[a].accepted = st[a].accepted /\ st'[b].received = st[b].received
         \/ /\ st'[a].accepted = st[a].accepted /\ st'[b].received = st[b].received
            /\ Acked(a)' = Acked(a)
<1>1. /\ Peer(s) \in Side /\ Peer(s) # s /\ Peer(Peer(s)) = s /\ (a = s \/ a = Peer(s))
  BY LinkFields DEF SInv
<1>2. st'[Peer(s)] = st[Peer(s)] BY DEF Advances
<1>3. /\ Acked(a) = Confirmed(st[a]) /\ Acked(a)' = Confirmed(st'[a])
  BY DEF Acked, Confirmed, Outstanding
<1>4. CASE a = s
  <2>1. b = Peer(s) BY <1>4
  <2>2. st'[b].received = st[b].received BY <1>2, <2>1
  <2>3. /\ Confirmed(st[a]) \in Nat /\ Confirmed(st'[a]) \in Nat
        /\ \/ st'[a].accepted = st[a].accepted + 1 /\ Confirmed(st'[a]) = Confirmed(st[a])
           \/ /\ st'[a].accepted = st[a].accepted
              /\ Confirmed(st[a]) <= Confirmed(st'[a]) /\ Confirmed(st'[a]) <= st[b].received
    BY <1>4, <2>1, CountStep
  <2> QED BY <1>3, <2>2, <2>3
<1>5. CASE a = Peer(s)
  <2>1. b = s BY <1>1, <1>5
  <2>2. st'[a] = st[a] BY <1>2, <1>5
  <2>3. \/ st'[b].received = st[b].received
        \/ st'[b].received = st[b].received + 1 /\ st[b].received < st[a].accepted
    BY <1>5, <2>1, CountStep
  <2>4. st'[a].accepted = st[a].accepted /\ Acked(a)' = Acked(a) BY <1>3, <2>2
  <2> QED BY <2>3, <2>4
<1> QED BY <1>1, <1>4, <1>5

\* Both ends up, each direction is consistent.
LEMMA UpMeets ==
  ASSUME Paired', Up', NEW a \in Side
  PROVE  Acked(a)' <= st'[Peer(a)].received /\ st'[Peer(a)].received <= st'[a].accepted
<1>1. Peer(a) \in Side BY PeerFacts
<1>2. Pair(st'[a], st'[Peer(a)], line'[Peer(a)], line'[a]) BY DEF Paired
<1>3. Both(st'[a], st'[Peer(a)], line'[Peer(a)], line'[a]) BY <1>1, <1>2 DEF Pair, Half, Up
<1>4. Meets(st'[a], st'[Peer(a)]) BY <1>3 DEF Both, Flow
<1>5. Acked(a)' = Confirmed(st'[a]) BY DEF Acked, Confirmed, Outstanding
<1> QED BY <1>4, <1>5 DEF Meets

LEMMA StreamStarts == Init => ~Up /\ \A s \in Side : /\ st[s].accepted = 0 /\ st[s].received = 0
                                                     /\ Acked(s) = 0
<1> SUFFICES ASSUME Init PROVE ~Up /\ \A s \in Side : /\ st[s].accepted = 0 /\ st[s].received = 0
                                                      /\ Acked(s) = 0
  OBVIOUS
<1>1. \A s \in Side : st[s] = InitCtx BY DEF Init
<1>2. /\ InitCtx.accepted = 0 /\ InitCtx.received = 0 /\ InitCtx.state = "DISCONNECTED"
      /\ InitCtx.vs = 0 /\ InitCtx.va = 0
  BY DEF InitCtx
<1>3. Outstanding(InitCtx) = 0 BY <1>2, ModulusAssumption DEF Outstanding, Dist
<1>4. 1 \in Side BY DEF Side
<1> QED BY <1>1, <1>2, <1>3, <1>4 DEF Up, Acked

--------------------------------------------------------------------------
(* The theorems.                                                          *)

\* Between two applications that only set the link up, send and change their
\* busy condition, the frame handed to on_data while both ends are connected
\* is the next one the peer accepted: no gap, no repetition, no slot mixed up,
\* for every window, every number of lost frames and every retry limit.
THEOREM InOrderSafe ==
  ASSUME Streaming
  PROVE  Spec => InOrder
<1>1. SInv /\ SInv' /\ [Next]_vars =>
        [\A s \in Side :
           Up /\ st'[s].received = st[s].received + 1
             => Head(line[s]).frame.info = st[s].received]_vars
  <2> SUFFICES ASSUME SInv, SInv', Next, Up, NEW t \in Side, st'[t].received = st[t].received + 1
               PROVE  Head(line[t]).frame.info = st[t].received
    OBVIOUS
  <2>1. PICK s \in Side : Advances(s) BY StreamStep DEF SInv
  <2> QED BY <2>1, OrderStep
<1> QED BY <1>1, StreamInvariance, PTL DEF Spec, InOrder

\* Each direction of such a link is a reliable stream: what the sender holds
\* acknowledged has been delivered, what is delivered was accepted, and the
\* counts move one frame at a time (transmit_i, handle_iframe, process_nr,
\* handle_rej and retransmit_outstanding at both ends, over any losses).
THEOREM StreamForthSafe ==
  ASSUME Streaming
  PROVE  Spec => StreamForth
<1>1. Init => Forth!Init
  <2>1. 1 \in Side /\ 2 \in Side BY DEF Side
  <2> QED BY <2>1, StreamStarts DEF Forth!Init
<1>2. SInv /\ SInv' /\ [Next]_vars => [Forth!Next]_Forth!vars
  <2> SUFFICES ASSUME SInv, SInv', [Next]_vars PROVE Forth!Next \/ UNCHANGED Forth!vars
    OBVIOUS
  <2>1. 1 \in Side /\ 2 \in Side /\ Peer(1) = 2 BY DEF Side, Peer
  <2>2. CASE UNCHANGED vars
    BY <2>2 DEF vars, Forth!vars, Up, Acked, Outstanding
  <2>3. CASE Next /\ ~Up' BY <2>3 DEF Forth!Next, Forth!Down
  <2>4. CASE Next /\ ~Up /\ Up'
    <3>1. Acked(1)' <= st'[2].received /\ st'[2].received <= st'[1].accepted
      BY <2>1, <2>4, UpMeets DEF SInv
    <3> QED BY <2>4, <3>1 DEF Forth!Next, Forth!Connect, Forth!Consistent
  <2>5. CASE Next /\ Up /\ Up'
    <3>1. PICK s \in Side : Advances(s) BY <2>5, StreamStep DEF SInv
    <3>2. \/ /\ st'[1].accepted = st[1].accepted + 1
             /\ st'[2].received = st[2].received /\ Acked(1)' = Acked(1)
          \/ /\ st[2].received < st[1].accepted /\ st'[2].received = st[2].received + 1
             /\ st'[1].accepted = st[1].accepted /\ Acked(1)' = Acked(1)
          \/ /\ Acked(1) < Acked(1)' /\ Acked(1)' <= st[2].received
             /\ st'[1].accepted = st[1].accepted /\ st'[2].received = st[2].received
          \/ /\ st'[1].accepted = st[1].accepted /\ st'[2].received = st[2].received
             /\ Acked(1)' = Acked(1)
      BY <2>1, <2>5, <3>1, StreamStepOf
    <3> QED BY <2>5, <3>2 DEF Forth!Next, Forth!vars, Forth!Accept, Forth!Deliver, Forth!Confirm
  <2> QED BY <2>2, <2>3, <2>4, <2>5
<1> QED BY <1>1, <1>2, StreamInvariance, PTL DEF Spec, StreamForth, Forth!Spec

\* The same in the other direction, at the same time and on the same lines.
THEOREM StreamBackSafe ==
  ASSUME Streaming
  PROVE  Spec => StreamBack
<1>1. Init => Back!Init
  <2>1. 1 \in Side /\ 2 \in Side BY DEF Side
  <2> QED BY <2>1, StreamStarts DEF Back!Init
<1>2. SInv /\ SInv' /\ [Next]_vars => [Back!Next]_Back!vars
  <2> SUFFICES ASSUME SInv, SInv', [Next]_vars PROVE Back!Next \/ UNCHANGED Back!vars
    OBVIOUS
  <2>1. 1 \in Side /\ 2 \in Side /\ Peer(2) = 1 BY DEF Side, Peer
  <2>2. CASE UNCHANGED vars
    BY <2>2 DEF vars, Back!vars, Up, Acked, Outstanding
  <2>3. CASE Next /\ ~Up' BY <2>3 DEF Back!Next, Back!Down
  <2>4. CASE Next /\ ~Up /\ Up'
    <3>1. Acked(2)' <= st'[1].received /\ st'[1].received <= st'[2].accepted
      BY <2>1, <2>4, UpMeets DEF SInv
    <3> QED BY <2>4, <3>1 DEF Back!Next, Back!Connect, Back!Consistent
  <2>5. CASE Next /\ Up /\ Up'
    <3>1. PICK s \in Side : Advances(s) BY <2>5, StreamStep DEF SInv
    <3>2. \/ /\ st'[2].accepted = st[2].accepted + 1
             /\ st'[1].received = st[1].received /\ Acked(2)' = Acked(2)
          \/ /\ st[1].received < st[2].accepted /\ st'[1].received = st[1].received + 1
             /\ st'[2].accepted = st[2].accepted /\ Acked(2)' = Acked(2)
          \/ /\ Acked(2) < Acked(2)' /\ Acked(2)' <= st[1].received
             /\ st'[2].accepted = st[2].accepted /\ st'[1].received = st[1].received
          \/ /\ st'[2].accepted = st[2].accepted /\ st'[1].received = st[1].received
             /\ Acked(2)' = Acked(2)
      BY <2>1, <2>5, <3>1, StreamStepOf
    <3> QED BY <2>5, <3>2 DEF Back!Next, Back!vars, Back!Accept, Back!Deliver, Back!Confirm
  <2> QED BY <2>2, <2>3, <2>4, <2>5
<1> QED BY <1>1, <1>2, StreamInvariance, PTL DEF Spec, StreamBack, Back!Spec

\* With no limit on the retries, neither end of such a connection ever gives
\* it up or sends an FRMR, however many frames are lost: no N(R) outside the
\* window, no stray UA, no request out of turn (handle_iframe, handle_sframe,
\* handle_uframe, t1_expired).
THEOREM StaysUpSafe ==
  ASSUME Streaming, MaxRetries = 0
  PROVE  Spec => StaysUp
<1>1. SInv /\ SInv' /\ [Next]_vars =>
        [Up => \A s \in Side :
                 st'[s].state \in {"CONNECTED", "DISCONNECTING"} /\ ~st'[s].frmrSent]_vars
  <2> SUFFICES ASSUME SInv, SInv', Next, Up, NEW t \in Side
               PROVE  st'[t].state = "CONNECTED" /\ ~st'[t].frmrSent
    OBVIOUS
  <2>1. PICK s \in Side : Advances(s) BY StreamStep DEF SInv
  <2>2. t = s \/ t = Peer(s) BY <2>1, LinkFields DEF SInv
  <2>3. st'[s].state = "CONNECTED" /\ st'[Peer(s)] = st[Peer(s)] BY <2>1 DEF Up, Advances
  <2>4. st'[t].state = "CONNECTED" BY <2>2, <2>3 DEF Up
  <2>5. ~st'[t].frmrSent BY DEF SInv, Paired, Pair, Half, Calm
  <2> QED BY <2>4, <2>5
<1> QED BY <1>1, StreamInvariance, PTL DEF Spec, StaysUp

\* Nor is such a connection ever half open: when nothing is under way and no T1
\* runs, both ends agree on whether there is one (the handlers of SABM and UA,
\* with requests that cross).
THEOREM AgreementSafe ==
  ASSUME Streaming, MaxRetries = 0
  PROVE  Spec => []Agreement
<1>1. SInv => Agreement
  <2> SUFFICES ASSUME SInv, \A s \in Side : ~st[s].T1_ACTIVE
               PROVE  st[1].state = "CONNECTED" <=> st[2].state = "CONNECTED"
    BY DEF Agreement
  <2>1. 1 \in Side /\ 2 \in Side /\ Peer(1) = 2 /\ Peer(2) = 1 BY DEF Side, Peer
  <2>2. \A s \in Side : Half(st[s], st[Peer(s)], line[Peer(s)], line[s]) BY DEF SInv, Paired, Pair
  <2>3. \A s \in Side : st[s].state \in {"DISCONNECTED", "CONNECTED"} BY <2>2 DEF Half, Calm
  <2>4. \A s \in Side : st[s].state = "CONNECTED" => st[Peer(s)].state # "DISCONNECTED"
    BY <2>2 DEF Half
  <2> QED BY <2>1, <2>3, <2>4
<1> QED BY <1>1, StreamInvariance, PTL

==========================================================================
