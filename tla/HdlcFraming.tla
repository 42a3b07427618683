----------------------------- MODULE HdlcFraming -----------------------------
(***************************************************************************)
(* Octets: how a frame is written to the line (hdlc_frame.h, hdlc_out.c)   *)
(* and how it is found again (rx_byte and handle_flag of hdlc_in.c), as    *)
(* operators on the sending and on the receiving half of the context.  The *)
(* checksum driver (params.crc) is a parameter.                            *)
(***************************************************************************)
EXTENDS Integers, Sequences, SequencesExt

CONSTANTS
  CrcUpdate(_, _),  \* ctx->crc->compute on one octet
  my_address,       \* of the receiving station
  peer_address,     \* as the receiving station knows it; 0 if it was never told
  Capacity          \* rx_buf->capacity

Octet     == 0 .. 255
Word      == 256 * 256       \* values of an atc_hdlc_u16
U16       == 0 .. (Word - 1)
BROADCAST == 255

\* The bound atc_hdlc_init checks on the receive buffer.
ASSUME FramingAssumption ==
  /\ my_address \in Octet /\ peer_address \in Octet
  /\ Capacity \in Nat /\ Capacity >= 4

FLAG           == 126
ESC            == 125
FCS_LEN        == 2
MIN_FRAME_LEN  == 4
FCS_INIT_VALUE == Word - 1

\* An octet with the bit of XOR_MASK inverted.
XorMask(b) == IF (b \div 32) % 2 = 1 THEN b - 32 ELSE b + 32

\* The driver returns an atc_hdlc_u16.
compute(crc, b) == CrcUpdate(crc, b) % Word

--------------------------------------------------------------------------
(* Sending.  A sender is the running tx_crc and the octets the current     *)
(* call has handed to on_send.                                             *)

put_escaped(b) == IF b \in {FLAG, ESC} THEN <<ESC, XorMask(b)>> ELSE <<b>>

emit(t, b) == [tx_crc |-> compute(t.tx_crc, b), octets |-> t.octets \o put_escaped(b)]

frame_begin(address, ctrl) ==
  emit(emit([tx_crc |-> FCS_INIT_VALUE, octets |-> <<FLAG>>], address), ctrl)

frame_end(t) ==
  [t EXCEPT !.octets = @ \o put_escaped(t.tx_crc % 256) \o put_escaped(t.tx_crc \div 256)
                         \o <<FLAG>>]

\* The loop of frame_send: what has been sent after n octets of the payload.
sending(f) ==
  LET sent[n \in 0 .. Len(f.info)] ==
        IF n = 0 THEN frame_begin(f.address, f.ctrl) ELSE emit(sent[n - 1], f.info[n])
  IN sent

frame_send(f) == frame_end(sending(f)[Len(f.info)])

--------------------------------------------------------------------------
(* Receiving.  A receiver is the parser's state, the octets of rx_buf      *)
(* below rx_index (so rx_index is their number) and the running rx_crc.    *)

RxStates == {"HUNT", "ADDR", "DATA", "ESC"}

Fresh(state) == [rx_state |-> state, buffer |-> << >>, rx_crc |-> FCS_INIT_VALUE]

rx_index(p) == Len(p.buffer)
dlen(p)     == rx_index(p) - FCS_LEN
rx_fcs(p)   == p.buffer[dlen(p) + 1] + (256 * p.buffer[dlen(p) + 2])

\* What handle_flag hands to dispatch_frame; info_len has sixteen bits.
FrameIn(p) ==
  [address |-> p.buffer[1], ctrl |-> p.buffer[2],
   info |-> SubSeq(p.buffer, 3, 2 + ((dlen(p) - 2) % Word))]

\* Mutant of AcceptedByFlag: the checksum is not compared.
AcceptedByFlagUnchecked(p) == p.rx_state # "HUNT" /\ rx_index(p) >= MIN_FRAME_LEN

AcceptedByFlag(p) ==
  /\ p.rx_state # "HUNT"
  /\ rx_index(p) >= MIN_FRAME_LEN
  /\ p.rx_crc = rx_fcs(p)

\* Mutant of Store: the end of the buffer is not tested.
StoreUnbounded(p, b) ==
  LET buffer == Append(p.buffer, b)
  IN IF rx_index(p) = 0 /\ b \notin {my_address, peer_address, BROADCAST}
     THEN Fresh("HUNT")
     ELSE [rx_state |-> IF rx_index(p) = 0 THEN "DATA" ELSE p.rx_state,
           buffer   |-> buffer,
           rx_crc   |-> IF rx_index(p) >= FCS_LEN
                        THEN compute(p.rx_crc, buffer[rx_index(p) - FCS_LEN + 1])
                        ELSE p.rx_crc]

\* Mutant of Store: the checksum starts one octet too late.
StoreCrcLate(p, b) ==
  LET buffer == Append(p.buffer, b)
  IN IF \/ rx_index(p) >= Capacity
        \/ rx_index(p) = 0 /\ b \notin {my_address, peer_address, BROADCAST}
     THEN Fresh("HUNT")
     ELSE [rx_state |-> IF rx_index(p) = 0 THEN "DATA" ELSE p.rx_state,
           buffer   |-> buffer,
           rx_crc   |-> IF rx_index(p) > FCS_LEN
                        THEN compute(p.rx_crc, buffer[rx_index(p) - FCS_LEN + 1])
                        ELSE p.rx_crc]

\* An octet of the frame, unescaped, goes to the buffer; the checksum runs
\* FCS_LEN octets behind.
Store(p, b) ==
  LET buffer == Append(p.buffer, b)
  IN IF \/ rx_index(p) >= Capacity
        \/ rx_index(p) = 0 /\ b \notin {my_address, peer_address, BROADCAST}
     THEN Fresh("HUNT")
     ELSE [rx_state |-> IF rx_index(p) = 0 THEN "DATA" ELSE p.rx_state,
           buffer   |-> buffer,
           rx_crc   |-> IF rx_index(p) >= FCS_LEN
                        THEN compute(p.rx_crc, buffer[rx_index(p) - FCS_LEN + 1])
                        ELSE p.rx_crc]

\* Mutant of rx_byte: the flag that ends a frame does not start the next.
rx_byte_flag_ends(p, b) ==
  CASE b = FLAG -> Fresh(IF p.rx_state = "HUNT" THEN "ADDR" ELSE "HUNT")
    [] b # FLAG /\ p.rx_state = "HUNT" -> p
    [] b = ESC  /\ p.rx_state # "HUNT" -> [p EXCEPT !.rx_state = "ESC"]
    [] b \notin {FLAG, ESC} /\ p.rx_state = "ESC" ->
         Store([p EXCEPT !.rx_state = "DATA"], XorMask(b))
    [] OTHER -> Store(p, b)

rx_byte(p, b) ==
  CASE b = FLAG -> Fresh("ADDR")
    [] b # FLAG /\ p.rx_state = "HUNT" -> p
    [] b = ESC  /\ p.rx_state # "HUNT" -> [p EXCEPT !.rx_state = "ESC"]
    [] b \notin {FLAG, ESC} /\ p.rx_state = "ESC" ->
         Store([p EXCEPT !.rx_state = "DATA"], XorMask(b))
    [] OTHER -> Store(p, b)

\* The frames one octet dispatches: one at most.
Dispatched(p, b) == IF b = FLAG /\ AcceptedByFlag(p) THEN <<FrameIn(p)>> ELSE << >>

==========================================================================
