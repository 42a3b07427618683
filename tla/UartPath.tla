------------------------------- MODULE UartPath -------------------------------
(***************************************************************************)
(* Frames from one station to the main loop of another: the sender writes  *)
(* octets, the line damages some, the receive interrupt puts them into the *)
(* ring of the bare-metal template and the main loop drains the ring into  *)
(* the parser.  The interrupt comes between any two steps of the loop.     *)
(*                                                                         *)
(* A call of the sender starts when the line has taken the octets of the   *)
(* call before: the receiver cannot tell.                                  *)
(***************************************************************************)
EXTENDS HdlcFraming

CONSTANTS
  RX_RING_SIZE,
  FrameSet,      \* frames sent by a call of their own
  StreamFrames,  \* UI frames sent by transmit_ui_start, _data and _end
  Noise,         \* octets the line makes up
  MaxFrames, MaxFaults   \* how often either happens

ASSUME RingAssumption == RX_RING_SIZE \in Nat /\ RX_RING_SIZE >= 2
ASSUME NoiseAssumption == Noise \subseteq Octet
ASSUME BoundAssumption == MaxFrames \in Nat /\ MaxFaults \in Nat
ASSUME FrameAssumption ==
  \A f \in FrameSet \cup StreamFrames :
    f \in [address : Octet, ctrl : Octet, info : Seq(Octet)]

\* What a call leaves in the sender and on the line.
Sent == [tx_crc : U16, octets : Seq(Octet)]

VARIABLES
  tx_crc,                      \* of the sender, shared by all its calls
  line,                        \* octets under way
  rx_ring, rx_head, rx_tail,   \* the ring
  pc, b,                       \* the main loop, and its octet
  parser,                      \* the receiving half of the context
  stream,                      \* history: the frame being streamed, if any
  owner,                       \* history: whose octets the line carries
  way, got,                    \* history: what FrameChannel speaks of
  left                         \* what is left of the bounds

ring    == <<rx_ring, rx_head, rx_tail>>
loop    == <<pc, b, parser>>
history == <<stream, owner, way, got>>
vars    == <<tx_crc, line, ring, loop, history, left>>

Slots == 0 .. (RX_RING_SIZE - 1)

--------------------------------------------------------------------------
(* History: the frames owed, and which of them damage is charged to.       *)

NoStream == [on |-> FALSE, frame |-> << >>, todo |-> << >>, hurt |-> FALSE]

\* The receiver must accept it if it arrives unhurt.
Wanted(f) == /\ f.address \in {my_address, peer_address, BROADCAST}
             /\ Len(f.info) + MIN_FRAME_LEN <= Capacity

\* The checksum of a sequence of octets, one after the other.
running(octets) ==
  LET sum[n \in 0 .. Len(octets)] ==
        IF n = 0 THEN FCS_INIT_VALUE ELSE compute(sum[n - 1], octets[n])
  IN sum

Checksum(octets) == running(octets)[Len(octets)]

\* The checksum is sent as it is, not complemented: zero octets between it and
\* the closing flag go unnoticed, and octets of the checksum become data.
ZeroTailed(f) ==
  LET crc == Checksum(<<f.address, f.ctrl>> \o f.info)
  IN {[f EXCEPT !.info = Append(@, crc % 256)],
      [f EXCEPT !.info = @ \o <<crc % 256, crc \div 256>>]}

Owe(f, hurt) == Append(way, [frame |-> f, hurt |-> hurt, wanted |-> Wanted(f)])

HurtFrom(k) == [i \in DOMAIN way |-> [way[i] EXCEPT !.hurt = @ \/ i >= k]]

\* The octet at the head of the line is hurt: so is the frame it is part of,
\* and an open stream, of which it is part or which it interrupts.
HurtHead == /\ way' = IF owner = "frame" THEN HurtFrom(Len(way)) ELSE way
            /\ stream' = [stream EXCEPT !.hurt = stream.on]

--------------------------------------------------------------------------
(* The sending station.                                                    *)

Init == /\ tx_crc = FCS_INIT_VALUE /\ line = << >>
        /\ rx_ring = [i \in Slots |-> 0] /\ rx_head = 0 /\ rx_tail = 0
        /\ pc = "poll" /\ b = 0 /\ parser = Fresh("HUNT")
        /\ stream = NoStream /\ owner = "none" /\ way = << >> /\ got = << >>
        /\ left = [frames |-> MaxFrames, faults |-> MaxFaults]

\* A call hands the octets of t to the line.
Writes(t, whose) ==
  /\ line = << >>
  /\ tx_crc' = t.tx_crc /\ line' = t.octets /\ owner' = whose
  /\ got' = << >>
  /\ UNCHANGED <<ring, loop>>

Resume == [tx_crc |-> tx_crc, octets |-> << >>]

\* Two frames owed at the same time differ: history can tell them apart.
Distinct(f) == /\ \A i \in DOMAIN way : way[i].frame # f
               /\ stream.on => stream.frame # f

\* Any call that sends a frame, possibly in the middle of a stream.
FrameSend ==
  /\ left.frames > 0
  /\ \E f \in FrameSet : /\ Distinct(f)
                         /\ Writes(frame_send(f), "frame")
                         /\ way' = Owe(f, FALSE)
  /\ stream' = [stream EXCEPT !.hurt = stream.on]
  /\ left' = [left EXCEPT !.frames = @ - 1]

UiStart ==
  /\ ~stream.on /\ left.frames > 0
  /\ \E f \in StreamFrames :
       /\ Distinct(f)
       /\ Writes(frame_begin(f.address, f.ctrl), "stream")
       /\ stream' = [on |-> TRUE, frame |-> f, todo |-> f.info, hurt |-> FALSE]
  /\ left' = [left EXCEPT !.frames = @ - 1]
  /\ UNCHANGED way

UiData ==
  /\ stream.todo # << >>
  /\ Writes(emit(Resume, Head(stream.todo)), "stream")
  /\ stream' = [stream EXCEPT !.todo = Tail(@)]
  /\ UNCHANGED <<way, left>>

UiEnd ==
  /\ stream.on /\ stream.todo = << >>
  /\ Writes(frame_end(Resume), "frame")
  /\ way' = Owe(stream.frame, stream.hurt)
  /\ stream' = NoStream
  /\ UNCHANGED left

--------------------------------------------------------------------------
(* The line.                                                              *)

LineNoise ==
  /\ left.faults > 0 /\ left' = [left EXCEPT !.faults = @ - 1]
  /\ got' = << >>
  /\ UNCHANGED <<tx_crc, ring, loop, owner>>

\* An octet vanishes, becomes another, or comes out of nothing.
LoseOctet   == line # << >> /\ line' = Tail(line) /\ HurtHead /\ LineNoise
ChangeOctet == \E x \in Noise : /\ line # << >> /\ x # Head(line)
                                /\ line' = <<x>> \o Tail(line) /\ HurtHead /\ LineNoise
InsertOctet == \E x \in Noise : line # << >> /\ line' = <<x>> \o line /\ HurtHead /\ LineNoise

\* An octet on an idle line hurts nobody but an open stream.
IdleOctet == /\ line = << >> /\ left.faults > 0
             /\ \E x \in Noise : line' = <<x>>
             /\ owner' = "none" /\ got' = << >>
             /\ stream' = [stream EXCEPT !.hurt = stream.on]
             /\ left' = [left EXCEPT !.faults = @ - 1]
             /\ UNCHANGED <<tx_crc, ring, loop, way>>

\* atc_hdlc_abort of the sender: two flags.
SenderAbort ==
  /\ left.faults > 0
  /\ Writes([Resume EXCEPT !.octets = <<FLAG, FLAG>>], "none")
  /\ stream' = [stream EXCEPT !.hurt = stream.on]
  /\ left' = [left EXCEPT !.faults = @ - 1]
  /\ UNCHANGED way

--------------------------------------------------------------------------
(* The receiving station.                                                  *)

\* Mutant of RingFull: a full ring is not noticed.
RingNeverFull(head, tail) == FALSE

RingFull(head, tail) == (head + 1) % RX_RING_SIZE = tail

\* The receive interrupt.
uart_rx_isr ==
  /\ line # << >> /\ ~RingFull(rx_head, rx_tail)
  /\ line' = Tail(line)
  /\ rx_ring' = [rx_ring EXCEPT ![rx_head] = Head(line)]
  /\ rx_head' = (rx_head + 1) % RX_RING_SIZE
  /\ got' = << >>
  /\ UNCHANGED <<tx_crc, rx_tail, loop, stream, owner, way, left>>

\* The same with a full ring: the octet is dropped.  MaxFaults bounds how often
\* the main loop is as late as that.
uart_rx_isr_full == RingFull(rx_head, rx_tail) /\ LoseOctet

\* rx_drain reads the oldest octet ...
Fetch == /\ pc = "poll" /\ rx_tail # rx_head
         /\ b' = rx_ring[rx_tail] /\ pc' = "feed"
         /\ got' = << >>
         /\ UNCHANGED <<tx_crc, line, ring, parser, stream, owner, way, left>>

\* History: the frame delivered, and those before it, are owed no more.  It is
\* taken for another only when none of the frames owed is the same.
Settle(frames) ==
  LET same == {i \in DOMAIN way : frames # << >> /\ frames[1] = way[i].frame}
      near == {i \in DOMAIN way : frames # << >> /\ frames[1] \in ZeroTailed(way[i].frame)}
      paid == IF same # {} THEN same ELSE near
  IN IF paid = {} THEN way ELSE SubSeq(way, Max(paid) + 1, Len(way))

\* ... frees its slot and feeds it to atc_hdlc_data_in.
Consume == /\ pc = "feed" /\ pc' = "poll"
           /\ rx_tail' = (rx_tail + 1) % RX_RING_SIZE
           /\ parser' = rx_byte(parser, b)
           /\ got' = Dispatched(parser, b)
           /\ way' = Settle(got')
           /\ UNCHANGED <<tx_crc, line, rx_ring, rx_head, b, stream, owner, left>>

\* atc_hdlc_abort of the receiver leaves rx_index and rx_buf as they are.
ReceiverAbort == /\ pc = "poll" /\ left.faults > 0
                 /\ parser' = [parser EXCEPT !.rx_state = "HUNT"]
                 /\ way' = HurtFrom(1)
                 /\ stream' = [stream EXCEPT !.hurt = stream.on]
                 /\ got' = << >>
                 /\ left' = [left EXCEPT !.faults = @ - 1]
                 /\ UNCHANGED <<tx_crc, line, ring, pc, b, owner>>

Next == \/ FrameSend \/ UiStart \/ UiData \/ UiEnd \/ SenderAbort
        \/ LoseOctet \/ ChangeOctet \/ InsertOctet \/ IdleOctet
        \/ uart_rx_isr \/ uart_rx_isr_full \/ Fetch \/ Consume \/ ReceiverAbort

Spec == Init /\ [][Next]_vars

--------------------------------------------------------------------------

TypeOK ==
  /\ tx_crc \in U16 /\ line \in Seq(Octet)
  /\ rx_ring \in [Slots -> Octet] /\ rx_head \in Slots /\ rx_tail \in Slots
  /\ pc \in {"poll", "feed"} /\ b \in Octet
  /\ parser.rx_state \in RxStates /\ parser.buffer \in Seq(Octet)
  /\ rx_index(parser) <= Capacity /\ parser.rx_crc \in U16

\* The octet the main loop holds is still the oldest in the ring when the loop
\* frees its slot, however many interrupts came since it was read: the ring
\* never overwrites (uart_rx_isr against rx_drain).
FetchedIsOldest == pc = "feed" => rx_tail # rx_head /\ b = rx_ring[rx_tail]

\* The running checksum of a frame being received is that of the octets it
\* covers, the last two left out: they may be the frame check sequence (rx_byte's
\* lag, and the restart on every path that abandons a frame).
RunningCrc == parser.rx_state # "HUNT" =>
                parser.rx_crc = Checksum(SubSeq(parser.buffer, 1, dlen(parser)))

\* Whatever the line has done, a frame dispatched has passed the address filter,
\* and the receive buffer holds it, all of it, and its checksum: not the leavings
\* of a frame aborted or overrun (Store's discards, handle_flag's arithmetic, an
\* abort that leaves rx_index, rx_buf and rx_crc).
CheckedDelivery ==
  [][got' # << >> =>
       LET f      == got'[1]
           octets == <<f.address, f.ctrl>> \o f.info
           crc    == Checksum(octets)
       IN /\ f.address \in {my_address, peer_address, BROADCAST}
          /\ parser.buffer = octets \o <<crc % 256, crc \div 256>>]_vars

\* Frames arrive whole, once and in order; damage loses them and does nothing
\* else (the octets of hdlc_frame.h against rx_byte and handle_flag, through
\* stuffing, noise, full ring, aborts and interrupted streams).
Channel == INSTANCE FrameChannel WITH Confused <- ZeroTailed
DeliversFrames == Channel!Spec

\* When everything has been read, every unhurt frame meant for this station has
\* been delivered, whatever came before it: the parser is back in step at
\* the opening flag (rx_byte's discards, handle_flag's reset).
IntactDelivered ==
  line = << >> /\ rx_head = rx_tail => \A i \in DOMAIN way : way[i].hurt \/ ~way[i].wanted

==========================================================================
