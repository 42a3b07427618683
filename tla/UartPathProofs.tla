---------------------------- MODULE UartPathProofs ----------------------------
(***************************************************************************)
(* Theorems about the path of octets from the line to the parser, for      *)
(* every ring and receive buffer and whatever is on the line: the ring     *)
(* gives its octets up in order, the parser never writes outside rx_buf,   *)
(* its checksum keeps two octets behind it, and what it dispatches has     *)
(* passed both the filter and the checksum.                                *)
(***************************************************************************)
EXTENDS UartPath, TLAPS, WellFoundedInduction

(***************************************************************************)
(* Induction on the naturals, over a set: those that have the property.    *)
(***************************************************************************)
\* Every non-empty set of naturals has a least element.
LEMMA LeastNatural ==
  ASSUME NEW S, S \subseteq Nat, S # {}
  PROVE  \E n \in S : \A m \in S : n <= m
<1> DEFINE R == OpToRel(<, Nat)
<1>1. IsWellFoundedOn(R, Nat) BY NatLessThanWellFounded
<1>2. ASSUME NEW x \in Nat, NEW y \in Nat, y < x PROVE <<y, x>> \in R
  BY <1>2 DEF OpToRel
<1> HIDE DEF R
<1>3. PICK n \in S : \A m \in S : ~ (<<m, n>> \in R) BY <1>1, WFMin
<1>4. ASSUME NEW m \in S PROVE n <= m
  <2>1. ~(m < n) BY <1>2, <1>3
  <2> QED BY <2>1
<1> QED BY <1>4

\* Induction, for the set of naturals with some property.
LEMMA Induction ==
  ASSUME NEW S, 0 \in S, \A n \in Nat : n \in S => n + 1 \in S
  PROVE  Nat \subseteq S
<1> DEFINE T == Nat \ S
<1> SUFFICES ASSUME T # {} PROVE FALSE OBVIOUS
<1>1. PICK n \in T : \A m \in T : n <= m BY LeastNatural
<1>2. n # 0 OBVIOUS
<1>3. n - 1 \in Nat /\ n - 1 \notin T BY <1>1, <1>2
<1>4. n - 1 \in S BY <1>3
<1>5. (n - 1) + 1 \in S BY <1>3, <1>4
<1> QED BY <1>5

(***************************************************************************)
(* The ring.                                                               *)
(***************************************************************************)
RingInv == /\ rx_head \in Slots /\ rx_tail \in Slots /\ DOMAIN rx_ring = Slots
           /\ FetchedIsOldest

LEMMA Around ==
  ASSUME NEW slot \in Slots
  PROVE  (slot + 1) % RX_RING_SIZE \in Slots
BY RingAssumption DEF Slots

LEMMA RingInit == Init => RingInv
BY RingAssumption DEF Init, RingInv, FetchedIsOldest, Slots

LEMMA RingKept ==
  ASSUME RingInv, UNCHANGED <<rx_ring, rx_head, rx_tail, pc, b>>
  PROVE  RingInv'
BY DEF RingInv, FetchedIsOldest

LEMMA RingNext == RingInv /\ [Next]_vars => RingInv'
<1> SUFFICES ASSUME RingInv, [Next]_vars PROVE RingInv' OBVIOUS
<1>1. CASE FrameSend \/ UiStart \/ UiData \/ UiEnd \/ SenderAbort
  BY <1>1, RingKept DEF FrameSend, UiStart, UiData, UiEnd, SenderAbort, Writes, ring, loop
<1>2. CASE LoseOctet \/ ChangeOctet \/ InsertOctet \/ uart_rx_isr_full
  BY <1>2, RingKept
  DEF LoseOctet, ChangeOctet, InsertOctet, uart_rx_isr_full, LineNoise, ring, loop
<1>3. CASE IdleOctet BY <1>3, RingKept DEF IdleOctet, ring, loop
<1>4. CASE uart_rx_isr
  <2>1. rx_head' \in Slots BY <1>4, Around DEF uart_rx_isr, RingInv
  <2>2. rx_head' # rx_tail BY <1>4 DEF uart_rx_isr, RingFull
  <2>3. /\ rx_ring' = [rx_ring EXCEPT ![rx_head] = Head(line)]
        /\ UNCHANGED <<rx_tail, pc, b>>
    BY <1>4 DEF uart_rx_isr, loop
  <2>4. pc = "feed" => rx_ring'[rx_tail] = rx_ring[rx_tail]
    BY <2>3 DEF RingInv, FetchedIsOldest
  <2> QED BY <2>1, <2>2, <2>3, <2>4 DEF RingInv, FetchedIsOldest
<1>5. CASE Fetch BY <1>5 DEF Fetch, ring, RingInv, FetchedIsOldest
<1>6. CASE Consume BY <1>6, Around DEF Consume, RingInv, FetchedIsOldest
<1>7. CASE ReceiverAbort BY <1>7, RingKept DEF ReceiverAbort, ring
<1>8. CASE UNCHANGED vars BY <1>8, RingKept DEF vars, ring, loop
<1> QED BY <1>1, <1>2, <1>3, <1>4, <1>5, <1>6, <1>7, <1>8 DEF Next

\* The octet the main loop has read is never overwritten before its slot is
\* freed, whatever the size of the ring and the timing of the interrupt.
THEOREM RingSafe == Spec => []FetchedIsOldest
<1>1. RingInv => FetchedIsOldest BY DEF RingInv
<1> QED BY <1>1, RingInit, RingNext, PTL DEF Spec

(***************************************************************************)
(* Octets.                                                                 *)
(***************************************************************************)

\* What is asked of the checksum driver.
CrcDriver == \A crc \in U16, x \in Octet : CrcUpdate(crc, x) \in Int

Parser == [rx_state : RxStates, buffer : {s \in Seq(Octet) : Len(s) <= Capacity},
           rx_crc : U16]

LEMMA WordFacts ==
  /\ Word \in Nat \ {0} /\ FCS_INIT_VALUE \in U16
  /\ \A w \in U16 : w % 256 \in Octet /\ w \div 256 \in Octet
<1>1. Word \in Nat \ {0} /\ FCS_INIT_VALUE \in U16 BY DEF Word, FCS_INIT_VALUE, U16
<1>2. ASSUME NEW w \in U16 PROVE w % 256 \in Octet BY DEF U16, Word, Octet
<1>3. ASSUME NEW w \in U16 PROVE w \div 256 \in Octet
  <2>1. w \in Nat /\ w < 256 * 256 BY DEF U16, Word
  <2>2. w \div 256 \in Nat BY <2>1
  <2>3. w \div 256 < 256 BY <2>1
  <2> QED BY <2>2, <2>3 DEF Octet
<1> QED BY <1>1, <1>2, <1>3

LEMMA MaskOctet ==
  ASSUME NEW x \in Octet
  PROVE  XorMask(x) \in Octet
BY DEF XorMask, Octet

LEMMA EscapedOctets ==
  ASSUME NEW x \in Octet
  PROVE  put_escaped(x) \in Seq(Octet)
<1>1. ESC \in Octet BY DEF ESC, Octet
<1> QED BY <1>1, MaskOctet DEF put_escaped

LEMMA ComputeType ==
  ASSUME CrcDriver, NEW crc \in U16, NEW x \in Octet
  PROVE  compute(crc, x) \in U16
<1>1. CrcUpdate(crc, x) \in Int BY DEF CrcDriver
<1> QED BY <1>1, WordFacts DEF compute, U16

LEMMA EmitType ==
  ASSUME CrcDriver, NEW t \in Sent, NEW x \in Octet
  PROVE  emit(t, x) \in Sent
<1>1. t.tx_crc \in U16 /\ t.octets \in Seq(Octet) BY DEF Sent
<1>2. compute(t.tx_crc, x) \in U16 BY <1>1, ComputeType
<1>3. t.octets \o put_escaped(x) \in Seq(Octet) BY <1>1, EscapedOctets
<1> QED BY <1>2, <1>3 DEF emit, Sent

LEMMA BeginType ==
  ASSUME CrcDriver, NEW address \in Octet, NEW ctrl \in Octet
  PROVE  frame_begin(address, ctrl) \in Sent
<1>1. [tx_crc |-> FCS_INIT_VALUE, octets |-> <<FLAG>>] \in Sent
  BY WordFacts DEF Sent, FLAG, Octet
<1> QED BY <1>1, EmitType DEF frame_begin

LEMMA EndType ==
  ASSUME NEW t \in Sent
  PROVE  frame_end(t) \in Sent
<1>1. t.tx_crc \in U16 /\ t.octets \in Seq(Octet) BY DEF Sent
<1>2. t.tx_crc % 256 \in Octet /\ t.tx_crc \div 256 \in Octet BY <1>1, WordFacts
<1>3. <<FLAG>> \in Seq(Octet) BY DEF FLAG, Octet
<1>4. /\ put_escaped(t.tx_crc % 256) \in Seq(Octet)
      /\ put_escaped(t.tx_crc \div 256) \in Seq(Octet)
  BY <1>2, EscapedOctets
<1>5. t.octets \o put_escaped(t.tx_crc % 256) \o put_escaped(t.tx_crc \div 256) \o <<FLAG>>
        \in Seq(Octet)
  BY <1>1, <1>3, <1>4
<1> QED BY <1>1, <1>5 DEF frame_end, Sent

\* frame_send's loop ends, whatever the length of the payload.
LEMMA SendingDefined ==
  ASSUME NEW f, f.info \in Seq(Octet)
  PROVE  sending(f) = [n \in 0 .. Len(f.info) |->
                        IF n = 0 THEN frame_begin(f.address, f.ctrl)
                                 ELSE emit(sending(f)[n - 1], f.info[n])]
<1> DEFINE Loops(g, k) ==
             g = [n \in 0 .. k |-> IF n = 0 THEN frame_begin(f.address, f.ctrl)
                                            ELSE emit(g[n - 1], f.info[n])]
           S == {k \in Nat : \E g : Loops(g, k)}
<1>1. 0 \in S
  <2>1. Loops([n \in 0 .. 0 |-> frame_begin(f.address, f.ctrl)], 0) OBVIOUS
  <2> HIDE DEF Loops
  <2> QED BY <2>1
<1>2. ASSUME NEW k \in Nat, k \in S PROVE k + 1 \in S
  <2>1. PICK g : Loops(g, k) BY <1>2
  <2> DEFINE h == [n \in 0 .. (k + 1) |-> IF n = k + 1 THEN emit(g[k], f.info[k + 1]) ELSE g[n]]
  <2>2. ASSUME NEW n \in 0 .. (k + 1)
        PROVE  h[n] = IF n = 0 THEN frame_begin(f.address, f.ctrl)
                               ELSE emit(h[n - 1], f.info[n])
    <3>1. CASE n = k + 1
      <4>1. h[n] = emit(g[k], f.info[n]) BY <3>1
      <4>2. h[n - 1] = g[k] BY <3>1
      <4> QED BY <3>1, <4>1, <4>2
    <3>2. CASE n # k + 1
      <4>1. n \in 0 .. k BY <3>2
      <4>2. h[n] = g[n] BY <3>2
      <4>3. g[n] = IF n = 0 THEN frame_begin(f.address, f.ctrl) ELSE emit(g[n - 1], f.info[n])
        BY <2>1, <4>1
      <4>4. n # 0 => h[n - 1] = g[n - 1] BY <4>1
      <4> HIDE DEF h
      <4> QED BY <4>2, <4>3, <4>4
    <3> QED BY <3>1, <3>2
  <2>3. Loops(h, k + 1) BY <2>2
  <2> HIDE DEF Loops, h
  <2> QED BY <2>3
<1> HIDE DEF S
<1>3. Nat \subseteq S BY <1>1, <1>2, Induction
<1>4. Len(f.info) \in S BY <1>3
<1>5. \E g : Loops(g, Len(f.info)) BY <1>4 DEF S
<1>6. sending(f) = CHOOSE g : Loops(g, Len(f.info)) BY DEF sending
<1> HIDE DEF Loops
<1>7. Loops(sending(f), Len(f.info)) BY <1>5, <1>6
<1> QED BY <1>7 DEF Loops

LEMMA SendingSteps ==
  ASSUME NEW f, f.info \in Seq(Octet)
  PROVE  /\ sending(f)[0] = frame_begin(f.address, f.ctrl)
         /\ \A n \in 1 .. Len(f.info) : sending(f)[n] = emit(sending(f)[n - 1], f.info[n])
<1> DEFINE body(n) == IF n = 0 THEN frame_begin(f.address, f.ctrl)
                               ELSE emit(sending(f)[n - 1], f.info[n])
<1>1. sending(f) = [n \in 0 .. Len(f.info) |-> body(n)] BY SendingDefined
<1>2. \A n \in 0 .. Len(f.info) : sending(f)[n] = body(n)
  <2> HIDE DEF body
  <2> QED BY <1>1
<1>3. Len(f.info) \in Nat OBVIOUS
<1> QED BY <1>2, <1>3

LEMMA SendType ==
  ASSUME CrcDriver, NEW f \in [address : Octet, ctrl : Octet, info : Seq(Octet)]
  PROVE  /\ \A n \in 0 .. Len(f.info) : sending(f)[n] \in Sent
         /\ frame_send(f) \in Sent
<1> DEFINE N == Len(f.info)
           S == {n \in Nat : n <= N => sending(f)[n] \in Sent}
<1>0. N \in Nat /\ f.info \in Seq(Octet) OBVIOUS
<1>1. 0 \in S BY <1>0, SendingSteps, BeginType
<1>2. ASSUME NEW n \in Nat, n \in S PROVE n + 1 \in S
  <2> SUFFICES ASSUME n + 1 <= N PROVE sending(f)[n + 1] \in Sent OBVIOUS
  <2>1. n + 1 \in 1 .. N /\ (n + 1) - 1 = n BY <1>0
  <2>2. sending(f)[n + 1] = emit(sending(f)[n], f.info[n + 1]) BY <1>0, <2>1, SendingSteps
  <2>3. sending(f)[n] \in Sent BY <1>0, <1>2
  <2>4. f.info[n + 1] \in Octet BY <2>1
  <2> QED BY <2>2, <2>3, <2>4, EmitType
<1>3. Nat \subseteq S
  <2> HIDE DEF S
  <2> QED BY <1>1, <1>2, Induction
<1>4. \A n \in 0 .. N : sending(f)[n] \in Sent BY <1>0, <1>3
<1>5. sending(f)[N] \in Sent BY <1>0, <1>4
<1> QED BY <1>4, <1>5, EndType DEF frame_send

LEMMA FreshType ==
  ASSUME NEW state \in RxStates
  PROVE  Fresh(state) \in Parser
BY FramingAssumption, WordFacts DEF Fresh, Parser

\* The guard of Store keeps every octet inside the buffer.
LEMMA StoreType ==
  ASSUME CrcDriver, NEW p \in Parser, NEW x \in Octet
  PROVE  Store(p, x) \in Parser
<1>1. p.rx_state \in RxStates /\ p.buffer \in Seq(Octet) /\ Len(p.buffer) <= Capacity
      /\ p.rx_crc \in U16
  BY DEF Parser
<1>2. Fresh("HUNT") \in Parser BY FreshType DEF RxStates
<1> DEFINE buffer == Append(p.buffer, x)
           crc    == IF rx_index(p) >= FCS_LEN
                     THEN compute(p.rx_crc, buffer[rx_index(p) - FCS_LEN + 1])
                     ELSE p.rx_crc
           state  == IF rx_index(p) = 0 THEN "DATA" ELSE p.rx_state
<1>3. CASE rx_index(p) < Capacity
  <2>1. buffer \in Seq(Octet) /\ Len(buffer) = Len(p.buffer) + 1 BY <1>1
  <2>2. Len(buffer) <= Capacity BY <1>1, <1>3, <2>1, FramingAssumption DEF rx_index
  <2>3. ASSUME rx_index(p) >= FCS_LEN PROVE buffer[rx_index(p) - FCS_LEN + 1] \in Octet
    <3>1. rx_index(p) - FCS_LEN + 1 \in 1 .. Len(buffer)
      BY <1>1, <2>1, <2>3 DEF rx_index, FCS_LEN
    <3> HIDE DEF buffer
    <3> QED BY <2>1, <3>1
  <2>4. crc \in U16 BY <1>1, <2>3, ComputeType
  <2>5. state \in RxStates BY <1>1 DEF RxStates
  <2> HIDE DEF buffer, crc, state
  <2>6. [rx_state |-> state, buffer |-> buffer, rx_crc |-> crc] \in Parser
    BY <2>1, <2>2, <2>4, <2>5 DEF Parser
  <2>7. Store(p, x) \in {Fresh("HUNT"), [rx_state |-> state, buffer |-> buffer, rx_crc |-> crc]}
    BY DEF Store, buffer, crc, state
  <2> QED BY <1>2, <2>6, <2>7
<1>4. CASE ~(rx_index(p) < Capacity)
  <2>1. rx_index(p) >= Capacity BY <1>1, <1>4, FramingAssumption DEF rx_index
  <2> QED BY <1>2, <2>1 DEF Store
<1> QED BY <1>3, <1>4

LEMMA RxByteType ==
  ASSUME CrcDriver, NEW p \in Parser, NEW x \in Octet
  PROVE  rx_byte(p, x) \in Parser
<1>1. Fresh("ADDR") \in Parser BY FreshType DEF RxStates
<1>2. [p EXCEPT !.rx_state = "ESC"] \in Parser /\ [p EXCEPT !.rx_state = "DATA"] \in Parser
  BY DEF Parser, RxStates
<1>3. /\ Store(p, x) \in Parser
      /\ Store([p EXCEPT !.rx_state = "DATA"], XorMask(x)) \in Parser
  BY <1>2, StoreType, MaskOctet
<1> QED BY <1>1, <1>2, <1>3 DEF rx_byte

(***************************************************************************)
(* The path.                                                               *)
(***************************************************************************)

\* What is left to send of a streamed frame are octets too.
Streams == [on : BOOLEAN, frame : StreamFrames \cup {<< >>}, todo : Seq(Octet), hurt : BOOLEAN]

PathInv == TypeOK /\ parser \in Parser /\ stream \in Streams /\ RingInv

LEMMA PathInit == Init => PathInv
<1> SUFFICES ASSUME Init PROVE PathInv OBVIOUS
<1>1. Fresh("HUNT") \in Parser BY FreshType DEF RxStates
<1>2. 0 \in Octet /\ 0 \in Slots BY RingAssumption DEF Octet, Slots
<1>3. NoStream \in Streams BY DEF NoStream, Streams
<1>4. parser \in Parser BY <1>1 DEF Init
<1>5. TypeOK BY <1>2, <1>4, WordFacts DEF Init, TypeOK, Parser, rx_index
<1> QED BY <1>3, <1>4, <1>5, RingInit DEF Init, PathInv

\* Calls of the sender touch nothing of the receiver.
LEMMA CallType ==
  ASSUME PathInv, RingInv', NEW t \in Sent, NEW whose, Writes(t, whose), stream' \in Streams
  PROVE  PathInv'
<1>1. t.tx_crc \in U16 /\ t.octets \in Seq(Octet) BY DEF Sent
<1>2. tx_crc' \in U16 /\ line' \in Seq(Octet) BY <1>1 DEF Writes
<1>3. UNCHANGED <<rx_ring, rx_head, rx_tail, pc, b, parser>> BY DEF Writes, ring, loop
<1> QED BY <1>2, <1>3 DEF PathInv, TypeOK

LEMMA HurtType ==
  ASSUME stream \in Streams
  PROVE  [stream EXCEPT !.hurt = stream.on] \in Streams
BY DEF Streams

\* Faults of the line put octets on it, or take some away.
LEMMA FaultType ==
  ASSUME PathInv, RingInv', UNCHANGED <<tx_crc, rx_ring, rx_head, rx_tail, pc, b, parser>>,
         line' \in Seq(Octet), stream' \in Streams
  PROVE  PathInv'
BY DEF PathInv, TypeOK

LEMMA PathNext ==
  ASSUME CrcDriver, PathInv, [Next]_vars
  PROVE  PathInv'
<1>0. /\ TypeOK /\ parser \in Parser /\ stream \in Streams /\ RingInv
      /\ tx_crc \in U16 /\ line \in Seq(Octet) /\ b \in Octet
  BY DEF PathInv, TypeOK
<1>a. RingInv' BY <1>0, RingNext
<1>b. [stream EXCEPT !.hurt = stream.on] \in Streams BY <1>0, HurtType
<1>c. Resume \in Sent BY <1>0 DEF Resume, Sent
<1>1. CASE FrameSend
  <2>1. PICK f \in FrameSet : Writes(frame_send(f), "frame") BY <1>1 DEF FrameSend
  <2>2. frame_send(f) \in Sent BY FrameAssumption, SendType
  <2>3. stream' \in Streams BY <1>1, <1>b DEF FrameSend
  <2> QED BY <1>a, <2>1, <2>2, <2>3, CallType
<1>2. CASE UiStart
  <2>1. PICK f \in StreamFrames :
          /\ Writes(frame_begin(f.address, f.ctrl), "stream")
          /\ stream' = [on |-> TRUE, frame |-> f, todo |-> f.info, hurt |-> FALSE]
    BY <1>2 DEF UiStart
  <2>2. f.address \in Octet /\ f.ctrl \in Octet /\ f.info \in Seq(Octet) BY FrameAssumption
  <2>3. frame_begin(f.address, f.ctrl) \in Sent BY <2>2, BeginType
  <2>4. stream' \in Streams BY <2>1, <2>2 DEF Streams
  <2> QED BY <1>a, <2>1, <2>3, <2>4, CallType
<1>3. CASE UiData
  <2>1. stream.todo \in Seq(Octet) /\ stream.todo # << >> BY <1>0, <1>3 DEF Streams, UiData
  <2>2. Head(stream.todo) \in Octet /\ Tail(stream.todo) \in Seq(Octet) BY <2>1
  <2>3. emit(Resume, Head(stream.todo)) \in Sent BY <1>c, <2>2, EmitType
  <2>4. stream' \in Streams BY <1>0, <1>3, <2>2 DEF UiData, Streams
  <2> QED BY <1>3, <1>a, <2>3, <2>4, CallType DEF UiData
<1>4. CASE UiEnd
  <2>1. frame_end(Resume) \in Sent BY <1>c, EndType
  <2>2. stream' \in Streams BY <1>4 DEF UiEnd, NoStream, Streams
  <2> QED BY <1>4, <1>a, <2>1, <2>2, CallType DEF UiEnd
<1>5. CASE SenderAbort
  <2>1. <<FLAG, FLAG>> \in Seq(Octet) BY DEF FLAG, Octet
  <2>2. [Resume EXCEPT !.octets = <<FLAG, FLAG>>] \in Sent BY <1>c, <2>1 DEF Sent
  <2>3. stream' \in Streams BY <1>5, <1>b DEF SenderAbort
  <2> QED BY <1>5, <1>a, <2>2, <2>3, CallType DEF SenderAbort
<1>6. CASE LoseOctet \/ uart_rx_isr_full
  <2>1. line # << >> /\ line' = Tail(line) /\ HurtHead /\ LineNoise
    BY <1>6 DEF LoseOctet, uart_rx_isr_full
  <2>2. line' \in Seq(Octet) BY <1>0, <2>1
  <2>3. stream' \in Streams BY <1>b, <2>1 DEF HurtHead
  <2> QED BY <1>a, <2>1, <2>2, <2>3, FaultType DEF LineNoise, ring, loop
<1>7. CASE ChangeOctet \/ InsertOctet
  <2>1. PICK x \in Noise : /\ line # << >> /\ line' \in {<<x>> \o Tail(line), <<x>> \o line}
                          /\ HurtHead /\ LineNoise
    BY <1>7 DEF ChangeOctet, InsertOctet
  <2>2. <<x>> \in Seq(Octet) /\ Tail(line) \in Seq(Octet) BY <1>0, <2>1, NoiseAssumption
  <2>3. <<x>> \o Tail(line) \in Seq(Octet) /\ <<x>> \o line \in Seq(Octet) BY <1>0, <2>2
  <2>4. line' \in Seq(Octet) BY <2>1, <2>3
  <2>5. stream' \in Streams BY <1>b, <2>1 DEF HurtHead
  <2> QED BY <1>a, <2>1, <2>4, <2>5, FaultType DEF LineNoise, ring, loop
<1>8. CASE IdleOctet
  <2>1. PICK x \in Noise : line' = <<x>> BY <1>8 DEF IdleOctet
  <2>2. line' \in Seq(Octet) BY <2>1, NoiseAssumption
  <2>3. stream' \in Streams BY <1>8, <1>b DEF IdleOctet
  <2> QED BY <1>8, <1>a, <2>2, <2>3, FaultType DEF IdleOctet, ring, loop
<1>9. CASE uart_rx_isr
  <2>1. Head(line) \in Octet /\ Tail(line) \in Seq(Octet) BY <1>0, <1>9 DEF uart_rx_isr
  <2>2. rx_ring' \in [Slots -> Octet] BY <1>0, <1>9, <2>1 DEF uart_rx_isr, TypeOK
  <2> QED BY <1>9, <1>a, <2>1, <2>2 DEF uart_rx_isr, loop, PathInv, TypeOK, RingInv
<1>10. CASE Fetch
  <2>1. b' \in Octet BY <1>0, <1>10 DEF Fetch, TypeOK
  <2> QED BY <1>10, <1>a, <2>1 DEF Fetch, ring, PathInv, TypeOK
<1>11. CASE Consume
  <2>1. parser' \in Parser BY <1>0, <1>11, RxByteType DEF Consume
  <2>2. /\ parser'.rx_state \in RxStates /\ parser'.buffer \in Seq(Octet)
        /\ Len(parser'.buffer) <= Capacity /\ parser'.rx_crc \in U16
    BY <2>1 DEF Parser
  <2>3. UNCHANGED <<tx_crc, line, rx_ring, rx_head, b, stream>> /\ pc' = "poll"
    BY <1>11 DEF Consume
  <2> QED BY <1>a, <2>1, <2>2, <2>3 DEF PathInv, TypeOK, RingInv, rx_index
<1>12. CASE ReceiverAbort
  <2>1. parser' = [parser EXCEPT !.rx_state = "HUNT"] BY <1>12 DEF ReceiverAbort
  <2>2. parser' \in Parser BY <1>0, <2>1 DEF Parser, RxStates
  <2>3. /\ parser'.rx_state \in RxStates /\ parser'.buffer \in Seq(Octet)
        /\ Len(parser'.buffer) <= Capacity /\ parser'.rx_crc \in U16
    BY <2>2 DEF Parser
  <2>4. stream' \in Streams BY <1>12, <1>b DEF ReceiverAbort
  <2> QED BY <1>12, <1>a, <2>2, <2>3, <2>4 DEF ReceiverAbort, ring, PathInv, TypeOK, rx_index
<1>13. CASE UNCHANGED vars
  BY <1>13, <1>a, <1>0 DEF vars, ring, loop, history, PathInv, TypeOK, rx_index
<1> QED BY <1>1, <1>2, <1>3, <1>4, <1>5, <1>6, <1>7, <1>8, <1>9, <1>10, <1>11, <1>12, <1>13
    DEF Next

\* Whatever the line carries, torn frames and noise included, the parser never
\* holds more than the capacity of rx_buf, and what it holds are octets
\* (rx_byte's test of rx_index), as long as the checksum driver returns numbers.
THEOREM TypeCorrect ==
  ASSUME CrcDriver
  PROVE  Spec => []TypeOK
<1>1. PathInv /\ [Next]_vars => PathInv' BY PathNext
<1>2. PathInv => TypeOK BY DEF PathInv
<1> QED BY <1>1, <1>2, PathInit, PTL DEF Spec

(***************************************************************************)
(* The checksum that runs two octets behind.                               *)
(***************************************************************************)
LEMMA RunningDefined ==
  ASSUME NEW octets \in Seq(Octet)
  PROVE  running(octets) = [n \in 0 .. Len(octets) |->
                              IF n = 0 THEN FCS_INIT_VALUE
                                       ELSE compute(running(octets)[n - 1], octets[n])]
<1> DEFINE Loops(g, k) ==
             g = [n \in 0 .. k |-> IF n = 0 THEN FCS_INIT_VALUE ELSE compute(g[n - 1], octets[n])]
           S == {k \in Nat : \E g : Loops(g, k)}
<1>1. 0 \in S
  <2>1. Loops([n \in 0 .. 0 |-> FCS_INIT_VALUE], 0) OBVIOUS
  <2> HIDE DEF Loops
  <2> QED BY <2>1
<1>2. ASSUME NEW k \in Nat, k \in S PROVE k + 1 \in S
  <2>1. PICK g : Loops(g, k) BY <1>2
  <2> DEFINE h == [n \in 0 .. (k + 1) |-> IF n = k + 1 THEN compute(g[k], octets[k + 1]) ELSE g[n]]
  <2>2. ASSUME NEW n \in 0 .. (k + 1)
        PROVE  h[n] = IF n = 0 THEN FCS_INIT_VALUE ELSE compute(h[n - 1], octets[n])
    <3>1. CASE n = k + 1
      <4>1. h[n] = compute(g[k], octets[n]) BY <3>1
      <4>2. h[n - 1] = g[k] BY <3>1
      <4> QED BY <3>1, <4>1, <4>2
    <3>2. CASE n # k + 1
      <4>1. n \in 0 .. k BY <3>2
      <4>2. h[n] = g[n] BY <3>2
      <4>3. g[n] = IF n = 0 THEN FCS_INIT_VALUE ELSE compute(g[n - 1], octets[n]) BY <2>1, <4>1
      <4>4. n # 0 => h[n - 1] = g[n - 1] BY <4>1
      <4> HIDE DEF h
      <4> QED BY <4>2, <4>3, <4>4
    <3> QED BY <3>1, <3>2
  <2>3. Loops(h, k + 1) BY <2>2
  <2> HIDE DEF Loops, h
  <2> QED BY <2>3
<1> HIDE DEF S
<1>3. Nat \subseteq S BY <1>1, <1>2, Induction
<1>4. Len(octets) \in S BY <1>3
<1>5. \E g : Loops(g, Len(octets)) BY <1>4 DEF S
<1>6. running(octets) = CHOOSE g : Loops(g, Len(octets)) BY DEF running
<1> HIDE DEF Loops
<1>7. Loops(running(octets), Len(octets)) BY <1>5, <1>6
<1> QED BY <1>7 DEF Loops

LEMMA RunningSteps ==
  ASSUME NEW octets \in Seq(Octet)
  PROVE  /\ running(octets)[0] = FCS_INIT_VALUE
         /\ \A n \in Nat : n < Len(octets) =>
              running(octets)[n + 1] = compute(running(octets)[n], octets[n + 1])
<1> DEFINE body(n) == IF n = 0 THEN FCS_INIT_VALUE ELSE compute(running(octets)[n - 1], octets[n])
<1>1. running(octets) = [n \in 0 .. Len(octets) |-> body(n)] BY RunningDefined
<1>2. \A n \in 0 .. Len(octets) : running(octets)[n] = body(n)
  <2> HIDE DEF body
  <2> QED BY <1>1
<1>3. Len(octets) \in Nat OBVIOUS
<1>4. running(octets)[0] = FCS_INIT_VALUE BY <1>2, <1>3
<1>5. ASSUME NEW n \in Nat, n < Len(octets)
      PROVE  running(octets)[n + 1] = compute(running(octets)[n], octets[n + 1])
  <2>1. n + 1 \in 0 .. Len(octets) /\ n + 1 # 0 /\ (n + 1) - 1 = n BY <1>3, <1>5
  <2>2. running(octets)[n + 1] = body(n + 1) BY <1>2, <2>1
  <2> QED BY <2>1, <2>2
<1> QED BY <1>4, <1>5

\* One octet more, one step more.
LEMMA ChecksumSteps ==
  /\ Checksum(<< >>) = FCS_INIT_VALUE
  /\ \A octets \in Seq(Octet) : \A x \in Octet :
       Checksum(Append(octets, x)) = compute(Checksum(octets), x)
<1>1. Checksum(<< >>) = FCS_INIT_VALUE
  <2>1. << >> \in Seq(Octet) /\ Len(<< >>) = 0 OBVIOUS
  <2> QED BY <2>1, RunningSteps DEF Checksum
<1>2. ASSUME NEW octets \in Seq(Octet), NEW x \in Octet
      PROVE  Checksum(Append(octets, x)) = compute(Checksum(octets), x)
  <2> DEFINE all == Append(octets, x)
             N   == Len(octets)
             S   == {k \in Nat : k <= N => running(all)[k] = running(octets)[k]}
  <2>0. /\ all \in Seq(Octet) /\ Len(all) = N + 1 /\ all[N + 1] = x /\ N \in Nat
        /\ \A k \in 1 .. N : all[k] = octets[k]
    OBVIOUS
  <2> HIDE DEF all
  <2>1. 0 \in S BY <2>0, RunningSteps
  <2>2. ASSUME NEW k \in Nat, k \in S PROVE k + 1 \in S
    <3> SUFFICES ASSUME k + 1 <= N PROVE running(all)[k + 1] = running(octets)[k + 1] OBVIOUS
    <3>1. k < N /\ k < Len(all) /\ all[k + 1] = octets[k + 1] BY <2>0
    <3>2. running(all)[k] = running(octets)[k] BY <2>2
    <3>3. running(all)[k + 1] = compute(running(all)[k], all[k + 1]) BY <2>0, <3>1, RunningSteps
    <3>4. running(octets)[k + 1] = compute(running(octets)[k], octets[k + 1]) BY <3>1, RunningSteps
    <3> QED BY <3>1, <3>2, <3>3, <3>4
  <2>3. Nat \subseteq S
    <3> HIDE DEF S
    <3> QED BY <2>1, <2>2, Induction
  <2>4. running(all)[N] = running(octets)[N] BY <2>0, <2>3
  <2>5. running(all)[N + 1] = compute(running(all)[N], all[N + 1]) BY <2>0, RunningSteps
  <2> QED BY <2>0, <2>4, <2>5 DEF Checksum, all
<1> QED BY <1>1, <1>2

\* What rx_crc is, in every state of the parser but HUNT.
CrcLags(p) == p.rx_state # "HUNT" => p.rx_crc = Checksum(SubSeq(p.buffer, 1, dlen(p)))

LEMMA FreshLags ==
  ASSUME NEW state
  PROVE  CrcLags(Fresh(state))
<1>1. SubSeq(<< >>, 1, 0 - FCS_LEN) = << >> BY DEF FCS_LEN
<1> QED BY <1>1, ChecksumSteps DEF CrcLags, Fresh, dlen, rx_index

LEMMA StoreLags ==
  ASSUME NEW p \in Parser, CrcLags(p), p.rx_state # "HUNT", NEW x \in Octet
  PROVE  CrcLags(Store(p, x))
<1> DEFINE s == p.buffer
           n == Len(s)
           t == Append(s, x)
           q == Store(p, x)
<1>1. s \in Seq(Octet) /\ n \in Nat /\ p.rx_crc = Checksum(SubSeq(s, 1, n - 2)) /\ rx_index(p) = n
  BY DEF Parser, CrcLags, dlen, rx_index, FCS_LEN
<1>2. t \in Seq(Octet) /\ Len(t) = n + 1 /\ \A i \in 1 .. n : t[i] = s[i] BY <1>1
<1>3. CASE q = Fresh("HUNT") BY <1>3, FreshLags
<1>4. CASE q # Fresh("HUNT")
  <2>1. q.buffer = t /\ q.rx_crc = IF n >= 2 THEN compute(p.rx_crc, t[n - 1]) ELSE p.rx_crc
    <3>1. n - FCS_LEN + 1 = n - 1 /\ FCS_LEN = 2 BY <1>1 DEF FCS_LEN
    <3> HIDE DEF n, t
    <3> QED BY <1>1, <1>4, <3>1 DEF Store, t
  <2>2. dlen(q) = n - 1 BY <1>1, <1>2, <2>1 DEF dlen, rx_index, FCS_LEN
  <2>3. CASE n >= 2
    <3> DEFINE front == SubSeq(s, 1, n - 2)
    <3>1. /\ front \in Seq(Octet) /\ Len(front) = n - 2
          /\ \A i \in 1 .. (n - 2) : front[i] = s[i]
      BY <1>1, <2>3
    <3>2. t[n - 1] \in Octet BY <1>1, <1>2, <2>3
    <3>3. SubSeq(t, 1, n - 1) = Append(front, t[n - 1])
      <4> DEFINE u == SubSeq(t, 1, n - 1)
                 v == Append(front, t[n - 1])
      <4>1. u \in Seq(Octet) /\ Len(u) = n - 1 /\ \A i \in 1 .. (n - 1) : u[i] = t[i]
        BY <1>1, <1>2, <2>3
      <4> HIDE DEF front, t
      <4>2. /\ v \in Seq(Octet) /\ Len(v) = n - 1 /\ v[n - 1] = t[n - 1]
            /\ \A i \in 1 .. (n - 2) : v[i] = front[i]
        BY <1>1, <2>3, <3>1, <3>2
      <4> HIDE DEF u, v
      <4>3. ASSUME NEW i \in 1 .. (n - 1) PROVE u[i] = v[i]
        <5>1. u[i] = t[i] BY <4>1
        <5>2. CASE i = n - 1 BY <4>2, <5>1, <5>2
        <5>3. CASE i # n - 1
          <6>1. i \in 1 .. (n - 2) /\ i \in 1 .. n BY <1>1, <5>3
          <6>2. t[i] = s[i] BY <1>2, <6>1
          <6>3. v[i] = s[i] BY <3>1, <4>2, <6>1
          <6> QED BY <5>1, <6>2, <6>3
        <5> QED BY <5>2, <5>3
      <4>4. u = v
        <5>1. u = [i \in 1 .. (n - 1) |-> u[i]] BY <4>1
        <5>2. v = [i \in 1 .. (n - 1) |-> v[i]] BY <4>2
        <5> QED BY <4>3, <5>1, <5>2
      <4> QED BY <4>4 DEF u, v
    <3> HIDE DEF front, t, n
    <3>4. Checksum(Append(front, t[n - 1])) = compute(Checksum(front), t[n - 1])
      BY <3>1, <3>2, ChecksumSteps
    <3> QED BY <1>1, <2>1, <2>2, <2>3, <3>3, <3>4 DEF CrcLags, front
  <2>4. CASE n < 2
    <3>1. SubSeq(t, 1, n - 1) = << >> BY <1>1, <1>2, <2>4
    <3>2. SubSeq(s, 1, n - 2) = << >> BY <1>1, <2>4
    <3>3. q.rx_crc = p.rx_crc BY <1>1, <2>1, <2>4
    <3> HIDE DEF n, t, s
    <3>4. q.rx_crc = Checksum(SubSeq(q.buffer, 1, dlen(q))) BY <1>1, <2>1, <2>2, <3>1, <3>2, <3>3
    <3> QED BY <3>4 DEF CrcLags
  <2>5. n >= 2 \/ n < 2 BY <1>1
  <2> QED BY <2>3, <2>4, <2>5
<1> QED BY <1>3, <1>4

LEMMA RxByteLags ==
  ASSUME NEW p \in Parser, CrcLags(p), NEW x \in Octet
  PROVE  CrcLags(rx_byte(p, x))
<1> DEFINE esc  == [p EXCEPT !.rx_state = "ESC"]
           data == [p EXCEPT !.rx_state = "DATA"]
<1>1. CASE x = FLAG
  <2>1. rx_byte(p, x) = Fresh("ADDR") BY <1>1 DEF rx_byte, FLAG, ESC
  <2> QED BY <2>1, FreshLags
<1>2. CASE x # FLAG /\ p.rx_state = "HUNT" BY <1>2 DEF rx_byte
<1>3. CASE x # FLAG /\ p.rx_state # "HUNT"
  <2>1. data \in Parser BY DEF Parser, RxStates
  <2>2. CrcLags(esc) /\ CrcLags(data) /\ data.rx_state # "HUNT"
    BY <1>3 DEF CrcLags, Parser, dlen, rx_index
  <2>3. CrcLags(Store(p, x)) BY <1>3, StoreLags
  <2>4. CrcLags(Store(data, XorMask(x)))
    <3> HIDE DEF data
    <3> QED BY <2>1, <2>2, MaskOctet, StoreLags
  <2> HIDE DEF esc, data
  <2>5. rx_byte(p, x) \in {esc, Store(data, XorMask(x)), Store(p, x)}
    BY <1>3 DEF rx_byte, esc, data, FLAG, ESC
  <2> QED BY <2>2, <2>3, <2>4, <2>5
<1> QED BY <1>1, <1>2, <1>3

LEMMA OthersSpareParser ==
  ASSUME [Next]_vars, ~Consume, ~ReceiverAbort
  PROVE  parser' = parser
BY DEF Next, FrameSend, UiStart, UiData, UiEnd, SenderAbort, LoseOctet, ChangeOctet, InsertOctet,
       IdleOctet, uart_rx_isr, uart_rx_isr_full, Fetch, Writes, LineNoise, loop, vars

\* The checksum of a frame being received is never out by an octet, whatever
\* the line has carried: every way of starting, storing, discarding and
\* abandoning a frame leaves rx_crc the checksum of all octets of the buffer but
\* the last two, for every driver (rx_byte's lag and restarts).
THEOREM RunningCrcSafe ==
  ASSUME CrcDriver
  PROVE  Spec => []RunningCrc
<1> DEFINE Inv == PathInv /\ CrcLags(parser)
<1>1. Init => Inv
  <2>1. Init => CrcLags(parser) BY FreshLags DEF Init
  <2> QED BY <2>1, PathInit
<1>2. Inv /\ [Next]_vars => Inv'
  <2> SUFFICES ASSUME Inv, [Next]_vars PROVE Inv' OBVIOUS
  <2>1. PathInv' BY PathNext
  <2>2. CASE Consume
    <3>1. parser' = rx_byte(parser, b) BY <2>2 DEF Consume
    <3>2. parser \in Parser /\ b \in Octet BY DEF PathInv, TypeOK
    <3>3. CrcLags(rx_byte(parser, b)) BY <3>2, RxByteLags
    <3> QED BY <2>1, <3>1, <3>3 DEF CrcLags
  <2>3. CASE ReceiverAbort
    <3>1. parser'.rx_state = "HUNT" BY <2>3 DEF ReceiverAbort, PathInv, Parser
    <3> QED BY <2>1, <3>1 DEF CrcLags
  <2>4. CASE ~Consume /\ ~ReceiverAbort
    <3>1. parser' = parser BY <2>4, OthersSpareParser
    <3> QED BY <2>1, <3>1 DEF CrcLags
  <2> QED BY <2>2, <2>3, <2>4
<1>3. Inv => RunningCrc BY DEF CrcLags, RunningCrc
<1> QED BY <1>1, <1>2, <1>3, PTL DEF Spec

(***************************************************************************)
(* What the parser dispatches after whatever damage.                       *)
(***************************************************************************)
Addresses == {my_address, peer_address, BROADCAST}

\* Only octets of a frame for this station are kept.
Filtered(p) == p.buffer # << >> => p.buffer[1] \in Addresses

LEMMA RxByteFilters ==
  ASSUME NEW p \in Parser, Filtered(p), NEW x \in Octet
  PROVE  Filtered(rx_byte(p, x))
<1> DEFINE esc  == [p EXCEPT !.rx_state = "ESC"]
           data == [p EXCEPT !.rx_state = "DATA"]
<1>1. \A state : Filtered(Fresh(state)) BY DEF Filtered, Fresh
<1>2. ASSUME NEW q \in Parser, Filtered(q), NEW y \in Octet
      PROVE  Filtered(Store(q, y))
  <2> DEFINE s == q.buffer
             t == Append(s, y)
  <2>1. s \in Seq(Octet) /\ rx_index(q) = Len(s) BY DEF Parser, rx_index
  <2>2. CASE Store(q, y) = Fresh("HUNT") BY <1>1, <2>2
  <2>3. CASE Store(q, y) # Fresh("HUNT")
    <3>1. Store(q, y).buffer = t /\ (Len(s) = 0 => y \in Addresses)
      <4> HIDE DEF t
      <4> QED BY <2>1, <2>3 DEF Store, Addresses, t
    <3>2. t[1] = IF Len(s) = 0 THEN y ELSE s[1] BY <2>1
    <3>3. Len(s) # 0 => s # << >> OBVIOUS
    <3> HIDE DEF s, t
    <3>4. t[1] \in Addresses BY <1>2, <3>1, <3>2, <3>3 DEF Filtered, s
    <3> QED BY <3>1, <3>4 DEF Filtered
  <2> QED BY <2>2, <2>3
<1>3. esc \in Parser /\ data \in Parser /\ esc.buffer = p.buffer /\ data.buffer = p.buffer
  BY DEF Parser, RxStates
<1>4. Filtered(esc) /\ Filtered(data) BY <1>3 DEF Filtered
<1>5. Filtered(Store(p, x)) BY <1>2
<1>6. Filtered(Store(data, XorMask(x)))
  <2> HIDE DEF data
  <2> QED BY <1>2, <1>3, <1>4, MaskOctet
<1> HIDE DEF esc, data
<1>7. rx_byte(p, x) \in {Fresh("ADDR"), p, esc, Store(data, XorMask(x)), Store(p, x)}
  BY DEF rx_byte, esc, data, FLAG, ESC
<1> QED BY <1>1, <1>4, <1>5, <1>6, <1>7

\* A joined sequence is its first part followed by its second.
LEMMA Joined ==
  ASSUME NEW s \in Seq(Octet), NEW t \in Seq(Octet)
  PROVE  /\ s \o t \in Seq(Octet)
         /\ Len(s) \in Nat /\ Len(t) \in Nat /\ Len(s \o t) = Len(s) + Len(t)
         /\ \A i \in 1 .. Len(s) : (s \o t)[i] = s[i]
         /\ \A i \in 1 .. Len(t) : (s \o t)[Len(s) + i] = t[i]
OBVIOUS

\* The buffer of a frame accepted is the frame and its checksum.
LEMMA AcceptedFacts ==
  ASSUME Capacity <= Word + 3, NEW p \in Parser, CrcLags(p), Filtered(p), AcceptedByFlag(p)
  PROVE  LET f      == FrameIn(p)
             octets == <<f.address, f.ctrl>> \o f.info
             crc    == Checksum(octets)
         IN  f.address \in Addresses /\ p.buffer = octets \o <<crc % 256, crc \div 256>>
<1> DEFINE s      == p.buffer
           n      == Len(s)
           f      == FrameIn(p)
           head   == <<s[1], s[2]>>
           body   == SubSeq(s, 3, n - 2)
           octets == head \o body
           front  == SubSeq(s, 1, n - 2)
           lo     == s[n - 1]
           hi     == s[n]
           tail   == <<lo, hi>>
<1>1. /\ s \in Seq(Octet) /\ n \in Nat /\ n >= 4 /\ n <= Capacity /\ Capacity \in Nat
      /\ rx_index(p) = n
  BY FramingAssumption DEF Parser, AcceptedByFlag, rx_index, MIN_FRAME_LEN
<1>2. dlen(p) = n - 2 BY <1>1 DEF dlen, FCS_LEN
<1>3. p.rx_crc = Checksum(front) BY <1>2 DEF CrcLags, AcceptedByFlag
<1>4. p.rx_crc = lo + (256 * hi)
  <2>1. (n - 2) + 1 = n - 1 /\ (n - 2) + 2 = n BY <1>1
  <2> QED BY <1>2, <2>1 DEF AcceptedByFlag, rx_fcs
<1>5. lo \in Octet /\ hi \in Octet /\ s[1] \in Octet /\ s[2] \in Octet BY <1>1
<1>6. p.rx_crc % 256 = lo /\ p.rx_crc \div 256 = hi
  <2> HIDE DEF lo, hi
  <2>1. lo \in 0 .. 255 /\ hi \in 0 .. 255 BY <1>5 DEF Octet
  <2>2. (lo + (256 * hi)) % 256 = lo /\ (lo + (256 * hi)) \div 256 = hi BY ONLY <2>1
  <2> QED BY <1>4, <2>2
<1>7. f.address = s[1] /\ f.ctrl = s[2] /\ f.info = body
  <2>1. (n - 2) - 2 \in 0 .. (Word - 1) BY <1>1, WordFacts
  <2>2. ((n - 2) - 2) % Word = (n - 2) - 2
    <3> DEFINE k == (n - 2) - 2
    <3>1. k \in Nat /\ k < Word /\ Word \in Nat BY <2>1, WordFacts
    <3> HIDE DEF k
    <3>2. k % Word = k BY ONLY <3>1
    <3> QED BY <3>2 DEF k
  <2>3. 2 + ((n - 2) - 2) = n - 2 BY <1>1
  <2> QED BY <1>2, <2>2, <2>3 DEF FrameIn
<1>8. f.address \in Addresses
  <2>1. s # << >> BY <1>1
  <2> QED BY <1>7, <2>1 DEF Filtered
<1>9. head \in Seq(Octet) /\ Len(head) = 2 /\ head[1] = s[1] /\ head[2] = s[2] BY <1>5
<1>10. tail \in Seq(Octet) /\ Len(tail) = 2 /\ tail[1] = lo /\ tail[2] = hi BY <1>5
<1>11. body \in Seq(Octet) /\ Len(body) = n - 4 /\ \A i \in 1 .. (n - 4) : body[i] = s[i + 2]
  BY <1>1
<1>12. front \in Seq(Octet) /\ Len(front) = n - 2 /\ \A i \in 1 .. (n - 2) : front[i] = s[i]
  BY <1>1
<1> HIDE DEF s, n, head, body, front, tail, f
<1>13. octets \in Seq(Octet) /\ Len(octets) = n - 2 /\ \A i \in 1 .. (n - 2) : octets[i] = s[i]
  <2>1. head \in Seq(Octet) /\ body \in Seq(Octet) BY <1>9, <1>11
  <2>2. octets \in Seq(Octet) /\ Len(octets) = Len(head) + Len(body) BY ONLY <2>1, Joined, Zenon
  <2>3. octets \in Seq(Octet) /\ Len(octets) = 2 + (n - 4) BY <1>9, <1>11, <2>2
  <2>4. 2 + (n - 4) = n - 2 BY <1>1
  <2>5. ASSUME NEW i \in 1 .. (n - 2) PROVE octets[i] = s[i]
    <3>1. CASE i <= 2
      <4>1. i = 1 \/ i = 2 BY <1>1, <3>1
      <4>2. i \in 1 .. 2 BY <4>1
      <4>3. octets[i] = head[i] BY <1>9, <1>11, <4>2, Joined
      <4> QED BY <1>9, <4>1, <4>3
    <3>2. CASE ~(i <= 2)
      <4> DEFINE j == i - 2
      <4>1. j \in 1 .. (n - 4) /\ i = 2 + j /\ i = j + 2 BY <1>1, <3>2
      <4>2. octets[2 + j] = body[j]
        <5> HIDE DEF j
        <5>1. j \in 1 .. Len(body) BY <1>11, <4>1
        <5>2. octets[Len(head) + j] = body[j] BY ONLY <2>1, <5>1, Joined, Zenon
        <5> QED BY <1>9, <5>2
      <4> HIDE DEF j
      <4> QED BY <1>11, <4>1, <4>2
    <3> QED BY <3>1, <3>2
  <2> QED BY <2>3, <2>5, <2>4
<1> HIDE DEF octets
<1>14. octets = front
  <2>1. octets = [i \in 1 .. (n - 2) |-> octets[i]] BY <1>13
  <2>2. front = [i \in 1 .. (n - 2) |-> front[i]] BY <1>12
  <2>3. \A i \in 1 .. (n - 2) : octets[i] = front[i] BY <1>12, <1>13
  <2> QED BY <2>1, <2>2, <2>3
<1>15. s = octets \o tail
  <2> DEFINE whole == octets \o tail
  <2>1. whole \in Seq(Octet) /\ Len(whole) = n
    <3>1. octets \in Seq(Octet) /\ tail \in Seq(Octet) BY <1>10, <1>13
    <3>2. whole \in Seq(Octet) /\ Len(whole) = Len(octets) + Len(tail)
      BY ONLY <3>1, Joined, Zenon
    <3>3. (n - 2) + 2 = n BY <1>1
    <3> QED BY <1>10, <1>13, <3>2, <3>3
  <2>2. ASSUME NEW i \in 1 .. n PROVE whole[i] = s[i]
    <3>1. CASE i <= n - 2
      <4>1. i \in 1 .. (n - 2) BY <1>1, <3>1
      <4>2. whole[i] = octets[i] BY <1>10, <1>13, <4>1, Joined
      <4> QED BY <1>13, <4>1, <4>2
    <3>2. CASE ~(i <= n - 2)
      <4>1. whole[(n - 2) + 1] = tail[1] /\ whole[(n - 2) + 2] = tail[2]
        <5>1. 1 \in 1 .. Len(tail) /\ 2 \in 1 .. Len(tail) BY <1>10
        <5>2. octets \in Seq(Octet) /\ tail \in Seq(Octet) BY <1>10, <1>13
        <5>3. whole[Len(octets) + 1] = tail[1] /\ whole[Len(octets) + 2] = tail[2]
          BY ONLY <5>1, <5>2, Joined, Zenon
        <5> QED BY <1>13, <5>3
      <4>2. i = n - 1 \/ i = n BY <1>1, <3>2
      <4>3. (n - 2) + 1 = n - 1 /\ (n - 2) + 2 = n BY <1>1
      <4> QED BY <1>10, <4>1, <4>2, <4>3 DEF lo, hi
    <3> QED BY <3>1, <3>2
  <2> HIDE DEF whole
  <2>3. whole = [i \in 1 .. n |-> whole[i]] BY <2>1
  <2>4. s = [i \in 1 .. n |-> s[i]] BY <1>1 DEF n
  <2>5. whole = s BY <2>2, <2>3, <2>4
  <2> QED BY <2>5 DEF whole
<1>16. Checksum(octets) % 256 = lo /\ Checksum(octets) \div 256 = hi BY <1>3, <1>6, <1>14
<1> QED BY <1>7, <1>8, <1>15, <1>16 DEF octets, head, tail, s, f

\* Damage never gets past the checksum and the filter: over any line, what is
\* dispatched is what the buffer holds, and its checksum follows it (Store,
\* handle_flag and atc_hdlc_abort), for every driver, as long as the length of
\* an information field fits info_len.
THEOREM CheckedSafe ==
  ASSUME CrcDriver, Capacity <= Word + 3
  PROVE  Spec => CheckedDelivery
<1> DEFINE Inv == PathInv /\ CrcLags(parser) /\ Filtered(parser)
<1>1. Init => Inv
  <2>1. Init => CrcLags(parser) BY FreshLags DEF Init
  <2>2. Init => Filtered(parser) BY DEF Init, Fresh, Filtered
  <2> QED BY <2>1, <2>2, PathInit
<1>2. Inv /\ [Next]_vars => Inv'
  <2> SUFFICES ASSUME Inv, [Next]_vars PROVE Inv' OBVIOUS
  <2>1. PathInv' BY PathNext
  <2>2. CASE Consume
    <3>1. parser' = rx_byte(parser, b) BY <2>2 DEF Consume
    <3>2. parser \in Parser /\ b \in Octet BY DEF PathInv, TypeOK
    <3>3. CrcLags(rx_byte(parser, b)) /\ Filtered(rx_byte(parser, b))
      BY <3>2, RxByteLags, RxByteFilters
    <3> QED BY <2>1, <3>1, <3>3 DEF CrcLags, Filtered
  <2>3. CASE ReceiverAbort
    <3>1. parser'.rx_state = "HUNT" /\ parser'.buffer = parser.buffer
      BY <2>3 DEF ReceiverAbort, PathInv, Parser
    <3> QED BY <2>1, <3>1 DEF CrcLags, Filtered
  <2>4. CASE ~Consume /\ ~ReceiverAbort
    <3>1. parser' = parser BY <2>4, OthersSpareParser
    <3> QED BY <2>1, <3>1 DEF CrcLags, Filtered
  <2> QED BY <2>2, <2>3, <2>4
<1>3. Inv /\ [Next]_vars =>
        [got' # << >> =>
           LET f      == got'[1]
               octets == <<f.address, f.ctrl>> \o f.info
               crc    == Checksum(octets)
           IN /\ f.address \in {my_address, peer_address, BROADCAST}
              /\ parser.buffer = octets \o <<crc % 256, crc \div 256>>]_vars
  <2> SUFFICES ASSUME Inv, Next, got' # << >>
               PROVE  LET f      == got'[1]
                          octets == <<f.address, f.ctrl>> \o f.info
                          crc    == Checksum(octets)
                      IN /\ f.address \in {my_address, peer_address, BROADCAST}
                         /\ parser.buffer = octets \o <<crc % 256, crc \div 256>>
    OBVIOUS
  <2>1. Consume
    BY DEF Next, FrameSend, UiStart, UiData, UiEnd, SenderAbort, LoseOctet, ChangeOctet, InsertOctet,
           IdleOctet, uart_rx_isr, uart_rx_isr_full, Fetch, Writes, LineNoise, ReceiverAbort
  <2>2. AcceptedByFlag(parser) /\ got' = <<FrameIn(parser)>> BY <2>1 DEF Consume, Dispatched
  <2>3. got'[1] = FrameIn(parser) BY <2>2
  <2>4. parser \in Parser BY DEF PathInv
  <2> QED BY <2>2, <2>3, <2>4, AcceptedFacts DEF Addresses
<1> HIDE DEF Inv
<1> QED BY <1>1, <1>2, <1>3, PTL DEF Spec, CheckedDelivery

==========================================================================
