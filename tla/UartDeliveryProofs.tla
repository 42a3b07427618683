------------------------- MODULE UartDeliveryProofs -------------------------
(***************************************************************************)
(* Theorems about what arrives: the frames dispatched by the parser at one *)
(* end of the octet line against those written at the other.               *)
(***************************************************************************)
EXTENDS UartPathProofs, SequenceTheorems

(***************************************************************************)
(* The parser on a sequence of octets: fed(p, octets)[k] is what p becomes *)
(* when it has read the first k of them.                                   *)
(***************************************************************************)
fed(p, octets) ==
  LET at[k \in 0 .. Len(octets)] == IF k = 0 THEN p ELSE rx_byte(at[k - 1], octets[k])
  IN at

\* The parser at the end of the octets, and the frames it dispatches on octet k.
After(p, octets)       == fed(p, octets)[Len(octets)]
OnOctet(p, octets, k)  == Dispatched(fed(p, octets)[k - 1], octets[k])

LEMMA FedDefined ==
  ASSUME NEW p, NEW octets \in Seq(Octet)
  PROVE  fed(p, octets) = [k \in 0 .. Len(octets) |->
                             IF k = 0 THEN p ELSE rx_byte(fed(p, octets)[k - 1], octets[k])]
<1> DEFINE Loops(g, n) ==
             g = [k \in 0 .. n |-> IF k = 0 THEN p ELSE rx_byte(g[k - 1], octets[k])]
           S == {n \in Nat : \E g : Loops(g, n)}
<1>1. 0 \in S
  <2>1. Loops([k \in 0 .. 0 |-> p], 0) OBVIOUS
  <2> HIDE DEF Loops
  <2> QED BY <2>1
<1>2. ASSUME NEW n \in Nat, n \in S PROVE n + 1 \in S
  <2>1. PICK g : Loops(g, n) BY <1>2
  <2> DEFINE h == [k \in 0 .. (n + 1) |-> IF k = n + 1 THEN rx_byte(g[n], octets[n + 1]) ELSE g[k]]
  <2>2. ASSUME NEW k \in 0 .. (n + 1)
        PROVE  h[k] = IF k = 0 THEN p ELSE rx_byte(h[k - 1], octets[k])
    <3>1. CASE k = n + 1
      <4>1. h[k] = rx_byte(g[n], octets[k]) BY <3>1
      <4>2. h[k - 1] = g[n] BY <3>1
      <4> QED BY <3>1, <4>1, <4>2
    <3>2. CASE k # n + 1
      <4>1. k \in 0 .. n BY <3>2
      <4>2. h[k] = g[k] BY <3>2
      <4>3. g[k] = IF k = 0 THEN p ELSE rx_byte(g[k - 1], octets[k]) BY <2>1, <4>1
      <4>4. k # 0 => h[k - 1] = g[k - 1] BY <4>1
      <4> HIDE DEF h
      <4> QED BY <4>2, <4>3, <4>4
    <3> QED BY <3>1, <3>2
  <2>3. Loops(h, n + 1) BY <2>2
  <2> HIDE DEF Loops, h
  <2> QED BY <2>3
<1> HIDE DEF S
<1>3. Nat \subseteq S BY <1>1, <1>2, Induction
<1>4. Len(octets) \in S BY <1>3
<1>5. \E g : Loops(g, Len(octets)) BY <1>4 DEF S
<1>6. fed(p, octets) = CHOOSE g : Loops(g, Len(octets)) BY DEF fed
<1> HIDE DEF Loops
<1>7. Loops(fed(p, octets), Len(octets)) BY <1>5, <1>6
<1> QED BY <1>7 DEF Loops

LEMMA FedSteps ==
  ASSUME NEW p, NEW octets \in Seq(Octet)
  PROVE  /\ fed(p, octets)[0] = p
         /\ \A k \in Nat : k < Len(octets) =>
              fed(p, octets)[k + 1] = rx_byte(fed(p, octets)[k], octets[k + 1])
<1> DEFINE body(k) == IF k = 0 THEN p ELSE rx_byte(fed(p, octets)[k - 1], octets[k])
<1>1. fed(p, octets) = [k \in 0 .. Len(octets) |-> body(k)] BY FedDefined
<1>2. \A k \in 0 .. Len(octets) : fed(p, octets)[k] = body(k)
  <2> HIDE DEF body
  <2> QED BY <1>1
<1>3. Len(octets) \in Nat OBVIOUS
<1>4. fed(p, octets)[0] = p BY <1>2, <1>3
<1>5. ASSUME NEW k \in Nat, k < Len(octets)
      PROVE  fed(p, octets)[k + 1] = rx_byte(fed(p, octets)[k], octets[k + 1])
  <2>1. k + 1 \in 0 .. Len(octets) /\ k + 1 # 0 /\ (k + 1) - 1 = k BY <1>3, <1>5
  <2>2. fed(p, octets)[k + 1] = body(k + 1) BY <1>2, <2>1
  <2> QED BY <2>1, <2>2
<1> QED BY <1>4, <1>5

\* What follows the octets does not change how they are read.
LEMMA FedFront ==
  ASSUME NEW p, NEW octets \in Seq(Octet), NEW more \in Seq(Octet)
  PROVE  \A k \in 0 .. Len(octets) : fed(p, octets \o more)[k] = fed(p, octets)[k]
<1> DEFINE all == octets \o more
           S == {k \in Nat : k <= Len(octets) => fed(p, all)[k] = fed(p, octets)[k]}
<1>0. all \in Seq(Octet) /\ Len(all) = Len(octets) + Len(more) OBVIOUS
<1>1. 0 \in S BY <1>0, FedSteps
<1>2. ASSUME NEW k \in Nat, k \in S PROVE k + 1 \in S
  <2> SUFFICES ASSUME k + 1 <= Len(octets) PROVE fed(p, all)[k + 1] = fed(p, octets)[k + 1]
    OBVIOUS
  <2>1. k < Len(octets) /\ k < Len(all) /\ all[k + 1] = octets[k + 1] BY <1>0
  <2>2. fed(p, all)[k] = fed(p, octets)[k] BY <1>2
  <2> HIDE DEF all
  <2>3. fed(p, all)[k + 1] = rx_byte(fed(p, all)[k], all[k + 1]) BY <1>0, <2>1, FedSteps
  <2>4. fed(p, octets)[k + 1] = rx_byte(fed(p, octets)[k], octets[k + 1]) BY <2>1, FedSteps
  <2> QED BY <2>1, <2>2, <2>3, <2>4
<1>3. Nat \subseteq S
  <2> HIDE DEF S
  <2> QED BY <1>1, <1>2, Induction
<1> HIDE DEF all
<1>4. \A k \in 0 .. Len(octets) : fed(p, all)[k] = fed(p, octets)[k] BY <1>3
<1> QED BY <1>4 DEF all

\* The rest of the octets is read from where the first of them lead.
LEMMA FedRest ==
  ASSUME NEW p, NEW octets \in Seq(Octet), NEW more \in Seq(Octet)
  PROVE  \A k \in 0 .. Len(more) :
           fed(p, octets \o more)[Len(octets) + k] = fed(After(p, octets), more)[k]
<1> DEFINE all == octets \o more
           q   == After(p, octets)
           S == {k \in Nat : k <= Len(more) => fed(p, all)[Len(octets) + k] = fed(q, more)[k]}
<1>0. all \in Seq(Octet) /\ Len(all) = Len(octets) + Len(more) OBVIOUS
<1>1. 0 \in S
  <2>1. Len(octets) + 0 = Len(octets) /\ Len(octets) \in 0 .. Len(octets) OBVIOUS
  <2>2. fed(p, all)[Len(octets)] = q BY <2>1, FedFront DEF After
  <2>3. fed(q, more)[0] = q BY FedSteps
  <2> QED BY <2>1, <2>2, <2>3
<1>2. ASSUME NEW k \in Nat, k \in S PROVE k + 1 \in S
  <2> SUFFICES ASSUME k + 1 <= Len(more)
               PROVE  fed(p, all)[Len(octets) + (k + 1)] = fed(q, more)[k + 1]
    OBVIOUS
  <2> DEFINE n == Len(octets) + k
  <2>1. Len(octets) \in Nat /\ k < Len(more) OBVIOUS
  <2>2. n \in Nat /\ n < Len(all) /\ Len(octets) + (k + 1) = n + 1 BY <1>0, <2>1
  <2>3. all[n + 1] = more[k + 1] BY <2>1
  <2>4. fed(p, all)[n] = fed(q, more)[k] BY <1>2
  <2> HIDE DEF all, n, q
  <2>5. fed(p, all)[n + 1] = rx_byte(fed(p, all)[n], all[n + 1]) BY <1>0, <2>2, FedSteps
  <2>6. fed(q, more)[k + 1] = rx_byte(fed(q, more)[k], more[k + 1]) BY <2>1, FedSteps
  <2> QED BY <2>2, <2>3, <2>4, <2>5, <2>6
<1>3. Nat \subseteq S
  <2> HIDE DEF S
  <2> QED BY <1>1, <1>2, Induction
<1> HIDE DEF all, q
<1>4. \A k \in 0 .. Len(more) : fed(p, all)[Len(octets) + k] = fed(q, more)[k] BY <1>3
<1> QED BY <1>4 DEF all, q

LEMMA FedType ==
  ASSUME CrcDriver, NEW p \in Parser, NEW octets \in Seq(Octet)
  PROVE  \A k \in 0 .. Len(octets) : fed(p, octets)[k] \in Parser
<1> DEFINE S == {k \in Nat : k <= Len(octets) => fed(p, octets)[k] \in Parser}
<1>1. 0 \in S BY FedSteps
<1>2. ASSUME NEW k \in Nat, k \in S PROVE k + 1 \in S
  <2> SUFFICES ASSUME k + 1 <= Len(octets) PROVE fed(p, octets)[k + 1] \in Parser OBVIOUS
  <2>1. k < Len(octets) /\ octets[k + 1] \in Octet OBVIOUS
  <2>2. fed(p, octets)[k + 1] = rx_byte(fed(p, octets)[k], octets[k + 1]) BY <2>1, FedSteps
  <2>3. fed(p, octets)[k] \in Parser BY <1>2, <2>1
  <2> QED BY <2>1, <2>2, <2>3, RxByteType
<1>3. Nat \subseteq S
  <2> HIDE DEF S
  <2> QED BY <1>1, <1>2, Induction
<1> QED BY <1>3

LEMMA AfterType ==
  ASSUME CrcDriver, NEW p \in Parser, NEW octets \in Seq(Octet)
  PROVE  After(p, octets) \in Parser
<1>1. Len(octets) \in 0 .. Len(octets) OBVIOUS
<1> QED BY <1>1, FedType DEF After

LEMMA AfterNone ==
  ASSUME NEW p
  PROVE  After(p, << >>) = p
<1>1. << >> \in Seq(Octet) /\ Len(<< >>) = 0 OBVIOUS
<1> QED BY <1>1, FedSteps DEF After

LEMMA AfterOne ==
  ASSUME NEW p, NEW x \in Octet
  PROVE  After(p, <<x>>) = rx_byte(p, x)
<1>1. /\ <<x>> \in Seq(Octet) /\ Len(<<x>>) = 1 /\ <<x>>[0 + 1] = x /\ 0 + 1 = 1
      /\ 0 < 1 /\ 0 \in Nat
  OBVIOUS
<1>2. fed(p, <<x>>)[0 + 1] = rx_byte(fed(p, <<x>>)[0], <<x>>[0 + 1]) BY <1>1, FedSteps
<1>3. fed(p, <<x>>)[0] = p BY <1>1, FedSteps
<1> QED BY <1>1, <1>2, <1>3 DEF After

LEMMA AfterBoth ==
  ASSUME NEW p, NEW octets \in Seq(Octet), NEW more \in Seq(Octet)
  PROVE  After(p, octets \o more) = After(After(p, octets), more)
<1>1. Len(octets \o more) = Len(octets) + Len(more) /\ Len(more) \in 0 .. Len(more) OBVIOUS
<1> QED BY <1>1, FedRest DEF After

LEMMA OnFront ==
  ASSUME NEW p, NEW octets \in Seq(Octet), NEW more \in Seq(Octet), NEW k \in 1 .. Len(octets)
  PROVE  OnOctet(p, octets \o more, k) = OnOctet(p, octets, k)
<1>1. k - 1 \in 0 .. Len(octets) /\ (octets \o more)[k] = octets[k] OBVIOUS
<1>2. fed(p, octets \o more)[k - 1] = fed(p, octets)[k - 1] BY <1>1, FedFront
<1> QED BY <1>1, <1>2 DEF OnOctet

LEMMA OnRest ==
  ASSUME NEW p, NEW octets \in Seq(Octet), NEW more \in Seq(Octet), NEW k \in 1 .. Len(more)
  PROVE  OnOctet(p, octets \o more, Len(octets) + k) = OnOctet(After(p, octets), more, k)
<1>1. /\ k - 1 \in 0 .. Len(more) /\ (octets \o more)[Len(octets) + k] = more[k]
      /\ (Len(octets) + k) - 1 = Len(octets) + (k - 1)
  OBVIOUS
<1>2. fed(p, octets \o more)[Len(octets) + (k - 1)] = fed(After(p, octets), more)[k - 1]
  BY <1>1, FedRest
<1> QED BY <1>1, <1>2 DEF OnOctet

LEMMA OnFirst ==
  ASSUME NEW p, NEW octets \in Seq(Octet)
  PROVE  OnOctet(p, octets, 1) = Dispatched(p, octets[1])
<1>1. fed(p, octets)[1 - 1] = p BY FedSteps
<1> QED BY <1>1 DEF OnOctet

\* Nothing is dispatched from octet i on.
QuietFrom(p, octets, i) == \A k \in i .. Len(octets) : OnOctet(p, octets, k) = << >>

LEMMA QuietBoth ==
  ASSUME NEW p, NEW octets \in Seq(Octet), NEW more \in Seq(Octet), NEW i \in {1, 2},
         QuietFrom(p, octets, i), QuietFrom(After(p, octets), more, 1)
  PROVE  QuietFrom(p, octets \o more, i)
<1> SUFFICES ASSUME NEW k \in i .. Len(octets \o more)
             PROVE  OnOctet(p, octets \o more, k) = << >>
  BY DEF QuietFrom
<1>0. Len(octets) \in Nat /\ Len(more) \in Nat /\ Len(octets \o more) = Len(octets) + Len(more)
  OBVIOUS
<1>1. CASE k <= Len(octets)
  <2>1. k \in i .. Len(octets) /\ k \in 1 .. Len(octets) BY <1>1
  <2> QED BY <2>1, OnFront DEF QuietFrom
<1>2. CASE k > Len(octets)
  <2> DEFINE j == k - Len(octets)
  <2>1. j \in 1 .. Len(more) /\ k = Len(octets) + j BY <1>0, <1>2
  <2> HIDE DEF j
  <2> QED BY <2>1, OnRest DEF QuietFrom
<1> QED BY <1>0, <1>1, <1>2

(***************************************************************************)
(* Stuffing.                                                               *)
(***************************************************************************)
LEMMA Pair ==
  ASSUME NEW x \in Octet, NEW y \in Octet
  PROVE  Append(<<x>>, y) = <<x, y>> /\ <<x>> \o <<y>> = <<x, y>>
<1>1. /\ <<x, y>> \in Seq(Octet) /\ Len(<<x, y>>) = 2
      /\ <<x, y>>[1] = x /\ <<x, y>>[2] = y
  OBVIOUS
<1>2. <<x>> \in Seq(Octet) /\ <<y>> \in Seq(Octet) OBVIOUS
<1>3. /\ Append(<<x>>, y) \in Seq(Octet) /\ Len(Append(<<x>>, y)) = 2
      /\ Append(<<x>>, y)[1] = x /\ Append(<<x>>, y)[2] = y
  BY <1>2
<1>4. /\ <<x>> \o <<y>> \in Seq(Octet) /\ Len(<<x>> \o <<y>>) = 2
      /\ (<<x>> \o <<y>>)[1] = x /\ (<<x>> \o <<y>>)[2] = y
  BY <1>2
<1>5. ASSUME NEW s \in Seq(Octet), NEW t \in Seq(Octet), Len(s) = 2, Len(t) = 2,
             s[1] = t[1], s[2] = t[2]
      PROVE  s = t
  <2>1. \A i \in 1 .. Len(s) : s[i] = t[i]
    <3>1. ASSUME NEW i \in 1 .. Len(s) PROVE i = 1 \/ i = 2 BY <1>5
    <3> QED BY <1>5, <3>1
  <2> QED BY <1>5, <2>1, SeqEqual
<1>6. Append(<<x>>, y) = <<x, y>> BY ONLY <1>1, <1>3, <1>5
<1>7. <<x>> \o <<y>> = <<x, y>> BY ONLY <1>1, <1>4, <1>5
<1> QED BY <1>6, <1>7

LEMMA Stuffed ==
  ASSUME NEW x \in Octet
  PROVE  \/ x \notin {FLAG, ESC} /\ put_escaped(x) = <<x>>
         \/ /\ put_escaped(x) = <<ESC>> \o <<XorMask(x)>>
            /\ XorMask(x) \in Octet \ {FLAG, ESC}
            /\ XorMask(XorMask(x)) = x
<1>1. CASE x \notin {FLAG, ESC} BY <1>1 DEF put_escaped
<1>2. CASE x \in {FLAG, ESC}
  <2>1. XorMask(126) = 94 /\ XorMask(125) = 93 /\ XorMask(94) = 126 /\ XorMask(93) = 125
    BY DEF XorMask
  <2>2. put_escaped(x) = <<ESC>> \o <<XorMask(x)>> BY <1>2 DEF put_escaped
  <2>3. x \in {126, 125} BY <1>2 DEF FLAG, ESC
  <2>4. XorMask(x) \in {94, 93} /\ XorMask(XorMask(x)) = x BY <2>1, <2>3
  <2>5. XorMask(x) \in Octet \ {FLAG, ESC} BY <2>4 DEF Octet, FLAG, ESC
  <2> QED BY <2>2, <2>4, <2>5
<1> QED BY <1>1, <1>2

LEMMA FlagOctets ==
  /\ FLAG \in Octet /\ ESC \in Octet /\ FLAG # ESC
  /\ <<FLAG>> \in Seq(Octet) /\ <<ESC>> \in Seq(Octet)
BY DEF FLAG, ESC, Octet

\* Only flags dispatch, and no stuffed octet is one.
LEMMA StuffedQuiet ==
  ASSUME NEW p, NEW x \in Octet
  PROVE  QuietFrom(p, put_escaped(x), 1)
<1>1. ASSUME NEW k \in 1 .. Len(put_escaped(x)) PROVE put_escaped(x)[k] # FLAG
  <2>1. CASE x \notin {FLAG, ESC} /\ put_escaped(x) = <<x>> BY <2>1
  <2>2. CASE put_escaped(x) = <<ESC>> \o <<XorMask(x)>> /\ XorMask(x) # FLAG
    <3>1. <<ESC>> \o <<XorMask(x)>> = <<ESC, XorMask(x)>> BY FlagOctets, MaskOctet, Pair
    <3> QED BY <2>2, <3>1, FlagOctets
  <2> QED BY <2>1, <2>2, Stuffed
<1> QED BY <1>1 DEF QuietFrom, OnOctet, Dispatched

\* A stuffed octet is stored as it was before stuffing ...
LEMMA StuffedStored ==
  ASSUME NEW p \in Parser, NEW x \in Octet,
         \/ p.rx_state = "DATA"
         \/ p.rx_state = "ADDR" /\ rx_index(p) = 0
  PROVE  After(p, put_escaped(x)) = Store(p, x)
<1>1. CASE x \notin {FLAG, ESC} /\ put_escaped(x) = <<x>>
  <2>1. rx_byte(p, x) = Store(p, x) BY <1>1 DEF rx_byte
  <2> QED BY <1>1, <2>1, AfterOne
<1>2. CASE /\ put_escaped(x) = <<ESC>> \o <<XorMask(x)>>
           /\ XorMask(x) \in Octet \ {FLAG, ESC}
           /\ XorMask(XorMask(x)) = x
  <2> DEFINE e == [p EXCEPT !.rx_state = "ESC"]
             d == [p EXCEPT !.rx_state = "DATA"]
  <2>1. rx_byte(p, ESC) = e BY FlagOctets DEF rx_byte
  <2>2. e.rx_state = "ESC" /\ [e EXCEPT !.rx_state = "DATA"] = d BY DEF Parser
  <2>3. rx_byte(e, XorMask(x)) = Store(d, x) BY <1>2, <2>2 DEF rx_byte
  <2>4. Store(d, x) = Store(p, x)
    <3>1. d.buffer = p.buffer /\ d.rx_crc = p.rx_crc /\ d.rx_state = "DATA" BY DEF Parser
    <3> HIDE DEF d
    <3> QED BY <3>1 DEF Store, rx_index
  <2>5. <<XorMask(x)>> \in Seq(Octet) BY <1>2
  <2>6. After(p, put_escaped(x)) = After(After(p, <<ESC>>), <<XorMask(x)>>)
    BY <1>2, <2>5, FlagOctets, AfterBoth
  <2>7. After(p, <<ESC>>) = e BY <2>1, FlagOctets, AfterOne
  <2>8. After(e, <<XorMask(x)>>) = rx_byte(e, XorMask(x)) BY <1>2, AfterOne
  <2> HIDE DEF e, d
  <2> QED BY <2>3, <2>4, <2>6, <2>7, <2>8
<1> QED BY <1>1, <1>2, Stuffed

\* ... and a parser that hunts passes over it.
LEMMA StuffedPassed ==
  ASSUME NEW p, p.rx_state = "HUNT", NEW x \in Octet
  PROVE  After(p, put_escaped(x)) = p
<1>1. ASSUME NEW y \in Octet, y # FLAG PROVE After(p, <<y>>) = p
  <2>1. rx_byte(p, y) = p BY <1>1 DEF rx_byte
  <2> QED BY <2>1, AfterOne
<1>2. CASE x \notin {FLAG, ESC} /\ put_escaped(x) = <<x>> BY <1>1, <1>2
<1>3. CASE /\ put_escaped(x) = <<ESC>> \o <<XorMask(x)>>
           /\ XorMask(x) \in Octet \ {FLAG, ESC}
           /\ XorMask(XorMask(x)) = x
  <2>1. <<XorMask(x)>> \in Seq(Octet) BY <1>3
  <2>2. After(p, put_escaped(x)) = After(After(p, <<ESC>>), <<XorMask(x)>>)
    BY <1>3, <2>1, FlagOctets, AfterBoth
  <2> QED BY <1>1, <1>3, <2>2, FlagOctets
<1> QED BY <1>2, <1>3, Stuffed

(***************************************************************************)
(* A frame being received.  The parser has read the address, the control   *)
(* octet and n octets of the payload: either it holds them all, and its    *)
(* checksum lags the sender's by the two octets that may yet turn out to   *)
(* be the frame check sequence; or the frame is not for this station, or   *)
(* too long, and the parser hunts.                                         *)
(***************************************************************************)
Fits(data) == data[1] \in {my_address, peer_address, BROADCAST} /\ Len(data) <= Capacity

InStep(p, crc, data) ==
  IF Fits(data)
  THEN /\ p.rx_state = "DATA" /\ p.buffer = data
       /\ crc = compute(compute(p.rx_crc, data[Len(data) - 1]), data[Len(data)])
  ELSE p.rx_state = "HUNT"

\* Store, beyond the first two octets.
LEMMA StoreLate ==
  ASSUME NEW p \in Parser, p.rx_state = "DATA", NEW data \in Seq(Octet), p.buffer = data,
         Len(data) >= 2, NEW x \in Octet
  PROVE  Store(p, x) = IF Len(data) < Capacity
                       THEN [rx_state |-> "DATA", buffer |-> Append(data, x),
                             rx_crc |-> compute(p.rx_crc, data[Len(data) - 1])]
                       ELSE Fresh("HUNT")
<1>1. /\ rx_index(p) = Len(data) /\ rx_index(p) # 0 /\ rx_index(p) >= FCS_LEN
      /\ Len(data) \in Nat /\ Capacity \in Nat
  BY FramingAssumption DEF rx_index, FCS_LEN
<1>2. Append(data, x)[rx_index(p) - FCS_LEN + 1] = data[Len(data) - 1]
  <2>1. rx_index(p) - FCS_LEN + 1 = Len(data) - 1 BY <1>1 DEF FCS_LEN
  <2>2. Len(data) - 1 \in 1 .. Len(data) BY <1>1
  <2> QED BY <2>1, <2>2
<1>3. CASE Len(data) < Capacity
  <2>1. ~(rx_index(p) >= Capacity) BY <1>1, <1>3
  <2> QED BY <1>1, <1>2, <1>3, <2>1 DEF Store
<1>4. CASE ~(Len(data) < Capacity)
  <2>1. rx_index(p) >= Capacity BY <1>1, <1>4
  <2> QED BY <1>4, <2>1 DEF Store
<1> QED BY <1>3, <1>4

LEMMA StuffedInStep ==
  ASSUME CrcDriver, NEW p \in Parser, NEW data \in Seq(Octet), Len(data) >= 2,
         NEW crc \in U16, InStep(p, crc, data), NEW x \in Octet
  PROVE  InStep(After(p, put_escaped(x)), compute(crc, x), Append(data, x))
<1> DEFINE q    == After(p, put_escaped(x))
           more == Append(data, x)
<1>0. /\ Len(data) \in Nat /\ Capacity \in Nat /\ Len(more) = Len(data) + 1
      /\ more[1] = data[1] /\ more[Len(more)] = x /\ more[Len(more) - 1] = data[Len(data)]
  BY FramingAssumption
<1>1. CASE Fits(more)
  <2>1. Fits(data) /\ Len(data) < Capacity BY <1>0, <1>1 DEF Fits
  <2>2. /\ p.rx_state = "DATA" /\ p.buffer = data
        /\ crc = compute(compute(p.rx_crc, data[Len(data) - 1]), data[Len(data)])
    BY <2>1 DEF InStep
  <2>3. q = Store(p, x) BY <2>2, StuffedStored
  <2>4. Store(p, x) = [rx_state |-> "DATA", buffer |-> more,
                       rx_crc |-> compute(p.rx_crc, data[Len(data) - 1])]
    BY <2>1, <2>2, StoreLate
  <2>5. /\ q.rx_state = "DATA" /\ q.buffer = more
        /\ q.rx_crc = compute(p.rx_crc, data[Len(data) - 1])
    BY <2>3, <2>4
  <2>6. compute(crc, x) = compute(compute(q.rx_crc, more[Len(more) - 1]), more[Len(more)])
    BY <1>0, <2>2, <2>5
  <2> HIDE DEF q, more
  <2> QED BY <1>1, <2>5, <2>6 DEF InStep, q, more
<1>2. CASE ~Fits(more) /\ Fits(data)
  <2>1. ~(Len(data) < Capacity) BY <1>0, <1>2 DEF Fits
  <2>2. p.rx_state = "DATA" /\ p.buffer = data BY <1>2 DEF InStep
  <2>3. q = Store(p, x) BY <2>2, StuffedStored
  <2>4. Store(p, x) = Fresh("HUNT") BY <2>1, <2>2, StoreLate
  <2>5. q.rx_state = "HUNT" BY <2>3, <2>4 DEF Fresh
  <2> HIDE DEF q, more
  <2> QED BY <1>2, <2>5 DEF InStep, q, more
<1>3. CASE ~Fits(more) /\ ~Fits(data)
  <2>1. p.rx_state = "HUNT" BY <1>3 DEF InStep
  <2>2. q.rx_state = "HUNT" BY <2>1, StuffedPassed
  <2> HIDE DEF q, more
  <2> QED BY <1>3, <2>2 DEF InStep, q, more
<1> QED BY <1>1, <1>2, <1>3

LEMMA FreshOpen ==
  /\ Fresh("ADDR") \in Parser /\ Fresh("HUNT") \in Parser
  /\ \A p : After(p, <<FLAG>>) = Fresh("ADDR")
<1>1. ASSUME NEW p PROVE After(p, <<FLAG>>) = Fresh("ADDR")
  <2>1. rx_byte(p, FLAG) = Fresh("ADDR") BY FlagOctets DEF rx_byte
  <2> QED BY <2>1, FlagOctets, AfterOne
<1> QED BY <1>1, FreshType DEF RxStates

\* Whatever the parser was doing, it is in step after the opening flag, the
\* address and the control octet.
LEMMA BeginInStep ==
  ASSUME CrcDriver, NEW p \in Parser, NEW address \in Octet, NEW ctrl \in Octet
  PROVE  LET t == frame_begin(address, ctrl)
         IN  /\ InStep(After(p, t.octets), t.tx_crc, <<address, ctrl>>)
             /\ Len(t.octets) >= 1 /\ t.octets[1] = FLAG
             /\ QuietFrom(p, t.octets, 2)
<1> DEFINE a == put_escaped(address)
           c == put_escaped(ctrl)
           t == frame_begin(address, ctrl)
           crc == compute(compute(FCS_INIT_VALUE, address), ctrl)
           data == <<address, ctrl>>
           p0 == Fresh("ADDR")
           p1 == After(p0, a)
           p2 == After(p1, c)
<1>0. a \in Seq(Octet) /\ c \in Seq(Octet) /\ <<FLAG>> \in Seq(Octet) /\ <<FLAG>> \o a \in Seq(Octet)
  BY EscapedOctets, FlagOctets
<1>1. t.tx_crc = crc /\ t.octets = (<<FLAG>> \o a) \o c BY DEF frame_begin, emit
<1>2. After(p, <<FLAG>> \o a) = p1
  <2>1. After(p, <<FLAG>> \o a) = After(After(p, <<FLAG>>), a) BY <1>0, AfterBoth
  <2> QED BY <2>1, FreshOpen
<1>3. After(p, t.octets) = p2
  <2> DEFINE front == <<FLAG>> \o a
  <2>1. After(p, front \o c) = After(After(p, front), c)
    <3> HIDE DEF c, front
    <3> QED BY <1>0, AfterBoth DEF front
  <2> HIDE DEF a, c, t, p1
  <2> QED BY <1>1, <1>2, <2>1
<1>4. p1 = Store(p0, address)
  <2>1. p0.rx_state = "ADDR" /\ rx_index(p0) = 0 /\ p0 \in Parser
    BY FreshOpen DEF Fresh, rx_index
  <2> HIDE DEF p0
  <2> QED BY <2>1, StuffedStored
<1>5. InStep(p2, crc, data)
  <2>1. Len(data) = 2 /\ data[1] = address /\ data[2] = ctrl /\ data[Len(data) - 1] = address
    OBVIOUS
  <2>2. Fits(data) <=> address \in {my_address, peer_address, BROADCAST}
    BY <2>1, FramingAssumption DEF Fits
  <2>3. CASE Fits(data)
    <3>1. p1 = [rx_state |-> "DATA", buffer |-> <<address>>, rx_crc |-> FCS_INIT_VALUE]
      <4>1. Append(<< >>, address) = <<address>> OBVIOUS
      <4>2. /\ p0.rx_state = "ADDR" /\ p0.buffer = << >> /\ p0.rx_crc = FCS_INIT_VALUE
            /\ rx_index(p0) = 0
        BY DEF Fresh, rx_index
      <4>3. ~(0 >= Capacity) /\ ~(0 >= FCS_LEN) BY FramingAssumption DEF FCS_LEN
      <4> HIDE DEF p0
      <4> QED BY <1>4, <2>2, <2>3, <4>1, <4>2, <4>3 DEF Store
    <3>2. p1 \in Parser BY <1>0, FreshOpen, AfterType
    <3>3. p2 = Store(p1, ctrl) BY <3>1, <3>2, StuffedStored
    <3>4. Store(p1, ctrl) = [rx_state |-> "DATA", buffer |-> data, rx_crc |-> FCS_INIT_VALUE]
      <4>1. Append(<<address>>, ctrl) = data BY Pair
      <4>2. /\ p1.rx_state = "DATA" /\ p1.buffer = <<address>> /\ p1.rx_crc = FCS_INIT_VALUE
            /\ rx_index(p1) = 1
        BY <3>1 DEF rx_index
      <4>3. ~(1 >= Capacity) /\ ~(1 >= FCS_LEN) BY FramingAssumption DEF FCS_LEN
      <4> HIDE DEF p1, data
      <4> QED BY <4>1, <4>2, <4>3 DEF Store
    <3> HIDE DEF p1, p2, data
    <3> QED BY <2>1, <2>3, <3>3, <3>4 DEF InStep
  <2>4. CASE ~Fits(data)
    <3>1. rx_index(p0) = 0 BY DEF Fresh, rx_index
    <3>2. p1 = Fresh("HUNT") BY <1>4, <2>2, <2>4, <3>1 DEF Store
    <3>3. p1.rx_state = "HUNT" BY <3>2 DEF Fresh
    <3>4. p2 = p1 BY <3>3, StuffedPassed
    <3> HIDE DEF p1, p2, data
    <3> QED BY <2>4, <3>3, <3>4 DEF InStep
  <2> QED BY <2>3, <2>4
<1>6. Len(t.octets) >= 1 /\ t.octets[1] = FLAG
  <2>1. Len(<<FLAG>>) = 1 /\ <<FLAG>>[1] = FLAG OBVIOUS
  <2> HIDE DEF a, c
  <2> QED BY <1>0, <1>1, <2>1
<1>7. QuietFrom(p, t.octets, 2)
  <2>1. QuietFrom(p, <<FLAG>>, 2) BY DEF QuietFrom
  <2>2. QuietFrom(After(p, <<FLAG>>), a, 1) BY StuffedQuiet
  <2>3. QuietFrom(p, <<FLAG>> \o a, 2) BY <1>0, <2>1, <2>2, QuietBoth
  <2>4. QuietFrom(p1, c, 1) BY StuffedQuiet
  <2> HIDE DEF a, c, p1
  <2> QED BY <1>0, <1>1, <1>2, <2>3, <2>4, QuietBoth
<1> HIDE DEF data, crc, p2
<1> QED BY <1>1, <1>3, <1>5, <1>6, <1>7 DEF data, crc

\* The payload of a frame the receiver must accept is no longer than the
\* sixteen bits handle_flag gives its length.
LengthFits(f) == Wanted(f) => Len(f.info) < Word

Body(f)     == <<f.address, f.ctrl>> \o f.info
Expected(f) == IF Wanted(f) THEN <<f>> ELSE << >>

Frames == [address : Octet, ctrl : Octet, info : Seq(Octet)]

LEMMA BodyFacts ==
  ASSUME NEW f \in Frames
  PROVE  /\ Body(f) \in Seq(Octet) /\ Len(Body(f)) = Len(f.info) + 2
         /\ Body(f)[1] = f.address /\ Body(f)[2] = f.ctrl
         /\ SubSeq(Body(f), 3, Len(Body(f))) = f.info
<1> DEFINE front == <<f.address, f.ctrl>>
<1>1. /\ f.address \in Octet /\ f.ctrl \in Octet /\ f.info \in Seq(Octet)
      /\ Len(f.info) \in Nat
  BY DEF Frames
<1>2. front \in Seq(Octet) /\ Len(front) = 2 /\ front[1] = f.address /\ front[2] = f.ctrl
  BY <1>1
<1> HIDE DEF front
<1>3. /\ front \o f.info \in Seq(Octet) /\ Len(front \o f.info) = Len(f.info) + 2
      /\ (front \o f.info)[1] = front[1] /\ (front \o f.info)[2] = front[2]
  <2> DEFINE info == f.info
  <2>1. info \in Seq(Octet) BY <1>1
  <2> HIDE DEF info
  <2>2. /\ front \o info \in Seq(Octet) /\ Len(front \o info) = Len(front) + Len(info)
        /\ \A i \in 1 .. Len(front) + Len(info) :
             (front \o info)[i] = IF i <= Len(front) THEN front[i] ELSE info[i - Len(front)]
    BY <1>2, <2>1, ConcatProperties
  <2>3. 1 \in 1 .. Len(front) + Len(info) /\ 2 \in 1 .. Len(front) + Len(info)
    BY <1>1, <1>2 DEF info
  <2> QED BY <1>1, <1>2, <2>2, <2>3 DEF info
<1>4. SubSeq(front \o f.info, 3, Len(front \o f.info)) = f.info
  <2> DEFINE s == SubSeq(front \o f.info, 3, Len(f.info) + 2)
  <2>1. s \in Seq(Octet) /\ Len(s) = Len(f.info) BY <1>1, <1>2, <1>3
  <2>2. ASSUME NEW i \in 1 .. Len(s) PROVE s[i] = f.info[i] BY <1>1, <1>2, <1>3, <2>1, <2>2
  <2> HIDE DEF s
  <2>3. s = f.info BY <1>1, <2>1, <2>2, SeqEqual
  <2> QED BY <1>3, <2>3 DEF s
<1> QED BY <1>2, <1>3, <1>4 DEF Body, front

LEMMA Appended ==
  ASSUME NEW s \in Seq(Octet), NEW x \in Octet
  PROVE  /\ Append(s, x) \in Seq(Octet) /\ Len(Append(s, x)) = Len(s) + 1
         /\ Append(s, x)[Len(s) + 1] = x
         /\ \A i \in 1 .. Len(s) : Append(s, x)[i] = s[i]
BY AppendProperties

\* The parser at the closing flag.
LEMMA AtClosing ==
  ASSUME CrcDriver, NEW f \in Frames, LengthFits(f),
         NEW p \in Parser, NEW crc \in U16, InStep(p, crc, Body(f)),
         NEW lo, NEW hi, lo = crc % 256, hi = crc \div 256
  PROVE  Dispatched(After(p, put_escaped(lo) \o put_escaped(hi)), FLAG) = Expected(f)
<1> DEFINE data == Body(f)
           p1   == After(p, put_escaped(lo))
           p2   == After(p1, put_escaped(hi))
           d1   == Append(data, lo)
           d2   == Append(d1, hi)
<1>0. /\ data \in Seq(Octet) /\ Len(data) = Len(f.info) + 2 /\ data[1] = f.address
      /\ Len(f.info) \in Nat /\ Capacity \in Nat /\ Capacity >= 4
  BY BodyFacts, FramingAssumption DEF Frames
<1>1. lo \in Octet /\ hi \in Octet /\ lo + (256 * hi) = crc
  <2>1. lo \in Octet /\ hi \in Octet BY WordFacts
  <2>2. (crc % 256) + (256 * (crc \div 256)) = crc BY DEF U16, Word
  <2> QED BY <2>1, <2>2
<1>2. put_escaped(lo) \in Seq(Octet) /\ put_escaped(hi) \in Seq(Octet)
  BY <1>1, EscapedOctets
<1>3. After(p, put_escaped(lo) \o put_escaped(hi)) = p2 BY <1>2, AfterBoth
<1>4. p1 \in Parser /\ p2 \in Parser BY <1>2, AfterType
<1>5. /\ d1 \in Seq(Octet) /\ Len(d1) = Len(data) + 1 /\ Len(data) >= 2
      /\ d1[Len(d1) - 1] = data[Len(data)]
      /\ d2 \in Seq(Octet) /\ Len(d2) = Len(data) + 2 /\ d2[Len(data) + 1] = lo
      /\ d2[Len(data) + 2] = hi
      /\ \A i \in 1 .. Len(data) : d2[i] = data[i]
  <2> HIDE DEF data
  <2>1. /\ d1 \in Seq(Octet) /\ Len(d1) = Len(data) + 1 /\ d1[Len(data) + 1] = lo
        /\ \A i \in 1 .. Len(data) : d1[i] = data[i]
    BY ONLY <1>0, <1>1, Appended
  <2>2. Len(data) >= 2 /\ Len(data) \in 1 .. Len(data) /\ Len(d1) - 1 = Len(data)
    BY <1>0, <2>1
  <2> HIDE DEF d1
  <2>3. /\ d2 \in Seq(Octet) /\ Len(d2) = Len(d1) + 1 /\ d2[Len(d1) + 1] = hi
        /\ \A i \in 1 .. Len(d1) : d2[i] = d1[i]
    BY ONLY <1>1, <2>1, Appended
  <2>4. \A i \in 1 .. Len(data) : d2[i] = data[i] BY <2>1, <2>2, <2>3
  <2>5. d2[Len(data) + 1] = lo /\ d2[Len(data) + 2] = hi /\ Len(d2) = Len(data) + 2
    BY <2>1, <2>2, <2>3
  <2> HIDE DEF d2
  <2> QED BY <2>1, <2>2, <2>3, <2>4, <2>5
<1>6. CASE Wanted(f)
  <2>1. Fits(data) /\ Len(data) < Capacity /\ Len(d1) < Capacity
    BY <1>0, <1>5, <1>6 DEF Wanted, Fits, MIN_FRAME_LEN
  <2>2. /\ p.rx_state = "DATA" /\ p.buffer = data
        /\ crc = compute(compute(p.rx_crc, data[Len(data) - 1]), data[Len(data)])
    BY <2>1 DEF InStep
  <2> HIDE DEF data, d1, d2
  <2>3. p1 = [rx_state |-> "DATA", buffer |-> d1,
              rx_crc |-> compute(p.rx_crc, data[Len(data) - 1])]
    <3>1. p1 = Store(p, lo) BY <1>1, <2>2, StuffedStored
    <3>2. Store(p, lo) = [rx_state |-> "DATA", buffer |-> Append(data, lo),
                          rx_crc |-> compute(p.rx_crc, data[Len(data) - 1])]
      BY <1>0, <1>1, <1>5, <2>1, <2>2, StoreLate
    <3> QED BY <3>1, <3>2 DEF d1
  <2>4. p2 = [rx_state |-> "DATA", buffer |-> d2,
              rx_crc |-> compute(p1.rx_crc, d1[Len(d1) - 1])]
    <3>0. p1.rx_state = "DATA" /\ p1.buffer = d1 BY <2>3
    <3> HIDE DEF p1
    <3>1. p2 = Store(p1, hi) BY <1>1, <1>4, <3>0, StuffedStored
    <3>2. Store(p1, hi) = [rx_state |-> "DATA", buffer |-> Append(d1, hi),
                           rx_crc |-> compute(p1.rx_crc, d1[Len(d1) - 1])]
      <4>1. Len(d1) >= 2 BY <1>5
      <4> QED BY <1>1, <1>4, <1>5, <2>1, <3>0, <4>1, StoreLate
    <3> QED BY <3>1, <3>2 DEF d2
  <2>5. p2.rx_state = "DATA" /\ p2.buffer = d2 /\ p2.rx_crc = crc
    <3>1. p1.rx_crc = compute(p.rx_crc, data[Len(data) - 1]) BY <2>3
    <3> HIDE DEF p1, p2
    <3> QED BY <1>5, <2>2, <2>4, <3>1
  <2> HIDE DEF p1, p2
  <2>6. rx_index(p2) = Len(data) + 2 /\ dlen(p2) = Len(data)
    BY <1>0, <1>5, <2>5 DEF rx_index, dlen, FCS_LEN
  <2>7. AcceptedByFlag(p2)
    <3>1. rx_fcs(p2) = crc BY <1>1, <1>5, <2>5, <2>6 DEF rx_fcs
    <3>2. rx_index(p2) >= MIN_FRAME_LEN BY <1>0, <1>5, <2>6 DEF MIN_FRAME_LEN
    <3> QED BY <2>5, <3>1, <3>2 DEF AcceptedByFlag
  <2>8. FrameIn(p2) = f
    <3>1. (dlen(p2) - 2) % Word = Len(f.info)
      <4>1. dlen(p2) - 2 = Len(f.info) BY <1>0, <2>6
      <4>2. Len(f.info) < Word BY <1>6 DEF LengthFits
      <4>3. \A n \in Nat : n < Word => n % Word = n BY DEF Word
      <4> QED BY <1>0, <4>1, <4>2, <4>3
    <3>2. SubSeq(d2, 3, 2 + Len(f.info)) = f.info
      <4>1. SubSeq(d2, 3, 2 + Len(f.info)) = SubSeq(data, 3, Len(data))
        <5> DEFINE s == SubSeq(d2, 3, 2 + Len(f.info))
                   t == SubSeq(data, 3, Len(data))
        <5>1. s \in Seq(Octet) /\ t \in Seq(Octet) /\ Len(s) = Len(f.info) /\ Len(t) = Len(s)
          BY <1>0, <1>5
        <5>2. ASSUME NEW i \in 1 .. Len(s) PROVE s[i] = t[i]
          <6>1. i \in 1 .. Len(f.info) /\ i + 2 \in 1 .. Len(data) BY <1>0, <5>1, <5>2
          <6>2. s[i] = d2[i + 2] BY <1>0, <1>5, <6>1
          <6>3. t[i] = data[i + 2] BY <1>0, <1>5, <6>1
          <6> QED BY <1>5, <6>1, <6>2, <6>3
        <5> HIDE DEF s, t
        <5> QED BY <5>1, <5>2, SeqEqual DEF s, t
      <4> QED BY <4>1, BodyFacts DEF data
    <3>3. d2[1] = f.address /\ d2[2] = f.ctrl BY <1>0, <1>5, BodyFacts DEF data
    <3>4. FrameIn(p2) = [address |-> f.address, ctrl |-> f.ctrl, info |-> f.info]
      BY <2>5, <3>1, <3>2, <3>3 DEF FrameIn
    <3> QED BY <3>4 DEF Frames
  <2> QED BY <1>3, <1>6, <2>7, <2>8 DEF Dispatched, Expected
<1>7. CASE ~Wanted(f)
  <2> HIDE DEF p1, p2, d1, d2, data
  <2>1. InStep(p1, compute(crc, lo), d1)
    BY <1>0, <1>1, <1>5, StuffedInStep DEF p1, d1, data
  <2>2. InStep(p2, compute(compute(crc, lo), hi), d2)
    BY <1>1, <1>4, <1>5, <2>1, ComputeType, StuffedInStep DEF p2, d2
  <2>3. ~Fits(d2)
    <3>1. d2[1] = f.address /\ Len(d2) = Len(f.info) + 4 BY <1>0, <1>5
    <3> QED BY <1>7, <3>1 DEF Fits, Wanted, MIN_FRAME_LEN
  <2>4. p2.rx_state = "HUNT" BY <2>2, <2>3 DEF InStep
  <2> QED BY <1>3, <1>7, <2>4 DEF Dispatched, AcceptedByFlag, Expected
<1> QED BY <1>6, <1>7

\* From octet i on, the octets dispatch what is expected of f, on the last of
\* them and nowhere else, and leave the parser behind a flag.
Carries(p, octets, i, f) ==
  /\ octets \in Seq(Octet) /\ Len(octets) >= 3
  /\ \A k \in i .. (Len(octets) - 1) : OnOctet(p, octets, k) = << >>
  /\ OnOctet(p, octets, Len(octets)) = Expected(f)
  /\ After(p, octets) = Fresh("ADDR")

LEMMA EndCarries ==
  ASSUME CrcDriver, NEW f \in Frames, LengthFits(f), NEW p \in Parser, NEW t \in Sent,
         NEW i \in {1, 2}, QuietFrom(p, t.octets, i),
         InStep(After(p, t.octets), t.tx_crc, Body(f))
  PROVE  /\ Carries(p, frame_end(t).octets, i, f)
         /\ Len(t.octets) >= 1 => frame_end(t).octets[1] = t.octets[1]
<1> DEFINE lo   == put_escaped(t.tx_crc % 256)
           hi   == put_escaped(t.tx_crc \div 256)
           fcs  == lo \o hi
           o    == t.octets
           q    == After(p, o)
           body == o \o fcs
           all  == body \o <<FLAG>>
<1>0. t.tx_crc \in U16 /\ o \in Seq(Octet) BY DEF Sent
<1>1. t.tx_crc % 256 \in Octet /\ t.tx_crc \div 256 \in Octet BY <1>0, WordFacts
<1>2. lo \in Seq(Octet) /\ hi \in Seq(Octet) /\ Len(lo) >= 1 /\ Len(hi) >= 1
  <2>1. ASSUME NEW x \in Octet PROVE Len(put_escaped(x)) >= 1 BY DEF put_escaped
  <2> QED BY <1>1, <2>1, EscapedOctets
<1>3. q \in Parser BY <1>0, AfterType
<1>4. Dispatched(After(q, fcs), FLAG) = Expected(f)
  <2> HIDE DEF q
  <2> QED BY <1>0, <1>3, AtClosing DEF q
<1>5. QuietFrom(q, fcs, 1)
  <2>1. QuietFrom(q, lo, 1) /\ QuietFrom(After(q, lo), hi, 1) BY <1>1, StuffedQuiet
  <2> HIDE DEF q, lo, hi
  <2> QED BY <1>2, <2>1, QuietBoth
<1>6. frame_end(t).octets = all
  <2>1. frame_end(t).octets = ((o \o lo) \o hi) \o <<FLAG>> BY DEF frame_end, Sent
  <2> HIDE DEF o, lo, hi
  <2>2. (o \o lo) \o hi = o \o fcs BY <1>0, <1>2, ConcatAssociative
  <2> QED BY <2>1, <2>2
<1> HIDE DEF lo, hi
<1>7. fcs \in Seq(Octet) /\ Len(fcs) >= 2 BY <1>2
<1> HIDE DEF o, q, fcs
<1>8. body \in Seq(Octet) /\ Len(body) >= 2 /\ (Len(o) >= 1 => body[1] = o[1])
  BY <1>0, <1>7
<1>9. After(p, body) = After(q, fcs) BY <1>0, <1>7, AfterBoth DEF q
<1>10. QuietFrom(p, body, i) BY <1>0, <1>5, <1>7, QuietBoth DEF q, o
<1> HIDE DEF body
<1>11. all \in Seq(Octet) /\ Len(all) = Len(body) + 1 /\ all[1] = body[1] /\ <<FLAG>> \in Seq(Octet)
  BY <1>8, FlagOctets
<1>12. After(p, all) = Fresh("ADDR")
  <2>1. After(p, body \o <<FLAG>>) = After(After(p, body), <<FLAG>>) BY <1>8, <1>11, AfterBoth
  <2> QED BY <2>1, FreshOpen
<1>13. OnOctet(p, all, Len(all)) = Expected(f)
  <2>1. 1 \in 1 .. Len(<<FLAG>>) /\ <<FLAG>>[1] = FLAG OBVIOUS
  <2>2. OnOctet(p, all, Len(body) + 1) = OnOctet(After(p, body), <<FLAG>>, 1)
    BY <1>8, <1>11, <2>1, OnRest
  <2>3. OnOctet(After(p, body), <<FLAG>>, 1) = Dispatched(After(p, body), FLAG)
    BY <1>11, <2>1, OnFirst
  <2> QED BY <1>4, <1>9, <1>11, <2>2, <2>3
<1>14. ASSUME NEW k \in i .. (Len(all) - 1) PROVE OnOctet(p, all, k) = << >>
  <2>1. k \in i .. Len(body) /\ k \in 1 .. Len(body) BY <1>8, <1>11
  <2>2. OnOctet(p, all, k) = OnOctet(p, body, k) BY <1>8, <1>11, <2>1, OnFront
  <2> QED BY <1>10, <2>1, <2>2 DEF QuietFrom
<1>15. Len(all) >= 3 BY <1>8, <1>11
<1> HIDE DEF all
<1> QED BY <1>6, <1>8, <1>11, <1>12, <1>13, <1>14, <1>15 DEF Carries, o

\* A call that sends a frame, from whatever state of the parser.
LEMMA SendCarries ==
  ASSUME CrcDriver, NEW f \in Frames, LengthFits(f), NEW p \in Parser
  PROVE  /\ Carries(p, frame_send(f).octets, 2, f)
         /\ OnOctet(p, frame_send(f).octets, 1) = Dispatched(p, FLAG)
<1> DEFINE N == Len(f.info)
           sent(n) == sending(f)[n]
           data(n) == Body([f EXCEPT !.info = SubSeq(f.info, 1, n)])
           S == {n \in Nat : n <= N =>
                   /\ InStep(After(p, sent(n).octets), sent(n).tx_crc, data(n))
                   /\ QuietFrom(p, sent(n).octets, 2)
                   /\ Len(sent(n).octets) >= 1 /\ sent(n).octets[1] = FLAG}
<1>0. f.address \in Octet /\ f.ctrl \in Octet /\ f.info \in Seq(Octet) /\ N \in Nat BY DEF Frames
<1>1. ASSUME NEW n \in 0 .. N
      PROVE  /\ sent(n) \in Sent /\ data(n) \in Seq(Octet) /\ Len(data(n)) = n + 2
             /\ n < N => data(n + 1) = Append(data(n), f.info[n + 1])
  <2> DEFINE g(m) == [f EXCEPT !.info = SubSeq(f.info, 1, m)]
  <2>1. ASSUME NEW m \in 0 .. N
        PROVE  g(m) \in Frames /\ Len(g(m).info) = m /\ g(m).info = SubSeq(f.info, 1, m)
    <3>1. SubSeq(f.info, 1, m) \in Seq(Octet) /\ Len(SubSeq(f.info, 1, m)) = m BY <1>0
    <3> QED BY <1>0, <3>1 DEF Frames
  <2>2. data(n) \in Seq(Octet) /\ Len(data(n)) = n + 2
    <3>1. g(n) \in Frames /\ Len(g(n).info) = n BY <2>1
    <3> HIDE DEF g
    <3> QED BY <3>1, BodyFacts DEF g
  <2>3. ASSUME n < N PROVE data(n + 1) = Append(data(n), f.info[n + 1])
    <3> DEFINE front == <<f.address, f.ctrl>>
               s     == SubSeq(f.info, 1, n)
               x     == f.info[n + 1]
    <3>1. SubSeq(f.info, 1, n + 1) = Append(s, x)
      <4>1. n + 1 \in 1 .. N /\ 1 \in 1 .. N BY <1>0, <2>3
      <4>2. SubSeq(f.info, 1, n + 1) = SubSeq(f.info, 1, (n + 1) - 1) \o <<f.info[n + 1]>>
        BY <1>0, <4>1, SubSeqRecursiveSecond
      <4>3. (n + 1) - 1 = n OBVIOUS
      <4>4. s \in Seq(Octet) /\ x \in Octet BY <1>0, <4>1
      <4>5. s \o <<x>> = Append(s, x)
        <5> HIDE DEF s, x
        <5> QED BY <4>4, AppendIsConcat
      <4> QED BY <4>2, <4>3, <4>5
    <3>2. s \in Seq(Octet) /\ x \in Octet /\ front \in Seq(Octet) BY <1>0, <2>3
    <3>3. data(n) = front \o s BY <1>0 DEF Body
    <3>4. data(n + 1) = front \o Append(s, x) BY <1>0, <3>1 DEF Body
    <3> HIDE DEF front, s, x
    <3>5. front \o Append(s, x) = Append(front \o s, x)
      <4>1. Append(s, x) = s \o <<x>> /\ <<x>> \in Seq(Octet) BY <3>2, AppendIsConcat
      <4>2. front \o s \in Seq(Octet) BY <3>2
      <4>3. Append(front \o s, x) = (front \o s) \o <<x>> BY <3>2, <4>2, AppendIsConcat
      <4> QED BY <3>2, <4>1, <4>3, ConcatAssociative
    <3> QED BY <3>3, <3>4, <3>5 DEF x
  <2>4. sent(n) \in Sent BY SendType DEF Frames
  <2> QED BY <2>2, <2>3, <2>4
<1> HIDE DEF data
<1>2. 0 \in S
  <2>1. sent(0) = frame_begin(f.address, f.ctrl) BY <1>0, SendingSteps
  <2>2. data(0) = <<f.address, f.ctrl>>
    <3>1. SubSeq(f.info, 1, 0) = << >> BY <1>0
    <3>2. <<f.address, f.ctrl>> \in Seq(Octet) BY <1>0
    <3>3. <<f.address, f.ctrl>> \o << >> = <<f.address, f.ctrl>> BY <3>2, ConcatEmptySeq
    <3> QED BY <1>0, <3>1, <3>3 DEF data, Body, Frames
  <2> QED BY <1>0, <2>1, <2>2, BeginInStep
<1>3. ASSUME NEW n \in Nat, n \in S PROVE n + 1 \in S
  <2> SUFFICES ASSUME n + 1 <= N
               PROVE  /\ InStep(After(p, sent(n + 1).octets), sent(n + 1).tx_crc, data(n + 1))
                      /\ QuietFrom(p, sent(n + 1).octets, 2)
                      /\ Len(sent(n + 1).octets) >= 1 /\ sent(n + 1).octets[1] = FLAG
    OBVIOUS
  <2> DEFINE t == sent(n)
             x == f.info[n + 1]
             e == put_escaped(x)
             q == After(p, t.octets)
  <2>1. n \in 0 .. N /\ n < N /\ n + 1 \in 1 .. N /\ (n + 1) - 1 = n BY <1>0
  <2>2. /\ InStep(q, t.tx_crc, data(n)) /\ QuietFrom(p, t.octets, 2)
        /\ Len(t.octets) >= 1 /\ t.octets[1] = FLAG
    BY <1>3, <2>1
  <2>3. x \in Octet /\ e \in Seq(Octet) BY <1>0, <2>1, EscapedOctets
  <2>4. sent(n + 1) = emit(t, x) BY <1>0, <2>1, SendingSteps
  <2>5. /\ t.tx_crc \in U16 /\ t.octets \in Seq(Octet)
        /\ data(n) \in Seq(Octet) /\ Len(data(n)) >= 2
        /\ data(n + 1) = Append(data(n), x)
    BY <1>1, <2>1 DEF Sent
  <2>6. sent(n + 1).tx_crc = compute(t.tx_crc, x) /\ sent(n + 1).octets = t.octets \o e
    <3> HIDE DEF t, x
    <3>1. emit(t, x) = [tx_crc |-> compute(t.tx_crc, x), octets |-> t.octets \o e] BY DEF emit
    <3> HIDE DEF e, sent
    <3> QED BY <2>4, <3>1
  <2> HIDE DEF t, x, e
  <2>7. q \in Parser BY <2>5, AfterType
  <2>8. After(p, sent(n + 1).octets) = After(q, e) BY <2>3, <2>5, <2>6, AfterBoth
  <2>9. QuietFrom(q, e, 1) BY <2>3, StuffedQuiet DEF e
  <2>10. QuietFrom(p, sent(n + 1).octets, 2) BY <2>2, <2>3, <2>5, <2>6, <2>9, QuietBoth
  <2>11. Len(t.octets \o e) >= 1 /\ (t.octets \o e)[1] = FLAG BY <2>2, <2>3, <2>5
  <2> HIDE DEF q
  <2>12. InStep(After(q, e), compute(t.tx_crc, x), Append(data(n), x))
    BY <2>2, <2>3, <2>5, <2>7, StuffedInStep DEF e
  <2> QED BY <2>5, <2>6, <2>8, <2>10, <2>11, <2>12
<1>4. Nat \subseteq S
  <2> HIDE DEF S
  <2> QED BY <1>2, <1>3, Induction
<1>5. data(N) = Body(f)
  <2>1. SubSeq(f.info, 1, N) = f.info BY <1>0, SubSeqFull
  <2> QED BY <2>1 DEF data, Frames
<1>6. /\ InStep(After(p, sent(N).octets), sent(N).tx_crc, Body(f))
      /\ QuietFrom(p, sent(N).octets, 2)
      /\ Len(sent(N).octets) >= 1 /\ sent(N).octets[1] = FLAG
  BY <1>0, <1>4, <1>5
<1>7. sent(N) \in Sent BY <1>0, <1>1
<1>8. frame_send(f) = frame_end(sent(N)) BY DEF frame_send
<1> HIDE DEF sent
<1>9. Carries(p, frame_send(f).octets, 2, f) /\ frame_send(f).octets[1] = FLAG
  BY <1>6, <1>7, <1>8, EndCarries
<1>10. frame_send(f).octets \in Seq(Octet) BY <1>9 DEF Carries
<1> QED BY <1>9, <1>10, OnFirst

(***************************************************************************)
(* The octets in the ring, oldest first.                                   *)
(***************************************************************************)
Count(head, tail) == IF tail <= head THEN head - tail ELSE (head - tail) + RX_RING_SIZE

SlotOf(tail, i) == IF tail + (i - 1) < RX_RING_SIZE
                   THEN tail + (i - 1) ELSE (tail + (i - 1)) - RX_RING_SIZE

Octets(slots, head, tail) == [i \in 1 .. Count(head, tail) |-> slots[SlotOf(tail, i)]]

Held == Octets(rx_ring, rx_head, rx_tail)

LEMMA Wraps ==
  ASSUME NEW slot \in Slots
  PROVE  (slot + 1) % RX_RING_SIZE = IF slot + 1 = RX_RING_SIZE THEN 0 ELSE slot + 1
<1>1. RX_RING_SIZE \in Nat /\ slot \in Nat /\ slot < RX_RING_SIZE BY RingAssumption DEF Slots
<1>2. CASE slot + 1 = RX_RING_SIZE BY <1>1, <1>2
<1>3. CASE slot + 1 < RX_RING_SIZE BY <1>1, <1>3
<1> QED BY <1>1, <1>2, <1>3

LEMMA OctetsType ==
  ASSUME NEW slots \in [Slots -> Octet], NEW head \in Slots, NEW tail \in Slots
  PROVE  /\ Octets(slots, head, tail) \in Seq(Octet) /\ Count(head, tail) \in Nat
         /\ Len(Octets(slots, head, tail)) = Count(head, tail)
         /\ \A i \in 1 .. Count(head, tail) :
              /\ SlotOf(tail, i) \in Slots \ {head}
              /\ Octets(slots, head, tail)[i] = slots[SlotOf(tail, i)]
<1> DEFINE n == Count(head, tail)
           s == Octets(slots, head, tail)
<1>0. RX_RING_SIZE \in Nat /\ RX_RING_SIZE >= 2 BY RingAssumption
<1>1. n \in Nat BY <1>0 DEF Count, Slots
<1>2. ASSUME NEW i \in 1 .. n PROVE SlotOf(tail, i) \in Slots \ {head}
  BY <1>0 DEF Count, SlotOf, Slots
<1>3. s \in [1 .. n -> Octet] BY <1>2 DEF Octets
<1>4. \A i \in 1 .. n : s[i] = slots[SlotOf(tail, i)] BY DEF Octets
<1> HIDE DEF n, s
<1>5. s \in Seq(Octet) /\ Len(s) = n BY <1>1, <1>3
<1> QED BY <1>1, <1>2, <1>4, <1>5 DEF n, s

LEMMA HeldType ==
  ASSUME PathInv
  PROVE  Held \in Seq(Octet) /\ (rx_head = rx_tail => Held = << >>)
<1>1. rx_head \in Slots /\ rx_tail \in Slots /\ rx_ring \in [Slots -> Octet]
  BY DEF PathInv, TypeOK
<1>2. rx_head = rx_tail => Count(rx_head, rx_tail) = 0
  BY <1>1, RingAssumption DEF Count, Slots
<1>3. ASSUME NEW s \in Seq(Octet), Len(s) = 0 PROVE s = << >> BY <1>3
<1> QED BY <1>1, <1>2, <1>3, OctetsType DEF Held

LEMMA HeldSame ==
  ASSUME UNCHANGED <<rx_ring, rx_head, rx_tail>>
  PROVE  Held' = Held
BY DEF Held

\* The interrupt puts an octet behind those in the ring ...
LEMMA HeldAppend ==
  ASSUME PathInv, uart_rx_isr
  PROVE  Held' = Append(Held, Head(line))
<1> DEFINE N  == RX_RING_SIZE
           n  == Count(rx_head, rx_tail)
           x  == Head(line)
           h  == rx_head'
           sl == rx_ring'
           s  == Octets(sl, h, rx_tail)
<1>0. /\ N \in Nat /\ N >= 2 /\ rx_head \in Slots /\ rx_tail \in Slots
      /\ rx_ring \in [Slots -> Octet] /\ line \in Seq(Octet)
  BY RingAssumption DEF PathInv, TypeOK
<1>1. /\ sl = [rx_ring EXCEPT ![rx_head] = x]
      /\ h = IF rx_head + 1 = N THEN 0 ELSE rx_head + 1
      /\ rx_tail' = rx_tail /\ h # rx_tail /\ line # << >>
  BY <1>0, Wraps DEF uart_rx_isr, RingFull
<1>2. x \in Octet BY <1>0, <1>1
<1>3. h \in Slots BY <1>0, <1>1 DEF Slots
<1> HIDE DEF x, h
<1>4. sl \in [Slots -> Octet] BY <1>0, <1>1, <1>2
<1>5. Count(h, rx_tail) = n + 1 /\ n \in Nat BY <1>0, <1>1, <1>3 DEF Count, Slots
<1>6. SlotOf(rx_tail, n + 1) = rx_head BY <1>0, <1>1 DEF Count, SlotOf, Slots
<1>7. /\ s \in Seq(Octet) /\ Len(s) = n + 1
      /\ \A i \in 1 .. (n + 1) : s[i] = sl[SlotOf(rx_tail, i)]
  <2> HIDE DEF n, sl
  <2>1. /\ s \in Seq(Octet) /\ Len(s) = Count(h, rx_tail)
        /\ \A i \in 1 .. Count(h, rx_tail) : s[i] = sl[SlotOf(rx_tail, i)]
    BY <1>0, <1>3, <1>4, OctetsType
  <2> HIDE DEF s
  <2> QED BY <1>5, <2>1
<1>8. /\ Held \in Seq(Octet) /\ Len(Held) = n
      /\ \A i \in 1 .. n : SlotOf(rx_tail, i) \in Slots \ {rx_head} /\ Held[i] = rx_ring[SlotOf(rx_tail, i)]
  BY <1>0, OctetsType DEF Held
<1>9. /\ Append(Held, x) \in Seq(Octet) /\ Len(Append(Held, x)) = n + 1
      /\ Append(Held, x)[n + 1] = x
      /\ \A i \in 1 .. n : Append(Held, x)[i] = Held[i]
  <2> HIDE DEF n
  <2> QED BY <1>2, <1>8, Appended
<1> HIDE DEF n, s
<1>10. ASSUME NEW i \in 1 .. (n + 1) PROVE s[i] = Append(Held, x)[i]
  <2>1. CASE i = n + 1
    <3>1. s[i] = sl[rx_head] BY <1>6, <1>7, <2>1
    <3>2. sl[rx_head] = x BY <1>0, <1>1
    <3> QED BY <1>9, <2>1, <3>1, <3>2
  <2>2. CASE i # n + 1
    <3>0. i \in 1 .. n BY <1>5, <2>2
    <3>1. s[i] = sl[SlotOf(rx_tail, i)] BY <1>7
    <3>2. sl[SlotOf(rx_tail, i)] = rx_ring[SlotOf(rx_tail, i)] BY <1>0, <1>1, <1>8, <3>0
    <3> QED BY <1>8, <1>9, <3>0, <3>1, <3>2
  <2> QED BY <2>1, <2>2
<1>11. s = Append(Held, x) BY <1>7, <1>9, <1>10, SeqEqual
<1> QED BY <1>1, <1>11 DEF Held, s, x, h

\* ... and the main loop takes the oldest.
LEMMA HeldTail ==
  ASSUME PathInv, Consume
  PROVE  Held = <<b>> \o Held'
<1> DEFINE N == RX_RING_SIZE
           t == rx_tail'
           m == Count(rx_head, t)
           s == Octets(rx_ring, rx_head, t)
<1>0. /\ N \in Nat /\ N >= 2 /\ rx_head \in Slots /\ rx_tail \in Slots
      /\ rx_ring \in [Slots -> Octet] /\ b \in Octet
  BY RingAssumption DEF PathInv, TypeOK
<1>1. /\ rx_ring' = rx_ring /\ rx_head' = rx_head
      /\ t = IF rx_tail + 1 = N THEN 0 ELSE rx_tail + 1
      /\ rx_tail # rx_head /\ b = rx_ring[rx_tail]
  BY <1>0, Wraps DEF Consume, PathInv, RingInv, FetchedIsOldest
<1>2. t \in Slots BY <1>0, <1>1 DEF Slots
<1> HIDE DEF t
<1>3. Count(rx_head, rx_tail) = m + 1 /\ m \in Nat BY <1>0, <1>1 DEF Count, Slots
<1>4. SlotOf(rx_tail, 1) = rx_tail BY <1>0 DEF SlotOf, Slots
<1>5. ASSUME NEW i \in 1 .. m PROVE SlotOf(t, i) = SlotOf(rx_tail, i + 1)
  BY <1>0, <1>1 DEF Count, SlotOf, Slots
<1>6. /\ s \in Seq(Octet) /\ Len(s) = m
      /\ \A i \in 1 .. m : s[i] = rx_ring[SlotOf(t, i)]
  BY <1>0, <1>2, OctetsType
<1>7. /\ Held \in Seq(Octet) /\ Len(Held) = m + 1
      /\ \A i \in 1 .. (m + 1) : Held[i] = rx_ring[SlotOf(rx_tail, i)]
  <2>1. /\ Held \in Seq(Octet) /\ Len(Held) = Count(rx_head, rx_tail)
        /\ \A i \in 1 .. Count(rx_head, rx_tail) : Held[i] = rx_ring[SlotOf(rx_tail, i)]
    BY <1>0, OctetsType DEF Held
  <2> HIDE DEF m
  <2> QED BY <1>3, <2>1
<1> HIDE DEF m, s
<1> DEFINE whole == <<b>> \o s
<1>8. /\ whole \in Seq(Octet) /\ Len(whole) = m + 1 /\ whole[1] = b
      /\ \A i \in 1 .. m : whole[i + 1] = s[i]
  <2>1. <<b>> \in Seq(Octet) /\ Len(<<b>>) = 1 /\ <<b>>[1] = b BY <1>0
  <2> QED BY <1>3, <1>6, <2>1, ConcatProperties
<1> HIDE DEF whole
<1>9. ASSUME NEW i \in 1 .. (m + 1) PROVE Held[i] = whole[i]
  <2>1. CASE i = 1 BY <1>1, <1>4, <1>7, <1>8, <2>1
  <2>2. CASE i # 1
    <3> DEFINE j == i - 1
    <3>1. j \in 1 .. m /\ i = j + 1 BY <1>3, <2>2
    <3>2. Held[i] = rx_ring[SlotOf(rx_tail, j + 1)] BY <1>7, <3>1
    <3>3. whole[i] = rx_ring[SlotOf(t, j)] BY <1>6, <1>8, <3>1
    <3> QED BY <1>5, <3>1, <3>2, <3>3
  <2> QED BY <2>1, <2>2
<1>10. Held = whole BY <1>7, <1>8, <1>9, SeqEqual
<1> QED BY <1>1, <1>10 DEF Held, whole, s, t

(***************************************************************************)
(* Nothing that is not hurt is lost.                                       *)
(***************************************************************************)
Comes(p, octets, f) == \E k \in 1 .. Len(octets) : OnOctet(p, octets, k) = <<f>>

LEMMA ComesMore ==
  ASSUME NEW p, NEW octets \in Seq(Octet), NEW more \in Seq(Octet), NEW f, Comes(p, octets, f)
  PROVE  Comes(p, octets \o more, f)
<1>1. PICK k \in 1 .. Len(octets) : OnOctet(p, octets, k) = <<f>> BY DEF Comes
<1>2. k \in 1 .. Len(octets \o more) OBVIOUS
<1> QED BY <1>1, <1>2, OnFront DEF Comes

LEMMA ComesAfter ==
  ASSUME NEW p, NEW octets \in Seq(Octet), NEW more \in Seq(Octet), NEW f,
         Comes(After(p, octets), more, f)
  PROVE  Comes(p, octets \o more, f)
<1>1. PICK k \in 1 .. Len(more) : OnOctet(After(p, octets), more, k) = <<f>> BY DEF Comes
<1> DEFINE j == Len(octets) + k
<1>2. j \in 1 .. Len(octets \o more) OBVIOUS
<1>3. OnOctet(p, octets \o more, j) = <<f>> BY <1>1, OnRest
<1> HIDE DEF j
<1> QED BY <1>2, <1>3 DEF Comes

\* The first octet dispatches the frame, or the rest does.
LEMMA ComesStep ==
  ASSUME NEW p, NEW x \in Octet, NEW more \in Seq(Octet), NEW f, Comes(p, <<x>> \o more, f)
  PROVE  Dispatched(p, x) = <<f>> \/ Comes(rx_byte(p, x), more, f)
<1> DEFINE one == <<x>>
<1>0. one \in Seq(Octet) /\ Len(one) = 1 /\ one[1] = x OBVIOUS
<1>1. Dispatched(p, x) = OnOctet(p, one, 1) BY <1>0, OnFirst
<1>2. rx_byte(p, x) = After(p, one) BY AfterOne
<1> HIDE DEF one
<1>3. PICK k \in 1 .. Len(one \o more) : OnOctet(p, one \o more, k) = <<f>> BY DEF Comes, one
<1>4. Len(one \o more) = Len(one) + Len(more) /\ Len(more) \in Nat BY <1>0, ConcatProperties
<1>5. CASE k = 1
  <2>1. 1 \in 1 .. Len(one) BY <1>0
  <2> QED BY <1>0, <1>1, <1>3, <1>5, <2>1, OnFront
<1>6. CASE k # 1
  <2> DEFINE j == k - 1
  <2>1. j \in 1 .. Len(more) /\ k = Len(one) + j BY <1>0, <1>4, <1>6
  <2> HIDE DEF j
  <2>2. OnOctet(After(p, one), more, j) = <<f>> BY <1>0, <1>3, <2>1, OnRest
  <2> QED BY <1>2, <2>1, <2>2 DEF Comes
<1> QED BY <1>5, <1>6

LEMMA AfterStep ==
  ASSUME NEW p, NEW x \in Octet, NEW more \in Seq(Octet)
  PROVE  After(p, <<x>> \o more) = After(rx_byte(p, x), more)
<1> DEFINE one == <<x>>
<1>1. one \in Seq(Octet) /\ After(p, one) = rx_byte(p, x) BY AfterOne
<1> HIDE DEF one
<1>2. After(p, one \o more) = After(After(p, one), more) BY <1>1, AfterBoth
<1> QED BY <1>1, <1>2 DEF one

AllFrames == FrameSet \cup StreamFrames
Owed      == [frame : AllFrames, hurt : BOOLEAN, wanted : BOOLEAN]

\* No frame the receiver must accept is longer than handle_flag can say.
LengthsFit == \A f \in AllFrames : LengthFits(f)

WayInv == /\ way \in Seq(Owed)
          /\ \A i \in DOMAIN way : way[i].wanted => Wanted(way[i].frame)

\* What is under way: the last frame's octets may still be on the line, those
\* of the others are in the ring.
Pending(i) == IF i = Len(way) /\ owner = "frame" THEN Held \o line ELSE Held

OwedComes == \A i \in DOMAIN way :
               way[i].hurt \/ ~way[i].wanted \/ Comes(parser, Pending(i), way[i].frame)

\* The parser follows an open stream that is not hurt.
Follows(data) == /\ Body(stream.frame) = data \o stream.todo
                 /\ InStep(After(parser, Held \o line), tx_crc, data)

StreamFollowed == /\ stream.on => stream.frame \in StreamFrames
                  /\ ~stream.on => stream.todo = << >>
                  /\ stream.on /\ ~stream.hurt =>
                       \E data \in Seq(Octet) : Len(data) >= 2 /\ Follows(data)

DeliveryInv == PathInv /\ WayInv /\ OwedComes /\ StreamFollowed

LEMMA DeliveryInit == Init => DeliveryInv
<1> SUFFICES ASSUME Init PROVE DeliveryInv OBVIOUS
<1>1. PathInv BY PathInit
<1>2. way = << >> /\ stream = NoStream BY DEF Init
<1>3. << >> \in Seq(Owed) /\ DOMAIN << >> = {} OBVIOUS
<1> QED BY <1>1, <1>2, <1>3 DEF DeliveryInv, WayInv, OwedComes, StreamFollowed, NoStream

\* What is known of the parts of a state of the invariant.
LEMMA DeliveryFacts ==
  ASSUME DeliveryInv
  PROVE  /\ PathInv /\ WayInv /\ OwedComes /\ StreamFollowed
         /\ parser \in Parser /\ Held \in Seq(Octet) /\ line \in Seq(Octet) /\ tx_crc \in U16
         /\ b \in Octet /\ stream \in Streams
         /\ way \in Seq(Owed) /\ DOMAIN way = 1 .. Len(way) /\ Len(way) \in Nat
         /\ Held \o line \in Seq(Octet) /\ (line = << >> => Held \o line = Held)
<1>1. /\ PathInv /\ parser \in Parser /\ line \in Seq(Octet) /\ tx_crc \in U16
      /\ b \in Octet /\ stream \in Streams
  BY DEF DeliveryInv, PathInv, TypeOK
<1>2. Held \in Seq(Octet) BY <1>1, HeldType
<1>3. way \in Seq(Owed) BY DEF DeliveryInv, WayInv
<1>4. DOMAIN way = 1 .. Len(way) /\ Len(way) \in Nat BY <1>3, LenProperties
<1>5. Held \o line \in Seq(Octet) /\ (line = << >> => Held \o line = Held)
  BY <1>1, <1>2, ConcatEmptySeq
<1> QED BY <1>1, <1>2, <1>3, <1>4, <1>5 DEF DeliveryInv

\* When the line is idle, what is owed is in the ring.
LEMMA OwedInRing ==
  ASSUME DeliveryInv, line = << >> \/ owner # "frame", NEW i \in DOMAIN way
  PROVE  way[i].hurt \/ ~way[i].wanted \/ Comes(parser, Held, way[i].frame)
BY DeliveryFacts DEF OwedComes, Pending

\* Calls that put octets on the line and owe no frame.
LEMMA CallDelivery ==
  ASSUME DeliveryInv, PathInv', NEW t, NEW whose, whose # "frame", Writes(t, whose), way' = way,
         StreamFollowed'
  PROVE  DeliveryInv'
<1>1. Held' = Held /\ parser' = parser /\ line = << >> /\ owner' = whose
  BY HeldSame DEF Writes, ring, loop
<1>2. WayInv' BY DeliveryFacts DEF WayInv
<1>3. OwedComes'
  <2> SUFFICES ASSUME NEW i \in DOMAIN way
               PROVE  way[i].hurt \/ ~way[i].wanted \/ Comes(parser, Held, way[i].frame)
    BY <1>1 DEF OwedComes, Pending
  <2> QED BY <1>1, OwedInRing
<1> QED BY <1>2, <1>3 DEF DeliveryInv

\* Calls that owe a frame: it comes, or is hurt.
LEMMA OweDelivery ==
  ASSUME DeliveryInv, PathInv', NEW f \in AllFrames, NEW hurt \in BOOLEAN,
         NEW t, Writes(t, "frame"), way' = Owe(f, hurt), StreamFollowed',
         hurt \/ ~Wanted(f) \/ Comes(parser, Held \o line', f)
  PROVE  DeliveryInv'
<1> DEFINE e == [frame |-> f, hurt |-> hurt, wanted |-> Wanted(f)]
<1>1. Held' = Held /\ parser' = parser /\ line = << >> /\ owner' = "frame"
  BY HeldSame DEF Writes, ring, loop
<1>2. Wanted(f) \in BOOLEAN BY DEF Wanted
<1>3. e \in Owed /\ e.frame = f /\ e.hurt = hurt /\ e.wanted = Wanted(f)
  BY <1>2, Zenon DEF Owed
<1>4. way' = Append(way, e) BY DEF Owe
<1> HIDE DEF e
<1>5. /\ way' \in Seq(Owed) /\ Len(way') = Len(way) + 1 /\ way'[Len(way) + 1] = e
      /\ \A i \in 1 .. Len(way) : way'[i] = way[i]
  BY <1>3, <1>4, DeliveryFacts, AppendProperties
<1>6. /\ DOMAIN way' = 1 .. (Len(way) + 1) /\ DOMAIN way = 1 .. Len(way) /\ Len(way) \in Nat
  BY <1>5, DeliveryFacts, LenProperties
<1>7. WayInv'
  <2>1. ASSUME NEW i \in DOMAIN way', way'[i].wanted PROVE Wanted(way'[i].frame)
    <3>1. CASE i = Len(way) + 1 BY <1>3, <1>5, <2>1, <3>1
    <3>2. CASE i \in DOMAIN way BY <1>5, <1>6, <2>1, <3>2, DeliveryFacts DEF WayInv
    <3> QED BY <1>6, <3>1, <3>2
  <2> QED BY <1>5, <2>1 DEF WayInv
<1>8. OwedComes'
  <2> SUFFICES ASSUME NEW i \in DOMAIN way'
               PROVE  way'[i].hurt \/ ~way'[i].wanted \/ Comes(parser, Pending(i)', way'[i].frame)
    BY <1>1 DEF OwedComes
  <2>1. CASE i = Len(way) + 1
    <3>1. Pending(i)' = Held \o line' BY <1>1, <1>5, <2>1 DEF Pending
    <3> QED BY <1>3, <1>5, <2>1, <3>1
  <2>2. CASE i \in DOMAIN way
    <3>1. Pending(i)' = Held BY <1>1, <1>5, <1>6, <2>2 DEF Pending
    <3>2. way'[i] = way[i] BY <1>5, <1>6, <2>2
    <3> QED BY <1>1, <2>2, <3>1, <3>2, OwedInRing
  <2> QED BY <1>6, <2>1, <2>2
<1> QED BY <1>7, <1>8 DEF DeliveryInv

\* History of damage: the frames at or above k are hurt, the others as before.
LEMMA HurtFacts ==
  ASSUME DeliveryInv, NEW k \in Int, way' = HurtFrom(k)
  PROVE  /\ WayInv' /\ DOMAIN way' = DOMAIN way /\ Len(way') = Len(way)
         /\ \A i \in DOMAIN way : /\ way'[i].frame = way[i].frame /\ way'[i].wanted = way[i].wanted
                                  /\ i >= k => way'[i].hurt
                                  /\ way[i].hurt => way'[i].hurt
<1> DEFINE N == Len(way)
           e(i) == [way[i] EXCEPT !.hurt = @ \/ i >= k]
<1>0. way \in Seq(Owed) /\ DOMAIN way = 1 .. N /\ N \in Nat BY DeliveryFacts
<1>1. ASSUME NEW i \in 1 .. N
      PROVE  /\ e(i) \in Owed /\ e(i).frame = way[i].frame /\ e(i).wanted = way[i].wanted
             /\ e(i).hurt = (way[i].hurt \/ i >= k)
  <2>1. way[i] \in Owed BY <1>0
  <2>2. (way[i].hurt \/ i >= k) \in BOOLEAN OBVIOUS
  <2> QED BY <2>1, <2>2, Zenon DEF Owed
<1>2. way' = [i \in 1 .. N |-> e(i)] BY <1>0 DEF HurtFrom
<1> HIDE DEF e
<1>3. way' \in [1 .. N -> Owed] BY <1>1, <1>2
<1>4. way' \in Seq(Owed) /\ Len(way') = N /\ DOMAIN way' = 1 .. N BY <1>0, <1>3
<1>5. \A i \in 1 .. N : way'[i] = e(i) BY <1>2
<1>6. WayInv' BY <1>0, <1>1, <1>4, <1>5, DeliveryFacts DEF WayInv, Wanted
<1> QED BY <1>0, <1>1, <1>4, <1>5, <1>6

\* Damage at the head of the line.
LEMMA FaultDelivery ==
  ASSUME DeliveryInv, PathInv', HurtHead, LineNoise
  PROVE  DeliveryInv'
<1>1. Held' = Held /\ parser' = parser /\ owner' = owner
  BY HeldSame DEF LineNoise, ring, loop
<1>2. stream' = [stream EXCEPT !.hurt = stream.on] BY DEF HurtHead
<1>3. StreamFollowed'
  <2>1. stream \in Streams /\ StreamFollowed BY DeliveryFacts
  <2>2. /\ stream'.on = stream.on /\ stream'.frame = stream.frame /\ stream'.todo = stream.todo
        /\ stream'.hurt = stream.on
    BY <1>2, <2>1 DEF Streams
  <2> QED BY <2>1, <2>2 DEF StreamFollowed
<1>4. CASE owner = "frame"
  <2>1. way' = HurtFrom(Len(way)) BY <1>4 DEF HurtHead
  <2>2. Len(way) \in Int /\ DOMAIN way = 1 .. Len(way) /\ Len(way) \in Nat BY DeliveryFacts
  <2>3. /\ WayInv' /\ DOMAIN way' = DOMAIN way /\ Len(way') = Len(way)
        /\ \A i \in DOMAIN way : /\ way'[i].frame = way[i].frame /\ way'[i].wanted = way[i].wanted
                                 /\ i >= Len(way) => way'[i].hurt
                                 /\ way[i].hurt => way'[i].hurt
    BY <2>1, <2>2, HurtFacts
  <2>4. ASSUME NEW i \in DOMAIN way, ~(i >= Len(way))
        PROVE  Pending(i)' = Held /\ Pending(i) = Held
    BY <1>1, <2>2, <2>3, <2>4 DEF Pending
  <2>5. OwedComes'
    <3> SUFFICES ASSUME NEW i \in DOMAIN way, ~way'[i].hurt, way'[i].wanted
                 PROVE  Comes(parser, Pending(i)', way'[i].frame)
      BY <1>1, <2>3 DEF OwedComes
    <3>1. ~(i >= Len(way)) /\ ~way[i].hurt /\ way[i].wanted /\ way'[i].frame = way[i].frame
      BY <2>3
    <3> QED BY <2>4, <3>1, DeliveryFacts DEF OwedComes
  <2> QED BY <1>3, <2>3, <2>5 DEF DeliveryInv
<1>5. CASE owner # "frame"
  <2>1. way' = way BY <1>5 DEF HurtHead
  <2>2. WayInv' BY <2>1, DeliveryFacts DEF WayInv
  <2>3. OwedComes' BY <1>1, <1>5, <2>1, OwedInRing DEF OwedComes, Pending
  <2> QED BY <1>3, <2>2, <2>3 DEF DeliveryInv
<1> QED BY <1>4, <1>5

(***************************************************************************)
(* The calls of the sender, one by one.                                    *)
(***************************************************************************)
LEMMA StreamHurt ==
  ASSUME DeliveryInv, stream' = [stream EXCEPT !.hurt = stream.on]
  PROVE  StreamFollowed'
<1>1. stream \in Streams /\ StreamFollowed BY DeliveryFacts
<1>2. /\ stream'.on = stream.on /\ stream'.frame = stream.frame /\ stream'.todo = stream.todo
      /\ stream'.hurt = stream.on
  BY <1>1 DEF Streams
<1> QED BY <1>1, <1>2 DEF StreamFollowed

LEMMA FrameFacts ==
  ASSUME LengthsFit, NEW f \in AllFrames
  PROVE  f \in Frames /\ LengthFits(f)
BY FrameAssumption DEF LengthsFit, AllFrames, Frames

LEMMA FrameSendDelivery ==
  ASSUME CrcDriver, LengthsFit, DeliveryInv, PathInv', FrameSend
  PROVE  DeliveryInv'
<1>1. PICK f \in FrameSet : Writes(frame_send(f), "frame") /\ way' = Owe(f, FALSE)
  BY DEF FrameSend
<1>2. f \in AllFrames BY DEF AllFrames
<1>3. f \in Frames /\ LengthFits(f) BY <1>2, FrameFacts
<1>4. StreamFollowed' BY StreamHurt DEF FrameSend
<1> DEFINE p == After(parser, Held)
<1>5. p \in Parser BY DeliveryFacts, AfterType
<1>6. line' = frame_send(f).octets BY <1>1 DEF Writes
<1>7. Held \in Seq(Octet) BY DeliveryFacts
<1>8. ~Wanted(f) \/ Comes(parser, Held \o line', f)
  <2> SUFFICES ASSUME Wanted(f) PROVE Comes(parser, Held \o line', f) OBVIOUS
  <2> HIDE DEF p
  <2>1. Carries(p, line', 2, f) BY <1>3, <1>5, <1>6, SendCarries
  <2>2. line' \in Seq(Octet) /\ Len(line') \in 1 .. Len(line') BY <2>1 DEF Carries
  <2>3. OnOctet(p, line', Len(line')) = <<f>> BY <2>1 DEF Carries, Expected
  <2>4. Comes(p, line', f) BY <2>2, <2>3 DEF Comes
  <2> QED BY <1>7, <2>2, <2>4, ComesAfter DEF p
<1> QED BY <1>1, <1>2, <1>4, <1>8, OweDelivery

LEMMA UiStartDelivery ==
  ASSUME CrcDriver, DeliveryInv, PathInv', UiStart
  PROVE  DeliveryInv'
<1>1. PICK f \in StreamFrames :
        /\ Writes(frame_begin(f.address, f.ctrl), "stream")
        /\ stream' = [on |-> TRUE, frame |-> f, todo |-> f.info, hurt |-> FALSE]
  BY DEF UiStart
<1> DEFINE t    == frame_begin(f.address, f.ctrl)
           p    == After(parser, Held)
           data == <<f.address, f.ctrl>>
<1>2. f.address \in Octet /\ f.ctrl \in Octet BY FrameAssumption
<1>3. p \in Parser BY DeliveryFacts, AfterType
<1>4. data \in Seq(Octet) /\ Len(data) = 2 BY <1>2
<1>5. Held' = Held /\ parser' = parser /\ line' = t.octets /\ tx_crc' = t.tx_crc
  BY <1>1, HeldSame DEF Writes, ring, loop
<1>6. line' \in Seq(Octet) /\ Held \in Seq(Octet) BY DeliveryFacts DEF PathInv, TypeOK
<1>7. InStep(After(p, line'), tx_crc', data)
  <2> HIDE DEF p
  <2> QED BY <1>2, <1>3, <1>5, BeginInStep
<1>8. After(parser, Held \o line') = After(p, line') BY <1>6, AfterBoth
<1> HIDE DEF p, t
<1>9. /\ stream'.on = TRUE /\ stream'.frame = f /\ stream'.todo = f.info BY <1>1
<1>10. Body(stream'.frame) = data \o stream'.todo BY <1>9 DEF Body
<1> HIDE DEF data
<1>11. /\ Body(stream'.frame) = data \o stream'.todo
       /\ InStep(After(parser', Held' \o line'), tx_crc', data)
  BY <1>5, <1>7, <1>8, <1>10
<1>12. \E s \in Seq(Octet) : /\ Len(s) >= 2
                              /\ Body(stream'.frame) = s \o stream'.todo
                              /\ InStep(After(parser', Held' \o line'), tx_crc', s)
  <2>1. Len(data) >= 2 BY <1>4
  <2> QED BY <1>4, <1>11, <2>1
<1>13. StreamFollowed' BY <1>9, <1>12 DEF StreamFollowed, Follows
<1> QED BY <1>1, <1>13, CallDelivery DEF UiStart

LEMMA UiDataDelivery ==
  ASSUME CrcDriver, DeliveryInv, PathInv', UiData
  PROVE  DeliveryInv'
<1> DEFINE x == Head(stream.todo)
           t == emit(Resume, x)
           p == After(parser, Held)
<1>1. Writes(t, "stream") /\ stream' = [stream EXCEPT !.todo = Tail(@)] /\ stream.todo # << >>
  BY DEF UiData
<1>2. /\ stream \in Streams /\ StreamFollowed /\ Held \in Seq(Octet) /\ tx_crc \in U16
      /\ (line = << >> => Held \o line = Held)
  BY DeliveryFacts
<1>3. stream.todo \in Seq(Octet) BY <1>2 DEF Streams
<1>4. x \in Octet /\ Tail(stream.todo) \in Seq(Octet) /\ stream.todo = <<x>> \o Tail(stream.todo)
  BY <1>1, <1>3, HeadTailProperties
<1>5. p \in Parser BY DeliveryFacts, AfterType
<1>6. /\ Held' = Held /\ parser' = parser /\ line' = t.octets /\ tx_crc' = t.tx_crc /\ line = << >>
  BY <1>1, HeldSame DEF Writes, ring, loop
<1>7. /\ stream'.on = stream.on /\ stream'.frame = stream.frame /\ stream'.hurt = stream.hurt
      /\ stream'.todo = Tail(stream.todo)
  BY <1>1, <1>2 DEF Streams
<1>8. stream.on BY <1>1, <1>2 DEF StreamFollowed
<1> HIDE DEF x
<1>9. t.octets = put_escaped(x) /\ t.tx_crc = compute(tx_crc, x) /\ put_escaped(x) \in Seq(Octet)
  <2>1. put_escaped(x) \in Seq(Octet) BY <1>4, EscapedOctets
  <2>2. t.octets = << >> \o put_escaped(x) BY DEF emit, Resume
  <2>3. t.tx_crc = compute(tx_crc, x) BY DEF emit, Resume
  <2> QED BY <2>1, <2>2, <2>3, ConcatEmptySeq
<1> HIDE DEF t
<1>10. ASSUME ~stream.hurt
       PROVE  \E data \in Seq(Octet) :
                /\ Len(data) >= 2
                /\ Body(stream'.frame) = data \o stream'.todo
                /\ InStep(After(parser', Held' \o line'), tx_crc', data)
  <2>1. PICK data \in Seq(Octet) : Len(data) >= 2 /\ Follows(data)
    BY <1>2, <1>8, <1>10 DEF StreamFollowed
  <2>2. InStep(p, tx_crc, data) BY <1>2, <1>6, <2>1 DEF Follows
  <2> DEFINE more == Append(data, x)
  <2>3. InStep(After(p, put_escaped(x)), compute(tx_crc, x), more)
    <3> HIDE DEF p
    <3> QED BY <1>2, <1>4, <1>5, <2>1, <2>2, StuffedInStep
  <2>4. After(parser, Held \o line') = After(p, put_escaped(x)) BY <1>2, <1>6, <1>9, AfterBoth
  <2>5. more \in Seq(Octet) /\ Len(more) >= 2 BY <1>4, <2>1, Appended
  <2>6. Body(stream.frame) = more \o Tail(stream.todo)
    <3> DEFINE one == <<x>>
    <3>1. one \in Seq(Octet) /\ more = data \o one BY <1>4, AppendIsConcat
    <3> DEFINE rest == Tail(stream.todo)
    <3>2. rest \in Seq(Octet) BY <1>4
    <3> HIDE DEF one, more, rest
    <3>3. data \o (one \o rest) = (data \o one) \o rest BY <3>1, <3>2, ConcatAssociative
    <3>4. Body(stream.frame) = data \o stream.todo BY <2>1 DEF Follows
    <3> QED BY <1>4, <3>1, <3>3, <3>4 DEF one, rest
  <2> HIDE DEF p, more
  <2> QED BY <1>6, <1>7, <1>9, <2>3, <2>4, <2>5, <2>6
<1>11. StreamFollowed' BY <1>2, <1>7, <1>8, <1>10 DEF StreamFollowed, Follows
<1> QED BY <1>1, <1>11, CallDelivery DEF UiData

\* transmit_ui_end closes a stream that nothing has hurt.
LEMMA UiEndCarries ==
  ASSUME CrcDriver, LengthsFit, DeliveryInv, UiEnd, ~stream.hurt
  PROVE  Carries(After(parser, Held), line', 1, stream.frame)
<1> DEFINE t == Resume
           f == stream.frame
           p == After(parser, Held)
<1>1. stream.on /\ stream.todo = << >> /\ line' = frame_end(t).octets /\ line = << >>
  BY DEF UiEnd, Writes
<1>2. /\ StreamFollowed /\ tx_crc \in U16 /\ Held \o line = Held
  BY <1>1, DeliveryFacts
<1>3. f \in AllFrames BY <1>1, <1>2 DEF StreamFollowed, AllFrames
<1>4. f \in Frames /\ LengthFits(f) BY <1>3, FrameFacts
<1>5. p \in Parser BY DeliveryFacts, AfterType
<1>6. t \in Sent /\ t.tx_crc = tx_crc /\ t.octets = << >> BY <1>2 DEF Resume, Sent
<1>7. PICK data \in Seq(Octet) : Follows(data) BY <1>1, <1>2 DEF StreamFollowed
<1>8. Body(f) = data BY <1>1, <1>7, ConcatEmptySeq DEF Follows
<1>9. InStep(After(p, t.octets), t.tx_crc, Body(f))
  BY <1>2, <1>6, <1>7, <1>8, AfterNone DEF Follows
<1>10. QuietFrom(p, t.octets, 1) BY <1>6 DEF QuietFrom
<1> HIDE DEF p, t
<1> QED BY <1>1, <1>4, <1>5, <1>6, <1>9, <1>10, EndCarries DEF p

LEMMA UiEndDelivery ==
  ASSUME CrcDriver, LengthsFit, DeliveryInv, PathInv', UiEnd
  PROVE  DeliveryInv'
<1> DEFINE f == stream.frame
           p == After(parser, Held)
<1>1. /\ Writes(frame_end(Resume), "frame") /\ way' = Owe(f, stream.hurt)
      /\ stream.on /\ stream' = NoStream
  BY DEF UiEnd
<1>2. stream \in Streams /\ StreamFollowed /\ Held \in Seq(Octet) BY DeliveryFacts
<1>3. f \in AllFrames /\ stream.hurt \in BOOLEAN BY <1>1, <1>2 DEF StreamFollowed, AllFrames, Streams
<1>4. StreamFollowed' BY <1>1 DEF StreamFollowed, NoStream
<1>5. stream.hurt \/ ~Wanted(f) \/ Comes(parser, Held \o line', f)
  <2> SUFFICES ASSUME ~stream.hurt, Wanted(f) PROVE Comes(parser, Held \o line', f) OBVIOUS
  <2>1. Carries(p, line', 1, f) BY UiEndCarries
  <2> HIDE DEF p
  <2>2. line' \in Seq(Octet) /\ Len(line') \in 1 .. Len(line') BY <2>1 DEF Carries
  <2>3. OnOctet(p, line', Len(line')) = <<f>> BY <2>1 DEF Carries, Expected
  <2>4. Comes(p, line', f) BY <2>2, <2>3 DEF Comes
  <2> QED BY <1>2, <2>2, <2>4, ComesAfter DEF p
<1> HIDE DEF f
<1> QED BY <1>1, <1>3, <1>4, <1>5, OweDelivery

LEMMA SenderAbortDelivery ==
  ASSUME DeliveryInv, PathInv', SenderAbort
  PROVE  DeliveryInv'
<1>1. StreamFollowed' BY StreamHurt DEF SenderAbort
<1> QED BY <1>1, CallDelivery DEF SenderAbort

LEMMA IdleDelivery ==
  ASSUME DeliveryInv, PathInv', IdleOctet
  PROVE  DeliveryInv'
<1>1. StreamFollowed' BY StreamHurt DEF IdleOctet
<1>2. Held' = Held /\ parser' = parser /\ line = << >> /\ owner' = "none" /\ way' = way
  BY HeldSame DEF IdleOctet, ring, loop
<1>3. WayInv' BY <1>2, DeliveryFacts DEF WayInv
<1>4. OwedComes'
  <2> SUFFICES ASSUME NEW i \in DOMAIN way
               PROVE  way[i].hurt \/ ~way[i].wanted \/ Comes(parser, Held, way[i].frame)
    BY <1>2 DEF OwedComes, Pending
  <2> QED BY <1>2, OwedInRing
<1> QED BY <1>1, <1>3, <1>4 DEF DeliveryInv

(***************************************************************************)
(* The receiver.                                                           *)
(***************************************************************************)
\* The interrupt moves an octet from the line to the ring.
LEMMA IsrSame ==
  ASSUME PathInv, line \in Seq(Octet), Held \in Seq(Octet), uart_rx_isr
  PROVE  /\ Held' \o line' = Held \o line
         /\ Held' = Held \o <<Head(line)>> /\ Head(line) \in Octet
<1> DEFINE x == Head(line)
           one == <<x>>
<1>1. line # << >> /\ line' = Tail(line) BY DEF uart_rx_isr
<1>2. x \in Octet /\ line' \in Seq(Octet) /\ line = one \o line'
  BY <1>1, HeadTailProperties
<1>3. Held' = Append(Held, x) BY HeldAppend
<1>4. one \in Seq(Octet) /\ Held' = Held \o one BY <1>2, <1>3, AppendIsConcat
<1> DEFINE rest == line'
<1>5. rest \in Seq(Octet) BY <1>2
<1>6. x \in Octet /\ Held' = Held \o <<x>> BY <1>2, <1>4
<1> HIDE DEF x, one, rest
<1>7. Held \o (one \o rest) = (Held \o one) \o rest BY <1>4, <1>5, ConcatAssociative
<1>8. Held' \o line' = Held \o line BY <1>2, <1>4, <1>7 DEF rest
<1> QED BY <1>6, <1>8 DEF x

LEMMA IsrDelivery ==
  ASSUME DeliveryInv, PathInv', uart_rx_isr
  PROVE  DeliveryInv'
<1> DEFINE one == <<Head(line)>>
<1>1. UNCHANGED <<tx_crc, parser, stream, owner, way>> BY DEF uart_rx_isr, loop
<1>2. PathInv /\ Held \in Seq(Octet) /\ line \in Seq(Octet) BY DeliveryFacts
<1>5. one \in Seq(Octet) /\ Held' = Held \o one BY <1>2, IsrSame
<1>6. Held' \o line' = Held \o line BY <1>2, IsrSame
<1> HIDE DEF one
<1>7. WayInv' BY <1>1, DeliveryFacts DEF WayInv
<1>8. StreamFollowed' BY <1>1, <1>6, DeliveryFacts DEF StreamFollowed, Follows
<1>9. OwedComes'
  <2> SUFFICES ASSUME NEW i \in DOMAIN way, ~way[i].hurt, way[i].wanted
               PROVE  Comes(parser, Pending(i)', way[i].frame)
    BY <1>1 DEF OwedComes
  <2>1. Comes(parser, Pending(i), way[i].frame) BY DeliveryFacts DEF OwedComes
  <2>2. CASE i = Len(way) /\ owner = "frame"
    BY <1>1, <1>6, <2>1, <2>2 DEF Pending
  <2>3. CASE ~(i = Len(way) /\ owner = "frame")
    <3>1. Pending(i) = Held /\ Pending(i)' = Held \o one BY <1>1, <1>5, <2>3 DEF Pending
    <3> QED BY <1>2, <1>5, <2>1, <3>1, ComesMore
  <2> QED BY <2>2, <2>3
<1> QED BY <1>7, <1>8, <1>9 DEF DeliveryInv

\* Steps that leave the octets, the parser and history alone.
LEMMA StillDelivery ==
  ASSUME DeliveryInv, PathInv',
         UNCHANGED <<tx_crc, line, rx_ring, rx_head, rx_tail, parser, stream, owner, way>>
  PROVE  DeliveryInv'
<1>1. Held' = Held BY HeldSame
<1>2. WayInv' BY DeliveryFacts DEF WayInv
<1>3. StreamFollowed' BY <1>1, DeliveryFacts DEF StreamFollowed, Follows
<1>4. OwedComes' BY <1>1, DeliveryFacts DEF OwedComes, Pending
<1> QED BY <1>2, <1>3, <1>4 DEF DeliveryInv

LEMMA ReceiverAbortDelivery ==
  ASSUME DeliveryInv, PathInv', ReceiverAbort
  PROVE  DeliveryInv'
<1>1. way' = HurtFrom(1) /\ stream' = [stream EXCEPT !.hurt = stream.on] BY DEF ReceiverAbort
<1>2. StreamFollowed' BY <1>1, StreamHurt
<1>3. /\ WayInv' /\ DOMAIN way' = DOMAIN way
      /\ \A i \in DOMAIN way : i >= 1 => way'[i].hurt
  BY <1>1, HurtFacts
<1>4. \A i \in DOMAIN way : i >= 1 BY DeliveryFacts
<1>5. OwedComes' BY <1>3, <1>4 DEF OwedComes
<1> QED BY <1>2, <1>3, <1>5 DEF DeliveryInv

LEMMA Greatest ==
  ASSUME NEW N \in Nat, NEW S \in SUBSET (1 .. N), S # {}
  PROVE  Max(S) \in S /\ \A y \in S : y <= Max(S)
<1> DEFINE T == {N - y : y \in S}
<1>1. T \subseteq Nat /\ T # {}
  <2>1. ASSUME NEW y \in S PROVE N - y \in Nat OBVIOUS
  <2> QED BY <2>1
<1>2. PICK z \in T : \A t \in T : z <= t
  <2> HIDE DEF T
  <2> QED BY <1>1, LeastNatural
<1>3. PICK x \in S : z = N - x BY <1>2
<1>4. ASSUME NEW y \in S PROVE x >= y
  <2>1. z <= N - y BY <1>2
  <2> QED BY <1>3, <2>1
<1>5. Max(S) \in S /\ \A y \in S : Max(S) >= y BY <1>4 DEF Max
<1> QED BY <1>5

\* History: a frame delivered is paid, and with it those before it.
LEMMA SettleFacts ==
  ASSUME way \in Seq(Owed), NEW frames
  PROVE  \E m \in 0 .. Len(way) :
           /\ Settle(frames) = SubSeq(way, m + 1, Len(way))
           /\ \A i \in DOMAIN way : frames = <<way[i].frame>> => i <= m
<1> DEFINE same == {i \in DOMAIN way : frames # << >> /\ frames[1] = way[i].frame}
           near == {i \in DOMAIN way : frames # << >> /\ frames[1] \in ZeroTailed(way[i].frame)}
           paid == IF same # {} THEN same ELSE near
<1>1. DOMAIN way = 1 .. Len(way) /\ Len(way) \in Nat BY LenProperties
<1>2. paid \subseteq 1 .. Len(way) BY <1>1
<1>3. ASSUME NEW i \in DOMAIN way, frames = <<way[i].frame>> PROVE i \in same BY <1>3
<1>4. Settle(frames) = IF paid = {} THEN way ELSE SubSeq(way, Max(paid) + 1, Len(way))
  BY DEF Settle
<1>5. same # {} => paid = same OBVIOUS
<1> HIDE DEF paid, same
<1>6. CASE paid = {}
  <2>1. SubSeq(way, 0 + 1, Len(way)) = way BY SubSeqFull
  <2>2. 0 \in 0 .. Len(way) BY <1>1
  <2> QED BY <1>3, <1>4, <1>5, <1>6, <2>1, <2>2
<1>7. CASE paid # {}
  <2>1. Max(paid) \in paid /\ \A y \in paid : y <= Max(paid) BY <1>1, <1>2, <1>7, Greatest
  <2>2. Max(paid) \in 0 .. Len(way)
    <3>1. Max(paid) \in 1 .. Len(way) BY <1>2, <2>1
    <3> QED BY <1>1, <3>1
  <2>3. ASSUME NEW i \in DOMAIN way, frames = <<way[i].frame>> PROVE i <= Max(paid)
    BY <1>3, <1>5, <2>1, <2>3
  <2> QED BY <1>4, <1>7, <2>2, <2>3
<1> QED BY <1>6, <1>7

\* The main loop: the octet dispatches the frame whose turn it is, or the frame
\* is still to come.
LEMMA ConsumeDelivery ==
  ASSUME CrcDriver, DeliveryInv, PathInv', Consume
  PROVE  DeliveryInv'
<1> DEFINE N == Len(way)
           rest == Held' \o line
<1>1. /\ parser' = rx_byte(parser, b) /\ way' = Settle(got') /\ got' = Dispatched(parser, b)
      /\ UNCHANGED <<tx_crc, line, stream, owner>>
  BY DEF Consume
<1>2. /\ PathInv /\ way \in Seq(Owed) /\ DOMAIN way = 1 .. N /\ N \in Nat
      /\ line \in Seq(Octet) /\ b \in Octet
  BY DeliveryFacts
<1>3. Held = <<b>> \o Held' BY <1>2, HeldTail
<1>4. Held' \in Seq(Octet) /\ rest \in Seq(Octet)
  <2>1. rx_ring' \in [Slots -> Octet] /\ rx_head' \in Slots /\ rx_tail' \in Slots
    BY DEF PathInv, TypeOK
  <2>2. Held' \in Seq(Octet) BY <2>1, OctetsType DEF Held
  <2> QED BY <1>2, <2>2
<1>5. Held \o line = <<b>> \o rest
  <2> DEFINE one  == <<b>>
             next == Held'
  <2>1. one \in Seq(Octet) /\ next \in Seq(Octet) BY <1>2, <1>4
  <2> HIDE DEF one, next
  <2>2. (one \o next) \o line = one \o (next \o line) BY <1>2, <2>1, ConcatAssociative
  <2> QED BY <1>3, <2>2 DEF one, next
<1> HIDE DEF rest
<1>6. StreamFollowed'
  <2>1. After(parser, Held \o line) = After(parser', Held' \o line)
    BY <1>1, <1>2, <1>4, <1>5, AfterStep DEF rest
  <2> QED BY <1>1, <2>1, DeliveryFacts DEF StreamFollowed, Follows
<1>7. PICK m \in 0 .. N :
        /\ way' = SubSeq(way, m + 1, N)
        /\ \A i \in DOMAIN way : got' = <<way[i].frame>> => i <= m
  BY <1>1, <1>2, SettleFacts
<1>8. /\ way' \in Seq(Owed) /\ Len(way') = N - m /\ DOMAIN way' = 1 .. (N - m)
      /\ \A i \in 1 .. (N - m) : way'[i] = way[i + m]
  <2>1. way' \in Seq(Owed) /\ Len(way') = N - m
    <3> HIDE DEF N
    <3>1. m + 1 \in 1 .. (N + 1) /\ Len(way) = N BY <1>2 DEF N
    <3>2. SubSeq(way, m + 1, N) \in Seq(Owed) BY <1>2, <3>1, SubSeqProperties
    <3>3. Len(SubSeq(way, m + 1, N)) = N - m BY <1>2, <3>1, SubSeqProperties
    <3> QED BY <1>7, <3>2, <3>3
  <2>2. DOMAIN way' = 1 .. (N - m) BY <2>1, LenProperties
  <2>3. ASSUME NEW i \in 1 .. (N - m) PROVE way'[i] = way[i + m] BY <1>2, <1>7
  <2> QED BY <2>1, <2>2, <2>3
<1>9. ASSUME NEW i \in 1 .. (N - m) PROVE i + m \in DOMAIN way /\ ~(i + m <= m) BY <1>2
<1>10. WayInv'
  <2>1. ASSUME NEW i \in DOMAIN way', way'[i].wanted PROVE Wanted(way'[i].frame)
    BY <1>8, <1>9, <2>1, DeliveryFacts DEF WayInv
  <2> QED BY <1>8, <2>1 DEF WayInv
<1>11. OwedComes'
  <2> SUFFICES ASSUME NEW i \in DOMAIN way', ~way'[i].hurt, way'[i].wanted
               PROVE  Comes(parser', Pending(i)', way'[i].frame)
    BY DEF OwedComes
  <2> DEFINE f == way'[i].frame
             j == i + m
  <2>1. i \in 1 .. (N - m) /\ j \in DOMAIN way /\ way'[i] = way[j] BY <1>8, <1>9
  <2>2. Comes(parser, Pending(j), f) BY <2>1, DeliveryFacts DEF OwedComes
  <2>3. Dispatched(parser, b) # <<f>> BY <1>1, <1>7, <1>9, <2>1
  <2>4. j = N <=> i = Len(way') BY <1>2, <1>8, <2>1
  <2> HIDE DEF f, j
  <2>5. CASE j = N /\ owner = "frame"
    <3>1. Pending(j) = <<b>> \o rest /\ Pending(i)' = rest
      BY <1>1, <1>5, <2>4, <2>5 DEF Pending, rest
    <3> QED BY <1>1, <1>2, <1>4, <2>2, <2>3, <3>1, ComesStep DEF f
  <2>6. CASE ~(j = N /\ owner = "frame")
    <3>1. Pending(j) = <<b>> \o Held' /\ Pending(i)' = Held'
      BY <1>1, <1>3, <2>4, <2>6 DEF Pending
    <3> QED BY <1>1, <1>2, <1>4, <2>2, <2>3, <3>1, ComesStep DEF f
  <2> QED BY <2>5, <2>6
<1> QED BY <1>6, <1>10, <1>11 DEF DeliveryInv

LEMMA DeliveryNext ==
  ASSUME CrcDriver, LengthsFit, DeliveryInv, [Next]_vars
  PROVE  DeliveryInv'
<1>1. PathInv' BY DeliveryFacts, PathNext
<1>2. CASE FrameSend BY <1>1, <1>2, FrameSendDelivery
<1>3. CASE UiStart BY <1>1, <1>3, UiStartDelivery
<1>4. CASE UiData BY <1>1, <1>4, UiDataDelivery
<1>5. CASE UiEnd BY <1>1, <1>5, UiEndDelivery
<1>6. CASE SenderAbort BY <1>1, <1>6, SenderAbortDelivery
<1>7. CASE LoseOctet \/ ChangeOctet \/ InsertOctet \/ uart_rx_isr_full
  <2>1. HurtHead /\ LineNoise BY <1>7 DEF LoseOctet, ChangeOctet, InsertOctet, uart_rx_isr_full
  <2> QED BY <1>1, <2>1, FaultDelivery
<1>8. CASE IdleOctet BY <1>1, <1>8, IdleDelivery
<1>9. CASE uart_rx_isr BY <1>1, <1>9, IsrDelivery
<1>10. CASE Fetch BY <1>1, <1>10, StillDelivery DEF Fetch, ring
<1>11. CASE Consume BY <1>1, <1>11, ConsumeDelivery
<1>12. CASE ReceiverAbort BY <1>1, <1>12, ReceiverAbortDelivery
<1>13. CASE UNCHANGED vars BY <1>1, <1>13, StillDelivery DEF vars, ring, loop, history
<1> QED BY <1>2, <1>3, <1>4, <1>5, <1>6, <1>7, <1>8, <1>9, <1>10, <1>11, <1>12, <1>13 DEF Next

\* Nothing under way, everything unhurt has come: every frame put on the line
\* by frame_send, or by transmit_ui_start, _data and _end, that no damage
\* touched and the receiver must accept has been dispatched once the ring is
\* empty, whatever the parser read before it (put_escaped against rx_byte,
\* handle_flag's reset, the ring of the interrupt), for every payload, every
\* size of ring and buffer and every checksum driver that returns numbers.
THEOREM IntactSafe ==
  ASSUME CrcDriver, LengthsFit
  PROVE  Spec => []IntactDelivered
<1>1. DeliveryInv /\ [Next]_vars => DeliveryInv' BY DeliveryNext
<1>2. DeliveryInv => IntactDelivered
  <2> SUFFICES ASSUME DeliveryInv, line = << >>, rx_head = rx_tail, NEW i \in DOMAIN way
               PROVE  way[i].hurt \/ ~way[i].wanted
    BY DEF IntactDelivered
  <2>1. Held = << >> /\ Held \o line = Held BY DeliveryFacts, HeldType
  <2>2. Pending(i) = << >> BY <2>1 DEF Pending
  <2>3. ~Comes(parser, << >>, way[i].frame) BY DEF Comes
  <2> QED BY <2>2, <2>3, DeliveryFacts DEF OwedComes
<1> QED BY <1>1, <1>2, DeliveryInit, PTL DEF Spec

(***************************************************************************)
(* Nothing but what is owed comes, once and in order, where nothing is     *)
(* disturbed: the abstract channel is implemented.  m[i] is the octet that *)
(* dispatches the i-th frame of w, for those the receiver must accept.     *)
(***************************************************************************)
Placed(w, p, octets, m) ==
  /\ \A i \in DOMAIN w : w[i].wanted =>
       m[i] \in 1 .. Len(octets) /\ OnOctet(p, octets, m[i]) = <<w[i].frame>>
  /\ \A i, j \in DOMAIN w : w[i].wanted /\ w[j].wanted /\ i < j => m[i] < m[j]
  /\ \A k \in 1 .. Len(octets) :
       OnOctet(p, octets, k) = << >> \/ \E i \in DOMAIN w : w[i].wanted /\ m[i] = k

Placeable(w, p, octets) == \E m \in [DOMAIN w -> Int] : Placed(w, p, octets, m)

\* The octets behind the first are read from where it leads.
LEMMA OnTail ==
  ASSUME NEW p, NEW x \in Octet, NEW more \in Seq(Octet)
  PROVE  /\ <<x>> \o more \in Seq(Octet) /\ Len(<<x>> \o more) = Len(more) + 1
         /\ OnOctet(p, <<x>> \o more, 1) = Dispatched(p, x)
         /\ \A k \in 1 .. Len(more) :
              OnOctet(p, <<x>> \o more, k + 1) = OnOctet(rx_byte(p, x), more, k)
<1> DEFINE one == <<x>>
<1>0. one \in Seq(Octet) /\ Len(one) = 1 /\ one[1] = x OBVIOUS
<1>1. Dispatched(p, x) = OnOctet(p, one, 1) BY <1>0, OnFirst
<1>2. rx_byte(p, x) = After(p, one) BY AfterOne
<1> HIDE DEF one
<1>3. one \o more \in Seq(Octet) /\ Len(one \o more) = Len(more) + 1
  <2>1. Len(one \o more) = Len(one) + Len(more) /\ Len(more) \in Nat BY <1>0, ConcatProperties
  <2>2. one \o more \in Seq(Octet) BY <1>0, ConcatProperties
  <2> QED BY <1>0, <2>1, <2>2
<1>4. OnOctet(p, one \o more, 1) = OnOctet(p, one, 1)
  <2>1. 1 \in 1 .. Len(one) BY <1>0
  <2> QED BY <1>0, <2>1, OnFront
<1>5. ASSUME NEW k \in 1 .. Len(more)
      PROVE  OnOctet(p, one \o more, k + 1) = OnOctet(After(p, one), more, k)
  <2>1. k + 1 = Len(one) + k BY <1>0
  <2> QED BY <1>0, <2>1, OnRest
<1> QED BY <1>1, <1>2, <1>3, <1>4, <1>5 DEF one

\* Octets that dispatch nothing change nothing.
LEMMA PlacedQuiet ==
  ASSUME NEW w, NEW p, NEW octets \in Seq(Octet), NEW more \in Seq(Octet),
         Placeable(w, p, octets), QuietFrom(After(p, octets), more, 1)
  PROVE  Placeable(w, p, octets \o more)
<1> DEFINE all == octets \o more
           N   == Len(octets)
<1>1. PICK m \in [DOMAIN w -> Int] : Placed(w, p, octets, m) BY DEF Placeable
<1>2. /\ all \in Seq(Octet) /\ Len(all) = N + Len(more) /\ N \in Nat /\ Len(more) \in Nat
  OBVIOUS
<1>3. \A k \in 1 .. N : OnOctet(p, all, k) = OnOctet(p, octets, k) BY OnFront
<1>4. ASSUME NEW k \in 1 .. Len(all), k \notin 1 .. N PROVE OnOctet(p, all, k) = << >>
  <2> DEFINE j == k - N
  <2>1. j \in 1 .. Len(more) /\ k = N + j BY <1>2, <1>4
  <2> HIDE DEF j
  <2>2. OnOctet(p, all, k) = OnOctet(After(p, octets), more, j) BY <2>1, OnRest
  <2> QED BY <2>1, <2>2 DEF QuietFrom
<1> HIDE DEF all
<1>5. \A i \in DOMAIN w : w[i].wanted =>
        m[i] \in 1 .. Len(all) /\ OnOctet(p, all, m[i]) = <<w[i].frame>>
  BY <1>1, <1>2, <1>3 DEF Placed
<1>6. ASSUME NEW k \in 1 .. Len(all)
      PROVE  OnOctet(p, all, k) = << >> \/ \E i \in DOMAIN w : w[i].wanted /\ m[i] = k
  BY <1>1, <1>3, <1>4 DEF Placed
<1>7. Placed(w, p, all, m) BY <1>1, <1>5, <1>6 DEF Placed
<1> QED BY <1>7 DEF Placeable, all

\* The octets of one frame more.
LEMMA PlacedMore ==
  ASSUME NEW w \in Seq(Owed), NEW e \in Owed, NEW p, NEW octets \in Seq(Octet),
         NEW more \in Seq(Octet), Len(more) >= 1, Placeable(w, p, octets),
         \A k \in 1 .. (Len(more) - 1) : OnOctet(After(p, octets), more, k) = << >>,
         OnOctet(After(p, octets), more, Len(more)) = IF e.wanted THEN <<e.frame>> ELSE << >>
  PROVE  Placeable(Append(w, e), p, octets \o more)
<1> DEFINE all == octets \o more
           N   == Len(octets)
           L   == Len(more)
           n   == Len(w)
           v   == Append(w, e)
<1>1. PICK m \in [DOMAIN w -> Int] : Placed(w, p, octets, m) BY DEF Placeable
<1>2. /\ all \in Seq(Octet) /\ Len(all) = N + L /\ N \in Nat /\ L \in Nat /\ L >= 1
  OBVIOUS
<1>3. \A k \in 1 .. N : OnOctet(p, all, k) = OnOctet(p, octets, k) BY OnFront
<1>4. \A j \in 1 .. L : OnOctet(p, all, N + j) = OnOctet(After(p, octets), more, j) BY OnRest
<1>5. ASSUME NEW k \in 1 .. (N + L), k \notin 1 .. N, k # N + L PROVE OnOctet(p, all, k) = << >>
  <2> DEFINE j == k - N
  <2>1. j \in 1 .. (L - 1) /\ j \in 1 .. L /\ k = N + j BY <1>2, <1>5
  <2> HIDE DEF j
  <2> QED BY <1>4, <2>1
<1>6. OnOctet(p, all, N + L) = IF e.wanted THEN <<e.frame>> ELSE << >>
  <2>1. L \in 1 .. L BY <1>2
  <2> QED BY <1>4, <2>1
<1>7. /\ n \in Nat /\ DOMAIN w = 1 .. n
      /\ v \in Seq(Owed) /\ Len(v) = n + 1 /\ v[n + 1] = e /\ \A i \in 1 .. n : v[i] = w[i]
  BY AppendProperties, LenProperties
<1>8. DOMAIN v = 1 .. (n + 1) BY <1>7, LenProperties
<1> HIDE DEF all, v, N, L, n
<1> DEFINE m2 == [i \in 1 .. (n + 1) |-> IF i = n + 1 THEN N + L ELSE m[i]]
<1>9. m2 \in [DOMAIN v -> Int]
  <2>1. ASSUME NEW i \in 1 .. (n + 1), i # n + 1 PROVE m[i] \in Int
    <3>1. i \in 1 .. n BY <1>7, <2>1
    <3> QED BY <1>7, <3>1
  <2> QED BY <1>2, <1>8, <2>1
<1>10. m2[n + 1] = N + L /\ \A i \in 1 .. n : m2[i] = m[i] BY <1>7
<1> HIDE DEF m2
<1>11. ASSUME NEW i \in 1 .. n, w[i].wanted
       PROVE  m[i] \in 1 .. N /\ m[i] < N + L /\ OnOctet(p, all, m[i]) = <<w[i].frame>>
  <2>1. m[i] \in 1 .. N /\ OnOctet(p, octets, m[i]) = <<w[i].frame>>
    BY <1>1, <1>7, <1>11 DEF Placed, N
  <2> QED BY <1>2, <1>3, <2>1
<1>12. ASSUME NEW i \in DOMAIN v, v[i].wanted
       PROVE  m2[i] \in 1 .. Len(all) /\ OnOctet(p, all, m2[i]) = <<v[i].frame>>
  <2>1. CASE i = n + 1
    <3>1. e.wanted BY <1>7, <1>12, <2>1
    <3>2. N + L \in 1 .. Len(all) BY <1>2
    <3> QED BY <1>6, <1>7, <1>10, <2>1, <3>1, <3>2
  <2>2. CASE i \in 1 .. n
    <3>1. w[i].wanted /\ v[i] = w[i] /\ m2[i] = m[i] BY <1>7, <1>10, <1>12, <2>2
    <3>2. m[i] \in 1 .. N /\ OnOctet(p, all, m[i]) = <<w[i].frame>> BY <1>11, <2>2, <3>1
    <3>3. m[i] \in 1 .. Len(all) BY <1>2, <3>2
    <3> QED BY <3>1, <3>2, <3>3
  <2> QED BY <1>7, <1>8, <2>1, <2>2
<1>13. ASSUME NEW i \in DOMAIN v, NEW j \in DOMAIN v, v[i].wanted, v[j].wanted, i < j
       PROVE  m2[i] < m2[j]
  <2>1. i \in 1 .. n /\ w[i].wanted /\ m2[i] = m[i] BY <1>7, <1>8, <1>10, <1>13
  <2>2. CASE j = n + 1 BY <1>10, <1>11, <2>1, <2>2
  <2>3. CASE j \in 1 .. n
    <3>1. w[j].wanted /\ m2[j] = m[j] BY <1>7, <1>10, <1>13, <2>3
    <3> QED BY <1>1, <1>7, <1>13, <2>1, <2>3, <3>1 DEF Placed
  <2> QED BY <1>7, <1>8, <2>2, <2>3
<1>14. ASSUME NEW k \in 1 .. Len(all)
       PROVE  OnOctet(p, all, k) = << >> \/ \E i \in DOMAIN v : v[i].wanted /\ m2[i] = k
  <2>1. CASE k = N + L
    <3>1. n + 1 \in DOMAIN v BY <1>7, <1>8
    <3> QED BY <1>6, <1>7, <1>10, <2>1, <3>1
  <2>2. CASE k \in 1 .. N
    <3>1. OnOctet(p, octets, k) = << >> \/ \E i \in 1 .. n : w[i].wanted /\ m[i] = k
      BY <1>1, <1>7, <2>2 DEF Placed, N
    <3>2. ASSUME NEW i \in 1 .. n, w[i].wanted, m[i] = k
          PROVE  i \in DOMAIN v /\ v[i].wanted /\ m2[i] = k
      BY <1>7, <1>8, <1>10, <3>2
    <3> QED BY <1>3, <2>2, <3>1, <3>2
  <2>3. CASE k # N + L /\ k \notin 1 .. N BY <1>2, <1>5, <2>3
  <2> QED BY <2>1, <2>2, <2>3
<1>15. Placed(v, p, all, m2) BY <1>12, <1>13, <1>14 DEF Placed
<1>16. Placeable(v, p, all) BY <1>9, <1>15 DEF Placeable
<1> QED BY <1>16 DEF all, v

\* The first octet dispatches nothing ...
LEMMA PlacedNone ==
  ASSUME NEW w \in Seq(Owed), NEW p, NEW x \in Octet, NEW more \in Seq(Octet),
         Placeable(w, p, <<x>> \o more), Dispatched(p, x) = << >>
  PROVE  Placeable(w, rx_byte(p, x), more)
<1> DEFINE all == <<x>> \o more
           q   == rx_byte(p, x)
           N   == Len(more)
           m2(m) == [i \in DOMAIN w |-> m[i] - 1]
<1>1. PICK m \in [DOMAIN w -> Int] : Placed(w, p, all, m) BY DEF Placeable
<1>2. /\ N \in Nat /\ Len(all) = N + 1 /\ OnOctet(p, all, 1) = << >>
      /\ \A k \in 1 .. N : OnOctet(p, all, k + 1) = OnOctet(q, more, k)
  BY OnTail
<1> HIDE DEF all, q, N
<1>3. m2(m) \in [DOMAIN w -> Int] /\ \A i \in DOMAIN w : m2(m)[i] = m[i] - 1 /\ m[i] \in Int
  OBVIOUS
<1> HIDE DEF m2
<1>4. ASSUME NEW i \in DOMAIN w, w[i].wanted
      PROVE  m2(m)[i] \in 1 .. N /\ OnOctet(q, more, m2(m)[i]) = <<w[i].frame>>
  <2>1. m[i] \in 1 .. (N + 1) /\ OnOctet(p, all, m[i]) = <<w[i].frame>>
    BY <1>1, <1>2, <1>4 DEF Placed
  <2>2. m[i] # 1
    <3>1. <<w[i].frame>> # << >> OBVIOUS
    <3> QED BY <1>2, <2>1, <3>1
  <2> DEFINE k == m2(m)[i]
  <2>3. k \in 1 .. N /\ m[i] = k + 1 BY <1>2, <1>3, <2>1, <2>2
  <2> HIDE DEF k
  <2>4. OnOctet(q, more, k) = <<w[i].frame>> BY <1>2, <2>1, <2>3
  <2> QED BY <2>3, <2>4 DEF k
<1>5. ASSUME NEW i \in DOMAIN w, NEW j \in DOMAIN w, w[i].wanted, w[j].wanted, i < j
      PROVE  m2(m)[i] < m2(m)[j]
  <2>1. m[i] < m[j] BY <1>1, <1>5 DEF Placed
  <2> QED BY <1>3, <2>1
<1>6. ASSUME NEW k \in 1 .. N
      PROVE  OnOctet(q, more, k) = << >> \/ \E i \in DOMAIN w : w[i].wanted /\ m2(m)[i] = k
  <2>1. k + 1 \in 1 .. Len(all) /\ OnOctet(p, all, k + 1) = OnOctet(q, more, k) BY <1>2
  <2>2. CASE OnOctet(p, all, k + 1) = << >> BY <2>1, <2>2
  <2>3. CASE OnOctet(p, all, k + 1) # << >>
    <3>1. PICK i \in DOMAIN w : w[i].wanted /\ m[i] = k + 1 BY <1>1, <2>1, <2>3 DEF Placed
    <3>2. m2(m)[i] = k BY <1>3, <3>1
    <3> QED BY <3>1, <3>2
  <2> QED BY <2>2, <2>3
<1>7. Placed(w, q, more, m2(m)) BY <1>4, <1>5, <1>6 DEF Placed, N
<1>8. Placeable(w, q, more) BY <1>3, <1>7 DEF Placeable
<1> QED BY <1>8 DEF q

\* What is behind the n-th entry.
LEMMA Behind ==
  ASSUME NEW w \in Seq(Owed), NEW n \in 1 .. Len(w)
  PROVE  LET v == SubSeq(w, n + 1, Len(w))
         IN  /\ v \in Seq(Owed) /\ Len(v) = Len(w) - n /\ DOMAIN v = 1 .. (Len(w) - n)
             /\ \A i \in 1 .. (Len(w) - n) : v[i] = w[i + n]
<1> DEFINE L == Len(w)
           v == SubSeq(w, n + 1, L)
<1>1. L \in Nat /\ DOMAIN w = 1 .. L /\ n \in 1 .. L BY LenProperties
<1> HIDE DEF L
<1>2. \A i \in (n + 1) .. L : w[i] \in Owed BY <1>1
<1>3. /\ v \in Seq(Owed) /\ Len(v) = IF n + 1 <= L THEN L - (n + 1) + 1 ELSE 0
      /\ \A i \in 1 .. L - (n + 1) + 1 : v[i] = w[(n + 1) + i - 1]
  BY <1>1, <1>2, SubSeqProperties
<1> HIDE DEF v
<1>4. Len(v) = L - n BY <1>1, <1>3
<1>5. DOMAIN v = 1 .. (L - n) BY <1>3, <1>4, LenProperties
<1>6. ASSUME NEW i \in 1 .. (L - n) PROVE v[i] = w[i + n]
  <2>1. i \in 1 .. L - (n + 1) + 1 /\ (n + 1) + i - 1 = i + n BY <1>1
  <2> QED BY <1>3, <2>1
<1> QED BY <1>3, <1>4, <1>5, <1>6 DEF v, L

\* ... or the first frame the receiver must accept, and the rest follow it.
LEMMA PlacedFirst ==
  ASSUME NEW w \in Seq(Owed), NEW p, NEW x \in Octet, NEW more \in Seq(Octet),
         Placeable(w, p, <<x>> \o more), Dispatched(p, x) # << >>
  PROVE  \E n \in 1 .. Len(w) :
           /\ w[n].wanted /\ Dispatched(p, x) = <<w[n].frame>>
           /\ \A i \in 1 .. (n - 1) : ~w[i].wanted
           /\ Placeable(SubSeq(w, n + 1, Len(w)), rx_byte(p, x), more)
<1> DEFINE all == <<x>> \o more
           q   == rx_byte(p, x)
           N   == Len(more)
           L   == Len(w)
<1>1. PICK m \in [DOMAIN w -> Int] : Placed(w, p, all, m) BY DEF Placeable
<1>2. /\ N \in Nat /\ Len(all) = N + 1 /\ OnOctet(p, all, 1) = Dispatched(p, x)
      /\ \A k \in 1 .. N : OnOctet(p, all, k + 1) = OnOctet(q, more, k)
  BY OnTail
<1>3. L \in Nat /\ DOMAIN w = 1 .. L BY LenProperties
<1> HIDE DEF all, q, N
<1>4. PICK n \in 1 .. L : w[n].wanted /\ m[n] = 1
  <2>1. 1 \in 1 .. Len(all) BY <1>2
  <2> QED BY <1>1, <1>2, <1>3, <2>1 DEF Placed
<1>5. Dispatched(p, x) = <<w[n].frame>> BY <1>1, <1>2, <1>3, <1>4 DEF Placed
<1>6. ASSUME NEW i \in 1 .. L, w[i].wanted
      PROVE  m[i] \in 1 .. (N + 1) /\ OnOctet(p, all, m[i]) = <<w[i].frame>>
  BY <1>1, <1>2, <1>3, <1>6 DEF Placed
<1>7. ASSUME NEW i \in 1 .. (n - 1) PROVE ~w[i].wanted
  <2> SUFFICES ASSUME w[i].wanted PROVE FALSE OBVIOUS
  <2>1. i \in 1 .. L /\ i < n BY <1>3, <1>4
  <2>2. m[i] < m[n] BY <1>1, <1>3, <1>4, <2>1 DEF Placed
  <2>3. m[i] \in 1 .. (N + 1) BY <1>6, <2>1
  <2> QED BY <1>2, <1>4, <2>2, <2>3
<1> DEFINE v  == SubSeq(w, n + 1, L)
           m2 == [i \in 1 .. (L - n) |-> m[i + n] - 1]
<1>8. /\ v \in Seq(Owed) /\ Len(v) = L - n /\ DOMAIN v = 1 .. (L - n)
      /\ \A i \in 1 .. (L - n) : v[i] = w[i + n]
  BY Behind
<1> HIDE DEF v, L
<1>9. ASSUME NEW i \in 1 .. (L - n) PROVE i + n \in 1 .. L /\ n < i + n BY <1>3, <1>4
<1>10. m2 \in [1 .. (L - n) -> Int] /\ \A i \in 1 .. (L - n) : m2[i] = m[i + n] - 1 /\ m[i + n] \in Int
  <2>1. \A i \in 1 .. (L - n) : m[i + n] \in Int BY <1>3, <1>9
  <2> QED BY <2>1
<1> HIDE DEF m2
<1>11. ASSUME NEW i \in 1 .. (L - n), w[i + n].wanted
       PROVE  m2[i] \in 1 .. N /\ OnOctet(q, more, m2[i]) = <<w[i + n].frame>>
  <2>1. m[i + n] \in 1 .. (N + 1) /\ OnOctet(p, all, m[i + n]) = <<w[i + n].frame>>
    BY <1>6, <1>9, <1>11
  <2>2. m[n] < m[i + n] BY <1>1, <1>3, <1>4, <1>9, <1>11 DEF Placed
  <2> DEFINE k == m2[i]
  <2>3. k \in 1 .. N /\ m[i + n] = k + 1 BY <1>2, <1>4, <1>10, <2>1, <2>2
  <2> HIDE DEF k
  <2>4. OnOctet(q, more, k) = <<w[i + n].frame>> BY <1>2, <2>1, <2>3
  <2> QED BY <2>3, <2>4 DEF k
<1>12. ASSUME NEW i \in 1 .. (L - n), NEW j \in 1 .. (L - n),
              w[i + n].wanted, w[j + n].wanted, i < j
       PROVE  m2[i] < m2[j]
  <2>1. i + n < j + n BY <1>3, <1>4, <1>12
  <2>2. m[i + n] < m[j + n] BY <1>1, <1>3, <1>9, <1>12, <2>1 DEF Placed
  <2> QED BY <1>10, <2>2
<1>13. ASSUME NEW k \in 1 .. N
       PROVE  \/ OnOctet(q, more, k) = << >>
              \/ \E i \in 1 .. (L - n) : w[i + n].wanted /\ m2[i] = k
  <2>1. k + 1 \in 1 .. Len(all) /\ OnOctet(p, all, k + 1) = OnOctet(q, more, k) BY <1>2
  <2>2. CASE OnOctet(p, all, k + 1) = << >> BY <2>1, <2>2
  <2>3. CASE OnOctet(p, all, k + 1) # << >>
    <3>1. PICK j \in 1 .. L : w[j].wanted /\ m[j] = k + 1 BY <1>1, <1>3, <2>1, <2>3 DEF Placed
    <3>2. j > n
      <4>1. j # n BY <1>2, <1>4, <3>1
      <4>2. ~(j < n)
        <5> SUFFICES ASSUME j < n PROVE FALSE OBVIOUS
        <5>1. j \in 1 .. (n - 1) BY <1>3, <1>4
        <5> QED BY <1>7, <3>1, <5>1
      <4> QED BY <1>3, <1>4, <4>1, <4>2
    <3> DEFINE i == j - n
    <3>3. i \in 1 .. (L - n) /\ j = i + n BY <1>3, <1>4, <3>2
    <3> HIDE DEF i
    <3>4. m2[i] = k
      <4>1. m2[i] = m[i + n] - 1 /\ m[i + n] = k + 1 BY <1>10, <3>1, <3>3
      <4> QED BY <1>2, <4>1
    <3> QED BY <3>1, <3>3, <3>4
  <2> QED BY <2>2, <2>3
<1>14. Placed(v, q, more, m2) BY <1>8, <1>11, <1>12, <1>13 DEF Placed, N
<1>15. Placeable(v, q, more) BY <1>8, <1>10, <1>14 DEF Placeable
<1> QED BY <1>4, <1>5, <1>7, <1>15 DEF v, q, L

\* The line has damaged nothing, nobody has aborted, and no call of the sender
\* came in the middle of a stream.
Undisturbed == left.faults = MaxFaults /\ ~stream.hurt

\* History can tell the frames apart.
Apart == /\ \A i, j \in DOMAIN way : i # j => way[i].frame # way[j].frame
         /\ stream.on => \A i \in DOMAIN way : way[i].frame # stream.frame

\* Everything the line and the ring carry is owed, and between frames the parser
\* holds nothing.
OrderInv == /\ DeliveryInv /\ Apart /\ left \in [frames : Int, faults : Int]
            /\ Placeable(way, parser, Held \o line)
            /\ ~stream.on => rx_index(After(parser, Held \o line)) = 0

LEMMA OrderInit == Init => OrderInv /\ Channel!Init
<1> SUFFICES ASSUME Init PROVE OrderInv /\ Channel!Init OBVIOUS
<1>1. DeliveryInv BY DeliveryInit
<1>2. /\ way = << >> /\ got = << >> /\ stream = NoStream /\ parser = Fresh("HUNT")
      /\ line = << >> /\ rx_head = rx_tail
      /\ left = [frames |-> MaxFrames, faults |-> MaxFaults]
  BY DEF Init
<1>3. Held \o line = << >> BY <1>1, <1>2, DeliveryFacts, HeldType
<1>4. DOMAIN << >> = {} /\ Len(<< >>) = 0 OBVIOUS
<1>5. Placeable(way, parser, << >>)
  <2> DEFINE m == [i \in DOMAIN way |-> 0]
  <2>1. m \in [DOMAIN way -> Int] OBVIOUS
  <2> HIDE DEF m
  <2>2. Placed(way, parser, << >>, m) BY <1>2, <1>4 DEF Placed
  <2> QED BY <2>1, <2>2 DEF Placeable
<1>6. rx_index(After(parser, << >>)) = 0 BY <1>2, <1>4, AfterNone DEF rx_index, Fresh
<1>7. left \in [frames : Int, faults : Int] BY <1>2, BoundAssumption
<1>8. Apart BY <1>2, <1>4 DEF Apart, NoStream
<1> QED BY <1>1, <1>2, <1>3, <1>5, <1>6, <1>7, <1>8 DEF OrderInv, Channel!Init

\* A parser that holds nothing dispatches nothing at a flag.
LEMMA EmptyQuiet ==
  ASSUME NEW p, rx_index(p) = 0
  PROVE  Dispatched(p, FLAG) = << >>
BY DEF Dispatched, AcceptedByFlag, MIN_FRAME_LEN

LEMMA AppendFront ==
  ASSUME NEW w \in Seq(Owed), NEW e \in Owed
  PROVE  /\ Append(w, e) \in Seq(Owed) /\ Len(Append(w, e)) = Len(w) + 1 /\ Len(w) \in Nat
         /\ DOMAIN Append(w, e) = 1 .. (Len(w) + 1) /\ DOMAIN w = 1 .. Len(w)
         /\ Append(w, e)[Len(w) + 1] = e /\ \A i \in 1 .. Len(w) : Append(w, e)[i] = w[i]
         /\ SubSeq(Append(w, e), 1, Len(w)) = w
<1> DEFINE v == Append(w, e)
           s == SubSeq(v, 1, Len(w))
<1>1. /\ Len(w) \in Nat /\ v \in Seq(Owed) /\ Len(v) = Len(w) + 1
      /\ DOMAIN v = 1 .. (Len(w) + 1) /\ DOMAIN w = 1 .. Len(w)
      /\ v[Len(w) + 1] = e /\ \A i \in 1 .. Len(w) : v[i] = w[i] /\ w[i] \in Owed
  BY AppendProperties, LenProperties
<1> HIDE DEF v
<1>2. /\ s \in Seq(Owed) /\ Len(s) = IF 1 <= Len(w) THEN Len(w) - 1 + 1 ELSE 0
      /\ \A i \in 1 .. Len(w) - 1 + 1 : s[i] = v[1 + i - 1]
  BY <1>1, SubSeqProperties
<1> HIDE DEF s
<1>3. Len(s) = Len(w) BY <1>1, <1>2
<1>4. ASSUME NEW i \in 1 .. Len(w) PROVE s[i] = w[i]
  <2>1. i \in 1 .. Len(w) - 1 + 1 /\ 1 + i - 1 = i BY <1>1
  <2> QED BY <1>1, <1>2, <2>1
<1>5. s = w BY <1>2, <1>3, <1>4, SeqEqual
<1> QED BY <1>1, <1>5 DEF s, v

\* Calls that owe a frame: their octets dispatch it and nothing else.
LEMMA OweOrder ==
  ASSUME OrderInv, DeliveryInv', NEW f \in AllFrames, NEW t, Writes(t, "frame"),
         way' = Owe(f, FALSE), left' \in [frames : Int, faults : Int], ~stream'.on,
         \A i \in DOMAIN way : way[i].frame # f, NEW n \in {1, 2},
         Carries(After(parser, Held), line', n, f),
         n = 2 => OnOctet(After(parser, Held), line', 1) = << >>
  PROVE  OrderInv' /\ Channel!Send
<1> DEFINE p == After(parser, Held)
           e == [frame |-> f, hurt |-> FALSE, wanted |-> Wanted(f)]
<1>1. /\ Held' = Held /\ parser' = parser /\ line = << >> /\ got' = << >>
  BY HeldSame DEF Writes, ring, loop
<1>2. Wanted(f) \in BOOLEAN BY DEF Wanted
<1>3. e \in Owed /\ e.frame = f /\ e.wanted = Wanted(f) BY <1>2, Zenon DEF Owed
<1>4. way' = Append(way, e) BY DEF Owe
<1> HIDE DEF e
<1>5. /\ DeliveryInv /\ Apart /\ way \in Seq(Owed) /\ Held \in Seq(Octet)
      /\ Placeable(way, parser, Held)
  BY <1>1, DeliveryFacts DEF OrderInv
<1>6. /\ Len(way') = Len(way) + 1 /\ Len(way) \in Nat
      /\ DOMAIN way' = 1 .. (Len(way) + 1) /\ DOMAIN way = 1 .. Len(way)
      /\ way'[Len(way) + 1] = e /\ \A i \in 1 .. Len(way) : way'[i] = way[i]
      /\ SubSeq(way', 1, Len(way)) = way
  <2>1. e \in Owed /\ way \in Seq(Owed) BY <1>3, <1>5
  <2> QED BY ONLY <1>4, <2>1, AppendFront
<1>7. ASSUME NEW i \in DOMAIN way' PROVE i = Len(way) + 1 \/ i \in DOMAIN way
  <2> DEFINE last == Len(way)
  <2>1. i \in 1 .. (last + 1) /\ DOMAIN way = 1 .. last /\ last \in Nat BY <1>6
  <2> HIDE DEF last
  <2>2. i = last + 1 \/ i \in 1 .. last BY <2>1
  <2> QED BY <2>1, <2>2 DEF last
<1>8. Apart'
  <2>1. ASSUME NEW i \in DOMAIN way', NEW j \in DOMAIN way', i # j
        PROVE  way'[i].frame # way'[j].frame
    <3>1. CASE i \in DOMAIN way /\ j \in DOMAIN way BY <1>5, <1>6, <2>1, <3>1 DEF Apart
    <3>2. CASE i = Len(way) + 1 /\ j \in DOMAIN way BY <1>3, <1>6, <3>2
    <3>3. CASE j = Len(way) + 1 /\ i \in DOMAIN way BY <1>3, <1>6, <3>3
    <3> QED BY <1>7, <2>1, <3>1, <3>2, <3>3
  <2> QED BY <2>1 DEF Apart
<1> DEFINE o == line'
<1>9. /\ o \in Seq(Octet) /\ Len(o) >= 3 /\ After(p, o) = Fresh("ADDR")
      /\ OnOctet(p, o, Len(o)) = IF e.wanted THEN <<e.frame>> ELSE << >>
      /\ \A k \in n .. (Len(o) - 1) : OnOctet(p, o, k) = << >>
  BY <1>3 DEF Carries, Expected
<1>10. ASSUME NEW k \in 1 .. (Len(o) - 1) PROVE OnOctet(p, o, k) = << >>
  <2>1. k \in n .. (Len(o) - 1) \/ (n = 2 /\ k = 1) BY <1>9
  <2> QED BY <1>9, <2>1
<1> HIDE DEF p
<1>11. Placeable(Append(way, e), parser, Held \o o)
  <2> HIDE DEF o
  <2>1. Len(o) >= 1 BY <1>9
  <2> QED BY <1>3, <1>5, <1>9, <1>10, <2>1, PlacedMore DEF p
<1>12. After(parser, Held \o o) = Fresh("ADDR") BY <1>5, <1>9, AfterBoth DEF p
<1>13. rx_index(After(parser, Held \o o)) = 0 BY <1>12 DEF rx_index, Fresh
<1>14. OrderInv'
  <2>1. Placeable(way, parser, Held \o line)' BY <1>1, <1>4, <1>11
  <2>2. rx_index(After(parser, Held \o line))' = 0 BY <1>1, <1>13
  <2> QED BY <1>8, <2>1, <2>2 DEF OrderInv
<1>15. Channel!Send BY <1>1, <1>6 DEF Channel!Send
<1> QED BY <1>14, <1>15

\* Steps after which the same frames are under way.
LEMMA SameWay ==
  ASSUME way \in Seq(Owed), way' = way, got' = << >>
  PROVE  Channel!Hurt
BY DEF Channel!Hurt

\* Calls that put more octets of a stream on the line.
LEMMA StreamOrder ==
  ASSUME OrderInv, DeliveryInv', NEW t, NEW whose, Writes(t, whose), way' = way,
         left' \in [frames : Int, faults : Int], stream'.on,
         \A i \in DOMAIN way : way[i].frame # stream'.frame,
         QuietFrom(After(parser, Held), line', 1)
  PROVE  OrderInv' /\ Channel!Hurt
<1>1. /\ Held' = Held /\ parser' = parser /\ line = << >> /\ got' = << >>
  BY HeldSame DEF Writes, ring, loop
<1>2. /\ DeliveryInv /\ Apart /\ way \in Seq(Owed) /\ Held \in Seq(Octet)
      /\ Placeable(way, parser, Held)
  BY <1>1, DeliveryFacts DEF OrderInv
<1>3. line' \in Seq(Octet) BY DEF DeliveryInv, PathInv, TypeOK
<1>4. Placeable(way, parser, Held \o line') BY <1>2, <1>3, PlacedQuiet
<1>5. Apart' BY <1>2 DEF Apart
<1> QED BY <1>1, <1>2, <1>4, <1>5, SameWay DEF OrderInv

\* One call or step after the other.
LEMMA FrameSendOrder ==
  ASSUME CrcDriver, LengthsFit, OrderInv, DeliveryInv', FrameSend, ~stream'.hurt
  PROVE  OrderInv' /\ Channel!Send
<1> DEFINE p == After(parser, Held)
<1>1. PICK f \in FrameSet : Distinct(f) /\ Writes(frame_send(f), "frame") /\ way' = Owe(f, FALSE)
  BY DEF FrameSend
<1>2. f \in AllFrames /\ \A i \in DOMAIN way : way[i].frame # f BY <1>1 DEF AllFrames, Distinct
<1>3. f \in Frames /\ LengthFits(f) BY <1>2, FrameFacts
<1>4. DeliveryInv /\ stream \in Streams /\ left \in [frames : Int, faults : Int]
  BY DeliveryFacts DEF OrderInv
<1>5. line = << >> /\ line' = frame_send(f).octets BY <1>1 DEF Writes
<1>6. ~stream.on /\ ~stream'.on
  <2>1. stream' = [stream EXCEPT !.hurt = stream.on] BY DEF FrameSend
  <2> QED BY <1>4, <2>1 DEF Streams
<1>7. left' \in [frames : Int, faults : Int] BY <1>4 DEF FrameSend
<1>8. p \in Parser BY <1>4, DeliveryFacts, AfterType
<1>9. rx_index(p) = 0 BY <1>4, <1>5, <1>6, DeliveryFacts DEF OrderInv
<1> HIDE DEF p
<1>10. Carries(p, line', 2, f) /\ OnOctet(p, line', 1) = << >>
  BY <1>3, <1>5, <1>8, <1>9, SendCarries, EmptyQuiet
<1> QED BY <1>1, <1>2, <1>6, <1>7, <1>10, OweOrder DEF p

LEMMA UiEndOrder ==
  ASSUME CrcDriver, LengthsFit, OrderInv, DeliveryInv', UiEnd, ~stream.hurt
  PROVE  OrderInv' /\ Channel!Send
<1> DEFINE f == stream.frame
<1>1. /\ Writes(frame_end(Resume), "frame") /\ way' = Owe(f, stream.hurt) /\ left' = left
      /\ stream.on /\ stream' = NoStream
  BY DEF UiEnd
<1>2. DeliveryInv /\ Apart /\ left \in [frames : Int, faults : Int] BY DEF OrderInv
<1>3. StreamFollowed /\ stream \in Streams BY <1>2, DeliveryFacts
<1>4. f \in AllFrames BY <1>1, <1>3 DEF StreamFollowed, AllFrames
<1>5. \A i \in DOMAIN way : way[i].frame # f BY <1>1, <1>2 DEF Apart
<1>6. Carries(After(parser, Held), line', 1, f) BY <1>2, UiEndCarries
<1>7. ~stream'.on BY <1>1 DEF NoStream
<1>8. way' = Owe(f, FALSE)
  <2>1. stream.hurt = FALSE BY <1>3 DEF Streams
  <2> QED BY <1>1, <2>1
<1>9. left' \in [frames : Int, faults : Int] /\ 1 \in {1, 2} /\ 1 # 2 BY <1>1, <1>2
<1> HIDE DEF f
<1> QED BY <1>1, <1>4, <1>5, <1>6, <1>7, <1>8, <1>9, OweOrder

LEMMA UiStartOrder ==
  ASSUME CrcDriver, OrderInv, DeliveryInv', UiStart
  PROVE  OrderInv' /\ Channel!Hurt
<1> DEFINE p == After(parser, Held)
<1>1. PICK f \in StreamFrames :
        /\ Distinct(f) /\ Writes(frame_begin(f.address, f.ctrl), "stream")
        /\ stream' = [on |-> TRUE, frame |-> f, todo |-> f.info, hurt |-> FALSE]
  BY DEF UiStart
<1> DEFINE o == frame_begin(f.address, f.ctrl).octets
<1>2. f.address \in Octet /\ f.ctrl \in Octet BY FrameAssumption
<1>3. DeliveryInv /\ left \in [frames : Int, faults : Int] BY DEF OrderInv
<1>4. line = << >> /\ line' = o /\ ~stream.on /\ way' = way BY <1>1 DEF Writes, UiStart
<1>5. line' \in Seq(Octet) BY DEF DeliveryInv, PathInv, TypeOK
<1>6. p \in Parser BY <1>3, DeliveryFacts, AfterType
<1>7. rx_index(p) = 0 BY <1>3, <1>4, DeliveryFacts DEF OrderInv
<1> HIDE DEF p
<1>8. Len(o) >= 1 /\ o[1] = FLAG /\ QuietFrom(p, o, 2) BY <1>2, <1>6, BeginInStep
<1>9. OnOctet(p, o, 1) = << >> BY <1>4, <1>5, <1>7, <1>8, OnFirst, EmptyQuiet
<1>10. QuietFrom(p, line', 1)
  <2> HIDE DEF o
  <2>1. ASSUME NEW k \in 1 .. Len(o) PROVE OnOctet(p, o, k) = << >>
    <3>1. k = 1 \/ k \in 2 .. Len(o) BY <1>4, <1>5
    <3> QED BY <1>8, <1>9, <3>1 DEF QuietFrom
  <2> QED BY <1>4, <2>1 DEF QuietFrom
<1>11. /\ left' \in [frames : Int, faults : Int] /\ stream'.on
       /\ \A i \in DOMAIN way : way[i].frame # stream'.frame
  BY <1>1, <1>3 DEF UiStart, Distinct
<1> QED BY <1>1, <1>4, <1>10, <1>11, StreamOrder DEF p

LEMMA UiDataOrder ==
  ASSUME CrcDriver, OrderInv, DeliveryInv', UiData
  PROVE  OrderInv' /\ Channel!Hurt
<1> DEFINE p == After(parser, Held)
           x == Head(stream.todo)
           t == emit(Resume, x)
<1>1. /\ Writes(t, "stream") /\ way' = way /\ left' = left
      /\ stream' = [stream EXCEPT !.todo = Tail(@)] /\ stream.todo # << >>
  BY DEF UiData
<1>2. DeliveryInv /\ Apart /\ left \in [frames : Int, faults : Int] BY DEF OrderInv
<1>3. stream \in Streams /\ StreamFollowed BY <1>2, DeliveryFacts
<1>4. stream.todo \in Seq(Octet) BY <1>3 DEF Streams
<1>5. x \in Octet BY <1>1, <1>4, HeadTailProperties
<1>6. stream'.on /\ stream'.frame = stream.frame /\ stream.on
  BY <1>1, <1>3 DEF Streams, StreamFollowed
<1>7. \A i \in DOMAIN way : way[i].frame # stream'.frame BY <1>2, <1>6 DEF Apart
<1> HIDE DEF x, p
<1>8. line' = put_escaped(x)
  <2>1. put_escaped(x) \in Seq(Octet) BY <1>5, EscapedOctets
  <2>2. line' = << >> \o put_escaped(x) BY <1>1 DEF Writes, emit, Resume
  <2> QED BY <2>1, <2>2, ConcatEmptySeq
<1>9. QuietFrom(p, line', 1) BY <1>5, <1>8, StuffedQuiet
<1> HIDE DEF t
<1> QED BY <1>1, <1>2, <1>6, <1>7, <1>9, StreamOrder DEF p

\* Steps that leave the frames, the parser and what it will read alone.
LEMMA StillOrder ==
  ASSUME OrderInv, DeliveryInv', UNCHANGED <<parser, stream, way, left>>,
         Held' \o line' = Held \o line
  PROVE  OrderInv'
<1>1. Apart' BY DEF OrderInv, Apart
<1> QED BY <1>1 DEF OrderInv

LEMMA ConsumeOrder ==
  ASSUME CrcDriver, OrderInv, DeliveryInv', Consume
  PROVE  OrderInv' /\ (Channel!Deliver \/ Channel!Hurt)
<1> DEFINE rest == Held' \o line
           N    == Len(way)
<1>1. /\ parser' = rx_byte(parser, b) /\ way' = Settle(got') /\ got' = Dispatched(parser, b)
      /\ UNCHANGED <<line, stream, left>>
  BY DEF Consume
<1>2. /\ DeliveryInv /\ PathInv /\ way \in Seq(Owed) /\ DOMAIN way = 1 .. N /\ N \in Nat
      /\ line \in Seq(Octet) /\ b \in Octet /\ Apart
  BY DeliveryFacts DEF OrderInv
<1>3. Held = <<b>> \o Held' BY <1>2, HeldTail
<1>4. Held' \in Seq(Octet) /\ rest \in Seq(Octet)
  <2>1. rx_ring' \in [Slots -> Octet] /\ rx_head' \in Slots /\ rx_tail' \in Slots
    BY DEF DeliveryInv, PathInv, TypeOK
  <2>2. Held' \in Seq(Octet) BY <2>1, OctetsType DEF Held
  <2> QED BY <1>2, <2>2
<1>5. Held \o line = <<b>> \o rest
  <2> DEFINE one  == <<b>>
             next == Held'
  <2>1. one \in Seq(Octet) /\ next \in Seq(Octet) BY <1>2, <1>4
  <2> HIDE DEF one, next
  <2>2. (one \o next) \o line = one \o (next \o line) BY <1>2, <2>1, ConcatAssociative
  <2> QED BY <1>3, <2>2 DEF one, next
<1> HIDE DEF rest
<1>6. Placeable(way, parser, <<b>> \o rest) BY <1>5 DEF OrderInv
<1>7. ~stream'.on => rx_index(After(parser', rest)) = 0
  <2>1. After(parser, Held \o line) = After(parser', rest) BY <1>1, <1>2, <1>4, <1>5, AfterStep
  <2> QED BY <1>1, <2>1 DEF OrderInv
<1>8. CASE got' = << >>
  <2>1. Placeable(way, parser', rest) BY <1>1, <1>2, <1>4, <1>6, <1>8, PlacedNone
  <2>2. way' = way BY <1>1, <1>8 DEF Settle
  <2>3. Apart' BY <1>1, <1>2, <2>2 DEF Apart
  <2>4. OrderInv' BY <1>1, <1>7, <2>1, <2>2, <2>3 DEF OrderInv, rest
  <2> QED BY <1>2, <1>8, <2>2, <2>4, SameWay
<1>9. CASE got' # << >>
  <2>1. PICK n \in 1 .. N :
          /\ way[n].wanted /\ got' = <<way[n].frame>>
          /\ \A i \in 1 .. (n - 1) : ~way[i].wanted
          /\ Placeable(SubSeq(way, n + 1, N), parser', rest)
    BY <1>1, <1>2, <1>4, <1>6, <1>9, PlacedFirst
  <2>2. way' = SubSeq(way, n + 1, N)
    <3> DEFINE same == {i \in DOMAIN way : got' # << >> /\ got'[1] = way[i].frame}
    <3>1. got'[1] = way[n].frame BY <2>1
    <3>2. same = {n} BY <1>2, <1>9, <2>1, <3>1 DEF Apart
    <3> HIDE DEF same
    <3>3. Max(same) = n
      <4>1. {n} \in SUBSET (1 .. N) BY <2>1
      <4> QED BY <1>2, <3>2, <4>1, Greatest
    <3>4. Settle(got') = SubSeq(way, Max(same) + 1, N) BY <3>2 DEF Settle, same
    <3> QED BY <1>1, <3>3, <3>4
  <2>3. \A i \in 1 .. (N - n) : i + n \in DOMAIN way BY <1>2
  <2>4. DOMAIN way' = 1 .. (N - n) /\ \A i \in 1 .. (N - n) : way'[i] = way[i + n]
    BY <1>2, <2>1, <2>2, Behind
  <2>5. Apart'
    <3>1. ASSUME NEW i \in DOMAIN way', NEW j \in DOMAIN way', i # j
          PROVE  way'[i].frame # way'[j].frame
      <4>1. i + n # j + n BY <1>2, <2>4, <3>1
      <4>2. /\ i + n \in DOMAIN way /\ j + n \in DOMAIN way
            /\ way'[i] = way[i + n] /\ way'[j] = way[j + n]
        BY <2>3, <2>4
      <4> QED BY <1>2, <4>1, <4>2 DEF Apart
    <3>2. ASSUME stream'.on, NEW i \in DOMAIN way' PROVE way'[i].frame # stream'.frame
      BY <1>1, <1>2, <2>3, <2>4, <3>2 DEF Apart
    <3> QED BY <3>1, <3>2 DEF Apart
  <2>6. OrderInv' BY <1>1, <1>7, <2>1, <2>2, <2>5 DEF OrderInv, rest
  <2>7. Channel!Deliver BY <2>1, <2>2 DEF Channel!Deliver
  <2> QED BY <2>6, <2>7
<1> QED BY <1>8, <1>9

LEMMA OrderNext ==
  ASSUME CrcDriver, LengthsFit, OrderInv, Undisturbed, Undisturbed', [Next]_vars
  PROVE  OrderInv' /\ [Channel!Next]_<<way, got>>
<1>0. /\ DeliveryInv /\ left \in [frames : Int, faults : Int] /\ way \in Seq(Owed)
      /\ ~stream.hurt /\ ~stream'.hurt /\ left'.faults = left.faults
  BY DeliveryFacts DEF OrderInv, Undisturbed
<1>a. DeliveryInv' BY <1>0, DeliveryNext
<1>1. CASE FrameSend BY <1>0, <1>1, <1>a, FrameSendOrder DEF Channel!Next
<1>2. CASE UiStart BY <1>2, <1>a, UiStartOrder DEF Channel!Next
<1>3. CASE UiData BY <1>3, <1>a, UiDataOrder DEF Channel!Next
<1>4. CASE UiEnd BY <1>0, <1>4, <1>a, UiEndOrder DEF Channel!Next
<1>5. CASE SenderAbort \/ LoseOctet \/ ChangeOctet \/ InsertOctet \/ IdleOctet
             \/ uart_rx_isr_full \/ ReceiverAbort
  <2>1. left' = [left EXCEPT !.faults = @ - 1]
    BY <1>5 DEF SenderAbort, LoseOctet, ChangeOctet, InsertOctet, IdleOctet, uart_rx_isr_full,
                ReceiverAbort, LineNoise
  <2>2. left'.faults = left.faults - 1 /\ left.faults \in Int BY <1>0, <2>1
  <2> QED BY <1>0, <2>2
<1>6. CASE uart_rx_isr
  <2>1. Held' \o line' = Held \o line BY <1>0, <1>6, DeliveryFacts, IsrSame
  <2>2. UNCHANGED <<parser, stream, way, left>> /\ got' = << >> BY <1>6 DEF uart_rx_isr, loop
  <2> QED BY <1>0, <1>a, <2>1, <2>2, StillOrder, SameWay DEF Channel!Next
<1>7. CASE Fetch
  <2>1. UNCHANGED <<parser, stream, way, left, line, rx_ring, rx_head, rx_tail>> /\ got' = << >>
    BY <1>7 DEF Fetch, ring
  <2>2. Held' \o line' = Held \o line BY <2>1, HeldSame
  <2> QED BY <1>0, <1>a, <2>1, <2>2, StillOrder, SameWay DEF Channel!Next
<1>8. CASE Consume BY <1>8, <1>a, ConsumeOrder DEF Channel!Next
<1>9. CASE UNCHANGED vars
  <2>1. UNCHANGED <<parser, stream, way, got, left, line, rx_ring, rx_head, rx_tail>>
    BY <1>9 DEF vars, ring, loop, history
  <2>2. Held' \o line' = Held \o line BY <2>1, HeldSame
  <2> QED BY <1>a, <2>1, <2>2, StillOrder
<1> QED BY <1>1, <1>2, <1>3, <1>4, <1>5, <1>6, <1>7, <1>8, <1>9 DEF Next

\* While nothing disturbs it, the path is the abstract channel: every frame the
\* receiver must accept is dispatched whole, once and in the order sent, and
\* nothing else ever is, streamed frames among the others (frame_begin, emit
\* and frame_end against rx_byte and handle_flag, through the ring and its
\* interrupt), for every payload, frame set, ring, buffer and checksum driver.
THEOREM UndisturbedDelivers ==
  ASSUME CrcDriver, LengthsFit
  PROVE  Spec /\ []Undisturbed => DeliversFrames
<1>1. Init => OrderInv /\ Channel!Init BY OrderInit
<1>2. OrderInv /\ Undisturbed /\ Undisturbed' /\ [Next]_vars
        => OrderInv' /\ [Channel!Next]_<<way, got>>
  BY OrderNext
<1> QED BY <1>1, <1>2, PTL DEF Spec, DeliversFrames, Channel!Spec

==========================================================================
