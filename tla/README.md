# atc_hdlc in TLA+

`atc_hdlc` is an HDLC (ABM) data-link engine in C for microcontrollers: framing, connection
set-up, sliding-window I-frames with Go-Back-N, supervisory flow control, two timers, and a
callback interface to the platform. This directory holds its models, the TLC configurations that
check them, and the proofs.

## 1. The system

| part | state | operations | talks to |
|---|---|---|---|
| Protocol engine (`src/hdlc_dispatch.c`, `hdlc_private.h`, `hdlc_frame.h`) | connection state, V(S) V(R) V(A), N2 counter, eight flag bits (T1, T2, REJ exception, local and remote busy, retransmission pending) | one handler per connection state and frame kind | sends frames, starts and stops timers, fires `on_event` and `on_data` |
| Transmission API (`src/hdlc_out.c`) | retransmission slots, `tx_next_slot` | `transmit_i`, `transmit_ui`, `transmit_test`, streamed UI | application, `on_send` |
| Station API and timers (`src/hdlc_station.c`) | the same context | `init`, `link_setup`, `disconnect`, `link_reset`, `set_local_busy`, `abort`, `t1_expired`, `t2_expired`, `get_state` | application, timer code |
| Reception (`src/hdlc_in.c`) | receive buffer, octet state, running CRC | `data_in`: octet parser, flag handling, then the pending retransmission | UART code, dispatch |
| CRC and stuffing (`hdlc_crc.c`, `hdlc_frame.h`) | running `tx_crc` and `rx_crc` | `frame_begin`, `emit`, `frame_end`; table update | transmission, reception |
| Bare-metal template (`example/bare_metal_template`) | receive ring, expiry flags, hardware timers | three interrupts, main loop | all of the above |
| Two stations on a line | both contexts and the frames under way | everything above, at both ends | each other |

`PROJECT.json` lists all components, those left out included, with their status.

**What is hard here.**

* *Callbacks.* `on_event` and `on_data` run in the middle of a handler, and the application may call
  the library from them. What it changes, the handler may overwrite when it goes on.
* *Deferred work.* A REJ or a final response only records that a retransmission is due. It happens
  when `data_in` has worked through its buffer, possibly after other frames changed everything.
* *Timers.* T1 must run exactly when an answer is awaited; a dozen places start and stop it. T2 must
  run when a received frame has not been acknowledged by anything else.
* *Wrap-around.* Sequence numbers modulo 8, slots modulo the window, an eight-bit retry counter.
* *The line* loses frames (a bad FCS drops one silently), and the two ends change state at
  different times: crossing SABMs and DISCs, repeated requests, answers to an older request.
* *Addresses.* A station knows its peer's address from `link_setup` or not at all.
* *Octets.* One flag ends a frame and starts the next; a discarded, aborted or cut frame must not
  take its neighbour along; streamed frames share `tx_crc` and the line with every other call.
* *Interrupts.* The UART and the timers interrupt the loop between any two of its steps.

**What makes each part correct.** The engine: the window never exceeds the slots, an awaited answer
is timed, an acknowledgement owed is promised, a resent frame carries its payload, a new connection
inherits nothing. A link: each direction is a reliable stream while both ends are up, neither end
is left half open, nothing waits for ever. The parser: every good frame is delivered, a bad one
is dropped and the next is not. The bare-metal loop: no expiry is lost or invented.

## 2. Modules

| module | models | reads like |
|---|---|---|
| `HdlcCore` | context, frames, senders, timers, `transmit_*`, `link_setup`, callbacks | `hdlc_types.h`, `hdlc_private.h`, `hdlc_frame.h`, `hdlc_out.c` |
| `HdlcDispatch` | every frame handler; `retransmit_outstanding` | `hdlc_dispatch.c`, `hdlc_in.c` |
| `HdlcApi` | API calls and timer expiries | `hdlc_station.c` |
| `HdlcStation` | one station against any environment | state machine |
| `HdlcLink` | two stations, their addresses and a lossy line | state machine |
| `ReliableStream` | what one direction of a link promises | abstract specification |
| `HdlcFraming` | octets: `frame_begin` to `frame_end`, `rx_byte`, `handle_flag` | `hdlc_frame.h`, `hdlc_in.c` |
| `HdlcCrc` | the CRC table and its update; the division it stands for | `hdlc_crc.c` |
| `UartPath` | a sender's octets through noise and the receive ring into the parser | state machine |
| `FrameChannel` | what one direction of the octet line promises | abstract specification |
| `BareMetal` | the main loop, the expiry flags, the hardware timers and the interrupts | `bare_metal_template.c` |
| `HdlcApiProofs`, `HdlcFlowProofs` | lemmas about the operators of the engine: windows and timers; payloads, resets and events | |
| `HdlcStationProofs`, `HdlcLinkProofs`, `HdlcStreamProofs`, `UartPathProofs`, `UartDeliveryProofs`, `BareMetalProofs` | theorems and their invariants | |
| `MCHdlcStation`, `MCHdlcLink`, `MCUartPath` | the sets of frames and the bounds TLC uses | |

The modules meet where the code's parts do. `FrameChannel` says of octets what `HdlcLink` assumes of its line:
frames arrive whole and in order, or not at all, but for the frames the checksum cannot tell apart (section 6). `BareMetal` says of timers what `HdlcStation` assumes: an
active timer's expiry is reported in the end. What it does not promise, that a stopped timer stays silent,
`HdlcStation` does not assume (`StaleExpiry`).

**State and code.** A context is a record with the C structure's fields and flags. Every C function
is an operator of the same name from a context to a context, its conditions and assignments in the
code's order. Where the C code sends, fires an event or delivers data, the operator appends to `tx`,
`events` or `rcvd`; a step then empties them (`Drained`), after copying the sent frames to `out` or to
the line, and noting in `told` whether there was an event. A callback runs the application's reaction, on the intermediate context, at the
place where the C code makes the call: `SendOn` and `SetupOn` say in which callbacks it calls
`transmit_i` or `link_setup`, and `react` says, call by call, whether it does so this time.

**History.** `accepted` and `received` count the I-frames accepted and delivered on this
connection (`accepted` names their payloads), `ackOwed` says that no frame has carried the current
V(R), `frmrSent` that an FRMR was sent. No handler's control flow reads them; `accepted` supplies
payload names only. In `UartPath`, `way` lists the frames owed, with the damage charged to them, `got` what the last step
delivered, `stream` the frame being streamed and `owner` whose octets the line carries. No frame is sent while an equal one is owed (`Distinct`, a restriction
on the sender), so that `Settle` knows which one a delivery pays for. In `BareMetal`,
`raced` holds the timers that ran out while being started or stopped.

**Abstractions of the engine.** A frame is a record. Its address becomes `cmd`: command (the receiver's address) or
response. SNRM stands for SNRM, SNRME and SARME, which all
handlers treat alike. The three information octets of an FRMR are dropped, nobody reads them. In
`HdlcStation` each frame of a `data_in` buffer is a step (`RxFrame`) and the end of the call another
(`EndDataIn`); nothing else happens in between, because the bare-metal loop handles expiry flags and
received octets one after the other and the README forbids `data_in` in an interrupt. One callback makes at most one call.
Memory read outside the slot array is the value `Garbage`.
`HdlcLink` treats each arriving frame as a `data_in` call of its own and its applications do not call
back.

**The line, the addresses and the timers of `HdlcLink`.** Frames stay in order; `Lose` drops the oldest, which is what
the FCS check makes of a damaged one. A frame on the line carries the address its sender wrote (`Addressed`): `peer_address` in a
command, its own in a response. The receiver drops it, or tells command from response, by its own two fields
(`HeardBy`, `Heard`). `peer_address` is 0 until `link_setup` gives it; `Provisioned` names the sides on which it was set by hand, as the
loopback example does on both (`example/loopback/loopback.c:188-193`). `T1Expired` needs both lines empty and the peer's T2 off:
`t2_ms < t1_ms` is required by `hdlc_types.h:81`, and a T1 shorter than a round trip is
a wrong configuration. `T1Early` is that configuration, a bounded number of times.
With `Patient`, an application calls `link_setup` only when the old connection is over (`Over`): nobody is DISCONNECTING, no T2 runs, no retry is
counted at its end, and nothing but SABMs is under way. The library neither checks nor offers a way to see this; each clause stands for a way in which
an early set-up goes wrong (section 6). Without `Patient` a set-up may follow at once, and crossing set-ups are possible either way.

**Octets.** `HdlcFraming` keeps every octet: stuffing, the flag test, the address test, the buffer bound, the
running checksum two octets behind the buffer. `UartPath` adds the path of `bare_metal_template.c`: the interrupt stores into the ring
or drops; the loop reads the octet (`Fetch`), frees its slot and parses it (`Consume`), and interrupts come in between. A call of the
sender starts when the line has taken the octets of the call before; the receiver cannot tell.
The line loses, changes and invents octets, both stations may call `atc_hdlc_abort`, and other calls send in the middle of a streamed frame.
`data_in` is called octet by octet, as the template does, and dispatching a frame is the end of the story here.

**The loop.** `BareMetal` reduces a library call to the timers it starts and stops, any of them and in any order, and the ring to its
fill level. The template's `t1_start` and `t1_stop` are two steps each, the flag first and the hardware after, and so are the
test of an expiry flag and its clearing; an interrupt may come between any two. Clearing the flag
and entering `t1_expired` are one step, because an interrupt between them has the effect of one after both.

## 3. Runs

`tlc -config <run>.cfg <module>.tla` repeats a run, `tlapm <module>Proofs.tla` the proofs.

`expect: violation` runs each show one disagreement between code and its own comments (section 6).

| run | question | states |
|---|---|---|
| `station` | every API call, every frame a peer could send, expiries of stopped timers, callbacks that send or set up wherever the library accepts it but in two events | 259 000 |
| `station_chunks` | two frames in one `data_in`: a retransmission decided on the first while the second moves the window, asks for another or resets | 266 000 |
| `link_data` | two stations that know each other, 5 + 2 I-frames, set-ups and disconnections (two calls at side 1, one at side 2, `Patient`), any two losses | 3.6 million |
| `link_live` | every API call, two at each end and as early as they like, one peer address provisioned and one learned, one loss, one early T1; liveness | 547 000 |
| `uart_path` | three frames, stuffed, streamed, foreign or too long, one fault anywhere | 413 000 |
| `bare_metal` | the loop and its interrupts; liveness | 11 000 |
| `window_open`, `link_failure`, `stale_pending`, `busy_peer`, `stale_n2`, `busy_enquiry` | one finding each | small |

**Properties of a station.** `WindowBound`, `UnackedWatched`, `SetupWatched`, `AckPromised`, `SlotsHoldWindow`,
`FaithfulFrames`, `FaithfulUnlessWiped`, `QuietWhenDown`, `RetriesBounded`, `FreshStart`, `LossReported`; each is explained where it
is defined. The first four say that nothing is forgotten; the next three that what is resent is what
was accepted; then three that one connection or attempt leaves nothing to the next, with two limits: `FreshStart` speaks of the ways into CONNECTED, not of
a SABM received there, and RETRANSMIT_PENDING is inherited (finding 3).
`FaithfulUnlessWiped` is what remains of `FaithfulFrames` when a buffer holds several frames: the second frame may acknowledge part of what the first
asked for, or all of it, or ask again from elsewhere, and the resent frames are still those accepted, unless a reset wiped the slots. `LossReported` says that no
accepted frame is dropped without an event, unless by `link_reset` or `abort`; a SABM in CONNECTED, which changes no state, included.

**Properties of a link.** `StreamForth` and `StreamBack` are refinements: with `up` as "both connected",
`accepted` from the sender, `delivered` from the receiver and `confirmed` as what the sender holds
acknowledged, every step is a step of `ReliableStream`. `InOrder` adds that the delivered payload is the
next one accepted. `StaysUp` says that no more losses than N2 end no connection, and no FRMR is sent.
`Agreement` says that an idle line has two connected ends or none; `Attended`, that whoever waits for the peer has T1
running. `Settles` and `AllAcked` are the liveness properties.

**Properties of the octet path.** `DeliversFrames` is a refinement of `FrameChannel`: frames are delivered whole, once and in order, and none is
missing or mistaken unless it was hurt. A hurt frame may be mistaken only for itself with one or two octets of its checksum
appended (`ZeroTailed`, section 6). `IntactDelivered` adds that when everything is read every unhurt frame has arrived: the parser is always in step at
the next opening flag. `CheckedDelivery` holds under any damage: what is dispatched passed the address filter, and the buffer holds it, all of it and followed by
its checksum, never the leavings of a frame aborted or overrun. `FetchedIsOldest` is the ring's promise. `RunningCrc` compares the running
checksum with that of the octets it should cover; the update the run uses is compared with bit-serial division for all 65 536 words (`TableAssumption`).

**Properties of the loop.** `ActiveIsTimed`: what the library believes to run, runs or has its expiry waiting.
`StoppedIsSilent`: a stopped timer reports an expiry only if it ran out while being stopped, after its flag was cleared and before the
hardware was disarmed. (A timer restarted in that gap is both armed and expired, and reports early.) `ExpiryTaken` and `NoTimerHangs` are the
liveness properties: the expiry that `UnackedWatched` and `SetupWatched` count on does come.

**Bounds.** `MOD8 = 4` and two slots keep what matters: the window is smaller than the modulus, both
wrap, a partial acknowledgement exists. The code's value is 8; the proofs cover both. `PayloadCount` is
at least the modulus, so any confusion of two payloads that can be outstanding is seen.
`MaxRetries` is 1 or 2, so that the limit is reached. Two frames in a buffer are enough for a retransmission to be decided, then
overtaken. Five I-frames wrap the modulus with a frame to spare. Two losses hit a frame and its
repetition, or a frame and its acknowledgement, and are as many as N2 = 2 must survive.

Two calls at an end are a set-up and a disconnection, or a disconnection and the next set-up. TLC confirms that `link_data` and `link_live` both reach:
crossing SABMs; DISCs that cross and are each heard in DISCONNECTING; a DISC heard in CONNECTED and in CONNECTING; UA and DM as the answer to a DISC; and a
set-up after a disconnection. `link_live` also reaches a DISC heard, and ignored, in FRMR_ERROR, and, because only side 2 is provisioned, a passive side 1 whose DISC carries address 0 and
reaches nobody. In `link_data` both addresses are provisioned, because without them `StaysUp` and `Agreement` do not hold, and the applications are
`Patient`, because otherwise the streams, `StaysUp` and `Agreement` do not (section 6). What it therefore does not cover is a set-up that overtakes the end of the
connection before it; `link_live` does, for its two properties. Side 2's single call in `link_data` keeps the run short; the two ends run the same code and either may be the one that hears.

`station` gets every frame of `AllFrames`; `station_chunks` the subset `WindowFrames`, which leaves out
polls in I-frames, SREJ and the unnumbered frames that change neither window nor state. Its applications do not send from callbacks; if one does, `FaithfulUnlessWiped` is
violated (section 6). It checks only what a second frame could break and does not: `FaithfulFrames` does not hold over a whole buffer (finding 3), nor does `QuietWhenDown`, because a
retransmission made after its connection is closed starts T1 in DISCONNECTED; and the window and the slots are not touched by the retransmission at all.

`uart_path` has a buffer of seven octets: the longest frame that fits leaves one octet free, the longest of all exceeds it by one (the exact fit is covered by the theorems of section 4, for every capacity). A ring of three slots holds two octets, wraps all the time and
is often full. Three frames are a victim, the one before and the one after. One fault may be a lost, changed, invented or dropped octet or an
abort; the invented octets are a flag, an escape, an address and zero. With two faults a frame can be altered in a way a sixteen-bit
checksum does not see, and the property would have to list every such frame. `Live` is a view: it leaves out what no step
will read again (freed ring slots, a parsed octet, a finished checksum).
`bare_metal` has room for two octets and up to three per round, so that the ring overflows and fills during a drain; the loop's
properties do not depend on more.
Each property has a mutant of the code, defined beside the operator it changes, that TLC finds to violate it under the
same configuration. No symmetry is used. Deadlock is checked for a station and for the loop, and not for a link or a line, which may come to rest.

**Fairness.** `HdlcStation` and `UartPath` have none: their properties are safety. `HdlcLink` takes weak fairness of `Receive`,
`T1Expired` and `T2Expired` at each end: the main loop of the template polls reception and both expiry flags in every round, so
a frame that stays on the line is read and a timer that stays armed fires. For `Receive` the definition of weak fairness is written out, with "the line is empty" for
"`Receive` is not enabled", which is the same and spares TLC the evaluation of ENABLED in every state. The application and the losses are not
fair: nobody has to call anything. `BareMetal` justifies the part about timers. It takes weak fairness of every step of the
loop, because the processor goes on; of `timer_isr`, because a running hardware timer runs out; and strong fairness of `Return`, because no library call starts and stops timers for ever.
The line is not fair, but `MaxBurst` bounds the octets it delivers in one round: the loop drains the ring before it looks at the flags,
and a line faster than the parser starves the timers.

## 4. Proofs

### A station

`HdlcStationProofs` proves, for every window size below the modulus (4 or 8), every retry limit, chunk length, set
of frames and callback policy, with stale expiries and without:

| theorem | property | proviso |
|---|---|---|
| `TypeCorrect` | `TypeOK` | |
| `WindowSafe` | `WindowBound` | |
| `AckSafe` | `AckPromised` | |
| `RetriesSafe` | `RetriesBounded` | |
| `UnackedSafe` | `UnackedWatched` | `Polite` |
| `SetupSafe` | `SetupWatched` | `Polite` |
| `SlotsSafe` | `SlotsHoldWindow` | |
| `FreshSafe` | `FreshStart` | |
| `LossSafe` | `LossReported` | |
| `FaithfulSafe` | `FaithfulFrames` | `MaxChunk = 1` |
| `QuietSafe` | `QuietWhenDown` | `MaxChunk = 1` |
| `OvertakenSafe` | `FaithfulUnlessWiped` | `SendOn = {}` |

`Polite` excludes the two callback policies that break the property: sending from `WINDOW_OPEN` and setting up from
`LINK_FAILURE`. The runs `window_open` and `link_failure` show that it cannot be dropped. `MaxChunk = 1` says that a `data_in`
call holds one frame; `stale_pending` shows that `FaithfulFrames` does not survive two, and TLC finds the same of `QuietWhenDown`. `SendOn = {}` says that no callback
calls `transmit_i`; TLC finds `FaithfulUnlessWiped` violated with two frames and an `on_data` that does.

*Timers and windows* (the first six). The inductive invariant is `TypeOK /\ Good(ctx)`. `Good` is the conjunction of the proved properties as
predicates on a context. They need each other: that an acknowledgement never widens the window needs the type and `ValidNr`; that
a handler may stop T1 needs the window to be empty or a retransmission pending. Since
callbacks see intermediate contexts, the lemmas (`HdlcApiProofs`) go operator by operator: for each, which parts its
result keeps (`Keeps`) or establishes, whatever the application does in between. Some operators break a part for a
moment (T1 stopped by REJ before the retransmission is recorded); their lemmas say which part and the
caller's lemma restores it. The theorems then need one step per action.

*Payloads* (the last six, `OvertakenSafe` below). `HdlcFlowProofs` adds `Held`: the slot k places behind `tx_next_slot` holds the payload accepted k frames
ago, two rings of different size turning together. `Held` is inductive with `Good` and is `SlotsHoldWindow`. For the rest every handler has an
`Outcome`, a relation between the contexts before and after it: a context that comes up is `Fresh`, one whose slots are wiped has fired an
event, each frame sent carries the payload of its number (`Sent`), a pending retransmission starts at V(A) on a connection
(`Pending`), no T1 runs in DISCONNECTED (`Quiet`). The last two hold of a handler's result only if nothing was pending
before it; with one frame per call nothing is, and `RInv` is inductive.

*A retransmission overtaken.* `OvertakenSafe` has to say what `retransmit_from` means while other frames of the buffer move V(A) past it. It may then count
from before the window, and the slot arithmetic reads behind the oldest slot in use. `Asked` is the context with V(A)
put back to `retransmit_from`; `Due` says that of a pending retransmission either all slots are wiped or the window of `Asked` fits the slots and `Held` is true of it, the frames acknowledged
since included: a slot is only overwritten by a frame accepted later, and without callbacks that send none is accepted within a buffer. Every handler then `Overtakes`: it leaves slots and
`retransmit_from` alone, decides a retransmission anew from V(A), or wipes the slots; and it sends no numbered frame. `OInv` adds `Due` to `TypeOK`, `Good` and `Held`, and with `Due` the retransmission at the end of the call sends what was accepted (`RetransmitDue`).

### A link

`HdlcLinkProofs` proves, for every provisioning of addresses, every bound and every loss:

| theorem | property | proviso |
|---|---|---|
| `TypeCorrect` | `TypeOK` | |
| `AttendedSafe` | `Attended` | `Polite` |

The invariant is `TypeOK` and, at each end, `Good`, `Held` and no retransmission pending (`Rested`): on a link every `data_in` call holds one
frame and ends with its retransmission, and no other call sets the flag (`SamePending`). `Attended` says more than the two
station properties it comes from: T1 itself runs, at each end, whatever the other does.

`HdlcStreamProofs` proves Go-Back-N, for every window, provisioning, number of set-ups and busy conditions at either end, and every loss:

| theorem | property | proviso |
|---|---|---|
| `InOrderSafe` | `InOrder` | `Streaming` |
| `StreamForthSafe` | `StreamForth` (refinement of `ReliableStream`) | `Streaming` |
| `StreamBackSafe` | `StreamBack` (refinement of `ReliableStream`) | `Streaming` |
| `StaysUpSafe` | `StaysUp` | `Streaming`, `MaxRetries = 0` |
| `AgreementSafe` | `Agreement` | `Streaming`, `MaxRetries = 0` |

`Streaming` says that the applications call `link_setup`, `transmit_i` and `set_local_busy` only, that T1 is not shorter than a round trip, and that
fewer frames are accepted than there are payload names, so that a name says which frame it is. With `MaxRetries = 0`, `max_retries`
zero, `t1_expired` never gives up.

None of the provisos can be dropped. TLC finds a stream violated with disconnections followed at once by a set-up (the old connection's T2,
section 6), with one `link_reset` and with one early T1 expiry (the duplicate UA, section 6), and `StaysUp` with one early expiry. `busy_enquiry` shows that
`StaysUp` needs the limit on losses or none on retries; a link that has given up at one end is half open until the other finds out.
`link_data` checks the same five properties for a different mixture: a retry limit, disconnections from either end or both, and a next connection set up patiently, within its bounds.

*Argument.* The two lines between the ends are part of the invariant (`Paired`). With both ends up (`Both`):

* each end's V(S), V(A) and V(R) are its counts of accepted, acknowledged and received frames modulo MOD8 (`Aligned`);
* what c holds acknowledged has been received, what is received was accepted (`Meets`);
* an I-frame on its way from c carries the payload of its number, is at most a window older than what the peer expects, and
  at most a window older than any frame in front of it (`InLine`);
* a frame on its way to c acknowledges no more than was received and no less than a frame in front of it (`Acks`).

From these, an N(S) that equals V(R) modulo MOD8 equals it as a count, because the window is smaller than the modulus (`RingSame`, `BothNext`), and
every N(R) is inside the window (`BothValid`): no FRMR, and V(A) never runs back. Each call is then a relation that keeps them: a frame accepted (`BothAccept`), frames
put on the line (`BothOutput`), a frame taken (`BothTake`), a frame lost (`BothDrop`).

Around that, `Pair` says what can be under way in each pair of states, so that a connection starts from nothing: a SABM is in front of everything its
sender sent, a UA is on its way only to a station that waits for it, and what lies behind the UA fits a peer that has just been
reset. Crossing set-ups, repeated SABMs and a link failure at one end keep it (`PairAsk`, `PairCross`, `PairAgree`, `PairUp`, `PairDown`). That T1 waits
for both lines to be empty makes a repeated SABM harmless. The conjuncts were checked with TLC on a small instance before they were proved.

### Octets and the loop

`UartPathProofs` proves, for every buffer capacity, ring size, set of frames, noise and bound:

| theorem | property | assumes |
|---|---|---|
| `RingSafe` | `FetchedIsOldest` | |
| `TypeCorrect` | `TypeOK` | `CrcDriver` |
| `RunningCrcSafe` | `RunningCrc` | `CrcDriver` |
| `CheckedSafe` | `CheckedDelivery` | `CrcDriver`, `Capacity` at most 65 539 |

and `UartDeliveryProofs`:

| theorem | property | assumes |
|---|---|---|
| `IntactSafe` | `IntactDelivered` | `CrcDriver`, `LengthsFit` |
| `UndisturbedDelivers` | `DeliversFrames` (refinement of `FrameChannel`) | `CrcDriver`, `LengthsFit`, `[]Undisturbed` |

`CrcDriver` says that the checksum driver returns an integer; no theorem needs to know which. `LengthsFit` says that no information field is longer than
`info_len` can count, and so does the bound of `CheckedSafe`: a longer one is delivered cut (section 5). `Undisturbed` says that no octet
is damaged, dropped or aborted and no stream interrupted by another call; `IntactSafe` has every damage in it.

*Ring and parser.* The invariant adds to `TypeOK` that the octet read is still at the tail: the interrupt writes at
the head only, and a full ring is one slot short of full. The parser's part rests on `Store`, which grows the buffer only below
`Capacity`, and on `AcceptedByFlag`, which reads the last two octets only of a buffer that has four.

*Checksum.* `RunningCrc` is inductive beside `TypeOK`: a flag, the only way out of HUNT, restarts the checksum, and so does every path that abandons a frame but `abort`, which goes to HUNT; every other octet moves buffer and checksum together (`StoreLags`). With `Filtered`, that only an
octet of this station's addresses starts a buffer, it gives `CheckedSafe`: an accepted buffer is address, control, payload and the checksum of these (`AcceptedFacts`).

*What is sent is understood.* The stuffed octets of a frame, read by a parser that stands at a flag, bring it back to a flag and dispatch that
frame on the last octet and nothing before, whatever the payload. This is an induction over the payload and over the octets read. The
prover has no induction over a predicate, so it is done over sets: the naturals for which a statement holds contain 0 and are closed under successor
(`LeastNatural`, `Induction`), and `sending`, `running` and `fed` are recursive functions, each shown to exist by the same induction before anything is said of it.

*Nothing unhurt is lost.* `DeliveryInv` says of each frame owed, unhurt and wanted, that the octets held in the ring and on the line, read by the parser
as it stands, dispatch that frame somewhere (`Comes`); and of an open stream, that the parser will follow it to its end. Damage behind a frame changes octets
that come later; damage to the frame marks it hurt; the two flags of an abort, or an opening flag, bring any parser into step. With
no octet left nothing can still come, hence `IntactDelivered`.

*Whole, once, in order.* `OrderInv` adds the converse: everything still to be dispatched is a frame owed, at positions that rise with the order of sending (`Placeable`, `Apart`). The next dispatch
is then the oldest wanted frame, which is `Deliver`; every other step is `Send` or a stutter.

`BareMetalProofs` proves, for every ring size and traffic, `TypeCorrect` (`TypeOK`), `NoExpiryLost` (`ActiveIsTimed`) and
`SilentUnlessRaced` (`StoppedIsSilent`). The invariant adds three facts about the middle of things: a flag found set is still set when it
is cleared (`TakenIsSet`), the hardware runs only timers the library believes in or that ran out in the gap (`ArmedIsKnown`), and while a timer is being changed its flag is clear or was
raised in the gap (`ClearedFirst`).

*Assumptions* are those named in the modules: modulus 4 or 8, window below the modulus, counter
width and payload names at least the modulus, callbacks as described; a buffer of at least four octets, a ring of at least two slots, bounds that are naturals.

*Only model-checked:* that a hurt frame is missing or mistaken only for a `ZeroTailed` one, the rest of `DeliversFrames`: it depends on which damage
a sixteen-bit checksum detects, and is false of two faults; of a link, what `Streaming` excludes and a
retry limit that the losses do not exhaust; the liveness properties.
*Out of the prover's reach:* liveness under fairness and ENABLED, and whatever needs a recursive operator or `Bitwise`: the
CRC table against the division, which TLC compares for every word.

## 5. Not modelled

* Calls of `t1_expired` and `t2_expired` from the timer's interrupt, as `README.md:97` has it. Every module defers them to the loop, as the
  template does. From an interrupt they would change the flag byte in the middle of `data_in`'s own changes, and no
  property of a station could be expected to hold.
* The parameter checks of `init`, single guards over constants: what they let through is an assumption of the models, and what `init` leaves in the
  context is `InitCtx`. The same for the error codes of the API, whose guards are in the actions. A NULL `tx_window`, with which a station sends no I-frame, is not instantiated.
* Logging, configuration macros.
* The straight-line code of the loopback and UI examples, the tick arithmetic of the MCU port, test code and the PC tools.
* An information field of more than 65 535 octets, where `info_len` wraps: `FrameIn` has the width, the run's buffer is smaller, and the theorems exclude it by hypothesis.

## 6. Findings

1. `window_open`: a frame sent from `WINDOW_OPEN` loses its T1 to the `process_nr` that fired the event.
2. `link_failure`: a set-up made from `LINK_FAILURE` is left in CONNECTING without T1.
3. `stale_pending`: a retransmission decided early in a buffer survives the reset of its connection and sends numbered frames
   from wiped slots or from outside the slot array, and starts T1 in DISCONNECTED.
4. `busy_peer`: an RNR with F=1 makes the station resend everything to the peer that is busy.
5. `stale_n2`: a set-up starts with the retries of a previous exchange already counted.
6. `busy_enquiry`: a locally busy station that loses one I-frame fails its link. Its T1 enquiry is an RNR
   sent as a response; the peer answers commands only; nothing is ever resent.

Met while modelling and shown by no run of their own, because they contradict no comment or are plain from the line quoted:

* A station opened by its peer's SABM never learns `peer_address`. Its commands go to address 0 and are heard by nobody: its I-frames fail the
  link, and its DISC leaves the peer connected. With `Provisioned = {}` in `link_data`, `StaysUp` and `Agreement` are violated.
* A DM sent by a station in DISCONNECTING
  to a poll of the old connection can refuse the peer's next set-up while the SABM behind it is accepted, leaving one
  end connected. A duplicate UA, produced by a T1 shorter than the round trip, is answered with FRMR.
* `disconnect` and its UA leave T2 running, and so does `link_setup`. When a set-up follows at once, T2 expires in CONNECTING and sends an RR with the old
  connection's V(R). Behind the SABM it reaches a peer that has answered and may have sent: it acknowledges frames of the new
  connection that nobody has received (`hdlc_dispatch.c:344`, `hdlc_station.c:170-178`). TLC finds `StreamBack` violated in this way in `link_data` without `Patient`.
* A UA that is left over from an earlier exchange is taken for the answer to the next SABM. The answer itself then arrives in CONNECTED and
  is met with FRMR. And a set-up that starts with retries counted (finding 5) can give up while the peer, which has answered, stays connected. TLC finds both in `link_data` when
  `link_setup` is called without waiting for the old frames, or for N2 to be zero.
* An application that sends from `on_data` can do so while a retransmission is pending in the same buffer, after an acknowledgement has moved V(A) past `retransmit_from`. The new frame takes a
  slot that the retransmission still counts as its own: acknowledged numbers are resent with the payload of later ones, and slots outside the array are read (`hdlc_in.c:20`). TLC finds it with
  `SendOn = {"DATA"}` in `station_chunks`.
* The RR that ends a busy condition is sent once. Lost while nothing is outstanding, it leaves the peer refused for ever.
* `handle_sframe` answers a poll with RR even when the station is locally busy, and so ends the busy condition at the peer.
* The checksum is sent as it is, not complemented, so the remainder of a good frame is zero: zero octets between the checksum and the closing
  flag go unnoticed, and octets of the checksum are delivered as data.
* `hdlc.h:78` says that `abort` pushes the peer into HUNT; its two flags leave the peer's parser at the start of a frame, which serves the same end.
* `README.md:16` speaks of SABM contention resolved by address; the code answers UA on both sides and needs no resolution.
* `hdlc_types.h:29` says that TEST is processed in DISCONNECTED; `state_disconnected` ignores it, and answers or delivers nothing.
* `hdlc.h:119` says that a TEST response is reported by `on_event`; it goes to `on_data`.

## 7. Plan

Done: the engine, its API and one station, with proofs of all its checked properties; two stations refining a reliable stream, proved for
applications that do not disconnect; octets, checksum and receive ring refining a frame channel, proved for
a line that disturbs nothing, and proved to lose nothing unhurt on any line; the
bare-metal loop with its interrupts. Every part that keeps state is modelled, except as section 5 says.

Next: `HdlcStreamProofs` with disconnections, the old connection's frames and T2 as an explicit exception, for links where a set-up waits for both.
