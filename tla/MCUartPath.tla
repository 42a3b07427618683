----------------------------- MODULE MCUartPath -----------------------------
(***************************************************************************)
(* UartPath for TLC, with the library's own checksum.  Frames short and    *)
(* empty, with octets that must be escaped, addressed to the station, to   *)
(* everyone and to somebody else, and one that does not fit.               *)
(***************************************************************************)
EXTENDS UartPath, HdlcCrc

Fr(address, ctrl, info) == [address |-> address, ctrl |-> ctrl, info |-> info]

\* The checksum of the DISC holds a flag octet.
MCFrameSet == {Fr(1, 83, << >>), Fr(1, 0, <<126, 2>>), Fr(3, 3, <<125>>), Fr(2, 3, <<1, 2, 3, 4>>)}
MCStreamFrames == {Fr(255, 3, <<125, 1>>)}

\* What the code can still read, and the properties: not the octets of freed
\* slots, nor the last octet once it is parsed, nor a checksum nobody continues.
Live == <<IF stream.on THEN tx_crc ELSE 0, line, IF line = << >> THEN "none" ELSE owner,
          [i \in Slots |-> IF (i - rx_tail + RX_RING_SIZE) % RX_RING_SIZE
                             < (rx_head - rx_tail + RX_RING_SIZE) % RX_RING_SIZE
                          THEN rx_ring[i] ELSE 0],
          rx_head, rx_tail, pc, IF pc = "feed" THEN b ELSE 0, parser, stream, way, left>>

==========================================================================
