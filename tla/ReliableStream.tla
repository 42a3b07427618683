--------------------------- MODULE ReliableStream ---------------------------
(***************************************************************************)
(* What one direction of a link promises while both ends are connected:    *)
(* the I-frames the sender's application got accepted are delivered to the *)
(* receiver's in order and once each, and only delivered ones are ever     *)
(* confirmed.  Frames are numbered in the order of acceptance, so three    *)
(* counters say it all.  Nothing is promised while an end is not connected *)
(* (its counters may be wiped then), except that a connection starts from  *)
(* a consistent state.                                                     *)
(***************************************************************************)
EXTENDS Naturals

VARIABLES
  up,         \* both ends are connected
  accepted,   \* frames accepted by the sender
  delivered,  \* frames handed to the receiver's application
  confirmed   \* frames the sender knows to be delivered

vars == <<up, accepted, delivered, confirmed>>

Consistent == confirmed <= delivered /\ delivered <= accepted

Init == ~up /\ accepted = 0 /\ delivered = 0 /\ confirmed = 0

Accept == up /\ accepted' = accepted + 1 /\ UNCHANGED <<up, delivered, confirmed>>

Deliver == /\ up /\ delivered < accepted
           /\ delivered' = delivered + 1
           /\ UNCHANGED <<up, accepted, confirmed>>

Confirm == /\ up /\ confirmed < confirmed' /\ confirmed' <= delivered
           /\ UNCHANGED <<up, accepted, delivered>>

Down == ~up'

Connect == ~up /\ up' /\ Consistent'

Next == Accept \/ Deliver \/ Confirm \/ Down \/ Connect

Spec == Init /\ [][Next]_vars

=============================================================================
