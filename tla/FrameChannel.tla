----------------------------- MODULE FrameChannel -----------------------------
(***************************************************************************)
(* What one direction of the octet line promises to the engines at its two *)
(* ends: frames arrive whole, once and in the order they were sent, and    *)
(* only those the line has hurt may be missing, or be taken for one of     *)
(* those the checksum cannot tell from them.                               *)
(***************************************************************************)
EXTENDS Naturals, Sequences

CONSTANT Confused(_)   \* frames a hurt frame may be taken for

VARIABLES
  way,   \* frames sent and neither delivered nor overtaken: frame, hurt, wanted
  got    \* the frames the last step delivered: one at most

Init == way = << >> /\ got = << >>

\* A frame is sent; one interrupted by another may be hurt already.
Send == Len(way') = Len(way) + 1 /\ SubSeq(way', 1, Len(way)) = way /\ got' = << >>

\* The line hurts frames that are under way.
Hurt == /\ Len(way') = Len(way)
        /\ \A i \in 1 .. Len(way) :
             way'[i] = way[i] \/ way'[i] = [way[i] EXCEPT !.hurt = TRUE]
        /\ got' = << >>

\* A frame meant for this station is delivered; those before it were hurt or
\* not meant for it, and will never be delivered.
Deliver == \E k \in 1 .. Len(way) :
             /\ way[k].wanted
             /\ \A i \in 1 .. (k - 1) : way[i].hurt \/ ~way[i].wanted
             /\ \/ got' = <<way[k].frame>>
                \/ way[k].hurt /\ \E g \in Confused(way[k].frame) : got' = <<g>>
             /\ way' = SubSeq(way, k + 1, Len(way))

Next == Send \/ Hurt \/ Deliver

Spec == Init /\ [][Next]_<<way, got>>

==========================================================================
