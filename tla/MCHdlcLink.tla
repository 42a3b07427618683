----------------------------- MODULE MCHdlcLink -----------------------------
(***************************************************************************)
(* HdlcLink for TLC: how often each side sends, and calls anything else.   *)
(***************************************************************************)
EXTENDS HdlcLink

FiveTwo == <<5, 2>>
OneEach == <<1, 1>>
TwoOne == <<2, 1>>
TwoEach == <<2, 2>>
TwoNone == <<2, 0>>

==========================================================================
