---------------------------- MODULE MCHdlcStation ----------------------------
(***************************************************************************)
(* HdlcStation for TLC: every frame a peer can put on the line.            *)
(***************************************************************************)
EXTENDS HdlcStation

IFramesIn == [cmd : {TRUE}, type : {"I"}, ns : Seqs, nr : Seqs, pf : BOOLEAN, info : {0}]
SFramesIn == [cmd : BOOLEAN, type : SFrames, ns : {0}, nr : Seqs, pf : BOOLEAN, info : {Empty}]
UFramesIn == [cmd : {TRUE}, type : FrameTypes \ (SFrames \cup {"I", "TEST"}),
              ns : {0}, nr : {0}, pf : BOOLEAN, info : {Empty}]
TestsIn   == [cmd : BOOLEAN, type : {"TEST"}, ns : {0}, nr : {0}, pf : BOOLEAN, info : {0, Empty}]

\* For the runs with two frames in a buffer: without polls in I-frames, SREJ,
\* and the unnumbered frames that neither move the window nor the state.
DataFrames == {f \in IFramesIn \cup SFramesIn : f.type # "SREJ" /\ (f.type = "I" => ~f.pf)}
SetupFrames == {f \in UFramesIn : f.type \in {"SABM", "DISC", "UA", "FRMR"} /\ f.pf}
WindowFrames == DataFrames \cup SetupFrames

AllFrames == IFramesIn \cup SFramesIn \cup UFramesIn \cup TestsIn

==========================================================================
