--------------------------- MODULE MCVisionServer ---------------------------
(***************************************************************************)
(* Small instances of VisionServer for TLC.                                *)
(***************************************************************************)
EXTENDS VisionServer, TLC

CONSTANTS c1, c2, p1, p2, g1

MCClients == {c1, c2}
MCPids    == {p1, p2}
OnePid    == {p1}
NoGpus    == {}
MCGpus    == {g1}
MCCli     == {"siglip"}
MCEnv     == {"matte"}
MCSizes   == {"fits", "big_request"}
MCCalls   == {"remove", "siglip", "load"}

OnlyMatte  == {"matte"}
OnlyParts  == {"parts"}
NoModels   == {}
SmallOnly  == {"fits"}
BigReplies == {"big_reply"}
CallRemove == {"remove"}
CallLoad   == {"load"}
CallParts  == {"parts"}
DepthAndParts == {"depth", "parts"}
OnlyDepth3 == {"depth3"}

\* Handler threads and pids are interchangeable; no safety property below
\* names one of them.
Symmetry == Permutations(MCClients) \cup Permutations(MCPids)
=============================================================================
