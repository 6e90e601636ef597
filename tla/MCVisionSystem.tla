--------------------------- MODULE MCVisionSystem ---------------------------
(***************************************************************************)
(* A small instance of VisionSystem for TLC: all families but one, one     *)
(* resolution and one image.  One client asks in every order; what several *)
(* do to each other before the worker hears of it is MCVisionServer's.     *)
(***************************************************************************)
EXTENDS VisionSystem

CONSTANTS c1, p1

OneClient == {c1}
OnePid    == {p1}
NoGpus    == {}
MCCli     == {"siglip", "depth3"}
MCEnv     == {"matte", "parts"}
MCCalls   == {"remove", "siglip", "depth", "parts"}
MCSizes   == {"fits", "big_reply"}
NativeSizes   == [m \in {"matting", "depth2", "depth3"} |-> 4]
OneResolution == {0}
OneImage      == {<<4, 4>>}
=============================================================================
