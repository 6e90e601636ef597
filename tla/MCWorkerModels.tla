--------------------------- MODULE MCWorkerModels ---------------------------
(***************************************************************************)
(* Small instances of WorkerModels for TLC: model files of native size 4   *)
(* (or a dynamic BiRefNet), image_multiple 2, images that are landscape,   *)
(* square and smaller than a patch, and resolutions below and above the    *)
(* native one.  The device takes layers of 15 pixels, which the square     *)
(* image exceeds.                                                          *)
(***************************************************************************)
EXTENDS WorkerModels

AllFamilies    == Families
MostFamilies   == Families \ {"depth2"}   \* a worker started without that model
FixedSizes     == [m \in GraphModels |-> 4]
DynamicSizes   == [m \in GraphModels |-> IF m = "matting" THEN -1 ELSE 4]
MCResolutions  == {-1, 0, 2, 7}
MCImageExtents == {<<5, 3>>, <<4, 4>>, <<1, 6>>}
OneResolution  == {0}
OneImage       == {<<4, 4>>}
=============================================================================
