----------------------------- MODULE MCUpscale -----------------------------
(***************************************************************************)
(* Small instances of Upscale for TLC: images of one to three tiles a      *)
(* side, down to a single pixel, and just below, at and above the sizes at *)
(* which another tile is needed.                                           *)
(***************************************************************************)
EXTENDS Upscale

MCImageExtents == {1, 2, 6, 7, 12} \X {1, 5, 13}
FewExtents     == {<<4, 4>>, <<7, 2>>}
Colour         == {3, 4}
AnyFormat      == {1, 3, 4}
=============================================================================
