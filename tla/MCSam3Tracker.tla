---------------------------- MODULE MCSam3Tracker ----------------------------
(***************************************************************************)
(* Small instances of Sam3Tracker for TLC: banks that overflow within the  *)
(* frames of the video, candidates decided and objects given up early.     *)
(***************************************************************************)
EXTENDS Sam3Tracker, TLC

CONSTANTS cat, dog

MCThings == {cat, dog}
Symmetry == Permutations(MCThings)
=============================================================================
