---------------------------- MODULE MCSam3Session ----------------------------
(***************************************************************************)
(* Small instances of Sam3Session for TLC: a model with a detector and one *)
(* that copies its features, each with a state, in few but arbitrary calls.*)
(***************************************************************************)
EXTENDS Sam3Session

CONSTANTS big, small

MCModels == {big, small}
MCKind   == [m \in MCModels |-> IF m = big THEN "sam3" ELSE "edgetam"]
=============================================================================
