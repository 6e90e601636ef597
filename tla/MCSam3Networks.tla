--------------------------- MODULE MCSam3Networks ---------------------------
(***************************************************************************)
(* Sam3Networks for the image sizes that its .cfg names: the native ones,  *)
(* multiples of the attention window, and for SAM 3 also sizes that leave  *)
(* partial patches or partial windows and the smallest grid that the neck  *)
(* can halve.                                                              *)
(***************************************************************************)
EXTENDS Sam3Networks
=============================================================================
