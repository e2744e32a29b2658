------------------------------- MODULE MCZipJob -------------------------------
(***************************************************************************)
(* ZipJob with two jobs of two entries each, one permit or two, and the   *)
(* capacity changed once.                                                  *)
(***************************************************************************)
EXTENDS ZipJob, TLC

Symmetric == Permutations(Jobs)
==============================================================================
