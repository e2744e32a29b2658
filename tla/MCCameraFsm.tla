----------------------------- MODULE MCCameraFsm -----------------------------
(***************************************************************************)
(* CameraFsm on one camera: rows are independent of one another, so one    *)
(* camera with everybody on it is the interesting case.                    *)
(* Two jobs race on it over four days.  With both windows of one day       *)
(* pruning keeps two days: on the last day it removes the detections of    *)
(* the first, while a camera that was reset since may still be learning.   *)
(***************************************************************************)
EXTENDS CameraFsm, TLC

Symmetric == Permutations(Jobs) \cup Permutations(Geoms)
==============================================================================
