----------------------------- MODULE MCClassifier -----------------------------
(* Two nights, with a stop and a restart at any step of either; crops that   *)
(* arrive before, during and after a training; measurements below, at and    *)
(* above the minimum.  Seed sets too small to train, as small as the crops,  *)
(* and much larger.  The class cap and the holdout are scaled to three crops *)
(* (1 and 25 percent for 4 and 10), so that crops exceed the cap and are     *)
(* held out, at the boundary 25 * (1 + 1) = 50 of CropsAccounted.            *)
EXTENDS Classifier, TLC

Symmetric == Permutations(Workers) \cup Permutations(Crops)
==============================================================================
