--------------------------- MODULE MCRuntimeSettings ---------------------------
(* Numeric knobs range over 1..3.  Patches on both sides of the cross-field  *)
(* rule, values beyond the clamp, a value of the wrong type and an unknown   *)
(* key.  One environment has its cap beyond the clamp, with a threshold that *)
(* a clamped cap does not exceed; the race does not need it.                 *)
EXTENDS RuntimeSettings, TLC

Setting(conf, cap, other) ==
  [k \in Knobs |-> CASE k = "conf" -> conf [] k = "cap" -> cap [] OTHER -> other]
InClamp == {Setting(1, 2, 1), Setting(1, 3, 1)}
MCBases == InClamp \cup {Setting(3, 4, 1)}
MCPatches ==
  {"conf" :> 2, "cap" :> 9, "other" :> 2, "other" :> 9,
   "cap" :> Bad, "unknown" :> 1, ("conf" :> 2) @@ ("cap" :> 3)}
Symmetric == Permutations(Requests)
==============================================================================
