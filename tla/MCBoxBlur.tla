------------------------------- MODULE MCBoxBlur -------------------------------
(* Every line of LineLength samples out of 0, 1 and MaxSample.                 *)
EXTENDS BoxBlur
CONSTANT MaxSample
RECURSIVE LinesOf(_)
LinesOf(n) ==
  IF n = 0 THEN {[i \in {0} |-> 0]}
  ELSE {[i \in 0..n |-> IF i = n THEN s[n - 1] + v ELSE s[i]] :
          s \in LinesOf(n - 1), v \in {0, 1, MaxSample}}
MCLines == LinesOf(LineLength)
==============================================================================
