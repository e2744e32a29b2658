-------------------------------- MODULE BoxBlur --------------------------------
(***************************************************************************)
(* The box blur that anonymizes a region (box_blur_region, pipeline.rs).   *)
(* One line of pixels at a time, one channel of it: a row of the image in  *)
(* the horizontal pass, whose window may reach over the whole row, or a    *)
(* column of the temporary buffer in the vertical pass, whose window stays  *)
(* inside the region.  The sum over the window is not recomputed per pixel: *)
(* it is seeded for the first one and then slid, one sample entering and    *)
(* one leaving at each step, in unsigned 32-bit arithmetic.                 *)
(*                                                                         *)
(* A line is given by its prefix sums: line[i] is the sum of the samples    *)
(* before position i, so that the samples are the differences.              *)
(***************************************************************************)
EXTENDS Integers

CONSTANTS LineLength,    \* pixels of a line
          Lines,    \* lines, as prefix sums
          Radii,    \* window radii: max(2, round(1.5 sigma))
          Wrap      \* 2^32: the sums are unsigned words

ASSUME BlurAssumption ==
  /\ LineLength \in Nat \ {0}
  /\ \A s \in Lines :
       /\ s \in [0..LineLength -> Nat]
       /\ s[0] = 0 /\ s[LineLength] < Wrap
       /\ \A i, j \in 0..LineLength : i <= j => s[i] <= s[j]
  /\ Radii \subseteq Nat \ {0} /\ Wrap \in Nat \ {0}

VARIABLES
  line, radius,
  pass,          \* "rows" or "columns"
  first, last,   \* the region's extent along the line
  pc,            \* "seed", "slide" or "done"
  at,            \* the sample to seed next, then the pixel to write next
  acc, count,    \* the running sum and the number of samples in it
  out            \* the averages written so far

blurVars == <<line, radius, pass, first, last, pc, at, acc, count, out>>

Pixels == 0..(LineLength - 1)
Sample(i) == line[i + 1] - line[i]
Plus(a, b)  == IF a + b < Wrap THEN a + b ELSE a + b - Wrap
Minus(a, b) == IF a >= b THEN a - b ELSE a - b + Wrap

(* The window of pixel x is From(x)..(To(x) - 1): x-radius..x+radius within  *)
(* the row, or within the region.                                            *)
Low     == IF pass = "rows" THEN 0 ELSE first
High    == IF pass = "rows" THEN LineLength - 1 ELSE last
From(x) == IF x - radius > Low THEN x - radius ELSE Low
To(x)   == IF x + radius < High THEN x + radius + 1 ELSE High + 1

(* A region that is empty or one pixel wide once clamped to the image is     *)
(* left as it is, so a pass always has first < last.                         *)
BlurInit ==
  /\ line \in Lines /\ radius \in Radii
  /\ pass \in {"rows", "columns"}
  /\ first \in Pixels /\ last \in Pixels /\ first < last
  /\ pc = "seed" /\ at = From(first)
  /\ acc = 0 /\ count = 0
  /\ out = [i \in Pixels |-> 0]

Seed ==
  /\ pc = "seed"
  /\ IF at < To(first)
     THEN /\ acc' = Plus(acc, Sample(at)) /\ count' = count + 1
          /\ at' = at + 1 /\ UNCHANGED pc
     ELSE /\ pc' = "slide" /\ at' = first /\ UNCHANGED <<acc, count>>
  /\ UNCHANGED <<line, radius, pass, first, last, out>>

(* The right neighbour of the window enters if it is in bounds, and the      *)
(* leftmost sample leaves unless the window is cut off there.                *)
Enters(x) == x + radius + 1 <= High
Leaves_kept(x) == x - radius > Low
Leaves(x)      == x - radius >= Low
Gained(x) == IF Enters(x) THEN Sample(x + radius + 1) ELSE 0
Lost(x)   == IF Leaves(x) THEN Sample(x - radius) ELSE 0

Slide ==
  /\ pc = "slide"
  /\ out' = [out EXCEPT ![at] = acc \div count]
  /\ acc' = Minus(Plus(acc, Gained(at)), Lost(at))
  /\ count' = count + (IF Enters(at) THEN 1 ELSE 0) - (IF Leaves(at) THEN 1 ELSE 0)
  /\ IF at = last THEN pc' = "done" ELSE UNCHANGED pc
  /\ at' = at + 1
  /\ UNCHANGED <<line, radius, pass, first, last>>

BlurNext == Seed \/ Slide
BlurSpec == BlurInit /\ [][BlurNext]_blurVars

------------------------------------------------------------------------------
(* The average of a pixel's own window, recomputed from scratch.              *)
Average(x) == (line[To(x)] - line[From(x)]) \div (To(x) - From(x))

(* "Same window, same integer average, byte-identical output ... it is       *)
(* always part of the current sum, so no wrap" (pipeline.rs 133-137, 167):   *)
(* every pixel written got the average of its own window, no average was     *)
(* taken of nothing, and the next sum is the sum of the next window.         *)
SlidingIsExact ==
  pc # "seed" =>
    /\ \A x \in first..(at - 1) : out[x] = Average(x)
    /\ pc = "slide" => /\ count = To(at) - From(at) /\ count > 0
                       /\ acc = line[To(at)] - line[From(at)]
==============================================================================
