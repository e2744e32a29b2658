------------------------- MODULE FramePipeline_proofs -------------------------
(***************************************************************************)
(* What the anonymization of a frame leaves of a face, for every frame,     *)
(* detection and ROI: FacesReplaced and OnlyFacesReplaced.  The argument    *)
(* has three layers.                                                       *)
(*                                                                         *)
(* The plane: a hull has all of its points on the left of every edge, so     *)
(* what lies inside a triangle of them is left of every edge, stays so when *)
(* the ring is grown about the mean of its vertices, and is in the polygon  *)
(* mask.  A ray from a point strictly inside a convex ring crosses one edge; *)
(* from a point that a line separates from the ring, an even number.        *)
(*                                                                         *)
(* The lists: suppression leaves for every detection one that stands for it, *)
(* the gate passes what it should.                                         *)
(*                                                                         *)
(* The frame: every detection looked at was passed over for a reason or its *)
(* mask was applied, and what is replaced belongs to what is kept.          *)
(*                                                                         *)
(* The last part proves the running sum of the blur exact.                  *)
(***************************************************************************)
EXTENDS FramePipeline, BoxBlur, FiniteSetTheorems, WellFoundedInduction, TLAPS

------------------------------------------------------------------------------
(* Induction and recursion over the naturals.                                 *)

(* A nonempty set of naturals has a least element (induction by a least       *)
(* counterexample: the provers cannot instantiate the induction theorems).    *)
LEMMA Least ==
  ASSUME NEW T, T \subseteq Nat, T # {}
  PROVE  \E n \in T : \A m \in T : n <= m
<1> DEFINE R == OpToRel(<, Nat)
<1>1. IsWellFoundedOn(R, Nat)
  BY NatLessThanWellFounded
<1>2. \A x, y \in Nat : x < y => <<x, y>> \in R
  BY DEF OpToRel
<1> HIDE DEF R
<1>3. PICK x \in T : \A y \in T : ~ (<<y, x>> \in R)
  BY <1>1, WFMin
<1>4. \A y \in T : x <= y
  <2> TAKE y \in T
  <2>1. x \in Nat /\ y \in Nat
    OBVIOUS
  <2>2. ~ (y < x)
    BY <1>2, <1>3, <2>1
  <2> QED
    BY <2>1, <2>2
<1> QED
  BY <1>4

(* What holds of 0 and passes from i - 1 to i holds up to n.                  *)
LEMMA Induct ==
  ASSUME NEW n \in Nat, NEW S, 0 \in S, \A i \in 1..n : i - 1 \in S => i \in S
  PROVE  \A i \in 0..n : i \in S
<1> DEFINE T == (0..n) \ S
<1>1. CASE T = {}
  BY <1>1
<1>2. CASE T # {}
  <2>0. T \subseteq Nat
    OBVIOUS
  <2>1. PICK m \in T : \A k \in T : m <= k
    <3> HIDE DEF T
    <3> QED
      BY <1>2, <2>0, Least
  <2>2. m \in 1..n
    BY <2>1
  <2>3. m - 1 \in 0..n /\ ~ (m <= m - 1)
    BY <2>2
  <2>4. m - 1 \in S
    BY <2>1, <2>3
  <2>5. m \in S
    BY <2>2, <2>4
  <2> QED
    BY <2>5, <2>1
<1> QED
  BY <1>1, <1>2

(* The function g computes a value step by step from b, by the steps F.       *)
Computes(g, n, V, b, F) ==
  g \in [0..n -> V] /\ g[0] = b /\ \A i \in 1..n : g[i] = F[i][g[i - 1]]

(* Every such recursion has a function.                                       *)
LEMMA Recursion ==
  ASSUME NEW n \in Nat, NEW V, NEW b \in V, NEW F \in [1..n -> [V -> V]]
  PROVE  \E g : Computes(g, n, V, b, F)
<1> DEFINE S == {m \in 0..n : \E g : Computes(g, m, V, b, F)}
<1>1. 0 \in S
  <2> DEFINE z == [i \in 0..0 |-> b]
  <2>1. Computes(z, 0, V, b, F)
    BY DEF Computes
  <2> QED
    BY <2>1
<1>2. ASSUME NEW m \in 1..n, m - 1 \in S PROVE m \in S
  <2>1. PICK g : Computes(g, m - 1, V, b, F)
    BY <1>2
  <2> DEFINE h == [i \in 0..m |-> IF i = m THEN F[m][g[m - 1]] ELSE g[i]]
  <2>2. F[m] \in [V -> V] /\ g[m - 1] \in V
    BY <2>1 DEF Computes
  <2>3. F[m][g[m - 1]] \in V
    BY <2>2
  <2>4. \A i \in 0..m : i # m => i \in 0..(m - 1)
    OBVIOUS
  <2>5. h \in [0..m -> V]
    BY <2>1, <2>3, <2>4 DEF Computes
  <2>6. h[0] = b
    BY <2>1 DEF Computes
  <2>7. \A i \in 1..m : h[i] = F[i][h[i - 1]]
    BY <2>1, <2>4 DEF Computes
  <2>8. Computes(h, m, V, b, F)
    <3> HIDE DEF h
    <3> QED
      BY <2>5, <2>6, <2>7 DEF Computes
  <2> QED
    BY <2>8
<1>3. n \in S
  <2> HIDE DEF S
  <2>1. \A m \in 0..n : m \in S
    BY <1>1, <1>2, Induct
  <2> QED
    BY <2>1
<1> QED
  BY <1>3

------------------------------------------------------------------------------
(* What the recursive functions of the model compute.                         *)

(* Total adds up: its partial sums start at 0 and grow by one term each.      *)
LEMMA TotalIs ==
  ASSUME NEW n \in Nat, NEW f \in [1..n -> Int]
  PROVE  \E t \in [0..n -> Int] :
           /\ t[0] = 0 /\ \A i \in 1..n : t[i] = t[i - 1] + f[i]
           /\ Total(f, n) = t[n]
<1> DEFINE V == Int
           F == [i \in 1..n |-> [v \in V |-> v + f[i]]]
           Is(t) == t = [i \in 0..n |-> IF i = 0 THEN 0 ELSE t[i - 1] + f[i]]
           K == CHOOSE t : Is(t)
<1>1. 0 \in V /\ F \in [1..n -> [V -> V]]
  OBVIOUS
<1>2. PICK g : Computes(g, n, V, 0, F)
  <2> HIDE DEF F, V
  <2> QED
    BY <1>1, Recursion
<1>3. ASSUME NEW i \in 1..n PROVE g[i] = g[i - 1] + f[i]
  <2>1. i - 1 \in 0..n /\ g[i - 1] \in Int /\ g[i] = F[i][g[i - 1]]
    <3> HIDE DEF F
    <3> QED
      BY <1>2 DEF Computes
  <2> QED
    BY <2>1
<1>4. Is(g)
  <2>1. g[0] = 0 /\ g = [i \in 0..n |-> g[i]]
    BY <1>2 DEF Computes
  <2>2. \A i \in 0..n : i # 0 => i \in 1..n
    OBVIOUS
  <2> QED
    BY <1>3, <2>1, <2>2
<1>5. Is(K)
  <2> HIDE DEF Is
  <2> QED
    BY <1>4
<1>6. Total(f, n) = K[n]
  BY DEF Total
<1> HIDE DEF K
<1>7. K[0] = 0 /\ \A i \in 1..n : K[i] = K[i - 1] + f[i]
  BY <1>5
<1> DEFINE T == {j \in 0..n : K[j] \in Int}
<1>8. 0 \in T /\ \A i \in 1..n : i - 1 \in T => i \in T
  BY <1>7
<1>9. \A i \in 0..n : i \in T
  <2> HIDE DEF T
  <2> QED
    BY <1>8, Induct
<1>10. K \in [0..n -> Int]
  BY <1>5, <1>9
<1> QED
  <2> HIDE DEF Is
  <2> QED
    BY <1>6, <1>7, <1>10

(* The lists that greedy suppression keeps, one detection after the other.    *)
Suppresses(k, q, S, num, den) ==
  /\ k \in [0..Len(q) -> Seq(S)] /\ k[0] = <<>>
  /\ \A i \in 1..Len(q) :
       k[i] = IF \E x \in Range(k[i - 1]) : IouAbove(q[i].box, x.box, num, den)
              THEN k[i - 1] ELSE Append(k[i - 1], q[i])

(* Nms is the last of the lists that greedy suppression keeps (models.rs      *)
(* 322-339).                                                                  *)
LEMMA NmsIs ==
  ASSUME NEW S, NEW q \in Seq(S), NEW num, NEW den
  PROVE  \E k : Suppresses(k, q, S, num, den) /\ Nms(q, num, den) = k[Len(q)]
<1> DEFINE n == Len(q)
           V == Seq(S)
           Hits(v, i) == \E x \in Range(v) : IouAbove(q[i].box, x.box, num, den)
           F == [i \in 1..n |-> [v \in V |-> IF Hits(v, i) THEN v ELSE Append(v, q[i])]]
           Is(k) == k = [i \in 0..n |-> IF i = 0 THEN <<>>
                                        ELSE IF Hits(k[i - 1], i) THEN k[i - 1]
                                        ELSE Append(k[i - 1], q[i])]
           K == CHOOSE k : Is(k)
<1>6. Nms(q, num, den) = K[n]
  BY DEF Nms
<1> HIDE DEF Hits
<1>1. n \in Nat /\ <<>> \in V /\ F \in [1..n -> [V -> V]]
  OBVIOUS
<1>2. PICK g : Computes(g, n, V, <<>>, F)
  <2> HIDE DEF F, n, V
  <2> QED
    BY <1>1, Recursion
<1>3. ASSUME NEW i \in 1..n
      PROVE  g[i] = IF Hits(g[i - 1], i) THEN g[i - 1] ELSE Append(g[i - 1], q[i])
  <2> HIDE DEF V
  <2>1. i - 1 \in 0..n /\ g[i - 1] \in V /\ g[i] = F[i][g[i - 1]]
    <3> HIDE DEF F
    <3> QED
      BY <1>1, <1>2 DEF Computes
  <2> QED
    BY <2>1
<1>4. Is(g)
  <2> HIDE DEF V
  <2>1. g[0] = <<>> /\ g = [i \in 0..n |-> g[i]]
    BY <1>1, <1>2 DEF Computes
  <2>2. \A i \in 0..n : i # 0 => i \in 1..n
    OBVIOUS
  <2> QED
    BY <1>3, <2>1, <2>2
<1>5. Is(K)
  <2> HIDE DEF Is
  <2> QED
    BY <1>4
<1> HIDE DEF K
<1>7. /\ K[0] = <<>>
      /\ \A i \in 1..n : K[i] = IF Hits(K[i - 1], i) THEN K[i - 1] ELSE Append(K[i - 1], q[i])
  <2> HIDE DEF n
  <2>1. 0 \in 0..n /\ \A i \in 1..n : i \in 0..n /\ i # 0
    BY <1>1
  <2> QED
    BY <1>5, <2>1
<1> DEFINE T == {j \in 0..n : K[j] \in V}
<1>8. 0 \in T /\ \A i \in 1..n : i - 1 \in T => i \in T
  <2>1. \A i \in 1..n : q[i] \in S /\ i \in 0..n /\ 0 \in 0..n
    OBVIOUS
  <2>2. \A v \in V, x \in S : Append(v, x) \in V
    OBVIOUS
  <2> HIDE DEF n, V
  <2> QED
    BY <1>1, <1>7, <2>1, <2>2
<1>9. \A i \in 0..n : i \in T
  <2> HIDE DEF T, n
  <2> QED
    BY <1>1, <1>8, Induct
<1>10. K \in [0..n -> V]
  BY <1>5, <1>9
<1>11. Suppresses(K, q, S, num, den)
  <2> HIDE DEF Is
  <2> QED
    BY <1>7, <1>10 DEF Hits, Suppresses
<1> QED
  BY <1>6, <1>11

(* Gated is the last of the lists that the ROI gate lets through              *)
(* (pipeline.rs 919-924).                                                     *)
LEMMA GatedIs ==
  ASSUME NEW S, NEW q \in Seq(S)
  PROVE  \E k \in [0..Len(q) -> Seq(S)] :
           /\ k[0] = <<>>
           /\ \A i \in 1..Len(q) :
                k[i] = IF InRoi(q[i]) THEN Append(k[i - 1], q[i]) ELSE k[i - 1]
           /\ Gated(q) = k[Len(q)]
<1> DEFINE n == Len(q)
           V == Seq(S)
           Is(k) == k = [i \in 0..n |-> IF i = 0 THEN <<>>
                                        ELSE IF InRoi(q[i]) THEN Append(k[i - 1], q[i])
                                        ELSE k[i - 1]]
<1>1. n \in Nat /\ <<>> \in V
  OBVIOUS
<1>2. PICK good : good = {i \in 1..n : InRoi(q[i])}
  OBVIOUS
<1> DEFINE F == [i \in 1..n |-> [v \in V |-> IF i \in good THEN Append(v, q[i]) ELSE v]]
<1>3. F \in [1..n -> [V -> V]]
  OBVIOUS
<1>4. PICK g : Computes(g, n, V, <<>>, F)
  <2> HIDE DEF F, n, V
  <2> QED
    BY <1>1, <1>3, Recursion
<1>5. ASSUME NEW i \in 1..n
      PROVE  g[i] = IF InRoi(q[i]) THEN Append(g[i - 1], q[i]) ELSE g[i - 1]
  <2> HIDE DEF V
  <2>1. i - 1 \in 0..n /\ g[i - 1] \in V /\ g[i] = F[i][g[i - 1]]
    <3> HIDE DEF F
    <3> QED
      BY <1>1, <1>4 DEF Computes
  <2>2. g[i] = IF i \in good THEN Append(g[i - 1], q[i]) ELSE g[i - 1]
    BY <2>1
  <2>3. i \in good <=> InRoi(q[i])
    BY <1>2
  <2> QED
    BY <2>2, <2>3
<1>6. Is(g)
  <2> HIDE DEF V
  <2>1. g[0] = <<>> /\ g = [i \in 0..n |-> g[i]]
    BY <1>1, <1>4 DEF Computes
  <2>2. \A i \in 0..n : i # 0 => i \in 1..n
    OBVIOUS
  <2> QED
    BY <1>5, <2>1, <2>2
<1>7. PICK k : k = CHOOSE f : Is(f)
  OBVIOUS
<1>8. Is(k)
  <2> HIDE DEF Is
  <2> QED
    BY <1>6, <1>7
<1>9. Gated(q) = k[n]
  BY <1>7 DEF Gated
<1>10. /\ k[0] = <<>>
       /\ \A i \in 1..n : k[i] = IF InRoi(q[i]) THEN Append(k[i - 1], q[i]) ELSE k[i - 1]
  <2> HIDE DEF n
  <2>1. 0 \in 0..n /\ \A i \in 1..n : i \in 0..n /\ i # 0
    BY <1>1
  <2> QED
    BY <1>8, <2>1
<1> DEFINE T == {j \in 0..n : k[j] \in V}
<1>11. 0 \in T /\ \A i \in 1..n : i - 1 \in T => i \in T
  <2>1. \A i \in 1..n : q[i] \in S /\ i \in 0..n /\ 0 \in 0..n
    OBVIOUS
  <2>2. \A v \in V, x \in S : Append(v, x) \in V
    OBVIOUS
  <2> HIDE DEF n, V
  <2> QED
    BY <1>1, <1>10, <2>1, <2>2
<1>12. \A i \in 0..n : i \in T
  <2> HIDE DEF T, n
  <2> QED
    BY <1>1, <1>11, Induct
<1>13. k \in [0..n -> V]
  BY <1>8, <1>12
<1> QED
  <2> HIDE DEF Is
  <2> QED
    BY <1>9, <1>10, <1>13

------------------------------------------------------------------------------
(* Signs, slopes and the side of a line.                                      *)

(* A step to the right, or straight up.                                       *)
LexPositive(x, y) == x > 0 \/ (x = 0 /\ y > 0)

(* The sign of a product with a positive factor is that of the other.         *)
LEMMA SignOfFactor ==
  ASSUME NEW a \in Int, NEW b \in Int, a > 0
  PROVE  /\ a * b > 0 => b > 0
         /\ a * b >= 0 => b >= 0
         /\ b > 0 => a * b > 0
         /\ b >= 0 => a * b >= 0
  BY SMT

(* A product of two factors that are not negative is not negative.            *)
LEMMA SignOfProduct ==
  ASSUME NEW a \in Int, NEW b \in Int, a >= 0, b >= 0
  PROVE  a * b \in Int /\ a * b >= 0
  BY SMT

(* Slopes to the right are ordered: if v turns left of u and w left of v,     *)
(* then w turns left of u.                                                    *)
LEMMA SlopesTransitive ==
  ASSUME NEW ux \in Int, NEW uy \in Int, NEW vx \in Int, NEW vy \in Int,
         NEW wx \in Int, NEW wy \in Int,
         LexPositive(ux, uy), LexPositive(vx, vy), LexPositive(wx, wy),
         ux * vy - uy * vx >= 0, vx * wy - vy * wx >= 0
  PROVE  /\ ux * wy - uy * wx >= 0
         /\ ux * vy - uy * vx > 0 => ux * wy - uy * wx > 0
         /\ vx * wy - vy * wx > 0 => ux * wy - uy * wx > 0
<1> DEFINE uv == ux * vy - uy * vx
           vw == vx * wy - vy * wx
           uw == ux * wy - uy * wx
<1>1. uv \in Int /\ vw \in Int /\ uw \in Int /\ uv >= 0 /\ vw >= 0
  OBVIOUS
<1>2. ux >= 0 /\ vx >= 0 /\ wx >= 0
  BY DEF LexPositive
<1>3. vx * uw = ux * vw + wx * uv
  BY SMT
<1>4. CASE vx > 0
  <2>1. ux * vw >= 0 /\ wx * uv >= 0 /\ ux * vw \in Int /\ wx * uv \in Int
    <3> HIDE DEF uv, vw
    <3> QED
      BY <1>1, <1>2, SignOfProduct
  <2>2. uw >= 0
    <3> HIDE DEF uv, vw, uw
    <3> QED
      BY <1>1, <1>3, <1>4, <2>1, SignOfFactor
  <2>3. ASSUME uv > 0 PROVE uw > 0
    <3>1. CASE wx > 0
      <4>1. wx * uv > 0
        <5> HIDE DEF uv
        <5> QED
          BY <1>1, <2>3, <3>1, SignOfFactor
      <4> HIDE DEF uv, vw, uw
      <4> QED
        BY <1>1, <1>3, <1>4, <2>1, <4>1, SignOfFactor
    <3>2. CASE wx = 0
      <4>1. wy > 0
        BY <3>2 DEF LexPositive
      <4>2. CASE ux = 0
        <5>1. uy > 0 /\ uv = - (uy * vx)
          BY <4>2 DEF LexPositive
        <5>2. uy * vx > 0
          BY <1>4, <5>1, SignOfFactor
        <5> QED
          BY <2>3, <5>1, <5>2
      <4>3. CASE ux > 0
        <5>1. uw = ux * wy
          BY <3>2
        <5> QED
          BY <4>1, <4>3, <5>1, SignOfFactor
      <4> QED
        BY <1>2, <4>2, <4>3
    <3> QED
      BY <1>2, <3>1, <3>2
  <2>4. ASSUME vw > 0 PROVE uw > 0
    <3>1. CASE ux > 0
      <4>1. ux * vw > 0
        <5> HIDE DEF vw
        <5> QED
          BY <1>1, <2>4, <3>1, SignOfFactor
      <4> HIDE DEF uv, vw, uw
      <4> QED
        BY <1>1, <1>3, <1>4, <2>1, <4>1, SignOfFactor
    <3>2. CASE ux = 0
      <4>1. uy > 0 /\ uv = - (uy * vx)
        BY <3>2 DEF LexPositive
      <4>2. uy * vx > 0
        BY <1>4, <4>1, SignOfFactor
      <4> QED
        BY <1>1, <4>1, <4>2
    <3> QED
      BY <1>2, <3>1, <3>2
  <2> QED
    BY <2>2, <2>3, <2>4
<1>5. CASE vx = 0
  <2>1. vy > 0 /\ vw = - (vy * wx) /\ uv = vy * ux
    BY <1>5 DEF LexPositive
  <2>2. wx = 0
    <3>1. ~ (wx > 0)
      <4>1. wx > 0 => vy * wx > 0
        BY <2>1, SignOfFactor
      <4> QED
        BY <1>1, <2>1, <4>1
    <3> QED
      BY <1>2, <3>1
  <2>3. wy > 0 /\ uw = wy * ux
    BY <2>2 DEF LexPositive
  <2>4. uw >= 0
    BY <1>2, <2>3, SignOfFactor
  <2>5. uv > 0 => uw > 0
    <3>1. uv > 0 => ux > 0
      BY <2>1, SignOfFactor
    <3> QED
      BY <2>3, <3>1, SignOfFactor
  <2>6. ~ (vw > 0)
    BY <2>1, <2>2
  <2> QED
    BY <2>4, <2>5, <2>6
<1> QED
  BY <1>2, <1>4, <1>5

(* Points as the proofs see them: pairs of integers.                          *)
Points == Int \X Int
(* The order of the chain: ascending for s = 1, descending for s = -1.        *)
Less(s, a, b) == LexPositive(s * (b[1] - a[1]), s * (b[2] - a[2]))

(* The cross product is cyclic, changes its sign with the order of its        *)
(* arguments, and may be taken from the second point.                         *)
LEMMA CrossFacts ==
  ASSUME NEW o \in Points, NEW a \in Points, NEW b \in Points
  PROVE  /\ Cross(o, a, b) \in Int
         /\ Cross(o, a, b) = (a[1] - o[1]) * (b[2] - a[2]) - (a[2] - o[2]) * (b[1] - a[1])
         /\ Cross(o, a, b) = Cross(a, b, o)
         /\ Cross(o, a, b) = - Cross(a, o, b)
<1> DEFINE ox == o[1]  oy == o[2]  ax == a[1]  ay == a[2]  bx == b[1]  by == b[2]
<1>1. ox \in Int /\ oy \in Int /\ ax \in Int /\ ay \in Int /\ bx \in Int /\ by \in Int
  BY DEF Points
<1> HIDE DEF ox, oy, ax, ay, bx, by
<1>2. Cross(o, a, b) = (ax - ox) * (by - oy) - (ay - oy) * (bx - ox)
  BY DEF Cross, ox, oy, ax, ay, bx, by
<1>3. Cross(a, b, o) = (bx - ax) * (oy - ay) - (by - ay) * (ox - ax)
  BY DEF Cross, ox, oy, ax, ay, bx, by
<1>4. Cross(a, o, b) = (ox - ax) * (by - ay) - (oy - ay) * (bx - ax)
  BY DEF Cross, ox, oy, ax, ay, bx, by
<1>5. (ax - ox) * (by - oy) - (ay - oy) * (bx - ox) = (ax - ox) * (by - ay) - (ay - oy) * (bx - ax)
  BY <1>1
<1>6. (ax - ox) * (by - oy) - (ay - oy) * (bx - ox) = (bx - ax) * (oy - ay) - (by - ay) * (ox - ax)
  BY <1>1
<1>7. (ax - ox) * (by - oy) - (ay - oy) * (bx - ox) = - ((ox - ax) * (by - ay) - (oy - ay) * (bx - ax))
  BY <1>1
<1>8. Cross(o, a, b) \in Int
  BY <1>1, <1>2
<1> QED
  BY <1>2, <1>3, <1>4, <1>5, <1>6, <1>7, <1>8 DEF ox, oy, ax, ay, bx, by

(* The lower chain runs through the points in order, the upper in reverse.    *)
Sides == {1, -1}

(* Slopes are ordered for both directions of the chain.                       *)
LEMMA SlopesSigned ==
  ASSUME NEW s \in Sides,
         NEW ux \in Int, NEW uy \in Int, NEW vx \in Int, NEW vy \in Int,
         NEW wx \in Int, NEW wy \in Int,
         LexPositive(s * ux, s * uy), LexPositive(s * vx, s * vy), LexPositive(s * wx, s * wy),
         ux * vy - uy * vx >= 0, vx * wy - vy * wx >= 0
  PROVE  /\ ux * wy - uy * wx >= 0
         /\ ux * vy - uy * vx > 0 => ux * wy - uy * wx > 0
         /\ vx * wy - vy * wx > 0 => ux * wy - uy * wx > 0
<1>1. CASE s = 1
  <2>1. \A x \in Int : s * x = x
    BY <1>1
  <2>2. LexPositive(ux, uy) /\ LexPositive(vx, vy) /\ LexPositive(wx, wy)
    BY <2>1
  <2> QED
    BY <2>2, SlopesTransitive
<1>2. CASE s = -1
  <2>1. \A x \in Int : s * x = -x /\ -x \in Int
    BY <1>2
  <2>2. LexPositive(-ux, -uy) /\ LexPositive(-vx, -vy) /\ LexPositive(-wx, -wy)
    BY <2>1
  <2>3. /\ (-ux) * (-vy) - (-uy) * (-vx) = ux * vy - uy * vx
        /\ (-vx) * (-wy) - (-vy) * (-wx) = vx * wy - vy * wx
        /\ (-ux) * (-wy) - (-uy) * (-wx) = ux * wy - uy * wx
    BY SMT
  <2>4. /\ (-ux) * (-vy) - (-uy) * (-vx) >= 0
        /\ (-vx) * (-wy) - (-vy) * (-wx) >= 0
    BY <2>3
  <2>5. /\ (-ux) * (-wy) - (-uy) * (-wx) >= 0
        /\ (-ux) * (-vy) - (-uy) * (-vx) > 0 => (-ux) * (-wy) - (-uy) * (-wx) > 0
        /\ (-vx) * (-wy) - (-vy) * (-wx) > 0 => (-ux) * (-wy) - (-uy) * (-wx) > 0
    BY <2>1, <2>2, <2>4, SlopesTransitive
  <2> QED
    BY <2>3, <2>5
<1> QED
  BY <1>1, <1>2 DEF Sides

(* A left turn at the end of a chain is a left turn further back.             *)
LEMMA TurnsReachBack ==
  ASSUME NEW s \in Sides,
         NEW a \in Points, NEW b \in Points, NEW c \in Points, NEW p \in Points,
         Less(s, a, b), Less(s, b, c), Less(s, c, p),
         Cross(a, b, c) > 0, Cross(b, c, p) > 0
  PROVE  Cross(a, b, p) > 0
<1> DEFINE ux == b[1] - a[1]  uy == b[2] - a[2]
           vx == c[1] - b[1]  vy == c[2] - b[2]
           wx == p[1] - c[1]  wy == p[2] - c[2]
<1>1. ux \in Int /\ uy \in Int /\ vx \in Int /\ vy \in Int /\ wx \in Int /\ wy \in Int
  BY DEF Points
<1>2. Cross(a, b, c) = ux * vy - uy * vx /\ Cross(b, c, p) = vx * wy - vy * wx
  BY CrossFacts
<1>3. Cross(a, b, p) = ux * (p[2] - b[2]) - uy * (p[1] - b[1])
  BY CrossFacts
<1>4. p[2] - b[2] = vy + wy /\ p[1] - b[1] = vx + wx
  BY DEF Points
<1>5. LexPositive(s * ux, s * uy) /\ LexPositive(s * vx, s * vy) /\ LexPositive(s * wx, s * wy)
  BY DEF Less
<1> HIDE DEF ux, uy, vx, vy, wx, wy
<1>6. ux * wy - uy * wx > 0
  BY <1>1, <1>2, <1>5, SlopesSigned
<1>7. ux * (vy + wy) - uy * (vx + wx) = (ux * vy - uy * vx) + (ux * wy - uy * wx)
  BY <1>1
<1> QED
  BY <1>1, <1>2, <1>3, <1>4, <1>6, <1>7

(* What is left of the last edge z, a that stays is left of the new edge.     *)
LEMMA LeftOfNewEdge ==
  ASSUME NEW s \in Sides,
         NEW z \in Points, NEW a \in Points, NEW p \in Points, NEW x \in Points,
         Less(s, z, a), Less(s, a, p), Less(s, x, a),
         Cross(z, a, p) > 0, Cross(z, a, x) >= 0
  PROVE  Cross(a, p, x) >= 0
<1> DEFINE ux == a[1] - z[1]  uy == a[2] - z[2]
           wx == p[1] - a[1]  wy == p[2] - a[2]
           yx == a[1] - x[1]  yy == a[2] - x[2]
<1>1. ux \in Int /\ uy \in Int /\ wx \in Int /\ wy \in Int /\ yx \in Int /\ yy \in Int
  BY DEF Points
<1>2. Cross(z, a, p) = ux * wy - uy * wx
  BY CrossFacts
<1>3. Cross(z, a, x) = ux * (x[2] - a[2]) - uy * (x[1] - a[1])
  BY CrossFacts
<1>4. Cross(a, p, x) = (p[1] - a[1]) * (x[2] - a[2]) - (p[2] - a[2]) * (x[1] - a[1])
  BY DEF Cross
<1>5. x[2] - a[2] = - yy /\ x[1] - a[1] = - yx
  BY DEF Points
<1>6. LexPositive(s * ux, s * uy) /\ LexPositive(s * wx, s * wy) /\ LexPositive(s * yx, s * yy)
  BY DEF Less
<1>7. Cross(a, p, x) = wx * (x[2] - a[2]) - wy * (x[1] - a[1])
  BY <1>4
<1> HIDE DEF ux, uy, wx, wy, yx, yy
<1>8. Cross(z, a, x) = yx * uy - yy * ux /\ Cross(a, p, x) = yx * wy - yy * wx
  BY <1>1, <1>3, <1>5, <1>7
<1>9. yx * uy - yy * ux >= 0 /\ ux * wy - uy * wx >= 0
  BY <1>1, <1>2, <1>8
<1>10. yx * wy - yy * wx >= 0
  BY <1>1, <1>6, <1>9, SlopesSigned
<1> QED
  BY <1>8, <1>10

(* What is left of the first edge a, c that goes is left of the new edge.     *)
LEMMA LeftOfDropped ==
  ASSUME NEW s \in Sides,
         NEW a \in Points, NEW c \in Points, NEW p \in Points, NEW x \in Points,
         Less(s, a, c), Less(s, a, p), Less(s, a, x),
         Cross(a, c, p) <= 0, Cross(a, c, x) >= 0
  PROVE  Cross(a, p, x) >= 0
<1> DEFINE ux == c[1] - a[1]  uy == c[2] - a[2]
           wx == p[1] - a[1]  wy == p[2] - a[2]
           yx == x[1] - a[1]  yy == x[2] - a[2]
<1>1. ux \in Int /\ uy \in Int /\ wx \in Int /\ wy \in Int /\ yx \in Int /\ yy \in Int
  BY DEF Points
<1>2. /\ Cross(a, c, p) = ux * wy - uy * wx
      /\ Cross(a, c, x) = ux * yy - uy * yx
      /\ Cross(a, p, x) = wx * yy - wy * yx
  BY DEF Cross
<1>3. LexPositive(s * ux, s * uy) /\ LexPositive(s * wx, s * wy) /\ LexPositive(s * yx, s * yy)
  BY DEF Less
<1> HIDE DEF ux, uy, wx, wy, yx, yy
<1>4. wx * uy - wy * ux >= 0
  BY <1>1, <1>2
<1>5. wx * yy - wy * yx >= 0
  BY <1>1, <1>2, <1>3, <1>4, SlopesSigned
<1> QED
  BY <1>2, <1>5

------------------------------------------------------------------------------
(* The monotone chain wraps the points it has seen.                           *)

(* A nonempty set of integers in an interval has a greatest element.          *)
LEMMA Greatest ==
  ASSUME NEW n \in Nat, NEW T, T \subseteq 0..n, T # {}
  PROVE  \E m \in T : \A k \in T : k <= m
<1> DEFINE U == {n - k : k \in T}
<1>0. \A k \in T : k \in 0..n /\ n - k \in Nat
  <2>1. \A k \in T : k \in 0..n
    OBVIOUS
  <2> QED
    BY <2>1
<1>1. U \subseteq Nat /\ U # {}
  BY <1>0
<1>2. PICK u \in U : \A v \in U : u <= v
  <2> HIDE DEF U
  <2> QED
    BY <1>1, Least
<1>3. PICK m \in T : u = n - m
  BY <1>2
<1>4. ASSUME NEW k \in T PROVE k <= m
  <2>1. u <= n - k /\ k \in 0..n /\ m \in 0..n
    BY <1>2
  <2> QED
    BY <1>3, <2>1
<1> QED
  BY <1>4

(* The order of the chain is total, strict and transitive.                    *)
LEMMA LessOrders ==
  ASSUME NEW s \in Sides, NEW a \in Points, NEW b \in Points
  PROVE  /\ a = b \/ Less(s, a, b) \/ Less(s, b, a)
         /\ ~ (Less(s, a, b) /\ Less(s, b, a))
         /\ Less(s, a, b) => a # b
         /\ Less(1, a, b) <=> Before(a, b)
         /\ Less(-1, a, b) <=> Before(b, a)
<1>1. /\ a[1] \in Int /\ a[2] \in Int /\ b[1] \in Int /\ b[2] \in Int
      /\ a = <<a[1], a[2]>> /\ b = <<b[1], b[2]>>
  BY DEF Points
<1>2. \A x \in Int : 1 * x = x /\ (-1) * x = -x
  OBVIOUS
<1>3. s = 1 \/ s = -1
  BY DEF Sides
<1>4. a[1] = b[1] /\ a[2] = b[2] => a = b
  BY <1>1
<1> QED
  BY <1>1, <1>2, <1>3, <1>4 DEF Less, LexPositive, Before

(* Push keeps a prefix of the chain that ends where the new point makes a     *)
(* left turn, or its first point alone, and has dropped every point after     *)
(* it.                                                                        *)
LEMMA PushKeeps ==
  ASSUME NEW c \in Seq(Points), NEW p \in Points
  PROVE  /\ Len(c) = 0 => Push(c, p) = <<p>>
         /\ Len(c) >= 1 =>
              \E keep \in 1..Len(c) :
                /\ Push(c, p) = Append(SubSeq(c, 1, keep), p)
                /\ keep >= 2 => Cross(c[keep - 1], c[keep], p) > 0
                /\ \A k \in (keep + 1)..Len(c) : ~ (Cross(c[k - 1], c[k], p) > 0)
<1> DEFINE turns == Turns(c, p)
           T == turns \cup {Smaller(Len(c), 1)}
           keep == CHOOSE k \in T : \A j \in turns : j <= k
<1>1. turns \subseteq 2..Len(c) /\ Len(c) \in Nat
  BY DEF Turns
<1>2. Smaller(Len(c), 1) \in Nat /\ Smaller(Len(c), 1) <= Len(c) /\ Smaller(Len(c), 1) <= 1
  BY DEF Smaller
<1>3. T \subseteq 0..Len(c) /\ T # {}
  BY <1>1, <1>2
<1>4. \E k \in T : \A j \in T : j <= k
  <2> HIDE DEF T
  <2> QED
    BY <1>1, <1>3, Greatest
<1>5. \E k \in T : \A j \in turns : j <= k
  BY <1>4
<1>6. keep \in T /\ \A j \in turns : j <= keep
  <2> HIDE DEF T, turns
  <2> QED
    BY <1>5
<1>7. Push(c, p) = Append(SubSeq(c, 1, keep), p)
  BY DEF Push
<1> HIDE DEF keep
<1>8. CASE Len(c) = 0
  <2>1. keep = 0
    BY <1>3, <1>6, <1>8
  <2>2. SubSeq(c, 1, 0) = <<>> /\ Append(<<>>, p) = <<p>>
    OBVIOUS
  <2>3. SubSeq(c, 1, keep) = <<>>
    BY <1>8, <2>1
  <2>4. Push(c, p) = <<p>>
    BY <1>7, <2>2, <2>3
  <2> QED
    BY <1>8, <2>4
<1>9. CASE Len(c) >= 1
  <2>1. Smaller(Len(c), 1) = 1
    BY <1>1, <1>9 DEF Smaller
  <2>2. keep \in 1..Len(c)
    BY <1>1, <1>6, <1>9, <2>1
  <2>3. keep >= 2 => keep \in turns
    BY <1>6, <2>1
  <2>4. keep >= 2 => Cross(c[keep - 1], c[keep], p) > 0
    BY <2>3 DEF Turns
  <2>5. ASSUME NEW k \in (keep + 1)..Len(c) PROVE ~ (Cross(c[k - 1], c[k], p) > 0)
    <3>1. k \in 2..Len(c) /\ ~ (k <= keep)
      BY <2>2
    <3>2. k \notin turns
      BY <1>6, <3>1
    <3> QED
      BY <3>1, <3>2 DEF Turns
  <2> QED
    BY <1>7, <1>9, <2>2, <2>4, <2>5
<1> QED
  BY <1>1, <1>8, <1>9

(* The chain c goes round the points Q on its side: its vertices are points   *)
(* of Q in order, from the first to the last, it turns left at each of them,  *)
(* and no point lies right of one of its edges.                               *)
Wraps(c, Q, s) ==
  /\ c \in Seq(Points) /\ Len(c) >= 1
  /\ \A k \in 1..Len(c) : c[k] \in Q
  /\ \A k \in 1..(Len(c) - 1) : Less(s, c[k], c[k + 1])
  /\ \A k \in 2..(Len(c) - 1) : Cross(c[k - 1], c[k], c[k + 1]) > 0
  /\ \A k \in 1..(Len(c) - 1) : \A x \in Q : Cross(c[k], c[k + 1], x) >= 0
  /\ \A x \in Q : x = c[1] \/ Less(s, c[1], x)
  /\ \A x \in Q : x = c[Len(c)] \/ Less(s, x, c[Len(c)])

(* The point p comes after all points of Q in the order of the chain.         *)
Ahead(p, Q, s) == Q \subseteq Points /\ \A x \in Q : Less(s, x, p)

(* A push keeps the chain wrapped around the points seen so far, the new one  *)
(* included (roi.rs 270-283).                                                 *)
LEMMA PushWraps ==
  ASSUME NEW s \in Sides, NEW Q, NEW c, NEW p \in Points,
         Wraps(c, Q, s), Ahead(p, Q, s)
  PROVE  /\ Wraps(Push(c, p), Q \cup {p}, s)
         /\ Push(c, p)[1] = c[1]
         /\ Push(c, p)[Len(Push(c, p))] = p
<1>0. Q \subseteq Points /\ \A x \in Q : Less(s, x, p)
  BY DEF Ahead
<1>1. c \in Seq(Points) /\ Len(c) \in Nat /\ Len(c) >= 1
  BY DEF Wraps
<1>2. PICK keep \in 1..Len(c) :
        /\ Push(c, p) = Append(SubSeq(c, 1, keep), p)
        /\ keep >= 2 => Cross(c[keep - 1], c[keep], p) > 0
        /\ \A k \in (keep + 1)..Len(c) : ~ (Cross(c[k - 1], c[k], p) > 0)
  BY <1>1, PushKeeps
<1> DEFINE d == Push(c, p)
<1>3. /\ d \in Seq(Points) /\ Len(d) = keep + 1
      /\ \A k \in 1..keep : d[k] = c[k]
      /\ d[keep + 1] = p
  BY <1>1, <1>2
<1> HIDE DEF d
<1>4. keep \in Nat /\ keep >= 1 /\ keep <= Len(c)
  BY <1>1
<1>5. \A k \in 1..Len(c) : c[k] \in Q /\ c[k] \in Points /\ Less(s, c[k], p)
  BY <1>0 DEF Wraps
<1>6. \A k \in 1..(keep - 1) : k \in 1..(Len(c) - 1) /\ k \in 1..Len(c) /\ k + 1 \in 1..Len(c)
                                /\ k \in 1..keep /\ k + 1 \in 1..keep
  BY <1>4
<1>7. \A k \in 1..Len(d) : d[k] \in Q \cup {p}
  BY <1>3, <1>4, <1>5
<1>8. ASSUME NEW k \in 1..(Len(d) - 1) PROVE Less(s, d[k], d[k + 1])
  <2>1. CASE k = keep
    BY <1>3, <1>4, <1>5, <2>1
  <2>2. CASE k # keep
    <3>1. k \in 1..(keep - 1)
      BY <1>3, <1>4, <2>2
    <3> QED
      BY <1>3, <1>6, <3>1 DEF Wraps
  <2> QED
    BY <2>1, <2>2
<1>9. ASSUME NEW k \in 2..(Len(d) - 1) PROVE Cross(d[k - 1], d[k], d[k + 1]) > 0
  <2>1. k - 1 \in 1..keep /\ k \in 1..keep /\ d[k - 1] = c[k - 1] /\ d[k] = c[k]
    BY <1>3, <1>4
  <2>2. CASE k = keep
    BY <1>2, <1>3, <2>1, <2>2
  <2>3. CASE k # keep
    <3>1. k + 1 \in 1..keep /\ k \in 2..(Len(c) - 1)
      BY <1>3, <1>4, <2>3
    <3> QED
      BY <1>3, <2>1, <3>1 DEF Wraps
  <2> QED
    BY <2>2, <2>3
<1>10. \A k \in 1..(keep - 1) : Cross(c[k], c[k + 1], p) > 0
  <2>1. CASE keep = 1
    BY <2>1
  <2>2. CASE keep >= 2
    <3> DEFINE n == keep - 2
               S == {i \in 0..n : Cross(c[keep - 1 - i], c[keep - i], p) > 0}
    <3>1. n \in Nat
      BY <1>4, <2>2
    <3>2. 0 \in S
      <4>1. keep - 1 - 0 = keep - 1 /\ keep - 0 = keep /\ 0 \in 0..n
        BY <1>4, <2>2
      <4> QED
        BY <1>2, <2>2, <4>1
    <3>3. ASSUME NEW i \in 1..n, i - 1 \in S PROVE i \in S
      <4> DEFINE k == keep - 1 - i
      <4>1. /\ keep - 1 - (i - 1) = k + 1 /\ keep - (i - 1) = k + 2 /\ keep - i = k + 1
            /\ k \in 1..(keep - 1) /\ k \in Nat
        BY <1>4
      <4> HIDE DEF k
      <4>2. Cross(c[k + 1], c[k + 2], p) > 0
        BY <3>3, <4>1
      <4>3. /\ k \in 1..Len(c) /\ k + 1 \in 1..Len(c) /\ k + 2 \in 1..Len(c)
            /\ k \in 1..(Len(c) - 1) /\ k + 1 \in 1..(Len(c) - 1) /\ k + 1 \in 2..(Len(c) - 1)
            /\ (k + 1) + 1 = k + 2 /\ (k + 1) - 1 = k
        <5>1. k + 2 <= keep
          BY <1>4 DEF k
        <5> QED
          BY <1>4, <4>1, <5>1
      <4>4. Cross(c[k], c[k + 1], c[k + 2]) > 0
        BY <4>3 DEF Wraps
      <4>5. Less(s, c[k], c[k + 1]) /\ Less(s, c[k + 1], c[k + 2]) /\ Less(s, c[k + 2], p)
        BY <1>5, <4>3 DEF Wraps
      <4>6. c[k] \in Points /\ c[k + 1] \in Points /\ c[k + 2] \in Points
        BY <1>5, <4>3
      <4>7. Cross(c[k], c[k + 1], p) > 0
        BY <4>2, <4>4, <4>5, <4>6, TurnsReachBack
      <4>8. i \in 0..n /\ keep - 1 - i = k
        BY DEF k
      <4> QED
        BY <4>1, <4>7, <4>8
    <3>4. \A i \in 0..n : i \in S
      <4> HIDE DEF S, n
      <4> QED
        BY <3>1, <3>2, <3>3, Induct
    <3>5. ASSUME NEW k \in 1..(keep - 1) PROVE Cross(c[k], c[k + 1], p) > 0
      <4>1. keep - 1 - k \in 0..n /\ keep - 1 - (keep - 1 - k) = k /\ keep - (keep - 1 - k) = k + 1
        BY <1>4
      <4>2. Cross(c[keep - 1 - (keep - 1 - k)], c[keep - (keep - 1 - k)], p) > 0
        BY <3>4, <4>1
      <4> QED
        BY <4>1, <4>2
    <3> QED
      BY <3>5
  <2> QED
    BY <1>4, <2>1, <2>2
<1> DEFINE a == c[keep]
<1>11. a \in Points /\ a \in Q /\ Less(s, a, p)
  BY <1>5
<1>12. ASSUME NEW x \in Q PROVE Cross(a, p, x) >= 0
  <2>0. x \in Points /\ p \in Points
    BY <1>0
  <2>1. CASE x = a
    <3>1. Cross(a, p, a) = 0
      <4>1. a[1] \in Int /\ a[2] \in Int /\ p[1] \in Int /\ p[2] \in Int
        BY <1>11 DEF Points
      <4> QED
        BY <4>1 DEF Cross
    <3> QED
      BY <2>1, <3>1
  <2>2. CASE Less(s, x, a)
    <3>1. keep # 1
      <4>1. keep = 1 => x = a \/ Less(s, a, x)
        BY DEF Wraps
      <4> QED
        BY <1>11, <2>0, <2>2, <4>1, LessOrders
    <3>2. keep - 1 \in 1..(keep - 1) /\ (keep - 1) + 1 = keep
      BY <1>4, <3>1
    <3>3. c[keep - 1] \in Points /\ Less(s, c[keep - 1], a)
      BY <1>5, <1>6, <3>2 DEF Wraps
    <3>4. Cross(c[keep - 1], a, p) > 0
      BY <1>10, <3>2
    <3>5. Cross(c[keep - 1], a, x) >= 0
      BY <1>6, <3>2 DEF Wraps
    <3> HIDE DEF a
    <3> QED
      BY <1>11, <2>0, <2>2, <3>3, <3>4, <3>5, LeftOfNewEdge
  <2>3. CASE Less(s, a, x)
    <3>1. keep # Len(c)
      <4>1. keep = Len(c) => x = a \/ Less(s, x, a)
        BY DEF Wraps
      <4> QED
        BY <1>11, <2>0, <2>3, <4>1, LessOrders
    <3>2. keep + 1 \in (keep + 1)..Len(c) /\ (keep + 1) - 1 = keep
          /\ keep \in 1..(Len(c) - 1) /\ keep + 1 \in 1..Len(c)
      BY <1>1, <1>4, <3>1
    <3>3. c[keep + 1] \in Points /\ Less(s, a, c[keep + 1]) /\ Cross(a, c[keep + 1], x) >= 0
      BY <1>5, <3>2 DEF Wraps
    <3>4. ~ (Cross(a, c[keep + 1], p) > 0)
      BY <1>2, <3>2
    <3> HIDE DEF a
    <3>5. Cross(a, c[keep + 1], p) \in Int
      BY <1>11, <3>3, CrossFacts
    <3>6. Cross(a, c[keep + 1], p) <= 0
      BY <3>4, <3>5
    <3> QED
      BY <1>11, <2>0, <2>3, <3>3, <3>6, LeftOfDropped
  <2> QED
    BY <1>11, <2>0, <2>1, <2>2, <2>3, LessOrders
<1>13. Cross(a, p, p) = 0
  <2>1. a[1] \in Int /\ a[2] \in Int /\ p[1] \in Int /\ p[2] \in Int
    BY <1>11 DEF Points
  <2> QED
    BY <2>1 DEF Cross
<1>14. ASSUME NEW k \in 1..(Len(d) - 1), NEW x \in Q \cup {p}
       PROVE  Cross(d[k], d[k + 1], x) >= 0
  <2>1. CASE k = keep
    <3>1. d[k] = a /\ d[k + 1] = p
      BY <1>3, <1>4, <2>1
    <3> QED
      BY <1>12, <1>13, <3>1
  <2>2. CASE k # keep
    <3>1. k \in 1..(keep - 1)
      BY <1>3, <1>4, <2>2
    <3>2. d[k] = c[k] /\ d[k + 1] = c[k + 1]
      BY <1>3, <1>6, <3>1
    <3>3. x \in Q => Cross(c[k], c[k + 1], x) >= 0
      BY <1>6, <3>1 DEF Wraps
    <3>4. Cross(c[k], c[k + 1], p) > 0 /\ Cross(c[k], c[k + 1], p) \in Int
      BY <1>5, <1>6, <1>10, <3>1, CrossFacts
    <3> QED
      BY <3>2, <3>3, <3>4
  <2> QED
    BY <2>1, <2>2
<1>15. d[1] = c[1] /\ d[Len(d)] = p
  BY <1>3, <1>4
<1>16. \A x \in Q \cup {p} : x = d[1] \/ Less(s, d[1], x)
  <2>1. 1 \in 1..Len(c)
    BY <1>1
  <2> QED
    BY <1>5, <1>15, <2>1 DEF Wraps
<1>17. \A x \in Q \cup {p} : x = d[Len(d)] \/ Less(s, x, d[Len(d)])
  BY <1>0, <1>15
<1>18. Len(d) >= 1
  BY <1>3, <1>4
<1> QED
  BY <1>3, <1>7, <1>8, <1>9, <1>14, <1>15, <1>16, <1>17, <1>18 DEF Wraps, d

(* Chain is the last of the chains that the pushes build.                     *)
LEMMA ChainIs ==
  ASSUME NEW q \in Seq(Points)
  PROVE  \E k \in [0..Len(q) -> Seq(Points)] :
           /\ k[0] = <<>>
           /\ \A i \in 1..Len(q) : k[i] = Push(k[i - 1], q[i])
           /\ Chain(q) = k[Len(q)]
<1> DEFINE n == Len(q)
           V == Seq(Points)
           F == [i \in 1..n |-> [v \in V |-> Push(v, q[i])]]
           Is(k) == k = [i \in 0..n |-> IF i = 0 THEN <<>> ELSE Push(k[i - 1], q[i])]
           K == CHOOSE k : Is(k)
<1>1. n \in Nat /\ <<>> \in V /\ \A i \in 1..n : q[i] \in Points
  OBVIOUS
<1>2. ASSUME NEW v \in V, NEW x \in Points PROVE Push(v, x) \in V
  <2>1. CASE Len(v) = 0
    <3>1. Push(v, x) = <<x>>
      BY <2>1, PushKeeps
    <3> QED
      BY <3>1
  <2>2. CASE Len(v) >= 1
    <3>1. PICK j \in 1..Len(v) : Push(v, x) = Append(SubSeq(v, 1, j), x)
      BY <2>2, PushKeeps
    <3> QED
      BY <3>1
  <2>3. Len(v) \in Nat
    OBVIOUS
  <2> QED
    BY <2>1, <2>2, <2>3
<1>3. F \in [1..n -> [V -> V]]
  <2> HIDE DEF V, n
  <2> QED
    BY <1>1, <1>2
<1>4. PICK g : Computes(g, n, V, <<>>, F)
  <2> HIDE DEF F, n, V
  <2> QED
    BY <1>1, <1>3, Recursion
<1>5. ASSUME NEW i \in 1..n PROVE g[i] = Push(g[i - 1], q[i])
  <2> HIDE DEF V
  <2>1. i - 1 \in 0..n /\ g[i - 1] \in V /\ g[i] = F[i][g[i - 1]]
    <3> HIDE DEF F
    <3> QED
      BY <1>1, <1>4 DEF Computes
  <2> QED
    BY <2>1
<1>6. Is(g)
  <2> HIDE DEF V
  <2>1. g[0] = <<>> /\ g = [i \in 0..n |-> g[i]]
    BY <1>1, <1>4 DEF Computes
  <2>2. \A i \in 0..n : i # 0 => i \in 1..n
    OBVIOUS
  <2> QED
    BY <1>5, <2>1, <2>2
<1>7. Is(K)
  <2> HIDE DEF Is
  <2> QED
    BY <1>6
<1>8. Chain(q) = K[n]
  BY DEF Chain
<1> HIDE DEF K
<1>9. K[0] = <<>> /\ \A i \in 1..n : K[i] = Push(K[i - 1], q[i])
  <2> HIDE DEF n
  <2>1. 0 \in 0..n /\ \A i \in 1..n : i \in 0..n /\ i # 0
    BY <1>1
  <2> QED
    BY <1>7, <2>1
<1> DEFINE T == {j \in 0..n : K[j] \in V}
<1>10. 0 \in T /\ \A i \in 1..n : i - 1 \in T => i \in T
  <2>1. \A i \in 1..n : i \in 0..n /\ 0 \in 0..n
    OBVIOUS
  <2> HIDE DEF n, V
  <2> QED
    BY <1>1, <1>2, <1>9, <2>1
<1>11. \A i \in 0..n : i \in T
  <2> HIDE DEF T, n
  <2> QED
    BY <1>1, <1>10, Induct
<1>12. K \in [0..n -> V]
  BY <1>7, <1>11
<1> QED
  <2> HIDE DEF Is
  <2> QED
    BY <1>8, <1>9, <1>12

(* The chain of an ordered sequence wraps all its points and runs from the    *)
(* first to the last.                                                         *)
LEMMA ChainWraps ==
  ASSUME NEW s \in Sides, NEW q \in Seq(Points), Len(q) >= 1,
         \A i, j \in 1..Len(q) : i < j => Less(s, q[i], q[j])
  PROVE  /\ Wraps(Chain(q), Range(q), s)
         /\ Chain(q)[1] = q[1]
         /\ Chain(q)[Len(Chain(q))] = q[Len(q)]
<1> DEFINE n == Len(q)
           Seen(i) == {q[j] : j \in 1..i}
<1>1. PICK k \in [0..n -> Seq(Points)] :
        k[0] = <<>> /\ (\A i \in 1..n : k[i] = Push(k[i - 1], q[i])) /\ Chain(q) = k[n]
  BY ChainIs
<1>2. n \in Nat /\ n >= 1 /\ \A i \in 1..n : q[i] \in Points
  OBVIOUS
<1> DEFINE Good(i) == Wraps(k[i], Seen(i), s) /\ k[i][1] = q[1] /\ k[i][Len(k[i])] = q[i]
           S == {i \in 0..n : i = 0 \/ Good(i)}
<1> HIDE DEF n
<1>3. 0 \in S
  BY <1>2
<1>4. ASSUME NEW i \in 1..n, i - 1 \in S PROVE i \in S
  <2>1. k[i] = Push(k[i - 1], q[i])
    BY <1>1
  <2>2. CASE i = 1
    <3>1. k[1] = <<q[1]>>
      <4>1. k[0] \in Seq(Points) /\ Len(k[0]) = 0 /\ q[1] \in Points /\ i - 1 = 0
        BY <1>1, <1>2, <2>2
      <4>2. Push(k[0], q[1]) = <<q[1]>>
        BY <4>1, PushKeeps
      <4> QED
        BY <2>1, <2>2, <4>1, <4>2
    <3>2. Seen(1) = {q[1]} /\ q[1] \in Points
      BY <1>2
    <3>3. Wraps(<<q[1]>>, {q[1]}, s)
      BY <3>2 DEF Wraps
    <3>4. k[1][1] = q[1] /\ k[1][Len(k[1])] = q[1]
      BY <3>1
    <3>5. Wraps(k[1], Seen(1), s)
      BY <3>1, <3>2, <3>3
    <3>6. Good(1)
      <4> HIDE DEF Seen
      <4> QED
        BY <3>4, <3>5
    <3> QED
      BY <2>2, <3>6
  <2>3. CASE i # 1
    <3>1. i - 1 \in 1..n /\ i - 1 # 0 /\ Good(i - 1)
      BY <1>2, <1>4, <2>3
    <3>2. Seen(i - 1) \subseteq Points
      BY <1>2, <3>1
    <3>3. \A x \in Seen(i - 1) : Less(s, x, q[i])
      <4>1. \A j \in 1..(i - 1) : j \in 1..n /\ j < i
        BY <1>2
      <4> QED
        BY <4>1 DEF n
    <3>4. q[i] \in Points
      BY <1>2
    <3>5. Seen(i) = Seen(i - 1) \cup {q[i]}
      <4>1. 1..i = 1..(i - 1) \cup {i}
        BY <1>2
      <4> QED
        BY <4>1
    <3>6. /\ Wraps(Push(k[i - 1], q[i]), Seen(i - 1) \cup {q[i]}, s)
          /\ Push(k[i - 1], q[i])[1] = k[i - 1][1]
          /\ Push(k[i - 1], q[i])[Len(Push(k[i - 1], q[i]))] = q[i]
      <4>1. Wraps(k[i - 1], Seen(i - 1), s)
        BY <3>1
      <4>2. PICK c, Q, p : c = k[i - 1] /\ Q = Seen(i - 1) /\ p = q[i]
        OBVIOUS
      <4> HIDE DEF Seen, Good, S
      <4>3. p \in Points /\ Wraps(c, Q, s) /\ Ahead(p, Q, s)
        BY <3>2, <3>3, <3>4, <4>1, <4>2 DEF Ahead
      <4>4. /\ Wraps(Push(c, p), Q \cup {p}, s) /\ Push(c, p)[1] = c[1]
            /\ Push(c, p)[Len(Push(c, p))] = p
        BY <4>3, PushWraps
      <4> QED
        BY <4>2, <4>4
    <3>7. Good(i)
      <4> HIDE DEF Seen
      <4> QED
        BY <2>1, <3>1, <3>5, <3>6
    <3> QED
      BY <3>7
  <2> QED
    BY <2>2, <2>3
<1>5. \A i \in 0..n : i \in S
  <2> HIDE DEF S
  <2> QED
    BY <1>2, <1>3, <1>4, Induct
<1>6. Good(n)
  <2>1. n \in 0..n /\ n # 0
    BY <1>2
  <2> HIDE DEF Good
  <2> QED
    BY <1>5, <2>1
<1>7. Seen(n) = Range(q)
  BY DEF Range, n
<1> QED
  BY <1>1, <1>6, <1>7 DEF n

(* An enumeration of a finite set lists each element once.                    *)
LEMMA EnumIs ==
  ASSUME NEW S, IsFiniteSet(S), NEW q \in SetToSeqs(S)
  PROVE  /\ q \in Seq(S) /\ Len(q) = Cardinality(S) /\ Range(q) = S
         /\ DOMAIN q = 1..Cardinality(S)
         /\ \A i, j \in DOMAIN q : i # j => q[i] # q[j]
<1> DEFINE n == Cardinality(S)
<1>1. n \in Nat
  BY FS_CardinalityType
<1>2. q \in [1..n -> S] /\ \A i, j \in 1..n : i # j => q[i] # q[j]
  BY DEF SetToSeqs
<1>3. q \in Injection(1..n, S)
  BY <1>2 DEF Injection, IsInjective
<1>4. Cardinality(1..n) = n
  <2> HIDE DEF n
  <2> QED
    BY <1>1, FS_Interval
<1>5. q \in Surjection(1..n, S)
  BY <1>3, <1>4, FS_Injection
<1>6. Range(q) = S
  BY <1>2, <1>5 DEF Surjection, Range
<1> QED
  BY <1>1, <1>2, <1>6

------------------------------------------------------------------------------
(* The hull.                                                                  *)

(* Every nonempty finite set of points has a last one, so it can be sorted.   *)
LEMMA LastPoint ==
  ASSUME NEW P, IsFiniteSet(P), P \subseteq Points, P # {}
  PROVE  \E x \in P : \A y \in P : y = x \/ Less(1, y, x)
<1> DEFINE n == Cardinality(P)
           IsLast(x, T) == x \in T /\ \A y \in T : y = x \/ Less(1, y, x)
           S == {i \in 0..n : \A T \in SUBSET P : Cardinality(T) = i /\ T # {} => \E x : IsLast(x, T)}
<1>1. n \in Nat
  BY FS_CardinalityType
<1> HIDE DEF n
<1>2. \A T \in SUBSET P : IsFiniteSet(T) /\ Cardinality(T) \in Nat
  BY FS_Subset, FS_CardinalityType
<1>3. 0 \in S
  <2>1. \A T \in SUBSET P : Cardinality(T) = 0 => T = {}
    BY <1>2, FS_EmptySet
  <2> QED
    BY <1>1, <2>1
<1>4. ASSUME NEW i \in 1..n, i - 1 \in S PROVE i \in S
  <2>1. ASSUME NEW T \in SUBSET P, Cardinality(T) = i, T # {} PROVE \E x : IsLast(x, T)
    <3>1. PICK t : t \in T
      BY <2>1
    <3> DEFINE U == T \ {t}
    <3>2. U \in SUBSET P /\ Cardinality(U) = i - 1
      <4>1. IsFiniteSet(T)
        BY <1>2
      <4> QED
        BY <2>1, <3>1, <4>1, FS_RemoveElement
    <3>3. T = U \cup {t} /\ t \in Points
      BY <3>1
    <3>4. CASE U = {}
      <4>1. IsLast(t, T)
        BY <3>3, <3>4
      <4> QED
        BY <4>1
    <3>5. CASE U # {}
      <4>1. PICK x : IsLast(x, U)
        <5> HIDE DEF U, IsLast
        <5> QED
          BY <1>4, <3>2, <3>5
      <4>2. x \in Points /\ x \in U
        BY <4>1
      <4>3. t = x \/ Less(1, t, x) \/ Less(1, x, t)
        <5>1. 1 \in Sides
          BY DEF Sides
        <5> QED
          BY <3>3, <4>2, <5>1, LessOrders
      <4>4. CASE t = x \/ Less(1, t, x)
        <5>1. IsLast(x, T)
          BY <3>3, <4>1, <4>4
        <5> QED
          BY <5>1
      <4>5. CASE Less(1, x, t)
        <5>1. ASSUME NEW y \in U PROVE Less(1, y, t)
          <6>1. y = x \/ Less(1, y, x)
            BY <4>1
          <6>2. CASE y = x
            BY <4>5, <6>2
          <6>3. CASE Less(1, y, x)
            <7>1. y \in Points
              BY <3>2
            <7>2. /\ y[1] \in Int /\ y[2] \in Int /\ x[1] \in Int /\ x[2] \in Int
                  /\ t[1] \in Int /\ t[2] \in Int
              BY <3>3, <4>2, <7>1 DEF Points
            <7>3. \A z \in Int : 1 * z = z
              OBVIOUS
            <7> QED
              BY <4>5, <6>3, <7>2, <7>3 DEF Less, LexPositive
          <6> QED
            BY <6>1, <6>2, <6>3
        <5>2. IsLast(t, T)
          BY <3>3, <5>1
        <5> QED
          BY <5>2
      <4> QED
        BY <4>3, <4>4, <4>5
    <3> QED
      BY <3>4, <3>5
  <2> QED
    BY <1>1, <2>1
<1>5. \A i \in 0..n : i \in S
  <2> HIDE DEF S
  <2> QED
    BY <1>1, <1>3, <1>4, Induct
<1>6. \E x : IsLast(x, P)
  <2>1. n \in 0..n /\ P \in SUBSET P /\ Cardinality(P) = n
    BY <1>1 DEF n
  <2> HIDE DEF IsLast
  <2> QED
    BY <1>5, <2>1
<1> QED
  BY <1>6

(* Sorted lists the points in ascending order (roi.rs 260-266).               *)
LEMMA SortedIs ==
  ASSUME NEW P, IsFiniteSet(P), P \subseteq Points
  PROVE  /\ Sorted(P) \in Seq(P) /\ Len(Sorted(P)) = Cardinality(P) /\ Range(Sorted(P)) = P
         /\ \A i, j \in 1..Cardinality(P) : i < j => Less(1, Sorted(P)[i], Sorted(P)[j])
<1> DEFINE n == Cardinality(P)
           Orders(q, m) == \A i, j \in 1..m : i < j => Less(1, q[i], q[j])
           Sorts(q, T) == q \in [1..Cardinality(T) -> T] /\ Orders(q, Cardinality(T))
           S == {i \in 0..n : \A T \in SUBSET P : Cardinality(T) = i => \E q : Sorts(q, T)}
<1>1. n \in Nat
  BY FS_CardinalityType
<1> HIDE DEF n
<1>2. \A T \in SUBSET P : IsFiniteSet(T) /\ Cardinality(T) \in Nat
  BY FS_Subset, FS_CardinalityType
<1>3. 0 \in S
  <2>1. ASSUME NEW T \in SUBSET P, Cardinality(T) = 0 PROVE \E q : Sorts(q, T)
    <3>1. Sorts([i \in 1..0 |-> i], T)
      BY <2>1
    <3> QED
      BY <3>1
  <2> QED
    BY <1>1, <2>1
<1>4. ASSUME NEW i \in 1..n, i - 1 \in S PROVE i \in S
  <2>1. ASSUME NEW T \in SUBSET P, Cardinality(T) = i PROVE \E q : Sorts(q, T)
    <3>1. T # {} /\ IsFiniteSet(T) /\ T \subseteq Points
      BY <1>2, <2>1, FS_EmptySet
    <3>2. PICK x \in T : \A y \in T : y = x \/ Less(1, y, x)
      BY <3>1, LastPoint
    <3> DEFINE U == T \ {x}
    <3>3. U \in SUBSET P /\ Cardinality(U) = i - 1
      BY <2>1, <3>1, FS_RemoveElement
    <3>4. PICK q : Sorts(q, U)
      <4> HIDE DEF U, Sorts
      <4> QED
        BY <1>4, <3>3
    <3>5. q \in [1..(i - 1) -> U] /\ Orders(q, i - 1)
      <4> HIDE DEF U, Orders
      <4> QED
        BY <3>3, <3>4
    <3> DEFINE r == [j \in 1..i |-> IF j = i THEN x ELSE q[j]]
    <3>6. \A j \in 1..i : j # i => j \in 1..(i - 1) /\ q[j] \in U /\ q[j] \in T /\ Less(1, q[j], x)
      BY <3>2, <3>5
    <3>7. r \in [1..i -> T]
      BY <3>2, <3>6
    <3>8. Orders(r, i)
      <4>1. ASSUME NEW j \in 1..i, NEW k \in 1..i, j < k PROVE Less(1, r[j], r[k])
        <5>1. j # i /\ j \in 1..(i - 1)
          BY <4>1
        <5>2. CASE k = i
          BY <3>6, <5>1, <5>2
        <5>3. CASE k # i
          <6>1. k \in 1..(i - 1)
            BY <5>3
          <6> QED
            BY <3>5, <4>1, <5>1, <5>3, <6>1
        <5> QED
          BY <5>2, <5>3
      <4> HIDE DEF r
      <4> QED
        BY <4>1
    <3>9. Sorts(r, T)
      <4> HIDE DEF r, Orders
      <4> QED
        BY <2>1, <3>7, <3>8
    <3> QED
      BY <3>9
  <2> QED
    BY <1>1, <2>1
<1>5. \A i \in 0..n : i \in S
  <2> HIDE DEF S
  <2> QED
    BY <1>1, <1>3, <1>4, Induct
<1>6. PICK q : Sorts(q, P)
  <2>1. n \in 0..n /\ P \in SUBSET P /\ Cardinality(P) = n
    BY <1>1 DEF n
  <2> HIDE DEF Sorts
  <2> QED
    BY <1>5, <2>1
<1>7. q \in [1..n -> P] /\ Orders(q, n)
  BY <1>6 DEF n
<1> HIDE DEF S, Sorts
<1>8. 1 \in Sides
  BY DEF Sides
<1>9. \A i, j \in 1..n : q[i] \in Points /\ q[j] \in Points
  BY <1>7
<1>10. ASSUME NEW i \in 1..n, NEW j \in 1..n, i # j PROVE q[i] # q[j]
  <2>1. i < j \/ j < i
    BY <1>10
  <2>2. Less(1, q[i], q[j]) \/ Less(1, q[j], q[i])
    BY <1>7, <2>1
  <2> QED
    BY <1>8, <1>9, <2>2, LessOrders
<1>11. q \in SetToSeqs(P)
  <2> HIDE DEF Orders
  <2> QED
    BY <1>7, <1>10 DEF SetToSeqs, n
<1>12. \A i, j \in DOMAIN q : i < j => Before(q[i], q[j])
  <2>1. ASSUME NEW i \in 1..n, NEW j \in 1..n, i < j PROVE Before(q[i], q[j])
    <3>1. Less(1, q[i], q[j])
      BY <1>7, <2>1
    <3> QED
      BY <1>8, <1>9, <3>1, LessOrders
  <2> QED
    BY <1>7, <2>1
<1>13. /\ Sorted(P) \in SetToSeqs(P)
       /\ \A i, j \in DOMAIN Sorted(P) : i < j => Before(Sorted(P)[i], Sorted(P)[j])
  BY <1>11, <1>12 DEF Sorted
<1>14. /\ Sorted(P) \in Seq(P) /\ Len(Sorted(P)) = Cardinality(P) /\ Range(Sorted(P)) = P
       /\ DOMAIN Sorted(P) = 1..Cardinality(P)
  BY <1>13, EnumIs
<1>15. ASSUME NEW i \in 1..Cardinality(P), NEW j \in 1..Cardinality(P), i < j
       PROVE  Less(1, Sorted(P)[i], Sorted(P)[j])
  <2>1. Before(Sorted(P)[i], Sorted(P)[j])
    BY <1>13, <1>14, <1>15
  <2>2. Sorted(P)[i] \in Points /\ Sorted(P)[j] \in Points
    BY <1>14
  <2> QED
    BY <1>8, <2>1, <2>2, LessOrders
<1> QED
  BY <1>14, <1>15

(* No point of P lies right of an edge of the ring, and no edge is a point.   *)
Surrounds(ring, P) ==
  /\ ring \in Seq(P) /\ Len(ring) >= 1
  /\ \A i \in 1..Len(ring) :
       /\ ring[i] # ring[After(i, ring)]
       /\ \A x \in P : Cross(ring[i], ring[After(i, ring)], x) >= 0

(* Every edge of a finished chain joins two points and has all points on its  *)
(* left.                                                                      *)
LEMMA ChainEdges ==
  ASSUME NEW s \in Sides, NEW P, P \subseteq Points, NEW c, Wraps(c, P, s),
         c[1] # c[Len(c)]
  PROVE  /\ c \in Seq(P) /\ Len(c) >= 2
         /\ \A i \in 1..(Len(c) - 1) :
              c[i] # c[i + 1] /\ \A x \in P : Cross(c[i], c[i + 1], x) >= 0
<1>1. c \in Seq(Points) /\ Len(c) \in Nat /\ Len(c) >= 1 /\ \A k \in 1..Len(c) : c[k] \in P
  BY DEF Wraps
<1>2. Len(c) # 1
  OBVIOUS
<1>3. c \in Seq(P)
  BY <1>1
<1>4. ASSUME NEW i \in 1..(Len(c) - 1) PROVE c[i] # c[i + 1]
  <2>1. c[i] \in Points /\ c[i + 1] \in Points
    <3>1. i \in 1..Len(c) /\ i + 1 \in 1..Len(c)
      BY <1>1
    <3> QED
      BY <1>1, <3>1
  <2>2. Less(s, c[i], c[i + 1])
    BY DEF Wraps
  <2> QED
    BY <2>1, <2>2, LessOrders
<1>5. \A i \in 1..(Len(c) - 1) : \A x \in P : Cross(c[i], c[i + 1], x) >= 0
  BY DEF Wraps
<1> QED
  BY <1>1, <1>2, <1>3, <1>4, <1>5

(* Hull runs through the points of a chain L from the first point to the last *)
(* one, and of a chain U back, each without its end (roi.rs 258-288).         *)
Ends(L, U) == L[1] = U[Len(U)] /\ U[1] = L[Len(L)] /\ L[1] # L[Len(L)]
LEMMA HullIs ==
  ASSUME NEW P, IsFiniteSet(P), P \subseteq Points, Cardinality(P) >= 3
  PROVE  \E L, U :
           /\ Wraps(L, P, 1) /\ Wraps(U, P, -1) /\ Ends(L, U)
           /\ Len(L) \in Nat /\ Len(U) \in Nat /\ Len(L) >= 2 /\ Len(U) >= 2
           /\ Hull(P) \in Seq(P) /\ Len(Hull(P)) = (Len(L) - 1) + (Len(U) - 1)
           /\ \A i \in 1..(Len(L) - 1) : Hull(P)[i] = L[i]
           /\ \A i \in 1..(Len(U) - 1) : Hull(P)[(Len(L) - 1) + i] = U[i]
<1> DEFINE q == Sorted(P)
           r == Reverse(q)
           n == Cardinality(P)
           L == Chain(q)
           U == Chain(r)
           ring == Front(L) \o Front(U)
<1>1. n \in Nat /\ n >= 3
  BY FS_CardinalityType
<1>2. /\ q \in Seq(P) /\ Len(q) = n /\ Range(q) = P
      /\ \A i, j \in 1..n : i < j => Less(1, q[i], q[j])
  BY SortedIs
<1> HIDE DEF q, n
<1>3. q \in Seq(Points) /\ \A i \in 1..n : q[i] \in Points
  BY <1>2
<1>4. 1 \in Sides /\ -1 \in Sides
  BY DEF Sides
<1>5. Wraps(L, P, 1) /\ L[1] = q[1] /\ L[Len(L)] = q[n]
  <2> HIDE DEF L
  <2>1. /\ Wraps(Chain(q), Range(q), 1) /\ Chain(q)[1] = q[1]
        /\ Chain(q)[Len(Chain(q))] = q[Len(q)]
    BY <1>1, <1>2, <1>3, <1>4, ChainWraps
  <2> QED
    BY <1>2, <2>1 DEF L
<1>6. /\ r \in Seq(Points) /\ Len(r) = n
      /\ \A i \in 1..n : r[i] = q[n - i + 1]
  BY <1>1, <1>2, <1>3 DEF Reverse
<1>7. Range(r) = P
  <2>1. \A i \in 1..n : n - i + 1 \in 1..n /\ n - (n - i + 1) + 1 = i
    BY <1>1
  <2>2. DOMAIN r = 1..n /\ DOMAIN q = 1..n
    BY <1>1, <1>2, <1>6
  <2> HIDE DEF r
  <2>3. \A i \in 1..n : r[n - i + 1] = q[i]
    BY <1>6, <2>1
  <2> QED
    BY <1>2, <1>6, <2>1, <2>2, <2>3 DEF Range
<1>8. ASSUME NEW i \in 1..n, NEW j \in 1..n, i < j PROVE Less(-1, r[i], r[j])
  <2>1. n - i + 1 \in 1..n /\ n - j + 1 \in 1..n /\ n - j + 1 < n - i + 1
    BY <1>1, <1>8
  <2>2. Less(1, q[n - j + 1], q[n - i + 1])
    BY <1>2, <2>1
  <2>3. Less(-1, q[n - i + 1], q[n - j + 1])
    BY <1>3, <1>4, <2>1, <2>2, LessOrders
  <2> QED
    BY <1>6, <2>3
<1>9. Wraps(U, P, -1) /\ U[1] = q[n] /\ U[Len(U)] = q[1]
  <2> HIDE DEF U, r
  <2>1. /\ Wraps(Chain(r), Range(r), -1) /\ Chain(r)[1] = r[1]
        /\ Chain(r)[Len(Chain(r))] = r[Len(r)]
    BY <1>1, <1>4, <1>6, <1>8, ChainWraps
  <2>2. r[1] = q[n] /\ r[n] = q[1]
    <3>1. 1 \in 1..n /\ n \in 1..n /\ n - 1 + 1 = n /\ n - n + 1 = 1
      BY <1>1
    <3> QED
      BY <1>6, <3>1
  <2> QED
    BY <1>6, <1>7, <2>1, <2>2 DEF U
<1>10. q[1] # q[n]
  <2>1. 1 \in 1..n /\ n \in 1..n /\ 1 < n
    BY <1>1
  <2>2. Less(1, q[1], q[n])
    BY <1>2, <2>1
  <2> QED
    BY <1>3, <1>4, <2>1, <2>2, LessOrders
<1> HIDE DEF L, U, r
<1>11. /\ L \in Seq(P) /\ Len(L) \in Nat /\ Len(L) >= 2
       /\ \A i \in 1..(Len(L) - 1) : L[i] # L[i + 1] /\ \A x \in P : Cross(L[i], L[i + 1], x) >= 0
  <2>1. L[1] # L[Len(L)] /\ Wraps(L, P, 1)
    BY <1>5, <1>10
  <2>2. /\ L \in Seq(P) /\ Len(L) >= 2
        /\ \A i \in 1..(Len(L) - 1) :
             L[i] # L[i + 1] /\ \A x \in P : Cross(L[i], L[i + 1], x) >= 0
    BY <1>4, <2>1, ChainEdges
  <2> QED
    BY <2>2
<1>12. /\ U \in Seq(P) /\ Len(U) \in Nat /\ Len(U) >= 2
       /\ \A i \in 1..(Len(U) - 1) : U[i] # U[i + 1] /\ \A x \in P : Cross(U[i], U[i + 1], x) >= 0
  <2>1. U[1] # U[Len(U)] /\ Wraps(U, P, -1)
    BY <1>9, <1>10
  <2>2. /\ U \in Seq(P) /\ Len(U) >= 2
        /\ \A i \in 1..(Len(U) - 1) :
             U[i] # U[i + 1] /\ \A x \in P : Cross(U[i], U[i + 1], x) >= 0
    BY <1>4, <2>1, ChainEdges
  <2> QED
    BY <2>2
<1> DEFINE a == Len(L) - 1
           b == Len(U) - 1
<1>13. a \in Nat /\ b \in Nat /\ a >= 1 /\ b >= 1
  BY <1>11, <1>12
<1>14. /\ Front(L) \in Seq(P) /\ Len(Front(L)) = a /\ \A i \in 1..a : Front(L)[i] = L[i]
  BY <1>11 DEF Front
<1>15. /\ Front(U) \in Seq(P) /\ Len(Front(U)) = b /\ \A i \in 1..b : Front(U)[i] = U[i]
  BY <1>12 DEF Front
<1>16. /\ ring \in Seq(P) /\ Len(ring) = a + b
       /\ \A i \in 1..a : ring[i] = L[i]
       /\ \A i \in 1..b : ring[a + i] = U[i]
  <2> HIDE DEF a, b
  <2>1. ring \in Seq(P) /\ Len(ring) = a + b
    BY <1>13, <1>14, <1>15
  <2>2. ASSUME NEW i \in 1..a PROVE ring[i] = L[i]
    BY <1>13, <1>14, <1>15
  <2>3. ASSUME NEW i \in 1..b PROVE ring[a + i] = U[i]
    <3>1. a + i \in (a + 1)..(a + b) /\ (a + i) - a = i
      BY <1>13
    <3> QED
      BY <1>13, <1>14, <1>15, <3>1
  <2> QED
    BY <2>1, <2>2, <2>3
<1>17. Hull(P) = ring
  <2>1. ~ (Cardinality(P) < 3)
    BY <1>1 DEF n
  <2> QED
    BY <2>1 DEF Hull, ring, L, U, r, q
<1>18. Ends(L, U)
  BY <1>5, <1>9, <1>10 DEF Ends
<1> HIDE DEF ring
<1> QED
  BY <1>5, <1>9, <1>11, <1>12, <1>16, <1>17, <1>18 DEF a, b

(* Hull returns a ring of the points given whose every edge joins two         *)
(* different ones and has all of them on its left: the monotone chain loses   *)
(* no point, collinear ones included (roi.rs 258-288).                        *)
THEOREM HullSurrounds ==
  ASSUME NEW P, IsFiniteSet(P), P \subseteq Points, Cardinality(P) >= 3
  PROVE  Surrounds(Hull(P), P)
<1> DEFINE ring == Hull(P)
<1>1. PICK L, U :
        /\ Wraps(L, P, 1) /\ Wraps(U, P, -1) /\ Ends(L, U)
        /\ Len(L) \in Nat /\ Len(U) \in Nat /\ Len(L) >= 2 /\ Len(U) >= 2
        /\ ring \in Seq(P) /\ Len(ring) = (Len(L) - 1) + (Len(U) - 1)
        /\ \A i \in 1..(Len(L) - 1) : ring[i] = L[i]
        /\ \A i \in 1..(Len(U) - 1) : ring[(Len(L) - 1) + i] = U[i]
  BY HullIs
<1> HIDE DEF ring
<1> DEFINE a == Len(L) - 1
           b == Len(U) - 1
<1>13. a \in Nat /\ b \in Nat /\ a >= 1 /\ b >= 1
  BY <1>1
<1>16. /\ ring \in Seq(P) /\ Len(ring) = a + b
       /\ \A i \in 1..a : ring[i] = L[i]
       /\ \A i \in 1..b : ring[a + i] = U[i]
  BY <1>1
<1>17. L[a + 1] = U[1] /\ U[b + 1] = L[1] /\ L[1] # L[a + 1]
  <2>1. a + 1 = Len(L) /\ b + 1 = Len(U)
    BY <1>1
  <2> QED
    BY <1>1, <2>1 DEF Ends
<1> DEFINE Fine(u, v) == u # v /\ \A x \in P : Cross(u, v, x) >= 0
<1>18. /\ \A i \in 1..a : Fine(L[i], L[i + 1])
       /\ \A i \in 1..b : Fine(U[i], U[i + 1])
  <2>1. 1 \in Sides /\ -1 \in Sides /\ L[1] # L[Len(L)] /\ U[1] # U[Len(U)]
    BY <1>1 DEF Sides, Ends
  <2> QED
    BY <1>1, <2>1, ChainEdges
<1> HIDE DEF a, b, Fine
<1>19. ASSUME NEW i \in 1..(a + b) PROVE Fine(ring[i], ring[After(i, ring)])
  <2>1. CASE i < a
    <3>1. After(i, ring) = i + 1 /\ i \in 1..a /\ i + 1 \in 1..a
      BY <1>13, <1>16, <2>1 DEF After
    <3> QED
      BY <1>16, <1>18, <3>1
  <2>2. CASE i = a
    <3>1. After(i, ring) = a + 1 /\ 1 \in 1..b /\ i \in 1..a
      BY <1>13, <1>16, <2>2 DEF After
    <3>2. ring[a + 1] = U[1]
      BY <1>16, <3>1
    <3> QED
      BY <1>16, <1>17, <1>18, <2>2, <3>1, <3>2
  <2>3. CASE i > a /\ i < a + b
    <3> DEFINE j == i - a
    <3>1. j \in 1..b /\ j + 1 \in 1..b /\ i = a + j /\ After(i, ring) = a + (j + 1)
      BY <1>13, <1>16, <2>3 DEF After
    <3> HIDE DEF j
    <3>2. ring[i] = U[j] /\ ring[a + (j + 1)] = U[j + 1]
      BY <1>16, <3>1
    <3> QED
      BY <1>18, <3>1, <3>2
  <2>4. CASE i = a + b
    <3>1. After(i, ring) = 1 /\ 1 \in 1..a /\ b \in 1..b
      BY <1>13, <1>16, <2>4 DEF After
    <3>2. ring[i] = U[b] /\ ring[1] = L[1]
      BY <1>16, <2>4, <3>1
    <3> QED
      BY <1>16, <1>17, <1>18, <3>1, <3>2
  <2> QED
    BY <1>13, <2>1, <2>2, <2>3, <2>4
<1>20. Surrounds(ring, P)
  <2>1. Len(ring) >= 1
    BY <1>13, <1>16
  <2> QED
    BY <1>16, <1>19, <2>1 DEF Surrounds, Fine
<1> QED
  BY <1>20 DEF ring

------------------------------------------------------------------------------
(* The hull is convex, and so is an ROI made of it.                           *)

(* The two ends of an edge are on it.                                         *)
LEMMA CrossOfEnds ==
  ASSUME NEW a \in Points, NEW b \in Points
  PROVE  Cross(a, b, a) = 0 /\ Cross(a, b, b) = 0
<1> DEFINE ax == a[1]  ay == a[2]  bx == b[1]  by == b[2]
<1>1. ax \in Int /\ ay \in Int /\ bx \in Int /\ by \in Int
  BY DEF Points
<1>2. /\ Cross(a, b, a) = (bx - ax) * (ay - ay) - (by - ay) * (ax - ax)
      /\ Cross(a, b, b) = (bx - ax) * (by - ay) - (by - ay) * (bx - ax)
  BY DEF Cross
<1> HIDE DEF ax, ay, bx, by
<1>3. ay - ay = 0 /\ ax - ax = 0 /\ bx - ax \in Int /\ by - ay \in Int
  BY <1>1
<1>4. \A x, y \in Int : x * 0 - y * 0 = 0 /\ x * y - y * x = 0
  OBVIOUS
<1> QED
  BY <1>2, <1>3, <1>4

(* How far the step from c to d turns left of the step from a to b.           *)
Turn(a, b, c, d) == (b[1] - a[1]) * (d[2] - c[2]) - (b[2] - a[2]) * (d[1] - c[1])

(* Turns and the sides of points.                                             *)
LEMMA TurnFacts ==
  ASSUME NEW a \in Points, NEW b \in Points, NEW c \in Points, NEW d \in Points
  PROVE  /\ Turn(a, b, c, d) \in Int
         /\ Turn(a, b, b, c) = Cross(a, b, c)
         /\ Turn(a, b, c, d) = Cross(a, b, d) - Cross(a, b, c)
         /\ Turn(a, b, c, d) = - Turn(c, d, a, b)
         /\ Turn(a, b, d, c) = - Turn(a, b, c, d)
         /\ Turn(a, c, c, d) = Turn(a, b, c, d) + Turn(b, c, c, d)
<1> DEFINE ax == a[1]  ay == a[2]  bx == b[1]  by == b[2]  cx == c[1]  cy == c[2]  dx == d[1]  dy == d[2]
<1>1. /\ ax \in Int /\ ay \in Int /\ bx \in Int /\ by \in Int
      /\ cx \in Int /\ cy \in Int /\ dx \in Int /\ dy \in Int
  BY DEF Points
<1>2. /\ Turn(a, b, c, d) = (bx - ax) * (dy - cy) - (by - ay) * (dx - cx)
      /\ Turn(c, d, a, b) = (dx - cx) * (by - ay) - (dy - cy) * (bx - ax)
      /\ Turn(a, b, d, c) = (bx - ax) * (cy - dy) - (by - ay) * (cx - dx)
      /\ Turn(a, c, c, d) = (cx - ax) * (dy - cy) - (cy - ay) * (dx - cx)
      /\ Turn(b, c, c, d) = (cx - bx) * (dy - cy) - (cy - by) * (dx - cx)
      /\ Cross(a, b, c) = (bx - ax) * (cy - ay) - (by - ay) * (cx - ax)
      /\ Cross(a, b, d) = (bx - ax) * (dy - ay) - (by - ay) * (dx - ax)
  BY DEF Turn, Cross
<1>3. Turn(a, b, b, c) = Cross(a, b, c)
  BY CrossFacts DEF Turn
<1> HIDE DEF ax, ay, bx, by, cx, cy, dx, dy
<1>4. (bx - ax) * (dy - cy) - (by - ay) * (dx - cx) \in Int
  BY <1>1
<1>5. (bx - ax) * (dy - cy) - (by - ay) * (dx - cx)
        = ((bx - ax) * (dy - ay) - (by - ay) * (dx - ax)) - ((bx - ax) * (cy - ay) - (by - ay) * (cx - ax))
  BY <1>1
<1>6. (bx - ax) * (dy - cy) - (by - ay) * (dx - cx)
        = - ((dx - cx) * (by - ay) - (dy - cy) * (bx - ax))
  BY <1>1
<1>7. (bx - ax) * (cy - dy) - (by - ay) * (cx - dx)
        = - ((bx - ax) * (dy - cy) - (by - ay) * (dx - cx))
  BY <1>1
<1>8. (cx - ax) * (dy - cy) - (cy - ay) * (dx - cx)
        = ((bx - ax) * (dy - cy) - (by - ay) * (dx - cx)) + ((cx - bx) * (dy - cy) - (cy - by) * (dx - cx))
  BY <1>1
<1> QED
  BY <1>2, <1>3, <1>4, <1>5, <1>6, <1>7, <1>8

(* Of steps in the direction of the chain, turning left is transitive.        *)
LEMMA TurnsOrdered ==
  ASSUME NEW s \in Sides,
         NEW a \in Points, NEW b \in Points, NEW c \in Points,
         NEW d \in Points, NEW g \in Points, NEW h \in Points,
         Less(s, a, b), Less(s, c, d), Less(s, g, h),
         Turn(a, b, c, d) > 0, Turn(c, d, g, h) > 0
  PROVE  Turn(a, b, g, h) > 0
<1> DEFINE ux == b[1] - a[1]  uy == b[2] - a[2]
           vx == d[1] - c[1]  vy == d[2] - c[2]
           wx == h[1] - g[1]  wy == h[2] - g[2]
<1>1. ux \in Int /\ uy \in Int /\ vx \in Int /\ vy \in Int /\ wx \in Int /\ wy \in Int
  BY DEF Points
<1>2. LexPositive(s * ux, s * uy) /\ LexPositive(s * vx, s * vy) /\ LexPositive(s * wx, s * wy)
  BY DEF Less
<1>3. /\ Turn(a, b, c, d) = ux * vy - uy * vx
      /\ Turn(c, d, g, h) = vx * wy - vy * wx
      /\ Turn(a, b, g, h) = ux * wy - uy * wx
  BY DEF Turn
<1> HIDE DEF ux, uy, vx, vy, wx, wy
<1>4. ux * vy - uy * vx > 0 /\ vx * wy - vy * wx > 0
  BY <1>3
<1>5. ux * vy - uy * vx >= 0 /\ vx * wy - vy * wx >= 0
  BY <1>1, <1>4
<1> QED
  BY <1>1, <1>2, <1>3, <1>4, <1>5, SlopesSigned

(* The order of the chain is transitive.                                     *)
LEMMA LessTransitive ==
  ASSUME NEW s \in Sides, NEW a \in Points, NEW b \in Points, NEW c \in Points,
         Less(s, a, b), Less(s, b, c)
  PROVE  Less(s, a, c)
<1>1. /\ a[1] \in Int /\ a[2] \in Int /\ b[1] \in Int /\ b[2] \in Int /\ c[1] \in Int /\ c[2] \in Int
  BY DEF Points
<1>2. \A x \in Int : 1 * x = x /\ (-1) * x = -x
  OBVIOUS
<1>3. s = 1 \/ s = -1
  BY DEF Sides
<1> QED
  BY <1>1, <1>2, <1>3 DEF Less, LexPositive

(* A left turn at the start of a chain is a left turn of the longer step to   *)
(* its end.                                                                   *)
LEMMA TurnsReachOn ==
  ASSUME NEW s \in Sides,
         NEW a \in Points, NEW b \in Points, NEW c \in Points, NEW p \in Points,
         Less(s, a, b), Less(s, b, c), Less(s, c, p),
         Cross(a, b, c) > 0, Cross(b, c, p) > 0
  PROVE  Cross(a, c, p) > 0
<1>1. Turn(a, b, b, c) > 0 /\ Turn(b, c, c, p) > 0
  BY TurnFacts
<1>2. Turn(a, b, c, p) > 0
  BY <1>1, TurnsOrdered
<1>3. Turn(a, c, c, p) = Turn(a, b, c, p) + Turn(b, c, c, p) /\ Turn(a, c, c, p) = Cross(a, c, p)
  BY TurnFacts
<1>4. Turn(a, b, c, p) \in Int /\ Turn(b, c, c, p) \in Int
  BY TurnFacts
<1> QED
  BY <1>1, <1>2, <1>3, <1>4

(* The vertices of a chain are in order, and any three of them turn left.     *)
LEMMA ChainTurns ==
  ASSUME NEW s \in Sides, NEW P, NEW c, Wraps(c, P, s)
  PROVE  /\ \A i, j \in 1..Len(c) : i < j => Less(s, c[i], c[j])
         /\ \A i, j, k \in 1..Len(c) : i < j /\ j < k => Cross(c[i], c[j], c[k]) > 0
<1> DEFINE n == Len(c)
<1>1. /\ n \in Nat /\ \A k \in 1..n : c[k] \in Points
      /\ \A k \in 1..(n - 1) : Less(s, c[k], c[k + 1])
      /\ \A k \in 2..(n - 1) : Cross(c[k - 1], c[k], c[k + 1]) > 0
  BY DEF Wraps
<1> HIDE DEF n
<1> DEFINE InOrder(d) == \A i, j \in 1..n : i < j /\ j - i <= d => Less(s, c[i], c[j])
           A == {d \in 0..n : InOrder(d)}
<1>2. 0 \in A
  BY <1>1
<1>3. ASSUME NEW d \in 1..n, d - 1 \in A PROVE d \in A
  <2>1. ASSUME NEW i \in 1..n, NEW j \in 1..n, i < j, j - i <= d PROVE Less(s, c[i], c[j])
    <3>1. i \in 1..(n - 1) /\ i + 1 \in 1..n
      BY <1>1, <2>1
    <3>2. CASE j = i + 1
      BY <1>1, <3>1, <3>2
    <3>3. CASE j # i + 1
      <4>1. i + 1 < j /\ j - (i + 1) <= d - 1
        BY <1>1, <2>1, <3>3
      <4>2. InOrder(d - 1)
        BY <1>3
      <4>3. Less(s, c[i + 1], c[j])
        BY <3>1, <4>1, <4>2
      <4>4. Less(s, c[i], c[i + 1])
        BY <1>1, <3>1
      <4> QED
        BY <1>1, <3>1, <4>3, <4>4, LessTransitive
    <3> QED
      BY <3>2, <3>3
  <2> QED
    BY <2>1
<1>4. \A d \in 0..n : d \in A
  <2> HIDE DEF A
  <2> QED
    BY <1>1, <1>2, <1>3, Induct
<1>5. ASSUME NEW i \in 1..n, NEW j \in 1..n, i < j PROVE Less(s, c[i], c[j])
  <2>1. InOrder(n) /\ j - i <= n
    <3>1. n \in A
      BY <1>1, <1>4
    <3> QED
      BY <1>1, <3>1
  <2> QED
    BY <1>5, <2>1
<1> HIDE DEF A
<1> DEFINE Left(d) == \A i, j, k \in 1..n : i < j /\ j < k /\ k - i <= d => Cross(c[i], c[j], c[k]) > 0
           B == {d \in 0..n : Left(d)}
<1>6. 0 \in B
  BY <1>1
<1>7. ASSUME NEW d \in 1..n, d - 1 \in B PROVE d \in B
  <2>0. Left(d - 1)
    BY <1>7
  <2>1. ASSUME NEW i \in 1..n, NEW j \in 1..n, NEW k \in 1..n, i < j, j < k, k - i <= d
        PROVE  Cross(c[i], c[j], c[k]) > 0
    <3>1. CASE i + 1 < j
      <4>1. i + 1 \in 1..n /\ j - i <= d - 1 /\ k - (i + 1) <= d - 1 /\ i < i + 1
        BY <1>1, <2>1, <3>1
      <4>2. Cross(c[i], c[i + 1], c[j]) > 0 /\ Cross(c[i + 1], c[j], c[k]) > 0
        BY <2>0, <2>1, <3>1, <4>1
      <4>3. Less(s, c[i], c[i + 1]) /\ Less(s, c[i + 1], c[j]) /\ Less(s, c[j], c[k])
        BY <1>5, <2>1, <3>1, <4>1
      <4> QED
        BY <1>1, <4>1, <4>2, <4>3, TurnsReachOn
    <3>2. CASE i + 1 = j /\ j + 1 < k
      <4>1. j + 1 \in 1..n /\ j + 1 - i <= d - 1 /\ k - j <= d - 1 /\ j < j + 1
        BY <1>1, <2>1, <3>2
      <4>2. Cross(c[i], c[j], c[j + 1]) > 0 /\ Cross(c[j], c[j + 1], c[k]) > 0
        BY <2>0, <2>1, <3>2, <4>1
      <4>3. Less(s, c[i], c[j]) /\ Less(s, c[j], c[j + 1]) /\ Less(s, c[j + 1], c[k])
        BY <1>5, <2>1, <3>2, <4>1
      <4> QED
        BY <1>1, <4>1, <4>2, <4>3, TurnsReachBack
    <3>3. CASE i + 1 = j /\ j + 1 = k
      <4>1. j \in 2..(n - 1) /\ i = j - 1
        BY <1>1, <2>1, <3>3
      <4> QED
        BY <1>1, <3>3, <4>1
    <3> QED
      BY <1>1, <2>1, <3>1, <3>2, <3>3
  <2> QED
    BY <2>1
<1>8. \A d \in 0..n : d \in B
  <2> HIDE DEF B
  <2> QED
    BY <1>1, <1>6, <1>7, Induct
<1>9. ASSUME NEW i \in 1..n, NEW j \in 1..n, NEW k \in 1..n, i < j, j < k
      PROVE  Cross(c[i], c[j], c[k]) > 0
  <2>1. Left(n) /\ k - i <= n
    <3>1. n \in B
      BY <1>1, <1>8
    <3> QED
      BY <1>1, <3>1
  <2> QED
    BY <1>9, <2>1
<1> QED
  BY <1>5, <1>9 DEF n

(* A point between p and q, on the other side of f, e, is left of p, q.       *)
LEMMA AboveChord ==
  ASSUME NEW s \in Sides, NEW f \in Points, NEW e \in Points,
         NEW p \in Points, NEW q \in Points, NEW x \in Points,
         Less(s, f, e), Less(s, p, x), Less(s, x, q),
         Cross(f, e, p) <= 0, Cross(f, e, q) <= 0, Cross(f, e, x) > 0
  PROVE  Cross(p, q, x) > 0
<1>1. /\ Turn(f, e, p, x) = Cross(f, e, x) - Cross(f, e, p)
      /\ Turn(f, e, x, q) = Cross(f, e, q) - Cross(f, e, x)
      /\ Turn(x, q, f, e) = - Turn(f, e, x, q)
      /\ Turn(x, q, p, x) = - Turn(p, x, x, q)
      /\ Turn(p, x, x, q) = Cross(p, x, q)
      /\ Turn(f, e, x, q) \in Int /\ Turn(p, x, x, q) \in Int
      /\ Turn(f, e, x, q) = - Turn(x, q, f, e)
  BY TurnFacts
<1>2. Cross(f, e, x) \in Int /\ Cross(f, e, p) \in Int /\ Cross(f, e, q) \in Int
  BY CrossFacts
<1>3. Turn(f, e, p, x) > 0 /\ Turn(x, q, f, e) > 0
  BY <1>1, <1>2
<1>4. Turn(x, q, p, x) > 0
  BY <1>3, TurnsOrdered
<1>5. /\ Cross(p, x, q) = Cross(x, q, p) /\ Cross(x, q, p) = Cross(q, p, x)
      /\ Cross(p, q, x) = - Cross(q, p, x) /\ Cross(q, p, x) \in Int
  BY CrossFacts
<1> QED
  BY <1>1, <1>4, <1>5

(* A point on the other side of a chain's two ends is left of all its chords. *)
LEMMA OppositeSide ==
  ASSUME NEW s \in Sides, NEW P, P \subseteq Points, NEW c, Wraps(c, P, s),
         NEW x \in P, Cross(c[1], c[Len(c)], x) > 0,
         NEW i \in 1..Len(c), NEW j \in 1..Len(c), i < j
  PROVE  Cross(c[i], c[j], x) > 0
<1> DEFINE n == Len(c)  f == c[1]  e == c[n]
<1>1. /\ n \in Nat /\ n >= 2 /\ 1 \in 1..n /\ n \in 1..n /\ x \in Points
      /\ \A k \in 1..n : c[k] \in Points
      /\ x = f \/ Less(s, f, x)
      /\ x = e \/ Less(s, x, e)
  BY DEF Wraps
<1>2. /\ \A k, l \in 1..n : k < l => Less(s, c[k], c[l])
      /\ \A k, l, m \in 1..n : k < l /\ l < m => Cross(c[k], c[l], c[m]) > 0
  BY ChainTurns
<1>3. f \in Points /\ e \in Points /\ Cross(f, e, x) > 0 /\ Less(s, f, e)
  BY <1>1, <1>2
<1> HIDE DEF n
<1>4. ASSUME NEW k \in 1..n PROVE Cross(f, e, c[k]) <= 0
  <2>1. /\ Cross(f, e, f) = 0 /\ Cross(f, e, e) = 0
    BY <1>3, CrossOfEnds
  <2>2. CASE k = 1 \/ k = n
    BY <2>1, <2>2
  <2>3. CASE k # 1 /\ k # n
    <3>1. Cross(f, c[k], e) > 0
      BY <1>1, <1>2, <2>3
    <3>2. /\ Cross(f, c[k], e) = Cross(c[k], e, f) /\ Cross(c[k], e, f) = Cross(e, f, c[k])
          /\ Cross(f, e, c[k]) = - Cross(e, f, c[k]) /\ Cross(e, f, c[k]) \in Int
      BY <1>1, <1>3, CrossFacts
    <3> QED
      BY <3>1, <3>2
  <2> QED
    BY <2>2, <2>3
<1>5. \A k \in 1..n : x # c[k]
  <2>1. \A k \in 1..n : Cross(f, e, c[k]) \in Int
    BY <1>1, <1>3, CrossFacts
  <2> QED
    BY <1>3, <1>4, <2>1
<1>6. Less(s, f, x) /\ Less(s, x, e)
  BY <1>1, <1>5
<1>7. ASSUME NEW k \in 1..n, NEW l \in 1..n, Less(s, c[k], x), Less(s, x, c[l])
      PROVE  Cross(c[k], c[l], x) > 0
  <2>1. c[k] \in Points /\ c[l] \in Points /\ Cross(f, e, c[k]) <= 0 /\ Cross(f, e, c[l]) <= 0
    BY <1>1, <1>4
  <2> HIDE DEF f, e
  <2> QED
    BY <1>1, <1>3, <1>7, <2>1, AboveChord
<1>8. i \in 1..n /\ j \in 1..n /\ c[i] \in Points /\ c[j] \in Points /\ Less(s, c[i], c[j])
  BY <1>1, <1>2 DEF n
<1> DEFINE p == c[i]  q == c[j]
<1>9. CASE Less(s, p, x) /\ Less(s, x, q)
  BY <1>7, <1>8, <1>9
<1>10. CASE Less(s, q, x)
  <2>1. j # n
    BY <1>1, <1>3, <1>6, <1>10, LessOrders
  <2>2. Cross(q, e, x) > 0 /\ Cross(p, q, e) > 0 /\ Less(s, q, e)
    BY <1>1, <1>2, <1>6, <1>7, <1>8, <1>10, <2>1
  <2> HIDE DEF p, q, e, f
  <2>3. Turn(p, q, q, e) > 0 /\ Turn(q, e, q, x) > 0
    <3>1. /\ Turn(p, q, q, e) = Cross(p, q, e)
          /\ Turn(q, e, q, x) = Cross(q, e, x) - Cross(q, e, q)
          /\ Cross(q, e, q) = 0
          /\ Cross(q, e, x) \in Int
      <4>1. p \in Points /\ q \in Points
        BY <1>8 DEF p, q
      <4>2. Cross(q, e, q) = 0
        BY <1>3, <4>1, CrossOfEnds
      <4> QED
        BY <1>1, <1>3, <4>1, <4>2, TurnFacts, CrossFacts
    <3> QED
      BY <2>2, <3>1
  <2>4. p \in Points /\ q \in Points /\ Less(s, p, q)
    BY <1>8 DEF p, q
  <2>5. Turn(p, q, q, x) > 0
    BY <1>1, <1>3, <1>10, <2>2, <2>3, <2>4, TurnsOrdered
  <2>6. Turn(p, q, q, x) = Cross(p, q, x)
    BY <1>1, <2>4, TurnFacts
  <2> QED
    BY <2>5, <2>6 DEF p, q
<1>11. CASE Less(s, x, p)
  <2>1. i # 1
    BY <1>1, <1>3, <1>6, <1>11, LessOrders
  <2>2. Cross(f, p, x) > 0 /\ Cross(f, p, q) > 0 /\ Less(s, f, p)
    BY <1>1, <1>2, <1>6, <1>7, <1>8, <1>11, <2>1
  <2>3. p \in Points /\ q \in Points /\ Less(s, p, q)
    BY <1>8
  <2> HIDE DEF p, q, e, f
  <2>4. /\ Turn(f, p, p, q) = Cross(f, p, q)
        /\ Turn(f, p, p, x) = Cross(f, p, x)
        /\ Turn(f, p, p, x) = - Turn(f, p, x, p)
        /\ Turn(f, p, x, p) = - Turn(x, p, f, p)
        /\ Turn(f, p, x, p) \in Int /\ Turn(x, p, f, p) \in Int
        /\ Turn(x, p, p, q) = Cross(x, p, q)
    BY <1>1, <1>3, <2>3, TurnFacts
  <2>5. Turn(x, p, f, p) > 0 /\ Turn(f, p, p, q) > 0
    BY <2>2, <2>4
  <2>6. Turn(x, p, p, q) > 0
    BY <1>1, <1>3, <1>11, <2>2, <2>3, <2>5, TurnsOrdered
  <2>7. Cross(x, p, q) = Cross(p, q, x)
    BY <1>1, <2>3, CrossFacts
  <2> QED
    BY <2>4, <2>6, <2>7 DEF p, q
<1>12. p = c[i] /\ q = c[j] /\ x # p /\ x # q
  BY <1>5, <1>8
<1>13. (Less(s, p, x) \/ Less(s, x, p)) /\ (Less(s, q, x) \/ Less(s, x, q))
  <2>1. p \in Points /\ q \in Points
    BY <1>8
  <2> HIDE DEF p, q
  <2> QED
    BY <1>1, <1>12, <2>1, LessOrders
<1> HIDE DEF p, q, e, f
<1> QED
  BY <1>9, <1>10, <1>11, <1>12, <1>13

(* Three points on a line through two distinct points.                        *)
LEMMA OnOneLine ==
  ASSUME NEW a \in Points, NEW b \in Points, NEW c \in Points, NEW u \in Points, NEW v \in Points,
         u # v, Cross(u, v, a) = 0, Cross(u, v, b) = 0, Cross(u, v, c) = 0
  PROVE  Cross(a, b, c) = 0
<1> DEFINE wx == v[1] - u[1]  wy == v[2] - u[2]
           dx == b[1] - a[1]  dy == b[2] - a[2]
           ex == c[1] - a[1]  ey == c[2] - a[2]
           ax == a[1] - u[1]  ay == a[2] - u[2]
<1>1. /\ wx \in Int /\ wy \in Int /\ dx \in Int /\ dy \in Int /\ ex \in Int /\ ey \in Int
      /\ ax \in Int /\ ay \in Int
      /\ b[1] - u[1] = dx + ax /\ b[2] - u[2] = dy + ay
      /\ c[1] - u[1] = ex + ax /\ c[2] - u[2] = ey + ay
  BY DEF Points
<1>2. wx # 0 \/ wy # 0
  <2>1. u = <<u[1], u[2]>> /\ v = <<v[1], v[2]>> /\ u[1] \in Int /\ u[2] \in Int /\ v[1] \in Int /\ v[2] \in Int
    BY DEF Points
  <2>2. u[1] # v[1] \/ u[2] # v[2]
    BY <2>1
  <2> QED
    BY <2>1, <2>2
<1>3. /\ Cross(u, v, a) = wx * ay - wy * ax
      /\ Cross(u, v, b) = wx * (b[2] - u[2]) - wy * (b[1] - u[1])
      /\ Cross(u, v, c) = wx * (c[2] - u[2]) - wy * (c[1] - u[1])
      /\ Cross(a, b, c) = dx * ey - dy * ex
  BY DEF Cross
<1> DEFINE de == dx * ey - dy * ex
<1>4. /\ wx * ay - wy * ax = 0 /\ wx * (dy + ay) - wy * (dx + ax) = 0
      /\ wx * (ey + ay) - wy * (ex + ax) = 0
  BY <1>1, <1>3
<1> HIDE DEF wx, wy, dx, dy, ex, ey, ax, ay
<1>5. wx * dy - wy * dx = 0 /\ wx * ey - wy * ex = 0
  BY <1>1, <1>4
<1>6. wx * de = dx * (wx * ey - wy * ex) - ex * (wx * dy - wy * dx)
  BY <1>1
<1>7. wy * de = dy * (wx * ey - wy * ex) - ey * (wx * dy - wy * dx)
  BY <1>1
<1>8. wx * de = 0 /\ wy * de = 0
  BY <1>1, <1>5, <1>6, <1>7
<1>9. de \in Int
  BY <1>1
<1>10. de = 0
  <2>1. \A x, y \in Int : x * y = 0 => x = 0 \/ y = 0
    BY SMT
  <2> HIDE DEF de
  <2> QED
    BY <1>1, <1>2, <1>8, <1>9, <2>1
<1> QED
  BY <1>3, <1>10

(* Three different elements make a set of at least three.                     *)
LEMMA ThreeOf ==
  ASSUME NEW P, IsFiniteSet(P), NEW u \in P, NEW v \in P, NEW w \in P, u # v, v # w, u # w
  PROVE  Cardinality(P) >= 3
<1>1. IsFiniteSet({}) /\ Cardinality({}) = 0
  BY FS_EmptySet
<1>2. IsFiniteSet({u}) /\ Cardinality({u}) = 1
  BY FS_Singleton
<1>3. IsFiniteSet({u} \cup {v}) /\ Cardinality({u} \cup {v}) = 2
  BY <1>2, FS_AddElement
<1>4. IsFiniteSet(({u} \cup {v}) \cup {w}) /\ Cardinality(({u} \cup {v}) \cup {w}) = 3
  BY <1>3, FS_AddElement
<1>5. ({u} \cup {v}) \cup {w} \subseteq P
  OBVIOUS
<1>6. Cardinality(({u} \cup {v}) \cup {w}) <= Cardinality(P) /\ Cardinality(P) \in Nat
  BY <1>5, FS_Subset, FS_CardinalityType
<1> QED
  BY <1>4, <1>6

(* The hull of points that are not all on one line is convex (roi.rs          *)
(* 258-288).                                                                  *)
THEOREM HullConvex ==
  ASSUME NEW P, IsFiniteSet(P), P \subseteq Points,
         NEW u \in P, NEW v \in P, NEW w \in P, Cross(u, v, w) # 0
  PROVE  Convex(Hull(P))
<1> DEFINE ring == Hull(P)
<1>0. u \in Points /\ v \in Points /\ w \in Points
  OBVIOUS
<1>1. Cardinality(P) >= 3
  <2>1. u # v /\ v # w /\ u # w
    <3>1. Cross(u, w, u) = 0 /\ Cross(u, w, w) = 0 /\ Cross(u, v, v) = 0 /\ Cross(u, v, u) = 0
      BY <1>0, CrossOfEnds
    <3>2. Cross(u, u, w) = Cross(u, w, u)
      BY <1>0, CrossFacts
    <3> QED
      BY <3>1, <3>2
  <2> QED
    BY <2>1, ThreeOf
<1>2. PICK L, U :
        /\ Wraps(L, P, 1) /\ Wraps(U, P, -1) /\ Ends(L, U)
        /\ Len(L) \in Nat /\ Len(U) \in Nat /\ Len(L) >= 2 /\ Len(U) >= 2
        /\ ring \in Seq(P) /\ Len(ring) = (Len(L) - 1) + (Len(U) - 1)
        /\ \A i \in 1..(Len(L) - 1) : ring[i] = L[i]
        /\ \A i \in 1..(Len(U) - 1) : ring[(Len(L) - 1) + i] = U[i]
  BY <1>1, HullIs
<1> HIDE DEF ring
<1> DEFINE a == Len(L) - 1
           b == Len(U) - 1
<1>3. /\ a \in Nat /\ b \in Nat /\ a >= 1 /\ b >= 1 /\ Len(L) = a + 1 /\ Len(U) = b + 1
      /\ Len(ring) = a + b
      /\ \A i \in 1..a : ring[i] = L[i]
      /\ \A i \in 1..b : ring[a + i] = U[i]
  BY <1>2
<1>4. 1 \in Sides /\ -1 \in Sides
  BY DEF Sides
<1>5. /\ \A i \in 1..(a + 1) : L[i] \in P /\ L[i] \in Points
      /\ \A i \in 1..(b + 1) : U[i] \in P /\ U[i] \in Points
  BY <1>2, <1>3 DEF Wraps
<1>6. L[1] = U[b + 1] /\ U[1] = L[a + 1] /\ L[1] # L[a + 1]
  BY <1>2, <1>3 DEF Ends
<1>7. /\ \A i, j, k \in 1..(a + 1) : i < j /\ j < k => Cross(L[i], L[j], L[k]) > 0
      /\ \A i, j, k \in 1..(b + 1) : i < j /\ j < k => Cross(U[i], U[j], U[k]) > 0
  BY <1>2, <1>3, <1>4, ChainTurns
<1> HIDE DEF a, b
<1> DEFINE f == L[1]  e == U[1]
<1>8. f \in Points /\ e \in Points /\ f = U[b + 1] /\ e = L[a + 1]
  BY <1>3, <1>5, <1>6
<1>9. ASSUME NEW i \in 1..a, NEW j \in 1..a, i < j, NEW k \in 2..b
      PROVE  Cross(L[i], L[j], U[k]) > 0
  <2>1. 1 \in 1..(b + 1) /\ k \in 1..(b + 1) /\ b + 1 \in 1..(b + 1) /\ 1 < k /\ k < b + 1
    BY <1>3
  <2>2. Cross(e, U[k], f) > 0 /\ U[k] \in P /\ U[k] \in Points
    BY <1>5, <1>7, <1>8, <2>1
  <2> HIDE DEF f, e
  <2>3. Cross(e, U[k], f) = Cross(U[k], f, e) /\ Cross(U[k], f, e) = Cross(f, e, U[k])
    BY <1>8, <2>2, CrossFacts
  <2>4. Cross(f, e, U[k]) > 0
    BY <2>2, <2>3
  <2>5. Cross(L[1], L[Len(L)], U[k]) > 0
    BY <1>3, <1>8, <2>4 DEF f
  <2>6. i \in 1..Len(L) /\ j \in 1..Len(L)
    BY <1>3
  <2> QED
    BY <1>2, <1>4, <1>9, <2>2, <2>5, <2>6, OppositeSide
<1>10. ASSUME NEW i \in 1..b, NEW j \in 1..b, i < j, NEW k \in 2..a
       PROVE  Cross(U[i], U[j], L[k]) > 0
  <2>1. 1 \in 1..(a + 1) /\ k \in 1..(a + 1) /\ a + 1 \in 1..(a + 1) /\ 1 < k /\ k < a + 1
    BY <1>3
  <2>2. Cross(f, L[k], e) > 0 /\ L[k] \in P /\ L[k] \in Points
    BY <1>5, <1>7, <1>8, <2>1
  <2> HIDE DEF f, e
  <2>3. Cross(f, L[k], e) = Cross(L[k], e, f) /\ Cross(L[k], e, f) = Cross(e, f, L[k])
    BY <1>8, <2>2, CrossFacts
  <2>4. Cross(e, f, L[k]) > 0
    BY <2>2, <2>3
  <2>5. Cross(U[1], U[Len(U)], L[k]) > 0
    BY <1>3, <1>8, <2>4 DEF e
  <2>6. i \in 1..Len(U) /\ j \in 1..Len(U)
    BY <1>3
  <2> QED
    BY <1>2, <1>4, <1>10, <2>2, <2>5, <2>6, OppositeSide
<1>11. ASSUME NEW i \in 1..(a + b), NEW j \in 1..(a + b), NEW k \in 1..(a + b), i < j, j < k
       PROVE  Cross(ring[i], ring[j], ring[k]) > 0
  <2>1. CASE k <= a
    <3>1. i \in 1..a /\ j \in 1..a /\ k \in 1..a /\ i \in 1..(a + 1) /\ j \in 1..(a + 1) /\ k \in 1..(a + 1)
      BY <1>3, <1>11, <2>1
    <3> QED
      BY <1>3, <1>7, <1>11, <3>1
  <2>2. CASE j <= a /\ k > a
    <3> DEFINE l == k - a
    <3>1. i \in 1..a /\ j \in 1..a /\ l \in 1..b /\ k = a + l
      BY <1>3, <1>11, <2>2
    <3> HIDE DEF l
    <3>2. ring[i] = L[i] /\ ring[j] = L[j] /\ ring[k] = U[l]
      BY <1>3, <3>1
    <3>3. CASE l = 1
      <4>1. i \in 1..(a + 1) /\ j \in 1..(a + 1) /\ a + 1 \in 1..(a + 1) /\ j < a + 1
        BY <1>3, <3>1
      <4> QED
        BY <1>6, <1>7, <1>11, <3>2, <3>3, <4>1
    <3>4. CASE l # 1
      <4>1. l \in 2..b
        BY <1>3, <3>1, <3>4
      <4> QED
        BY <1>9, <1>11, <3>1, <3>2, <4>1
    <3> QED
      BY <3>3, <3>4
  <2>3. CASE i <= a /\ j > a
    <3> DEFINE m == j - a
               l == k - a
    <3>1. i \in 1..a /\ m \in 1..b /\ l \in 1..b /\ j = a + m /\ k = a + l /\ m < l
      BY <1>3, <1>11, <2>3
    <3> HIDE DEF l, m
    <3>2. ring[i] = L[i] /\ ring[j] = U[m] /\ ring[k] = U[l]
      BY <1>3, <3>1
    <3>3. Cross(U[m], U[l], L[i]) > 0
      <4>1. CASE i = 1
        <5>1. m \in 1..(b + 1) /\ l \in 1..(b + 1) /\ b + 1 \in 1..(b + 1) /\ l < b + 1
          BY <1>3, <3>1
        <5> QED
          BY <1>6, <1>7, <3>1, <4>1, <5>1
      <4>2. CASE i # 1
        <5>1. i \in 2..a
          BY <1>3, <3>1, <4>2
        <5> QED
          BY <1>10, <3>1, <5>1
      <4> QED
        BY <4>1, <4>2
    <3>4. L[i] \in Points /\ U[m] \in Points /\ U[l] \in Points
      <4>1. i \in 1..(a + 1) /\ m \in 1..(b + 1) /\ l \in 1..(b + 1)
        BY <1>3, <3>1
      <4> QED
        BY <1>5, <4>1
    <3>5. Cross(L[i], U[m], U[l]) = Cross(U[m], U[l], L[i])
      BY <3>4, CrossFacts
    <3> QED
      BY <3>2, <3>3, <3>5
  <2>4. CASE i > a
    <3> DEFINE h == i - a
               m == j - a
               l == k - a
    <3>1. /\ h \in 1..b /\ m \in 1..b /\ l \in 1..b /\ i = a + h /\ j = a + m /\ k = a + l
          /\ h < m /\ m < l
      BY <1>3, <1>11, <2>4
    <3> HIDE DEF h, l, m
    <3>2. ring[i] = U[h] /\ ring[j] = U[m] /\ ring[k] = U[l]
      BY <1>3, <3>1
    <3>3. h \in 1..(b + 1) /\ m \in 1..(b + 1) /\ l \in 1..(b + 1)
      BY <1>3, <3>1
    <3> QED
      BY <1>7, <3>1, <3>2, <3>3
  <2> QED
    BY <1>3, <1>11, <2>1, <2>2, <2>3, <2>4
<1>12. a + b >= 3
  <2> SUFFICES ASSUME a = 1, b = 1 PROVE FALSE
    BY <1>3
  <2> HIDE DEF f, e
  <2>1. ASSUME NEW x \in P PROVE Cross(f, e, x) = 0
    <3>1. Cross(L[1], L[2], x) >= 0 /\ Cross(U[1], U[2], x) >= 0
      <4>1. Len(L) = 2 /\ Len(U) = 2 /\ 1 \in 1..(Len(L) - 1) /\ 1 \in 1..(Len(U) - 1) /\ 1 + 1 = 2
        BY <1>3
      <4> QED
        BY <1>2, <4>1 DEF Wraps
    <3>2. Cross(f, e, x) >= 0 /\ Cross(e, f, x) >= 0
      BY <1>8, <3>1 DEF f, e
    <3>3. x \in Points /\ Cross(f, e, x) = - Cross(e, f, x) /\ Cross(e, f, x) \in Int
      BY <1>8, CrossFacts
    <3> QED
      BY <3>2, <3>3
  <2>2. f # e
    BY <1>6, <1>8 DEF f
  <2> QED
    BY <1>0, <1>8, <2>1, <2>2, OnOneLine
<1>13. ring \in Seq(Int \X Int)
  BY <1>2 DEF Points
<1>14. DOMAIN ring = 1..(a + b) /\ Len(ring) >= 3
  BY <1>3, <1>12, <1>13
<1> QED
  BY <1>11, <1>13, <1>14 DEF Convex, ring

(* In the order of the ring, beginning anywhere.                              *)
InCyclicOrder(f, m) ==
  \A i, j, k \in 1..m : i < j /\ j < k =>
    \/ f[i] < f[j] /\ f[j] < f[k]
    \/ f[j] < f[k] /\ f[k] < f[i]
    \/ f[k] < f[i] /\ f[i] < f[j]

(* Some of the vertices of a convex ring, at least three and in its order,    *)
(* scaled about a point, make a convex ring: simplification keeps vertices in *)
(* the order of the ring from the one it begins with, and the safety margin   *)
(* scales it about its centroid (roi.rs 294-309, 382-387).                    *)
THEOREM ThinnedIsConvex ==
  ASSUME NEW ring, Convex(ring),
         NEW m \in Nat, m >= 3, NEW f \in [1..m -> DOMAIN ring], InCyclicOrder(f, m),
         NEW factor \in Nat, factor > 0, NEW dx \in Int, NEW dy \in Int
  PROVE  Convex([i \in 1..m |-> <<dx + factor * ring[f[i]][1], dy + factor * ring[f[i]][2]>>])
<1> DEFINE At(i) == ring[f[i]]
           S(p) == <<dx + factor * p[1], dy + factor * p[2]>>
           thin == [i \in 1..m |-> S(At(i))]
<1>1. /\ ring \in Seq(Points)
      /\ \A i, j, k \in DOMAIN ring : i < j /\ j < k => Cross(ring[i], ring[j], ring[k]) > 0
  BY DEF Convex, Points
<1>2. \A i \in 1..m : f[i] \in DOMAIN ring /\ f[i] \in Int /\ At(i) \in Points
  BY <1>1
<1>3. ASSUME NEW p \in Points PROVE S(p) \in Points
  <2>1. p[1] \in Int /\ p[2] \in Int
    BY DEF Points
  <2>2. \A x, y \in Int : y + factor * x \in Int
    OBVIOUS
  <2>3. dx + factor * p[1] \in Int /\ dy + factor * p[2] \in Int
    BY <2>1, <2>2
  <2> QED
    BY <2>3 DEF Points
<1>4. ASSUME NEW p \in Points, NEW q \in Points, NEW r \in Points, Cross(p, q, r) > 0
      PROVE  Cross(S(p), S(q), S(r)) > 0
  <2> DEFINE px == p[1]  py == p[2]  qx == q[1]  qy == q[2]  rx == r[1]  ry == r[2]
             g == (qx - px) * (ry - py) - (qy - py) * (rx - px)
  <2>1. px \in Int /\ py \in Int /\ qx \in Int /\ qy \in Int /\ rx \in Int /\ ry \in Int
    BY DEF Points
  <2>2. g > 0
    BY <1>4 DEF Cross
  <2>3. Cross(S(p), S(q), S(r)) =
          ((dx + factor * qx) - (dx + factor * px)) * ((dy + factor * ry) - (dy + factor * py))
          - ((dy + factor * qy) - (dy + factor * py)) * ((dx + factor * rx) - (dx + factor * px))
    BY DEF Cross
  <2> HIDE DEF px, py, qx, qy, rx, ry
  <2>4. ((dx + factor * qx) - (dx + factor * px)) * ((dy + factor * ry) - (dy + factor * py))
        - ((dy + factor * qy) - (dy + factor * py)) * ((dx + factor * rx) - (dx + factor * px))
        = factor * (factor * g)
    BY <2>1
  <2>5. g \in Int
    BY <2>1
  <2> HIDE DEF g
  <2>6. factor * g > 0 /\ factor * g \in Int
    BY <2>2, <2>5, SignOfFactor
  <2>7. factor * (factor * g) > 0
    BY <2>6, SignOfFactor
  <2> QED
    BY <2>3, <2>4, <2>7
<1>5. ASSUME NEW i \in 1..m, NEW j \in 1..m, NEW k \in 1..m, i < j, j < k
      PROVE  Cross(At(i), At(j), At(k)) > 0
  <2>1. /\ Cross(At(i), At(j), At(k)) = Cross(At(j), At(k), At(i))
        /\ Cross(At(j), At(k), At(i)) = Cross(At(k), At(i), At(j))
    <3> HIDE DEF At
    <3> QED
      BY <1>2, CrossFacts
  <2>2. CASE f[i] < f[j] /\ f[j] < f[k]
    BY <1>1, <1>2, <2>2
  <2>3. CASE f[j] < f[k] /\ f[k] < f[i]
    <3>1. Cross(At(j), At(k), At(i)) > 0
      BY <1>1, <1>2, <2>3
    <3> QED
      BY <2>1, <3>1
  <2>4. CASE f[k] < f[i] /\ f[i] < f[j]
    <3>1. Cross(At(k), At(i), At(j)) > 0
      BY <1>1, <1>2, <2>4
    <3> QED
      BY <2>1, <3>1
  <2> QED
    BY <1>5, <2>2, <2>3, <2>4 DEF InCyclicOrder
<1> HIDE DEF At, S
<1>6. ASSUME NEW i \in 1..m, NEW j \in 1..m, NEW k \in 1..m, i < j, j < k
      PROVE  Cross(thin[i], thin[j], thin[k]) > 0
  BY <1>2, <1>4, <1>5, <1>6
<1>7. thin \in Seq(Points) /\ Len(thin) = m /\ DOMAIN thin = 1..m
  BY <1>2, <1>3
<1>8. Convex(thin)
  <2> HIDE DEF thin
  <2> QED
    BY <1>6, <1>7 DEF Convex, Points
<1> QED
  BY <1>8 DEF thin, S, At

(* And so does the whole frame, the ROI an operator can choose (main.rs       *)
(* 1903-1908).                                                                *)
THEOREM WholeFrameIsConvex ==
  ASSUME NEW w \in Nat, w >= 2, NEW h \in Nat, h >= 2
  PROVE  Convex(<<<<0, 0>>, <<w - 1, 0>>, <<w - 1, h - 1>>, <<0, h - 1>>>>)
<1> DEFINE ring == <<<<0, 0>>, <<w - 1, 0>>, <<w - 1, h - 1>>, <<0, h - 1>>>>
<1>1. ring \in Seq(Int \X Int) /\ Len(ring) = 4 /\ DOMAIN ring = 1..4
  OBVIOUS
<1>2. w - 1 \in Int /\ h - 1 \in Int /\ w - 1 > 0 /\ h - 1 > 0
  OBVIOUS
<1>3. (w - 1) * (h - 1) > 0
  BY <1>2, SignOfFactor
<1>4. ASSUME NEW i \in 1..4, NEW j \in 1..4, NEW k \in 1..4, i < j, j < k
      PROVE  Cross(ring[i], ring[j], ring[k]) = (w - 1) * (h - 1)
  <2>1. \/ i = 1 /\ j = 2 /\ k = 3
        \/ i = 1 /\ j = 2 /\ k = 4
        \/ i = 1 /\ j = 3 /\ k = 4
        \/ i = 2 /\ j = 3 /\ k = 4
    BY <1>4
  <2>2. \A x, y \in Int :
          /\ (x - 0) * (y - 0) - (0 - 0) * (x - 0) = x * y
          /\ (x - 0) * (y - 0) - (0 - 0) * (0 - 0) = x * y
          /\ (x - 0) * (y - 0) - (y - 0) * (0 - 0) = x * y
          /\ (x - x) * (y - 0) - (y - 0) * (0 - x) = x * y
    OBVIOUS
  <2> QED
    BY <1>2, <2>1, <2>2 DEF Cross
<1> QED
  BY <1>1, <1>3, <1>4 DEF Convex

------------------------------------------------------------------------------
(* Inside a triangle, and inside a hull.                                      *)

(* The weights of p in the triangle a, b, c.                                  *)
LEMMA Barycentric ==
  ASSUME NEW a \in Points, NEW b \in Points, NEW c \in Points,
         NEW p \in Points, NEW u \in Points, NEW v \in Points
  PROVE  Cross(a, b, c) * Cross(u, v, p)
           = Cross(b, c, p) * Cross(u, v, a) + Cross(c, a, p) * Cross(u, v, b)
           + Cross(a, b, p) * Cross(u, v, c)
<1> DEFINE ax == a[1]  ay == a[2]  bx == b[1]  by == b[2]  cx == c[1]  cy == c[2]
           px == p[1]  py == p[2]  ux == u[1]  uy == u[2]  vx == v[1]  vy == v[2]
<1>1. /\ ax \in Int /\ ay \in Int /\ bx \in Int /\ by \in Int /\ cx \in Int /\ cy \in Int
      /\ px \in Int /\ py \in Int /\ ux \in Int /\ uy \in Int /\ vx \in Int /\ vy \in Int
  BY DEF Points
<1>2. /\ Cross(a, b, c) = (bx - ax) * (cy - ay) - (by - ay) * (cx - ax)
      /\ Cross(u, v, p) = (vx - ux) * (py - uy) - (vy - uy) * (px - ux)
      /\ Cross(b, c, p) = (cx - bx) * (py - by) - (cy - by) * (px - bx)
      /\ Cross(u, v, a) = (vx - ux) * (ay - uy) - (vy - uy) * (ax - ux)
      /\ Cross(c, a, p) = (ax - cx) * (py - cy) - (ay - cy) * (px - cx)
      /\ Cross(u, v, b) = (vx - ux) * (by - uy) - (vy - uy) * (bx - ux)
      /\ Cross(a, b, p) = (bx - ax) * (py - ay) - (by - ay) * (px - ax)
      /\ Cross(u, v, c) = (vx - ux) * (cy - uy) - (vy - uy) * (cx - ux)
  BY DEF Cross
<1> HIDE DEF ax, ay, bx, by, cx, cy, px, py, ux, uy, vx, vy
<1>3. ((bx - ax) * (cy - ay) - (by - ay) * (cx - ax)) * ((vx - ux) * (py - uy) - (vy - uy) * (px - ux))
        = ((cx - bx) * (py - by) - (cy - by) * (px - bx)) * ((vx - ux) * (ay - uy) - (vy - uy) * (ax - ux))
        + ((ax - cx) * (py - cy) - (ay - cy) * (px - cx)) * ((vx - ux) * (by - uy) - (vy - uy) * (bx - ux))
        + ((bx - ax) * (py - ay) - (by - ay) * (px - ax)) * ((vx - ux) * (cy - uy) - (vy - uy) * (cx - ux))
  BY <1>1
<1> QED
  BY <1>2, <1>3

(* A point splits a triangle into three.                                      *)
LEMMA AreaSplits ==
  ASSUME NEW a \in Points, NEW b \in Points, NEW c \in Points, NEW p \in Points
  PROVE  Cross(a, b, c) = Cross(b, c, p) + Cross(c, a, p) + Cross(a, b, p)
<1> DEFINE ax == a[1]  ay == a[2]  bx == b[1]  by == b[2]  cx == c[1]  cy == c[2]
           px == p[1]  py == p[2]
<1>1. /\ ax \in Int /\ ay \in Int /\ bx \in Int /\ by \in Int /\ cx \in Int /\ cy \in Int
      /\ px \in Int /\ py \in Int
  BY DEF Points
<1>2. /\ Cross(a, b, c) = (bx - ax) * (cy - ay) - (by - ay) * (cx - ax)
      /\ Cross(b, c, p) = (cx - bx) * (py - by) - (cy - by) * (px - bx)
      /\ Cross(c, a, p) = (ax - cx) * (py - cy) - (ay - cy) * (px - cx)
      /\ Cross(a, b, p) = (bx - ax) * (py - ay) - (by - ay) * (px - ax)
  BY DEF Cross
<1> HIDE DEF ax, ay, bx, by, cx, cy, px, py
<1> QED
  BY <1>1, <1>2

(* A point inside a triangle of points, none of which is right of the edge    *)
(* u, v, is left of the edge.                                                 *)
LEMMA StrictlyLeft ==
  ASSUME NEW a \in Points, NEW b \in Points, NEW c \in Points,
         NEW p \in Points, NEW u \in Points, NEW v \in Points,
         u # v, Cross(u, v, a) >= 0, Cross(u, v, b) >= 0, Cross(u, v, c) >= 0,
         Cross(a, b, p) > 0, Cross(b, c, p) > 0, Cross(c, a, p) > 0
  PROVE  Cross(u, v, p) > 0
<1> DEFINE A == Cross(u, v, a)  B == Cross(u, v, b)  C == Cross(u, v, c)
           k == Cross(b, c, p)  l == Cross(c, a, p)  m == Cross(a, b, p)
           T == Cross(a, b, c)  X == Cross(u, v, p)
<1>1. /\ A \in Int /\ B \in Int /\ C \in Int /\ k \in Int /\ l \in Int /\ m \in Int
      /\ T \in Int /\ X \in Int
  BY CrossFacts
<1>2. T = k + l + m
  BY AreaSplits
<1>3. T * X = k * A + l * B + m * C
  BY Barycentric
<1>4. ~ (A = 0 /\ B = 0 /\ C = 0)
  <2>1. A = 0 /\ B = 0 /\ C = 0 => T = 0
    BY OnOneLine
  <2>2. T > 0
    BY <1>1, <1>2
  <2> QED
    BY <2>1, <2>2
<1>5. k > 0 /\ l > 0 /\ m > 0 /\ A >= 0 /\ B >= 0 /\ C >= 0
  OBVIOUS
<1> HIDE DEF A, B, C, k, l, m, T, X
<1>6. k * A \in Int /\ l * B \in Int /\ m * C \in Int /\ k * A >= 0 /\ l * B >= 0 /\ m * C >= 0
  BY <1>1, <1>5, SignOfProduct
<1>7. k * A > 0 \/ l * B > 0 \/ m * C > 0
  <2>1. A > 0 => k * A > 0
    BY <1>1, <1>5, SignOfFactor
  <2>2. B > 0 => l * B > 0
    BY <1>1, <1>5, SignOfFactor
  <2>3. C > 0 => m * C > 0
    BY <1>1, <1>5, SignOfFactor
  <2> QED
    BY <1>1, <1>4, <1>5, <2>1, <2>2, <2>3
<1>8. T * X > 0 /\ T > 0
  BY <1>1, <1>2, <1>3, <1>5, <1>6, <1>7
<1> QED
  BY <1>1, <1>8, SignOfFactor DEF X

(* Doubling keeps points apart and multiplies cross products by four.         *)
LEMMA TwiceFacts ==
  ASSUME NEW a \in Points, NEW b \in Points, NEW c \in Points
  PROVE  /\ Twice(a) \in Points
         /\ Cross(Twice(a), Twice(b), Twice(c)) = 4 * Cross(a, b, c)
         /\ a # b => Twice(a) # Twice(b)
<1> DEFINE ax == a[1]  ay == a[2]  bx == b[1]  by == b[2]  cx == c[1]  cy == c[2]
<1>1. /\ ax \in Int /\ ay \in Int /\ bx \in Int /\ by \in Int /\ cx \in Int /\ cy \in Int
      /\ a = <<ax, ay>> /\ b = <<bx, by>>
  BY DEF Points
<1>2. /\ Cross(a, b, c) = (bx - ax) * (cy - ay) - (by - ay) * (cx - ax)
      /\ Cross(Twice(a), Twice(b), Twice(c))
           = (2 * bx - 2 * ax) * (2 * cy - 2 * ay) - (2 * by - 2 * ay) * (2 * cx - 2 * ax)
  BY DEF Cross, Twice
<1>3. Twice(a) = <<2 * ax, 2 * ay>> /\ Twice(b) = <<2 * bx, 2 * by>>
  BY DEF Twice
<1> HIDE DEF ax, ay, bx, by, cx, cy
<1>4. (2 * bx - 2 * ax) * (2 * cy - 2 * ay) - (2 * by - 2 * ay) * (2 * cx - 2 * ax)
        = 4 * ((bx - ax) * (cy - ay) - (by - ay) * (cx - ax))
  BY <1>1
<1>5. Twice(a) \in Points
  BY <1>1, <1>3 DEF Points
<1>6. Twice(a) = Twice(b) => a = b
  BY <1>1, <1>3
<1> QED
  BY <1>2, <1>4, <1>5, <1>6

(* What lies inside a triangle of the points lies left of every edge.         *)
LEMMA InsideIsLeft ==
  ASSUME NEW P, P \subseteq Points, NEW ring, Surrounds(ring, P),
         NEW p \in Points, Strictly(p, P), NEW i \in 1..Len(ring)
  PROVE  Cross(Twice(ring[i]), Twice(ring[After(i, ring)]), p) > 0
<1>1. PICK a \in P, b \in P, c \in P :
        /\ Cross(Twice(a), Twice(b), p) > 0
        /\ Cross(Twice(b), Twice(c), p) > 0
        /\ Cross(Twice(c), Twice(a), p) > 0
  BY DEF Strictly
<1> DEFINE u == ring[i]
           v == ring[After(i, ring)]
<1>2. /\ ring \in Seq(P) /\ Len(ring) \in Nat /\ u # v
      /\ \A x \in P : Cross(u, v, x) >= 0
  BY DEF Surrounds
<1>3. After(i, ring) \in 1..Len(ring)
  BY <1>2 DEF After
<1>4. u \in Points /\ v \in Points /\ a \in Points /\ b \in Points /\ c \in Points
  BY <1>2, <1>3
<1>5. Cross(u, v, a) \in Int /\ Cross(u, v, b) \in Int /\ Cross(u, v, c) \in Int
  <2> HIDE DEF u, v
  <2> QED
    BY <1>4, CrossFacts
<1>6. Cross(u, v, a) >= 0 /\ Cross(u, v, b) >= 0 /\ Cross(u, v, c) >= 0
  BY <1>2
<1> HIDE DEF u, v
<1>7. /\ Twice(u) \in Points /\ Twice(v) \in Points /\ Twice(a) \in Points /\ Twice(b) \in Points
      /\ Twice(c) \in Points /\ Twice(u) # Twice(v)
  BY <1>2, <1>4, TwiceFacts
<1>8. /\ Cross(Twice(u), Twice(v), Twice(a)) >= 0
      /\ Cross(Twice(u), Twice(v), Twice(b)) >= 0
      /\ Cross(Twice(u), Twice(v), Twice(c)) >= 0
  <2>1. /\ Cross(Twice(u), Twice(v), Twice(a)) = 4 * Cross(u, v, a)
        /\ Cross(Twice(u), Twice(v), Twice(b)) = 4 * Cross(u, v, b)
        /\ Cross(Twice(u), Twice(v), Twice(c)) = 4 * Cross(u, v, c)
    BY <1>4, TwiceFacts
  <2> QED
    BY <1>5, <1>6, <2>1
<1>9. Cross(Twice(u), Twice(v), p) > 0
  BY <1>1, <1>7, <1>8, StrictlyLeft
<1> QED
  BY <1>9 DEF u, v

(* The mean of the vertices is not right of an edge either.                   *)
LEMMA MeanIs ==
  ASSUME NEW P, P \subseteq Points, NEW ring, Surrounds(ring, P)
  PROVE  /\ Mean(ring, 1) \in Int /\ Mean(ring, 2) \in Int
         /\ \A i \in 1..Len(ring) :
              LET a == ring[i]
                  b == ring[After(i, ring)]
                  n == Len(ring)
              IN (b[1] - a[1]) * (Mean(ring, 2) - n * a[2])
                   - (b[2] - a[2]) * (Mean(ring, 1) - n * a[1]) >= 0
<1> DEFINE n == Len(ring)
           X == [i \in 1..n |-> ring[i][1]]
           Y == [i \in 1..n |-> ring[i][2]]
<1>1. n \in Nat /\ n >= 1 /\ \A i \in 1..n : ring[i] \in P /\ ring[i] \in Points
  BY DEF Surrounds
<1>2. \A i \in 1..n : ring[i][1] \in Int /\ ring[i][2] \in Int
  BY <1>1 DEF Points
<1>3. X \in [1..n -> Int] /\ Y \in [1..n -> Int]
  BY <1>2
<1>4. Mean(ring, 1) = Total(X, n) /\ Mean(ring, 2) = Total(Y, n)
  BY DEF Mean
<1> HIDE DEF n
<1>5. PICK s \in [0..n -> Int] :
        s[0] = 0 /\ (\A i \in 1..n : s[i] = s[i - 1] + X[i]) /\ Total(X, n) = s[n]
  <2> HIDE DEF X
  <2> QED
    BY <1>1, <1>3, TotalIs
<1>6. PICK t \in [0..n -> Int] :
        t[0] = 0 /\ (\A i \in 1..n : t[i] = t[i - 1] + Y[i]) /\ Total(Y, n) = t[n]
  <2> HIDE DEF Y
  <2> QED
    BY <1>1, <1>3, TotalIs
<1>7. Mean(ring, 1) = s[n] /\ Mean(ring, 2) = t[n] /\ s[n] \in Int /\ t[n] \in Int
  BY <1>1, <1>4, <1>5, <1>6
<1>8. ASSUME NEW i \in 1..n
      PROVE  LET a == ring[i]
                 b == ring[After(i, ring)]
             IN (b[1] - a[1]) * (t[n] - n * a[2]) - (b[2] - a[2]) * (s[n] - n * a[1]) >= 0
  <2> DEFINE j == After(i, ring)
             ax == ring[i][1]  ay == ring[i][2]
             ex == ring[j][1] - ax  ey == ring[j][2] - ay
             S == {k \in 0..n : ex * (t[k] - k * ay) - ey * (s[k] - k * ax) >= 0}
  <2>1. j \in 1..n
    BY <1>1 DEF After, n
  <2>2. ax \in Int /\ ay \in Int /\ ex \in Int /\ ey \in Int
    BY <1>2, <2>1
  <2>3. \A k \in 1..n : ex * (ring[k][2] - ay) - ey * (ring[k][1] - ax) >= 0
    BY <1>1 DEF Surrounds, n, Cross
  <2> HIDE DEF ex, ey, ax, ay, j
  <2>4. 0 \in S
    <3>1. t[0] - 0 * ay = 0 /\ s[0] - 0 * ax = 0 /\ ex * 0 - ey * 0 = 0 /\ 0 \in 0..n
      BY <1>1, <1>5, <1>6, <2>2
    <3> QED
      BY <3>1
  <2>5. ASSUME NEW k \in 1..n, k - 1 \in S PROVE k \in S
    <3> DEFINE x == ring[k][1]  y == ring[k][2]  t0 == t[k - 1]  s0 == s[k - 1]
    <3>1. t[k] = t0 + y /\ s[k] = s0 + x /\ x \in Int /\ y \in Int /\ t0 \in Int /\ s0 \in Int
          /\ k \in Int /\ k \in 0..n
      <4>1. k - 1 \in 0..n
        BY <1>1
      <4> QED
        BY <1>2, <1>5, <1>6, <4>1
    <3>2. ex * (t0 - (k - 1) * ay) - ey * (s0 - (k - 1) * ax) >= 0
      BY <2>5
    <3>3. ex * (y - ay) - ey * (x - ax) >= 0
      BY <2>3
    <3> HIDE DEF x, y, t0, s0
    <3>4. ex * ((t0 + y) - k * ay) - ey * ((s0 + x) - k * ax)
            = (ex * (t0 - (k - 1) * ay) - ey * (s0 - (k - 1) * ax))
              + (ex * (y - ay) - ey * (x - ax))
      BY <2>2, <3>1
    <3>5. ex * ((t0 + y) - k * ay) - ey * ((s0 + x) - k * ax) >= 0
      BY <2>2, <3>1, <3>2, <3>3, <3>4
    <3> QED
      BY <3>1, <3>5
  <2>6. \A k \in 0..n : k \in S
    <3> HIDE DEF S
    <3> QED
      BY <1>1, <2>4, <2>5, Induct
  <2>7. n \in S
    BY <1>1, <2>6
  <2> QED
    BY <2>7 DEF ex, ey, ax, ay, j
<1> QED
  BY <1>7, <1>8 DEF n

------------------------------------------------------------------------------
(* The mask of a grown hull.                                                  *)

(* The centre of pixel p in the coordinates of a grown ring of n vertices.    *)
Scaled(p, n) == <<(2 * p[1] + 1) * 20 * n, (2 * p[2] + 1) * 20 * n>>
(* Twice the centre of pixel p.                                               *)
Pixel2(p) == <<2 * p[1] + 1, 2 * p[2] + 1>>

(* The side of a grown edge: away from the mean by m twentieths, every edge   *)
(* moves outward, so what was left of it stays left of it.                    *)
LEMMA GrownSide ==
  ASSUME NEW n \in Nat, n >= 1, NEW m \in Nat,
         NEW ex \in Int, NEW ey \in Int, NEW dx \in Int, NEW dy \in Int,
         NEW fx \in Int, NEW fy \in Int,
         ex * dy - ey * dx > 0, ex * fy - ey * fx >= 0
  PROVE  (2 * n * (20 + m) * ex) * (20 * n * dy + 2 * m * fy)
           - (2 * n * (20 + m) * ey) * (20 * n * dx + 2 * m * fx) > 0
<1> DEFINE A == ex * dy - ey * dx
           B == ex * fy - ey * fx
           k == 2 * n * (20 + m)
           l == 20 * n
           j == 2 * m
<1>1. A \in Int /\ B \in Int /\ A > 0 /\ B >= 0 /\ l \in Int /\ l > 0 /\ j \in Int /\ j >= 0
  OBVIOUS
<1>2. k \in Int /\ k > 0
  <2>1. 2 * n \in Int /\ 2 * n > 0 /\ 20 + m \in Int /\ 20 + m > 0
    OBVIOUS
  <2>2. (2 * n) * (20 + m) > 0
    BY <2>1, SignOfFactor
  <2> QED
    BY <2>2
<1>3. l * A > 0 /\ j * B >= 0 /\ l * A \in Int /\ j * B \in Int
  <2> HIDE DEF A, B, l, j
  <2> QED
    BY <1>1, SignOfFactor, SignOfProduct
<1>4. l * A + j * B > 0 /\ l * A + j * B \in Int
  <2> HIDE DEF A, B, l, j
  <2> QED
    BY <1>3
<1>5. k * (l * A + j * B) > 0
  <2> HIDE DEF A, B, l, j, k
  <2> QED
    BY <1>2, <1>4, SignOfFactor
<1>6. (k * ex) * (l * dy + j * fy) - (k * ey) * (l * dx + j * fx) = k * (l * A + j * B)
  <2> HIDE DEF l, j, k
  <2> QED
    BY <1>1, <1>2
<1> QED
  BY <1>5, <1>6

(* The grown ring has as many points as the ring.                             *)
LEMMA GrownIs ==
  ASSUME NEW P, P \subseteq Points, NEW ring, Surrounds(ring, P), HullMargin \in Nat
  PROVE  /\ DOMAIN Grown(ring, HullMargin) = 1..Len(ring) /\ Len(Grown(ring, HullMargin)) = Len(ring)
         /\ \A i \in 1..Len(ring) : Grown(ring, HullMargin)[i] \in Points
<1>1. /\ Len(ring) \in Nat /\ \A i \in 1..Len(ring) : ring[i] \in Points
      /\ Mean(ring, 1) \in Int /\ Mean(ring, 2) \in Int
  BY MeanIs DEF Surrounds
<1>2. \A i \in 1..Len(ring) : ring[i][1] \in Int /\ ring[i][2] \in Int
  BY <1>1 DEF Points
<1>3. /\ DOMAIN Grown(ring, HullMargin) = 1..Len(ring)
      /\ Grown(ring, HullMargin) = [i \in 1..Len(ring) |-> Grown(ring, HullMargin)[i]]
  BY <1>1 DEF Grown
<1>4. \A i \in 1..Len(ring) : Grown(ring, HullMargin)[i] \in Points
  <2> SUFFICES ASSUME NEW i \in 1..Len(ring) PROVE Grown(ring, HullMargin)[i] \in Points
    OBVIOUS
  <2> DEFINE n == Len(ring)  M1 == Mean(ring, 1)  M2 == Mean(ring, 2)
             x == ring[i][1]  y == ring[i][2]
  <2>1. n \in Int /\ M1 \in Int /\ M2 \in Int /\ x \in Int /\ y \in Int /\ HullMargin \in Int
    BY <1>1, <1>2
  <2>2. Grown(ring, HullMargin)[i]
          = <<2 * (20 * M1 + (n * x - M1) * (20 + HullMargin)),
              2 * (20 * M2 + (n * y - M2) * (20 + HullMargin))>>
    BY DEF Grown
  <2> HIDE DEF n, M1, M2, x, y
  <2>3. /\ 2 * (20 * M1 + (n * x - M1) * (20 + HullMargin)) \in Int
        /\ 2 * (20 * M2 + (n * y - M2) * (20 + HullMargin)) \in Int
    BY <2>1
  <2> QED
    BY <2>2, <2>3 DEF Points
<1>5. Len(Grown(ring, HullMargin)) = Len(ring)
  BY <1>1, <1>3, <1>4
<1> QED
  BY <1>3, <1>4, <1>5

(* What lies inside a triangle of the points is left of every grown edge.     *)
LEMMA GrownLeft ==
  ASSUME NEW P, P \subseteq Points, NEW ring, Surrounds(ring, P), HullMargin \in Nat,
         NEW p \in Points, Strictly(Pixel2(p), P), NEW i \in 1..Len(ring)
  PROVE  Cross(Grown(ring, HullMargin)[i], Grown(ring, HullMargin)[After(i, ring)],
               Scaled(p, Len(ring))) > 0
<1> DEFINE n == Len(ring)
           m == HullMargin
           j == After(i, ring)
           M1 == Mean(ring, 1)
           M2 == Mean(ring, 2)
           ax == ring[i][1]  ay == ring[i][2]  bx == ring[j][1]  by == ring[j][2]
           p1 == p[1]  p2 == p[2]
           ex == bx - ax  ey == by - ay
           dx == (2 * p1 + 1) - 2 * ax  dy == (2 * p2 + 1) - 2 * ay
           fx == M1 - n * ax  fy == M2 - n * ay
           G == Grown(ring, m)
<1>1. n \in Nat /\ n >= 1 /\ ring \in Seq(Points) /\ \A k \in 1..n : ring[k] \in Points
  BY DEF Surrounds
<1>2. j \in 1..n
  BY <1>1 DEF After
<1>3. /\ M1 \in Int /\ M2 \in Int
      /\ ex * fy - ey * fx >= 0
  BY MeanIs
<1>4. /\ ax \in Int /\ ay \in Int /\ bx \in Int /\ by \in Int /\ p1 \in Int /\ p2 \in Int
  BY <1>1, <1>2 DEF Points
<1>5. Pixel2(p) = <<2 * p1 + 1, 2 * p2 + 1>> /\ Pixel2(p) \in Points
  BY <1>4 DEF Pixel2, Points
<1>6. Cross(Twice(ring[i]), Twice(ring[j]), Pixel2(p)) > 0
  BY <1>5, InsideIsLeft
<1>7. Cross(Twice(ring[i]), Twice(ring[j]), Pixel2(p))
        = (2 * bx - 2 * ax) * ((2 * p2 + 1) - 2 * ay) - (2 * by - 2 * ay) * ((2 * p1 + 1) - 2 * ax)
  BY <1>5 DEF Cross, Twice
<1>8. /\ G[i] = <<2 * (20 * M1 + (n * ax - M1) * (20 + m)), 2 * (20 * M2 + (n * ay - M2) * (20 + m))>>
      /\ G[j] = <<2 * (20 * M1 + (n * bx - M1) * (20 + m)), 2 * (20 * M2 + (n * by - M2) * (20 + m))>>
  BY <1>2 DEF Grown
<1>9. Scaled(p, n) = <<(2 * p1 + 1) * 20 * n, (2 * p2 + 1) * 20 * n>>
  BY DEF Scaled
<1>10. m \in Nat
  OBVIOUS
<1>11. Cross(G[i], G[j], Scaled(p, n))
         = (2 * (20 * M1 + (n * bx - M1) * (20 + m)) - 2 * (20 * M1 + (n * ax - M1) * (20 + m)))
             * ((2 * p2 + 1) * 20 * n - 2 * (20 * M2 + (n * ay - M2) * (20 + m)))
           - (2 * (20 * M2 + (n * by - M2) * (20 + m)) - 2 * (20 * M2 + (n * ay - M2) * (20 + m)))
             * ((2 * p1 + 1) * 20 * n - 2 * (20 * M1 + (n * ax - M1) * (20 + m)))
  BY <1>8, <1>9 DEF Cross
<1> HIDE DEF n, m, j, M1, M2, ax, ay, bx, by, p1, p2, G
<1>12. ex * dy - ey * dx > 0
  <2>1. (2 * bx - 2 * ax) * ((2 * p2 + 1) - 2 * ay) - (2 * by - 2 * ay) * ((2 * p1 + 1) - 2 * ax)
          = 2 * (ex * dy - ey * dx)
    BY <1>4
  <2>2. ex * dy - ey * dx \in Int
    BY <1>4
  <2> QED
    BY <1>6, <1>7, <2>1, <2>2
<1>13. /\ ex \in Int /\ ey \in Int /\ dx \in Int /\ dy \in Int /\ fx \in Int /\ fy \in Int
  BY <1>1, <1>3, <1>4
<1>14. (2 * n * (20 + m) * ex) * (20 * n * dy + 2 * m * fy)
           - (2 * n * (20 + m) * ey) * (20 * n * dx + 2 * m * fx) > 0
  <2> HIDE DEF ex, ey, dx, dy, fx, fy
  <2> QED
    BY <1>1, <1>3, <1>10, <1>12, <1>13, GrownSide
<1>15. /\ 2 * (20 * M1 + (n * bx - M1) * (20 + m)) - 2 * (20 * M1 + (n * ax - M1) * (20 + m))
            = 2 * n * (20 + m) * ex
       /\ 2 * (20 * M2 + (n * by - M2) * (20 + m)) - 2 * (20 * M2 + (n * ay - M2) * (20 + m))
            = 2 * n * (20 + m) * ey
       /\ (2 * p1 + 1) * 20 * n - 2 * (20 * M1 + (n * ax - M1) * (20 + m)) = 20 * n * dx + 2 * m * fx
       /\ (2 * p2 + 1) * 20 * n - 2 * (20 * M2 + (n * ay - M2) * (20 + m)) = 20 * n * dy + 2 * m * fy
  BY <1>1, <1>3, <1>4, <1>10
<1>16. Cross(G[i], G[j], Scaled(p, n)) > 0
  BY <1>11, <1>14, <1>15
<1> QED
  BY <1>16 DEF G, m, j, n

(* A ring that has a point strictly left of each of its edges has a positive  *)
(* area.                                                                      *)
LEMMA AreaPositive ==
  ASSUME NEW g \in Seq(Points), Len(g) >= 1, NEW c \in Points,
         \A i \in 1..Len(g) : Cross(g[i], g[After(i, g)], c) > 0
  PROVE  Area2(g) > 0 /\ Len(g) >= 3
<1> DEFINE n == Len(g)
           f == [i \in 1..n |-> g[i][1] * g[After(i, g)][2] - g[After(i, g)][1] * g[i][2]]
           w == [i \in 1..n |-> g[i][1] * c[2] - g[i][2] * c[1]]
<1>1. n \in Nat /\ n >= 1 /\ \A i \in 1..n : g[i] \in Points /\ After(i, g) \in 1..n
  BY DEF After
<1>2. c[1] \in Int /\ c[2] \in Int /\ \A i \in 1..n : g[i][1] \in Int /\ g[i][2] \in Int
  BY <1>1 DEF Points
<1>3. f \in [1..n -> Int] /\ w \in [1..n -> Int]
  <2>1. ASSUME NEW i \in 1..n
        PROVE  /\ g[i][1] * g[After(i, g)][2] - g[After(i, g)][1] * g[i][2] \in Int
               /\ g[i][1] * c[2] - g[i][2] * c[1] \in Int
    <3> DEFINE ax == g[i][1]  ay == g[i][2]  bx == g[After(i, g)][1]  by == g[After(i, g)][2]
               cx == c[1]  cy == c[2]
    <3>1. /\ ax \in Int /\ ay \in Int /\ bx \in Int /\ by \in Int /\ cx \in Int /\ cy \in Int
      BY <1>1, <1>2
    <3> HIDE DEF ax, ay, bx, by, cx, cy
    <3>2. ax * by - bx * ay \in Int /\ ax * cy - ay * cx \in Int
      BY <3>1
    <3> QED
      BY <3>2 DEF ax, ay, bx, by, cx, cy
  <2> QED
    BY <2>1
<1>4. ASSUME NEW i \in 1..n PROVE f[i] + w[After(i, g)] - w[i] > 0
  <2> DEFINE j == After(i, g)
             ax == g[i][1]  ay == g[i][2]  bx == g[j][1]  by == g[j][2]  cx == c[1]  cy == c[2]
  <2>1. /\ ax \in Int /\ ay \in Int /\ bx \in Int /\ by \in Int /\ cx \in Int /\ cy \in Int
    BY <1>1, <1>2
  <2>2. (bx - ax) * (cy - ay) - (by - ay) * (cx - ax) > 0
    BY DEF Cross
  <2>3. f[i] = ax * by - bx * ay /\ w[i] = ax * cy - ay * cx /\ w[j] = bx * cy - by * cx
    BY <1>1
  <2> HIDE DEF ax, ay, bx, by, cx, cy
  <2>4. (ax * by - bx * ay) + (bx * cy - by * cx) - (ax * cy - ay * cx)
          = (bx - ax) * (cy - ay) - (by - ay) * (cx - ax)
    BY <2>1
  <2> QED
    BY <2>2, <2>3, <2>4
<1>5. Area2(g) = Total(f, n)
  BY DEF Area2
<1> HIDE DEF f, w
<1>6. PICK t \in [0..n -> Int] :
        t[0] = 0 /\ (\A i \in 1..n : t[i] = t[i - 1] + f[i]) /\ Total(f, n) = t[n]
  <2> HIDE DEF n
  <2> QED
    BY <1>1, <1>3, TotalIs
<1> DEFINE S == {k \in 0..(n - 1) : t[k] + w[k + 1] - w[1] >= 0}
<1>7. 0 \in S
  <2>1. 0 \in 0..(n - 1) /\ 1 \in 1..n /\ 0 + 1 = 1
    BY <1>1
  <2> QED
    BY <1>3, <1>6, <2>1
<1>8. ASSUME NEW k \in 1..(n - 1), k - 1 \in S PROVE k \in S
  <2>1. k \in 1..n /\ k + 1 \in 1..n /\ After(k, g) = k + 1 /\ k - 1 \in 0..n /\ (k - 1) + 1 = k
        /\ 1 \in 1..n /\ k \in 0..(n - 1)
    BY <1>1 DEF After
  <2>2. t[k - 1] \in Int /\ f[k] \in Int /\ w[k] \in Int /\ w[k + 1] \in Int /\ w[1] \in Int
    BY <1>3, <1>6, <2>1
  <2>3. t[k - 1] + w[k] - w[1] >= 0 /\ f[k] + w[k + 1] - w[k] > 0 /\ t[k] = t[k - 1] + f[k]
    BY <1>4, <1>6, <1>8, <2>1
  <2> QED
    BY <2>1, <2>2, <2>3
<1>9. n - 1 \in S
  <2>1. n - 1 \in Nat /\ n - 1 \in 0..(n - 1)
    BY <1>1
  <2>2. \A k \in 0..(n - 1) : k \in S
    <3> HIDE DEF S, n
    <3> QED
      BY <1>7, <1>8, <2>1, Induct
  <2> QED
    BY <2>1, <2>2
<1>10. Area2(g) > 0
  <2>1. n \in 1..n /\ n - 1 \in 0..n /\ (n - 1) + 1 = n /\ After(n, g) = 1 /\ 1 \in 1..n
    BY <1>1 DEF After
  <2>2. t[n - 1] \in Int /\ f[n] \in Int /\ w[n] \in Int /\ w[1] \in Int
    BY <1>3, <1>6, <2>1
  <2>3. t[n - 1] + w[n] - w[1] >= 0 /\ f[n] + w[1] - w[n] > 0 /\ t[n] = t[n - 1] + f[n]
    BY <1>4, <1>6, <1>9, <2>1
  <2> QED
    BY <1>5, <1>6, <2>2, <2>3
<1>11. n # 1
  <2> SUFFICES ASSUME n = 1 PROVE FALSE
    OBVIOUS
  <2>1. After(1, g) = 1 /\ Cross(g[1], g[1], c) > 0 /\ g[1] \in Points
    BY <1>1 DEF After
  <2> QED
    BY <2>1, CrossFacts
<1>12. n # 2
  <2> SUFFICES ASSUME n = 2 PROVE FALSE
    OBVIOUS
  <2>1. After(1, g) = 2 /\ After(2, g) = 1
    BY DEF After
  <2>2. Cross(g[1], g[2], c) > 0 /\ Cross(g[2], g[1], c) > 0 /\ g[1] \in Points /\ g[2] \in Points
    BY <1>1, <2>1
  <2>3. Cross(g[1], g[2], c) = - Cross(g[2], g[1], c) /\ Cross(g[2], g[1], c) \in Int
    BY <2>2, CrossFacts
  <2> QED
    BY <2>2, <2>3
<1> QED
  BY <1>1, <1>10, <1>11, <1>12

(* A point strictly inside a triangle of some points needs three of them.     *)
LEMMA Corners ==
  ASSUME NEW P, IsFiniteSet(P), P \subseteq Points, NEW p \in Points, Strictly(p, P)
  PROVE  Cardinality(P) >= 3
<1>1. PICK a \in P, b \in P, c \in P :
        /\ Cross(Twice(a), Twice(b), p) > 0
        /\ Cross(Twice(b), Twice(c), p) > 0
        /\ Cross(Twice(c), Twice(a), p) > 0
  BY DEF Strictly
<1>2. ASSUME NEW x \in P, NEW y \in P, Cross(Twice(x), Twice(y), p) > 0 PROVE x # y
  <2>1. x \in Points /\ Twice(x) \in Points
    BY TwiceFacts
  <2>2. Cross(Twice(x), Twice(x), p) = - Cross(Twice(x), Twice(x), p) /\ Cross(Twice(x), Twice(x), p) \in Int
    BY <2>1, CrossFacts
  <2> QED
    BY <1>2, <2>2
<1>3. a # b /\ b # c /\ c # a
  BY <1>1, <1>2
<1>4. Cardinality({}) = 0 /\ IsFiniteSet({})
  BY FS_EmptySet
<1>5. Cardinality({a}) = 1 /\ IsFiniteSet({a})
  BY FS_Singleton
<1>6. Cardinality({a} \cup {b}) = 2 /\ IsFiniteSet({a} \cup {b})
  <2>1. b \notin {a} /\ 1 + 1 = 2
    BY <1>3
  <2> QED
    BY <1>5, <2>1, FS_AddElement
<1>7. Cardinality(({a} \cup {b}) \cup {c}) = 3
  <2>1. c \notin {a} \cup {b} /\ 2 + 1 = 3
    BY <1>3
  <2> QED
    BY <1>6, <2>1, FS_AddElement
<1>8. ({a} \cup {b}) \cup {c} \subseteq P
  OBVIOUS
<1> QED
  BY <1>7, <1>8, FS_Subset

(* The polygon mask of the hull covers every pixel whose centre lies inside.  *)
THEOREM MaskCoversHull ==
  ASSUME NEW P, IsFiniteSet(P), P \subseteq Points, HullMargin \in Nat,
         NEW p \in Frame, p \in Points, Strictly(Pixel2(p), P)
  PROVE  p \in PolygonMask(Hull(P), HullMargin)
<1>1. Pixel2(p) \in Points
  BY DEF Pixel2, Points
<1>2. PICK ring : ring = Hull(P)
  OBVIOUS
<1>3. Surrounds(ring, P)
  BY <1>1, <1>2, Corners, HullSurrounds
<1>4. PICK g : g = Grown(ring, HullMargin)
  OBVIOUS
<1>5. PICK n : n = Len(ring)
  OBVIOUS
<1>6. n \in Nat /\ n >= 1 /\ ring \in Seq(Points)
  BY <1>3, <1>5 DEF Surrounds
<1>7. DOMAIN g = 1..n /\ Len(g) = n /\ \A i \in 1..n : g[i] \in Points
  BY <1>3, <1>4, <1>5, GrownIs
<1>8. g \in Seq(Points)
  <2>1. g = [i \in 1..n |-> g[i]]
    BY <1>3, <1>4, <1>5 DEF Grown
  <2>2. g \in [1..n -> Points]
    BY <1>7, <2>1
  <2> QED
    BY <1>6, <2>2
<1>9. PICK c : c = Scaled(p, n)
  OBVIOUS
<1>10. \A i \in 1..n : Cross(g[i], g[After(i, ring)], c) > 0
  BY <1>3, <1>1, <1>4, <1>5, <1>9, GrownLeft
<1>11. \A i \in 1..n : After(i, g) = After(i, ring) /\ After(i, ring) \in 1..n
  BY <1>5, <1>6, <1>7 DEF After
<1>12. c \in Points /\ c = <<(2 * p[1] + 1) * 20 * n, (2 * p[2] + 1) * 20 * n>>
  BY <1>6, <1>9 DEF Scaled, Points
<1>13. Area2(g) > 0 /\ n >= 3
  <2>1. \A i \in 1..Len(g) : Cross(g[i], g[After(i, g)], c) > 0
    BY <1>7, <1>10, <1>11
  <2> QED
    BY <1>6, <1>7, <1>8, <1>12, <2>1, AreaPositive
<1>14. PICK a : a = Area2(g)
  OBVIOUS
<1>15. /\ ~ (n < 3 \/ a = 0) /\ (IF a > 0 THEN 1 ELSE -1) = 1
  BY <1>6, <1>13, <1>14
<1>16. \A i \in 1..n : Cross(g[i], g[After(i, ring)], c) * 1 >= 0
  <2> TAKE i \in 1..n
  <2>1. Cross(g[i], g[After(i, ring)], c) \in Int
    BY <1>7, <1>11, <1>12, CrossFacts
  <2> QED
    BY <1>10, <2>1
<1>17. PolygonMask(ring, HullMargin)
         = {x \in Frame : \A i \in 1..n :
              Cross(g[i], g[After(i, ring)], <<(2 * x[1] + 1) * 20 * n, (2 * x[2] + 1) * 20 * n>>) * 1 >= 0}
  BY <1>4, <1>5, <1>14, <1>15 DEF PolygonMask
<1> QED
  BY <1>2, <1>12, <1>16, <1>17

------------------------------------------------------------------------------
(* The ellipse of a box, and the box of a learning camera.                    *)

(* A box that lies in the frame and is not empty.                             *)
IsBox(b) ==
  /\ b[1] \in Int /\ b[2] \in Int /\ b[3] \in Int /\ b[4] \in Int
  /\ 0 <= b[1] /\ b[1] < b[3] /\ b[3] <= FrameW
  /\ 0 <= b[2] /\ b[2] < b[4] /\ b[4] <= FrameH

(* What the assumptions say of the frame and the boxes (models.rs 641-651).   *)
LEMMA BoxFacts ==
  /\ FrameW \in Nat /\ FrameW >= 2 /\ FrameH \in Nat /\ FrameH >= 2
  /\ \A d \in Faces \cup Persons : IsBox(d.box) /\ IsFiniteSet(d.kps) /\ d.kps \subseteq Points
<1>1. /\ FrameW \in Nat /\ FrameW >= 2 /\ FrameH \in Nat /\ FrameH >= 2
  BY FrameAssumption
<1>2. ASSUME NEW d \in Faces \cup Persons
      PROVE  IsBox(d.box) /\ IsFiniteSet(d.kps) /\ d.kps \subseteq Points
  <2>1. /\ IsFiniteSet(d.kps) /\ d.kps \subseteq Int \X Int
        /\ d.box \in Int \X Int \X Int \X Int
        /\ 0 <= d.box[1] /\ d.box[1] < d.box[3] /\ d.box[3] <= FrameW
        /\ 0 <= d.box[2] /\ d.box[2] < d.box[4] /\ d.box[4] <= FrameH
    BY FrameAssumption
  <2> QED
    BY <2>1 DEF IsBox, Points
<1> QED
  BY <1>1, <1>2

(* The square of at most half a pixel, in the units of the ellipse.           *)
LEMMA SmallSquare ==
  ASSUME NEW v \in -1..1
  PROVE  (20 * v) * (20 * v) \in 0..400
<1>1. v = -1 \/ v = 0 \/ v = 1
  OBVIOUS
<1> QED
  BY <1>1

(* A pixel at most half a pixel from the centre lies in every ellipse with    *)
(* radii of a pixel or more.                                                  *)
LEMMA NearIsCovered ==
  ASSUME NEW x \in 0..400, NEW y \in 0..400, NEW rx \in Int, NEW ry \in Int, rx >= 40, ry >= 40
  PROVE  x <= rx * rx /\ y <= ry * ry /\ x * ry * ry + y * rx * rx <= rx * rx * ry * ry
<1> DEFINE a == rx * rx  b == ry * ry
<1>1. a \in Int /\ b \in Int /\ a >= 1600 /\ b >= 1600
  <2>1. ASSUME NEW r \in Int, r >= 40 PROVE r * r >= 1600
    <3>1. (r - 40) * (r + 40) >= 0
      BY <2>1, SignOfProduct
    <3>2. (r - 40) * (r + 40) = r * r - 1600
      OBVIOUS
    <3> QED
      BY <3>1, <3>2
  <2> QED
    BY <2>1
<1>2. x * ry * ry = x * b /\ y * rx * rx = y * a /\ rx * rx * ry * ry = a * b
  OBVIOUS
<1>3. x * b <= 400 * b /\ y * a <= 400 * a /\ x * b \in Int /\ y * a \in Int
  <2> HIDE DEF a, b
  <2>1. (400 - x) * b >= 0 /\ (400 - y) * a >= 0
    BY <1>1, SignOfProduct
  <2> QED
    BY <1>1, <2>1
<1>4. 800 * b <= a * b /\ 800 * a <= a * b
  <2> HIDE DEF a, b
  <2>1. (a - 800) * b >= 0 /\ (b - 800) * a >= 0
    BY <1>1, SignOfProduct
  <2> QED
    BY <1>1, <2>1
<1>5. x * b + y * a <= a * b
  <2> DEFINE ab == a * b  xb == x * b  ya == y * a
  <2>1. ab \in Int /\ xb \in Int /\ ya \in Int
    BY <1>1
  <2>2. xb <= 400 * b /\ ya <= 400 * a /\ 800 * b <= ab /\ 800 * a <= ab
    BY <1>3, <1>4
  <2>3. a \in Int /\ b \in Int
    BY <1>1
  <2> HIDE DEF a, b, ab, xb, ya
  <2>4. xb + ya <= ab
    BY <2>1, <2>2, <2>3
  <2> QED
    BY <2>4 DEF ab, xb, ya
<1> QED
  BY <1>1, <1>2, <1>5

(* The ellipse of a box has radii of a pixel at least, so it covers the       *)
(* pixels nearest to the centre (pipeline.rs 563-620).                        *)
LEMMA MiddleInEllipse ==
  ASSUME NEW d, IsBox(d.box), EllipseMargin \in Nat
  PROVE  Middle(d) \subseteq EllipseMask(d.box, EllipseMargin)
<1> SUFFICES ASSUME NEW p \in Middle(d) PROVE p \in EllipseMask(d.box, EllipseMargin)
  OBVIOUS
<1> DEFINE b == d.box
           b1 == b[1]  b2 == b[2]  b3 == b[3]  b4 == b[4]
           p1 == p[1]  p2 == p[2]
           vx == 2 * p1 - b1 - b3
           vy == 2 * p2 - b2 - b4
           dx == 20 * vx
           dy == 20 * vy
           rx == Larger(Width(b) * (20 + EllipseMargin), 40)
           ry == Larger(Height(b) * (20 + EllipseMargin), 40)
<1>1. /\ p \in Frame /\ 2 * p1 - (b1 + b3) \in -1..1 /\ 2 * p2 - (b2 + b4) \in -1..1
  BY DEF Middle, Centre2
<1>2. /\ b1 \in Int /\ b2 \in Int /\ b3 \in Int /\ b4 \in Int
  BY DEF IsBox
<1>3. p1 \in Int /\ p2 \in Int
  BY <1>1, BoxFacts DEF Frame
<1>4. vx \in -1..1 /\ vy \in -1..1
  BY <1>1, <1>2, <1>3
<1>5. rx \in Int /\ ry \in Int /\ rx >= 40 /\ ry >= 40
  <2>1. Width(b) \in Int /\ Height(b) \in Int
    BY <1>2 DEF Width, Height, Larger
  <2>2. Width(b) * (20 + EllipseMargin) \in Int /\ Height(b) * (20 + EllipseMargin) \in Int
    <3> HIDE DEF b
    <3> QED
      BY <2>1
  <2> HIDE DEF b
  <2> QED
    BY <2>2 DEF Larger
<1>6. dx * dx \in 0..400 /\ dy * dy \in 0..400
  <2> HIDE DEF vx, vy
  <2> QED
    BY <1>4, SmallSquare
<1>7. /\ dx * dx <= rx * rx /\ dy * dy <= ry * ry
      /\ (dx * dx) * ry * ry + (dy * dy) * rx * rx <= rx * rx * ry * ry
  <2> HIDE DEF dx, dy, rx, ry
  <2> QED
    BY <1>5, <1>6, NearIsCovered
<1>8. EllipseMask(b, EllipseMargin)
        = {q \in Frame :
             /\ (20 * (2 * q[1] - b1 - b3)) * (20 * (2 * q[1] - b1 - b3)) <= rx * rx
             /\ (20 * (2 * q[2] - b2 - b4)) * (20 * (2 * q[2] - b2 - b4)) <= ry * ry
             /\ (20 * (2 * q[1] - b1 - b3)) * (20 * (2 * q[1] - b1 - b3)) * ry * ry
                  + (20 * (2 * q[2] - b2 - b4)) * (20 * (2 * q[2] - b2 - b4)) * rx * rx
                  <= rx * rx * ry * ry}
  BY DEF EllipseMask
<1> QED
  <2> HIDE DEF rx, ry
  <2> QED
    BY <1>1, <1>7, <1>8

(* The box that an image of a learning camera is blurred in covers the box    *)
(* of the face, and never degenerates to a line (models.rs 239-247,           *)
(* pipeline.rs 788-793).                                                      *)
LEMMA InsideInExpanded ==
  ASSUME NEW b, IsBox(b), cfg.op \in {"blur", "pixelate"}
  PROVE  Inside(b) \subseteq Expanded(b)
<1> DEFINE b1 == b[1]  b2 == b[2]  b3 == b[3]  b4 == b[4]
           W == FrameW  H == FrameH
           m == 3 * Larger(Width(b), Height(b))
           x0 == Larger((20 * b1 - m) \div 20, 0)
           y0 == Larger((20 * b2 - m) \div 20, 0)
           x1 == Smaller(-((-(20 * b3 + m)) \div 20), W)
           y1 == Smaller(-((-(20 * b4 + m)) \div 20), H)
           Far(v, size) == IF cfg.op = "blur" THEN Smaller(v, size - 1) ELSE Smaller(v, size) - 1
           rx == Smaller(x0, W - 1) .. Far(x1, W)
           ry == Smaller(y0, H - 1) .. Far(y1, H)
<1>1. Expanded(b) = IF cfg.op = "blur" /\ (Cardinality(rx) < 2 \/ Cardinality(ry) < 2)
                    THEN {} ELSE rx \X ry
  BY DEF Expanded, Region
<1>2. Inside(b) = (b1..(b3 - 1)) \X (b2..(b4 - 1))
  BY DEF Inside
<1>3. /\ b1 \in Int /\ b2 \in Int /\ b3 \in Int /\ b4 \in Int
      /\ 0 <= b1 /\ b1 < b3 /\ b3 <= W /\ 0 <= b2 /\ b2 < b4 /\ b4 <= H
      /\ W \in Nat /\ W >= 2 /\ H \in Nat /\ H >= 2
  BY BoxFacts DEF IsBox
<1>4. m \in Int /\ m >= 3
  <2>1. Width(b) = b3 - b1 /\ Height(b) = b4 - b2
    BY <1>3 DEF Width, Height, Larger
  <2> HIDE DEF b1, b2, b3, b4, W, H
  <2> QED
    BY <1>3, <2>1 DEF Larger
<1>5. cfg.op = "blur" \/ cfg.op # "blur"
  OBVIOUS
<1> DEFINE fx == Far(x1, W)  fy == Far(y1, H)
<1>6. /\ fx = IF cfg.op = "blur" THEN Smaller(x1, W - 1) ELSE Smaller(x1, W) - 1
      /\ fy = IF cfg.op = "blur" THEN Smaller(y1, H - 1) ELSE Smaller(y1, H) - 1
      /\ rx = Smaller(x0, W - 1) .. fx /\ ry = Smaller(y0, H - 1) .. fy
  OBVIOUS
<1> HIDE DEF b1, b2, b3, b4, W, H, m, Far, fx, fy, rx, ry
<1>7. ASSUME NEW u \in Int, NEW v \in Int, NEW s \in Nat, s >= 2, 0 <= u, u < v, v <= s
      PROVE  LET lo == Smaller(Larger((20 * u - m) \div 20, 0), s - 1)
                 e  == Smaller(-((-(20 * v + m)) \div 20), s)
             IN /\ lo \in Int /\ lo <= u /\ lo >= 0
                /\ Smaller(e, s - 1) \in Int /\ Smaller(e, s - 1) >= v - 1
                /\ Smaller(e, s - 1) >= lo + 1
                /\ Smaller(e, s) - 1 \in Int /\ Smaller(e, s) - 1 >= v - 1
  <2> DEFINE fl == (20 * u - m) \div 20
             g == (-(20 * v + m)) \div 20
  <2>1. fl \in Int /\ fl <= u - 1
    BY <1>4
  <2>2. g \in Int /\ -g >= v + 1
    BY <1>4
  <2> HIDE DEF fl, g
  <2> QED
    BY <1>7, <2>1, <2>2 DEF Smaller, Larger, fl, g
<1>8. /\ Smaller(x0, W - 1) \in Int /\ Smaller(x0, W - 1) <= b1 /\ fx \in Int /\ fx >= b3 - 1
      /\ cfg.op = "blur" => fx >= Smaller(x0, W - 1) + 1
  BY <1>3, <1>6, <1>7
<1>9. /\ Smaller(y0, H - 1) \in Int /\ Smaller(y0, H - 1) <= b2 /\ fy \in Int /\ fy >= b4 - 1
      /\ cfg.op = "blur" => fy >= Smaller(y0, H - 1) + 1
  BY <1>3, <1>6, <1>7
<1> HIDE DEF x0, x1, y0, y1
<1>10. cfg.op = "blur" => Cardinality(rx) >= 2 /\ Cardinality(ry) >= 2
  <2>1. ASSUME NEW lo \in Int, NEW hi \in Int, hi >= lo + 1 PROVE Cardinality(lo..hi) >= 2
    <3>1. Cardinality(lo..hi) = hi - lo + 1
      BY <2>1, FS_Interval
    <3> QED
      BY <2>1, <3>1
  <2> QED
    BY <1>6, <1>8, <1>9, <2>1
<1>11. Expanded(b) = rx \X ry
  <2>1. cfg.op = "blur" => ~ (Cardinality(rx) < 2) /\ ~ (Cardinality(ry) < 2)
    <3>1. ASSUME NEW lo \in Int, NEW hi \in Int PROVE Cardinality(lo..hi) \in Int
      BY FS_Interval, FS_CardinalityType
    <3>2. Cardinality(rx) \in Int /\ Cardinality(ry) \in Int
      BY <1>6, <1>8, <1>9, <3>1
    <3> QED
      BY <1>10, <3>2
  <2> QED
    BY <1>1, <2>1
<1>12. b1..(b3 - 1) \subseteq rx /\ b2..(b4 - 1) \subseteq ry
  BY <1>3, <1>6, <1>8, <1>9
<1> QED
  BY <1>2, <1>11, <1>12

------------------------------------------------------------------------------
(* The ray-casting test.                                                      *)

(* Around a ring a condition on the vertices changes an even number of        *)
(* times.                                                                     *)
LEMMA ChangesAreEven ==
  ASSUME NEW n \in Nat, n >= 1, NEW h \in [1..n -> BOOLEAN]
  PROVE  Cardinality({i \in 1..n : h[IF i = n THEN 1 ELSE i + 1] # h[i]}) % 2 = 0
<1> DEFINE C(k) == {i \in 1..k : h[i + 1] # h[i]}
           S == {k \in 0..(n - 1) : /\ IsFiniteSet(C(k))
                                    /\ Cardinality(C(k)) % 2 = IF h[k + 1] # h[1] THEN 1 ELSE 0}
           A == {i \in 1..n : h[IF i = n THEN 1 ELSE i + 1] # h[i]}
<1>1. 0 \in S
  <2>1. C(0) = {} /\ 0 \in 0..(n - 1) /\ 0 + 1 = 1 /\ 0 % 2 = 0
    OBVIOUS
  <2>2. IsFiniteSet({}) /\ Cardinality({}) = 0
    BY FS_EmptySet
  <2> QED
    BY <2>1, <2>2
<1>2. ASSUME NEW k \in 1..(n - 1), k - 1 \in S PROVE k \in S
  <2>1. /\ k \in 1..n /\ k + 1 \in 1..n /\ (k - 1) + 1 = k /\ k \in 0..(n - 1) /\ 1 \in 1..n
        /\ k \notin C(k - 1)
    OBVIOUS
  <2>2. C(k) = IF h[k + 1] # h[k] THEN C(k - 1) \cup {k} ELSE C(k - 1)
    <3>1. \A i \in Int : i \in 1..k <=> (i \in 1..(k - 1) \/ i = k)
      BY <2>1
    <3>2. 1..k \subseteq Int /\ 1..(k - 1) \subseteq Int /\ k \in Int
      OBVIOUS
    <3> QED
      BY <3>1, <3>2
  <2>3. /\ IsFiniteSet(C(k - 1)) /\ Cardinality(C(k - 1)) \in Nat
        /\ Cardinality(C(k - 1)) % 2 = IF h[k] # h[1] THEN 1 ELSE 0
    BY <1>2, <2>1, FS_CardinalityType
  <2>4. h[k] \in BOOLEAN /\ h[k + 1] \in BOOLEAN /\ h[1] \in BOOLEAN
    BY <2>1
  <2>5. CASE h[k + 1] = h[k]
    BY <2>1, <2>2, <2>3, <2>5
  <2>6. CASE h[k + 1] # h[k]
    <3> DEFINE c == Cardinality(C(k - 1))
    <3>1. C(k) = C(k - 1) \cup {k}
      BY <2>2, <2>6
    <3>2. IsFiniteSet(C(k)) /\ Cardinality(C(k)) = c + 1
      <4> HIDE DEF C
      <4> QED
        BY <2>1, <2>3, <3>1, FS_AddElement
    <3>3. (h[k + 1] # h[1]) <=> ~ (h[k] # h[1])
      BY <2>4, <2>6
    <3>4. (c + 1) % 2 = IF h[k + 1] # h[1] THEN 1 ELSE 0
      <4>1. c % 2 = 0 => (c + 1) % 2 = 1
        <5> HIDE DEF c
        <5> QED
          BY <2>3 DEF c
      <4>2. c % 2 = 1 => (c + 1) % 2 = 0
        <5> HIDE DEF c
        <5> QED
          BY <2>3 DEF c
      <4> HIDE DEF c
      <4> QED
        BY <2>3, <3>3, <4>1, <4>2 DEF c
    <3> HIDE DEF c, C
    <3> QED
      BY <2>1, <3>2, <3>4
  <2> QED
    BY <2>5, <2>6
<1>3. n - 1 \in S
  <2>1. n - 1 \in Nat /\ n - 1 \in 0..(n - 1)
    OBVIOUS
  <2>2. \A k \in 0..(n - 1) : k \in S
    <3> HIDE DEF S
    <3> QED
      BY <1>1, <1>2, <2>1, Induct
  <2> QED
    BY <2>1, <2>2
<1>4. n \in 1..n /\ (n - 1) + 1 = n /\ 1 \in 1..n /\ n \notin C(n - 1)
  OBVIOUS
<1>5. A = IF h[1] # h[n] THEN C(n - 1) \cup {n} ELSE C(n - 1)
  <2>1. \A i \in Int : i \in 1..n <=> (i \in 1..(n - 1) \/ i = n)
    OBVIOUS
  <2>2. 1..n \subseteq Int /\ 1..(n - 1) \subseteq Int /\ n \in Int /\ \A i \in 1..(n - 1) : i # n
    OBVIOUS
  <2> QED
    BY <2>1, <2>2
<1>6. /\ IsFiniteSet(C(n - 1)) /\ Cardinality(C(n - 1)) \in Nat
      /\ Cardinality(C(n - 1)) % 2 = IF h[n] # h[1] THEN 1 ELSE 0
  BY <1>3, <1>4, FS_CardinalityType
<1>7. CASE h[1] = h[n]
  <2> HIDE DEF C
  <2> QED
    BY <1>5, <1>6, <1>7
<1>8. CASE h[1] # h[n]
  <2> DEFINE c == Cardinality(C(n - 1))
  <2>1. A = C(n - 1) \cup {n}
    BY <1>5, <1>8
  <2>2. Cardinality(A) = c + 1
    <3> HIDE DEF C, A
    <3> QED
      BY <1>4, <1>6, <2>1, FS_AddElement
  <2>3. c \in Nat /\ c % 2 = 1
    BY <1>6, <1>8
  <2> HIDE DEF c
  <2>4. (c + 1) % 2 = 0
    BY <2>3
  <2> QED
    BY <2>2, <2>4
<1> QED
  BY <1>7, <1>8

(* An edge that crosses the height of the origin does so on one side of a     *)
(* line that its two ends are left of, seen from the origin.                  *)
LEMMA CrossingSide ==
  ASSUME NEW ux \in Int, NEW uy \in Int, NEW ax \in Int, NEW ay \in Int, NEW bx \in Int, NEW by \in Int,
         ay <= 0, by > 0, ux * ay - uy * ax > 0, ux * by - uy * bx > 0
  PROVE  uy * (by * ax - ay * bx) < 0
<1> DEFINE la == ux * ay - uy * ax
           lb == ux * by - uy * bx
<1>1. la \in Int /\ lb \in Int /\ la > 0 /\ lb > 0
  OBVIOUS
<1>2. by * la > 0 /\ (-ay) * lb >= 0 /\ by * la \in Int /\ (-ay) * lb \in Int
  <2> HIDE DEF la, lb
  <2>1. -ay \in Int /\ -ay >= 0
    OBVIOUS
  <2> QED
    BY <1>1, <2>1, SignOfFactor, SignOfProduct
<1>3. by * la + (-ay) * lb = - (uy * (by * ax - ay * bx))
  OBVIOUS
<1>4. uy * (by * ax - ay * bx) \in Int
  OBVIOUS
<1> QED
  <2> HIDE DEF la, lb
  <2> QED
    BY <1>2, <1>3, <1>4

(* Vertex i lies above the height of p.                                       *)
Above(ring, p, i) == 2 * ring[i][2] > p[2]

(* The crossing test, by the side of the edge that the point is on.           *)
LEMMA CrossesIs ==
  ASSUME NEW ring \in Seq(Points), NEW p \in Points, NEW i \in 1..Len(ring)
  PROVE  LET b == Twice(ring[i])
             a == Twice(ring[After(i, ring)])
         IN Crosses(ring, i, p) <=>
              \/ Above(ring, p, i) /\ ~Above(ring, p, After(i, ring)) /\ Cross(a, b, p) > 0
              \/ ~Above(ring, p, i) /\ Above(ring, p, After(i, ring)) /\ Cross(b, a, p) > 0
<1> DEFINE j == After(i, ring)
           bx == 2 * ring[i][1]  by == 2 * ring[i][2]
           ax == 2 * ring[j][1]  ay == 2 * ring[j][2]
           px == p[1]  py == p[2]
<1>1. j \in 1..Len(ring) /\ ring[i] \in Points /\ ring[j] \in Points
  BY DEF After
<1>2. ax \in Int /\ ay \in Int /\ bx \in Int /\ by \in Int /\ px \in Int /\ py \in Int
  <2>1. p \in Int \X Int /\ ring[i] \in Int \X Int /\ ring[j] \in Int \X Int
    BY <1>1 DEF Points
  <2> HIDE DEF j
  <2> QED
    BY <2>1
<1>3. Crosses(ring, i, p) <=>
        /\ (ay > py) # (by > py)
        /\ IF by > ay THEN (px - ax) * (by - ay) < (bx - ax) * (py - ay)
           ELSE (px - ax) * (by - ay) > (bx - ax) * (py - ay)
  BY DEF Crosses
<1>4. /\ Cross(Twice(ring[j]), Twice(ring[i]), p) = (bx - ax) * (py - ay) - (by - ay) * (px - ax)
      /\ Cross(Twice(ring[i]), Twice(ring[j]), p) = (ax - bx) * (py - by) - (ay - by) * (px - bx)
      /\ (Above(ring, p, i) <=> by > py) /\ (Above(ring, p, j) <=> ay > py)
  BY DEF Cross, Twice, Above
<1> HIDE DEF ax, ay, bx, by, px, py, j
<1> DEFINE L == (px - ax) * (by - ay)
           R == (bx - ax) * (py - ay)
           E == (bx - ax) * (py - ay) - (by - ay) * (px - ax)
           G == (ax - bx) * (py - by) - (ay - by) * (px - bx)
<1>5. L \in Int /\ R \in Int /\ E = R - L /\ G = L - R
  BY <1>2
<1> HIDE DEF L, R, E, G
<1>6. (/\ (ay > py) # (by > py)
       /\ IF by > ay THEN L < R ELSE L > R)
      <=> \/ by > py /\ ~ (ay > py) /\ E > 0
          \/ ~ (by > py) /\ ay > py /\ G > 0
  BY <1>2, <1>5
<1> QED
  BY <1>3, <1>4, <1>6 DEF L, R, E, G, j

(* Whatever the ring, a point that a line through two vertices separates      *)
(* from all of them is not enclosed (roi.rs 96-115).                          *)
THEOREM EnclosedNotOutside ==
  ASSUME NEW ring \in Seq(Points), NEW p \in Points, Encloses(ring, p)
  PROVE  ~Outside(p, Range(ring))
<1> SUFFICES ASSUME Outside(p, Range(ring)) PROVE FALSE
  OBVIOUS
<1> DEFINE n == Len(ring)
<1>0. DOMAIN ring = 1..n /\ n \in Nat
  OBVIOUS
<1>1. n >= 3 /\ Cardinality({i \in 1..n : Crosses(ring, i, p)}) % 2 = 1
  BY <1>0 DEF Encloses
<1>2. \A i \in 1..n : ring[i] \in Points /\ After(i, ring) \in 1..n
  <2>1. \A i \in 1..n : ring[i] \in Points
    OBVIOUS
  <2>2. \A i \in 1..n : After(i, ring) \in 1..n
    BY DEF After
  <2> QED
    BY <2>1, <2>2
<1>3. Range(ring) = {ring[i] : i \in 1..n}
  <2>1. Range(ring) = {ring[i] : i \in DOMAIN ring}
    BY DEF Range
  <2> QED
    BY <1>0, <2>1
<1>4. PICK a \in Range(ring), b \in Range(ring) :
        /\ \A c \in Range(ring) : Cross(Twice(a), Twice(b), Twice(c)) >= 0
        /\ Cross(Twice(a), Twice(b), p) < 0
  BY DEF Outside
<1>5. a \in Points /\ b \in Points
  BY <1>2, <1>3
<1> DEFINE sx == 2 * a[1]  sy == 2 * a[2]
           ux == 2 * b[1] - sx  uy == 2 * b[2] - sy
           px == p[1]  py == p[2]
<1>6. sx \in Int /\ sy \in Int /\ ux \in Int /\ uy \in Int /\ px \in Int /\ py \in Int
  BY <1>5 DEF Points
<1>7. ASSUME NEW i \in 1..n
      PROVE  /\ 2 * ring[i][1] \in Int /\ 2 * ring[i][2] \in Int
             /\ ux * (2 * ring[i][2] - py) - uy * (2 * ring[i][1] - px) > 0
  <2> DEFINE vx == 2 * ring[i][1]  vy == 2 * ring[i][2]
  <2>1. vx \in Int /\ vy \in Int
    <3>1. ring[i] \in Int \X Int
      BY <1>2 DEF Points
    <3> QED
      BY <3>1
  <2>2. ux * (vy - sy) - uy * (vx - sx) >= 0
    <3>1. ring[i] \in Range(ring)
      BY <1>3
    <3> QED
      BY <1>4, <3>1 DEF Cross, Twice
  <2>3. ux * (py - sy) - uy * (px - sx) < 0
    BY <1>4 DEF Cross, Twice
  <2> HIDE DEF vx, vy, ux, uy, sx, sy, px, py
  <2>4. ux * (vy - py) - uy * (vx - px)
          = (ux * (vy - sy) - uy * (vx - sx)) - (ux * (py - sy) - uy * (px - sx))
    BY <1>6, <2>1
  <2>5. ux * (vy - py) - uy * (vx - px) > 0
    <3> DEFINE l == ux * (vy - sy) - uy * (vx - sx)  m == ux * (py - sy) - uy * (px - sx)
    <3>1. l \in Int /\ m \in Int /\ l >= 0 /\ m < 0
      BY <1>6, <2>1, <2>2, <2>3
    <3> HIDE DEF l, m
    <3>2. l - m > 0
      BY <3>1
    <3> QED
      BY <2>4, <3>2 DEF l, m
  <2> QED
    BY <2>1, <2>5 DEF vx, vy
<1>8. ASSUME NEW i \in 1..n, Above(ring, p, i) # Above(ring, p, After(i, ring))
      PROVE  /\ uy # 0
             /\ Crosses(ring, i, p) <=> uy < 0
  <2> DEFINE j == After(i, ring)
             bx == 2 * ring[i][1]  by == 2 * ring[i][2]
             cx == 2 * ring[j][1]  cy == 2 * ring[j][2]
             x1 == bx - px  y1 == by - py  x2 == cx - px  y2 == cy - py
  <2>1. j \in 1..n /\ bx \in Int /\ by \in Int /\ cx \in Int /\ cy \in Int
    BY <1>2, <1>7
  <2>2. x1 \in Int /\ y1 \in Int /\ x2 \in Int /\ y2 \in Int
    <3> HIDE DEF bx, by, cx, cy, px, py
    <3> QED
      BY <1>6, <2>1
  <2>3. ux * y1 - uy * x1 > 0 /\ ux * y2 - uy * x2 > 0
    <3> HIDE DEF ux, uy, px, py
    <3> QED
      BY <1>7, <2>1
  <2>4. /\ Cross(Twice(ring[j]), Twice(ring[i]), p) = (bx - cx) * (py - cy) - (by - cy) * (px - cx)
        /\ Cross(Twice(ring[i]), Twice(ring[j]), p) = (cx - bx) * (py - by) - (cy - by) * (px - bx)
        /\ (Above(ring, p, i) <=> by > py) /\ (Above(ring, p, j) <=> cy > py)
    BY DEF Cross, Twice, Above
  <2>5. /\ (bx - cx) * (py - cy) - (by - cy) * (px - cx) = y1 * x2 - y2 * x1
        /\ (cx - bx) * (py - by) - (cy - by) * (px - bx) = y2 * x1 - y1 * x2
        /\ (by > py <=> y1 > 0) /\ (cy > py <=> y2 > 0)
    <3> HIDE DEF bx, by, cx, cy, px, py
    <3> QED
      BY <1>6, <2>1
  <2>6. Crosses(ring, i, p) <=>
              \/ y1 > 0 /\ ~ (y2 > 0) /\ y1 * x2 - y2 * x1 > 0
              \/ ~ (y1 > 0) /\ y2 > 0 /\ y2 * x1 - y1 * x2 > 0
    <3> HIDE DEF bx, by, cx, cy, px, py, x1, x2, y1, y2
    <3> QED
      BY <2>4, <2>5, CrossesIs DEF j
  <2>7. (y1 > 0) # (y2 > 0)
    <3>1. (by > py) # (cy > py)
      BY <1>8 DEF Above
    <3> HIDE DEF bx, by, cx, cy, px, py, x1, x2, y1, y2
    <3> QED
      BY <2>5, <3>1
  <2> HIDE DEF bx, by, cx, cy, px, py, x1, x2, y1, y2, ux, uy
  <2>8. CASE y1 > 0 /\ ~ (y2 > 0)
    <3>1. y2 <= 0
      BY <2>2, <2>8
    <3>2. uy * (y1 * x2 - y2 * x1) < 0
      BY <1>6, <2>2, <2>3, <2>8, <3>1, CrossingSide
    <3> DEFINE X == y1 * x2 - y2 * x1
    <3>3. X \in Int /\ uy \in Int /\ uy * X < 0
      BY <1>6, <2>2, <3>2
    <3> HIDE DEF X
    <3>4. uy # 0 /\ (X > 0 <=> uy < 0)
      BY <3>3, SMT
    <3> QED
      BY <2>6, <2>8, <3>4 DEF X
  <2>9. CASE ~ (y1 > 0) /\ y2 > 0
    <3>1. y1 <= 0
      BY <2>2, <2>9
    <3>2. uy * (y2 * x1 - y1 * x2) < 0
      BY <1>6, <2>2, <2>3, <2>9, <3>1, CrossingSide
    <3> DEFINE X == y2 * x1 - y1 * x2
    <3>3. X \in Int /\ uy \in Int /\ uy * X < 0
      BY <1>6, <2>2, <3>2
    <3> HIDE DEF X
    <3>4. uy # 0 /\ (X > 0 <=> uy < 0)
      BY <3>3, SMT
    <3> QED
      BY <2>6, <2>9, <3>4 DEF X
  <2> QED
    BY <2>7, <2>8, <2>9
<1>9. ASSUME NEW i \in 1..n, Crosses(ring, i, p) PROVE Above(ring, p, i) # Above(ring, p, After(i, ring))
  BY <1>9, CrossesIs DEF Above
<1> HIDE DEF ux, uy, sx, sy, px, py
<1>10. CASE uy < 0
  <2> DEFINE h == [i \in 1..n |-> Above(ring, p, i)]
  <2>1. h \in [1..n -> BOOLEAN]
    BY DEF Above
  <2> DEFINE A == {i \in 1..n : Crosses(ring, i, p)}
             B == {i \in 1..n : h[IF i = n THEN 1 ELSE i + 1] # h[i]}
  <2>2. A = B
    <3>1. ASSUME NEW i \in 1..n
          PROVE Crosses(ring, i, p) <=> h[IF i = n THEN 1 ELSE i + 1] # h[i]
      <4>1. After(i, ring) = IF i = n THEN 1 ELSE i + 1
        BY DEF After
      <4>2. h[After(i, ring)] = Above(ring, p, After(i, ring)) /\ h[i] = Above(ring, p, i)
        BY <1>2
      <4>3. Crosses(ring, i, p) <=> Above(ring, p, After(i, ring)) # Above(ring, p, i)
        BY <1>8, <1>9, <1>10
      <4> HIDE DEF h
      <4> QED
        BY <4>1, <4>2, <4>3
    <3> HIDE DEF h
    <3> QED
      BY <3>1
  <2>3. Cardinality(B) % 2 = 0
    <3>1. n \in Nat /\ n >= 1
      BY <1>0, <1>1
    <3> HIDE DEF h, n
    <3> QED
      BY <2>1, <3>1, ChangesAreEven
  <2>4. Cardinality(A) % 2 = 1
    BY <1>1
  <2> HIDE DEF A, B
  <2> QED
    BY <2>2, <2>3, <2>4
<1>11. CASE ~ (uy < 0)
  <2>1. {i \in 1..n : Crosses(ring, i, p)} = {}
    BY <1>8, <1>9, <1>11
  <2>2. Cardinality({}) = 0 /\ 0 % 2 # 1
    BY FS_EmptySet
  <2>3. Cardinality({i \in 1..n : Crosses(ring, i, p)}) % 2 = 1
    BY <1>1
  <2> QED
    BY <2>1, <2>2, <2>3
<1> QED
  BY <1>10, <1>11

(* A convex ring has all its vertices on the left of every edge.              *)
LEMMA ConvexSurrounds ==
  ASSUME NEW ring, Convex(ring)
  PROVE  /\ ring \in Seq(Points) /\ Len(ring) >= 3 /\ Range(ring) \subseteq Points
         /\ Surrounds(ring, Range(ring))
<1> DEFINE n == Len(ring)
<1>1. ring \in Seq(Points) /\ n >= 3
  BY DEF Convex, Points
<1>2. n \in Nat /\ DOMAIN ring = 1..n /\ \A i \in 1..n : ring[i] \in Points
  BY <1>1
<1>3. Range(ring) = {ring[i] : i \in 1..n}
  <2>1. Range(ring) = {ring[i] : i \in DOMAIN ring}
    BY DEF Range
  <2> QED
    BY <1>2, <2>1
<1>4. \A i, j, k \in 1..n : i < j /\ j < k => Cross(ring[i], ring[j], ring[k]) > 0
  BY <1>2 DEF Convex
<1>5. Range(ring) \subseteq Points
  BY <1>2, <1>3
<1>6. ring \in Seq(Range(ring))
  <2>1. ring = [i \in 1..n |-> ring[i]]
    BY <1>1
  <2>2. ring \in [1..n -> Range(ring)]
    BY <1>3, <2>1
  <2> HIDE DEF n
  <2> QED
    BY <1>2, <2>2
<1>7. ASSUME NEW i \in 1..n, NEW j \in 1..n PROVE Cross(ring[i], ring[After(i, ring)], ring[j]) >= 0
  <2> DEFINE a == ring[i]  b == ring[After(i, ring)]  c == ring[j]
  <2>1. After(i, ring) = IF i = n THEN 1 ELSE i + 1
    BY DEF After
  <2>2. After(i, ring) \in 1..n
    BY <1>1, <2>1
  <2>3. a \in Points /\ b \in Points /\ c \in Points
    BY <1>2, <2>2
  <2>4. /\ Cross(a, b, c) \in Int /\ Cross(a, b, c) = Cross(b, c, a) /\ Cross(b, c, a) = Cross(c, a, b)
        /\ (c = a \/ c = b) => Cross(a, b, c) = 0
    <3>1. Cross(a, b, c) = Cross(b, c, a) /\ Cross(b, c, a) = Cross(c, a, b) /\ Cross(a, b, c) \in Int
      BY <2>3, CrossFacts
    <3>2. Cross(a, a, b) = 0 /\ Cross(b, b, a) = 0
      <4>1. Cross(a, a, b) = - Cross(a, a, b) /\ Cross(a, a, b) \in Int
        BY <2>3, CrossFacts
      <4>2. Cross(b, b, a) = - Cross(b, b, a) /\ Cross(b, b, a) \in Int
        BY <2>3, CrossFacts
      <4> QED
        BY <4>1, <4>2
    <3> HIDE DEF a, b, c
    <3>3. c = a => Cross(a, b, c) = Cross(a, a, b)
      BY <3>1
    <3>4. c = b => Cross(a, b, c) = Cross(b, b, a)
      BY <3>1
    <3> QED
      BY <3>1, <3>2, <3>3, <3>4
  <2>5. CASE j = i \/ j = After(i, ring)
    BY <2>4, <2>5
  <2>6. CASE j # i /\ j # After(i, ring)
    <3>1. CASE i = n
      <4>1. After(i, ring) = 1 /\ 1 < j /\ j < n /\ 1 \in 1..n /\ n \in 1..n
        <5> HIDE DEF n
        <5> QED
          BY <1>1, <1>2, <2>1, <2>6, <3>1
      <4>2. Cross(b, c, a) > 0
        <5>1. Cross(ring[1], ring[j], ring[n]) > 0
          BY <1>4, <4>1
        <5>2. b = ring[1] /\ a = ring[n]
          BY <3>1, <4>1
        <5> QED
          BY <5>1, <5>2
      <4> HIDE DEF a, b, c
      <4>3. Cross(a, b, c) >= 0
        BY <2>4, <4>2
      <4> QED
        BY <4>3 DEF a, b, c
    <3>2. CASE i # n /\ j < i
      <4>1. After(i, ring) = i + 1 /\ i + 1 \in 1..n /\ i < i + 1
        <5> HIDE DEF n
        <5> QED
          BY <1>2, <2>1, <3>2
      <4>2. Cross(c, a, b) > 0
        <5>1. Cross(ring[j], ring[i], ring[i + 1]) > 0
          BY <1>4, <3>2, <4>1
        <5>2. b = ring[i + 1]
          BY <4>1
        <5> QED
          BY <5>1, <5>2
      <4> HIDE DEF a, b, c
      <4>3. Cross(a, b, c) >= 0
        BY <2>4, <4>2
      <4> QED
        BY <4>3 DEF a, b, c
    <3>3. CASE i # n /\ j > i
      <4>1. After(i, ring) = i + 1 /\ i + 1 \in 1..n /\ i < i + 1 /\ i + 1 < j
        <5> HIDE DEF n
        <5> QED
          BY <1>2, <2>1, <2>6, <3>3
      <4>2. Cross(a, b, c) > 0
        <5>1. Cross(ring[i], ring[i + 1], ring[j]) > 0
          BY <1>4, <4>1
        <5>2. b = ring[i + 1]
          BY <4>1
        <5> QED
          BY <5>1, <5>2
      <4> HIDE DEF a, b, c
      <4>3. Cross(a, b, c) >= 0
        BY <2>4, <4>2
      <4> QED
        BY <4>3 DEF a, b, c
    <3>4. i = n \/ (i # n /\ j < i) \/ (i # n /\ j > i)
      <4> HIDE DEF n
      <4> QED
        BY <1>2, <2>6
    <3> QED
      BY <3>1, <3>2, <3>3, <3>4
  <2> QED
    BY <2>5, <2>6
<1>8. ASSUME NEW i \in 1..n PROVE ring[i] # ring[After(i, ring)]
  <2> SUFFICES ASSUME ring[i] = ring[After(i, ring)] PROVE FALSE
    OBVIOUS
  <2>1. After(i, ring) = IF i = n THEN 1 ELSE i + 1
    BY DEF After
  <2>2. ASSUME NEW u \in 1..n, NEW v \in 1..n, u # v PROVE ring[u] # ring[v]
    <3>0. ASSUME NEW k \in 1..n, NEW l \in 1..n, k < l, ring[k] = ring[l] PROVE FALSE
      <4> DEFINE m == IF k > 1 THEN 1 ELSE IF l < n THEN n ELSE 2
      <4>1. m \in 1..n /\ ((m < k /\ k < l) \/ (k < l /\ l < m) \/ (k < m /\ m < l))
        BY <1>1, <1>2, <3>0
      <4>2. Cross(ring[m], ring[k], ring[l]) > 0 \/ Cross(ring[k], ring[l], ring[m]) > 0
            \/ Cross(ring[k], ring[m], ring[l]) > 0
        <5> HIDE DEF m
        <5> QED
          BY <1>4, <4>1
      <4>3. PICK x \in Points, y \in Points : x = ring[k] /\ x = ring[l] /\ y = ring[m]
        BY <1>2, <3>0, <4>1
      <4>4. Cross(y, x, x) > 0 \/ Cross(x, x, y) > 0 \/ Cross(x, y, x) > 0
        <5> HIDE DEF m
        <5> QED
          BY <4>2, <4>3
      <4>5. Cross(x, x, y) = Cross(x, y, x) /\ Cross(x, y, x) = Cross(y, x, x)
        BY <4>3, CrossFacts
      <4>6. Cross(x, x, y) = - Cross(x, x, y) /\ Cross(x, x, y) \in Int
        BY <4>3, CrossFacts
      <4> QED
        BY <4>4, <4>5, <4>6
    <3>1. u < v \/ v < u
      BY <1>2, <2>2
    <3> QED
      BY <3>0, <3>1
  <2>3. After(i, ring) \in 1..n /\ After(i, ring) # i
    <3>1. n \in Nat /\ n >= 3 /\ i \in 1..n
      BY <1>1, <1>2
    <3> HIDE DEF n
    <3> QED
      BY <2>1, <3>1
  <2> QED
    BY <2>2, <2>3
<1>9. \A i \in 1..n : \A x \in Range(ring) : Cross(ring[i], ring[After(i, ring)], x) >= 0
  BY <1>3, <1>7
<1>10. n >= 1
  BY <1>1, <1>2
<1> QED
  BY <1>1, <1>5, <1>6, <1>8, <1>9, <1>10 DEF Surrounds

(* Two opposite corners of a convex quadrilateral are not both below a        *)
(* height that the other two are above.                                       *)
LEMMA FourHeights ==
  ASSUME NEW a \in Points, NEW b \in Points, NEW c \in Points, NEW d \in Points, NEW h \in Int,
         Cross(b, c, d) > 0, Cross(a, b, d) > 0, Cross(a, c, d) > 0, Cross(a, b, c) > 0,
         2 * a[2] <= h, 2 * c[2] <= h, 2 * b[2] > h, 2 * d[2] > h
  PROVE  FALSE
<1> DEFINE ax == a[1]  ay == a[2]  bx == b[1]  by == b[2]  cx == c[1]  cy == c[2]  dx == d[1]  dy == d[2]
           A == Cross(b, c, d)  C == Cross(a, b, d)  B == Cross(a, c, d)  D == Cross(a, b, c)
<1>1. /\ ax \in Int /\ ay \in Int /\ bx \in Int /\ by \in Int
      /\ cx \in Int /\ cy \in Int /\ dx \in Int /\ dy \in Int
  BY DEF Points
<1>2. A \in Int /\ B \in Int /\ C \in Int /\ D \in Int /\ A > 0 /\ B > 0 /\ C > 0 /\ D > 0
  BY CrossFacts
<1>3. /\ A = (cx - bx) * (dy - by) - (cy - by) * (dx - bx)
      /\ C = (bx - ax) * (dy - ay) - (by - ay) * (dx - ax)
      /\ B = (cx - ax) * (dy - ay) - (cy - ay) * (dx - ax)
      /\ D = (bx - ax) * (cy - ay) - (by - ay) * (cx - ax)
  BY DEF Cross
<1>4. 2 * ay <= h /\ 2 * cy <= h /\ 2 * by > h /\ 2 * dy > h
  OBVIOUS
<1> HIDE DEF ax, ay, bx, by, cx, cy, dx, dy, A, B, C, D
<1>5. A + C = B + D
  BY <1>1, <1>3
<1>6. A * ay + C * cy = B * by + D * dy
  BY <1>1, <1>3
<1> DEFINE ha == h - 2 * ay  hc == h - 2 * cy  hb == 2 * by - h  hd == 2 * dy - h
<1>7. ha \in Int /\ hb \in Int /\ hc \in Int /\ hd \in Int /\ ha >= 0 /\ hc >= 0 /\ hb > 0 /\ hd > 0
  BY <1>1, <1>4
<1>8. A * ha + C * hc + B * hb + D * hd = 0
  <2>1. A * ha + C * hc = (A + C) * h - 2 * (A * ay + C * cy)
    BY <1>1, <1>2
  <2>2. B * hb + D * hd = 2 * (B * by + D * dy) - (B + D) * h
    BY <1>1, <1>2
  <2> DEFINE X == A * ha + C * hc  Y == B * hb + D * hd
             P == (A + C) * h  Q == A * ay + C * cy  R == B * by + D * dy  T == (B + D) * h
  <2>3. X \in Int /\ Y \in Int /\ P \in Int /\ Q \in Int /\ R \in Int /\ T \in Int
    BY <1>1, <1>2, <1>7
  <2>4. P = T /\ Q = R /\ X = P - 2 * Q /\ Y = 2 * R - T
    BY <1>5, <1>6, <2>1, <2>2
  <2>5. A * ha + C * hc + B * hb + D * hd = X + Y
    BY <1>2, <1>7
  <2> HIDE DEF X, Y, P, Q, R, T
  <2>6. X + Y = 0
    BY <2>3, <2>4
  <2> QED
    BY <2>5, <2>6
<1>9. /\ A * ha \in Int /\ C * hc \in Int /\ B * hb \in Int /\ D * hd \in Int
      /\ A * ha >= 0 /\ C * hc >= 0 /\ B * hb > 0 /\ D * hd > 0
  <2> HIDE DEF ha, hb, hc, hd
  <2> QED
    BY <1>2, <1>7, SignOfFactor
<1> QED
  <2> HIDE DEF ha, hb, hc, hd
  <2> QED
    BY <1>8, <1>9

(* Of three points around p, one is above its height and one is not.          *)
LEMMA AroundHeights ==
  ASSUME NEW a \in Points, NEW b \in Points, NEW c \in Points, NEW p \in Points,
         Cross(a, b, p) > 0, Cross(b, c, p) > 0, Cross(c, a, p) > 0
  PROVE  /\ a[2] > p[2] \/ b[2] > p[2] \/ c[2] > p[2]
         /\ a[2] <= p[2] \/ b[2] <= p[2] \/ c[2] <= p[2]
<1> DEFINE ax == a[1] - p[1]  ay == a[2] - p[2]  bx == b[1] - p[1]  by == b[2] - p[2]
           cx == c[1] - p[1]  cy == c[2] - p[2]
           k == bx * cy - by * cx  l == cx * ay - cy * ax  m == ax * by - ay * bx
<1>1. /\ a[1] \in Int /\ a[2] \in Int /\ b[1] \in Int /\ b[2] \in Int
      /\ c[1] \in Int /\ c[2] \in Int /\ p[1] \in Int /\ p[2] \in Int
  BY DEF Points
<1>2. /\ ax \in Int /\ ay \in Int /\ bx \in Int /\ by \in Int /\ cx \in Int /\ cy \in Int
      /\ (a[2] > p[2] <=> ay > 0) /\ (b[2] > p[2] <=> by > 0) /\ (c[2] > p[2] <=> cy > 0)
      /\ (a[2] <= p[2] <=> ay <= 0) /\ (b[2] <= p[2] <=> by <= 0) /\ (c[2] <= p[2] <=> cy <= 0)
  BY <1>1
<1>3. ASSUME NEW u \in Points, NEW v \in Points
      PROVE  Cross(u, v, p) = (u[1] - p[1]) * (v[2] - p[2]) - (u[2] - p[2]) * (v[1] - p[1])
  <2> DEFINE ux == u[1]  uy == u[2]  vx == v[1]  vy == v[2]  px == p[1]  py == p[2]
  <2>1. ux \in Int /\ uy \in Int /\ vx \in Int /\ vy \in Int /\ px \in Int /\ py \in Int
    BY <1>1 DEF Points
  <2>2. Cross(u, v, p) = (vx - ux) * (py - uy) - (vy - uy) * (px - ux)
    BY DEF Cross
  <2> HIDE DEF ux, uy, vx, vy, px, py
  <2>3. (vx - ux) * (py - uy) - (vy - uy) * (px - ux) = (ux - px) * (vy - py) - (uy - py) * (vx - px)
    BY <2>1
  <2> QED
    BY <2>2, <2>3 DEF ux, uy, vx, vy, px, py
<1>4. k > 0 /\ l > 0 /\ m > 0
  BY <1>3
<1> HIDE DEF ax, ay, bx, by, cx, cy
<1>5. k \in Int /\ l \in Int /\ m \in Int
  BY <1>2
<1>6. k * ay + l * by + m * cy = 0
  BY <1>2
<1>7. ay > 0 \/ by > 0 \/ cy > 0
  <2> SUFFICES ASSUME ay <= 0, by <= 0, cy <= 0 PROVE FALSE
    BY <1>2
  <2>1. /\ k * ay <= 0 /\ l * by <= 0 /\ m * cy <= 0
        /\ k * ay \in Int /\ l * by \in Int /\ m * cy \in Int
    <3>1. ASSUME NEW u \in Int, NEW v \in Int, u > 0, v <= 0 PROVE u * v <= 0 /\ u * v \in Int
      <4>1. u * (-v) >= 0
        BY <3>1, SignOfFactor
      <4> QED
        BY <3>1, <4>1
    <3> HIDE DEF k, l, m
    <3> QED
      BY <1>2, <1>4, <1>5, <3>1
  <2>2. k * ay = 0 /\ l * by = 0 /\ m * cy = 0
    <3> HIDE DEF k, l, m
    <3> QED
      BY <1>6, <2>1
  <2>3. ay = 0 /\ by = 0 /\ cy = 0
    <3>1. ASSUME NEW u \in Int, NEW v \in Int, u > 0, u * v = 0 PROVE v = 0
      BY <3>1, SMT
    <3> HIDE DEF k, l, m
    <3> QED
      BY <1>2, <1>4, <1>5, <2>2, <3>1
  <2> QED
    BY <1>2, <1>4, <2>3
<1>8. ay <= 0 \/ by <= 0 \/ cy <= 0
  <2> SUFFICES ASSUME ay > 0, by > 0, cy > 0 PROVE FALSE
    BY <1>2
  <2>1. k * ay > 0 /\ l * by > 0 /\ m * cy > 0 /\ k * ay \in Int /\ l * by \in Int /\ m * cy \in Int
    <3> HIDE DEF k, l, m
    <3> QED
      BY <1>2, <1>4, <1>5, SignOfFactor
  <2> QED
    <3> HIDE DEF k, l, m
    <3> QED
      BY <1>6, <2>1
<1> QED
  BY <1>2, <1>7, <1>8

(* Walking around a ring from a low vertex to a high one passes a rising      *)
(* edge.                                                                      *)
LEMMA SomeRise ==
  ASSUME NEW n \in Nat, n >= 1, NEW h \in [1..n -> BOOLEAN],
         NEW x \in 1..n, NEW y \in 1..n, ~h[x], h[y]
  PROVE  \E i \in 1..n : ~h[i] /\ h[IF i = n THEN 1 ELSE i + 1]
<1> SUFFICES ASSUME \A i \in 1..n : ~h[i] => ~h[IF i = n THEN 1 ELSE i + 1] PROVE FALSE
  OBVIOUS
<1>0. \A i \in 1..n : i # n => (~h[i] => ~h[i + 1])
  OBVIOUS
<1> DEFINE S == {k \in 0..n : k = 0 \/ k < x \/ (k \in 1..n /\ ~h[k])}
<1>1. 0 \in S
  OBVIOUS
<1>2. ASSUME NEW i \in 1..n, i - 1 \in S PROVE i \in S
  <2>1. i \in 0..n /\ (i < x \/ i = x \/ i > x)
    OBVIOUS
  <2>2. CASE i > x
    <3>1. i - 1 \in 1..n /\ i - 1 # n /\ (i - 1) + 1 = i /\ ~ (i - 1 < x) /\ i - 1 # 0
      BY <2>2
    <3>2. ~h[i - 1]
      BY <1>2, <3>1
    <3> QED
      BY <1>0, <2>1, <3>1, <3>2
  <2> QED
    BY <2>1, <2>2
<1>3. \A i \in 0..n : i \in S
  <2> HIDE DEF S
  <2> QED
    BY <1>1, <1>2, Induct
<1>4. ~h[n]
  <2>1. n \in S /\ n # 0 /\ ~ (n < x) /\ n \in 1..n
    BY <1>3
  <2> QED
    BY <2>1
<1>5. ~h[1]
  <2>1. n \in 1..n
    OBVIOUS
  <2> QED
    BY <1>4, <2>1
<1> DEFINE T == {k \in 0..n : k = 0 \/ (k \in 1..n /\ ~h[k])}
<1>6. 0 \in T
  OBVIOUS
<1>7. ASSUME NEW i \in 1..n, i - 1 \in T PROVE i \in T
  <2>1. i \in 0..n
    OBVIOUS
  <2>2. CASE i = 1
    BY <1>5, <2>1, <2>2
  <2>3. CASE i # 1
    <3>1. i - 1 \in 1..n /\ i - 1 # n /\ (i - 1) + 1 = i /\ i - 1 # 0
      BY <2>3
    <3>2. ~h[i - 1]
      BY <1>7, <3>1
    <3> QED
      BY <1>0, <2>1, <3>1, <3>2
  <2> QED
    BY <2>2, <2>3
<1>8. \A i \in 0..n : i \in T
  <2> HIDE DEF T
  <2> QED
    BY <1>6, <1>7, Induct
<1>9. y \in T /\ y # 0
  BY <1>8
<1> QED
  BY <1>9

(* A convex ring encloses what lies inside a triangle of its vertices.        *)
THEOREM ConvexEncloses ==
  ASSUME NEW ring, Convex(ring), NEW p \in Points, Strictly(p, Range(ring))
  PROVE  Encloses(ring, p)
<1> DEFINE n == Len(ring)
           L(i) == After(i, ring)
           A == {i \in 1..n : Crosses(ring, i, p)}
<1>1. ring \in Seq(Points) /\ n >= 3 /\ Range(ring) \subseteq Points /\ Surrounds(ring, Range(ring))
  BY ConvexSurrounds
<1>2. DOMAIN ring = 1..n /\ n \in Nat
  BY <1>1
<1>3. \A i \in 1..n : L(i) = IF i = n THEN 1 ELSE i + 1
  BY DEF After
<1>4. \A i \in 1..n : ring[i] \in Points /\ L(i) \in 1..n
  <2>1. \A i \in 1..n : ring[i] \in Points
    BY <1>1
  <2>2. \A i \in 1..n : L(i) \in 1..n
    <3> HIDE DEF n, L
    <3> QED
      BY <1>1, <1>2, <1>3
  <2> QED
    BY <2>1, <2>2
<1>5. Range(ring) = {ring[i] : i \in 1..n}
  <2>1. Range(ring) = {ring[i] : i \in DOMAIN ring}
    BY DEF Range
  <2> QED
    BY <1>2, <2>1
<1>6. \A i, j, k \in 1..n : i < j /\ j < k => Cross(ring[i], ring[j], ring[k]) > 0
  BY <1>2 DEF Convex
<1>7. p[2] \in Int /\ \A i \in 1..n : 2 * ring[i][2] \in Int
  <2>1. p \in Int \X Int /\ \A i \in 1..n : ring[i] \in Int \X Int
    BY <1>4 DEF Points
  <2> QED
    BY <2>1
<1>8. \A i \in 1..n : Above(ring, p, i) \in BOOLEAN
  BY DEF Above
<1>9. ASSUME NEW i \in 1..n
      PROVE  Crosses(ring, i, p) <=> ~Above(ring, p, i) /\ Above(ring, p, L(i))
  <2> DEFINE a == Twice(ring[i])  b == Twice(ring[L(i)])
  <2>1. Cross(a, b, p) > 0
    BY <1>1, InsideIsLeft
  <2>2. a \in Points /\ b \in Points
    BY <1>4, TwiceFacts
  <2>3. Cross(a, b, p) = - Cross(b, a, p) /\ Cross(b, a, p) \in Int
    BY <2>2, CrossFacts
  <2>4. ~ (Cross(b, a, p) > 0)
    BY <2>1, <2>3
  <2> QED
    BY <1>1, <2>1, <2>4, CrossesIs
<1>10. \E x, y \in 1..n : ~Above(ring, p, x) /\ Above(ring, p, y)
  <2>1. PICK a \in Range(ring), b \in Range(ring), c \in Range(ring) :
          /\ Cross(Twice(a), Twice(b), p) > 0
          /\ Cross(Twice(b), Twice(c), p) > 0
          /\ Cross(Twice(c), Twice(a), p) > 0
    BY DEF Strictly
  <2>2. /\ a \in Points /\ b \in Points /\ c \in Points
        /\ Twice(a) \in Points /\ Twice(b) \in Points /\ Twice(c) \in Points
    BY <1>1, TwiceFacts
  <2>3. /\ Twice(a)[2] > p[2] \/ Twice(b)[2] > p[2] \/ Twice(c)[2] > p[2]
        /\ Twice(a)[2] <= p[2] \/ Twice(b)[2] <= p[2] \/ Twice(c)[2] <= p[2]
    BY <2>1, <2>2, AroundHeights
  <2>4. Twice(a)[2] = 2 * a[2] /\ Twice(b)[2] = 2 * b[2] /\ Twice(c)[2] = 2 * c[2]
    BY DEF Twice
  <2>5. \E x \in Range(ring) : 2 * x[2] > p[2]
    BY <2>3, <2>4
  <2>6. \E x \in Range(ring) : 2 * x[2] <= p[2]
    BY <2>3, <2>4
  <2>7. \E y \in 1..n : 2 * ring[y][2] > p[2]
    BY <1>5, <2>5
  <2>8. \E y \in 1..n : 2 * ring[y][2] <= p[2]
    BY <1>5, <2>6
  <2> QED
    BY <1>7, <2>7, <2>8 DEF Above
<1>11. PICK r \in 1..n : ~Above(ring, p, r) /\ Above(ring, p, L(r))
  <2> DEFINE h == [i \in 1..n |-> Above(ring, p, i)]
  <2>1. h \in [1..n -> BOOLEAN]
    BY <1>8
  <2>2. PICK x \in 1..n, y \in 1..n : ~h[x] /\ h[y]
    BY <1>10
  <2>3. n >= 1 /\ n \in Nat
    BY <1>1, <1>2
  <2>4. PICK i \in 1..n : ~h[i] /\ h[IF i = n THEN 1 ELSE i + 1]
    <3> HIDE DEF h, n
    <3> QED
      BY <2>1, <2>2, <2>3, SomeRise
  <2>5. ~h[i] /\ h[L(i)] /\ L(i) \in 1..n
    <3> HIDE DEF h, L, n
    <3> QED
      BY <1>3, <1>4, <2>4
  <2> QED
    BY <2>5
<1>12. ASSUME NEW i \in 1..n, NEW j \in 1..n, i < j,
              ~Above(ring, p, i), Above(ring, p, L(i)), ~Above(ring, p, j), Above(ring, p, L(j))
       PROVE  FALSE
  <2>1. L(i) # j /\ L(j) # i /\ n \in 1..n
    <3>1. n \in 1..n
      BY <1>1, <1>2
    <3> QED
      BY <1>12, <3>1
  <2> DEFINE a == ring[i]  b == ring[L(i)]  c == ring[j]  d == ring[L(j)]
  <2>2. a \in Points /\ b \in Points /\ c \in Points /\ d \in Points
    BY <1>4
  <2>3. 2 * a[2] <= p[2] /\ 2 * c[2] <= p[2] /\ 2 * b[2] > p[2] /\ 2 * d[2] > p[2]
    BY <1>7, <1>12 DEF Above
  <2>4. L(i) = i + 1 /\ i + 1 < j /\ i < i + 1 /\ i + 1 \in 1..n
    <3> HIDE DEF n, L
    <3> QED
      BY <1>2, <1>3, <1>12, <2>1
  <2>5. (L(j) = j + 1 /\ j < j + 1 /\ j + 1 \in 1..n) \/ (L(j) = 1 /\ 1 < i /\ 1 \in 1..n)
    <3> HIDE DEF n, L
    <3> QED
      BY <1>2, <1>3, <1>12, <2>1
  <2>6. Cross(a, b, c) > 0
    <3>1. Cross(ring[i], ring[i + 1], ring[j]) > 0
      BY <1>6, <2>4
    <3> QED
      BY <2>4, <3>1
  <2>7. Cross(b, c, d) > 0 /\ Cross(a, b, d) > 0 /\ Cross(a, c, d) > 0
    <3>1. CASE L(j) = j + 1 /\ j < j + 1 /\ j + 1 \in 1..n
      <4>1. i + 1 < j + 1 /\ i < j + 1
        BY <1>12, <2>4, <3>1
      <4>2. /\ Cross(ring[i + 1], ring[j], ring[j + 1]) > 0
            /\ Cross(ring[i], ring[i + 1], ring[j + 1]) > 0
            /\ Cross(ring[i], ring[j], ring[j + 1]) > 0
        BY <1>6, <1>12, <2>4, <3>1, <4>1
      <4> QED
        BY <2>4, <3>1, <4>2
    <3>2. CASE L(j) = 1 /\ 1 < i /\ 1 \in 1..n
      <4>1. 1 < i + 1
        BY <3>2
      <4>2. /\ Cross(ring[1], ring[i + 1], ring[j]) > 0
            /\ Cross(ring[1], ring[i], ring[i + 1]) > 0
            /\ Cross(ring[1], ring[i], ring[j]) > 0
        BY <1>6, <1>12, <2>4, <3>2, <4>1
      <4>3. Cross(d, b, c) > 0 /\ Cross(d, a, b) > 0 /\ Cross(d, a, c) > 0
        BY <2>4, <3>2, <4>2
      <4>4. /\ Cross(d, b, c) = Cross(b, c, d) /\ Cross(d, a, b) = Cross(a, b, d)
            /\ Cross(d, a, c) = Cross(a, c, d)
        <5> HIDE DEF a, b, c, d
        <5> QED
          BY <2>2, CrossFacts
      <4> HIDE DEF a, b, c, d
      <4> QED
        BY <4>3, <4>4
    <3> QED
      BY <2>5, <3>1, <3>2
  <2> QED
    <3> HIDE DEF a, b, c, d
    <3> QED
      BY <1>7, <2>2, <2>3, <2>6, <2>7, FourHeights
<1>13. A = {r}
  <2>1. r \in A
    BY <1>9, <1>11
  <2>2. ASSUME NEW j \in A PROVE j = r
    <3>1. j \in 1..n /\ ~Above(ring, p, j) /\ Above(ring, p, L(j))
      BY <1>9
    <3>2. j < r \/ j = r \/ r < j
      <4> HIDE DEF n, A
      <4> QED
        BY <1>2, <3>1
    <3> QED
      BY <1>11, <1>12, <3>1, <3>2
  <2> QED
    BY <2>1, <2>2
<1>14. Cardinality(A) % 2 = 1
  <2>1. Cardinality(A) = 1
    BY <1>13, FS_Singleton
  <2> QED
    BY <2>1
<1> QED
  BY <1>1, <1>2, <1>14 DEF Encloses

------------------------------------------------------------------------------
(* Suppression, the gate, and the masks.                                      *)

(* The elements of a list with one more.                                      *)
LEMMA RangeOfAppend ==
  ASSUME NEW V, NEW v \in Seq(V), NEW x \in V
  PROVE  Append(v, x) \in Seq(V) /\ Range(Append(v, x)) = Range(v) \cup {x}
<1> DEFINE w == Append(v, x)  n == Len(v)
<1>1. /\ w \in Seq(V) /\ n \in Nat /\ Len(w) = n + 1 /\ w[n + 1] = x
      /\ \A i \in 1..n : w[i] = v[i]
  OBVIOUS
<1>2. DOMAIN w = 1..(n + 1) /\ DOMAIN v = 1..n
  OBVIOUS
<1>3. Range(w) = {w[i] : i \in DOMAIN w} /\ Range(v) = {v[i] : i \in DOMAIN v}
  BY DEF Range
<1> HIDE DEF w, n
<1>4. \A i \in 1..(n + 1) : i \in 1..n \/ i = n + 1
  BY <1>1
<1>5. \A i \in 1..n : i \in 1..(n + 1)
  BY <1>1
<1>6. n + 1 \in 1..(n + 1)
  BY <1>1
<1>7. Range(w) \subseteq Range(v) \cup {x}
  BY <1>1, <1>2, <1>3, <1>4
<1>8. Range(v) \cup {x} \subseteq Range(w)
  BY <1>1, <1>2, <1>3, <1>5, <1>6
<1> QED
  BY <1>1, <1>7, <1>8 DEF w

(* The elements of a list are those at its positions.                         *)
LEMMA RangeIs ==
  ASSUME NEW V, NEW v \in Seq(V)
  PROVE  /\ Range(v) \subseteq V /\ Len(v) \in Nat /\ DOMAIN v = 1..Len(v)
         /\ \A x \in Range(v) : \E i \in 1..Len(v) : x = v[i]
         /\ \A i \in 1..Len(v) : v[i] \in Range(v)
<1>1. Len(v) \in Nat /\ DOMAIN v = 1..Len(v) /\ \A i \in 1..Len(v) : v[i] \in V
  OBVIOUS
<1>2. Range(v) = {v[i] : i \in DOMAIN v}
  BY DEF Range
<1> QED
  BY <1>1, <1>2

(* The empty list has no elements.                                            *)
LEMMA RangeOfEmpty == Range(<<>>) = {}
<1>1. Range(<<>>) = {<<>>[i] : i \in DOMAIN <<>>}
  BY DEF Range
<1>2. DOMAIN <<>> = {}
  OBVIOUS
<1> QED
  BY <1>1, <1>2

(* Descending confidence.                                                     *)
Ordered(q) == \A i, j \in DOMAIN q : i < j => q[i].conf >= q[j].conf

(* Suppression keeps only detections it was given, and for each of those one  *)
(* that stands for it: the detection itself or a better one that overlaps     *)
(* it.                                                                        *)
THEOREM NmsStands ==
  ASSUME NEW S, NEW q \in Seq(S), \A d \in S : d.conf \in Int, Ordered(q)
  PROVE  /\ Nms(q, IouNum, IouDen) \in Seq(S)
         /\ Range(Nms(q, IouNum, IouDen)) \subseteq Range(q)
         /\ \A c \in Range(q) : \E d \in Range(Nms(q, IouNum, IouDen)) : Stands(d, c)
<1> DEFINE n == Len(q)
<1>1. n \in Nat /\ DOMAIN q = 1..n /\ \A i \in 1..n : q[i] \in S
  OBVIOUS
<1>2a. PICK k : Suppresses(k, q, S, IouNum, IouDen) /\ Nms(q, IouNum, IouDen) = k[n]
  BY NmsIs
<1>2. /\ k \in [0..n -> Seq(S)] /\ k[0] = <<>>
      /\ \A i \in 1..n :
           k[i] = IF \E x \in Range(k[i - 1]) : IouAbove(q[i].box, x.box, IouNum, IouDen)
                  THEN k[i - 1] ELSE Append(k[i - 1], q[i])
      /\ Nms(q, IouNum, IouDen) = k[n]
  BY <1>2a DEF Suppresses
<1> DEFINE Good(j) == /\ \A x \in Range(k[j]) : \E i \in 1..j : x = q[i]
                      /\ \A i \in 1..j : \E d \in Range(k[j]) : Stands(d, q[i])
           T == {j \in 0..n : Good(j)}
<1> HIDE DEF n
<1>3. 0 \in T
  <2>1. 0 \in 0..n /\ 1..0 = {}
    BY <1>1
  <2>2. k[0] = <<>> /\ Range(k[0]) = {}
    BY <1>2, RangeOfEmpty
  <2>3. Good(0)
    BY <2>1, <2>2
  <2> QED
    BY <2>1, <2>3
<1>4. ASSUME NEW j \in 1..n, j - 1 \in T PROVE j \in T
  <2>1. /\ j - 1 \in 0..n /\ j \in 0..n /\ k[j - 1] \in Seq(S) /\ q[j] \in S /\ Good(j - 1)
        /\ j \in 1..j /\ (\A i \in 1..(j - 1) : i \in 1..j /\ i < j /\ i \in 1..n)
        /\ (\A i \in 1..j : i \in 1..(j - 1) \/ i = j)
    <3>1. j - 1 \in 0..n /\ j \in 0..n
      BY <1>1
    <3>2. k[j - 1] \in Seq(S) /\ q[j] \in S
      BY <1>1, <1>2, <3>1
    <3>3. j \in 1..j /\ (\A i \in 1..(j - 1) : i \in 1..j /\ i < j /\ i \in 1..n)
          /\ (\A i \in 1..j : i \in 1..(j - 1) \/ i = j)
      BY <1>1
    <3> QED
      BY <1>4, <3>1, <3>2, <3>3
  <2>2. CASE \E x \in Range(k[j - 1]) : IouAbove(q[j].box, x.box, IouNum, IouDen)
    <3>1. k[j] = k[j - 1]
      BY <1>2, <2>2
    <3>2. PICK x \in Range(k[j - 1]) : IouAbove(q[j].box, x.box, IouNum, IouDen)
      BY <2>2
    <3>3. PICK i \in 1..(j - 1) : x = q[i]
      BY <2>1
    <3>4. x.conf >= q[j].conf
      BY <1>1, <2>1, <3>3 DEF Ordered
    <3>5. Stands(x, q[j])
      BY <3>2, <3>4 DEF Stands
    <3>6. \A y \in Range(k[j]) : \E l \in 1..j : y = q[l]
      BY <2>1, <3>1
    <3>7. \A l \in 1..j : \E d \in Range(k[j]) : Stands(d, q[l])
      BY <2>1, <3>1, <3>5
    <3> QED
      BY <2>1, <3>6, <3>7
  <2>3. CASE ~ \E x \in Range(k[j - 1]) : IouAbove(q[j].box, x.box, IouNum, IouDen)
    <3>1. k[j] = Append(k[j - 1], q[j])
      BY <1>2, <2>3
    <3>2. Range(k[j]) = Range(k[j - 1]) \cup {q[j]}
      BY <2>1, <3>1, RangeOfAppend
    <3>3. Stands(q[j], q[j])
      BY DEF Stands
    <3>4. \A y \in Range(k[j]) : \E l \in 1..j : y = q[l]
      BY <2>1, <3>2
    <3>5. \A l \in 1..j : \E d \in Range(k[j]) : Stands(d, q[l])
      BY <2>1, <3>2, <3>3
    <3> QED
      BY <2>1, <3>4, <3>5
  <2> QED
    BY <2>2, <2>3
<1>5. n \in T
  <2>1. \A j \in 0..n : j \in T
    <3> HIDE DEF T
    <3> QED
      BY <1>1, <1>3, <1>4, Induct
  <2>2. n \in 0..n
    BY <1>1
  <2> HIDE DEF T
  <2> QED
    BY <2>1, <2>2
<1>6. Range(q) = {q[i] : i \in 1..n}
  <2>1. Range(q) = {q[i] : i \in DOMAIN q}
    BY DEF Range
  <2> QED
    BY <1>1, <2>1
<1>7. Nms(q, IouNum, IouDen) \in Seq(S)
  <2>1. n \in 0..n
    BY <1>1
  <2> QED
    BY <1>2, <2>1
<1>8. /\ \A x \in Range(k[n]) : \E i \in 1..n : x = q[i]
      /\ \A i \in 1..n : \E d \in Range(k[n]) : Stands(d, q[i])
  BY <1>5
<1> HIDE DEF T, Good
<1> QED
  BY <1>2, <1>6, <1>7, <1>8

(* The gate passes only detections it was given, all of them in the ROI.      *)
LEMMA GatedKeeps ==
  ASSUME NEW S, NEW q \in Seq(S)
  PROVE  /\ Gated(q) \in Seq(S) /\ Range(Gated(q)) \subseteq Range(q)
         /\ \A d \in Range(Gated(q)) : InRoi(d)
<1> DEFINE n == Len(q)
<1>1. n \in Nat /\ DOMAIN q = 1..n /\ \A i \in 1..n : q[i] \in S /\ q[i] \in Range(q)
  BY RangeIs
<1>2. PICK k \in [0..n -> Seq(S)] :
        /\ k[0] = <<>>
        /\ \A i \in 1..n : k[i] = IF InRoi(q[i]) THEN Append(k[i - 1], q[i]) ELSE k[i - 1]
        /\ Gated(q) = k[n]
  BY GatedIs
<1>3. PICK good : good = {d \in S : InRoi(d)}
  OBVIOUS
<1>4. PICK g : g = Gated(q)
  OBVIOUS
<1> DEFINE T == {j \in 0..n : Range(k[j]) \subseteq Range(q) \cap good}
<1> HIDE DEF n
<1>5. 0 \in T
  BY <1>1, <1>2, RangeOfEmpty
<1>6. ASSUME NEW j \in 1..n, j - 1 \in T PROVE j \in T
  <2>1. j - 1 \in 0..n /\ j \in 0..n
    BY <1>1
  <2>2. k[j - 1] \in Seq(S) /\ q[j] \in S /\ q[j] \in Range(q)
    BY <1>1, <1>2, <2>1
  <2>3. k[j] = k[j - 1] \/ (q[j] \in good /\ Range(k[j]) = Range(k[j - 1]) \cup {q[j]})
    BY <1>2, <1>3, <2>2, RangeOfAppend
  <2> QED
    BY <1>6, <2>1, <2>2, <2>3
<1>7. n \in T
  <2>1. \A j \in 0..n : j \in T
    <3> HIDE DEF T
    <3> QED
      BY <1>1, <1>5, <1>6, Induct
  <2> QED
    BY <1>1, <2>1
<1>8. g \in Seq(S) /\ Range(g) \subseteq Range(q) \cap good
  BY <1>1, <1>2, <1>4, <1>7
<1> QED
  BY <1>3, <1>4, <1>8

(* Pixels are points.                                                         *)
LEMMA FramePoints == Frame \subseteq Points
<1>1. FrameW \in Nat /\ FrameH \in Nat
  BY BoxFacts
<1> QED
  BY <1>1 DEF Frame, Points

(* An order of a selection by confidence lists that selection.                *)
LEMMA DescendingIs ==
  ASSUME NEW D, IsFiniteSet(D), NEW S \in SUBSET D, NEW q \in Descending(S)
  PROVE  q \in Seq(D) /\ Range(q) = S /\ Ordered(q)
<1>1. IsFiniteSet(S)
  BY FS_Subset
<1>2. q \in SetToSeqs(S) /\ Ordered(q)
  BY DEF Descending, Ordered
<1>3. q \in Seq(S) /\ Range(q) = S
  BY <1>1, <1>2, EnumIs
<1> QED
  BY <1>2, <1>3

(* The operation covers its mask or, when it passes over it, nothing          *)
(* (pipeline.rs 285-381).                                                     *)
LEMMA AppliedIs ==
  ASSUME NEW m
  PROVE  Applied(m) = m \/ Applied(m) = {}
  BY DEF Applied

(* Whichever mask a face got, if the operation covered it then the features   *)
(* of the face or the middle of its box are gone (pipeline.rs 640-701).       *)
LEMMA MaskReplaces ==
  ASSUME NEW d \in Faces, NEW m \in Masks(d), Applied(m) \subseteq blurred
  PROVE  Thin(d) \/ Replaced(d)
<1>1. CASE Applied(m) = {}
  BY <1>1 DEF Thin
<1>2. CASE Applied(m) = m
  <2>1. m \subseteq blurred
    BY <1>2
  <2>2. Ellipse[d] = EllipseMask(d.box, EllipseMargin) /\ Middle(d) \subseteq Ellipse[d]
    <3>1. IsBox(d.box) /\ EllipseMargin \in Nat
      BY BoxFacts, FrameAssumption
    <3>2. Ellipse[d] = EllipseMask(d.box, EllipseMargin)
      BY DEF Ellipse
    <3> QED
      BY <3>1, <3>2, MiddleInEllipse
  <2>3. CASE m = GeometryMask[d] /\ d.kps # {}
    <3>1. m = PolygonMask(Hull(d.kps), HullMargin)
      BY <2>3 DEF GeometryMask
    <3>2. Features[d] = {p \in Frame : Strictly(<<2 * p[1] + 1, 2 * p[2] + 1>>, d.kps)}
      BY DEF Features
    <3>3. IsFiniteSet(d.kps) /\ d.kps \subseteq Points /\ HullMargin \in Nat
      BY BoxFacts, FrameAssumption
    <3>4. Features[d] \subseteq m
      <4> SUFFICES ASSUME NEW p \in Features[d] PROVE p \in m
        OBVIOUS
      <4>1. p \in Frame /\ p \in Points /\ Strictly(Pixel2(p), d.kps)
        BY <3>2, FramePoints DEF Pixel2
      <4> QED
        BY <3>1, <3>3, <4>1, MaskCoversHull
    <3> QED
      BY <2>1, <2>3, <3>4 DEF Replaced
  <2>4. CASE m = GeometryMask[d] /\ d.kps = {}
    <3>1. m = Ellipse[d]
      BY <2>4 DEF GeometryMask
    <3> QED
      BY <2>1, <2>2, <2>4, <3>1 DEF Replaced
  <2>5. CASE cfg.segmenter /\ m \in SegmentMasks[d]
    <3>1. PICK raw \in Silhouettes(d) : m = SegmentMask(d, raw)
      BY <2>5 DEF SegmentMasks
    <3>2. Ellipse[d] \subseteq m
      BY <3>1 DEF SegmentMask
    <3> QED
      BY <2>1, <2>2, <2>5, <3>2 DEF Replaced
  <2> QED
    BY <2>3, <2>4, <2>5 DEF Masks
<1> QED
  BY <1>1, <1>2, AppliedIs

(* Whichever mask a face got, it stays within the reach of the face.          *)
LEMMA MaskWithinReach ==
  ASSUME NEW d \in Faces, NEW m \in Masks(d), cfg.state = "ACTIVE"
  PROVE  Applied(m) \subseteq Reach(d)
<1>1. d \notin Persons
  BY FrameAssumption
<1>2. Reach(d) = GeometryMask[d] \cup Ellipse[d] \cup Crop(d.box)
  BY <1>1 DEF Reach
<1>3. CASE m = GeometryMask[d]
  BY <1>2, <1>3, AppliedIs
<1>4. CASE m \in SegmentMasks[d]
  <2>1. PICK raw \in Silhouettes(d) : m = SegmentMask(d, raw)
    BY <1>4 DEF SegmentMasks
  <2>2. m \subseteq Ellipse[d] \cup Crop(d.box)
    BY <2>1 DEF SegmentMask, Dilated
  <2> QED
    BY <1>2, <2>2, AppliedIs
<1> QED
  BY <1>3, <1>4 DEF Masks

(* A face whose centre lies inside the ROI passes the gate; one that passes   *)
(* it is not outside (roi.rs 96-115, pipeline.rs 827-832).                    *)
LEMMA GateIsExact ==
  ASSUME NEW d \in Faces \cup Persons, cfg.roi \in Rois \cup {NULL}
  PROVE  /\ cfg.roi = NULL \/ Strictly(Centre2(d.box), Range(cfg.roi)) => InRoi(d)
         /\ InRoi(d) /\ cfg.roi # NULL => ~Outside(Centre2(d.box), Range(cfg.roi))
<1>1. PICK p : p = Centre2(d.box)
  OBVIOUS
<1>2. PICK ring : ring = cfg.roi
  OBVIOUS
<1>3. p \in Points
  <2>1. IsBox(d.box)
    BY BoxFacts
  <2>2. p = <<d.box[1] + d.box[3], d.box[2] + d.box[4]>>
    BY <1>1 DEF Centre2
  <2>3. d.box[1] + d.box[3] \in Int /\ d.box[2] + d.box[4] \in Int
    BY <2>1 DEF IsBox
  <2> QED
    BY <2>2, <2>3 DEF Points
<1>4. InRoi(d) <=> (ring = NULL \/ Encloses(ring, p))
  BY <1>1, <1>2 DEF InRoi
<1>5. CASE ring = NULL
  BY <1>2, <1>4, <1>5
<1>6. CASE ring # NULL
  <2>1. Convex(ring)
    BY <1>2, <1>6, FrameAssumption
  <2>2. Strictly(p, Range(ring)) => Encloses(ring, p)
    BY <1>3, <2>1, ConvexEncloses
  <2>3. Encloses(ring, p) => ~Outside(p, Range(ring))
    BY <1>3, <2>1, ConvexSurrounds, EnclosedNotOutside
  <2> QED
    BY <1>1, <1>2, <1>4, <1>6, <2>2, <2>3
<1> QED
  BY <1>5, <1>6

------------------------------------------------------------------------------
(* The invariant of the frame.                                                *)

(* The type invariant.                                                        *)
Types ==
  /\ cfg \in Configs
  /\ stage \in {"detect", "faces", "done", "error"}
  /\ next \in Nat \ {0}
  /\ found \subseteq Faces /\ dets \in Seq(Faces)
  /\ kept \in Seq(Faces \cup Persons) /\ rejected \subseteq Faces

(* Nothing has been looked at while the detector runs.                        *)
Fresh ==
  stage = "detect" => /\ found = {} /\ dets = <<>> /\ next = 1
                      /\ blurred = {} /\ kept = <<>> /\ rejected = {}

(* The branches: only an ACTIVE camera has an ROI or looks at faces one by    *)
(* one, and its frame is done when all of them were looked at.                *)
Branches ==
  /\ cfg.state # "ACTIVE" => cfg.roi = NULL
  /\ stage = "faces" => cfg.state = "ACTIVE"
  /\ stage = "done" /\ cfg.state = "ACTIVE" => next > Len(dets)

(* Suppression loses no face.                                                 *)
AllStoodFor == \A c \in found : \E d \in Range(dets) : Stands(d, c)

(* Every face looked at was passed over for a reason or covered; what covers  *)
(* a face stays, since the heads are drawn only when nothing is kept.         *)
LookedAt(i) ==
  \/ dets[i] \in rejected
  \/ ~InRoi(dets[i])
  \/ kept # <<>> /\ \E m \in Masks(dets[i]) : Applied(m) \subseteq blurred
LookedAtSoFar ==
  cfg.state = "ACTIVE" => \A i \in 1..Len(dets) : i < next => LookedAt(i)

(* What is replaced belongs to what is kept, and that passed the gate.        *)
WithinKept ==
  cfg.state = "ACTIVE" =>
    /\ blurred \subseteq UNION {Reach(d) : d \in Range(kept)}
    /\ \A d \in Range(kept) : InRoi(d)

(* A learning camera's frame is done in one step.                             *)
Learned ==
  cfg.state = "LEARNING" /\ stage = "done" =>
    kept = dets /\ blurred = UNION {Expanded(d.box) : d \in Range(dets)}

(* The inductive invariant.                                                   *)
FrameInv ==
  Types /\ Fresh /\ Branches /\ AllStoodFor /\ LookedAtSoFar /\ WithinKept /\ Learned

(* The invariant holds before the detector runs.                              *)
THEOREM FrameInit == Init => FrameInv
<1> SUFFICES ASSUME Init PROVE FrameInv
  OBVIOUS
<1>1. Types
  <2>1. <<>> \in Seq(Faces) /\ <<>> \in Seq(Faces \cup Persons) /\ 1 \in Nat \ {0}
    OBVIOUS
  <2> QED
    BY <2>1 DEF Init, Types
<1>2. Fresh /\ Branches /\ AllStoodFor /\ Learned
  BY DEF Init, Fresh, Branches, AllStoodFor, Learned
<1>3. LookedAtSoFar
  <2>1. Len(dets) = 0 /\ 1..0 = {}
    BY DEF Init
  <2> QED
    BY <2>1 DEF LookedAtSoFar
<1>4. WithinKept
  BY RangeOfEmpty DEF Init, WithinKept
<1> QED
  BY <1>1, <1>2, <1>3, <1>4 DEF FrameInv

(* The frame's camera does not change, nor what follows from it.              *)
LEMMA SameCamera ==
  ASSUME cfg' = cfg
  PROVE  /\ \A d : InRoi(d)' <=> InRoi(d)
         /\ \A d : Masks(d)' = Masks(d)
         /\ \A m : Applied(m)' = Applied(m)
         /\ \A d : Reach(d)' = Reach(d)
         /\ \A b : Expanded(b)' = Expanded(b)
<1>1. \A d : InRoi(d)' <=> InRoi(d)
  BY DEF InRoi
<1>2. \A d : Masks(d)' = Masks(d)
  BY DEF Masks
<1>3. \A m : Applied(m)' = Applied(m)
  BY DEF Applied
<1>4. \A b : Expanded(b)' = Expanded(b)
  BY DEF Expanded, Region
<1>5. \A d : Reach(d)' = Reach(d)
  BY <1>4 DEF Reach
<1> QED
  BY <1>1, <1>2, <1>3, <1>4, <1>5

(* WholeFrame keeps the invariant.                                            *)
LEMMA WholeFrameKeeps ==
  ASSUME FrameInv, WholeFrame
  PROVE  FrameInv'
<1>1. /\ stage = "detect" /\ cfg.state = "INITIAL" /\ stage' = "done" /\ cfg' = cfg /\ found' = found
      /\ dets' = dets /\ next' = next /\ kept' = kept /\ rejected' = rejected
  BY DEF WholeFrame
<1>2. Types'
  BY <1>1 DEF FrameInv, Types
<1>3. Fresh' /\ Branches' /\ LookedAtSoFar' /\ WithinKept' /\ Learned'
  BY <1>1 DEF FrameInv, Fresh, Branches, LookedAtSoFar, WithinKept, Learned
<1>4. AllStoodFor'
  BY <1>1 DEF FrameInv, AllStoodFor, Stands
<1> QED
  BY <1>2, <1>3, <1>4 DEF FrameInv

(* A frame that fails, or a step that changes nothing.                        *)
LEMMA FailureKeeps ==
  ASSUME FrameInv, UNCHANGED <<cfg, found, dets, next, blurred, kept, rejected>>,
         stage' = "error" \/ stage' = stage
  PROVE  FrameInv'
<1>1. /\ cfg' = cfg /\ found' = found /\ blurred' = blurred
      /\ dets' = dets /\ next' = next /\ kept' = kept /\ rejected' = rejected
  OBVIOUS
<1>2. Types'
  BY <1>1 DEF FrameInv, Types
<1>3. Fresh' /\ Branches'
  BY <1>1 DEF FrameInv, Fresh, Branches
<1>4. AllStoodFor'
  BY <1>1 DEF FrameInv, AllStoodFor, Stands
<1>5. LookedAtSoFar'
  BY <1>1, SameCamera DEF FrameInv, LookedAtSoFar, LookedAt
<1>6. WithinKept'
  BY <1>1, SameCamera DEF FrameInv, WithinKept
<1>7. Learned'
  BY <1>1, SameCamera DEF FrameInv, Learned
<1> QED
  BY <1>2, <1>3, <1>4, <1>5, <1>6, <1>7 DEF FrameInv

(* Detect keeps the invariant: suppression leaves for every face found one    *)
(* that stands for it.                                                        *)
LEMMA DetectKeeps ==
  ASSUME FrameInv, Detect
  PROVE  FrameInv'
<1>1. /\ stage = "detect" /\ cfg.state # "INITIAL" /\ cfg' = cfg /\ next' = next /\ rejected' = rejected
  BY DEF Detect
<1>2. PICK S \in SUBSET Faces : \E q \in Descending(S) :
        found' = S /\ dets' = Nms(q, IouNum, IouDen)
  BY DEF Detect
<1>3. PICK q \in Descending(S) : found' = S /\ dets' = Nms(q, IouNum, IouDen)
  BY <1>2
<1>4. \/ /\ cfg.state = "LEARNING" /\ stage' = "done" /\ kept' = dets'
         /\ blurred' = UNION {Expanded(d.box) : d \in Range(dets')}
      \/ /\ cfg.state # "LEARNING" /\ stage' = "faces" /\ blurred' = blurred /\ kept' = kept
  BY DEF Detect
<1>5. q \in Seq(Faces) /\ Range(q) = S /\ Ordered(q)
  BY FrameAssumption, DescendingIs
<1>6. \A d \in Faces : d.conf \in Int
  BY FrameAssumption
<1>7. dets' \in Seq(Faces) /\ \A c \in S : \E d \in Range(dets') : Stands(d, c)
  BY <1>3, <1>5, <1>6, NmsStands
<1>8. next = 1 /\ blurred = {} /\ kept = <<>> /\ rejected = {}
  BY <1>1 DEF FrameInv, Fresh
<1>9. Types'
  <2>1. \A q1 \in Seq(Faces) : q1 \in Seq(Faces \cup Persons)
    OBVIOUS
  <2> QED
    BY <1>1, <1>3, <1>4, <1>7, <2>1 DEF FrameInv, Types
<1>10. cfg.state \in {"INITIAL", "LEARNING", "ACTIVE"}
  BY DEF FrameInv, Types, Configs
<1>11. Fresh' /\ Branches'
  BY <1>1, <1>4, <1>10 DEF FrameInv, Fresh, Branches
<1>12. AllStoodFor'
  BY <1>3, <1>7 DEF AllStoodFor, Stands
<1>13. LookedAtSoFar'
  <2>1. \A i \in 1..Len(dets') : ~ (i < 1)
    BY <1>7
  <2> QED
    BY <1>1, <1>8, <2>1 DEF LookedAtSoFar
<1>14. WithinKept'
  BY <1>1, <1>4, <1>8, RangeOfEmpty DEF WithinKept
<1>15. Learned'
  BY <1>1, <1>4, SameCamera DEF Learned
<1> QED
  BY <1>9, <1>11, <1>12, <1>13, <1>14, <1>15 DEF FrameInv

(* Passing over a face outside the ROI or one that the classifier rejects     *)
(* keeps the invariant.                                                       *)
LEMMA PassKeeps ==
  ASSUME FrameInv, Looking, ~InRoi(dets[next]) \/ dets[next] \in rejected', Pass,
         rejected \subseteq rejected', rejected' \subseteq Faces,
         UNCHANGED <<cfg, found, dets, stage, blurred, kept>>
  PROVE  FrameInv'
<1>1. /\ stage = "faces" /\ next <= Len(dets) /\ next' = next + 1
      /\ cfg' = cfg /\ found' = found /\ dets' = dets /\ stage' = stage /\ blurred' = blurred /\ kept' = kept
  BY DEF Looking, Pass
<1>2. Types'
  BY <1>1 DEF FrameInv, Types
<1>3. Fresh' /\ Branches'
  BY <1>1 DEF FrameInv, Fresh, Branches
<1>4. AllStoodFor'
  BY <1>1 DEF FrameInv, AllStoodFor, Stands
<1>5. LookedAtSoFar'
  <2> SUFFICES ASSUME cfg.state = "ACTIVE", NEW i \in 1..Len(dets), i < next + 1 PROVE LookedAt(i)'
    BY <1>1 DEF LookedAtSoFar
  <2>1. i < next \/ i = next
    BY DEF FrameInv, Types
  <2>2. CASE i < next
    <3>1. LookedAt(i)
      BY <2>2 DEF FrameInv, LookedAtSoFar
    <3> QED
      BY <1>1, <3>1, SameCamera DEF LookedAt
  <2>3. CASE i = next
    BY <1>1, <2>3, SameCamera DEF LookedAt
  <2> QED
    BY <2>1, <2>2, <2>3
<1>6. WithinKept'
  BY <1>1, SameCamera DEF FrameInv, WithinKept
<1>7. Learned'
  BY <1>1, SameCamera DEF FrameInv, Learned
<1> QED
  BY <1>2, <1>3, <1>4, <1>5, <1>6, <1>7 DEF FrameInv

(* Masking a face keeps the invariant: what was covered stays covered, and    *)
(* the mask is within reach of what is now kept.                              *)
LEMMA MaskFaceKeeps ==
  ASSUME FrameInv, MaskFace
  PROVE  FrameInv'
<1>1. /\ stage = "faces" /\ next <= Len(dets) /\ next' = next + 1 /\ InRoi(dets[next])
      /\ cfg' = cfg /\ found' = found /\ dets' = dets /\ stage' = stage /\ rejected' = rejected
      /\ kept' = Append(kept, dets[next])
  BY DEF MaskFace, Looking, Pass
<1>2. PICK m \in Masks(dets[next]) : blurred' = blurred \cup Applied(m)
  BY DEF MaskFace
<1>3. /\ next \in Nat \ {0} /\ dets \in Seq(Faces) /\ dets[next] \in Faces /\ next \in 1..Len(dets)
      /\ kept \in Seq(Faces \cup Persons) /\ cfg.state = "ACTIVE"
  <2>1. next \in Nat \ {0} /\ dets \in Seq(Faces) /\ kept \in Seq(Faces \cup Persons) /\ cfg.state = "ACTIVE"
    BY <1>1 DEF FrameInv, Types, Branches
  <2>2. next \in 1..Len(dets)
    BY <1>1, <2>1
  <2> QED
    BY <2>1, <2>2
<1>4. kept' \in Seq(Faces \cup Persons) /\ Range(kept') = Range(kept) \cup {dets[next]} /\ kept' # <<>>
  <2>1. kept' \in Seq(Faces \cup Persons) /\ Range(kept') = Range(kept) \cup {dets[next]}
    BY <1>1, <1>3, RangeOfAppend
  <2> QED
    BY <2>1, RangeOfEmpty
<1>5. Types'
  BY <1>1, <1>3, <1>4 DEF FrameInv, Types
<1>6. Fresh' /\ Branches'
  BY <1>1 DEF FrameInv, Fresh, Branches
<1>7. AllStoodFor'
  BY <1>1 DEF FrameInv, AllStoodFor, Stands
<1>8. LookedAtSoFar'
  <2> SUFFICES ASSUME cfg.state = "ACTIVE", NEW i \in 1..Len(dets), i < next + 1 PROVE LookedAt(i)'
    BY <1>1 DEF LookedAtSoFar
  <2>1. i < next \/ i = next
    BY <1>3
  <2>2. CASE i < next
    <3>1. LookedAt(i)
      BY <2>2 DEF FrameInv, LookedAtSoFar
    <3>2. (\E k \in Masks(dets[i]) : Applied(k) \subseteq blurred)
            => \E k \in Masks(dets[i])' : Applied(k)' \subseteq blurred'
      BY <1>1, <1>2, SameCamera
    <3> QED
      BY <1>1, <1>4, <3>1, <3>2, SameCamera DEF LookedAt
  <2>3. CASE i = next
    <3>1. \E k \in Masks(dets[i])' : Applied(k)' \subseteq blurred'
      BY <1>1, <1>2, <2>3, SameCamera
    <3> QED
      BY <1>4, <3>1 DEF LookedAt
  <2> QED
    BY <2>1, <2>2, <2>3
<1>9. WithinKept'
  <2>1. Applied(m) \subseteq Reach(dets[next])
    BY <1>3, MaskWithinReach
  <2>2. blurred \subseteq UNION {Reach(d) : d \in Range(kept)} /\ \A d \in Range(kept) : InRoi(d)
    BY <1>3 DEF FrameInv, WithinKept
  <2>3. blurred' \subseteq UNION {Reach(d) : d \in Range(kept')}
    BY <1>2, <1>4, <2>1, <2>2
  <2>4. \A d \in Range(kept') : InRoi(d)
    BY <1>1, <1>4, <2>2
  <2> QED
    BY <1>1, <2>3, <2>4, SameCamera DEF WithinKept
<1>10. Learned'
  BY <1>1, <1>3 DEF Learned
<1> QED
  BY <1>5, <1>6, <1>7, <1>8, <1>9, <1>10 DEF FrameInv

(* The fallback to heads keeps the invariant. It redraws the image from       *)
(* nothing, which loses no face since none was kept.                          *)
LEMMA HeadsKeeps ==
  ASSUME FrameInv, Heads
  PROVE  FrameInv'
<1>1. /\ stage = "faces" /\ next > Len(dets) /\ stage' = "done"
      /\ cfg' = cfg /\ found' = found /\ dets' = dets /\ next' = next /\ rejected' = rejected
  BY DEF Heads
<1>2. /\ next \in Nat \ {0} /\ dets \in Seq(Faces) /\ kept \in Seq(Faces \cup Persons) /\ cfg.state = "ACTIVE"
  BY <1>1 DEF FrameInv, Types, Branches
<1>3. \/ blurred' = blurred /\ kept' = kept
      \/ /\ kept = <<>>
         /\ \E S \in SUBSET Persons : \E q \in Descending(S) :
              LET heads == Gated(Nms(q, IouNum, IouDen))
              IN /\ kept' = heads
                 /\ blurred' = UNION {Applied(HeadMask[d]) : d \in Range(heads)}
  BY DEF Heads
<1>4. /\ kept' \in Seq(Faces \cup Persons)
      /\ blurred' \subseteq UNION {Reach(d) : d \in Range(kept')}
      /\ \A d \in Range(kept') : InRoi(d)
  <2>1. CASE blurred' = blurred /\ kept' = kept
    BY <1>2, <2>1 DEF FrameInv, WithinKept
  <2>2. CASE \E S \in SUBSET Persons : \E q \in Descending(S) :
               LET heads == Gated(Nms(q, IouNum, IouDen))
               IN /\ kept' = heads
                  /\ blurred' = UNION {Applied(HeadMask[d]) : d \in Range(heads)}
    <3>0. PICK S \in SUBSET Persons : \E q \in Descending(S) :
            /\ kept' = Gated(Nms(q, IouNum, IouDen))
            /\ blurred' = UNION {Applied(HeadMask[d]) : d \in Range(Gated(Nms(q, IouNum, IouDen)))}
      BY <2>2
    <3>1. PICK q \in Descending(S) :
            /\ kept' = Gated(Nms(q, IouNum, IouDen))
            /\ blurred' = UNION {Applied(HeadMask[d]) : d \in Range(Gated(Nms(q, IouNum, IouDen)))}
      BY <3>0
    <3>2. q \in Seq(Persons) /\ Ordered(q)
      BY FrameAssumption, DescendingIs
    <3>3. \A d \in Persons : d.conf \in Int
      BY FrameAssumption
    <3>4. Nms(q, IouNum, IouDen) \in Seq(Persons)
      BY <3>2, <3>3, NmsStands
    <3>5. kept' \in Seq(Persons) /\ \A d \in Range(kept') : InRoi(d)
      BY <3>1, <3>4, GatedKeeps
    <3>6. Range(kept') \subseteq Persons
      BY <3>5, RangeIs
    <3>7. \A d \in Range(kept') : Applied(HeadMask[d]) \subseteq Reach(d)
      BY <1>2, <3>6, AppliedIs DEF Reach
    <3>8. blurred' = UNION {Applied(HeadMask[d]) : d \in Range(kept')}
      BY <3>1
    <3>9. kept' \in Seq(Faces \cup Persons)
      BY <3>5
    <3>10. blurred' \subseteq UNION {Reach(d) : d \in Range(kept')}
      BY <3>7, <3>8
    <3> QED
      BY <3>5, <3>9, <3>10
  <2> QED
    BY <1>3, <2>1, <2>2
<1>5. Types'
  BY <1>1, <1>2, <1>4 DEF FrameInv, Types
<1>6. Fresh' /\ Branches'
  BY <1>1 DEF FrameInv, Fresh, Branches
<1>7. AllStoodFor'
  BY <1>1 DEF FrameInv, AllStoodFor, Stands
<1>8. LookedAtSoFar'
  <2> SUFFICES ASSUME NEW i \in 1..Len(dets), i < next PROVE LookedAt(i)'
    BY <1>1 DEF LookedAtSoFar
  <2>1. LookedAt(i)
    BY <1>2 DEF FrameInv, LookedAtSoFar
  <2>2. CASE blurred' = blurred /\ kept' = kept
    BY <1>1, <2>1, <2>2, SameCamera DEF LookedAt
  <2>3. CASE kept = <<>>
    BY <1>1, <2>1, <2>3, SameCamera DEF LookedAt
  <2> QED
    BY <1>3, <2>2, <2>3
<1>9. WithinKept'
  BY <1>1, <1>4, SameCamera DEF WithinKept
<1>10. Learned'
  BY <1>1, <1>2 DEF Learned
<1> QED
  BY <1>5, <1>6, <1>7, <1>8, <1>9, <1>10 DEF FrameInv

(* Every step keeps the invariant.                                            *)
THEOREM FrameStep == FrameInv /\ [Next]_vars => FrameInv'
<1> SUFFICES ASSUME FrameInv, [Next]_vars PROVE FrameInv'
  OBVIOUS
<1>1. CASE WholeFrame
  BY <1>1, WholeFrameKeeps
<1>2. CASE DetectFails
  BY <1>2, FailureKeeps DEF DetectFails
<1>3. CASE Detect
  BY <1>3, DetectKeeps
<1>4. CASE SkipOutside
  <2>1. rejected' = rejected /\ rejected \subseteq Faces
    BY <1>4 DEF SkipOutside, FrameInv, Types
  <2> QED
    BY <1>4, <2>1, PassKeeps DEF SkipOutside
<1>5. CASE ClassifierFails
  BY <1>5, FailureKeeps DEF ClassifierFails
<1>6. CASE Reject
  <2>1. dets \in Seq(Faces) /\ next \in Nat \ {0} /\ next <= Len(dets) /\ rejected \subseteq Faces
    BY <1>6 DEF Reject, Looking, FrameInv, Types
  <2>2. dets[next] \in Faces
    BY <2>1
  <2>3. rejected' = rejected \cup {dets[next]}
    BY <1>6 DEF Reject
  <2>4. rejected \subseteq rejected' /\ rejected' \subseteq Faces /\ dets[next] \in rejected'
    BY <2>1, <2>2, <2>3
  <2> QED
    BY <1>6, <2>4, PassKeeps DEF Reject
<1>7. CASE MaskFace
  BY <1>7, MaskFaceKeeps
<1>8. CASE Heads
  BY <1>8, HeadsKeeps
<1>9. CASE HeadsFail
  BY <1>9, FailureKeeps DEF HeadsFail
<1>10. CASE UNCHANGED vars
  BY <1>10, FailureKeeps DEF vars
<1> QED
  BY <1>1, <1>2, <1>3, <1>4, <1>5, <1>6, <1>7, <1>8, <1>9, <1>10 DEF Next

(* The invariant implies FacesReplaced: the gate lets every face inside the   *)
(* ROI through, and its mask covers what must be covered.                     *)
LEMMA InvReplaces == FrameInv => FacesReplaced
<1> SUFFICES ASSUME FrameInv, stage = "done", cfg.state # "INITIAL", NEW c \in found
             PROVE  \E d \in Range(dets) :
                      /\ Stands(d, c)
                      /\ IF cfg.state = "LEARNING" THEN Inside(d.box) \subseteq blurred
                         ELSE MustCover(d) => Thin(d) \/ Replaced(d)
  BY DEF FacesReplaced
<1>1. PICK d \in Range(dets) : Stands(d, c)
  BY DEF FrameInv, AllStoodFor
<1>2. cfg \in Configs /\ dets \in Seq(Faces)
  BY DEF FrameInv, Types
<1>3. PICK i \in 1..Len(dets) : d = dets[i]
  BY <1>2, RangeIs
<1>4. d \in Faces
  BY <1>2, RangeIs
<1>5. CASE cfg.state = "LEARNING"
  <2>1. blurred = UNION {Expanded(x.box) : x \in Range(dets)}
    BY <1>5 DEF FrameInv, Learned
  <2>2. Inside(d.box) \subseteq Expanded(d.box)
    <3>1. IsBox(d.box)
      BY <1>4, BoxFacts
    <3>2. cfg.op \in {"blur", "pixelate"}
      BY <1>2 DEF Configs
    <3> QED
      BY <3>1, <3>2, InsideInExpanded
  <2> QED
    BY <1>1, <1>5, <2>1, <2>2
<1>6. CASE cfg.state # "LEARNING"
  <2>1. cfg.state = "ACTIVE" /\ cfg.roi \in Rois \cup {NULL}
    BY <1>2, <1>6 DEF Configs
  <2>2. LookedAt(i)
    <3>1. next > Len(dets) /\ next \in Nat /\ Len(dets) \in Nat
      BY <1>2, <2>1 DEF FrameInv, Types, Branches
    <3>2. i < next
      BY <3>1
    <3> QED
      BY <2>1, <3>2 DEF FrameInv, LookedAtSoFar
  <2>3. MustCover(d) => Thin(d) \/ Replaced(d)
    <3> SUFFICES ASSUME MustCover(d) PROVE Thin(d) \/ Replaced(d)
      OBVIOUS
    <3>1. InRoi(d) /\ d \notin rejected
      BY <1>4, <2>1, GateIsExact DEF MustCover
    <3>2. PICK m \in Masks(d) : Applied(m) \subseteq blurred
      BY <1>3, <2>2, <3>1 DEF LookedAt
    <3> QED
      BY <1>4, <3>2, MaskReplaces
  <2> QED
    BY <1>1, <1>6, <2>3
<1> QED
  BY <1>5, <1>6

(* The invariant implies OnlyFacesReplaced.                                   *)
LEMMA InvOnlyReplaces == FrameInv => OnlyFacesReplaced
<1> SUFFICES ASSUME FrameInv, stage = "done", cfg.state # "INITIAL"
             PROVE  /\ blurred \subseteq UNION {Reach(d) : d \in Range(kept)}
                    /\ cfg.roi # NULL => \A d \in Range(kept) : ~Outside(Centre2(d.box), Range(cfg.roi))
  BY DEF OnlyFacesReplaced
<1>1. cfg \in Configs /\ kept \in Seq(Faces \cup Persons)
  BY DEF FrameInv, Types
<1>2. cfg.roi \in Rois \cup {NULL} /\ (cfg.state = "LEARNING" \/ cfg.state = "ACTIVE")
  BY <1>1 DEF Configs
<1>3. CASE cfg.state = "LEARNING"
  <2>1. kept = dets /\ blurred = UNION {Expanded(d.box) : d \in Range(dets)} /\ cfg.roi = NULL
    BY <1>3 DEF FrameInv, Learned, Branches
  <2>2. \A d : Reach(d) = Expanded(d.box)
    BY <1>3 DEF Reach
  <2> QED
    BY <2>1, <2>2
<1>4. CASE cfg.state = "ACTIVE"
  <2>1. blurred \subseteq UNION {Reach(d) : d \in Range(kept)} /\ \A d \in Range(kept) : InRoi(d)
    BY <1>4 DEF FrameInv, WithinKept
  <2>2. Range(kept) \subseteq Faces \cup Persons
    BY <1>1, RangeIs
  <2>3. cfg.roi # NULL => \A d \in Range(kept) : ~Outside(Centre2(d.box), Range(cfg.roi))
    BY <1>2, <2>1, <2>2, GateIsExact
  <2> QED
    BY <2>1, <2>3
<1> QED
  BY <1>2, <1>3, <1>4

(* The inductive invariant holds in every reachable state.                    *)
THEOREM FrameInvHolds == Spec => []FrameInv
<1>1. Init => FrameInv
  BY FrameInit
<1>2. FrameInv /\ [Next]_vars => FrameInv'
  BY FrameStep
<1> QED
  BY <1>1, <1>2, PTL DEF Spec

(* FacesReplaced, for every frame, detection, ROI and answer of the models:   *)
(* whatever the detector finds inside the ROI and the classifier does not     *)
(* reject is replaced where it could be recognized, or stood for by a better  *)
(* detection that is, unless a mask of it is one pixel wide or high           *)
(* (pipeline.rs 834-894, models.rs 322-339).                                  *)
THEOREM FacesAreReplaced == Spec => []FacesReplaced
  BY FrameInvHolds, InvReplaces, PTL

(* OnlyFacesReplaced, likewise: every pixel that changed belongs to a         *)
(* detection of the outcome, none of which lies outside the ROI (pipeline.rs  *)
(* 827-832 and 919-923).                                                      *)
THEOREM OnlyFacesAreReplaced == Spec => []OnlyFacesReplaced
  BY FrameInvHolds, InvOnlyReplaces, PTL

------------------------------------------------------------------------------
(* The blur: the sliding window computes, for every line, radius and region,   *)
(* the averages that the definition of the window asks for.  The invariant     *)
(* says what the running sum is at each point: the samples seeded so far, then *)
(* the window of the pixel to be written.                                     *)
(* The shape of the state: the region and the position in it.                *)
Shape ==
  /\ line \in Lines /\ radius \in Nat \ {0}
  /\ pass \in {"rows", "columns"}
  /\ first \in Pixels /\ last \in Pixels /\ first < last
  /\ pc \in {"seed", "slide", "done"}
  /\ at \in Nat /\ count \in Int /\ acc \in Int
  /\ out \in [Pixels -> Int]

(* What has been summed when.                                                *)
Summed ==
  /\ pc = "seed" =>
       /\ From(first) <= at /\ at <= To(first)
       /\ acc = line[at] - line[From(first)] /\ count = at - From(first)
  /\ pc = "slide" =>
       /\ first <= at /\ at <= last
       /\ acc = line[To(at)] - line[From(at)] /\ count = To(at) - From(at)
  /\ pc = "done" => at = last + 1

(* What has been written.                                                    *)
Written == pc # "seed" => \A x \in first..(at - 1) : out[x] = Average(x)

BlurInv == Shape /\ Summed /\ Written

------------------------------------------------------------------------------
(* A line's prefix sums are naturals below the word size and never decrease.  *)
LEMMA LineFacts ==
  ASSUME line \in Lines
  PROVE  /\ LineLength \in Nat \ {0} /\ Wrap \in Nat \ {0}
         /\ \A i \in 0..LineLength : line[i] \in Nat /\ line[i] < Wrap
         /\ \A i, j \in 0..LineLength : i <= j => line[i] <= line[j]
<1>1. /\ line \in [0..LineLength -> Nat] /\ line[LineLength] < Wrap
      /\ \A i, j \in 0..LineLength : i <= j => line[i] <= line[j]
  BY BlurAssumption
<1>2. LineLength \in Nat \ {0} /\ Wrap \in Nat \ {0}
  BY BlurAssumption
<1>3. \A i \in 0..LineLength : line[i] <= line[LineLength]
  BY <1>1, <1>2
<1> QED
  BY <1>1, <1>2, <1>3

(* The window of a pixel of the region is a nonempty part of the line.        *)
LEMMA WindowFacts ==
  ASSUME Shape, NEW x \in first..last
  PROVE  /\ From(x) \in Nat /\ To(x) \in Nat
         /\ From(x) <= x /\ x < To(x) /\ To(x) <= LineLength
BY BlurAssumption DEF Shape, Pixels, From, To, Low, High

(* From one pixel to its right neighbour the window gains and loses what      *)
(* Enters and Leaves say.                                                     *)
LEMMA WindowSlides ==
  ASSUME Shape, NEW x \in first..last, x < last
  PROVE  /\ To(x + 1) = To(x) + (IF Enters(x) THEN 1 ELSE 0)
         /\ From(x + 1) = From(x) + (IF Leaves(x) THEN 1 ELSE 0)
         /\ Enters(x) => To(x) = x + radius + 1
         /\ Leaves(x) => From(x) = x - radius
BY BlurAssumption DEF Shape, Pixels, From, To, Low, High, Enters, Leaves

(* Word arithmetic on values that do not leave the word.                      *)
LEMMA NoWrap ==
  ASSUME NEW a \in Nat, NEW b \in Nat, Wrap \in Nat
  PROVE  /\ a + b < Wrap => Plus(a, b) = a + b
         /\ a >= b => Minus(a, b) = a - b
         /\ Plus(a, b) \in Int /\ Minus(a, b) \in Int
BY DEF Plus, Minus

------------------------------------------------------------------------------
LEMMA BlurInitEstablishes == BlurInit => BlurInv
<1> SUFFICES ASSUME BlurInit PROVE BlurInv
  OBVIOUS
<1>1. radius \in Nat \ {0}
  BY BlurAssumption DEF BlurInit
<1>2. first \in Nat /\ last \in Nat /\ last < LineLength /\ LineLength \in Nat
  BY BlurAssumption DEF BlurInit, Pixels
<1>3. From(first) \in Nat /\ From(first) <= first /\ first < To(first)
      /\ To(first) \in Nat /\ From(first) <= LineLength
  BY <1>1, <1>2 DEF BlurInit, From, To, Low, High
<1>4. Shape
  BY <1>1, <1>3 DEF BlurInit, Shape
<1>5. line[From(first)] \in Nat
  BY <1>2, <1>3, LineFacts DEF BlurInit
<1>6. Summed
  <2>1. From(first) <= From(first) /\ line[From(first)] - line[From(first)] = 0
        /\ From(first) - From(first) = 0 /\ From(first) <= To(first)
    BY <1>2, <1>3, <1>5
  <2>2. pc = "seed" /\ at = From(first) /\ acc = 0 /\ count = 0
    BY DEF BlurInit
  <2> QED
    BY <2>1, <2>2 DEF Summed
<1> QED
  BY <1>4, <1>6 DEF BlurInit, BlurInv, Written

(* The frame of a step: it reads the line and the region, and keeps them.     *)
LEMMA StepKeepsWindow ==
  ASSUME UNCHANGED <<line, radius, pass, first, last>>
  PROVE  \A x : From(x)' = From(x) /\ To(x)' = To(x) /\ Average(x)' = Average(x)
BY DEF From, To, Low, High, Average

LEMMA SeedPreserves == BlurInv /\ Seed => BlurInv'
<1> SUFFICES ASSUME BlurInv, Seed PROVE BlurInv'
  OBVIOUS
<1> USE DEF BlurInv
<1>1. /\ pc = "seed" /\ Shape /\ From(first) <= at /\ at <= To(first)
      /\ acc = line[at] - line[From(first)] /\ count = at - From(first)
  BY DEF Seed, Summed
<1>2. first \in first..last /\ first \in Nat
  BY <1>1 DEF Shape, Pixels
<1>3. /\ From(first) \in Nat /\ To(first) \in Nat
      /\ From(first) <= first /\ first < To(first) /\ To(first) <= LineLength
  BY <1>1, <1>2, WindowFacts
<1>4. \A x : From(x)' = From(x) /\ To(x)' = To(x) /\ Average(x)' = Average(x)
  BY StepKeepsWindow DEF Seed
<1>5. CASE at < To(first)
  <2>1. /\ at \in 0..LineLength /\ at + 1 \in 0..LineLength /\ From(first) \in 0..LineLength
    BY <1>1, <1>3, <1>5, BlurAssumption DEF Shape
  <2>2. /\ line[at] \in Nat /\ line[at + 1] \in Nat /\ line[From(first)] \in Nat
        /\ line[at] <= line[at + 1] /\ line[From(first)] <= line[at] /\ line[at + 1] < Wrap
        /\ Wrap \in Nat
    BY <1>1, <2>1, LineFacts DEF Shape
  <2>3. Plus(acc, Sample(at)) = line[at + 1] - line[From(first)]
    <3>1. acc \in Nat /\ Sample(at) \in Nat /\ acc + Sample(at) = line[at + 1] - line[From(first)]
      BY <1>1, <2>2 DEF Sample
    <3>2. acc + Sample(at) < Wrap
      BY <2>2, <3>1
    <3> QED
      BY <2>2, <3>1, <3>2, NoWrap
  <2>4. /\ acc' = line[at + 1] - line[From(first)] /\ count' = count + 1 /\ at' = at + 1
        /\ pc' = "seed" /\ UNCHANGED <<line, radius, pass, first, last, out>>
    BY <1>1, <1>5, <2>3 DEF Seed
  <2>5. Shape'
    <3>1. at \in Nat /\ count \in Int
      BY <1>1 DEF Shape
    <3>2. acc' \in Int /\ at' \in Nat /\ count' \in Int
      BY <2>2, <2>4, <3>1
    <3> QED
      BY <1>1, <2>4, <3>2 DEF Shape, Pixels
  <2>6. Summed'
    BY <1>1, <1>3, <1>4, <1>5, <2>1, <2>4 DEF Summed, Shape
  <2> QED
    BY <2>4, <2>5, <2>6 DEF Written
<1>6. CASE ~(at < To(first))
  <2>1. /\ pc' = "slide" /\ at' = first
        /\ UNCHANGED <<acc, count, line, radius, pass, first, last, out>>
    BY <1>6 DEF Seed
  <2>2. at = To(first)
    BY <1>1, <1>3, <1>6 DEF Shape
  <2>3. Shape'
    BY <1>1, <1>2, <2>1 DEF Shape, Pixels
  <2>4. Summed'
    BY <1>1, <1>2, <1>4, <2>1, <2>2 DEF Summed, Shape, Pixels
  <2>5. Written'
    BY <1>2, <2>1 DEF Written
  <2> QED
    BY <2>3, <2>4, <2>5
<1> QED
  BY <1>5, <1>6

LEMMA SlidePreserves == BlurInv /\ Slide => BlurInv'
<1> SUFFICES ASSUME BlurInv, Slide PROVE BlurInv'
  OBVIOUS
<1> USE DEF BlurInv
<1> DEFINE up   == IF Enters(at) THEN 1 ELSE 0
           down == IF Leaves(at) THEN 1 ELSE 0
<1>1. /\ pc = "slide" /\ Shape /\ first <= at /\ at <= last
      /\ acc = line[To(at)] - line[From(at)] /\ count = To(at) - From(at)
  BY DEF Slide, Summed
<1>2. /\ at \in first..last /\ first \in Nat /\ last \in Nat /\ last < LineLength
      /\ at \in Pixels /\ radius \in Nat /\ LineLength \in Nat
  BY <1>1, BlurAssumption DEF Shape, Pixels
<1>3. /\ From(at) \in Nat /\ To(at) \in Nat
      /\ From(at) <= at /\ at < To(at) /\ To(at) <= LineLength
  BY <1>1, <1>2, WindowFacts
<1>4. \A x : From(x)' = From(x) /\ To(x)' = To(x) /\ Average(x)' = Average(x)
  BY StepKeepsWindow DEF Slide
<1>5. /\ UNCHANGED <<line, radius, pass, first, last>> /\ at' = at + 1
      /\ pc' = IF at = last THEN "done" ELSE "slide"
      /\ count' = count + up - down
      /\ acc' = Minus(Plus(acc, Gained(at)), Lost(at))
  BY <1>1 DEF Slide
<1>6. out' = [out EXCEPT ![at] = Average(at)] /\ Average(at) \in Int
  <2>1. out' = [out EXCEPT ![at] = acc \div count]
    BY DEF Slide
  <2>2. count \in Nat \ {0} /\ acc \in Int
    BY <1>1, <1>3 DEF Shape
  <2> QED
    BY <1>1, <2>1, <2>2 DEF Average
<1>7. Written'
  <2>1. \A x \in first..at : out'[x] = Average(x)
    <3> TAKE x \in first..at
    <3>1. x \in Pixels
      BY <1>2 DEF Pixels
    <3>2. CASE x = at
      BY <1>2, <1>6, <3>2 DEF Shape
    <3>3. CASE x # at
      <4>1. x \in first..(at - 1)
        BY <1>2, <3>3
      <4> QED
        BY <1>1, <1>6, <3>1, <3>3, <4>1 DEF Shape, Written
    <3> QED
      BY <3>2, <3>3
  <2>2. first' = first /\ at' - 1 = at
    BY <1>2, <1>5
  <2> QED
    BY <1>4, <2>1, <2>2 DEF Written
(* The sum after the slide: nothing wraps, because the sample that leaves is  *)
(* part of the sum it leaves, and the whole line fits into a word.            *)
<1>8. acc' \in Int /\ (at < last => acc' = line[To(at + 1)] - line[From(at + 1)])
  <2>1. From(at) \in 0..LineLength /\ To(at) \in 0..LineLength
    BY <1>2, <1>3
  <2>2. /\ line[From(at)] \in Nat /\ line[To(at)] \in Nat
        /\ line[From(at)] <= line[To(at)] /\ line[To(at)] < Wrap /\ Wrap \in Nat
    BY <1>1, <1>3, <2>1, LineFacts DEF Shape
  <2>3. Gained(at) \in Nat /\ line[To(at)] + Gained(at) < Wrap
        /\ (Enters(at) => To(at) = at + radius + 1 /\ Gained(at) = line[To(at) + 1] - line[To(at)])
    <3>1. CASE Enters(at)
      <4>1. High \in Nat /\ High < LineLength
        BY <1>2 DEF High
      <4>3. at + radius + 1 <= High
        BY <3>1 DEF Enters
      <4>4. at + radius < High
        BY <1>2, <4>1, <4>3
      <4>5. To(at) = at + radius + 1
        BY <4>4 DEF To
      <4>6. To(at) \in 0..LineLength /\ To(at) + 1 \in 0..LineLength
        BY <1>2, <4>1, <4>3, <4>5
      <4>2. /\ line[To(at) + 1] \in Nat /\ line[To(at)] <= line[To(at) + 1]
            /\ line[To(at) + 1] < Wrap
        BY <1>1, <4>6, LineFacts DEF Shape
      <4> QED
        BY <2>2, <3>1, <4>2, <4>5 DEF Gained, Sample
    <3>2. CASE ~Enters(at)
      BY <2>2, <3>2 DEF Gained
    <3> QED
      BY <3>1, <3>2
  <2>4. Lost(at) \in Nat /\ Lost(at) <= acc + Gained(at)
        /\ (Leaves(at) => From(at) = at - radius /\ Lost(at) = line[From(at) + 1] - line[From(at)])
    <3>1. CASE Leaves(at)
      <4>1. From(at) = at - radius /\ From(at) + 1 \in 0..LineLength
        BY <1>1, <1>2, <1>3, <3>1 DEF Leaves, From, Low, Shape, Pixels
      <4>2. /\ line[From(at) + 1] \in Nat /\ line[From(at)] <= line[From(at) + 1]
            /\ line[From(at) + 1] <= line[To(at)]
        BY <1>1, <1>3, <2>1, <4>1, LineFacts DEF Shape
      <4> QED
        BY <1>1, <2>2, <2>3, <3>1, <4>1, <4>2 DEF Lost, Sample
    <3>2. CASE ~Leaves(at)
      BY <1>1, <2>2, <2>3, <3>2 DEF Lost
    <3> QED
      BY <3>1, <3>2
  <2>5. acc \in Nat /\ acc + Gained(at) < Wrap
    BY <1>1, <2>2, <2>3
  <2>6. Plus(acc, Gained(at)) = acc + Gained(at)
    BY <2>2, <2>3, <2>5, NoWrap
  <2>7. acc' = acc + Gained(at) - Lost(at)
    <3>1. acc + Gained(at) \in Nat /\ acc + Gained(at) >= Lost(at)
      BY <2>3, <2>4, <2>5
    <3>2. Minus(acc + Gained(at), Lost(at)) = acc + Gained(at) - Lost(at)
      BY <2>2, <2>3, <2>4, <2>5, <3>1 DEF Minus
    <3> QED
      BY <1>5, <2>6, <3>2
  <2>8. ASSUME at < last PROVE acc' = line[To(at + 1)] - line[From(at + 1)]
    <3>1. /\ To(at + 1) = To(at) + up /\ From(at + 1) = From(at) + down
      BY <1>1, <1>2, <2>8, WindowSlides
    <3>2. line[To(at + 1)] = line[To(at)] + Gained(at)
      <4>1. CASE Enters(at)
        <5>1. To(at + 1) = To(at) + 1 /\ Gained(at) = line[To(at) + 1] - line[To(at)]
          BY <2>3, <3>1, <4>1
        <5>2. To(at) + 1 \in 0..LineLength
          BY <1>2, <1>3, <4>1, <2>3, <3>1, <1>1, <2>8, <5>1, WindowFacts
        <5>3. line[To(at) + 1] \in Nat
          BY <1>1, <5>2, LineFacts DEF Shape
        <5> QED
          BY <2>2, <5>1, <5>3
      <4>2. CASE ~Enters(at)
        <5>1. Gained(at) = 0 /\ To(at + 1) = To(at)
          BY <1>3, <3>1, <4>2 DEF Gained
        <5> QED
          BY <2>2, <5>1
      <4> QED
        BY <4>1, <4>2
    <3>3. line[From(at + 1)] = line[From(at)] + Lost(at)
      <4>1. CASE Leaves(at)
        <5>1. From(at + 1) = From(at) + 1 /\ Lost(at) = line[From(at) + 1] - line[From(at)]
          BY <2>4, <3>1, <4>1
        <5>2. From(at) + 1 \in 0..LineLength
          BY <1>2, <1>3
        <5>3. line[From(at) + 1] \in Nat
          BY <1>1, <5>2, LineFacts DEF Shape
        <5> QED
          BY <2>2, <5>1, <5>3
      <4>2. CASE ~Leaves(at)
        <5>1. Lost(at) = 0 /\ From(at + 1) = From(at)
          BY <1>3, <3>1, <4>2 DEF Lost
        <5> QED
          BY <2>2, <5>1
      <4> QED
        BY <4>1, <4>2
    <3> QED
      BY <1>1, <2>2, <2>3, <2>4, <2>7, <3>2, <3>3
  <2> QED
    BY <2>3, <2>4, <2>5, <2>7, <2>8
<1>9. Shape'
  <2>1. out' \in [Pixels -> Int]
    BY <1>1, <1>6 DEF Shape
  <2>2. count' \in Int /\ at' \in Nat /\ pc' \in {"slide", "done"}
    BY <1>2, <1>3, <1>1, <1>5
  <2> QED
    BY <1>1, <1>5, <1>8, <2>1, <2>2 DEF Shape, Pixels
<1>10. Summed'
  <2>1. CASE at = last
    BY <1>5, <2>1 DEF Summed
  <2>2. CASE at # last
    <3>1. at < last /\ pc' = "slide"
      BY <1>2, <1>5, <2>2
    <3>2. count' = To(at + 1) - From(at + 1)
      <4>1. To(at + 1) = To(at) + up /\ From(at + 1) = From(at) + down
        BY <1>1, <1>2, <3>1, WindowSlides
      <4> QED
        BY <1>1, <1>3, <1>5, <4>1
    <3> QED
      BY <1>2, <1>4, <1>5, <1>8, <3>1, <3>2 DEF Summed
  <2> QED
    BY <2>1, <2>2
<1> QED
  BY <1>7, <1>9, <1>10

LEMMA BlurStutterPreserves == BlurInv /\ UNCHANGED blurVars => BlurInv'
BY DEF BlurInv, Shape, Summed, Written, blurVars, From, To, Low, High, Average, Pixels

(* SlidingIsExact, for every line, radius, pass and region: the incremental   *)
(* sum never wraps, never averages nothing, and gives every pixel the average *)
(* of its own window (pipeline.rs 116-222).                                   *)
THEOREM SlidingExact == BlurSpec => []SlidingIsExact
<1>1. BlurInv => SlidingIsExact
  <2> SUFFICES ASSUME BlurInv, pc # "seed" PROVE SlidingIsExact
    BY DEF SlidingIsExact
  <2>1. \A x \in first..(at - 1) : out[x] = Average(x)
    BY DEF BlurInv, Written
  <2>2. ASSUME pc = "slide"
        PROVE  /\ count = To(at) - From(at) /\ count > 0
               /\ acc = line[To(at)] - line[From(at)]
    <3>1. at \in first..last /\ count = To(at) - From(at)
          /\ acc = line[To(at)] - line[From(at)]
      BY <2>2 DEF BlurInv, Summed, Shape, Pixels
    <3>2. From(at) \in Nat /\ To(at) \in Nat /\ From(at) <= at /\ at < To(at) /\ at \in Nat
      BY <3>1, WindowFacts DEF BlurInv, Shape, Pixels
    <3> QED
      BY <3>1, <3>2
  <2> QED
    BY <2>1, <2>2 DEF SlidingIsExact
<1>2. BlurInv /\ [BlurNext]_blurVars => BlurInv'
  BY SeedPreserves, SlidePreserves, BlurStutterPreserves DEF BlurNext
<1> QED
  BY BlurInitEstablishes, <1>1, <1>2, PTL DEF BlurSpec
==============================================================================
