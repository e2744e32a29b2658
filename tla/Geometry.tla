-------------------------------- MODULE Geometry --------------------------------
(***************************************************************************)
(* The plane geometry of the anonymizer, on integer coordinates: boxes and *)
(* their overlap (models.rs), convex hulls and the ray-casting test        *)
(* (roi.rs), and the pixel masks of polygons and ellipses (pipeline.rs).   *)
(* The program computes with floats; here every comparison is cleared of   *)
(* its denominators, so that it is exact.  Margins are in twentieths.      *)
(***************************************************************************)
EXTENDS Integers, Sequences, FiniteSets, SequencesExt

CONSTANTS FrameW, FrameH

Frame == (0..(FrameW - 1)) \X (0..(FrameH - 1))

Larger(a, b)  == IF a > b THEN a ELSE b
Smaller(a, b) == IF a < b THEN a ELSE b

(* Boxes <<x0, y0, x1, y1>>.                                                 *)
Width(b)  == Larger(b[3] - b[1], 0)
Height(b) == Larger(b[4] - b[2], 0)
Centre2(b) == <<b[1] + b[3], b[2] + b[4]>>     \* twice the centre
Shared(a, b) == Larger(Smaller(a[3], b[3]) - Larger(a[1], b[1]), 0)
              * Larger(Smaller(a[4], b[4]) - Larger(a[2], b[2]), 0)

(* iou(a, b) > num/den                                                       *)
IouAbove(a, b, num, den) ==
  LET inter == Shared(a, b)
      union == Width(a) * Height(a) + Width(b) * Height(b) - inter
  IN union > 0 /\ inter * den > num * union

(* Greedy non-maximum suppression of detections in descending confidence.    *)
Nms_suppressesByAny(q, num, den) ==
  SelectSeq(q, LAMBDA d : ~\E i \in DOMAIN q :
                    q[i].conf > d.conf /\ IouAbove(d.box, q[i].box, num, den))
Nms(q, num, den) ==
  LET kept[i \in 0..Len(q)] ==
        IF i = 0 THEN <<>>
        ELSE IF \E k \in Range(kept[i - 1]) : IouAbove(q[i].box, k.box, num, den)
        THEN kept[i - 1] ELSE Append(kept[i - 1], q[i])
  IN kept[Len(q)]

------------------------------------------------------------------------------
(* Twice the signed area of the triangle o, a, b.                             *)
Cross(o, a, b) == (a[1] - o[1]) * (b[2] - o[2]) - (a[2] - o[2]) * (b[1] - o[1])

(* A ring that turns left throughout.                                         *)
Convex(ring) ==
  /\ ring \in Seq(Int \X Int) /\ Len(ring) >= 3
  /\ \A i, j, k \in DOMAIN ring : i < j /\ j < k => Cross(ring[i], ring[j], ring[k]) > 0

(* convex_hull: the monotone chain over the sorted, deduplicated points.      *)
(* A chain drops its last points until the next one makes a left turn.        *)
Turns(c, p) == {k \in 2..Len(c) : Cross(c[k - 1], c[k], p) > 0}
Push(c, p) ==
  LET keep == CHOOSE k \in Turns(c, p) \cup {Smaller(Len(c), 1)} :
                \A j \in Turns(c, p) : j <= k
  IN Append(SubSeq(c, 1, keep), p)
Chain(q) ==
  LET chain[i \in 0..Len(q)] == IF i = 0 THEN <<>> ELSE Push(chain[i - 1], q[i])
  IN chain[Len(q)]

Before(a, b) == a[1] < b[1] \/ (a[1] = b[1] /\ a[2] < b[2])
Sorted(points) ==
  CHOOSE q \in SetToSeqs(points) : \A i, j \in DOMAIN q : i < j => Before(q[i], q[j])
Hull(points) ==
  IF Cardinality(points) < 3 THEN Sorted(points)
  ELSE Front(Chain(Sorted(points))) \o Front(Chain(Reverse(Sorted(points))))

After(i, ring) == IF i = Len(ring) THEN 1 ELSE i + 1

(* RoiPolygon::contains: an odd number of edges lies to the right.  The edge  *)
(* from j to i is crossed at x < (xj - xi) * (y - yi) / (yj - yi) + xi.        *)
(* The ring's coordinates are doubled, like the centre that is tested.        *)
Crosses(ring, i, p) ==
  LET a == <<2 * ring[After(i, ring)][1], 2 * ring[After(i, ring)][2]>>
      b == <<2 * ring[i][1], 2 * ring[i][2]>>
      lhs == (p[1] - a[1]) * (b[2] - a[2])
      rhs == (b[1] - a[1]) * (p[2] - a[2])
  IN /\ (a[2] > p[2]) # (b[2] > p[2])
     /\ IF b[2] > a[2] THEN lhs < rhs ELSE lhs > rhs
Encloses(ring, p) ==
  Len(ring) >= 3 /\ Cardinality({i \in DOMAIN ring : Crosses(ring, i, p)}) % 2 = 1

------------------------------------------------------------------------------
(* mask_from_polygon: the ring grown about the mean of its vertices; the      *)
(* pixels whose centre is on the inner side of every edge.  Coordinates are   *)
(* multiplied by 40 n, which clears the mean, the margin and the half pixel.  *)
Total(f, n) == LET t[i \in 0..n] == IF i = 0 THEN 0 ELSE t[i - 1] + f[i] IN t[n]
Mean(ring, k) == Total([i \in 1..Len(ring) |-> ring[i][k]], Len(ring))     \* n times the mean
Grown(ring, margin) ==
  LET n == Len(ring)
      away(i, k) == 2 * (20 * Mean(ring, k) + (n * ring[i][k] - Mean(ring, k)) * (20 + margin))
  IN [i \in 1..n |-> <<away(i, 1), away(i, 2)>>]
Area2(ring) ==
  Total([i \in 1..Len(ring) |-> ring[i][1] * ring[After(i, ring)][2]
                                - ring[After(i, ring)][1] * ring[i][2]], Len(ring))
PolygonMask(ring, margin) ==
  LET n      == Len(ring)
      grown  == Grown(ring, margin)
      area2  == Area2(grown)
      orient == IF area2 > 0 THEN 1 ELSE -1
  IN IF n < 3 \/ area2 = 0 THEN {}
     ELSE {p \in Frame :
             LET c == <<(2 * p[1] + 1) * 20 * n, (2 * p[2] + 1) * 20 * n>>
             IN \A i \in 1..n : Cross(grown[i], grown[After(i, ring)], c) * orient >= 0}

(* mask_from_ellipse: inscribed in the box with its radii grown, at least one *)
(* pixel each; a pixel is tested at its corner.  Radii and distances are       *)
(* multiplied by 40.                                                          *)
EllipseMask(b, margin) ==
  LET rx == Larger(Width(b) * (20 + margin), 40)
      ry == Larger(Height(b) * (20 + margin), 40)
      Dx(p) == 20 * (2 * p[1] - b[1] - b[3])
      Dy(p) == 20 * (2 * p[2] - b[2] - b[4])
  IN {p \in Frame : Dx(p) * Dx(p) <= rx * rx /\ Dy(p) * Dy(p) <= ry * ry
                      /\ Dx(p) * Dx(p) * ry * ry + Dy(p) * Dy(p) * rx * rx <= rx * rx * ry * ry}
==============================================================================
