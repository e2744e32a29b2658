----------------------------- MODULE FramePipeline -----------------------------
(***************************************************************************)
(* One frame through process_image (pipeline.rs): the branch of the         *)
(* camera's state, the detector's output after suppression (models.rs), and *)
(* for an ACTIVE camera the ROI gate, the classifier's second opinion, the  *)
(* mask of each face and the fallback to person heads.                      *)
(*                                                                         *)
(* The models are external: the detector returns any selection of the faces *)
(* given, the classifier and the segmenter answer as they like or fail.     *)
(* The image is the set of pixels that the anonymization replaced.          *)
(***************************************************************************)
EXTENDS Geometry

CONSTANTS
  Faces, Persons,   \* detections [box, conf, kps]: kps is a set of points, or {}
  Rois,             \* ROI rings
  IouNum, IouDen,   \* yolo_nms_iou
  HullMargin, EllipseMargin,    \* in twentieths
  MinSegment,       \* segmenter_min_box_px
  HeadNum, HeadDen, MinHead,    \* head_fallback_fraction, and the least height (8)
  MinCrop,          \* the least side of a crop (8)
  MaxFaces, NULL

(* Boxes are clamped to the frame and at least a pixel wide and high (models.rs *)
(* 641-651); an ROI is a hull, thinned and scaled, or the whole frame          *)
(* (roi.rs 223-240, main.rs 1903-1908).                                        *)
ASSUME FrameAssumption ==
  /\ FrameW \in Nat /\ FrameW >= 2 /\ FrameH \in Nat /\ FrameH >= 2
  /\ HullMargin \in Nat /\ EllipseMargin \in Nat
  /\ IsFiniteSet(Faces) /\ IsFiniteSet(Persons) /\ Faces \cap Persons = {}
  /\ \A d \in Faces \cup Persons :
       /\ d.conf \in Int
       /\ IsFiniteSet(d.kps) /\ d.kps \subseteq Int \X Int
       /\ d.box \in Int \X Int \X Int \X Int
       /\ 0 <= d.box[1] /\ d.box[1] < d.box[3] /\ d.box[3] <= FrameW
       /\ 0 <= d.box[2] /\ d.box[2] < d.box[4] /\ d.box[4] <= FrameH
  /\ NULL \notin Rois /\ \A ring \in Rois : Convex(ring)

VARIABLES
  cfg,        \* the camera's state and ROI, and which models are loaded
  found,      \* what the detector returned before suppression
  dets,       \* the detections of the frame, in order
  stage,      \* "detect", "faces", "done" or "error"
  next,       \* the detection to look at next
  blurred,    \* pixels replaced so far
  kept,       \* the detections of the outcome, which are recorded
  rejected    \* ghost: faces the classifier rejected

vars == <<cfg, found, dets, stage, next, blurred, kept, rejected>>

Configs == [state : {"INITIAL", "LEARNING", "ACTIVE"}, op : {"blur", "pixelate"},
            roi : Rois \cup {NULL}, classifier : BOOLEAN, segmenter : BOOLEAN, coco : BOOLEAN]

Init ==
  /\ cfg \in Configs
  /\ cfg.state # "ACTIVE" => cfg.roi = NULL /\ ~cfg.classifier /\ ~cfg.segmenter /\ ~cfg.coco
  /\ found = {} /\ dets = <<>>
  /\ stage = "detect" /\ next = 1
  /\ blurred = {} /\ kept = <<>> /\ rejected = {}

------------------------------------------------------------------------------
(* The operation on a region.  The blur clamps its far edge to the last pixel *)
(* and leaves a region one pixel wide or high as it is; the mosaic excludes    *)
(* its far edge.                                                              *)
Region(x0, y0, x1, y1) ==
  LET far(v, size) == IF cfg.op = "blur" THEN Smaller(v, size - 1) ELSE Smaller(v, size) - 1
      rx == Smaller(x0, FrameW - 1) .. far(x1, FrameW)
      ry == Smaller(y0, FrameH - 1) .. far(y1, FrameH)
  IN IF cfg.op = "blur" /\ (Cardinality(rx) < 2 \/ Cardinality(ry) < 2) THEN {} ELSE rx \X ry

(* expand_clamped by 15% of the longer side, then floor and ceil.             *)
Expanded(b) ==
  LET m == 3 * Larger(Width(b), Height(b))
      Floor(v) == v \div 20
      Ceil(v)  == -((-v) \div 20)
  IN Region(Larger(Floor(20 * b[1] - m), 0), Larger(Floor(20 * b[2] - m), 0),
            Smaller(Ceil(20 * b[3] + m), FrameW), Smaller(Ceil(20 * b[4] + m), FrameH))

(* apply_masked runs the operation on a copy of the mask's bounding box, which *)
(* the blur leaves as it is when it is one pixel wide or high.                *)
Spans(mask, k) == \E p, q \in mask : p[k] # q[k]
Applied(mask) ==
  IF cfg.op = "pixelate" THEN mask
  ELSE IF Spans(mask, 1) /\ Spans(mask, 2) THEN mask ELSE {}

Ellipse == [d \in Faces \cup Persons |-> EllipseMask(d.box, EllipseMargin)]
GeometryMask ==
  [d \in Faces \cup Persons |->
     IF d.kps # {} THEN PolygonMask(Hull(d.kps), HullMargin) ELSE Ellipse[d]]

(* segmenter_mask: the silhouette found in the crop around the box, dilated    *)
(* inside it, with the ellipse of the box.  The silhouettes are nothing,       *)
(* everything, a corner.                                                      *)
Inside(b) == (b[1]..(b[3] - 1)) \X (b[2]..(b[4] - 1))
Crop(b)   == (b[1]..(Smaller(b[1] + Larger(Width(b), MinCrop), FrameW) - 1))
          \X (b[2]..(Smaller(b[2] + Larger(Height(b), MinCrop), FrameH) - 1))
Silhouettes(d) == {{}, Crop(d.box), {<<d.box[1], d.box[2]>>}}
Dilated(raw, b) ==
  LET r == Larger(2, (2 * Smaller(Width(b), Height(b)) + 4) \div 8)     \* round(side / 4)
  IN {p \in Crop(b) : \E q \in raw : q[1] \in (p[1] - r)..(p[1] + r) /\ q[2] \in (p[2] - r)..(p[2] + r)}
SegmentMask(d, raw) == Dilated(raw, d.box) \cup Ellipse[d]
SegmentMasks == [d \in Faces |-> {SegmentMask(d, raw) : raw \in Silhouettes(d)}]

Masks(d) ==
  {GeometryMask[d]} \cup
  IF cfg.segmenter /\ Width(d.box) >= MinSegment THEN SegmentMasks[d] ELSE {}

InRoi(d) == IF cfg.roi = NULL THEN TRUE ELSE Encloses(cfg.roi, Centre2(d.box))

------------------------------------------------------------------------------
(* INITIAL: the whole frame, without looking at it.                           *)
WholeFrame ==
  /\ stage = "detect" /\ cfg.state = "INITIAL"
  /\ blurred' = Region(0, 0, FrameW, FrameH)
  /\ stage' = "done"
  /\ UNCHANGED <<cfg, found, dets, next, kept, rejected>>

(* No session, or inference fails.                                            *)
DetectFails ==
  /\ stage = "detect" /\ cfg.state # "INITIAL"
  /\ stage' = "error"
  /\ UNCHANGED <<cfg, found, dets, next, blurred, kept, rejected>>

Descending(S) == {q \in SetToSeqs(S) : \A i, j \in DOMAIN q : i < j => q[i].conf >= q[j].conf}

Detect ==
  /\ stage = "detect" /\ cfg.state # "INITIAL"
  /\ \E S \in SUBSET Faces : \E q \in Descending(S) :
        /\ Cardinality(S) <= MaxFaces
        /\ found' = S /\ dets' = Nms(q, IouNum, IouDen)
  /\ IF cfg.state = "LEARNING"
     THEN /\ stage' = "done" /\ kept' = dets'
          /\ blurred' = UNION {Expanded(d.box) : d \in Range(dets')}
     ELSE stage' = "faces" /\ UNCHANGED <<blurred, kept>>
  /\ UNCHANGED <<cfg, next, rejected>>

------------------------------------------------------------------------------
(* ACTIVE, one detection at a time.                                           *)
Looking == stage = "faces" /\ next <= Len(dets)
Pass == next' = next + 1

SkipOutside ==
  /\ Looking /\ ~InRoi(dets[next])
  /\ Pass
  /\ UNCHANGED <<cfg, found, dets, stage, blurred, kept, rejected>>

(* A classifier without a free or loadable session fails the frame.           *)
ClassifierFails ==
  /\ Looking /\ InRoi(dets[next]) /\ cfg.classifier
  /\ stage' = "error"
  /\ UNCHANGED <<cfg, found, dets, next, blurred, kept, rejected>>

Reject ==
  /\ Looking /\ InRoi(dets[next]) /\ cfg.classifier
  /\ rejected' = rejected \cup {dets[next]}
  /\ Pass
  /\ UNCHANGED <<cfg, found, dets, stage, blurred, kept>>

(* Confirmed, or inference failed: the face is masked, whatever the           *)
(* segmenter does.                                                            *)
MaskFace ==
  /\ Looking /\ InRoi(dets[next])
  /\ \E m \in Masks(dets[next]) : blurred' = blurred \cup Applied(m)
  /\ kept' = Append(kept, dets[next])
  /\ Pass
  /\ UNCHANGED <<cfg, found, dets, stage, rejected>>

(* The upper part of a person's box.                                          *)
HeadBox(b) ==
  <<b[1], b[2], b[3], Smaller(b[2] + Larger((Height(b) * HeadNum) \div HeadDen, MinHead), FrameH)>>
HeadMask == [d \in Persons |-> EllipseMask(HeadBox(d.box), EllipseMargin)]

(* The persons whose centre lies in the ROI.                                  *)
Gated(q) ==
  LET g[i \in 0..Len(q)] ==
        IF i = 0 THEN <<>>
        ELSE IF InRoi(q[i]) THEN Append(g[i - 1], q[i]) ELSE g[i - 1]
  IN g[Len(q)]

(* Nothing kept: the heads of the persons found, if that model is there.  Its *)
(* session may fail the frame; its inference, only the fallback.              *)
Heads_noGate ==
  /\ stage = "faces" /\ next > Len(dets)
  /\ stage' = "done"
  /\ IF kept # <<>> \/ ~cfg.coco THEN UNCHANGED <<blurred, kept>>
     ELSE \E S \in SUBSET Persons : \E q \in Descending(S) :
            LET heads == Nms(q, IouNum, IouDen)
            IN /\ kept' = heads
               /\ blurred' = UNION {Applied(HeadMask[d]) : d \in Range(heads)}
  /\ UNCHANGED <<cfg, found, dets, next, rejected>>

Heads ==
  /\ stage = "faces" /\ next > Len(dets)
  /\ stage' = "done"
  /\ IF kept # <<>> \/ ~cfg.coco THEN UNCHANGED <<blurred, kept>>
     ELSE \E S \in SUBSET Persons : \E q \in Descending(S) :
            LET heads == Gated(Nms(q, IouNum, IouDen))
            IN /\ kept' = heads
               /\ blurred' = UNION {Applied(HeadMask[d]) : d \in Range(heads)}
  /\ UNCHANGED <<cfg, found, dets, next, rejected>>

HeadsFail ==
  /\ stage = "faces" /\ next > Len(dets) /\ kept = <<>> /\ cfg.coco
  /\ stage' = "error"
  /\ UNCHANGED <<cfg, found, dets, next, blurred, kept, rejected>>

Next ==
  \/ WholeFrame \/ DetectFails \/ Detect
  \/ SkipOutside \/ ClassifierFails \/ Reject \/ MaskFace
  \/ Heads \/ HeadsFail
Spec == Init /\ [][Next]_vars

------------------------------------------------------------------------------
(* References, independent of the code's algorithms.  The interior of a        *)
(* convex hull is the union of the triangles of its points; points and         *)
(* centres are doubled.                                                       *)
Twice(p) == <<2 * p[1], 2 * p[2]>>
Strictly(p, points) ==
  \E a, b, c \in points :
    /\ Cross(Twice(a), Twice(b), p) > 0
    /\ Cross(Twice(b), Twice(c), p) > 0
    /\ Cross(Twice(c), Twice(a), p) > 0
Outside(p, points) ==
  \E a, b \in points : a # b /\ \A c \in points :
     /\ Cross(Twice(a), Twice(b), Twice(c)) >= 0 /\ Cross(Twice(a), Twice(b), p) < 0

(* What of a face must not be recognizable: the pixels inside the hull of its  *)
(* keypoints, or, without keypoints or with a silhouette, those nearest to the *)
(* centre of its box.                                                         *)
Features == [d \in Faces |-> {p \in Frame : Strictly(<<2 * p[1] + 1, 2 * p[2] + 1>>, d.kps)}]
Middle(d)   == {p \in Frame : \A k \in 1..2 : 2 * p[k] - Centre2(d.box)[k] \in -1..1}
Replaced(d) ==
  \/ d.kps # {} /\ Features[d] \subseteq blurred
  \/ (d.kps = {} \/ cfg.segmenter) /\ Middle(d) \subseteq blurred
Thin(d) == \E m \in Masks(d) : Applied(m) = {}
MustCover(d) ==
  /\ d \notin rejected
  /\ cfg.roi = NULL \/ Strictly(Centre2(d.box), Range(cfg.roi))

Stands(d, c) == d = c \/ (d.conf >= c.conf /\ IouAbove(c.box, d.box, IouNum, IouDen))

(* Of every face the detector finds, the frame that is returned shows the      *)
(* face, or the better detection it was suppressed for, replaced, unless it    *)
(* lies outside the ROI, the classifier rejected it, or a mask of it is one    *)
(* pixel wide or high, which the blur passes over (the face is then recorded   *)
(* as anonymized all the same): keypoints nearly on a line, or the ellipse of  *)
(* a box two pixels high.  Failing models never cost a blur (pipeline.rs        *)
(* 834-894, models.rs 322-339).                                                *)
FacesReplaced ==
  stage = "done" /\ cfg.state # "INITIAL" =>
    \A c \in found : \E d \in Range(dets) :
       /\ Stands(d, c)
       /\ IF cfg.state = "LEARNING" THEN Inside(d.box) \subseteq blurred
          ELSE MustCover(d) => Thin(d) \/ Replaced(d)

(* And nothing else is replaced: every pixel that changed belongs to a         *)
(* detection of the outcome, whose centre is not outside the ROI (pipeline.rs   *)
(* 827-832 and 919-923).                                                       *)
Reach(d) == IF cfg.state = "LEARNING" THEN Expanded(d.box)
            ELSE IF d \in Persons THEN HeadMask[d]
            ELSE GeometryMask[d] \cup Ellipse[d] \cup Crop(d.box)
OnlyFacesReplaced ==
  stage = "done" /\ cfg.state # "INITIAL" =>
    /\ blurred \subseteq UNION {Reach(d) : d \in Range(kept)}
    /\ cfg.roi # NULL => \A d \in Range(kept) : ~Outside(Centre2(d.box), Range(cfg.roi))

==============================================================================
