---------------------------- MODULE MCFramePipeline ----------------------------
(* A frame of 7 x 6 pixels.  Faces with and without keypoints: three in a row *)
(* of which only neighbours overlap enough to be suppressed, one at the edge  *)
(* of the frame, one in its corner and so small that its ellipse covers a     *)
(* single row of pixels, and one seen in profile, whose keypoints lie on a    *)
(* line.                                                                      *)
EXTENDS FramePipeline

Face(x0, y0, x1, y1, conf, kps) == [box |-> <<x0, y0, x1, y1>>, conf |-> conf, kps |-> kps]
MCFaces == {
  Face(1, 1, 5, 5, 3, {<<2, 2>>, <<4, 2>>, <<3, 3>>, <<2, 4>>, <<4, 4>>}),
  Face(1, 1, 4, 5, 2, {}),
  Face(0, 1, 3, 5, 1, {}),
  Face(4, 0, 7, 4, 2, {<<4, 1>>, <<6, 0>>, <<6, 3>>, <<5, 4>>, <<5, 2>>}),
  Face(4, 4, 7, 6, 1, {<<4, 4>>, <<6, 4>>, <<5, 5>>, <<4, 6>>, <<6, 6>>}),
  Face(3, 2, 6, 6, 2, {<<4, 2>>, <<4, 3>>, <<4, 4>>, <<4, 5>>, <<4, 6>>}) }
MCPersons == { Face(0, 0, 3, 6, 2, {}), Face(3, 1, 7, 6, 1, {}), Face(3, 1, 7, 5, 1, {}) }
MCRois == { <<<<1, 1>>, <<5, 0>>, <<6, 4>>, <<2, 5>>>>, <<<<0, 0>>, <<3, 0>>, <<0, 5>>>> }
==============================================================================
