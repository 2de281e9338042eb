------------------------------ MODULE CatView ------------------------------
(***************************************************************************)
(* Where catcierge looks in a frame (catcierge_matcher.c): the back light  *)
(* that gives the region of interest, and the window that tells whether    *)
(* something stands before it.                                             *)
(*                                                                         *)
(* The image operations of OpenCV are not modelled: what they find is a    *)
(* number of dark pixels or a sequence of contours, each with its area.    *)
(***************************************************************************)
EXTENDS Integers, FiniteSets, Sequences

Rect == [x : Nat, y : Nat, width : Nat, height : Nat]

\* inner lies in outer.
Inside(inner, outer) ==
  /\ outer.x <= inner.x /\ inner.x + inner.width <= outer.x + outer.width
  /\ outer.y <= inner.y /\ inner.y + inner.height <= outer.y + outer.height

-----------------------------------------------------------------------------
(***************************************************************************)
(* The back light.                                                         *)
(***************************************************************************)

\* The first of the contours with the greatest area, if that is not 0.
BiggestContour(contours) ==
  {i \in DOMAIN contours :
     /\ contours[i].area > 0
     /\ \A j \in DOMAIN contours : contours[j].area <= contours[i].area
     /\ \A j \in 1..(i - 1) : contours[j].area < contours[i].area}

\* catcierge_get_back_light_area: the region found, or none.
GetBackLightArea_Mutant(contours, minBacklight) ==
  {contours[i].rect : i \in BiggestContour(contours)}

GetBackLightArea(contours, minBacklight) ==
  {contours[i].rect : i \in {j \in BiggestContour(contours) : contours[j].area >= minBacklight}}

-----------------------------------------------------------------------------
(***************************************************************************)
(* The window in the centre of the region of interest, or of the frame     *)
(* when there is none.                                                     *)
(***************************************************************************)
HasRoi(roi) == roi.width # 0 /\ roi.height # 0

WatchedSize(frame, roi) == IF HasRoi(roi) THEN roi ELSE frame

ObstructWindow(frame, roi) ==
  LET size == WatchedSize(frame, roi)
      w == size.width \div 2
      h == size.height \div 10
  IN  [x |-> roi.x + (size.width - w) \div 2, y |-> roi.y + (size.height - h) \div 2,
       width |-> w, height |-> h]

\* catcierge_is_frame_obstructed ("Spiders and other 1 pixel creatures need not
\* bother").
IsFrameObstructed(darkPixels) == darkPixels > 200

\* Something that fills the whole window is seen.
CanBeObstructed(frame, roi) ==
  LET window == ObstructWindow(frame, roi)
  IN  IsFrameObstructed(window.width * window.height)
=============================================================================
