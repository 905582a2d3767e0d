--------------------------- MODULE PanelRotation ---------------------------
(***************************************************************************)
(* Where a panel pixel lies in a rotated framebuffer (DRMGeometry.cpp,      *)
(* ChromeRenderer.cpp). The panel is seen by the user as Panel.w x Panel.h; *)
(* the framebuffer is turned clockwise by the rotation. The code has five   *)
(* forms of the same mapping: of a rectangle, of a page copied as a whole,  *)
(* of one row, of one pixel of the chrome, and the one the copy engine has. *)
(***************************************************************************)
EXTENDS Integers

CONSTANT Panel

Least(a, b) == IF a < b THEN a ELSE b
Rect(x1, y1, x2, y2) == [x1 |-> x1, y1 |-> y1, x2 |-> x2, y2 |-> y2]
Inside(q, r) == r.x1 <= q[1] /\ q[1] < r.x2 /\ r.y1 <= q[2] /\ q[2] < r.y2

(* PanelPixelWriter::setPixel *)
WriterPoint(p, rotation) ==
  CASE rotation = 0 -> p
    [] rotation = 90 -> <<Panel.h - 1 - p[2], p[1]>>
    [] rotation = 180 -> <<Panel.w - 1 - p[1], Panel.h - 1 - p[2]>>
    [] rotation = 270 -> <<p[2], Panel.w - 1 - p[1]>>

(* rotatedDestRect *)
DestRect(r, rotation, inset) ==
  CASE rotation = 0 -> Rect(r.x1, r.y1 + inset, r.x2, r.y2 + inset)
    [] rotation = 90 -> Rect(Panel.h - inset - r.y2, r.x1, Panel.h - inset - r.y1, r.x2)
    [] rotation = 180 ->
         Rect(Panel.w - r.x2, Panel.h - inset - r.y2, Panel.w - r.x1, Panel.h - inset - r.y1)
    [] rotation = 270 -> Rect(inset + r.y1, Panel.w - r.x2, inset + r.y2, Panel.w - r.x1)

(* rotateRegionARGB8888: what it writes, and the pixel of the page it takes.  *)
RegionRect(w, h, rotation, inset) ==
  CASE rotation = 0 -> Rect(0, inset, w, inset + h)
    [] rotation = 90 -> Rect(Panel.h - inset - h, 0, Panel.h - inset, w)
    [] rotation = 180 -> Rect(Panel.w - w, Panel.h - inset - h, Panel.w, Panel.h - inset)
    [] rotation = 270 -> Rect(inset, Panel.w - w, inset + h, Panel.w)

RegionPixel(q, rotation, inset) ==
  CASE rotation = 0 -> <<q[1], q[2] - inset>>
    [] rotation = 90 -> <<q[2], Panel.h - 1 - q[1] - inset>>
    [] rotation = 180 -> <<Panel.w - 1 - q[1], Panel.h - 1 - q[2] - inset>>
    [] rotation = 270 -> <<Panel.w - 1 - q[2], q[1] - inset>>

(* writeRotatedPanelRow: the panel pixel that is written at q.                *)
RowPoint(q, rotation) ==
  CASE rotation = 0 -> q
    [] rotation = 90 -> <<q[2], Panel.h - 1 - q[1]>>
    [] rotation = 180 -> <<Panel.w - 1 - q[1], Panel.h - 1 - q[2]>>
    [] rotation = 270 -> <<Panel.w - 1 - q[2], q[1]>>

(* The copy engine turns the whole page clockwise into the rectangle r.       *)
BlitPixel(q, r, rotation) ==
  CASE rotation = 0 -> <<q[1] - r.x1, q[2] - r.y1>>
    [] rotation = 90 -> <<q[2] - r.y1, r.x2 - 1 - q[1]>>
    [] rotation = 180 -> <<r.x2 - 1 - q[1], r.y2 - 1 - q[2]>>
    [] rotation = 270 -> <<r.y2 - 1 - q[2], q[1] - r.x1>>
=============================================================================
