--------------------------- MODULE ChromeGeometry ---------------------------
(***************************************************************************)
(* Where the renderer draws the toolbar, the tabs, the menu and the lists,  *)
(* and what the browser takes a tap at a point for. The browser computes    *)
(* both geometries from the size of the panel; the renderer reads its own    *)
(* from the snapshot, clamps it and divides it once more.                   *)
(* Sizes are whole pixels, offsets too; a screen is [w, h]. The toolbar is   *)
(* fully out, as it is whenever a panel is open.                            *)
(***************************************************************************)
EXTENDS Integers, Sequences

Larger(a, b) == IF a >= b THEN a ELSE b
Smaller(a, b) == IF a <= b THEN a ELSE b
Between(v, lo, hi) == IF v < lo THEN lo ELSE IF v > hi THEN hi ELSE v

Rect(x, y, w, h) == [x |-> x, y |-> y, w |-> w, h |-> h]
Inside(x, y, r) == x >= r.x /\ x < r.x + r.w /\ y >= r.y /\ y < r.y + r.h
Shared(r, s) ==
  LET x == Larger(r.x, s.x)
      y == Larger(r.y, s.y)
  IN  Rect(x, y, Smaller(r.x + r.w, s.x + s.w) - x, Smaller(r.y + r.h, s.y + s.h) - y)

Buttons == 5
MenuItems == 7
RowHeight == 48
HeaderHeight == 32
CloseHitWidth == 52
-----------------------------------------------------------------------------
(* The geometry of the browser. *)
Stacked(s) == s.w < s.h

(* One row of controls, or the address above them.                          *)
Toolbar(s) ==
  LET height == IF Stacked(s) THEN 80 ELSE 44
      half == Larger(40, height - 16) \div 2
      button == Larger(36, (s.w - (s.w \div 2 + 8) - 8) \div 6)
      left == s.w \div 2 + 8 + button
  IN  IF Stacked(s)
      THEN [height |-> height, address |-> Rect(8, 6, s.w - 16, half),
            controls |-> Rect(8, 10 + half, s.w - 16, height - 16 - half)]
      ELSE [height |-> height, address |-> Rect(8, 6, Larger(1, left - 16), height - 12),
            controls |-> Rect(left, 6, Buttons * button, height - 12)]

Below(s) == s.h - Toolbar(s).height

TabsPanel(s, count) ==
  LET width == Larger(1, s.w \div 2)
  IN  [area |-> Rect(s.w - width, Toolbar(s).height, width, Below(s)),
       max |-> Larger(0, count * RowHeight - Below(s))]

MenuPanel(s) ==
  LET columns == IF Stacked(s) THEN 2 ELSE 3
      rows == IF Stacked(s) THEN 3 ELSE 2
      pages == (MenuItems + columns * rows - 1) \div (columns * rows)
      width == s.w - s.w \div 3
  IN  [area |-> Rect(s.w \div 3, Toolbar(s).height, width, Below(s)), columns |-> columns,
       rows |-> rows, pages |-> pages, max |-> (pages - 1) * width]

ListPanel(s, lines) ==
  [area |-> Rect(0, Toolbar(s).height, s.w, Below(s)), top |-> Toolbar(s).height + HeaderHeight,
   max |-> Larger(0, lines * RowHeight - (Below(s) - HeaderHeight))]

(* The dots that tell the pages of the menu take the bottom of it.           *)
GridHeight(m) == Larger(1, m.area.h - (IF m.pages > 1 THEN 14 ELSE 0))

NoHit == [part |-> "none", row |-> 0, segment |-> 0]
Hit(part, row, segment) == [part |-> part, row |-> row, segment |-> segment]
-----------------------------------------------------------------------------
(* What a tap hits. *)
ToolbarHit(s, x, y) ==
  LET t == Toolbar(s)
  IN  IF Inside(x, y, t.address) THEN Hit("address", 0, 0)
      ELSE IF ~Inside(x, y, t.controls) THEN NoHit
      ELSE Hit("button", ((x - t.controls.x) * Buttons) \div t.controls.w, 0)

TabHit(s, count, offset, x, y) ==
  LET a == TabsPanel(s, count).area
      row == (y - a.y + offset) \div RowHeight
  IN  IF ~Inside(x, y, a) THEN Hit("outside", 0, 0)
      ELSE IF row >= count THEN NoHit
      ELSE Hit(IF x >= a.x + a.w - CloseHitWidth THEN "close" ELSE "row", row, 0)

(* mutation: the rows of the menu share its whole height, dots included.      *)
MenuRow_WholeHeight(m, y) == Between(((y - m.area.y) * m.rows) \div m.area.h, 0, m.rows - 1)

MenuRow(m, y) == Between(((y - m.area.y) * m.rows) \div GridHeight(m), 0, m.rows - 1)

MenuHit(s, offset, x, y) ==
  LET m == MenuPanel(s)
      at == x - m.area.x + offset
      page == Between(at \div m.area.w, 0, m.pages - 1)
      column == Between(((at - page * m.area.w) * m.columns) \div m.area.w, 0, m.columns - 1)
      item == page * m.columns * m.rows + MenuRow(m, y) * m.columns + column
  IN  IF ~Inside(x, y, m.area) THEN Hit("outside", 0, 0)
      ELSE IF y >= m.area.y + GridHeight(m) \/ item >= MenuItems THEN NoHit
      ELSE Hit("row", item, 0)

(* Two or three choices share a row of the lists of records.                 *)
SegmentAt(s, count, x) ==
  CASE count = 1 -> 0
    [] count = 2 -> IF x < s.w \div 2 THEN 0 ELSE 1
    [] OTHER -> IF x < s.w \div 3 THEN 0 ELSE IF x < (s.w * 2) \div 3 THEN 1 ELSE 2

ListHit(s, segments, offset, x, y) ==
  LET l == ListPanel(s, Len(segments))
      row == (y - l.top + offset) \div RowHeight
  IN  IF ~Inside(x, y, l.area) THEN NoHit
      ELSE IF y < l.top THEN IF x < l.area.x + 72 THEN Hit("back", 0, 0) ELSE NoHit
      ELSE IF row >= Len(segments) THEN NoHit
      ELSE Hit("row", row, SegmentAt(s, segments[row + 1], x))
-----------------------------------------------------------------------------
(* What the renderer draws: for each thing that may be tapped the part of it   *)
(* that is seen, without its margins.                                       *)
Card(part, row, segment, area) == [hit |-> Hit(part, row, segment), area |-> area]
Seen(cards) == {c \in cards : c.area.w > 0 /\ c.area.h > 0}

ToolbarCards(s) ==
  LET t == Toolbar(s)
      c == t.controls
      Left(i) == c.x + (c.w * i) \div Buttons
  IN  {Card("address", 0, 0, t.address)} \cup
      {Card("button", i, 0, Rect(Left(i) + 2, c.y + 1, Larger(1, Left(i + 1) - Left(i) - 4),
                                 Larger(1, c.h - 2))) : i \in 0..Buttons - 1}

(* The place a panel is given, kept on the screen and below the toolbar.      *)
Placed(s, a) ==
  LET x == Between(a.x, 0, Larger(0, s.w - 1))
      y == Between(a.y, Toolbar(s).height, Larger(Toolbar(s).height, s.h - 1))
  IN  Rect(x, y, Between(a.w, 1, s.w - x), Between(a.h, 1, s.h - y))

(* The title of a tab, and the cross that closes it.                         *)
TabCards(s, count, offset) ==
  LET a == Placed(s, TabsPanel(s, count).area)
      clip == Rect(a.x + 1, a.y, a.w - 2, a.h)
      RowY(i) == a.y + i * RowHeight - offset
  IN  {Card("row", i, 0, Shared(clip, Rect(a.x + 16, RowY(i) + 3, a.w - CloseHitWidth - 24, RowHeight - 6)))
         : i \in 0..count - 1} \cup
      {Card("close", i, 0, Shared(clip, Rect(a.x + a.w - CloseHitWidth \div 2 - 5,
                                             RowY(i) + RowHeight \div 2 - 5, 11, 11)))
         : i \in 0..count - 1}

MenuCards(s, offset) ==
  LET m == MenuPanel(s)
      a == Placed(s, m.area)
      clip == Rect(a.x + 1, a.y + 1, a.w - 2, a.h - 2)
      perPage == m.columns * m.rows
      width == Larger(1, a.w \div m.columns)
      height == Larger(1, GridHeight(m) \div m.rows)
      X(i) == a.x + (i \div perPage) * a.w - offset + (i % m.columns) * width
      Y(i) == a.y + ((i % perPage) \div m.columns) * height
  IN  {Card("row", i, 0, Shared(clip, Rect(X(i) + 7, Y(i) + 6, width - 14, Larger(1, height - 12))))
         : i \in 0..MenuItems - 1}

(* A row with more than one choice shows a label, centred, for each.          *)
ListCards(s, segments, offset) ==
  LET l == ListPanel(s, Len(segments))
      a == Placed(s, l.area)
      scroll == Between(offset, 0, l.max)
      top == a.y + HeaderHeight
      clip == Rect(a.x + 1, top, a.w - 2, Larger(0, a.h - HeaderHeight))
      Left(n, k) == a.x + 7 + ((a.w - 14) * k) \div n
      Area(i, n, k) ==
        IF n = 1 THEN Rect(a.x + 7, top + i * RowHeight - scroll + 3, a.w - 14, RowHeight - 6)
        ELSE Rect(Left(n, k) + 6, top + i * RowHeight - scroll + 3,
                  Left(n, k + 1) - Left(n, k) - 12, RowHeight - 6)
  IN  {Card("back", 0, 0, Rect(a.x + 17, a.y + HeaderHeight \div 2 - 6, 8, 13))} \cup
      UNION {{Card("row", i, k, Shared(clip, Area(i, segments[i + 1], k)))
                : k \in 0..segments[i + 1] - 1} : i \in 0..Len(segments) - 1}
=============================================================================
