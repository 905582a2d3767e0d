---------------------------- MODULE PanelMapping ----------------------------
(***************************************************************************)
(* The way between the panel the user looks at and the pixels of the page,   *)
(* there and back: the display resolver of the page gives a size and two     *)
(* rotations, run.sh computes where the picture lies in the mode of the      *)
(* display, the frame queue places it there, the video overlay places a      *)
(* video behind its hole, and the touch input takes raw coordinates back to   *)
(* the panel and, in a game, to the video. Each of them has arithmetic of     *)
(* its own for the same turned picture.                                      *)
(*                                                                          *)
(* Beside what DisplayResolver needs, a device has                           *)
(*   mode   the size of the mode its display runs                            *)
(*   abs    the ranges of the touch panel, [x1, x2, y1, y2]                   *)
(*   tp     how the touch panel lies: 0 as the display, 180 upside down       *)
(* The touch panel counts pixels of the mode; cfg's offset is the raw value    *)
(* at which they begin. All coordinates are whole pixels, rounded down.       *)
(*                                                                          *)
(* Left out: the fit modes run.sh does not use, and swapped or inverted axes, *)
(* which only the environment of a direct start can ask for.                 *)
(***************************************************************************)
EXTENDS DisplayResolver

CONSTANT Devices

VARIABLES
  device,
  file,      \* display-mode
  run        \* the browser that runs, or None

vars == <<device, file, run>>

At(Panel) == INSTANCE PanelRotation

Rect(x1, y1, x2, y2) == [x1 |-> x1, y1 |-> y1, x2 |-> x2, y2 |-> y2]
Clamped(v, lo, hi) == IF v < lo THEN lo ELSE IF v > hi THEN hi ELSE v
Moved(r, by) == Rect(r.x1 + by.x, r.y1 + by.y, r.x2 + by.x, r.y2 + by.y)
Common(r, s) ==
  Rect(Max({r.x1, s.x1}), Max({r.y1, s.y1}), Min({r.x2, s.x2}), Min({r.y2, s.y2}))
Empty(r) == r.x2 <= r.x1 \/ r.y2 <= r.y1
Wide(r) == r.x2 - r.x1
High(r) == r.y2 - r.y1
-----------------------------------------------------------------------------
(* run.sh: where the touch panel's columns under the picture begin and end.    *)
ActiveX(env) ==
  LET width == Turned(env.panel, env.rotation).w
      left == Max({0, (env.drmMode.w - width) \div 2})
  IN  [from |-> left, to |-> left + width]

(* DRMGeometry.cpp reads the size and the turning again from the environment:    *)
(* what it does not understand is no size, and no turning.                   *)
PanelSize(env) == ParseSize(env.panel)
OutputRotation(env) == IF env.rotation \in Rotations \cup {-90} THEN env.rotation % 360 ELSE 0

Framebuffer(env) == Turned(PanelSize(env), OutputRotation(env))

(* WPEViewDRM.cpp, destinationRectForBuffer: a framebuffer is shown pixel by   *)
(* pixel in the middle of the mode.                                          *)

Placed(env, mode) ==
  LET fb == Framebuffer(env)
      w == Min({fb.w, mode.w})
      h == Min({fb.h, mode.h})
      x == (mode.w - w) \div 2
      y == (mode.h - h) \div 2
  IN  Rect(x, y, x + w, y + h)

(* Where a rectangle of the panel, or of the page below inset rows of toolbar,  *)
(* is shown in the mode.                                                     *)
Shown(env, mode, r, inset) ==
  Moved(At(PanelSize(env))!DestRect(r, OutputRotation(env), inset),
        [x |-> Placed(env, mode).x1, y |-> Placed(env, mode).y1])

(* punchTransparentRect *)
Hole(env, mode, r, inset) == Common(Shown(env, mode, r, inset), Placed(env, mode))
-----------------------------------------------------------------------------
(* The video overlay. A frame comes from the decoder already turned.           *)

(* A box of the frame's proportions in the middle of a w x h one.              *)
Fitted(w, h, frame) ==
  IF frame.w * h > frame.h * w
  THEN LET fitted == Max({1, (w * frame.h) \div frame.w})
       IN  Rect(0, (h - fitted) \div 2, w, (h - fitted) \div 2 + fitted)
  ELSE LET fitted == Max({1, (h * frame.w) \div frame.h})
       IN  Rect((w - fitted) \div 2, 0, (w - fitted) \div 2 + fitted, h)

(* videoOverlayCommit: the rectangle the whole frame would fill, and the one    *)
(* that the plane gets, which does not leave the picture.                    *)
WholeFrame(env, mode, r, inset, frame) ==
  LET target == Shown(env, mode, r, inset)
  IN  Moved(Fitted(Wide(target), High(target), frame), [x |-> target.x1, y |-> target.y1])

Plane(env, mode, r, inset, frame) ==
  Common(WholeFrame(env, mode, r, inset, frame), Placed(env, mode))

(* videoOverlayPublishInputGeometry: the same in coordinates of the page.       *)
VisibleVideo(env, r, frame) ==
  Moved(Fitted(Wide(r), High(r), Turned(frame, OutputRotation(env))), [x |-> r.x1, y |-> r.y1])
-----------------------------------------------------------------------------
(* The touch input. *)

(* setup_raw_touch: the ranges of raw values that are the picture. The range    *)
(* of run.sh comes before the offset of the configuration.                   *)
Narrowed(range, low, high, offset) ==
  LET active == [from |-> Clamped(range.from, low, high), to |-> Clamped(range.to, low, high)]
      skipped == [from |-> Clamped(low + offset, low, high), to |-> high]
  IN  IF active.to > active.from THEN active
      ELSE IF offset # 0 /\ skipped.to > skipped.from THEN skipped
      ELSE [from |-> low, to |-> high]

TouchRange(env, abs) ==
  [x |-> Narrowed(ActiveX(env), abs.x1, abs.x2, env.touchOffsetX),
   y |-> Narrowed([from |-> 0, to |-> 0], abs.y1, abs.y2, env.touchOffsetY)]

(* A fraction of a range, as an offset and the length it is taken of.           *)
Fraction(raw, range) ==
  IF range.to <= range.from THEN [n |-> 0, d |-> 1]
  ELSE [n |-> Clamped(raw - range.from, 0, range.to - range.from), d |-> range.to - range.from]
Rest(f) == [f EXCEPT !.n = f.d - f.n]
Pixel(f, length) == (f.n * (length - 1)) \div f.d

(* update_touch_position *)
TouchPosition(env, abs, raw) ==
  LET range == TouchRange(env, abs)
      nx == Fraction(raw[1], range.x)
      ny == Fraction(raw[2], range.y)
      at == CASE env.touchRotation = 90 -> <<ny, Rest(nx)>>
              [] env.touchRotation = 180 -> <<Rest(nx), Rest(ny)>>
              [] env.touchRotation = 270 -> <<Rest(ny), nx>>
              [] OTHER -> <<nx, ny>>
  IN  <<Pixel(at[1], env.panel.w), Pixel(at[2], env.panel.h)>>

(* snapshot_game_video_mapping and map_game_slot_point: a game takes its video   *)
(* to fill the element, so a finger on the video is moved out by as much. The *)
(* position on the panel is compared with coordinates of the page as it is.    *)
GamePoint(t, dom, visible) ==
  LET stretched(v, from, length, start, size) ==
        start + ((v - from) * Max({0, size - 1})) \div Max({1, length - 1})
  IN  IF /\ t[1] \in visible.x1..(visible.x2 - 1)
         /\ t[2] \in visible.y1..(visible.y2 - 1)
      THEN <<stretched(t[1], visible.x1, Wide(visible), dom.x1, Wide(dom)),
             stretched(t[2], visible.y1, High(visible), dom.y1, High(dom))>>
      ELSE t
-----------------------------------------------------------------------------
Init ==
  /\ device \in Devices
  /\ file \in Modes \cup {None}
  /\ run = None

(* writeDisplayMode, and chrome_write_display_mode: the file is replaced as a     *)
(* whole. When the directory cannot be synced after that, the new mode is      *)
(* there although writing it counts as failed.                               *)
WriteDisplayMode(mode) ==
  {[ok |-> TRUE, file |-> mode], [ok |-> FALSE, file |-> file], [ok |-> FALSE, file |-> mode]}

(* browserOptions: what the page asks for.                                     *)
BrowserOptions(option, hole) ==
  LET mode == ResolvePersistedMode(option, file)
  IN  [mode |-> mode, display |-> ResolveDisplay(device, mode, hole)]

(* startBrowser: the mode is stored, then the browser gets its environment.      *)
Launch ==
  /\ run = None
  /\ \E option \in Modes \cup {"last", "rotate45"}, hole \in {None, device.dom} :
       LET options == BrowserOptions(option, hole)
       IN  \E written \in WriteDisplayMode(options.mode) :
             /\ file' = written.file
             /\ run' = IF written.ok
                       THEN [mode |-> options.mode, env |-> options.display, lapsed |-> FALSE]
                       ELSE None
  /\ UNCHANGED device

(* chrome_request_rotation_restart: a new mode is stored and the browser ends;   *)
(* the page starts it once more. When storing fails the browser stays as it is. *)
ChooseMode ==
  /\ run # None
  /\ \E mode \in Modes \ {run.mode} :
       \E written \in WriteDisplayMode(mode) :
         /\ file' = written.file
         /\ run' = IF written.ok THEN None
                   ELSE [run EXCEPT !.lapsed = @ \/ written.file # file]
  /\ UNCHANGED device

Leave ==
  /\ run # None
  /\ run' = None
  /\ UNCHANGED <<device, file>>

Next == Launch \/ ChooseMode \/ Leave

Spec == Init /\ [][Next]_vars
-----------------------------------------------------------------------------
Close(a, b, distance) == a - b \in (-distance)..distance

(* The raw coordinates of a finger on a pixel of the mode.                     *)
RawAt(q) ==
  LET skip == IF IsConfigured(device) THEN SystemDisplayConfig(device).touchOffsetY ELSE 0
      x == device.abs.x1 + q[1]
      y == device.abs.y1 + skip + q[2]
  IN  IF device.tp = 180
      THEN <<device.abs.x1 + device.abs.x2 - x, device.abs.y1 + device.abs.y2 - y>>
      ELSE <<x, y>>

Touched(q) == TouchPosition(run.env, device.abs, RawAt(q))

TypeOK ==
  /\ device \in Devices
  /\ file \in Modes \cup {None}
  /\ run # None =>
       /\ run.mode \in Modes
       /\ run.env.panel = ParseSize(run.env.panel)
       /\ run.env.rotation \in Rotations /\ run.env.touchRotation \in Rotations

Uncut == Framebuffer(run.env).w <= device.mode.w /\ Framebuffer(run.env).h <= device.mode.h

(* What runs is turned by the mode that is stored, unless a new one was stored    *)
(* although writing it failed; the picture lies as the display does, and it     *)
(* fills the panel if the system describes it. A guessed panel may be larger    *)
(* than the mode, and is then scaled down.                                   *)
PictureLies ==
  LET native ==
        IF IsConfigured(device) THEN SystemDisplayConfig(device).frameworkRotation
        ELSE FallbackDisplay(device).rotation
      fb == Framebuffer(run.env)
  IN  /\ run.mode = file \/ run.lapsed
      /\ run.env.rotation = (native + BrowserModeDelta[run.mode]) % 360
      /\ Orientation(fb) = Orientation(device.mode)
      /\ IsConfigured(device) => Uncut /\ {fb.w, fb.h} = {device.cfg.width, device.cfg.height}

(* Every pixel of the panel, where it is shown, is where a finger on it is       *)
(* taken to be.                                                              *)
Sample(length) == {0, 1, length \div 3, length - 2, length - 1}
FingerOnPicture ==
  \A x \in Sample(run.env.panel.w), y \in Sample(run.env.panel.h) :
    LET shown == Shown(run.env, device.mode, Rect(x, y, x + 1, y + 1), 0)
        t == Touched(<<shown.x1, shown.y1>>)
    IN  Close(t[1], x, 1) /\ Close(t[2], y, 1)

(* The elements videos play in: small, of the whole page, high, and half outside. *)
Elements ==
  LET w == run.env.panel.w
      h == run.env.panel.h
  IN  {Rect(8, 4, 168, 94), Rect(0, 0, w, h), Rect(20, 10, 61, 200), Rect(w - 90, -40, w + 70, 50),
       Rect(0, h + 10, 160, h + 100)}
Streams == {Size(1280, 720), Size(480, 640)}
Insets == {0, IF run.env.panel.w < run.env.panel.h THEN 80 ELSE 44}

(* A video is shown where the page was told that it is, in the hole the picture   *)
(* has for it and nowhere else.                                              *)
VideoInHole ==
  \A r \in Elements, stream \in Streams, inset \in Insets :
    LET frame == Turned(stream, run.env.rotation)
        plane == Plane(run.env, device.mode, r, inset, frame)
        told == Hole(run.env, device.mode, VisibleVideo(run.env, r, frame), inset)
        hole == Hole(run.env, device.mode, r, inset)
    IN  /\ Empty(plane) <=> Empty(hole)
        /\ ~Empty(plane) =>
             /\ Common(plane, hole) = plane
             /\ \A side \in {"x1", "x2", "y1", "y2"} : Close(plane[side], told[side], 2)

(* A finger on the corner of a game's video reaches the corner of the game.      *)
GameFinger ==
  \A r \in {Rect(0, 0, run.env.panel.w, run.env.panel.h), Rect(8, 4, 168, 94)}, stream \in Streams :
    LET frame == Turned(stream, run.env.rotation)
        whole == WholeFrame(run.env, device.mode, r, 0, frame)
        visible == VisibleVideo(run.env, r, frame)
        \* the corners of the video as the user sees it, three pixels inside
        seen == { <<x, y>> \in {visible.x1 + 3, visible.x2 - 4} \X {visible.y1 + 3, visible.y2 - 4} :
                    TRUE }
        corner(p) == <<IF p[1] = visible.x1 + 3 THEN r.x1 ELSE r.x2 - 1,
                       IF p[2] = visible.y1 + 3 THEN r.y1 ELSE r.y2 - 1>>
    IN  \A p \in seen :
          LET q == Shown(run.env, device.mode, Rect(p[1], p[2], p[1] + 1, p[2] + 1), 0)
              g == GamePoint(Touched(<<q.x1, q.y1>>), r, visible)
          IN  /\ q.x1 \in whole.x1..(whole.x2 - 1) /\ q.y1 \in whole.y1..(whole.y2 - 1)
              /\ Close((g[1] - corner(p)[1]) * Wide(visible), 0, 6 * Wide(r))
              /\ Close((g[2] - corner(p)[2]) * High(visible), 0, 6 * High(r))

(* The touch device is known, and so is the mode run.sh places the picture in.   *)
HasTouch == run.env.touchDevice # None /\ run.env.drmMode = device.mode

PanelAgrees ==
  run # None =>
    /\ PictureLies
    /\ Uncut => VideoInHole
    /\ HasTouch => FingerOnPicture /\ GameFinger
=============================================================================
