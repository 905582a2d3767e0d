-------------------------- MODULE FrameComposition --------------------------
(***************************************************************************)
(* What the pixels of a scanout target are made of: the page of a WPEBuffer *)
(* is turned and moved below the toolbar by the copy engine or by the CPU,  *)
(* kept as a clean base, holed where a video lies, and drawn over with the  *)
(* chrome (DRMScanoutBuffer.cpp, DMABufCPUAccess.h, RockchipRGA.h,          *)
(* ChromeRenderer.cpp, WPEViewDRM.cpp). The queue around it is the one of   *)
(* DRMFrameQueue: here a frame comes when nothing is in flight.             *)
(*                                                                         *)
(* A picture is known at the panel points Xs \X Ys. The clock is read once  *)
(* in a step, and something is composed in the last part of an animation,   *)
(* where it is drawn as at its end (36 ms of 160, ticks come every 16).     *)
(***************************************************************************)
EXTENDS PanelRotation, FiniteSets

CONSTANTS
  None,
  ToolbarHeight, \* chrome.height, between 24 and 80
  Xs, Ys,        \* the points at which pictures are compared
  Sizes,         \* [full, short |-> size of a frame of a view in full height, or not]
  Hole,          \* where the page shows a video
  Devices        \* the configurations, each with the bounds it is explored with

VARIABLES
  device,  \* rotation, kind and alpha of the frames, mode of the copy engine,
           \* and the bounds: how many frames, changes and faults there are,
           \* and the sizes of the first frame
  chrome,  \* cachedChromeRenderState, the height of the view and the video
  cache,   \* clean bases, geometry and redraws of the view
  screen,  \* the targets, the committed page and the frame in flight
  past     \* the bounds' counters, and what the property excuses

compositionVars == <<device, chrome, cache, screen, past>>

Points == Xs \X Ys
Pools == {"rotated", "shm"}
(* rotatedScanoutBuffers and shmScanoutBuffers *)
TargetSlots == Pools \X {0, 1}

(* A pixel: what it shows, of which frame or look, from where, and alpha.     *)
Nothing == <<"none", 0, 0, 0, FALSE>>
Black == <<"black", 0, 0, 0, TRUE>>
Garbage == <<"garbage", 0, 0, 0, TRUE>>
PagePixel(f, x, y) == <<"page", f.id, x, y, f.alpha>>
ChromePixel(panel) == <<"chrome", IF panel THEN 1 ELSE 0, 0, 0, TRUE>>
Opaque(pixel) == [pixel EXCEPT ![5] = TRUE]
Clear(pixel) == [pixel EXCEPT ![5] = FALSE]
-----------------------------------------------------------------------------
(* What the chrome looks like, and the room it takes. *)

HasRoom(c) == c.visible \/ c.panel

(* chromeAnimationActive; "last": the end of it was drawn already.            *)
Animating(c) == c.motion # "none"

(* chromeShownFraction, with the easing that is over before the animation is. *)
ShownRows(c) ==
  IF c.panel THEN ToolbarHeight
  ELSE IF c.motion = "moving" THEN ToolbarHeight \div 2
  ELSE IF c.visible THEN ToolbarHeight ELSE 0

(* drawChromeOverlay: the toolbar, and an open panel under a part of it.      *)
ChromeLook(c) == [rows |-> ShownRows(c), panel |-> c.panel]
ChromeCovers(p, look) ==
  p[2] < look.rows \/ (look.panel /\ p[1] >= Panel.w \div 2 /\ p[2] < Panel.h - 1)

(* chromeReservedTopInset *)
ReservedTopInset(c) == IF HasRoom(c) THEN Least(ToolbarHeight, Panel.h - 1) ELSE 0

(* chromeFrameTopInset: a frame that is shorter by a toolbar lies below it.    *)
FrameTopInset(c, height) ==
  LET missing == Panel.h - height
      belowToolbar == missing + 2 >= ToolbarHeight /\ missing <= ToolbarHeight + 2
  IN IF missing <= 0 \/ ~belowToolbar THEN ReservedTopInset(c)
     ELSE IF ~HasRoom(c) /\ ~Animating(c) THEN 0
     ELSE Least(missing, ToolbarHeight)
-----------------------------------------------------------------------------
(* Drawing into a target that the CPU has mapped. *)

At(p) == WriterPoint(p, device.rotation)

Fill(picture, r, pixel) ==
  [p \in Points |-> IF Inside(At(p), r) THEN pixel ELSE picture[p]]

(* fillRotatedPanelRect *)
FillPanelRect(picture, r, pixel) == Fill(picture, DestRect(r, device.rotation, 0), pixel)

(* clearOutsideARGB8888 *)
ClearOutside(picture, r) == [p \in Points |-> IF Inside(At(p), r) THEN picture[p] ELSE Black]

CopyWidth(f) == Least(f.size.w, Panel.w)
CopyHeight(f, inset) == Least(f.size.h, Panel.h - inset)

RotateRegion(picture, f, w, h, inset) ==
  LET r == RegionRect(w, h, device.rotation, inset)
      Taken(q) == RegionPixel(q, device.rotation, inset)
  IN [p \in Points |->
        IF Inside(At(p), r) THEN PagePixel(f, Taken(At(p))[1], Taken(At(p))[2]) ELSE picture[p]]

(* The last row of a page that is too short, down to the end of the panel.    *)
ExtendLastRow(picture, f, w, h, inset) ==
  LET Row(q) == RowPoint(q, device.rotation)
  IN [p \in Points |->
        IF Row(At(p))[2] >= inset + h /\ Row(At(p))[1] < w
        THEN PagePixel(f, Row(At(p))[1], h - 1) ELSE picture[p]]

(* copyRotatedARGB8888 *)
CopyRotated(picture, f, inset) ==
  IF inset = 0 /\ f.size = Panel
  THEN RotateRegion(picture, f, f.size.w, f.size.h, 0)
  ELSE LET w == CopyWidth(f)
           h == CopyHeight(f, inset)
           top == FillPanelRect(picture, Rect(0, 0, Panel.w, inset), Black)
           right == FillPanelRect(top, Rect(w, inset, Panel.w, Panel.h), Black)
       IN ExtendLastRow(RotateRegion(right, f, w, h, inset), f, w, h, inset)

(* An XRGB page has no alpha of its own.                                      *)
MakeOpaque(picture, f) == IF f.alpha THEN picture ELSE [p \in Points |-> Opaque(picture[p])]

(* RockchipRGA::rotate, when it succeeds. *)
Blit(picture, f, r) ==
  LET Taken(q) == BlitPixel(q, r, device.rotation)
  IN [p \in Points |->
        IF Inside(At(p), r) THEN Opaque(PagePixel(f, Taken(At(p))[1], Taken(At(p))[2]))
        ELSE picture[p]]

(* videoOverlayPunchActiveHole, punchTransparentRect *)
PunchHole(picture) ==
  LET hole == DestRect(Hole, device.rotation, ReservedTopInset(chrome))
  IN IF ~chrome.video THEN picture
     ELSE [p \in Points |-> IF Inside(At(p), hole) THEN Clear(picture[p]) ELSE picture[p]]

(* PanelPixelWriter::fillRect, clipped at the top. *)
FillRect(picture, r, pixel) ==
  IF r.y2 <= 0 THEN picture
  ELSE FillPanelRect(picture, Rect(r.x1, IF r.y1 < 0 THEN 0 ELSE r.y1, r.x2, r.y2), pixel)

(* drawNativeChrome: the toolbar slides in from the top.                      *)
DrawChrome(picture, look) ==
  LET toolbar == Rect(0, look.rows - ToolbarHeight, Panel.w, look.rows)
      body == Rect(Panel.w \div 2, ToolbarHeight, Panel.w, Panel.h - 1)
      drawn == FillRect(picture, toolbar, ChromePixel(look.panel))
  IN IF look.panel THEN FillRect(drawn, body, ChromePixel(TRUE)) ELSE drawn
-----------------------------------------------------------------------------
(* Composing one target: a piece of work w on the target t, which goes on    *)
(* while it is ok. w.syncs synchronisations of its export succeed, and       *)
(* w.coherent says that the CPU has stored only while it had access for      *)
(* writing, and the copy engine only while it had none. A fault that is not   *)
(* hit has not happened.                                                     *)

(* What fails in a piece of work; after that many synchronisations, or never. *)
Forever == 99
Fault(kind, syncs) == [kind |-> kind, syncs |-> syncs]
NoFault == Fault("none", Forever)
Faults ==
  {Fault(kind, Forever) : kind \in {"create", "export", "blit", "map", "source", "source_end"}}
    \cup {Fault("sync", k) : k \in 0..5}

Work(t, fault, c, s) ==
  [t |-> t, ok |-> TRUE, coherent |-> TRUE, fault |-> fault.kind, syncs |-> fault.syncs,
   hit |-> fault = NoFault, composed |-> c.composed, failures |-> s.failures, disabled |-> s.disabled]

Fail(w) == [w EXCEPT !.ok = FALSE]
FailIf(w, kind) == IF w.ok /\ w.fault = kind THEN [Fail(w) EXCEPT !.hit = TRUE] ELSE w

(* DMABufCPUAccess::finish: access is kept until its END has succeeded.      *)
EndAccess(w) ==
  IF ~w.ok \/ ~w.t.active THEN w
  ELSE LET failed == w.t.synced /\ w.syncs = 0
       IN [w EXCEPT !.ok = ~failed, !.t.error = failed, !.t.active = failed,
                    !.hit = @ \/ failed,
                    !.syncs = IF w.t.synced THEN @ - 1 ELSE @]

(* DMABufCPUAccess::begin, of the target's export if there is one.           *)
StartAccess(w, direction) ==
  IF ~w.ok THEN w
  ELSE LET failed == w.t.exported /\ w.syncs = 0
       IN [w EXCEPT !.ok = ~failed, !.t.error = failed, !.t.active = ~failed,
                    !.t.synced = w.t.exported, !.t.direction = direction,
                    !.hit = @ \/ failed,
                    !.syncs = IF w.t.exported THEN @ - 1 ELSE @]
BeginAccess(w, direction) ==
  IF /\ w.t.active /\ w.t.synced = w.t.exported
     /\ w.t.direction = direction /\ ~w.t.error
  THEN w ELSE StartAccess(EndAccess(w), direction)

Store(w, picture) ==
  IF ~w.ok THEN w
  ELSE [w EXCEPT !.t.picture = picture,
                 !.coherent = @ /\ w.t.active /\ w.t.direction = "rw"]

MadeOf(f, inset) ==
  [frame |-> f, inset |-> inset, look |-> None, hole |-> FALSE, holeInset |-> 0]
MadeFrom(w, f, inset) == [w EXCEPT !.t.made = MadeOf(f, inset)]

(* copyRotatedFromSHM *)
CopyFromSHM(w, f) ==
  LET inset == FrameTopInset(chrome, f.size.h)
      v == BeginAccess(w, "rw")
  IN MadeFrom(Store(v, CopyRotated(v.t.picture, f, inset)), f, inset)

(* RockchipRGA::shouldAttempt *)
EngineUsable(w) == device.rga # "off" /\ ~w.disabled

(* RockchipRGA::rotate and fail: what it left in its rectangle is unknown.   *)
Rotate(w, f, r) ==
  LET broken == device.rga = "broken" \/ w.fault = "blit"
      failures == w.failures + 1
  IN IF ~w.ok THEN w
     ELSE IF broken
     THEN [Fail(w) EXCEPT !.t.picture = Fill(w.t.picture, r, Garbage),
                          !.hit = @ \/ w.fault = "blit",
                          !.coherent = @ /\ ~w.t.active,
                          !.failures = failures,
                          !.disabled = @ \/ (device.rga # "required" /\ failures >= 3)]
     ELSE [w EXCEPT !.t.picture = Blit(w.t.picture, f, r),
                    !.coherent = @ /\ ~w.t.active, !.failures = 0]

(* copyRotatedFromDMABuf, by the CPU: the source is mapped and synchronised. *)
CopyByCPU(w, f, inset) ==
  LET v == FailIf(FailIf(BeginAccess(w, "rw"), "map"), "source")
  IN FailIf(Store(v, MakeOpaque(CopyRotated(v.t.picture, f, inset), f)), "source_end")

(* The margins are cleared with access, the page is moved without it, and    *)
(* access is taken again for the chrome.                                     *)
CopyByEngine(w, f, inset, r) ==
  LET needsBackgroundClear ==
        inset # 0 \/ CopyWidth(f) # Panel.w \/ CopyHeight(f, inset) # Panel.h - inset
      begun == BeginAccess(w, "rw")
      cleared == IF needsBackgroundClear
                 THEN EndAccess(Store(begun, ClearOutside(begun.t.picture, r))) ELSE w
  IN Rotate(cleared, f, r)

CopyFromDMABuf(w, f) ==
  LET inset == FrameTopInset(chrome, f.size.h)
      r == DestRect(Rect(0, 0, CopyWidth(f), CopyHeight(f, inset)), device.rotation, inset)
      v == EndAccess(w)
      rgaGeometrySupported == CopyWidth(f) = f.size.w /\ CopyHeight(f, inset) = f.size.h
      exported == IF v.t.exported THEN v
                  ELSE IF w.fault = "export" THEN [v EXCEPT !.hit = TRUE]
                  ELSE [v EXCEPT !.t.exported = TRUE]
      (* A failed clearing returns; a failed blit goes on with the CPU.       *)
      afterEngine(tried) ==
        IF tried.t.exported /\ tried.failures <= v.failures THEN BeginAccess(tried, "rw")
        ELSE IF device.rga = "required" THEN Fail(tried)
        ELSE CopyByCPU([tried EXCEPT !.ok = TRUE], f, inset)
      byEngine(e) == afterEngine(IF e.t.exported THEN CopyByEngine(e, f, inset, r) ELSE e)
      copied ==
        CASE ~v.ok -> v
          [] v.ok /\ ~(rgaGeometrySupported /\ EngineUsable(v)) ->
               IF device.rga = "required" THEN Fail(v) ELSE CopyByCPU(v, f, inset)
          [] v.ok /\ rgaGeometrySupported /\ EngineUsable(v) -> byEngine(exported)
  IN MadeFrom(copied, f, inset)

(* composeNativeChrome, and the END of the access. *)
Compose(w) ==
  LET v == BeginAccess(w, "rw")
      look == ChromeLook(chrome)
      drawn == Store(v, DrawChrome(PunchHole(v.t.picture), look))
  IN IF ~v.ok THEN v
     ELSE EndAccess([drawn EXCEPT !.composed = TRUE, !.t.made.look = look,
                       !.t.made.hole = chrome.video,
                       !.t.made.holeInset = ReservedTopInset(chrome)])
-----------------------------------------------------------------------------
(* Taking a target from a pool, and what the view keeps of the composition.  *)

NoPicture == [p \in Points |-> Nothing]
NewTarget(kind, size) ==
  [kind |-> kind, size |-> size, exported |-> FALSE, active |-> FALSE, synced |-> FALSE,
   direction |-> "rw", error |-> FALSE, picture |-> NoPicture, made |-> MadeOf(None, 0)]

FreeSlots(s, pool) ==
  {i \in {0, 1} : s.targets[<<pool, i>>] = None
                     \/ <<pool, i>> \notin {s.committed, s.pending}}
FirstFree(s, pool) ==
  <<pool, IF s.next[pool] \in FreeSlots(s, pool) THEN s.next[pool] ELSE 1 - s.next[pool]>>

(* What a target holds that nobody shows is forgotten.                        *)
Forgotten(t) ==
  [t EXCEPT !.picture = [p \in Points |-> Garbage], !.made = MadeOf(None, 0)]

(* A composition: work w in a slot, with the cache and the targets after it.  *)
Composed(c, s, slot, w) ==
  [ok |-> w.ok, hit |-> w.hit, coherent |-> w.coherent, slot |-> slot,
   cache |-> [c EXCEPT !.composed = w.composed],
   screen |-> [s EXCEPT !.targets[slot] = IF w.ok THEN w.t ELSE Forgotten(w.t),
                 !.failures = w.failures, !.disabled = w.disabled,
                 !.next[slot[1]] = IF w.ok THEN 1 - slot[2] ELSE @]]
(* No target was to be had, or the new one failed and is lost.                *)
NotComposed(c, s, hit, coherent) ==
  [ok |-> FALSE, hit |-> hit, coherent |-> coherent, slot |-> None, cache |-> c, screen |-> s]

(* nextRotatedDMABufBuffer and nextRotatedSHMBuffer up to the copied page: a  *)
(* target of another kind or page size is replaced, lost when that fails.     *)
Copied(c, slot, f, fault) ==
  LET old == screen.targets[slot]
      fresh == old = None \/ ~(old.kind = device.kind /\ old.size = f.size)
      w == Work(IF fresh THEN NewTarget(device.kind, f.size) ELSE old,
                fault, c, screen)
      v == IF device.kind = "shm" THEN CopyFromSHM(w, f) ELSE CopyFromDMABuf(w, f)
  IN IF fresh /\ fault.kind = "create" THEN [w |-> [Fail(w) EXCEPT !.hit = TRUE], lost |-> TRUE]
     ELSE [w |-> v, lost |-> fresh /\ ~v.ok]

(* prepareChromeBaseIfNeeded, copyBaseTo: the clean page is kept while a panel *)
(* is open or moves, or when the capture asked for it.                        *)
BaseNeeded(capture) == capture \/ chrome.panel \/ Animating(chrome)
PrepareBase(c, w, capture) ==
  LET read == BeginAccess(w, "r")
      done == EndAccess(read)
      after == [done EXCEPT !.ok = TRUE]
  IN IF ~w.ok \/ ~BaseNeeded(capture)
     THEN [cache |-> IF w.ok THEN [c EXCEPT !.preparedGeneration = 0] ELSE c, w |-> w]
     ELSE [w |-> after,
           cache |-> [c EXCEPT
             !.prepared = IF read.ok THEN [picture |-> w.t.picture, made |-> w.t.made] ELSE @,
             !.preparedGeneration = IF done.ok THEN screen.generation + 1 ELSE 0]]

(* nextRotatedDMABufBuffer, nextRotatedSHMBuffer *)
RenderPage(c, f, capture, fault) ==
  LET slot == FirstFree(screen, "rotated")
      finished(based) == Composed(based.cache, screen, slot, Compose(based.w))
      after(copied) ==
        IF copied.lost
        THEN NotComposed(c, [screen EXCEPT !.targets[slot] = None,
               !.failures = copied.w.failures, !.disabled = copied.w.disabled],
               copied.w.hit, copied.w.coherent)
        ELSE finished(PrepareBase(c, copied.w, capture))
  IN IF FreeSlots(screen, "rotated") = {} THEN NotComposed(c, screen, TRUE, TRUE)
     ELSE after(Copied(c, slot, f, fault))

(* nextChromeOverlayBuffer, from the base of c and the targets of s.          *)
RenderChrome(c, s, fault) ==
  LET pool == IF device.rotation = 0 THEN "shm" ELSE "rotated"
      slot == FirstFree(s, pool)
      old == s.targets[slot]
      t == IF old = None THEN NewTarget("chrome", Panel) ELSE old
      restored == Store(BeginAccess(Work(t, fault, c, s), "rw"), c.base.picture)
      based == [restored EXCEPT !.t.made = c.base.made]
  IN IF FreeSlots(s, pool) = {} \/ (old = None /\ fault.kind = "create")
     THEN NotComposed(c, s, TRUE, TRUE)
     ELSE Composed(c, s, slot, Compose(based))
-----------------------------------------------------------------------------
InFlight == screen.pending # None

(* mutation: the clean base outlives a change of the geometry.                *)
RefreshedFor_KeepsBase(c, look) ==
  LET height == IF screen.page # None THEN screen.page.size.h
                ELSE IF look.tall THEN Panel.h ELSE Panel.h - ToolbarHeight
      inset == FrameTopInset(look, height)
  IN IF c.inset = inset /\ c.tall = look.tall THEN c
     ELSE [c EXCEPT !.inset = inset, !.tall = look.tall, !.preparedGeneration = 0]

(* refreshContentGeometry, with the height of the page that is on the screen. *)
RefreshedFor(c, look) ==
  LET height == IF screen.page # None THEN screen.page.size.h
                ELSE IF look.tall THEN Panel.h ELSE Panel.h - ToolbarHeight
      inset == FrameTopInset(look, height)
  IN IF c.inset = inset /\ c.tall = look.tall THEN c
     ELSE [c EXCEPT !.inset = inset, !.tall = look.tall, !.generation = 0,
                    !.preparedGeneration = 0, !.base = None, !.prepared = None]
Refreshed(c) == RefreshedFor(c, chrome)

Init ==
  /\ device \in Devices
  /\ \E visible \in BOOLEAN :
       chrome = [visible |-> visible, panel |-> FALSE, motion |-> "none",
                 tall |-> ~visible, video |-> FALSE]
  /\ cache = [generation |-> 0, base |-> None, preparedGeneration |-> 0, prepared |-> None,
              inset |-> -1, tall |-> FALSE, motionPending |-> FALSE, armed |-> FALSE,
              changed |-> FALSE, composed |-> TRUE]
  /\ screen = [targets |-> [slot \in TargetSlots |-> None], next |-> [pool \in Pools |-> 0],
               committed |-> None, pending |-> None, pendingFrame |-> None, page |-> None,
               generation |-> 0, failures |-> 0, disabled |-> FALSE]
  /\ past = [frames |-> 0, changes |-> 0, faults |-> 0, failed |-> FALSE, late |-> FALSE, coherent |-> TRUE]

(* abortPendingCommit, of a frame or redraw that could not be composed.       *)
Aborted(c) == [c EXCEPT !.prepared = None, !.preparedGeneration = 0]

(* The clock: what is composed late in an animation is its end.               *)
DrawnNow == [chrome EXCEPT !.motion = IF @ = "ending" THEN "last" ELSE @]

(* The faults that may happen to a composition: device.faults in all.         *)
Risks == {NoFault} \cup (IF past.faults < device.faults THEN Faults ELSE {})

(* A fault is one that was hit; a step that failed for another reason counts.  *)
Happened(faults, r, frames, failed) ==
  /\ faults # {NoFault} => r.hit
  /\ past' = [past EXCEPT !.frames = @ + frames, !.failed = @ \/ failed,
                !.faults = IF faults # {NoFault} THEN @ + 1 ELSE @,
                !.late = @ /\ ~(frames = 1 /\ r.ok /\ chrome.motion = "none"),
                !.coherent = @ /\ r.coherent]

(* The sizes a page has: that of the view, or still the one it had.           *)
FrameSizes ==
  IF screen.page = None THEN device.sizes
  ELSE {screen.page.size}
    \cup {IF chrome.tall THEN Sizes.full ELSE Sizes.short}

(* wpeViewDRMRenderBuffer with nothing in flight, to the submission.          *)
NewFrame(size, fault) ==
  LET f == [id |-> past.frames + 1, size |-> size, alpha |-> device.alpha]
  IN /\ ~InFlight
     /\ past.frames < device.frames
     /\ size \in FrameSizes
     /\ \E r \in {RenderPage(Refreshed(cache), f, FALSE, fault)} :
          /\ Happened({fault}, r, 1, ~r.ok)
          /\ cache' = IF r.ok THEN r.cache ELSE Aborted(r.cache)
          /\ screen' = IF r.ok THEN [r.screen EXCEPT !.pending = r.slot, !.pendingFrame = f]
                       ELSE r.screen
     /\ chrome' = DrawnNow
     /\ UNCHANGED device

(* wpeViewDRMFinishBufferCommit, at the page flip.                            *)
Flip ==
  LET web == screen.pendingFrame # None
      swapped == web /\ cache.preparedGeneration # 0
      shown == screen.committed
  IN /\ InFlight
     /\ screen' = [screen EXCEPT !.committed = screen.pending, !.pending = None,
                     !.targets = IF shown = None THEN @
                                 ELSE [@ EXCEPT ![shown] = Forgotten(@)],
                     !.page = IF web THEN screen.pendingFrame ELSE @,
                     !.pendingFrame = None,
                     !.generation = IF web THEN @ + 1 ELSE @]
     /\ cache' = [cache EXCEPT !.motionPending = ~cache.composed,
                    !.base = IF swapped THEN cache.prepared ELSE @,
                    !.prepared = IF swapped THEN None ELSE @,
                    !.generation = IF swapped THEN screen.generation + 1 ELSE @,
                    !.preparedGeneration = IF swapped THEN 0 ELSE @]
     /\ UNCHANGED <<device, chrome, past>>
-----------------------------------------------------------------------------
(* A new snapshot is published: wpe_view_drm_request_chrome_redraw reads it    *)
(* and the geometry at once, and leaves the redraw to the next tick. The view  *)
(* is made shorter after that; taller only when the animation is over.         *)
Published(c) ==
  /\ past.changes < device.changes
  /\ past' = [past EXCEPT !.changes = @ + 1, !.late = @ \/ Refreshed(cache) # cache]
  /\ chrome' = [c EXCEPT !.tall = @ /\ ~HasRoom(c)]
  /\ cache' = [RefreshedFor(cache, c) EXCEPT !.changed = TRUE, !.motionPending = TRUE,
                 !.armed = TRUE, !.composed = FALSE]
  /\ UNCHANGED <<device, screen>>

ToggleToolbar ==
  /\ ~chrome.panel
  /\ Published([chrome EXCEPT !.visible = ~@, !.motion = "moving"])
TogglePanel ==
  Published([chrome EXCEPT !.panel = ~@, !.visible = TRUE,
                           !.motion = IF chrome.visible THEN @ ELSE "moving"])

(* chrome_deferred_layout_cb *)
Layout ==
  /\ ~HasRoom(chrome) /\ ~chrome.tall /\ chrome.motion = "none"
  /\ chrome' = [chrome EXCEPT !.tall = TRUE]
  /\ UNCHANGED <<device, cache, screen, past>>

(* Time passes in an animation.                                               *)
Elapse ==
  /\ \/ /\ chrome.motion = "moving"
        /\ chrome' = [chrome EXCEPT !.motion = "ending"]
        /\ UNCHANGED past
     \/ /\ \/ chrome.motion = "last"
           \/ chrome.motion = "ending" /\ (InFlight \/ screen.page = None)
        /\ chrome' = [chrome EXCEPT !.motion = "none"]
        /\ past' = [past EXCEPT !.late = @ \/ InFlight \/ Refreshed(cache) # cache]
  /\ UNCHANGED <<device, cache, screen>>

(* A video comes to its place, or leaves it: videoOverlayReceiveFrame and the  *)
(* clearing of a surface.                                                     *)
HoleMoves ==
  /\ past.changes < device.changes
  /\ past' = [past EXCEPT !.changes = @ + 1]
  /\ chrome' = [chrome EXCEPT !.video = ~@]
  /\ cache' = [cache EXCEPT !.motionPending = TRUE]
  /\ UNCHANGED <<device, screen>>

(* wpe_view_drm_trim_caches *)
TrimCaches(critical) ==
  /\ ~InFlight
  /\ LET baseNeeded == cache.motionPending \/ Animating(chrome) \/ chrome.panel
         dropped == critical /\ ~baseNeeded
     IN cache' = [cache EXCEPT !.prepared = None, !.preparedGeneration = 0,
                    !.base = IF dropped THEN None ELSE @,
                    !.generation = IF dropped THEN 0 ELSE @]
  /\ UNCHANGED <<device, chrome, screen, past>>

(* captureCommittedChromeBase: the page on the screen is composed once more,   *)
(* in a spare target, for the sake of its clean base.                         *)
Captured(c, fault) ==
  LET kept(r) ==
        IF ~r.ok \/ r.cache.preparedGeneration = 0 THEN [r EXCEPT !.ok = FALSE]
        ELSE [r EXCEPT !.cache.base = r.cache.prepared, !.cache.prepared = None,
                       !.cache.generation = screen.generation,
                       !.cache.preparedGeneration = 0,
                       !.screen.targets[r.slot] = Forgotten(@)]
  IN IF c.generation = screen.generation
     THEN [NotComposed(c, screen, fault = NoFault, TRUE) EXCEPT !.ok = TRUE]
     ELSE kept(RenderPage(c, screen.page, TRUE, fault))

(* The redraw of a tick: [drawn, as after a composition].                     *)
Redraw(c, captureFault, fault) ==
  LET finished(r) ==
        IF ~r.ok THEN [r EXCEPT !.cache = Aborted(@)]
        ELSE [r EXCEPT !.cache.motionPending = FALSE, !.screen.pending = r.slot]
      after(captured) ==
        IF ~captured.ok THEN captured
        ELSE finished([RenderChrome(captured.cache, captured.screen, fault) EXCEPT
                         !.coherent = @ /\ captured.coherent, !.hit = @ /\ captured.hit])
  IN after(Captured(c, captureFault))

(* wpeViewDRMChromeTick *)
ChromeTick(captureFault, fault) ==
  LET unchanged == [cache EXCEPT !.changed = FALSE]
      c == Refreshed(unchanged)
      stateChanged == cache.changed \/ c # unchanged
      moved == [c EXCEPT !.motionPending = @ \/ stateChanged \/ Animating(chrome)]
      draws == moved.motionPending /\ screen.page # None /\ ~InFlight
  IN /\ cache.armed
     /\ NoFault \in {captureFault, fault}
     /\ \E r \in {IF draws THEN Redraw(moved, captureFault, fault)
                  ELSE NotComposed(moved, screen, TRUE, TRUE)} :
          /\ draws \/ captureFault = fault
          /\ Happened({captureFault, fault}, r, 0, draws /\ ~r.ok)
          /\ cache' = [r.cache EXCEPT
               !.armed = Animating(chrome) \/ (r.cache.motionPending /\ InFlight)]
          /\ screen' = r.screen
          /\ chrome' = IF draws THEN DrawnNow ELSE chrome
     /\ UNCHANGED device

Next ==
  \/ \E size \in device.sizes \cup {Sizes.full, Sizes.short}, fault \in Risks : NewFrame(size, fault)
  \/ Flip
  \/ \E captureFault, fault \in Risks : ChromeTick(captureFault, fault)
  \/ ToggleToolbar \/ TogglePanel \/ Layout \/ Elapse \/ HoleMoves
  \/ \E critical \in BOOLEAN : TrimCaches(critical)

Spec == Init /\ [][Next]_compositionVars
-----------------------------------------------------------------------------
(* What a picture should be, by the panel alone. *)

(* The page below the chrome: at its place, with black margins; under a page  *)
(* that is too short its last row is repeated, or nothing is shown.           *)
PageAt(p, made) ==
  LET f == made.frame
      y == p[2] - made.inset
  IN IF y < 0 \/ p[1] >= f.size.w THEN {Black}
     ELSE IF y >= f.size.h THEN {Black, Opaque(PagePixel(f, p[1], f.size.h - 1))}
     ELSE {Opaque(PagePixel(f, p[1], y))}

ShownAt(p, made) ==
  LET hole == Rect(Hole.x1, Hole.y1 + made.holeInset, Hole.x2, Hole.y2 + made.holeInset)
  IN IF ChromeCovers(p, made.look) THEN {ChromePixel(made.look.panel)}
     ELSE IF made.hole /\ Inside(p, hole) THEN {Clear(pixel) : pixel \in PageAt(p, made)}
     ELSE PageAt(p, made)

(* A target that is shown or submitted is complete, of the page that belongs  *)
(* there, and the CPU has ended its access.                                   *)
TargetRight(slot, page) ==
  LET t == screen.targets[slot]
  IN /\ ~t.active
     /\ t.made.frame = page
     /\ \A p \in Points : t.picture[p] \in ShownAt(p, t.made)

(* A base that counts as current is the page on the screen, without chrome.   *)
BaseRight ==
  cache.generation = screen.generation /\ screen.page # None =>
    /\ cache.base.made.frame = screen.page
    /\ \A p \in Points : cache.base.picture[p] \in PageAt(p, cache.base.made)

(* When nothing more is under way, the screen shows the chrome as it is, and  *)
(* the page where the chrome leaves it room.                                  *)
Settled ==
  ~cache.armed /\ ~InFlight /\ screen.page # None /\ past.faults = 0 /\ ~past.failed /\ ~past.late =>
    LET made == screen.targets[screen.committed].made
    IN /\ made.look = ChromeLook(chrome)
       /\ IF HasRoom(chrome)
          THEN made.inset \in (ToolbarHeight - 2)..ToolbarHeight ELSE made.inset = 0

(* Whatever engine moves the page, in each rotation and size, with steps that *)
(* fail in between, a complete picture is shown: the page at its place, the   *)
(* margins black, the hole at the video, the chrome on top; the bases that    *)
(* redraws start from are clean and of the page on the screen; CPU and copy   *)
(* engine never have a target at the same time; and the toolbar's coming and  *)
(* going ends with the page moved.                                            *)
PictureRight ==
  /\ past.coherent
  /\ screen.committed # None => TargetRight(screen.committed, screen.page)
  /\ InFlight =>
       TargetRight(screen.pending,
         IF screen.pendingFrame # None THEN screen.pendingFrame ELSE screen.page)
  /\ BaseRight
  /\ Settled
=============================================================================
