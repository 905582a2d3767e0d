-------------------------- MODULE DisplayResolver --------------------------
(***************************************************************************)
(* How the MiniApp page finds out the size of the browser and by how much   *)
(* its picture and its touches are turned: display-resolver.js, and the two  *)
(* questions it asks the native side (JSBrowser.cpp,                        *)
(* BrowserDisplayConfig.cpp).                                               *)
(*                                                                          *)
(* A size is [w, h]. What a file or an option does not say is None. A device *)
(* is a record:                                                             *)
(*   cfg     the screen section of the system's cfg.json, or None            *)
(*   sku     the entry of the application's table that fits the device       *)
(*   env     the size the framework reports, or None                         *)
(*   dom     the size of the page's hole in the framework's layout, or None   *)
(*   kernel  what debugfs and sysfs say about the connectors                 *)
(* The page always passes a mode and never a size or a rotation of its own,   *)
(* so the paths for those options are left out.                              *)
(***************************************************************************)
EXTENDS Integers, Sequences, FiniteSetsExt

CONSTANT None

Size(w, h) == [w |-> w, h |-> h]
Rotations == {0, 90, 180, 270}
Modes == {"native", "rotate90", "rotate180", "rotate270"}

BrowserModeDelta ==
  [native |-> 0, rotate90 |-> 90, rotate180 |-> 180, rotate270 |-> 270]

(* The layouts that were tried on devices: 90 degrees uses the one of 270.    *)
BrowserLayoutDelta ==
  [native |-> 0, rotate90 |-> 270, rotate180 |-> 0, rotate270 |-> 270]

NormalizeBrowserMode(value) == IF value \in Modes THEN value ELSE "native"

NormalizeLaunchMode(value) ==
  IF value \in {None, "last"} THEN "last" ELSE NormalizeBrowserMode(value)

(* getDisplayMode: what the file holds, if it is a mode.                      *)
ReadDisplayMode(file) == NormalizeBrowserMode(file)

ResolvePersistedMode(option, file) ==
  IF NormalizeLaunchMode(option) = "last" THEN ReadDisplayMode(file)
  ELSE NormalizeLaunchMode(option)

RotateByDelta(rotation, delta) == (rotation + delta) % 360
RotationDelta(from, to) == (to - from) % 360
-----------------------------------------------------------------------------
(* Sizes. *)
ParseSize(size) ==
  IF size # None /\ size.w \in 64..4096 /\ size.h \in 64..4096 THEN size ELSE None

Swapped(size) == Size(size.h, size.w)

(* normalizeForRotation, and with it rotatedFramebufferSize.                  *)
Turned(size, rotation) ==
  IF size # None /\ rotation \in {90, 270} THEN Swapped(size) ELSE size

Orientation(size) ==
  IF size = None \/ size.w = size.h THEN "square"
  ELSE IF size.w > size.h THEN "landscape" ELSE "portrait"

(* The sides of the panel are swapped when that, and only that, makes the      *)
(* framebuffer lie as the mode of the display does.                          *)
Reconciled(panel, rotation, drm) ==
  IF /\ Orientation(drm) # "square"
     /\ Orientation(Turned(panel, rotation)) # Orientation(drm)
     /\ Orientation(Turned(Swapped(panel), rotation)) = Orientation(drm)
  THEN Swapped(panel) ELSE panel

(* aspectDistance of more than 0.30: the sides are at most 4096.              *)
AspectConflict(a, b) ==
  LET across == a.w * b.h
      down == b.w * a.h
  IN  10 * Max({across - down, down - across}) > 3 * down

FullResolution(drm) == Max({drm.w, drm.h}) >= 1000 /\ Min({drm.w, drm.h}) >= 540

Rejected(size, fallback, drm) ==
  \/ size = None
  \/ size = drm
  \/ /\ AspectConflict(size, fallback)
     /\ ~(size = Swapped(drm) /\ FullResolution(drm))
-----------------------------------------------------------------------------
(* The native side. *)

(* currentDrmModeSpec: the mode of debugfs, or the first one listed by the     *)
(* connectors panels usually have, or by another one. The status of a         *)
(* connector is searched for "connected", which "disconnected" contains.      *)
CurrentDrmMode(kernel) ==
  LET listed == { i \in DOMAIN kernel.known : kernel.known[i] # None }
      others == { i \in DOMAIN kernel.others :
                    kernel.others[i].status # "unknown" /\ kernel.others[i].mode # None }
  IN  IF kernel.debugfs # None THEN kernel.debugfs
      ELSE IF listed # {} THEN kernel.known[Min(listed)]
      ELSE IF others # {} THEN kernel.others[Min(others)].mode
      ELSE None

Bounded(value, lowest, highest, otherwise) ==
  IF value # None /\ value \in lowest..highest THEN value ELSE otherwise

(* The native normalizeRotationValue takes turns of more than a circle too.   *)
NormalizeRotation(value, fallback) ==
  IF value % 360 \in Rotations THEN value % 360 ELSE fallback

(* getSystemDisplayConfig. A direction of the video or of the touch panel      *)
(* that is negative counts as not given.                                     *)
SystemDisplayConfig(device) ==
  LET cfg == device.cfg
      direction == NormalizeRotation(Bounded(cfg.direction, -1080, 1080, 270), 270)
      given(value, otherwise) ==
        LET bounded == Bounded(value, -1080, 1080, -1)
        IN  IF bounded >= 0 THEN NormalizeRotation(bounded, otherwise) ELSE otherwise
      video == given(cfg.video, direction)
  IN  [size |-> Size(Bounded(cfg.width, 64, 4096, 0), Bounded(cfg.height, 64, 4096, 0)),
       frameworkRotation |-> direction,
       touchRotation |-> given(cfg.touch, video),
       touchOffsetX |-> Bounded(cfg.touchOffsetX, -4096, 4096, 0),
       touchOffsetY |-> Bounded(cfg.touchOffsetY, -4096, 4096, 0),
       touchDevice |-> cfg.touchDevice,
       drmMode |-> CurrentDrmMode(device.kernel)]
-----------------------------------------------------------------------------
(* The page. *)
HardFallback == [panelSize |-> Size(960, 266), drmMode |-> Size(480, 960), rotation |-> 270]

FallbackDisplay(device) == IF device.sku = None THEN HardFallback ELSE device.sku

ReadDrmMode(device) ==
  LET mode == ParseSize(CurrentDrmMode(device.kernel))
  IN  IF mode = None THEN FallbackDisplay(device).drmMode ELSE mode

(* The system's configuration says what the panel is like.                   *)
Configured(device, mode) ==
  LET config == SystemDisplayConfig(device)
      native == config.frameworkRotation
      drm == ReadDrmMode(device)
      layout == RotateByDelta(native, BrowserLayoutDelta[mode])
  IN  [panel |-> Reconciled(Turned(config.size, RotationDelta(native, layout)), layout, drm),
       drmMode |-> drm,
       rotation |-> RotateByDelta(native, BrowserModeDelta[mode]),
       touchRotation |-> RotateByDelta(config.touchRotation, BrowserModeDelta[mode]),
       touchDevice |-> config.touchDevice,
       touchOffsetX |-> config.touchOffsetX,
       touchOffsetY |-> config.touchOffsetY]

(* It does not: the first size that is likely to be the panel's is taken, and  *)
(* nobody knows the touch device. The hole's size may not come in time.       *)
Guessed(device, mode, hole) ==
  LET fallback == FallbackDisplay(device)
      layout == RotateByDelta(fallback.rotation, BrowserLayoutDelta[mode])
      drm == ReadDrmMode(device)
      turned(size) == Turned(size, RotationDelta(fallback.rotation, layout))
      candidates ==
        <<turned(ParseSize(hole)), turned(ParseSize(device.env))>>
          \o (IF FullResolution(drm) THEN <<turned(drm)>> ELSE << >>)
      accepted == { i \in DOMAIN candidates : ~Rejected(candidates[i], fallback.panelSize, drm) }
      panel == IF accepted = {} THEN turned(fallback.panelSize) ELSE candidates[Min(accepted)]
      rotation == RotateByDelta(fallback.rotation, BrowserModeDelta[mode])
  IN  [panel |-> Reconciled(panel, layout, drm),
       drmMode |-> drm,
       rotation |-> rotation,
       touchRotation |-> rotation,
       touchDevice |-> None,
       touchOffsetX |-> 0,
       touchOffsetY |-> 0]

IsConfigured(device) ==
  device.cfg # None /\ ParseSize(SystemDisplayConfig(device).size) # None

(* mutation: only the picture is turned by the mode, the touches are not.      *)
ResolveDisplay_TouchesStay(device, mode, hole) ==
  IF IsConfigured(device)
  THEN [Configured(device, mode) EXCEPT !.touchRotation = SystemDisplayConfig(device).touchRotation]
  ELSE Guessed(device, mode, hole)

(* resolveDisplayConfig *)
ResolveDisplay(device, mode, hole) ==
  IF IsConfigured(device) THEN Configured(device, mode) ELSE Guessed(device, mode, hole)
=============================================================================
