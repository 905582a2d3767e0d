-------------------------- MODULE MCFrameVariants --------------------------
(***************************************************************************)
(* The frame queue in the other configurations it has: the constants of    *)
(* DRMFrameQueue that describe the display and the environment are chosen  *)
(* by "mode", which never changes.                                         *)
(*   sync    synchronous atomic commits (WPE_DRM_SYNC_CPU_COMMIT)          *)
(*   legacy  a display without atomic commits                              *)
(*   direct  buffers scanned out themselves, on a plane without IN_FENCE_FD *)
(*   cursor  a display with a cursor plane                                 *)
(* In the mode "pixels" the pictures that the queue carries are composed    *)
(* (FrameComposition), by the configurations of the display and the copy    *)
(* engine listed in Devices; the queue itself does not run then.            *)
(***************************************************************************)
EXTENDS TLC, Naturals

CONSTANTS Buffers, Slots, None, MaxRetained, InFence, Throttled, Paced,
          MaxSerial, MaxEpoch

VARIABLES view, mode, device, chrome, cache, screen, past

pictures == <<device, chrome, cache, screen, past>>

AllFences == {"Ready", "Pending", "Failed"}

Sync == INSTANCE DRMFrameQueue WITH
  CopyPath <- TRUE, Atomic <- TRUE, SyncCommit <- TRUE, HasCursor <- FALSE,
  FencesGiven <- AllFences, ChromeRedraws <- TRUE
Legacy == INSTANCE DRMFrameQueue WITH
  CopyPath <- TRUE, Atomic <- FALSE, SyncCommit <- FALSE, HasCursor <- FALSE,
  FencesGiven <- {"Ready", "Pending"}, ChromeRedraws <- FALSE
Direct == INSTANCE DRMFrameQueue WITH
  CopyPath <- FALSE, Atomic <- TRUE, SyncCommit <- FALSE, HasCursor <- FALSE,
  FencesGiven <- AllFences, ChromeRedraws <- FALSE
Cursor == INSTANCE DRMFrameQueue WITH
  CopyPath <- TRUE, Atomic <- TRUE, SyncCommit <- FALSE, HasCursor <- TRUE,
  FencesGiven <- {"Ready", "Pending"}, ChromeRedraws <- FALSE

(* A panel of 64 x 96 with a toolbar of 24. Pictures are compared at the      *)
(* edges of what moves: the page under the toolbar (24, one row less, 0), the *)
(* end of a short, a shorter and a narrow page, the hole in both places.      *)
Panel == [w |-> 64, h |-> 96]
Sizes == [full |-> Panel, short |-> [w |-> 64, h |-> 72]]
Resized == {Sizes.full, Sizes.short}
AllSizes == Resized \cup {[w |-> 64, h |-> 73], [w |-> 40, h |-> 48]}
Device(rotation, kind, alpha, rga, sizes, frames, changes, faults) ==
  [rotation |-> rotation, kind |-> kind, alpha |-> alpha, rga |-> rga,
   sizes |-> sizes, frames |-> frames, changes |-> changes, faults |-> faults]
Devices == {
  Device(0, "dmabuf", TRUE, "auto", Resized, 2, 2, 0),
  Device(90, "dmabuf", TRUE, "auto", Resized, 2, 1, 1),
  Device(180, "dmabuf", TRUE, "auto", AllSizes, 1, 1, 0),
  Device(270, "dmabuf", TRUE, "auto", AllSizes, 2, 1, 0),
  Device(180, "shm", TRUE, "off", AllSizes, 1, 1, 0),
  Device(90, "dmabuf", FALSE, "off", AllSizes, 1, 1, 0),
  Device(270, "dmabuf", FALSE, "broken", AllSizes, 3, 0, 0),
  Device(0, "dmabuf", TRUE, "required", AllSizes, 1, 1, 0)}

Pixels == INSTANCE FrameComposition WITH
  ToolbarHeight <- 24, Xs <- {39, 40, 63}, Ys <- {0, 23, 24, 47, 48, 71, 72, 95},
  Hole <- [x1 |-> 40, y1 |-> 24, x2 |-> 64, y2 |-> 48]

Init ==
  \/ /\ Sync!Init /\ mode \in {"sync", "legacy", "direct", "cursor"}
     /\ device = None /\ chrome = None /\ cache = None /\ screen = None /\ past = None
  \/ mode = "pixels" /\ Pixels!Init /\ view = None

Next ==
  /\ \/ /\ \/ mode = "sync" /\ Sync!Next
           \/ mode = "legacy" /\ Legacy!Next
           \/ mode = "direct" /\ Direct!Next
           \/ mode = "cursor" /\ Cursor!Next
        /\ UNCHANGED pictures
     \/ mode = "pixels" /\ Pixels!Next /\ UNCHANGED view
  /\ UNCHANGED mode

Spec == Init /\ [][Next]_<<view, mode, pictures>>

(* The properties below speak of the view alone, whichever instance states  *)
(* them; see DRMFrameQueue.                                                 *)

(* In every configuration each lent buffer is in exactly one place, none is *)
(* given back while the GPU draws it, the quarantine of discarded sources   *)
(* suffices and whatever is shown is finished, on the direct path too,      *)
(* where the display engine reads the very buffer the GPU draws. Without a  *)
(* cursor plane (see README) a waiting frame has its wake-up armed, also    *)
(* where no flip event comes, and a synchronous or legacy commit leaves on  *)
(* the screen the page of the buffer that is retained as committed. No copy *)
(* writes a target the display engine may read, with cursor commits and     *)
(* legacy flips among the others.                                           *)
SafeInEveryMode ==
  /\ [](mode # "pixels" =>
         /\ Sync!BufferOwnership /\ Sync!NoEarlyRelease
         /\ Sync!QuarantineSuffices /\ Sync!ShownFramesFinished
         /\ mode # "cursor" => Sync!WakeupArmed /\ Sync!ScreenIsCommitted)
  /\ [][mode # "pixels" => Sync!KeepsWhatIsScanned]_<<view, mode>>

(* Whatever engine moves the page, in each rotation and size, with steps that *)
(* fail in between, a complete picture is shown; see FrameComposition.        *)
PictureRight == mode = "pixels" => Pixels!PictureRight

Symmetry == Permutations(Buffers) \cup Permutations(Slots)
=============================================================================
