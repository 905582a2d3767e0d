--------------------------- MODULE DRMFrameQueue ---------------------------
(***************************************************************************)
(* The DRM frame queue of wpe-drm: how a WPEBuffer handed over by WebKit   *)
(* is accepted, held back behind a page flip, a throttle or a rendering    *)
(* fence, copied into a scanout target, committed to KMS, presented and    *)
(* given back (DRMFrameQueue.cpp, WPEViewDRM.cpp, DRMScanoutBuffer.cpp,    *)
(* RenderingFenceWait.h, RenderingFenceRetirement.h).                      *)
(*                                                                         *)
(* The view lives on one main loop, so every handler is atomic: the record *)
(* "view" is the private struct of the view, an operator that takes a view *)
(* and returns a view (or the set of views it may return, when the kernel  *)
(* or the copy engine decides) is one C++ function, and an action is one   *)
(* entry point: a call from WebKit, a page-flip event, a timer, a fence.   *)
(***************************************************************************)
EXTENDS Naturals, FiniteSets, FrameTicket

CONSTANTS
  Buffers,      \* the WPEBuffers of the producer's swapchain
  Slots,        \* the two dumb framebuffers of a copying scanout pool
  None,         \* a null pointer
  MaxRetained,  \* RenderingFenceRetirement::maximumRetained
  CopyPath,     \* frames are copied into Slots; FALSE: scanned out directly
  Atomic,       \* KMS atomic commits; FALSE: legacy page flips
  InFence,      \* the primary plane has an IN_FENCE_FD property
  SyncCommit,   \* WPE_DRM_SYNC_CPU_COMMIT
  Throttled,    \* WPE_DRM_MAX_FPS is not zero
  HasCursor,    \* the display has a cursor plane and a pointer moves
  Paced,        \* the producer waits for FrameDone before its next frame
  MaxSerial,    \* bound: frames accepted in a behaviour
  MaxEpoch,     \* bound: geometry epochs in a behaviour
  FencesGiven,  \* states of the GPU work of a buffer when it is handed over
  ChromeRedraws \* the chrome is redrawn on its own

ASSUME QueueAssumption ==
  /\ IsFiniteSet(Buffers) /\ IsFiniteSet(Slots)
  /\ Buffers \cap Slots = {}
  /\ None \notin Buffers \cup Slots
  /\ MaxRetained \in Nat /\ Cardinality(Buffers) <= MaxRetained
  /\ {CopyPath, Atomic, InFence, SyncCommit, Throttled, HasCursor, Paced, ChromeRedraws}
       \subseteq BOOLEAN
  /\ FencesGiven \subseteq {"Ready", "Pending", "Failed"}
  /\ MaxSerial \in Nat /\ MaxEpoch \in Nat

VARIABLE view  \* the view, with its producer's ledger, the GPU and KMS

Targets == Buffers \cup Slots
UpdateFlags == {"BufferUpdateRequested", "CursorUpdateRequested",
                "BufferUpdatePending", "CursorUpdatePending"}
Requested == {"BufferUpdateRequested", "CursorUpdateRequested"}

(***************************************************************************)
(* The private struct of the view, in the groups its handlers touch.       *)
(*   queue    the three buffers the queue holds and their tickets           *)
(*   update   what the view waits for: flips asked for or put off, timers   *)
(*   scanout  the framebuffers shown and submitted, those KMS may read, and *)
(*            (frame) whose page each target holds, 0 for no complete page  *)
(*   fences   buffers whose rendering fence is still attached, the fence of *)
(*            the pending frame, the discarded sources kept back, and       *)
(*            (work) the GPU work that draws each buffer                    *)
(*   chrome   the clean base pages under the chrome, by the generation they *)
(*            belong to, and (basePage, preparedPage) whose page they hold  *)
(*   kms      the display engine: the commit whose flip is outstanding and  *)
(*            the framebuffer on the screen                                 *)
(*   ledger   the producer's view: buffers accepted and not yet released,   *)
(*            frames accepted and not yet reported rendered, buffers either *)
(*            report was repeated for, and buffers released before the GPU  *)
(*            was done with them                                            *)
(***************************************************************************)
QueueType ==
  [pendingBuffer : Buffers \cup {None}, queuedBuffer : Buffers \cup {None},
   committedBuffer : Buffers \cup {None},
   pendingTicket : Ticket, queuedTicket : Ticket, committedTicket : Ticket,
   nextFrameSerial : Nat, geometryEpoch : Nat]

UpdateType ==
  [flags : SUBSET UpdateFlags, throttleSource : BOOLEAN, cursorTimer : BOOLEAN,
   fenceWait : BOOLEAN, lastCommitSync : BOOLEAN, dropped : BOOLEAN,
   resized : BOOLEAN]

ScanoutType ==
  [pending : Targets \cup {None}, committed : Targets \cup {None},
   owned : SUBSET Targets, frame : [Targets -> Nat], atomicInFlight : BOOLEAN]

FencesType ==
  [held : SUBSET Buffers, pending : BOOLEAN, taken : BOOLEAN,
   quarantine : SUBSET Buffers, work : [Buffers -> {"Ready", "Pending", "Failed"}]]

ChromeType ==
  [generation : Nat, baseGeneration : Nat, preparedGeneration : Nat,
   basePage : Nat, preparedPage : Nat,
   panelOpen : BOOLEAN, pending : BOOLEAN, source : BOOLEAN, stale : BOOLEAN]

KMSType ==
  [busy : BOOLEAN, next : Targets \cup {None}, screen : Targets \cup {None}]

LedgerType ==
  [lent : SUBSET Buffers, unpaced : SUBSET Buffers,
   repeated : SUBSET Buffers, early : SUBSET Buffers]

ViewType ==
  [queue : QueueType, update : UpdateType, scanout : ScanoutType,
   fences : FencesType, chrome : ChromeType, kms : KMSType, ledger : LedgerType,
   fault : {"none", "assert", "quarantine"}, disposed : BOOLEAN]

TypeOK == view \in ViewType

Init ==
  view =
    [queue |-> [pendingBuffer |-> None, queuedBuffer |-> None, committedBuffer |-> None,
                pendingTicket |-> NoTicket, queuedTicket |-> NoTicket,
                committedTicket |-> NoTicket, nextFrameSerial |-> 0, geometryEpoch |-> 1],
     update |-> [flags |-> {}, throttleSource |-> FALSE, cursorTimer |-> FALSE,
                 fenceWait |-> FALSE, lastCommitSync |-> FALSE, dropped |-> FALSE,
                 resized |-> FALSE],
     scanout |-> [pending |-> None, committed |-> None, owned |-> {},
                  frame |-> [t \in Targets |-> 0], atomicInFlight |-> FALSE],
     fences |-> [held |-> {}, pending |-> FALSE, taken |-> FALSE, quarantine |-> {},
                 work |-> [b \in Buffers |-> "Ready"]],
     chrome |-> [generation |-> 0, baseGeneration |-> 0, preparedGeneration |-> 0,
                 basePage |-> 0, preparedPage |-> 0, panelOpen |-> FALSE,
                 pending |-> FALSE, source |-> FALSE, stale |-> FALSE],
     kms |-> [busy |-> FALSE, next |-> None, screen |-> None],
     ledger |-> [lent |-> {}, unpaced |-> {}, repeated |-> {}, early |-> {}],
     fault |-> "none", disposed |-> FALSE]
-----------------------------------------------------------------------------
(* Giving buffers back. *)

(* wpe_view_buffer_released: the producer may draw into b again. *)
BufferReleased(v, b) ==
  [v EXCEPT
     !.ledger = [v.ledger EXCEPT !.lent = @ \ {b}, !.repeated = @ \cup ({b} \ v.ledger.lent),
                          !.early = IF v.fences.work[b] = "Pending" THEN @ \cup {b} ELSE @],
     !.fences = [v.fences EXCEPT !.work[b] = "Ready"]]

(* wpe_view_buffer_rendered: the compositor may produce its next frame. *)
BufferRendered(v, b) ==
  [v EXCEPT
     !.ledger = [v.ledger EXCEPT !.unpaced = @ \ {b}, !.repeated = @ \cup ({b} \ v.ledger.unpaced)]]

(* FrameTicket::complete followed by the rendered callback. *)
CompletePending_Never(v) == v  \* mutation: the rendered callback is lost
CompletePending(v) ==
  IF CanComplete(v.queue.pendingTicket)
    THEN [BufferRendered(v, v.queue.pendingBuffer) EXCEPT !.queue.pendingTicket.rendered = TRUE]
    ELSE v

(* RELEASE_ASSERT(pendingTicket.advance(phase)). *)
AdvancePending(v, phase) ==
  IF CanAdvance(v.queue.pendingTicket.phase, phase)
    THEN [v EXCEPT !.queue.pendingTicket.phase = phase]
    ELSE [v EXCEPT !.fault = "assert"]

(* Mutation: the fence on the buffer is probed, after it was taken from there. *)
ProbeFence_Attached(v, held, b) == IF b \in v.fences.held THEN v.fences.work[b] ELSE "Ready"

(* A missing fence descriptor probes as Ready. *)
ProbeFence(v, held, b) == IF held THEN v.fences.work[b] ELSE "Ready"

(* Mutation: a discarded buffer is released whatever its fence says. *)
RetireDiscarded_AtOnce(v, b, held) == BufferReleased([v EXCEPT !.fences.held = @ \ {b}], b)

(* retireDiscardedBuffer: release b, or keep it until its fence signals.   *)
(* held: the caller passes the fence it already took from the buffer.      *)
QuarantineFull_OffByOne(v) == Cardinality(v.fences.quarantine) >= MaxRetained - 1  \* mutation
QuarantineFull(v) == Cardinality(v.fences.quarantine) >= MaxRetained

RetireDiscarded(v, b, held) ==
  LET taken == held \/ b \in v.fences.held
      w     == IF held THEN v ELSE [v EXCEPT !.fences.held = @ \ {b}]
  IN  IF ProbeFence(v, taken, b) = "Ready"
        THEN BufferReleased(w, b)
        ELSE IF QuarantineFull(w)
               THEN [w EXCEPT !.fault = "quarantine"]
               ELSE [w EXCEPT !.fences.quarantine = @ \cup {b}]

(* abortPendingCommit. *)
AbortPending(v) ==
  LET web == v.queue.pendingBuffer # None
      w   == IF web
               THEN RetireDiscarded(CompletePending(v), v.queue.pendingBuffer, v.fences.pending)
               ELSE v
  IN  [w EXCEPT
         !.queue = [w.queue EXCEPT !.pendingBuffer = None, !.pendingTicket = NoTicket],
         !.update = [w.update EXCEPT !.fenceWait = FALSE, !.dropped = web],
         !.fences = [w.fences EXCEPT !.taken = FALSE, !.pending = FALSE],
         !.chrome = [w.chrome EXCEPT !.preparedGeneration = 0, !.preparedPage = 0],
         !.scanout.pending = None]

(* wpeViewDRMFinishBufferCommit, in the order of the code: the page becomes *)
(* the committed one and the buffer before it is released, the target        *)
(* becomes the committed one, and a chrome base prepared with the page       *)
(* becomes the current one.                                                  *)
CommitPage(v) ==
  LET presented == AdvancePending(v, "Presented")
      released  == IF v.queue.committedBuffer = None THEN presented
                   ELSE BufferReleased(presented, v.queue.committedBuffer)
      complete  == CompletePending(released)
  IN  [complete EXCEPT
         !.queue = [complete.queue EXCEPT !.committedBuffer = v.queue.pendingBuffer,
                             !.committedTicket = complete.queue.pendingTicket,
                             !.pendingBuffer = None, !.pendingTicket = NoTicket]]

(* Mutation: the target shown before is never given up. *)
CommitScanout_KeepsOwned(v) ==
  [v EXCEPT !.scanout.committed = v.scanout.pending, !.scanout.pending = None]

CommitScanout(v) ==
  [v EXCEPT !.scanout =
     [v.scanout EXCEPT !.owned = @ \ ({v.scanout.committed} \ {v.scanout.pending}),
               !.committed = v.scanout.pending, !.pending = None]]

(* Mutation: a page without a base of its own leaves the generation as it is. *)
AdvanceGeneration_OnlyPrepared(chrome) ==
  IF chrome.preparedGeneration = 0 THEN chrome
  ELSE [chrome EXCEPT !.generation = @ + 1, !.baseGeneration = chrome.generation + 1,
                      !.basePage = chrome.preparedPage,
                      !.preparedGeneration = 0, !.preparedPage = 0]

AdvanceGeneration(chrome) ==
  IF chrome.preparedGeneration = 0
    THEN [chrome EXCEPT !.generation = @ + 1]
    ELSE [chrome EXCEPT !.generation = @ + 1, !.baseGeneration = chrome.generation + 1,
                        !.basePage = chrome.preparedPage,
                        !.preparedGeneration = 0, !.preparedPage = 0]

FinishBufferCommit(v) ==
  LET web == v.queue.pendingBuffer # None
      w   == IF web THEN CommitPage(v) ELSE v
      x   == IF v.scanout.pending # None THEN CommitScanout(w) ELSE w
      chrome == IF web THEN AdvanceGeneration(v.chrome) ELSE v.chrome
  IN  IF ~web /\ v.scanout.pending = None THEN v
      ELSE [x EXCEPT !.chrome = [chrome EXCEPT !.pending = chrome.stale]]

(* Mutations: every commit, or none, counts as a synchronous one. *)
CompleteSynchronous_Always(v) ==
  FinishBufferCommit([v EXCEPT !.update.flags = @ \ {"BufferUpdateRequested"}])
CompleteSynchronous_Never(v) == v

(* wpeViewDRMCompleteSynchronousCommitIfNeeded. *)
CompleteSynchronous(v) ==
  IF v.update.lastCommitSync
    THEN FinishBufferCommit(
           [v EXCEPT !.update = [v.update EXCEPT !.lastCommitSync = FALSE,
                                          !.flags = @ \ {"BufferUpdateRequested"}]])
    ELSE v
-----------------------------------------------------------------------------
(* Scanout targets. *)

(* Pool slots neither presented nor submitted; the loops in nextSHMDumbBuffer, *)
(* nextRotatedDMABufBuffer, nextRotatedSHMBuffer, nextChromeOverlayBuffer.     *)
SpareSlots(v) == Slots \ {v.scanout.committed, v.scanout.pending}

(* beginCPUAccess and copyRotatedFromDMABuf refuse a target KMS may read. *)
WritableSlots_Spare(v) == SpareSlots(v)  \* mutation: the ownership check is dropped
WritableSlots(v) == SpareSlots(v) \ v.scanout.owned

NoTarget(v) == [v |-> v, fb |-> None]

(* prepareChromeBaseIfNeeded: keep a clean copy of the page, for the next   *)
(* generation, if a panel is open or one was asked for; copying may fail.   *)
BaseGenerations(v, capture) ==
  IF v.chrome.panelOpen \/ capture THEN {v.chrome.generation + 1, 0} ELSE {0}

PrepareBase(chrome, generation, page) ==
  [chrome EXCEPT !.preparedGeneration = generation, !.stale = FALSE,
                 !.preparedPage = IF generation = 0 THEN 0 ELSE page]

(* Slot s after the page was copied, its base kept and the chrome drawn     *)
(* over it; drawn is 0 when the composition failed half way.                *)
DrawPage(v, s, drawn, page, generation) ==
  [v EXCEPT !.scanout.frame[s] = drawn, !.chrome = PrepareBase(v.chrome, generation, page)]

(* drmScanoutBufferForRender: the page of frame number "page" in a spare    *)
(* slot, if every step succeeds.  On the direct path the buffer itself is   *)
(* the target.                                                              *)
RenderTargets(v, source, page, capture) ==
  {NoTarget(v)} \cup
  IF CopyPath
    THEN UNION {{[v |-> DrawPage(v, s, page, page, g), fb |-> s],
                 NoTarget(DrawPage(v, s, 0, page, g))} :
                  s \in WritableSlots(v), g \in BaseGenerations(v, capture)}
    ELSE {[v |-> [v EXCEPT !.scanout.frame[source] = page], fb |-> source]}

(* nextChromeOverlayBuffer: the saved base page with the chrome redrawn. *)
OverlayTargets(v) ==
  {NoTarget(v)} \cup
  {[v |-> [v EXCEPT !.scanout.frame[s] = v.chrome.basePage, !.chrome.stale = FALSE], fb |-> s] :
     s \in WritableSlots(v)}

(* captureCommittedChromeBase: rebuild the base from the retained source. *)
CaptureBase(v) ==
  IF v.queue.committedBuffer = None \/ v.queue.pendingBuffer # None \/ v.scanout.atomicInFlight
    THEN {[v |-> v, ok |-> FALSE]}
    ELSE {IF t.fb = None \/ t.v.chrome.preparedGeneration = 0
            THEN [v |-> t.v, ok |-> FALSE]
            ELSE [v |-> [t.v EXCEPT
                           !.chrome = [t.v.chrome EXCEPT !.basePage = t.v.chrome.preparedPage,
                                                !.baseGeneration = v.chrome.generation,
                                                !.preparedGeneration = 0, !.preparedPage = 0]],
                  ok |-> TRUE] :
          t \in RenderTargets(v, v.queue.committedBuffer, v.queue.committedTicket.serial, TRUE)}
-----------------------------------------------------------------------------
(* Committing. *)

(* wpeViewDRMCommitAtomic or wpeViewDRMCommitLegacy and what RequestUpdate  *)
(* does with the answer.  KMS refuses a commit while a flip is outstanding  *)
(* and may refuse any other; a legacy commit needs a framebuffer.           *)
CommitTargets(v, fb) ==
  LET sync    == Atomic /\ SyncCommit /\ CopyPath /\ fb # None
      Refused == IF v.queue.pendingBuffer = None /\ ~Atomic /\ fb = None
                   THEN [v |-> v, ok |-> FALSE]
                   ELSE [v |-> [AbortPending(v) EXCEPT
                                  !.update.lastCommitSync = @ /\ ~Atomic],
                         ok |-> v.queue.pendingBuffer # None]
      kms     == IF sync THEN [busy |-> FALSE, next |-> None, screen |-> fb]
                 ELSE [busy |-> TRUE, next |-> fb, screen |-> v.kms.screen]
      owned   == [v EXCEPT
                    !.scanout = [v.scanout EXCEPT !.owned = @ \cup ({fb} \ {None}),
                                          !.atomicInFlight = IF Atomic THEN ~sync ELSE @],
                    !.update.lastCommitSync = IF Atomic THEN sync ELSE @,
                    !.kms = kms]
      Taken   == [v |-> IF v.queue.pendingBuffer # None
                          THEN AdvancePending(owned, "Submitted") ELSE owned,
                  ok |-> TRUE]
  IN  {Refused} \cup IF v.kms.busy \/ (~Atomic /\ fb = None) THEN {} ELSE {Taken}

(* Is a web frame on its way that will repaint everything anyway? *)
WebFrameWaiting(v) ==
  \/ v.queue.pendingBuffer # None \/ v.queue.queuedBuffer # None \/ v.update.throttleSource
  \/ "BufferUpdatePending" \in v.update.flags

(* The end of RequestUpdate for a target that was, or was not, obtained. *)
SubmitTarget(t) ==
  IF t.fb = None
    THEN {[v |-> AbortPending(t.v), ok |-> t.v.queue.pendingBuffer # None]}
    ELSE LET ready == IF t.v.queue.pendingBuffer # None
                        THEN AdvancePending(t.v, "Ready") ELSE t.v
         IN  CommitTargets([ready EXCEPT !.scanout.pending = t.fb], t.fb)

(* Must the view itself wait for the fence of a frame: the CPU or the copy  *)
(* engine reads it, or KMS cannot be given the fence.                       *)
FenceNeeded_CopyOnly == CopyPath  \* mutation: a plane without IN_FENCE_FD is forgotten
FenceNeeded == CopyPath \/ ~(Atomic /\ InFence)

(* RequestUpdate with a web frame pending: wait for its fence if need be,   *)
(* then render it and commit.                                               *)
UpdateWebFrame(v) ==
  LET b == v.queue.pendingBuffer
      w == IF v.fences.taken THEN v
           ELSE [v EXCEPT !.fences = [v.fences EXCEPT !.pending = b \in v.fences.held,
                                                !.held = @ \ {b}, !.taken = TRUE]]
      state == IF FenceNeeded THEN ProbeFence(w, w.fences.pending, b) ELSE "Ready"
      prepared == AdvancePending(
                    [w EXCEPT !.fences = [w.fences EXCEPT !.pending = FALSE, !.taken = FALSE]],
                    "Preparing")
  IN  CASE state = "Pending" ->
             {[v |-> [(IF w.update.fenceWait THEN w ELSE AdvancePending(w, "WaitingFence"))
                        EXCEPT !.update = [w.update EXCEPT !.fenceWait = TRUE,
                                                          !.lastCommitSync = FALSE]],
               ok |-> TRUE]}
        [] state = "Failed" -> {[v |-> AbortPending(w), ok |-> TRUE]}
        [] state = "Ready" ->
             UNION {SubmitTarget(t) :
                      t \in RenderTargets(prepared, b, w.queue.pendingTicket.serial, FALSE)}

(* RequestUpdate without a web frame: redraw the chrome over the saved base *)
(* or over the retained source, or commit what is on the screen again.      *)
UpdateChrome(v) ==
  IF CopyPath /\ v.queue.committedBuffer # None /\ ~WebFrameWaiting(v)
    THEN UNION {SubmitTarget(t) :
                  t \in IF v.chrome.basePage # 0 THEN OverlayTargets(v)
                        ELSE RenderTargets(v, v.queue.committedBuffer,
                                           v.queue.committedTicket.serial, FALSE)}
    ELSE CommitTargets(v, v.scanout.committed)

(* Mutation: a frame of an older geometry is submitted all the same. *)
RequestUpdate_AnyEpoch(v) ==
  IF v.queue.pendingBuffer = None THEN UpdateChrome(v) ELSE UpdateWebFrame(v)

(* wpeViewDRMRequestUpdate: the views it may leave and what it returns. *)
RequestUpdate(v) ==
  IF v.queue.pendingBuffer = None THEN UpdateChrome(v)
  ELSE IF v.queue.pendingTicket.epoch # v.queue.geometryEpoch
    THEN {[v |-> AbortPending(v), ok |-> TRUE]}
    ELSE UpdateWebFrame(v)

(* What both callers with a fresh frame do with RequestUpdate's answer. *)
SubmitFresh(v) ==
  {IF ~r.ok THEN r.v
   ELSE IF r.v.update.dropped THEN [r.v EXCEPT !.update.dropped = FALSE]
   ELSE CompleteSynchronous(
          [r.v EXCEPT !.update.flags = @ \cup {"BufferUpdateRequested"}]) :
   r \in RequestUpdate([v EXCEPT !.update.dropped = FALSE])}
-----------------------------------------------------------------------------
(* The latest-frame queue. *)

(* The ticket of the next frame: ++nextFrameSerial, and accept.              *)
NewTicket_PostIncrement(queue) == Accepted(queue.nextFrameSerial, queue.geometryEpoch)  \* mutation
NewTicket(queue) == Accepted(queue.nextFrameSerial + 1, queue.geometryEpoch)
AcceptFrame(queue) == [queue EXCEPT !.nextFrameSerial = @ + 1]

(* Mutation: the frame that is replaced is forgotten. *)
QueueBuffer_Forgets(v, b) ==
  [v EXCEPT !.queue = [AcceptFrame(v.queue) EXCEPT !.queuedBuffer = b,
                                                   !.queuedTicket = NewTicket(v.queue)],
            !.update.flags = @ \cup {"BufferUpdatePending"}]

(* wpeViewDRMQueueBuffer. *)
QueueBuffer(v, b) ==
  LET replaces == v.queue.queuedBuffer # None /\ v.queue.queuedBuffer # b
      fresh    == v.queue.queuedTicket.serial = 0 \/ replaces
      w == IF replaces THEN RetireDiscarded(v, v.queue.queuedBuffer, FALSE) ELSE v
      accepted == IF fresh THEN AcceptFrame(w.queue) ELSE w.queue
  IN  [w EXCEPT
         !.queue = [accepted EXCEPT !.queuedBuffer = b,
                                    !.queuedTicket = IF fresh THEN NewTicket(w.queue) ELSE @],
         !.update.flags = @ \cup {"BufferUpdatePending"}]

(* The queued frame becomes the pending one and is submitted. *)
SubmitQueued(v) ==
  SubmitFresh(
    [v EXCEPT
       !.update.flags = @ \ {"BufferUpdatePending"},
       !.queue = [v.queue EXCEPT !.pendingBuffer = v.queue.queuedBuffer,
                           !.pendingTicket = v.queue.queuedTicket,
                           !.queuedBuffer = None, !.queuedTicket = NoTicket]])

(* wpeViewDRMCommitQueuedBuffer. *)
CommitQueuedBuffer(v) ==
  IF v.queue.queuedBuffer = None \/ v.update.flags \cap Requested # {}
    THEN {v} ELSE SubmitQueued(v)

(* Mutation: the base is made obsolete by counting its generation down. *)
RefreshGeometry_CountsDown(v) ==
  IF v.update.resized
    THEN [v EXCEPT !.queue.geometryEpoch = @ + 1, !.update.resized = FALSE,
                   !.chrome.baseGeneration = @ - 1]
    ELSE v

(* refreshContentGeometry. *)
RefreshGeometry(v) ==
  IF v.update.resized
    THEN [v EXCEPT !.queue.geometryEpoch = @ + 1, !.update.resized = FALSE,
                   !.chrome = [v.chrome EXCEPT !.baseGeneration = 0,
                                        !.preparedGeneration = 0, !.preparedPage = 0]]
    ELSE v

(* May the throttle ask for a delay now? *)
ThrottleAnswers == IF Throttled THEN BOOLEAN ELSE {FALSE}
-----------------------------------------------------------------------------
(* The entry points.  A failed assertion or g_error ends the process. *)
Running == view.fault = "none" /\ ~view.disposed

(* The display engine flips to a target it was given a fence for once that  *)
(* fence is done, to any other at the next vertical blank.                  *)
CanFlip ==
  Atomic /\ InFence /\ view.kms.next \in Buffers => view.fences.work[view.kms.next] # "Pending"

(* When the three entry points that liveness depends on are enabled. *)
FenceWaitReady == Running /\ view.update.fenceWait
ThrottleReady  == Running /\ view.update.throttleSource
FlipReady      == Running /\ view.kms.busy /\ CanFlip

(* The GPU work of a buffer the view holds finishes or fails. *)
GPUSettles(b) ==
  /\ b \in view.ledger.lent /\ view.fences.work[b] = "Pending"
  /\ \E state \in {"Ready", "Failed"} : view' = [view EXCEPT !.fences.work[b] = state]

(* b is handed over, with the fence of the GPU work that draws it. *)
HandOver(v, b, work) ==
  [RefreshGeometry(v) EXCEPT
     !.fences = [v.fences EXCEPT !.work[b] = work, !.held = @ \cup {b}],
     !.ledger = [v.ledger EXCEPT !.lent = @ \cup {b}, !.unpaced = @ \cup {b}]]

(* A cursor commit before the first frame is forgotten. *)
ForgetCursor(v) ==
  IF "CursorUpdateRequested" \in v.update.flags /\ v.queue.committedBuffer = None
    THEN [v EXCEPT !.update.flags = @ \ {"CursorUpdateRequested", "CursorUpdatePending"}]
    ELSE v

(* An idle view takes b as the pending frame. *)
TakeFrame(v, b) ==
  [v EXCEPT
     !.queue = [AcceptFrame(v.queue) EXCEPT !.pendingBuffer = b,
                                            !.pendingTicket = NewTicket(v.queue)],
     !.update.cursorTimer = FALSE]

(* wpeViewDRMRenderBuffer: WebKit hands a buffer over.  It is submitted at  *)
(* once, or queued behind a flip, a fence or the throttle.                  *)
RenderBuffer(b) ==
  /\ Running /\ b \notin view.ledger.lent
  /\ view.queue.nextFrameSerial < MaxSerial
  /\ Paced => view.ledger.unpaced = {}
  /\ \E work \in FencesGiven, delay \in ThrottleAnswers :
     LET v == ForgetCursor(HandOver(view, b, work))
     IN  view' \in
           IF v.update.flags \cap Requested # {}
             THEN {QueueBuffer(v, b)}
           ELSE IF v.update.throttleSource \/ (v.queue.committedBuffer # None /\ delay)
             THEN {[QueueBuffer(v, b) EXCEPT !.update.throttleSource = TRUE]}
           ELSE SubmitFresh(TakeFrame(v, b))

(* What renderingFenceFinished does with RequestUpdate's answer, and with a  *)
(* frame queued meanwhile, which no other event would look at.               *)
SubmitFinished(r) ==
  IF r.ok /\ ~r.v.update.dropped
    THEN CompleteSynchronous([r.v EXCEPT !.update.flags = @ \cup {"BufferUpdateRequested"}])
    ELSE r.v

DrainQueue_Never(v) == v  \* mutation
DrainQueue(v) ==
  IF "BufferUpdateRequested" \notin v.update.flags /\ v.queue.queuedBuffer # None
    THEN [v EXCEPT !.update.throttleSource = TRUE] ELSE v

(* renderingFenceFinished: the fence signalled, failed, or the deadline of  *)
(* RenderingFenceWait passed first.                                         *)
FenceWaitEnds ==
  /\ FenceWaitReady
  /\ \E result \in {view.fences.work[view.queue.pendingBuffer], "TimedOut"} \ {"Pending"} :
       /\ result = "TimedOut" => view.fences.work[view.queue.pendingBuffer] = "Pending"
       /\ LET v == [view EXCEPT !.update = [view.update EXCEPT !.fenceWait = FALSE,
                                              !.flags = @ \ {"BufferUpdateRequested"}]]
          IN  view' \in {DrainQueue(w) : w \in
                           IF result = "Ready"
                             THEN {SubmitFinished(r) : r \in RequestUpdate(v)}
                             ELSE {AbortPending(v)}}

(* RenderingFenceRetirement::dispatch: a quarantined fence signalled. *)
QuarantineSettles(b) ==
  /\ Running /\ b \in view.fences.quarantine /\ view.fences.work[b] = "Ready"
  /\ view' = BufferReleased([view EXCEPT !.fences.quarantine = @ \ {b}], b)

(* The callback of the frame-throttle source, once its delay has passed. *)
ThrottleFires ==
  /\ ThrottleReady
  /\ view' \in CommitQueuedBuffer([view EXCEPT !.update.throttleSource = FALSE])

(* The display engine shows the target it was given and the view forgets its *)
(* flags; a page flip that carried a frame finishes its commit.              *)
Flipped(v) ==
  [v EXCEPT !.kms = [busy |-> FALSE, next |-> None, screen |-> v.kms.next],
            !.scanout.atomicInFlight = FALSE, !.update.flags = {}]

AfterFlip(v) ==
  IF "BufferUpdateRequested" \in v.update.flags
    THEN FinishBufferCommit(Flipped(v)) ELSE Flipped(v)

(* A page flip completes and wpeViewDRMDidPageFlip runs. *)
PageFlip ==
  /\ FlipReady
  /\ LET flags == view.update.flags
         v     == AfterFlip(view)
     IN  \E delay \in ThrottleAnswers :
           view' \in
             IF "BufferUpdatePending" \in flags
               THEN IF delay
                      THEN {[v EXCEPT !.update.flags = {"BufferUpdatePending"},
                                      !.update.throttleSource = TRUE]}
                      ELSE CommitQueuedBuffer(v)
             ELSE IF "CursorUpdatePending" \in flags
               THEN {[v EXCEPT !.update.cursorTimer = TRUE]}
             ELSE {v}

(* wpeViewDRMUpdateCursor: the pointer moved. *)
UpdateCursor ==
  /\ Running /\ HasCursor
  /\ view' = IF view.update.flags \cap Requested # {}
               THEN [view EXCEPT !.update.flags = @ \cup {"CursorUpdatePending"}]
               ELSE [view EXCEPT !.update.cursorTimer = TRUE]

(* The cursor timer of wpeViewDRMScheduleCursorUpdate fires. *)
CursorTimer ==
  /\ Running /\ view.update.cursorTimer
  /\ LET v == [view EXCEPT !.update.cursorTimer = FALSE]
     IN  view' \in
           IF v.update.flags \cap Requested # {}
             THEN {[v EXCEPT !.update.flags = @ \cup {"CursorUpdatePending"}]}
             ELSE {IF r.ok
                     THEN [r.v EXCEPT !.update.flags = @ \cup {"CursorUpdateRequested"}]
                     ELSE r.v : r \in RequestUpdate(v)}

(* wpe_view_drm_request_chrome_redraw, with a chrome snapshot that may have *)
(* opened or closed a panel.                                                *)
RequestChromeRedraw ==
  /\ Running /\ ChromeRedraws
  /\ \E open \in BOOLEAN :
     LET v == RefreshGeometry(view)
     IN  view' = [v EXCEPT !.chrome = [v.chrome EXCEPT !.panelOpen = open, !.stale = TRUE,
                                                       !.pending = TRUE, !.source = TRUE]]

(* A chrome redraw that was submitted waits for its flip like a frame. *)
ChromeRedrawn(r) ==
  IF r.ok
    THEN [CompleteSynchronous([r.v EXCEPT !.update.flags = @ \cup {"BufferUpdateRequested"}])
            EXCEPT !.chrome.pending = FALSE]
    ELSE r.v

(* Mutation: any base page will do. *)
RedrawChrome_AnyBase(v) == {ChromeRedrawn(r) : r \in RequestUpdate(v)}

(* Redraw the chrome over a base page that is current, or made so. *)
RedrawChrome(v) ==
  UNION {IF base.ok THEN {ChromeRedrawn(r) : r \in RequestUpdate(base.v)} ELSE {base.v} :
           base \in IF v.chrome.baseGeneration = v.chrome.generation
                      THEN {[v |-> v, ok |-> TRUE]} ELSE CaptureBase(v)}

(* wpeViewDRMChromeTick: redraw the chrome by itself unless a web frame that *)
(* will carry it is on its way; tick again while animating or held back.     *)
ChromeTick ==
  /\ Running /\ view.chrome.source
  /\ \E animating \in {FALSE, view.chrome.panelOpen} :
     LET v == [RefreshGeometry(view) EXCEPT
                 !.chrome.pending = @ \/ animating \/ view.update.resized]
         waiting == WebFrameWaiting(v) \/ v.update.flags \cap Requested # {}
     IN  \E w \in IF v.chrome.pending /\ v.queue.committedBuffer # None /\ ~waiting
                    THEN RedrawChrome(v) ELSE {v} :
           view' = [w EXCEPT !.chrome.source = animating \/ (w.chrome.pending /\ waiting)]

(* wpe_view_drm_trim_caches. *)
TrimCaches ==
  /\ Running
  /\ view.queue.pendingBuffer = None /\ view.scanout.pending = None /\ view.queue.queuedBuffer = None
  /\ "BufferUpdateRequested" \notin view.update.flags
  /\ \E critical \in BOOLEAN :
       LET prepared == [view.chrome EXCEPT !.preparedGeneration = 0, !.preparedPage = 0]
       IN  view' = [view EXCEPT !.chrome =
             IF critical /\ ~view.chrome.pending /\ ~view.chrome.panelOpen
               THEN [prepared EXCEPT !.basePage = 0, !.baseGeneration = 0] ELSE prepared]

(* The toplevel, or the height of the web content, changes size. *)
Resize ==
  /\ Running /\ ~view.update.resized /\ view.queue.geometryEpoch < MaxEpoch
  /\ view' = [view EXCEPT !.update.resized = TRUE]

(* The buffers the queue holds. *)
Held(v) == {v.queue.queuedBuffer, v.queue.pendingBuffer, v.queue.committedBuffer} \ {None}

(* renderingComplete: the fence the view still has for b, if any, is done. *)
RenderingComplete(v, b) ==
  ProbeFence(v, IF b = v.queue.pendingBuffer THEN v.fences.pending ELSE b \in v.fences.held, b)
    = "Ready"

(* The view after its buffers in "released" were given back and everything  *)
(* else it held was forgotten; the plane shows "screen" from then on.       *)
Disposed(v, released, screen) ==
  [v EXCEPT
     !.ledger = [v.ledger EXCEPT
                   !.lent = @ \ released, !.repeated = @ \cup (released \ v.ledger.lent),
                   !.early = @ \cup {b \in released : v.fences.work[b] = "Pending"}],
     !.fences = [v.fences EXCEPT !.held = @ \ Held(v), !.quarantine = {},
                                 !.pending = FALSE, !.taken = FALSE],
     !.queue = [v.queue EXCEPT !.queuedBuffer = None, !.pendingBuffer = None,
                               !.committedBuffer = None],
     !.scanout = [v.scanout EXCEPT !.pending = None, !.committed = None],
     !.update = [v.update EXCEPT !.flags = {}, !.fenceWait = FALSE,
                                 !.throttleSource = FALSE, !.cursorTimer = FALSE],
     !.chrome.source = FALSE,
     !.kms = [busy |-> FALSE, next |-> None, screen |-> screen],
     !.disposed = TRUE]

(* wpeViewDRMDispose: disable the plane (which waits for an outstanding     *)
(* flip), then release what the GPU and the plane are both done with; a     *)
(* plane that could not be disabled keeps every buffer.                     *)
Dispose ==
  /\ Running
  /\ \/ /\ view.kms.busy => CanFlip
        /\ view' = Disposed(view, {b \in Held(view) : RenderingComplete(view, b)}, None)
     \/ view' = Disposed(view, {}, IF view.kms.busy THEN view.kms.next ELSE view.kms.screen)

(* What the view does for pages and chrome; without a cursor plane it does   *)
(* nothing else.                                                            *)
PageNext ==
  \/ \E b \in Buffers : \/ GPUSettles(b)
                        \/ RenderBuffer(b)
                        \/ QuarantineSettles(b)
  \/ FenceWaitEnds
  \/ ThrottleFires
  \/ PageFlip
  \/ RequestChromeRedraw
  \/ ChromeTick
  \/ TrimCaches
  \/ Resize
  \/ Dispose

Next == PageNext \/ UpdateCursor \/ CursorTimer

Spec == Init /\ [][Next]_view

(* GLib dispatches every ready source in the end, a rendering fence settles  *)
(* or its deadline passes, the display engine completes what it accepted.   *)
(* The last three conjuncts are weak fairness too: each guard is equivalent *)
(* to ENABLED of its action, and TLC evaluates it much faster.              *)
Fairness ==
  /\ \A b \in Buffers : WF_view(GPUSettles(b))
  /\ []<>~FenceWaitReady \/ []<><<FenceWaitEnds>>_view
  /\ []<>~ThrottleReady \/ []<><<ThrottleFires>>_view
  /\ []<>~FlipReady \/ []<><<PageFlip>>_view
-----------------------------------------------------------------------------
(* What must be right. *)

(* Every buffer taken from the producer is in exactly one place, queued,     *)
(* pending, committed or in quarantine, until it is released; neither the   *)
(* release nor the end of a frame is ever reported twice.  A buffer dropped *)
(* from two places would be drawn into while it is still used; one that is  *)
(* forgotten shrinks the producer's swapchain for good.                     *)
BufferOwnership ==
  ~view.disposed =>
    /\ view.ledger.lent = Held(view) \cup view.fences.quarantine
    /\ Held(view) \cap view.fences.quarantine = {}
    /\ view.queue.pendingBuffer # None =>
         view.queue.pendingBuffer \notin {view.queue.queuedBuffer, view.queue.committedBuffer}
    /\ view.queue.queuedBuffer # None => view.queue.queuedBuffer # view.queue.committedBuffer
    /\ view.ledger.repeated = {}

(* No buffer goes back to the producer while the GPU still draws into it,   *)
(* whichever way its frame ends: shown, replaced in the queue, refused by   *)
(* KMS, timed out on its fence, obsolete, or held when the view is disposed. *)
NoEarlyRelease == view.ledger.early = {}

(* The quarantine of discarded sources never overflows (g_error in          *)
(* retireDiscardedBuffer), however many fences never signal.                *)
QuarantineSuffices == view.fault # "quarantine"

(* The RELEASE_ASSERTs on the phase of the pending ticket never fail.       *)
TicketPhasesAgree == view.fault # "assert"

(* A frame that waits in the queue has a wake-up on its way: its fence, the *)
(* page flip of the commit it is in or behind, or the throttle.  No handler *)
(* returns with a frame left behind and nothing armed.                      *)
WakeupArmed ==
  Running =>
    /\ view.kms.busy => view.update.flags \cap Requested # {}
    /\ view.queue.pendingBuffer # None =>
         /\ "BufferUpdateRequested" \in view.update.flags
         /\ view.update.fenceWait \/ view.kms.busy
    /\ view.queue.queuedBuffer # None =>
         \/ view.update.throttleSource \/ view.update.fenceWait
         \/ view.kms.busy /\ "BufferUpdatePending" \in view.update.flags

(* Whatever is shown is finished: the GPU is done with the committed buffer, *)
(* whether it is on the screen itself or was copied there.                  *)
ShownFramesFinished ==
  Running /\ view.queue.committedBuffer # None =>
    view.fences.work[view.queue.committedBuffer] # "Pending"

(* While no flip is outstanding and no fence is waited for, the next frame  *)
(* finds a slot it may be copied into.                                      *)
SpareTarget ==
  Running /\ ~view.kms.busy /\ ~view.update.fenceWait => WritableSlots(view) # {}

(* What the display engine scans out, or will from the next flip on, is     *)
(* marked as owned, so no copy may write it.                                *)
ScanoutOwned == {view.kms.screen, view.kms.next} \ {None} \subseteq view.scanout.owned

(* The ownership of the copy targets errs on neither side: what is scanned  *)
(* out is never free for a copy, and a copy that may start finds a slot.    *)
TargetsOwned == ScanoutOwned /\ SpareTarget

(* A step never draws into a target the display engine may be reading: one  *)
(* it will flip to, or one that stays on the screen.                        *)
KeepsWhatIsScanned ==
  \A t \in Targets :
    t = view.kms.next \/ (t = view.kms.screen /\ t = view'.kms.screen)
    => view'.scanout.frame[t] = view.scanout.frame[t]

(* The page on the screen, 0 before the first. *)
PageShown(v) == IF v.kms.screen = None THEN 0 ELSE v.scanout.frame[v.kms.screen]

(* Neither that, nor does the screen ever go back to an older page or to an  *)
(* incomplete copy: not by chrome redraws, aborted commits or the sources    *)
(* that are retained for them.                                              *)
NoTearing ==
  [][/\ KeepsWhatIsScanned
     /\ ~view'.disposed => PageShown(view) <= PageShown(view')]_view

(* Between flips the screen shows the page of the buffer that is retained   *)
(* as committed, the one chrome redraws are rebuilt from.                   *)
ScreenIsCommitted ==
  Running /\ ~view.kms.busy =>
    PageShown(view) = view.queue.committedTicket.serial

(* A chrome base whose generation is current is a copy of the committed     *)
(* page: the generations that guard base pages name the right page.         *)
ChromeBaseCurrent ==
  ~view.disposed /\ view.chrome.baseGeneration # 0
    /\ view.chrome.baseGeneration = view.chrome.generation
  => view.chrome.basePage = view.queue.committedTicket.serial

(* Screen, retained buffer and chrome base agree on the page, through every *)
(* order of frames, chrome redraws, cache trims and aborted commits.        *)
ScreenIsCurrent == ScreenIsCommitted /\ ChromeBaseCurrent

(* A frame drawn for an older geometry is discarded, never submitted, no    *)
(* matter how long it was queued or waited for its fence.                   *)
Submits(v, w) ==
  /\ w.queue.pendingTicket.phase = "Submitted"
  /\ v.queue.pendingTicket # w.queue.pendingTicket
NoObsoleteSubmit ==
  [][Submits(view, view') =>
       view'.queue.pendingTicket.epoch = view'.queue.geometryEpoch]_view

(* Frame n is in the queue. *)
Waiting(n) ==
  \/ view.queue.queuedBuffer # None /\ view.queue.queuedTicket.serial = n
  \/ view.queue.pendingBuffer # None /\ view.queue.pendingTicket.serial = n

-----------------------------------------------------------------------------
(* The queue keeps the promise of FrameLending.  A pending or queued buffer  *)
(* with its ticket is a waiting frame, the committed one is the frame shown, *)
(* the quarantine is what retires, the producer's ledger is what is lent.   *)
FrameOf(buffer, ticket) ==
  {[buffer |-> b, serial |-> ticket.serial] : b \in {buffer} \ {None}}

Lending == INSTANCE FrameLending WITH
  waiting  <- FrameOf(view.queue.pendingBuffer, view.queue.pendingTicket)
                \cup FrameOf(view.queue.queuedBuffer, view.queue.queuedTicket),
  shown    <- FrameOf(view.queue.committedBuffer, view.queue.committedTicket),
  retiring <- view.fences.quarantine,
  accepted <- view.queue.nextFrameSerial,
  lent     <- view.ledger.lent,
  closed   <- view.disposed

(* Every behaviour of the queue is one of FrameLending: frames are shown in  *)
(* the order they were accepted, a buffer is lent for as long as the queue   *)
(* still needs it and no longer, whatever interleaving of flips, fences,     *)
(* timers and failures the handlers meet.                                    *)
LendsAsPromised == Lending!Spec
=============================================================================
