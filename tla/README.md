# A TLA+ verification development for the WPE DRM browser

The repository is a browser for Rockchip dictionary pens: WPE WebKit with its
own platform layer that drives the display through DRM/KMS (`src/wpe-drm/`), a
MiniApp page that embeds it (`src/src/`), and a native module between the two
(`src/jsapi/src/jsapi_browser/`). This directory holds TLA+ models of its
concurrent and failure-prone parts, the TLC configurations that check them and
TLAPS proofs about them. Paths below are relative to `src/` unless they start
with `src/`.

## The system

### Components and how they meet

```
 MiniApp page (JS)                   frame.vue, browser-lifecycle.js, keyboard-bridge.js
   | calls                              | files in /tmp: keyboard requests and answers
 JSAPI module (C++)                     |
   | fork, signals, pid file,           |
   | exit-status file                   |
 run.sh supervisor  ---- launches ----> wpe-drm-minimal (UI process)
   | loads GPU modules                  |   profile store (SQLite), session, crash fuse,
   v                                    |   touch gestures, chrome model and publisher
 gpu-runtime.sh helper                  |
                                        |-- frame queue and presentation (WPEViewDRM)
                                        |      ^ buffers, fences      | KMS commits, flips
                                        |   WPE WebKit WebProcess     v display engine
                                        |-- video overlay (VideoOverlay.cpp)
                                               ^ SOCK_SEQPACKET: frames, rectangles, hide
                                               v releases, close confirmation
                                            hole-punch sink (WebProcess, GStreamer)
```

| Component | State it keeps | Operations | What is hard | What makes it correct |
|---|---|---|---|---|
| **Frame queue** `WPEViewDRM.cpp`, `DRMFrameQueue.cpp`, `DRMScanoutBuffer.cpp`, `RenderingFence*.h`, `DRMFrameLifecycle.h` | pending, queued and committed buffer, their tickets, scanout targets, fences, quarantine, chrome base pages, timers | hand-over, page flip, fence wait ends, throttle, cursor, chrome redraw, trim, resize, dispose | page flips carry no identity; fences time out, fail or come late; commits fail half way; three copies of "which frame is shown" | no buffer back while the GPU or the display uses it, none lost or reported twice, no frame left without a wake-up, no tearing, no older page shown again |
| **Video overlay** `VideoOverlay.cpp`, `GStreamerHolePunchQuirkRockchip.cpp`, `VideoOverlayWire.h`, `VideoReleaseQueue.h` | WebProcess: socket, samples in flight, close request, pending control packet. UI process: client, backlog of releases, current and deferred frame, disable and close requests | send frame, rectangle, release of the sink; accept, read, write, retry, page flip, stop | two processes; sockets full or broken; a disable KMS refuses; a client replaced while its frame is scanned out | no sample back while it may be scanned out, close confirmed last, nothing lost, clean hand-over between clients |
| **Lifecycle of the page** `src/utils/browser-lifecycle.js`, `src/pages/frame` | started, leaving, restart timer, start token, watchdog | show, hide, start, watchdog tick, leave | answers of asynchronous calls after the page moved on | at most one browser, none after leaving, restart after rotation |
| **Supervisor** `wpe-drm/run.sh`, `runtime/gpu-runtime.sh` | browser pid, terminating flag, GPU modules owned | launch loop, exit-code dispatch, CPU fallback, SIGTERM | a signal between two launches, ownership of kernel modules over failures | modules unloaded by their owner only, no launch after termination |
| **Native process control** `JSBrowser.cpp`, `BrowserProcessIdentity.cpp` | identity file, exit status | start, stop, status | stale identities, bounded waits, races with the supervisor's exit | signals only reach the process that was started |
| **Keyboard bridge** `keyboard-bridge.js`, `keyboard.js`, `JSBrowser.cpp`, `wpe-drm-minimal.c` 2051-2794 | request, update, response and status files; session and sequence numbers; backends and their timers | open, update, confirm, cancel, expire, fall back | two polling processes, files in a fixed order, time-outs, restarts of either side, documents that go away | one keyboard, the confirmed text is what is acted on, each session ends |
| **Profile store** `browser-profile-store.c` | SQLite database with its log, snapshot, backup, pending deletion, directories | open, recover, migrate, create, switch, delete | a crash between any two steps of recovery or deletion | no profile sees another one's data, a damaged database is kept |
| **Session and crash fuse** `wpe-drm-minimal.c` | tabs, save timer, reload request, crash counters | save, restore, load, process terminated, reload | partial restores, merged saves, windows of time | stored tabs are not overwritten, what was open is found again, no reload after a memory kill |
| **Memory governor** `browser-memory-policy.c`, `memory-runtime.sh` | profile, level of pressure, two clocks | choose a profile, tick | hysteresis over three amounts, late and failed readings | pressure answered at once, eased slowly, ended |
| **Touch pipeline** `browser-touch-gesture.c`, `wpe-drm-minimal.c` | slots, frames held back, gesture state, streams of page and game | report, hold time-out, resynchronise | speculation, withdrawal and replay | each stream begins and ends once, each touch is delivered once |
| **Chrome** `wpe-drm-minimal.c`, `ChromeRenderer.cpp`, `browser-chrome-publisher.c` | toolbar, panels, rows, snapshot, animation, layout | taps, drags, scrolls, gesture, full screen, games, publishing | handlers that publish but do not lay out, two geometries of the same rows | what is shown has room, what is drawn is what a tap does |
| **Composition** `DRMScanoutBuffer.cpp`, `DRMGeometry.cpp`, `RockchipRGA.h`, `DMABufCPUAccess.h`, `ChromeRenderer.cpp` | scanout targets, clean bases, copy engine's state | turn, fill, punch, draw, fall back | four rotations, five forms of one mapping, faults half way, cached bases | a whole picture of the right page at the right place |
| **From panel to page and back** `display-resolver.js`, `BrowserDisplayConfig.cpp`, `run.sh`, `VideoOverlay.cpp`, `wpe-drm-minimal.c` | display-mode file, environment of the browser | resolve, launch, choose a mode | the same geometry computed in six places | a finger reaches the pixel it is on, a video its hole |
| Display and toplevel; navigation and search; patches; build scripts; vendored runtime | configuration and data | set-up, parsing | none that is concurrent | not modelled, see the end |

Within a process each component runs on one GLib main loop, so a handler is
atomic; the concurrency is between handlers (flips, fences, timers, sockets,
calls from WebKit) and between processes (sockets, files, signals).

### Modules

| Module | What it is |
|---|---|
| `FrameTicket` | the phases of a frame and which moves `DRMFrameLifecycle.h` allows |
| `DRMFrameQueue` | the view, its queue, fences, scanout targets and chrome bases |
| `FrameLending` | abstract: what the queue promises the producer of buffers |
| `DRMFrameQueueProofs` | its proofs: the ledger; phases, fences, wake-ups, targets; pages and lending |
| `PanelRotation` | the five forms of the mapping between panel and turned framebuffer |
| `FrameComposition` | what the pixels of a scanout target are made of |
| `MCFrameQueue`, `MCFrameVariants`, `MCFrameLive` | instances of queue and composition for TLC |
| `VideoOverlay` | both ends of the video channel, the sockets and the plane |
| `SampleLending` | abstract: what the overlay promises the decoder |
| `VideoOverlayBooks`, `VideoOverlayProofs` | the invariant of samples and sockets; the handlers keep it |
| `MCVideoOverlay` | instances of the overlay for TLC |
| `Supervisor` | run.sh, the browser as it sees it, the kernel modules, the files |
| `BrowserLifecycle` | the page and the native calls, over `Supervisor` |
| `BrowserLifecycleProofs` | its inductive invariant and theorems |
| `KeyboardPage` | the page's side of the keyboard |
| `KeyboardBridge` | the browser's side and the script in the web page, over `KeyboardPage` |
| `KeyboardProofs` | that there is one keyboard, and that the confirmed text is final, over `KeyboardBridge` |
| `MCKeyboard` | instances of the keyboard for TLC |
| `ProfileStore`, `ProfileStoreProofs` | the profile database, its recovery and the directories |
| `BrowserSession`, `BrowserSessionProofs` | tabs, saves, restoring, loads, crashes and memory kills |
| `TouchInput` | reports, the gesture recogniser, the streams of page and game |
| `ChromeToolbar` | who shows and hides the toolbar, what is published and laid out |
| `ChromeGeometry` | where rows and buttons are drawn and where they are hit |
| `ChromePanels` | the rows of the panels, their taps, drags and settings |
| `DisplayResolver` | size and rotations, as page and native side compute them |
| `PanelMapping` | launches in a mode, and where picture, video and finger then lie |
| `MemoryGovernor` | the memory profile, the level of pressure, the trimming of caches |
| `MCBrowserParts` | instances of the seven parts from `ProfileStore` on for TLC |
| `BrowserPartsProofs` | toolbar and governor; the theorems of the parts, for the run of them |

`BrowserLifecycle` EXTENDS `Supervisor` and `KeyboardBridge` EXTENDS
`KeyboardPage`: the two sides share files, so their steps interleave in one
state. `ChromePanels` EXTENDS `ChromeGeometry`, `PanelMapping` EXTENDS
`DisplayResolver`; `PanelRotation` is used by the composition and by the mapping,
so that a picture and a finger on it are related by the same arithmetic only
where the code does that too.

`DRMFrameQueue` and `VideoOverlay` meet in one field of the code,
`atomicInFlight`, which the commits of the view set and its page flip clears,
and in the call of `videoOverlayDrainPending` from `wpeViewDRMDidPageFlip`. The
overlay module takes these two as the actions `PageCommit` and `PageFlip` of an
environment that commits pages at any time; the frame queue never waits for the
overlay, so nothing has to be assumed in the other direction.

## The frame queue

### Correspondence

The variable `view` is the private struct of the view as a record of groups
(`queue`, `update`, `scanout`, `fences`, `chrome`) with the environment next to
it: `kms` (the commit whose flip is outstanding and what is on the screen),
`fences.work` (what the GPU is really doing with a buffer) and `ledger` (what
the producer has been told). An operator on views is one C++ function; where
the kernel, the copy engine or the allocator decides, it returns the set of
views the function may leave. An action is one entry point of the main loop:

| Action | Code |
|---|---|
| `RenderBuffer(b)` | `wpeViewDRMRenderBuffer`, with `QueueBuffer`, `RequestUpdate` and everything they call |
| `PageFlip` | `wpeViewDRMDidPageFlip` |
| `FenceWaitEnds` | `renderingFenceFinished`: signalled, failed or past its deadline |
| `QuarantineSettles(b)` | `RenderingFenceRetirement::dispatch` |
| `ThrottleFires`, `CursorTimer` | the timeout sources of the frame throttle and the cursor |
| `UpdateCursor` | `wpeViewDRMUpdateCursor` |
| `RequestChromeRedraw`, `ChromeTick` | `wpe_view_drm_request_chrome_redraw`, `wpeViewDRMChromeTick` |
| `TrimCaches` | `wpe_view_drm_trim_caches` |
| `Resize` | the toplevel is resized: a new geometry epoch |
| `Dispose` | `wpeViewDRMDispose` |
| `GPUSettles(b)` | the GPU finishes, or loses, the work on a buffer |

A page is the serial of its frame; a copy that fails or is interrupted leaves
page 0. Damage rectangles, formats and statistics are left out. `RELEASE_ASSERT`
and `g_error` set `fault`, after which nothing happens.

### Runs

* **queue_device**: the configuration the device runs: copying into two slots,
  asynchronous atomic commits, throttled, no cursor plane; three buffers, three
  frames, two geometry epochs, chrome redraws at any time. Its specification,
  `DeviceSpec`, takes `PageNext` alone: the two cursor actions of `Next` are
  never enabled without a cursor plane, and `queue_variants` fires them.
  It shows ownership (`BufferOwnership`, `NoEarlyRelease`,
  `QuarantineSuffices`), wake-ups (`WakeupArmed`), agreement with the hardware
  (`TicketPhasesAgree`, `TargetsOwned`, `ScreenIsCurrent`,
  `ShownFramesFinished`), that no step tears the picture or shows an older page
  again (`NoTearing`), that no frame of an older geometry is submitted
  (`NoObsoleteSubmit`) and the refinement of `FrameLending`
  (`LendsAsPromised`).
* **queue_variants**: the same questions, where they make sense, for
  synchronous commits, legacy page flips, direct scanout and a cursor plane
  (`SafeInEveryMode`), with a variable `mode` that never changes. Wake-ups and
  agreement with the screen are not claimed with a cursor plane: see the second
  finding. In the mode `pixels` it runs `FrameComposition` instead
  (`PictureRight`), described below.
* **queue_live**: `FramesSettle`: each accepted frame leaves the queue, for a
  free producer, and a producer that waits for FrameDone is answered, with
  fences that fail. The second part also shows that a frame replaced in the
  queue, which is released without FrameDone (`tools/GPU_FRAME_SYNC.md:19` reads
  otherwise), leaves nobody waiting: a paced producer has no frame in the queue
  to be replaced.
* **direct_in_fence, cursor_assert**: findings, below.

**Bounds.** Three buffers fill every place of the queue at once (queued,
pending, committed) and a fourth frame would repeat one of these
configurations; two slots are what the code allocates. Three frames (`MaxSerial`)
give a frame that is replaced in the queue, one that fails or waits on its
fence and one shown before them. Two epochs give frames older than the geometry.
`MaxRetained` is 3 in place of 4 to make an overflow of the quarantine as
reachable as the code makes it: as many discarded buffers as there are buffers.
`CHECK_DEADLOCK FALSE`: a disposed or faulted view stops, and so does one whose
bounds are used up.

**Fairness** (`Fairness`): the GPU finishes or fails, or the deadline of the
fence passes (the code arms a timer for it); GLib dispatches a source that is
ready; KMS delivers the flip of a commit it accepted. Nothing is assumed of the
producer, the chrome or the cursor. Three conjuncts are written
`[]<>~Ready \/ []<><<Action>>_view`, which is weak fairness since `Ready` is
equivalent to the action being enabled.

### Proofs

`DRMFrameQueueProofs` proves for every number of buffers, slots, frames and
epochs and for every configuration of the display:

* `TypeCorrect`: `Spec => []TypeOK`
* `OwnershipKept`: `Spec => []BufferOwnership`
* `QuarantineNeverOverflows`: `Spec => []QuarantineSuffices`
* `Invariance`: `Spec => []IInv`, which the three rest on.

`BufferOwnership` is not inductive: whether a buffer can be released twice
depends on the tickets, and whether one handed over is already held depends on
the ledger. `IInv` adds the type, that the quarantine has not overflowed, and
`Settled`: the view is *consistent* (lent buffers are exactly the held and the
quarantined ones, in distinct places, and reports that are due match the
`rendered` marks of the tickets) and *pends* (a pending buffer exists only
while its update is requested), except after disposal. Each C++ function has an
effect lemma (`RetireEffect`, `AbortConsistent`, `FinishConsistent`,
`UpdateWebFrameAnswer`, ...) in terms of `Consistent`, and `Invariance` has one
step per action over these lemmas. The quarantine cannot overflow because its
buffers are lent, distinct and disjoint from the one that is being retired, so
that there are at most `Cardinality(Buffers) - 1` of them; this uses
`QueueAssumption`, that the swapchain has at most `maximumRetained` buffers.
That assumption is about WebKit: nothing in `src/wpe-drm` enforces it.

The second part of the module is about what a frame passes through:

* `PhaseInvariance`: `Spec => [](IInv /\ PInv)`, which the others rest on.
* `PhasesAgree`, `WakeupsArmed`, `ObsoleteDiscarded`: the assertions on the phase of
  the pending ticket hold, a frame that waits has something that will wake the view,
  and nothing of an old geometry is submitted.
* `NoneReleasedEarly`, `ShownFinished`: the GPU is done with what is given back or shown.
* `SlotsOwned`: what the display engine reads is never written or given up.

They are about a display without a cursor plane: with one the first step towards
`PInv` fails, and that is the finding `cursor_assert`. The two about the GPU assume
`FenceNeeded`, that the view waits for fences itself; where the kernel takes the fence
they fail, which is the finding `direct_in_fence`. `SlotsOwned` assumes two slots, for
with one the copy path draws into what is on the screen. `PInv` holds between two
handlers. Within one, `Books` (the queued and the committed frame) and `Screened` (what
the display reads) hold throughout; what is known of the pending frame depends on the
place, so that there is a predicate for before `RequestUpdate` (`Asked`) and one for
after it (`Decided`), and each function of the code has a lemma from one to the other.

The third part is about pages and lending, on such a display too:

* `PageInvariance`: `Spec => [](IInv /\ PInv /\ CInv)`.
* `NeverTears`: `NoTearing`. No handler draws into what the display engine reads, and the
  screen never goes back to an older page.
* `ScreenAgrees`: `ScreenIsCurrent`. Between flips the screen shows the page retained as
  committed, and a chrome base of the current generation is a copy of it.
* `LendingKept`: `Spec => LendsAsPromised`, the refinement of `FrameLending`.

`CInv` says which target holds which page: frames wait in the order they were accepted
(`Ordered`), the target on the screen holds the committed page and the submitted one the
page to come (`Drawn`), bases are copies of the committed page (`Based`), a frame is in a slot
or scanned out directly (`InPlace`), and with synchronous commits only a commit without a page
waits for a flip (`Blank`). Inside a handler `Steady` (at most the pending frame is dropped),
`Moves` (the page on the screen is not drawn over, and only a synchronous commit replaces it)
and `Rests` (frames, targets and display stay) carry it from function to function. For the
refinement each function is a step of `FrameLending` or a stutter (`FrameStep`); two in one
handler make one step as long as only one of them shows a frame (`FrameStepTwice`).

Left to TLC: `SafeInEveryMode` with a cursor plane, `PictureRight`, which is about the pixels of
`FrameComposition`, and liveness (`FramesSettle`), which is out of the prover's reach.

## Composition

`FrameComposition` says what a scanout target shows: page, black margins, hole,
toolbar and panel, for each of 24 panel points chosen at the edges of everything
that moves. A picture maps each point to what is there; `PanelRotation` gives
the five ways the code computes where a point lies in the turned framebuffer.
Each C++ function that writes pixels is an operator on the work in progress (`w`),
a record with the target, the access of the CPU, the state of the copy engine
and whether the function has failed; a fault is one of the calls named in
`Faults`, and what a failed blit leaves is garbage. Actions are the arrival of a
frame (the queue is idle then), the flip, the tick of the chrome, the toolbar and
the panel shown or hidden, the layout that follows, a video that moves, the end
of the animation and the trimming of caches.

`PictureRight` says: pixels are touched within CPU access only; the target that
is shown or submitted has the page, the hole and the chrome of its snapshot at
their places; a clean base is a clean page; and when nothing is under way, what is
on the screen is what the state of the chrome asks for (`Settled`). `Settled` excuses
injected faults, a composition that failed for another reason, and a redraw the
code is known to lose (`late`): `DidPageFlip` overwrites the wish for another tick
(`DRMFrameQueue.cpp:56`), so that a frame in flight when an animation ends can stay
a toolbar's height low until WebKit's next frame, against the comment at
`ChromeRenderer.cpp:489`; and `refreshContentGeometry` (`WPEViewDRM.cpp:41`) looks
at the height of the page on the screen, so that a base prepared for a frame of
another height may carry an inset that is not the one recorded.

Eight configurations, `Devices` in `MCFrameVariants`: four rotations, DMA-BUF and
SHM pages, with and without alpha, a copy engine that works, is off, is required, or
is broken (three failures disable it). A panel of 64 x 96 with a toolbar of 24
has every case the arithmetic tells apart (full, short, shorter by one row, and
narrow pages); time is what the animation makes of it: drawn in its last part as at
its end. Left out: the clock read twice in one tick, damage, colours and
glyphs, the progress bar, the highlight of a pressed button, direct scanout.

Noticed while modelling: the hole and the video plane use the reserved inset, the
page the inset of the frame, so that during the hide animation the hole lies a
toolbar's height above its element; a hole that moves arms no tick and stays
until the next frame (comment at `VideoOverlay.cpp:603`); a UI redraw that fails
leaves the wish pending without a tick; below a short page the copy engine leaves
black where the CPU repeats the last row.

## The video overlay

### Correspondence

`web` is `RockchipVideoOverlayChannel` of the WebProcess (each method holds its
lock, so each is a step), `sockets` the connections, numbered in the order they
are made, and `overlay` the `VideoOverlayState` of the UI process. The functions
of the UI process call each other in ways that matter (a send that fails inside
a flush drops the client inside a release inside a drain), so each is an
operator from a state of overlay and sockets to the set of states it may leave.
The callback that reads the socket takes one step for each packet
(`ClientEvent`, `ReadPacket`, `ReadDrained`, `ReadEnds`), because the WebProcess
writes meanwhile; every other handler is one step.

| Action | Code |
|---|---|
| `SendFrame`, `SetRectangle`, `ReleaseOwner` | `sendFrame`, `setRectangle`, `release` of the channel; the rectangle of a frame is read under another lock and may be older or newer than the one last set |
| `RepliesReady`, `ControlReady` | its two sources |
| `Accept`, `ClientEvent`, `ReadPacket`, `ReadDrained`, `ReadEnds` | `videoOverlayAccept`, `videoOverlayClientEvent` |
| `ReleaseWritable`, `RetryDrain`, `PageFlip`, `LayoutChanges` | the release writer, the 16 ms timer, the drain after a flip, the recommit of `wpeViewDRMChromeTick` |
| `Stop`, `Aborted` | `videoOverlayStop`; `g_error` after two seconds of refused disables |
| `Crash` | the WebProcess ends and a new one is started |

A rectangle is one of `shown`, `other` (shown elsewhere), `clipped` (off the
screen: the plane is hidden, the frame retained) and `empty`, the four cases
`videoOverlayCommit` tells apart. KMS may refuse any commit, with EBUSY or
another error; importing a frame or duplicating its descriptors may fail.

### Runs

* **video_overlay**: two situations. In *layout* the rectangle changes while the
  sockets hold a single packet, so that frames are dropped, control packets wait
  and releases queue up. In *crash* the WebProcess may crash at any time and a
  new one, with the same sequence numbers, connects.
  `ScanoutRetained`, `LendsSamples` (the refinement of `SampleLending`) and
  `CloseInOrder`: nothing is given back that may still be scanned out.
  `SamplesAccounted`: each sample is in one place, and the backlog suffices.
  `CleanHandover`: what a client left behind touches nothing of the next one.
  Under fairness `ChannelSettles`: a close is confirmed, so that the next video
  can be shown, and samples come back, so that the decoder does not starve.
* **video_rectangle_settles**: a finding, below.

**Bounds.** Two samples in flight (the code has four) and three sequence numbers
give a current, a deferred and a batched frame two at a time and a close
request after them; two connections give a client and its successor. The sockets
hold one packet in *layout*. In *crash* the socket towards the WebProcess holds
three, all that can be outstanding, as the queue of the kernel does (ten packets
for at most five); with less room a writer source that was armed for a dropped
client can keep the releases of the next one from being sent, see the hazard at
`VideoOverlay.cpp:308`. `CHECK_DEADLOCK FALSE`: after `Stop`, after the abort and
at the bounds nothing happens any more.

**Fairness**: as for the queue, GLib dispatches what stays ready, although not
while it is inside another callback, and callbacks return (the reading loop does
not go on for ever); a flip follows every commit of the view; KMS does not refuse
the same retried commit for ever, or the two seconds pass.

### Proofs

`VideoOverlayBooks` and `VideoOverlayProofs`, for any number of samples, sequence numbers,
connections, sinks and rectangles, any room in the sockets, and with crashes or without:

* `OverlayInvariance`: `Spec => []IInv`, which the others rest on.
* `ScanoutSafety` (`ScanoutRetained`), `AccountSafety` (`SamplesAccounted`), `CloseSafety`
  (`CloseInOrder`), `HandoverSafety` (`CleanHandover`).
* `SamplesLent`: `Spec => LendsSamples`, the refinement of `SampleLending`.

They rest on the two assumptions of `VideoOverlay`. `OverlayAssumption` has it that fewer samples
are in flight than the queue of releases has places: the code has
`maximumInFlightSamples = 4` (`GStreamerHolePunchQuirkRockchip.cpp:48`) and 64 places
(`VideoReleaseQueue.h:20`). `NullAssumption` says that `None` is no frame, packet or reply.

The functions of the UI process call each other half way through their work, so that no
invariant of states alone can be carried through a handler. The invariant is one of values
instead: `Books(ch, s, q, X, g)` relates the channel `ch`, the sockets `s`, what is left of
the client `q`, the set `X` of frames held and the confirmation `g` still owed, and a function
that has taken a frame out of the state and not yet released it has it in `X`. `Books` says
which end of which connection is open and what may be on its way (`Safe`); that each sample in
flight is unread, held or being released, and released once (`AccountOK`); what may name a
close request (`NamesOK`), that it is in one place (`OnceOK`) and confirmed after all
releases (`ConfirmedLast`). Each thing done to a channel, a socket or a client has a lemma
in `VideoOverlayBooks` (`PopKeeps`, `SendKeeps`, `ConnectKeeps`, `FlushKeeps`, ...); each
function of the code has one in `VideoOverlayProofs`, from `Good` to `Good`, and each
action its step. The backlog stays below its limit because its releases are of
distinct samples in flight (`QueueFits`).

Left to TLC: `ChannelSettles`, which is liveness.

## The page, the supervisor and the native calls

### Correspondence

`page` is the component of `frame.vue` with its `BrowserLifecycle`, `call` the native
call the JavaScript thread is blocked in, `pidFile` the identity file, `sup[s]` the
s-th execution of `run.sh` (its place in the script, its trap flag, the modules it
owns), `browser[s]` the browser it launched last, `kernel` the two modules of the GPU
and `files` the display mode, the GPU mode, the ready marker and the exit status.

| Actions | Code |
|---|---|
| `Timers`: `StartTimer`, `Watch`, `RotationTimer`, `NavigationTimer`, `Inactive`, `HideTimer` | the timers of `browser-lifecycle.js` and `frame.vue` |
| `Promises` | what an `await` of a start, a return or a leave comes back to, with the token it began with |
| `Native` | `startBrowser`, `stopBrowser`, `isBrowserRunning`, `consumeBrowserExitStatus`, one step for each look at a file or process and each signal |
| `User` | `Mount`, `OnShow`, `OnHide`, `OnUnload`, the keyboard that opens and closes, the death of the MiniApp |
| `FirstFrame(s)`, `BrowserEnds(s)`, `UserRestarts(s)` | what the browser does by itself: draws, exits or crashes, leaves for another mode, GPU mode or profile |
| `ShellStep(s)` | `run.sh` and `gpu-runtime.sh`, one step per launch, wait, trap, module, file; a trap is taken before the next step |

### Run browser_lifecycle

`OneOfEach` (with the types): the identity file names the one shell that runs, there
is one browser, and a start that reaches the native call is the only one under way,
for a page that wants it. `StopsEverything`: a page that is hidden, leaving or gone has
no shell, and at most a browser that was told to quit. `StatusOfThisRun`: the watchdog
consumes the status of the last run. `ModulesOwned`: a shell never unloads what
it did not load, nor the helper under the driver. `NoEmptyPage`, under fairness: a
visible page without a browser gets one or goes back to the index page.

**Bounds.** Two runs of the shell (one that is overtaken, one that overtakes), three
events of user, kernel and browser, two display modes, a helper that was loaded
before. Three events suffice to hide a page during a start, kill a shell and show
the page again; with four the graph is too large for a run of minutes.

**Fairness.** Timers, promises, native calls and the steps of the shell; none for the
user, the kernel or the browser, which need never do anything.

**Proofs** (`BrowserLifecycleProofs`), for any number of runs, display modes and events:

* `StatusNeverStale`, `ModulesStayOwned`: `Spec => []StatusOfThisRun`, `Spec => []ModulesOwned`.
* `OneAtATime`, `NothingLeftBehind`: `OneOfEach` and `StopsEverything`, while the identity
  file can be written (`~StartMayFail`).
* `OnlyTheDoomedLeft`: when it cannot, all that a stopped page may leave is a shell that was
  told to end before it had set its traps.

None of the four is inductive. A page that is hidden relies on what its native call has
made sure of so far, so that `CallInv` says for each place in a call which shells and
browsers may be left; that a browser without a shell was told to quit (`ShellInv`) is what
makes the sweep find all others; that only the last run lives and the file names it
(`RunsInv`) is what makes the signal reach the right shell; and that one start is under way
and under the current token (`StartInv`) is what makes the next run the only one. The
lemmas are about what a step of one shell may do to all others (`StaysIn`, `KeepsDeath`).
`NoEmptyPage` is liveness and stays with TLC.

**What is left out or excluded.** `GpuModes` is `auto` only: `required` leaves run.sh
without a fallback. `StartMayFail` is FALSE in the run: an identity file that cannot be
written leaves a shell that nobody can stop. A shell is killed (`KilledShell`) only
between native calls, because `stopBrowser` lists the browsers it will sweep before it
signals the shell (`JSBrowser.cpp:878`). The second SIGTERM of `signalIdentity` may cut
the final wait of run.sh short (`run.sh:446-450`), which is why `StopsEverything`
promises of the browser only that it was told to quit; and a SIGTERM between the test
for the CPU fallback and the launch (`run.sh:518`) still launches once. A shell that is
killed with SIGKILL leaves its modules loaded. After a rotation the page keeps
the mode chosen in the browser (`browserModeOverride`, `browser-lifecycle.js:67`, `:199`)
until it is loaded anew, and it wins over the mode `last`, which
`tools/DRM_HOLE_RENDERING_PIPELINE.md:55` says reads the display-mode file; both are the
same unless the file was written by somebody else.

## The keyboard

### Correspondence

`page` is `KeyboardBridge.state` of the page with its `KeyboardSession` and
`backend.json`; `files` the directories both sides poll; `shell` the `keyboard_` fields
of `AppState` and where its round is; `frame` the script in the document on the
screen; `wire` its messages. A handler of the page is one action, and its timers are
members of `page.timers` that may fire as soon as they are armed. The round of the
browser (`keyboard_response_tick`) takes one step per file it looks at
(`TickReads`, `TickUpdate`, `TickOk`, `TickCancel`, `Expires`), and the page may write
between any two; its other handlers come between rounds. Faults (`MaxFaults`) are a
write that fails, a keyboard that does not open, a document that is replaced, and a
restart of the page or of the browser. `said` remembers what the user said.

### Run keyboard

Two instances: a field of the chrome over two requests with each value of
`keyboard_backend`, and a field of a web page with a longer text. `OneKeyboard` (with the
types): one keyboard is open at a time, and the one of a request that is over is closed
or about to be. `ConfirmedTextLands`: what is reported confirmed is what the user
confirmed, the text acted on is that text, and nothing writes to the field after it; a
cancellation is never reported for a confirmed text. `SessionsEnd`: a request the page has
taken is over in the end.

**Bounds.** Two requests give one that is superseded; one retry and one fault exhaust
the retries; more multiply states without new orders of files. Pruning (130 s) is left
out because a request expires after 120 s. An acknowledgement of an earlier text cannot
be confused with a later one and is not an action.

**Fairness.** The polling of the page, its two minutes, the tick of the browser, and (SF) the
expiry it looks at first in each tick. A request that was left by a restart of the
browser and that the user never answers stays (`Forsaken`): the code removes it without a
completion, and the page blocks others for up to 120 s. Noticed: when the page is
hidden or receives input in the 250 ms between the time-out of a probe and the switch,
the phase stays active and the global keyboard never opens (`keyboard-bridge.js:330`,
`:440`; `tools/DRM_HOLE_RENDERING_PIPELINE.md:774` describes the switch).

**Proofs** (`KeyboardProofs`), for any number of requests, texts, retries and faults:
`OneKeyboardAtATime`, `Spec => []OneKeyboard`, from `KeyboardInvariance`. `OneKeyboard` says
that a keyboard never opens again for a request that is over, which no state of the page
shows: the directory may still hold that request. `TakenOK` has it that a request on the
disk that the page took is under way or remembered as done, as long as the page polls, and
that numbers are not given twice. `Shape` says which backend, timers and keyboards go
together in a page between two handlers, and `BrowserInv` what the browser may write, since
its numbers and texts come back to the page.

`ConfirmedTextIsFinal`, `Spec => ConfirmedTextLands`, rests on a second invariant beside the
first (`TextInvariance`: `IInv /\ TextInv`), because whether a report is right depends on
where each text has been. `Asking` follows it through page and files: a file `ok` of the active
request holds what the user confirmed, no text in the files or in the hand of the browser
is younger than that, one in `cancel` was not confirmed, and of a request the page has not taken, or
that is still to come, nothing is written. `Turns` follows it through the messages: of the
script's wait and the session's answer only one is under way, so that an acknowledgement
speaks of what the field still shows (`OneTurn`); a text that is committed is the
confirmed one (`Final`); nothing is left to apply for a request that was reported
(`Reporting`). Each of the actions keeps both and makes no wrong report (`StepLands`). TLC
checked `TextInv` before it was proved, on two requests of both kinds of field. The proofs assume of the
constants (`KeyboardConstants`) that requests are numbered from 1, that 0 is a text, and that
`None` is neither a text nor a decision of the user. Left to TLC: `SessionsEnd`, which is
liveness.

## The parts of the browser process

Seven parts of `wpe-drm-minimal.c` and its neighbours share no state that their
properties depend on. Run **browser_parts** checks them one at a time: `part` is chosen
in the beginning and the variables of the other parts stay `None`. The instances are in
`MCBrowserParts`; constants are `None` and the devices of the governor (`Memories`). None of the parts waits for another
process, so no fairness is assumed, and deadlock is not checked: each part has an end
(the browser quit, the bounds used up).

What is proved of a part for every value of its constants is proved of the run as well:
`BrowserPartsProofs` shows that while a part is chosen the steps are those of the part
(`StoreRuns`, `SessionRuns`, `GovernorRuns`, `ToolbarRuns`), and cites the theorems of the part
for `EvidenceKept` (`DamagedIsKept`), `ProfilesApart` (`ProfilesStayApart`), `SessionSaved`
(`SessionIsSaved`), `SessionKept` (`TabsAreKept`) and `NoReloadAfterKill` (`KilledWaits`).
Those about the store assume `NoneIsApart`: `None` is no database, truth value or number.

### Profile store (`ProfileStore`)

`disk` is the database with its write-ahead log, the snapshot, the backups, the
directories of site data and the switch file; `store` is the browser that runs and where
its opening is. Opening is a step per file operation that can be cut short (`Opens` to
`InitialProfile`), and `Crash`, `Damage` and a failing operation (`lapses`) come between
any two. A device starts new or with the state of an older version. Each profile row and
each datum carries the serial of the profile that made it (`birth`), so that data of a
deleted profile is told from that of a later one with the same number.

* `ProfilesApart`: no profile sees data of another one; data of a deleted profile is in
  use or marked for removal, while nothing failed and no database was lost.
* `EvidenceKept`: a damaged database stays as a whole, in place or as a backup.

**Proofs** (`ProfileStoreProofs`), for any number of profiles, damages and failures:
`DamageIsKept` (`EvidenceKept`), `ApartForEver` (`ProfilesApart`, while a log is not replayed
into a database it does not belong to, `~LogAlone`) and `StoreTypes`, from `StoreInvariance`.
They assume that profiles are numbered from 1 and that `None` is no database. The invariant
has what database, log and directories agree on (`DiskInv`: numbers above `last` were never
given, data belongs to the profile there is or to the one marked for removal) and what each
step of opening relies on (`StageInv`); a crash between any two steps only keeps the first.

Bounds: three profiles with a limit of two, one damage, one failure. Outside:
power loss under `synchronous=NORMAL`, and settings, history and bookmarks, which are a
statement each. With `LogAlone = TRUE` (a log replayed into a database it does not belong
to) `ProfilesApart` fails; the code removes the log first and says why
(`browser-profile-store.c:343`). Noticed: there is one `pending_delete`; after a failed
removal the next deletion overwrites it, and the first directory stays (excused as a
failure). What a failed switch file leads to is excused the same way.

### Tabs, crashes and memory kills (`BrowserSession`)

`saved` is what the store holds of tabs, `chrome` the tabs of the running browser with its
save timer and crash counters, `web` the WebProcess. Actions are the calls of the user,
of WebKit (`LoadStarted`, `LoadSettles`, `TitleChanges`, `Crash`, `MemoryKill`) and of
GLib (`SaveTimer`, `ReloadFires`), and the restart (`Start`, `RestoreFails`, `Leave`, `Die`).

* `SessionKept`: a stored tab goes only when the user closed it, or when the browser was
  started without the tabs; the guard against saving over a failed restore is in this.
* `SessionSaved`: a browser that leaves has left its tabs in the store.
* `NoReloadAfterKill`: a page killed for its memory is loaded again only when the user asks.

**Proofs** (`BrowserSessionProofs`), for any number of tabs, pages and failures: `LeavesSaved`
(`SessionSaved`), `TabsOutlive` (`SessionKept`, an action property), `KilledStaysDown`
(`NoReloadAfterKill`) and `TabsFit` (the types), from `SessionInvariance`. They assume that
pages are numbers and that there is room for a tab. The invariant is about a pair, what is
stored and what the browser has, so that a save, a change and a start are lemmas about
values: what is not in the store is marked dirty with a timer, or was closed by the user,
and a browser has fewer tabs than it restored only if the user closed some.

Two instances, each with one failure: up to two tabs at a time, three in all, of one page,
and one tab at a time with two pages told apart. The history of a tab and the guest profile, which stores nothing, are left out.
Excused: the address of the active tab, which `LOAD_STARTED` changes without marking it
for saving, and a home page the memory error itself brings back. Noticed, without a
property: a reload that was put off for 500 ms is carried out in the tab that is then
active and replaces its address (`wpe-drm-minimal.c:7028`); a home page that crashes is
loaded again without bound; titles that change all the time put the save off for ever; the
guard `tab_count < restored_tab_count` cannot be reached. `README.md:23` of the repository
shows the error page at the second kill of an address, the code at the first.

### Touch input (`TouchInput`)

`raw` is what the kernel reported, `gesture` the recogniser with the frames it holds back,
`view` the streams of page and game, `mode` game and switch of the gesture. `Report` is a
whole report: recogniser, cancellation, replay and delivery. `late` says that the time of
a phase is over, for time itself is left out.

* `StreamsWhole`: a stream begins when the last one of its slot has ended, goes on and
  ends only when it began, none is left when the finger is gone, and a frame held back
  reaches the page once.

Two fingers over five reports and three over three, with `Abrupt = FALSE`: no finger lands
in the report another one lifts in, two land together only when none is down, and of three
one moves or lifts at a time. What this leaves out `StreamsWhole` does not cover. Two fingers
that join a first one in one report are the finding `finger_burst`. Noticed: a finger on
probation that lifts in the report another one lands in has its whole tap passed on; when a
third finger then completes a pair and the pair fails, the replay repeats that tap
(`browser-touch-gesture.c:335`). Excused: a finger whose game ends under it goes on without
a beginning (`cut`), which the page ignores.
Outside: DOWN and UP in one report, native configuration of touch, scrolling by the
browser, taps on the toolbar, and the buffer of 512 frames, which the phases never fill.

### Toolbar and panels (`ChromeToolbar`, `ChromeGeometry`, `ChromePanels`)

`ChromeToolbar` has the flags that show and hide the toolbar, and for each handler whether
it publishes and lays out. `ToolbarHasRoom`: what is shown has its room above the page and
is drawn as it is, and no automatic wish outlives a later one. `ToolbarReturns`: what full
screen or a game took away comes back when the page gives the panel back, also when a game
begins and ends inside full screen or outlives it. Handlers that show without a layout
(`hist.gap`: scrolling, `wpe-drm-minimal.c:3849`, and the renaming of a profile, `:2332`)
excuse `PageUncovered` until the next layout; the first is the finding `scroll_shows`. Full
screen entered over a game (`hist.overGame`) that ends inside it leaves the toolbar hidden
(`:6517`, `:5935`): that order alone is excused in `ToolbarReturns`. Noticed: a panel may stay
open under a hidden toolbar after a game; a result of the keyboard can open one in full
screen, where its taps are ignored; the gesture fires after its quiet time without asking
again whether it is allowed.

**Proofs** (`BrowserPartsProofs`), for behaviours of any length: `ToolbarKeepsRoom`
(`ToolbarHasRoom`) and `ToolbarComesBack` (`ToolbarReturns`, an action property), from
`ToolbarInvariance`. `ToolbarInv` says that the toolbar is drawn as it is and has its room or is
in the gap above (`Sound`), that what waits to be done was asked for last and nothing waits
while a game runs (`WaitsAsAsked`), and that a game not in full screen, and full screen not
entered over a game, remember the toolbar they took, whatever the other one does meanwhile
(`Remembered`).

`ChromePanels` has every list, row, cell and button: `ChromeGeometry` computes where it is
drawn (`ChromeRenderer.cpp`) and, separately, what a tap there does (`wpe-drm-minimal.c`),
as both files do. `TapsAsDrawn`: the corners of what is drawn do what its label says, and
rows show what is in the store, through drags, the snapping of the menu, changes of the
page and results of the keyboard. Portrait as owner and landscape as guest, five tabs, one
change of a setting; taps at the first corner of each thing drawn, of long lists the first
and last row, and beside them. Tab history and failures of the store are left out.
Noticed: the highlight at touch-down uses the whole height of the panel, tap and drawing
leave out the 14 pixels of the dots (`:4842` against `:3626`); a touch during the
snapping stops it and leaves the menu between two pages (`:4847`); for a guest "manage" and
"clear history" are drawn disabled and open all the same, and rows of the dialogue that
are drawn enabled do nothing.

### From panel to page and back (`DisplayResolver`, `PanelMapping`)

`DisplayResolver` is the choice of panel size, DRM mode and rotations, by the page
(`display-resolver.js`) and by the native side (`BrowserDisplayConfig.cpp`). `PanelMapping`
launches a browser in a mode, from the page or by itself, and computes where page, video
and finger then are: the environment of `run.sh`, the rotation of the picture, the video
plane (`VideoOverlay.cpp`), touch and game coordinates. Writing the mode and the launch
may fail (`run.lapsed`).

* `PanelAgrees`: in each mode the picture lies turned by that mode from the system's
  direction; a finger on a pixel reaches that pixel; a video lies in its hole; a finger on a
  game is where the game was told that it is.

Eight displays: four sizes of mode and six pairs of directions, kernel modes found in
debugfs, at a usual connector, at another one or not at all, with and without configuration,
touch panels that are turned or skip lines. The touch panel is taken to count the pixels of
the DRM mode; touch is claimed where its device is known and run.sh found the mode. Left
out: sizes and rotations given as options, other fit modes, swapped or inverted axes, the
source crop of a video, a game's finger while the toolbar is shown (`:4355`, where the
panel's coordinate is compared with the page's).

Noticed: `rejectPanelCandidate` rejects each candidate that equals the DRM mode, and in turned
modes compares the turned candidate with the unturned fallback, so that candidates of DOM and
environment are always refused (`tools/DRM_HOLE_RENDERING_PIPELINE.md` section 5.5 reads
otherwise); a guessed panel larger than the mode is scaled, against the comment at
`WPEViewDRM.cpp:829`; `tp_xoffset` has no effect, because run.sh always exports the active
range; a negative direction of video or touch is ignored where one of the framework is
normalised; "connected" matches "disconnected" (`currentDrmModeSpec`); without a mode from the
kernel the range of touch is the application's default; `WPE_VIDEO_OVERLAY_ROTATION` is
computed before the rotation is set (`run.sh:159`, `:373`; direct starts only); a failing
`fsync` of the directory leaves the new mode stored though the write counts as failed.

### Memory governor (`MemoryGovernor`)

`memory` is the device, the profile chosen for it, the level and the two clocks, `relief`
what the ticks did. A tick may come late, and meminfo may be unreadable once.

* `PressureHandled`: pressure is answered by the tick that sees it and, as long as it lasts,
  no tick leaves the caches untrimmed for half a minute; the level does not ease within ten
  seconds of a reading as bad; memory that stays plentiful ends the pressure.

**Proofs** (`BrowserPartsProofs`), for every set of devices and every reading: `PressureIsHandled`
(`PressureHandled`, with the types), from `GovernorInvariance`, if what the devices report are
numbers (`Meminfo`). It relates the clocks the
property remembers to the ones the governor keeps: a reading that was bad is older than the
recovery under way, and memory was plentiful for as long as the recoveries took, the one
from `critical` and the one from `warning`, with at most a late tick between them.

Four devices (each profile, no swap, little swap), readings at and beside each threshold,
ticks of two or four seconds; thresholds given in the environment are left out. Noticed:
with 128 MB of swap or less the level never leaves `critical`, for that takes more than
128 MB of free swap, and with 64 MB or less it always is critical; a reading that fails does
not stop the clock of the recovery.

## Findings

Five runs find a disagreement between the code and what its comments and documents say.

1. `direct_in_fence`: with direct scanout and IN_FENCE_FD a frame that fails after its fence
   was moved out of the view is released at once, while the GPU may still draw it
   (`WPEViewDRM.cpp:1217`).
2. `cursor_assert`: a cursor commit forgotten before the first frame leaves a page flip that
   is later taken for the flip of a frame still waiting for its fence; the assertion on its
   phase fails (`WPEViewDRM.cpp:1353`).
3. `video_rectangle_settles`: a rectangle handled while an older frame is deferred is ignored
   or overwritten; a paused video stays at the old place (`VideoOverlay.cpp:862`).
4. `finger_burst`: when two more fingers land in one report while the first passes on
   probation, the recogniser fails without the cancellation a second finger gets, and the
   replay begins the stream of the first again (`browser-touch-gesture.c:311`).
5. `scroll_shows`: with automatic hiding off, a toolbar hidden by the gesture is shown by the
   next scroll without a layout (`wpe-drm-minimal.c:3849`).

Observations that no run makes are with their parts above. Two of the video overlay belong
here: the back-off of five seconds also follows a connection that succeeded
(`GStreamerHolePunchQuirkRockchip.cpp:212`), and a writer source armed for a client that was
dropped can stay (`VideoOverlay.cpp:308`).

## Plan

Done: the frame queue with its lending promise and the composition of pictures; the video
overlay and its promise; page, native calls and supervisor; the keyboard; the seven parts
of the browser process; proofs about queue, overlay, lifecycle, keyboard, profile store,
session, toolbar and governor, and of both refinements. Left: scrolling by the browser and
the touches the toolbar takes, in `TouchInput`; the set-up of the display.

What stays with TLC, and why:

* liveness under fairness (`FramesSettle`, `ChannelSettles`, `SessionsEnd`, `NoEmptyPage`):
  the prover has neither ENABLED nor fairness;
* `StreamsWhole`, whose streams are folds over the events of a report: the prover has no
  induction over data;
* `PictureRight`, `TapsAsDrawn` and `PanelAgrees`, which compare two computations of the same
  geometry on chosen devices: what could be proved for all numbers is the arithmetic of
  each formula, with divisions by constants and roundings, and little of the code's control;
* `SafeInEveryMode`, whose part without a cursor plane follows from the theorems of the queue.

## Not modelled

* `WPEDisplayDRM.cpp`, `WPEToplevelDRM.cpp` and the rest of the display's set-up: sequential
  code run once. Its dispatch of page flips is the environment of `PageFlip`.
* Navigation and search: functions on strings without state. Settings, history and bookmarks
  of the profile store: one SQL statement each.
* Scrolling and kinetics, colours, glyphs, texts, icons and the curves of animations: data no
  property depends on.
* The GPU mode `required` and the sysctl values of `memory-runtime.sh`.
* Patches to WebKit and GStreamer: their targets are not in the repository. The callbacks
  they add are modelled from the side of `wpe-drm`.
* Build, packaging and inspection scripts; the vendored runtime and SDK: no behaviour of the
  browser, or third-party code.
