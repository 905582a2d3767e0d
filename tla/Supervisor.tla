----------------------------- MODULE Supervisor -----------------------------
(***************************************************************************)
(* The shell that runs the browser (wpe-drm/run.sh with                    *)
(* runtime/gpu-runtime.sh), the browser process as the shell sees it, the  *)
(* two kernel modules of the GPU and the files the three leave behind.     *)
(*                                                                         *)
(* A run is one execution of run.sh: it may launch several browsers, one   *)
(* after the other.  Signals arrive between any two of its steps and are   *)
(* trapped before the next one.                                            *)
(***************************************************************************)
EXTENDS Naturals, FiniteSets

CONSTANTS
  MaxRuns,        \* bound: executions of run.sh
  MaxEvents,      \* bound: what users and the kernel do to the system
  DisplayModes,   \* the display modes a user can choose
  DefaultMode,    \* the one that holds when there is no display-mode file
  GpuModes,       \* values of the gpu-mode file at first
  Preloaded       \* sets of modules that may be loaded before

ASSUME BoundsAssumption ==
  MaxRuns \in Nat /\ MaxEvents \in Nat /\ Preloaded \subseteq {{}, {"helper"}, {"helper", "kbase"}}
ASSUME ModesAssumption ==
  DefaultMode \in DisplayModes /\ GpuModes \subseteq {"auto", "off", "required"}

VARIABLES
  sup,      \* per run: the shell
  browser,  \* per run: the browser it launched last
  kernel,   \* loaded modules, and those that were loaded by someone else
  files,    \* display-mode, gpu-mode, ready marker, exit status
  budget    \* what is left of the bounds

supVars == <<sup, browser, kernel, files, budget>>

Runs == 1 .. MaxRuns
Modules == {"helper", "kbase"}

(* Where the shell stands.  "early": traps not set yet; "launch": about to  *)
(* fork; "forked": BROWSER_PID not assigned yet; "final": the second wait   *)
(* of a terminating shell; "ended": a browser was reaped; "exit": in the    *)
(* EXIT trap; "gone": exited or killed.                                     *)
Places == {"unborn", "early", "select", "probe", "launch", "forked",
           "waiting", "final", "ended", "exit", "gone"}

NoStatus == [reason |-> "none", mode |-> "none", run |-> 0]

(* Exit codes of the browser: 72 rotation, 73 GPU switch, 74 user, 75       *)
(* profile switch, 91 no first frame from the GPU; 139 stands for failures   *)
(* to start and for crashes.                                                *)
Codes == {0, 72, 73, 74, 75, 91, 139}

TypeOKSup ==
  /\ sup \in [Runs -> [pc: Places, term: BOOLEAN, knows: BOOLEAN,
                       profile: {"cpu", "gpu", "fallback"},
                       gpu: {"auto", "off", "required"},
                       owns: SUBSET Modules, status: Codes, sig: 0 .. 2]]
  /\ browser \in [Runs -> [st: {"none", "starting", "running", "exited"},
                           gpu: BOOLEAN, quit: BOOLEAN, listed: BOOLEAN, code: Codes]]
  /\ kernel \in [loaded: SUBSET Modules, foreign: SUBSET Modules]
  /\ files \in [mode: DisplayModes, gpu: {"auto", "off", "required"},
                ready: BOOLEAN,
                exit: [reason: {"none", "rotation_change", "user_shutdown", "failed"},
                       mode: DisplayModes \cup {"none"}, run: 0 .. MaxRuns]]
  /\ budget \in 0 .. MaxEvents

(* What is left of a shell that ended, or was killed.                        *)
Gone == [pc |-> "gone", term |-> FALSE, knows |-> FALSE, profile |-> "cpu",
         gpu |-> "auto", owns |-> {}, status |-> 0, sig |-> 0]

NoBrowser == [st |-> "none", gpu |-> FALSE, quit |-> FALSE, listed |-> FALSE, code |-> 0]

InitSup ==
  /\ sup = [s \in Runs |-> [Gone EXCEPT !.pc = "unborn"]]
  /\ browser = [s \in Runs |-> NoBrowser]
  /\ \E m \in Preloaded: kernel = [loaded |-> m, foreign |-> m]
  /\ \E g \in GpuModes:
       files = [mode |-> DefaultMode, gpu |-> g, ready |-> FALSE, exit |-> NoStatus]
  /\ budget = MaxEvents

Spend == budget > 0 /\ budget' = budget - 1

Alive(s) == sup[s].pc \notin {"unborn", "gone"}
Executing(b) == b.st \in {"starting", "running"}
BrowserAlive(s) == Executing(browser[s])

-----------------------------------------------------------------------------
(* Signals and processes: what the parent of the shell can do to it.       *)

(* fork and exec of run.sh.                                                 *)
Started(s) == [sup[s] EXCEPT !.pc = "early"]

(* SIGTERM to the shell, n times: kill(-pgid) and then kill(pid) send two,  *)
(* the death of the parent sends one.  Two are as many as matter.           *)
Signalled(S, n) ==
  [s \in Runs |-> IF s \in S /\ Alive(s)
                  THEN [sup[s] EXCEPT !.sig = IF @ + n > 2 THEN 2 ELSE @ + n]
                  ELSE sup[s]]

(* SIGTERM to browsers: their main loop quits, unless they are wedged.      *)
Quit(S) ==
  [s \in Runs |-> IF s \in S /\ BrowserAlive(s)
                  THEN [browser[s] EXCEPT !.quit = TRUE] ELSE browser[s]]

(* The browsers found in /proc, to be ended one after the other: a browser   *)
(* launched later is not among them.                                        *)
Listed == {s \in Runs : browser[s].listed /\ BrowserAlive(s)}
ListBrowsers ==
  [s \in Runs |-> [browser[s] EXCEPT !.listed = BrowserAlive(s)]]

(* SIGKILL to browsers.                                                     *)
Killed(S) == [s \in Runs |-> IF s \in S THEN NoBrowser ELSE browser[s]]

(* SIGKILL to the shells of these runs: no trap is run.                      *)
Shot(S) ==
  [s \in Runs |-> IF s \in S /\ Alive(s)
                  THEN Gone ELSE sup[s]]

-----------------------------------------------------------------------------
(* GPU modules.                                                            *)

(* A browser under the GPU profile holds /dev/mali0: the module is busy.    *)
GpuBusy == \E s \in Runs: BrowserAlive(s) /\ browser[s].gpu

(* What a shell may still own after cleanup_gpu_modules: bifrost_kbase is   *)
(* removed first and, when it cannot be, the helper is kept as well.        *)
StillOwned(own) ==
  {x \in SUBSET own: /\ "kbase" \in x => x = own
                     /\ GpuBusy /\ "kbase" \in own => x = own}

(* cleanup_gpu_modules with outcome x; the shell goes on with "next".       *)
CleanUp(s, next) ==
  \E x \in StillOwned(sup[s].owns):
    /\ sup' = [sup EXCEPT ![s] = IF next = Gone THEN Gone ELSE [next EXCEPT !.owns = x]]
    /\ kernel' = [kernel EXCEPT !.loaded = @ \ (sup[s].owns \ x)]

(* The profile is CPU, whether chosen or because the probe failed.          *)
WithoutGpu(s) ==
  CleanUp(s, [sup[s] EXCEPT !.gpu = files.gpu, !.profile = "cpu",
                !.pc = IF files.gpu = "required" THEN "exit" ELSE "launch"])

-----------------------------------------------------------------------------
(* Steps of the shell.                                                     *)

(* A signal is handled before the next command of the script.               *)
At(s, place) == sup[s].pc = place /\ sup[s].sig = 0
GoTo(s, place) == sup' = [sup EXCEPT ![s].pc = place]

(* The start of the script removes an old exit status, then sets the traps. *)
Boot(s) ==
  /\ At(s, "early")
  /\ GoTo(s, "select")
  /\ files' = [files EXCEPT !.exit = NoStatus]
  /\ UNCHANGED <<browser, kernel, budget>>

(* Libraries, certificates or a runtime module are missing: exit 84 to 89.  *)
BootFails(s) ==
  /\ At(s, "early")
  /\ sup' = [sup EXCEPT ![s] = Gone]
  /\ files' = [files EXCEPT !.exit = [reason |-> "failed",
                                      mode |-> "none", run |-> s]]
  /\ UNCHANGED <<browser, kernel, budget>>

(* Mutation: whatever is loaded is the shell's own. *)
LoadModules_OwnsAll(s) ==
  /\ At(s, "select") /\ files.gpu # "off"
  /\ sup' = [sup EXCEPT ![s].pc = "probe", ![s].gpu = files.gpu,
                        ![s].owns = Modules]
  /\ kernel' = [kernel EXCEPT !.loaded = Modules]
  /\ UNCHANGED <<browser, files, budget>>

(* load_gpu_modules: nothing to do when the device exists; otherwise the    *)
(* helper, unless it is there, and bifrost_kbase become the shell's own.    *)
LoadModules(s) ==
  /\ At(s, "select") /\ files.gpu # "off"
  /\ LET new == IF "kbase" \in kernel.loaded THEN {}
                ELSE Modules \ kernel.loaded
     IN /\ sup' = [sup EXCEPT ![s].pc = "probe", ![s].gpu = files.gpu,
                              ![s].owns = @ \cup new]
        /\ kernel' = [kernel EXCEPT !.loaded = @ \cup new]
  /\ UNCHANGED <<browser, files, budget>>

(* The GPU is off, not packaged, or its modules do not load: insmod of      *)
(* bifrost_kbase can fail after the helper was loaded, and then what was    *)
(* loaded is cleaned up at once.                                            *)
NoModules(s) ==
  /\ At(s, "select")
  /\ \/ WithoutGpu(s)
     \/ /\ files.gpu # "off" /\ "helper" \notin kernel.loaded
        /\ sup' = [sup EXCEPT ![s].pc = "probe", ![s].gpu = files.gpu,
                              ![s].owns = @ \cup {"helper"}]
        /\ kernel' = [kernel EXCEPT !.loaded = @ \cup {"helper"}]
  /\ UNCHANGED <<browser, files, budget>>

(* wpe-gpu-probe succeeds.                                                  *)
ProbeSucceeds(s) ==
  /\ At(s, "probe") /\ "kbase" \in kernel.loaded
  /\ sup' = [sup EXCEPT ![s].pc = "launch", ![s].profile = "gpu"]
  /\ UNCHANGED <<browser, kernel, files, budget>>

(* It fails, or the device node did not appear.                             *)
ProbeFails(s) ==
  /\ At(s, "probe")
  /\ WithoutGpu(s)
  /\ UNCHANGED <<browser, files, budget>>

(* run_browser_profile up to the fork.                                      *)
Launch(s) ==
  /\ At(s, "launch")
  /\ GoTo(s, "forked")
  /\ browser' = [browser EXCEPT ![s] = [NoBrowser EXCEPT !.st = "starting",
                                         !.gpu = sup[s].profile = "gpu"]]
  /\ files' = [files EXCEPT !.ready = FALSE]
  /\ UNCHANGED <<kernel, budget>>

(* BROWSER_PID=$! and the wait begins.                                      *)
Record(s) ==
  /\ At(s, "forked")
  /\ sup' = [sup EXCEPT ![s].pc = "waiting", ![s].knows = TRUE]
  /\ UNCHANGED <<browser, kernel, files, budget>>

(* A pending SIGTERM is handled.  Before the traps are set it kills the     *)
(* shell.  In wait it interrupts the wait, and the shell kills the browser  *)
(* and waits once more; a second signal interrupts that wait too, and the   *)
(* shell goes on without having reaped the browser.  Signals that arrive    *)
(* together count as one.                                                   *)
Trap(s) ==
  /\ Alive(s) /\ sup[s].sig > 0
  /\ \E left \in 0 .. sup[s].sig - 1:
       LET t == [sup[s] EXCEPT !.sig = left, !.term = TRUE] IN
       sup' = [sup EXCEPT ![s] =
                 CASE t.pc = "early"   -> Gone
                   [] t.pc = "waiting" -> [t EXCEPT !.pc = "final"]
                   [] t.pc = "final"   -> [t EXCEPT !.pc = "ended", !.status = 0,
                                                    !.knows = FALSE]
                   [] OTHER            -> t]
  /\ browser' = IF sup[s].knows THEN Quit({s}) ELSE browser
  /\ UNCHANGED <<kernel, files, budget>>

(* The browser is reaped, by either wait: a terminating shell takes the     *)
(* status for 0.                                                            *)
Reap(s) ==
  /\ At(s, "waiting") \/ At(s, "final")
  /\ ~BrowserAlive(s)
  /\ sup' = [sup EXCEPT ![s].pc = "ended", ![s].knows = FALSE,
               ![s].status = IF sup[s].term THEN 0 ELSE browser[s].code]
  /\ browser' = [browser EXCEPT ![s] = NoBrowser]
  /\ UNCHANGED <<kernel, files, budget>>

-----------------------------------------------------------------------------
(* What follows a browser that ended: the next one, or the end.            *)

(* 75: the next browser under another profile, in the same render profile.  *)
SwitchesProfile(s) == sup[s].status = 75 /\ ~sup[s].term

(* The GPU profile failed before its first frame: one launch without it.    *)
FallsBack(s) ==
  /\ sup[s].profile = "gpu" /\ ~sup[s].term
  /\ sup[s].status \notin {72, 73, 74}
  /\ sup[s].status = 91 \/ ~files.ready

NextProfile(s) ==
  /\ At(s, "ended") /\ SwitchesProfile(s)
  /\ GoTo(s, "launch")
  /\ UNCHANGED <<browser, kernel, files, budget>>

FallBack(s) ==
  /\ At(s, "ended") /\ ~SwitchesProfile(s) /\ FallsBack(s)
  /\ IF sup[s].gpu = "required"
     THEN GoTo(s, "exit") /\ UNCHANGED kernel
     ELSE CleanUp(s, [sup[s] EXCEPT !.pc = "launch", !.profile = "fallback"])
  /\ UNCHANGED <<browser, files, budget>>

(* 73: the GPU was switched on or off; select the profile again.            *)
GpuRestart(s) ==
  /\ At(s, "ended") /\ ~SwitchesProfile(s) /\ ~FallsBack(s)
  /\ sup[s].status = 73
  /\ CleanUp(s, [sup[s] EXCEPT !.pc = "select"])
  /\ UNCHANGED <<browser, files, budget>>

(* The exit status for the page: "failed" is crash or start_failed, which    *)
(* differ in their message.  A shell told to terminate leaves none.         *)
WrittenStatus(s) ==
  LET code == sup[s].status
      Of(why, m) == [reason |-> why, mode |-> m, run |-> s]
  IN CASE sup[s].term -> NoStatus
       [] ~sup[s].term /\ code = 72 -> Of("rotation_change", files.mode)
       [] ~sup[s].term /\ code = 74 -> Of("user_shutdown", "none")
       [] ~sup[s].term /\ code = 0  -> files.exit
       [] OTHER -> Of("failed", "none")

Finish(s) ==
  /\ At(s, "ended") /\ ~SwitchesProfile(s) /\ ~FallsBack(s)
  /\ sup[s].status # 73
  /\ GoTo(s, "exit")
  /\ files' = [files EXCEPT !.exit = WrittenStatus(s)]
  /\ UNCHANGED <<browser, kernel, budget>>

(* The EXIT trap: cleanup_runtime.                                          *)
Exit(s) ==
  /\ At(s, "exit")
  /\ CleanUp(s, Gone)
  /\ UNCHANGED <<browser, files, budget>>

(* The kernel kills the shell alone: its browser is left behind.            *)
OutOfMemory(s) ==
  /\ Alive(s) /\ Spend
  /\ sup' = Shot({s})
  /\ UNCHANGED <<browser, kernel, files>>

-----------------------------------------------------------------------------
(* The browser.                                                            *)

(* on_buffer_rendered, the first time: under the GPU profile it writes the  *)
(* ready marker.                                                            *)
FirstFrame(s) ==
  /\ browser[s].st = "starting"
  /\ browser' = [browser EXCEPT ![s].st = "running"]
  /\ files' = [files EXCEPT !.ready = @ \/ browser[s].gpu]
  /\ UNCHANGED <<sup, kernel, budget>>

(* The main loop ends by itself: after SIGTERM, when the display is gone,   *)
(* on the user's exit, or on a failure.  91 asks for the CPU profile.       *)
BrowserEnds(s) ==
  /\ BrowserAlive(s)
  /\ \E code \in {0, 74, 139} \cup (IF browser[s].st = "starting" /\ browser[s].gpu
                                   THEN {91} ELSE {}):
       browser' = [browser EXCEPT ![s] = [@ EXCEPT !.st = "exited",
                                                    !.code = code]]
  /\ UNCHANGED <<sup, kernel, files, budget>>

(* The user rotates the display, switches the GPU or the profile: the       *)
(* choice is on the disk before the main loop ends.                         *)
UserRestarts(s) ==
  /\ BrowserAlive(s) /\ Spend
  /\ \E code \in {72, 73, 75}:
       /\ browser' = [browser EXCEPT ![s] = [@ EXCEPT !.st = "exited",
                                                      !.code = code]]
       /\ CASE code = 72 -> \E m \in DisplayModes \ {files.mode}:
                              files' = [files EXCEPT !.mode = m]
            [] code = 73 -> \E g \in {"auto", "off"}:
                              files' = [files EXCEPT !.gpu = g]
            [] code = 75 -> UNCHANGED files
  /\ UNCHANGED <<sup, kernel>>

ShellStep(s) ==
  \/ Boot(s) \/ BootFails(s)
  \/ LoadModules(s) \/ NoModules(s) \/ ProbeSucceeds(s) \/ ProbeFails(s)
  \/ Launch(s) \/ Record(s) \/ Trap(s) \/ Reap(s)
  \/ NextProfile(s) \/ FallBack(s) \/ GpuRestart(s)
  \/ Finish(s) \/ Exit(s)

SupNext ==
  \E s \in Runs: \/ ShellStep(s) \/ FirstFrame(s)
                 \/ BrowserEnds(s) \/ UserRestarts(s)
=============================================================================
