-------------------------- MODULE BrowserLifecycle --------------------------
(***************************************************************************)
(* The page of the MiniApp that owns the browser (pages/frame/frame.vue    *)
(* with utils/browser-lifecycle.js), the native calls it makes             *)
(* (JSBrowser.cpp) and the supervisor they start and stop.                 *)
(*                                                                         *)
(* The JavaScript thread runs one handler at a time and is blocked while a  *)
(* native call waits for processes to end; the shell and the browser go on *)
(* meanwhile.  A start token is a number that cancelPendingStart            *)
(* increments: what was begun under an earlier number is "stale".          *)
(***************************************************************************)
EXTENDS Supervisor

CONSTANTS
  LaunchMode,     \* the mode chosen on the index page: "last" or a mode
  StartMayFail    \* the identity file of a new run may be unwritable

ASSUME LaunchAssumption ==
  LaunchMode \in DisplayModes \cup {"last"} /\ StartMayFail \in BOOLEAN

VARIABLES
  page,     \* the component, its BrowserLifecycle and the keyboard's activity
  call,     \* the native call the JavaScript thread is in
  pidFile   \* the run named by browser.pid, 0 when there is no file

pageVars == <<page, call, pidFile>>
vars == <<supVars, pageVars>>

Resolutions == [fresh: BOOLEAN, mode: DisplayModes]

TypeOK ==
  /\ TypeOKSup
  /\ page \in [here: {"no", "yes", "unloaded"}, visible: BOOLEAN, running: BOOLEAN,
               starting: BOOLEAN, leaving: BOOLEAN, returned: BOOLEAN,
               watching: BOOLEAN, timer: BOOLEAN, rotation: BOOLEAN,
               navigation: BOOLEAN, resolving: SUBSET Resolutions,
               override: DisplayModes \cup {"none"},
               keyboard: BOOLEAN, inactive: {"no", "due", "armed"}]
  /\ call \in [op: {"none", "start", "stop"},
               at: {"none", "look", "term", "wait", "list", "sweep", "swept",
                    "fork"},
               run: 0 .. MaxRuns, mode: DisplayModes \cup {"none"},
               return: BOOLEAN]
  /\ pidFile \in 0 .. MaxRuns

NoCall == [op |-> "none", at |-> "none", run |-> 0, mode |-> "none",
           return |-> FALSE]

NoPage ==
  [here |-> "no", visible |-> FALSE, running |-> FALSE, starting |-> FALSE,
   leaving |-> FALSE, returned |-> FALSE, watching |-> FALSE, timer |-> FALSE,
   rotation |-> FALSE, navigation |-> FALSE, resolving |-> {},
   override |-> "none", keyboard |-> FALSE, inactive |-> "no"]

Init ==
  /\ InitSup
  /\ page = NoPage /\ call = NoCall /\ pidFile = 0

-----------------------------------------------------------------------------
(* Helpers of the page.                                                    *)

Here == page.here = "yes"
Idle == call.op = "none" /\ Here
Recorded == pidFile # 0 /\ Alive(pidFile)   \* readPidFile

(* Mutation: the token stays. *)
Cancelled_KeepsToken(p) ==
  [p EXCEPT !.starting = FALSE, !.timer = FALSE, !.rotation = FALSE,
            !.navigation = FALSE]

(* cancelPendingStart: the token moves on and the three timers are cleared. *)
Cancelled(p) ==
  [p EXCEPT !.starting = FALSE, !.timer = FALSE, !.rotation = FALSE,
            !.navigation = FALSE,
            !.resolving = {[r EXCEPT !.fresh = FALSE] : r \in @}]

(* cancelActiveRequest of the keyboard tells the page, through a timer.     *)
WithoutKeyboard(p) ==
  IF p.keyboard THEN [p EXCEPT !.keyboard = FALSE, !.inactive = "due"] ELSE p

(* stop() up to its native call.                                            *)
Stopped(p) ==
  WithoutKeyboard([Cancelled(p) EXCEPT !.watching = FALSE, !.running = FALSE])
StopCall(return) == [NoCall EXCEPT !.op = "stop", !.at = "look",
                                   !.return = return]

(* leaveFrame: nothing when the page leaves already; otherwise it stops the *)
(* browser and then schedules its return.                                   *)
LeaveFrame(p) ==
  IF p.leaving THEN page' = p /\ call' = NoCall
  ELSE page' = Stopped([p EXCEPT !.leaving = TRUE]) /\ call' = StopCall(TRUE)

ScheduleReturn(p) ==
  IF p.leaving /\ p.visible THEN [p EXCEPT !.navigation = TRUE] ELSE p

(* start(): adopts a supervisor that runs, or arms the timer of a new start. *)
(* Its look at the identity file removes one that names no process.         *)
Start(p) ==
  IF p.starting \/ p.leaving \/ ~p.visible
  THEN page' = p /\ UNCHANGED pidFile
  ELSE IF Recorded
  THEN page' = [p EXCEPT !.running = TRUE, !.watching = TRUE]
       /\ UNCHANGED pidFile
  ELSE page' = [p EXCEPT !.starting = TRUE, !.timer = TRUE]
       /\ pidFile' = 0

(* The mode of a launch: the page's own, unless a rotation replaced it;     *)
(* "last" is what the display-mode file says.                               *)
ModeOf(p) ==
  IF p.override # "none" THEN p.override
  ELSE IF LaunchMode = "last" THEN files.mode ELSE LaunchMode

-----------------------------------------------------------------------------
(* The page's handlers.                                                    *)

(* A new page: mounted.                                                     *)
Mount ==
  /\ ~Here /\ call.op = "none" /\ Spend
  /\ Start([NoPage EXCEPT !.here = "yes", !.visible = TRUE])
  /\ UNCHANGED <<sup, browser, kernel, files, call>>

(* Mutation: a page that leaves is not sent on. *)
OnShow_Forgets ==
  /\ Idle /\ ~page.visible /\ ~page.returned
  /\ Start([page EXCEPT !.visible = TRUE,
                        !.inactive = IF @ = "armed" THEN "no" ELSE @])
  /\ UNCHANGED <<supVars, call>>

OnShow ==
  /\ Idle /\ ~page.visible /\ ~page.returned
  /\ LET p == [page EXCEPT !.visible = TRUE,
                           !.inactive = IF @ = "armed" THEN "no" ELSE @]
     IN IF p.leaving THEN page' = ScheduleReturn(p) /\ UNCHANGED pidFile
        ELSE Start(p)
  /\ UNCHANGED <<supVars, call>>

(* A page hidden by the keyboard's own page keeps its browser.              *)
OnHide ==
  /\ Idle /\ page.visible
  /\ IF page.returned THEN UNCHANGED budget ELSE Spend
  /\ LET p == Cancelled([page EXCEPT !.visible = FALSE])
     IN IF p.keyboard THEN page' = p /\ UNCHANGED call
        ELSE page' = Stopped(p) /\ call' = StopCall(FALSE)
  /\ UNCHANGED <<sup, browser, kernel, files, pidFile>>

(* The framework destroys the page, once it returned or at any time.        *)
OnUnload ==
  /\ Idle
  /\ page' = [Stopped(page) EXCEPT !.here = "unloaded", !.visible = FALSE,
                                   !.inactive = "no"]
  /\ call' = StopCall(FALSE)
  /\ UNCHANGED <<supVars, pidFile>>

(* The timer of start(): resolveOptions reads the mode and may wait.        *)
StartTimer ==
  /\ Idle /\ page.timer
  /\ page' = [page EXCEPT !.timer = FALSE,
       !.resolving = @ \cup {[fresh |-> TRUE, mode |-> ModeOf(page)]}]
  /\ UNCHANGED <<supVars, call, pidFile>>

IsCurrentStart_Unchecked(r) == r.mode # "none"  \* mutation
IsCurrentStart(r) == r.fresh /\ ~page.leaving /\ page.visible

(* The options are there: startBrowser, unless the start was overtaken.     *)
Resolved(r) ==
  /\ Idle /\ r \in page.resolving
  /\ page' = [page EXCEPT !.resolving = @ \ {r}]
  /\ call' = IF IsCurrentStart(r)
             THEN [NoCall EXCEPT !.op = "start", !.at = "look", !.mode = r.mode]
             ELSE NoCall
  /\ UNCHANGED <<supVars, pidFile>>

(* They cannot be had, or startBrowser throws before it touches anything.   *)
Rejected(r) ==
  /\ Idle /\ r \in page.resolving
  /\ LET p == [page EXCEPT !.resolving = @ \ {r}]
     IN IF IsCurrentStart(r) THEN LeaveFrame([p EXCEPT !.running = FALSE])
        ELSE page' = p /\ UNCHANGED call
  /\ UNCHANGED <<supVars, pidFile>>

(* The watchdog, each second.  It forgets an identity file that names no    *)
(* process and takes the exit status away.                                  *)
Watch ==
  /\ Idle /\ page.watching /\ ~page.starting /\ ~page.leaving
  /\ IF Recorded
     THEN page' = [page EXCEPT !.running = TRUE]
          /\ UNCHANGED <<files, pidFile, call>>
     ELSE /\ pidFile' = 0
          /\ files' = [files EXCEPT !.exit = NoStatus]
          /\ LET p == [page EXCEPT !.running = FALSE] IN
             IF files.exit.reason = "rotation_change"
             THEN page' = [WithoutKeyboard(Cancelled(p)) EXCEPT
                             !.watching = FALSE, !.rotation = TRUE,
                             !.override = files.exit.mode]
                  /\ UNCHANGED call
             ELSE LeaveFrame(p)
  /\ UNCHANGED <<sup, browser, kernel, budget>>

(* 100 ms after a rotation.                                                 *)
RotationTimer ==
  /\ Idle /\ page.rotation
  /\ Start([page EXCEPT !.rotation = FALSE])
  /\ UNCHANGED <<supVars, call>>

(* 100 ms after leaving: back to the index page.                            *)
NavigationTimer ==
  /\ Idle /\ page.navigation
  /\ page' = [page EXCEPT !.navigation = FALSE, !.returned = TRUE]
  /\ UNCHANGED <<supVars, call, pidFile>>

(* A field of the web page asks for the keyboard; the user closes it.       *)
KeyboardOpens ==
  /\ Idle /\ page.visible /\ (page.running \/ page.starting) /\ ~page.keyboard
  /\ \E s \in Runs : browser[s].st = "running"
  /\ page' = [page EXCEPT !.keyboard = TRUE] /\ Spend
  /\ UNCHANGED <<sup, browser, kernel, files, call, pidFile>>

KeyboardCloses ==
  /\ Idle /\ page.keyboard
  /\ page' = WithoutKeyboard(page)
  /\ UNCHANGED <<supVars, call, pidFile>>

(* onKeyboardBridgeInactive arms the timer of 15 s.                         *)
Inactive ==
  /\ Idle /\ page.inactive = "due"
  /\ page' = [page EXCEPT !.inactive = IF page.keyboard THEN "no" ELSE "armed"]
  /\ UNCHANGED <<supVars, call, pidFile>>

HideTimer ==
  /\ Idle /\ page.inactive = "armed"
  /\ LET p == [page EXCEPT !.inactive = "no"] IN
     IF page.visible \/ page.keyboard THEN page' = p /\ UNCHANGED call
     ELSE page' = Stopped(p) /\ call' = StopCall(FALSE)
  /\ UNCHANGED <<supVars, pidFile>>

-----------------------------------------------------------------------------
(* The native calls: the supervisor is asked to end, waited for and killed  *)
(* after two seconds; then the same is done with the browsers found.        *)

InCall(op, place) == call.op \in op /\ call.at = place
CallGoes(place) == call' = [call EXCEPT !.at = place]
Both == {"start", "stop"}

(* The identity file is read; startBrowser has written the mode before,     *)
(* stopBrowser lists the browsers now.                                      *)
Look ==
  /\ InCall(Both, "look")
  /\ call' = [call EXCEPT !.run = IF Recorded THEN pidFile ELSE 0,
       !.at = IF Recorded THEN "term"
              ELSE IF call.op = "stop" THEN "sweep" ELSE "list"]
  /\ pidFile' = IF Recorded THEN pidFile ELSE 0
  /\ IF call.op = "start"
     THEN files' = [files EXCEPT !.mode = call.mode] /\ UNCHANGED browser
     ELSE browser' = ListBrowsers /\ UNCHANGED files
  /\ UNCHANGED <<sup, kernel, budget, page>>

(* SIGTERM to the group and to the shell.                                   *)
Term ==
  /\ InCall(Both, "term") /\ CallGoes("wait")
  /\ IF Alive(call.run)
     THEN sup' = Signalled({call.run}, 2) /\ browser' = Quit({call.run})
     ELSE UNCHANGED <<sup, browser>>
  /\ UNCHANGED <<kernel, files, budget, page, pidFile>>

(* The shell ended, or it is killed with its browser.                       *)
AfterWait ==
  /\ CallGoes(IF call.op = "stop" THEN "sweep" ELSE "list")
  /\ pidFile' = IF call.op = "stop" /\ pidFile # call.run THEN pidFile ELSE 0
  /\ UNCHANGED <<kernel, files, budget, page>>

Ended ==
  /\ InCall(Both, "wait") /\ ~Alive(call.run)
  /\ AfterWait
  /\ UNCHANGED <<sup, browser>>

TwoSeconds ==
  /\ InCall(Both, "wait") /\ Alive(call.run)
  /\ AfterWait
  /\ sup' = Shot({call.run}) /\ browser' = Killed({call.run})

List ==
  /\ InCall({"start"}, "list") /\ CallGoes("sweep")
  /\ browser' = ListBrowsers
  /\ UNCHANGED <<sup, kernel, files, budget, page, pidFile>>

(* SIGTERM to each browser found and, once per process of it, to its group. *)
Sweep ==
  /\ InCall(Both, "sweep") /\ CallGoes("swept")
  /\ sup' = Signalled(Listed, 3) /\ browser' = Quit(Listed)
  /\ UNCHANGED <<kernel, files, budget, page, pidFile>>

Forgotten == [s \in Runs |-> [browser[s] EXCEPT !.listed = FALSE]]

(* stopBrowser returns, and leaveFrame goes on.                             *)
Swept ==
  /\ InCall(Both, "swept")
  /\ IF call.op = "start" THEN CallGoes("fork") /\ UNCHANGED page
     ELSE call' = NoCall
          /\ page' = IF call.return THEN ScheduleReturn(page) ELSE page
  /\ UNCHANGED <<kernel, files, budget, pidFile>>

SweptClean == Swept /\ Listed = {} /\ UNCHANGED sup /\ browser' = Forgotten
SweptKill ==
  Swept /\ Listed # {} /\ sup' = Shot(Listed) /\ browser' = Killed(Listed)

(* Mutation: the status of the last run stays where it is. *)
Fork_KeepsStatus(s) ==
  /\ InCall({"start"}, "fork") /\ sup[s].pc = "unborn"
  /\ \A t \in Runs : t < s => sup[t].pc # "unborn"
  /\ UNCHANGED <<browser, kernel, files, budget>>
  /\ sup' = [sup EXCEPT ![s] = Started(s)]
  /\ pidFile' = s /\ call' = NoCall
  /\ page' = [page EXCEPT !.running = TRUE, !.watching = TRUE,
                          !.starting = FALSE]

(* The old exit status is removed and run.sh started; its identity is       *)
(* written before startBrowser returns.                                     *)
Fork(s) ==
  /\ InCall({"start"}, "fork") /\ sup[s].pc = "unborn"
  /\ \A t \in Runs : t < s => sup[t].pc # "unborn"
  /\ files' = [files EXCEPT !.exit = NoStatus]
  /\ UNCHANGED <<browser, kernel, budget>>
  /\ \/ /\ sup' = [sup EXCEPT ![s] = Started(s)]
        /\ pidFile' = s /\ call' = NoCall
        /\ page' = [page EXCEPT !.running = TRUE, !.watching = TRUE,
                                !.starting = FALSE]
     \/ /\ StartMayFail
        /\ sup' = [sup EXCEPT ![s] = [Started(s) EXCEPT !.sig = 2]]
        /\ LeaveFrame([page EXCEPT !.running = FALSE, !.starting = FALSE])
        /\ UNCHANGED pidFile

(* fork fails.                                                              *)
ForkFails ==
  /\ InCall({"start"}, "fork")
  /\ files' = [files EXCEPT !.exit = NoStatus]
  /\ LeaveFrame([page EXCEPT !.running = FALSE, !.starting = FALSE])
  /\ UNCHANGED <<sup, browser, kernel, budget, pidFile>>

-----------------------------------------------------------------------------
(* The MiniApp process dies, in a call or out of it: the shell gets the     *)
(* death signal of its parent, and the page is gone.                        *)
MiniAppDies ==
  /\ Here
  /\ sup' = Signalled(Runs, 1)
  /\ page' = NoPage /\ call' = NoCall
  /\ UNCHANGED <<browser, kernel, files, budget, pidFile>>

Timers == \/ StartTimer \/ Watch \/ RotationTimer \/ NavigationTimer
          \/ Inactive \/ HideTimer
Promises == \E r \in Resolutions : Resolved(r) \/ Rejected(r)
Native == \/ Look \/ Term \/ Ended \/ TwoSeconds \/ List \/ Sweep
          \/ SweptClean \/ SweptKill \/ ForkFails
          \/ \E s \in Runs : Fork(s)
User == \/ Mount \/ OnShow \/ OnHide \/ OnUnload
        \/ KeyboardOpens \/ KeyboardCloses \/ MiniAppDies

(* A shell is not killed while a native call ends it: the browsers are      *)
(* listed before the signals, and one that such a shell launched in between *)
(* would be missed (see the README).                                        *)
KilledShell == call.op = "none" /\ \E s \in Runs : OutOfMemory(s)

Next == \/ Timers \/ Promises \/ Native \/ User
        \/ (SupNext \/ KilledShell) /\ UNCHANGED pageVars

Spec == Init /\ [][Next]_vars

(* Timers, promises and native calls are served, and the shell runs; what   *)
(* the user, the kernel and the browser do is up to them.                   *)
Fairness ==
  /\ WF_vars(StartTimer) /\ WF_vars(Watch) /\ WF_vars(RotationTimer)
  /\ WF_vars(NavigationTimer) /\ WF_vars(Promises) /\ WF_vars(Native)
  /\ \A s \in Runs : WF_vars(ShellStep(s) /\ UNCHANGED pageVars)

FairSpec == Spec /\ Fairness

-----------------------------------------------------------------------------
(* Properties.                                                             *)

(* No shell runs that the identity file does not name: nobody could stop    *)
(* it.  Nor do two browsers run at a time and fight for the display, one of *)
(* them left by a shell that was killed or gave up waiting for it.  And the *)
(* start that reaches the native call is the only one under way, for a page *)
(* that is visible and stays: starts that were overtaken while their        *)
(* options were looked up come to nothing.  Calls are cut short, files      *)
(* removed by those who look at them.                                       *)
OneOfEach ==
  /\ TypeOK
  /\ \A s \in Runs : Alive(s) => pidFile = s
  /\ Cardinality({s \in Runs : BrowserAlive(s)}) <= 1
  /\ call.op = "start" =>
       /\ page.starting /\ page.visible /\ ~page.leaving /\ ~page.timer
       /\ \A r \in page.resolving : ~r.fresh

(* A page that was hidden, that leaves or that was unloaded has ended its   *)
(* shell and its browser, whatever else happened meanwhile: a start under   *)
(* way, a profile switch, a rotation, a shell that was killed.  At most a   *)
(* browser is still on its way out that the shell no longer waits for.      *)
HasNoBrowser ==
  \/ page.here = "unloaded"
  \/ Here /\ page.leaving
  \/ Here /\ ~page.visible /\ ~page.keyboard /\ page.inactive = "no"

StopsEverything ==
  call.op = "none" /\ HasNoBrowser
    => \A s \in Runs : ~Alive(s) /\ (BrowserAlive(s) => browser[s].quit)

(* The exit status the watchdog takes away is that of the last run, never   *)
(* one that an earlier run left behind.                                     *)
StatusOfThisRun ==
  /\ Idle /\ page.watching /\ ~page.starting /\ ~page.leaving /\ ~Recorded
  /\ files.exit.reason # "none"
  => \A s \in Runs : s > files.exit.run => sup[s].pc = "unborn"

(* Modules that someone else loaded stay loaded, the helper stays as long   *)
(* as the driver that needs it, and what a shell takes for its own is there *)
(* to be removed.                                                           *)
ModulesOwned ==
  /\ kernel.foreign \subseteq kernel.loaded
  /\ "kbase" \in kernel.loaded => "helper" \in kernel.loaded
  /\ \A s \in Runs : Alive(s) => sup[s].owns \subseteq kernel.loaded \ kernel.foreign

NoBrowserRuns == \A s \in Runs : ~BrowserAlive(s)

(* A visible page without a browser gets one, or goes back to the index.    *)
NoEmptyPage ==
  Here /\ page.visible /\ NoBrowserRuns
    ~> \/ ~NoBrowserRuns
       \/ ~Here \/ ~page.visible \/ page.returned
=============================================================================
