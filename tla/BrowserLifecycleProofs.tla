---------------------- MODULE BrowserLifecycleProofs ----------------------
(***************************************************************************)
(* Proofs about the page that owns the browser: for any number of runs and  *)
(* display modes, one shell and one browser at a time, all of them ended    *)
(* when the page is hidden or leaves, an exit status that is never stale    *)
(* and modules that are removed only by the shell that loaded them.         *)
(*                                                                         *)
(* The invariant IInv says of each shell what it may still own and whether  *)
(* its browser was told to quit, of the runs that only the last one lives,  *)
(* and of a native call what it has already made sure of.                   *)
(***************************************************************************)
EXTENDS BrowserLifecycle, TLAPS, FiniteSetTheorems

(* No run after s was started yet. *)
Latest(s) == sup[s].pc # "unborn" /\ \A t \in Runs : t > s => sup[t].pc = "unborn"

(* A shell whose identity could not be written was told to end before it     *)
(* set its traps.                                                           *)
Doomed(s) == StartMayFail /\ sup[s].pc = "early" /\ sup[s].sig > 0
Active(s) == Alive(s) /\ ~Doomed(s)

(* What holds of one shell and the browser it launched: a browser its shell  *)
(* no longer waits for was told to quit.                                    *)
ShellInv(s) ==
  /\ ~Alive(s) \/ sup[s].pc = "early" => sup[s].owns = {}
  /\ sup[s].knows <=> sup[s].pc \in {"waiting", "final"}
  /\ sup[s].pc = "final" => sup[s].term
  /\ sup[s].pc \in {"unborn", "early", "select", "probe", "launch"} => ~BrowserAlive(s)
  /\ sup[s].pc = "ended" /\ BrowserAlive(s) => sup[s].term /\ sup[s].status = 0
  /\ sup[s].pc \in {"final", "ended", "exit"} /\ BrowserAlive(s) => browser[s].quit

(* Runs are born in order; a shell that runs, and a browser, belong to the   *)
(* last one, whose identity is on the disk; so does the exit status.        *)
RunsInv ==
  /\ \A s, t \in Runs : s < t /\ sup[t].pc # "unborn" => sup[s].pc # "unborn"
  /\ \A s \in Runs : Active(s) => pidFile = s /\ Latest(s)
  /\ \A s \in Runs : BrowserAlive(s) => Latest(s)
  /\ files.exit.reason # "none" => \A s \in Runs : s > files.exit.run => sup[s].pc = "unborn"

(* Who loaded the modules.                                                  *)
ModulesInv ==
  /\ kernel.foreign \subseteq kernel.loaded
  /\ "kbase" \in kernel.loaded => "helper" \in kernel.loaded
  /\ \A s \in Runs : /\ sup[s].owns \subseteq kernel.loaded \ kernel.foreign
                     /\ "helper" \in sup[s].owns /\ "kbase" \in kernel.loaded =>
                          "kbase" \in sup[s].owns

(* At most one start is under way, and it began under the current token.    *)
StartInv ==
  /\ page.timer => page.starting
  /\ \A r \in page.resolving : r.fresh =>
       /\ page.starting /\ ~page.timer
       /\ \A q \in page.resolving : q.fresh => q = r
  /\ call.op = "start" =>
       /\ Here /\ page.starting /\ page.visible /\ ~page.leaving /\ ~page.timer
       /\ \A r \in page.resolving : ~r.fresh
       /\ call.mode \in DisplayModes

(* How far a native call has got with ending the shell and its browser.     *)
CallInv ==
  /\ call.op # "none" /\ call.at \in {"term", "wait"} => call.run \in Runs /\ pidFile = call.run
  /\ call.op # "none" /\ call.at \in {"list", "sweep", "swept", "fork"} =>
       \A s \in Runs : ~Active(s)
  /\ call.op = "start" /\ call.at \in {"sweep", "swept"} =>
       \A s \in Runs : BrowserAlive(s) => browser[s].listed
  /\ call.op = "start" /\ call.at = "fork" => \A s \in Runs : ~BrowserAlive(s)
  /\ call.op = "stop" /\ call.at \in {"term", "wait", "sweep"} =>
       \A s \in Runs : BrowserAlive(s) /\ ~Active(s) => browser[s].listed \/ browser[s].quit
  /\ call.op = "stop" /\ call.at = "swept" =>
       \A s \in Runs : BrowserAlive(s) => browser[s].quit
  /\ call.op = "none" /\ HasNoBrowser =>
       \A s \in Runs : ~Active(s) /\ (BrowserAlive(s) => browser[s].quit)

IInv == /\ TypeOK /\ (\A s \in Runs : ShellInv(s)) /\ RunsInv /\ ModulesInv
        /\ StartInv /\ CallInv

-----------------------------------------------------------------------------
(* What one step of the shell of run s, or of its browser, does to the rest *)
(* of the system: a browser that appears has a shell that waits for it, one *)
(* that loses its shell was told to quit.                                   *)
StaysIn(s) ==
  /\ \A t \in Runs \ {s} : sup'[t] = sup[t] /\ browser'[t] = browser[t]
  /\ sup[s].pc # "unborn" /\ sup'[s].pc # "unborn"
KeepsDeath(s) ==
  /\ Active(s)' => Active(s)
  /\ BrowserAlive(s)' =>
       \/ /\ BrowserAlive(s) /\ browser'[s].listed = browser[s].listed
          /\ browser[s].quit => browser'[s].quit
       \/ (Active(s) /\ Active(s)')
  /\ call.op # "none" /\ Active(s) /\ ~Active(s)' /\ BrowserAlive(s)' => browser'[s].quit
KeepsStatus(s) ==
  files'.exit.reason # "none" =>
    files'.exit = files.exit \/ (Active(s) /\ files'.exit.run = s)

(* Before the step: a shell that may own modules is the only one.            *)
Alone(s) ==
  Alive(s) /\ sup[s].pc # "early" => \A t \in Runs \ {s} : sup[t].owns = {}
Before(s) ==
  /\ TypeOKSup /\ ShellInv(s) /\ ModulesInv /\ Alone(s)
  /\ s \in Runs

After(s) ==
  /\ TypeOKSup' /\ ShellInv(s)' /\ ModulesInv'
  /\ StaysIn(s) /\ KeepsDeath(s) /\ KeepsStatus(s)

(* The record of one shell, and of one browser, are typed. *)
ShellType == [pc: Places, term: BOOLEAN, knows: BOOLEAN,
              profile: {"cpu", "gpu", "fallback"},
              gpu: {"auto", "off", "required"},
              owns: SUBSET Modules, status: Codes, sig: 0 .. 2]
BrowserType == [st: {"none", "starting", "running", "exited"},
                gpu: BOOLEAN, quit: BOOLEAN, listed: BOOLEAN, code: Codes]
ExitType == [reason: {"none", "rotation_change", "user_shutdown", "failed"},
             mode: DisplayModes \cup {"none"}, run: 0 .. MaxRuns]
FilesType == [mode: DisplayModes, gpu: {"auto", "off", "required"},
              ready: BOOLEAN, exit: ExitType]

(* The types of the supervisor, by the names used here.                     *)
LEMMA TypesOfSup ==
  TypeOKSup <=> /\ sup \in [Runs -> ShellType] /\ browser \in [Runs -> BrowserType]
                /\ kernel \in [loaded: SUBSET Modules, foreign: SUBSET Modules]
                /\ files \in FilesType /\ budget \in 0 .. MaxEvents
  BY DEF TypeOKSup, ShellType, BrowserType, FilesType, ExitType

(* No exit status is one.                                                   *)
LEMMA NoStatusType == NoStatus \in ExitType
  BY BoundsAssumption DEF NoStatus, ExitType

(* The types before a step of the shell of s.                               *)
LEMMA TypesBefore ==
  ASSUME NEW s, Before(s)
  PROVE  /\ sup \in [Runs -> ShellType] /\ browser \in [Runs -> BrowserType]
         /\ kernel \in [loaded: SUBSET Modules, foreign: SUBSET Modules]
         /\ files \in FilesType /\ budget \in 0 .. MaxEvents
         /\ sup[s] \in ShellType /\ browser[s] \in BrowserType
  BY TypesOfSup DEF Before

(* The shell of s and its browser change to typed records r and b.          *)
LEMMA Changes ==
  ASSUME NEW s \in Runs, Before(s), NEW r \in ShellType, NEW b \in BrowserType,
         sup' = [sup EXCEPT ![s] = r], browser' = [browser EXCEPT ![s] = b],
         kernel' \in [loaded: SUBSET Modules, foreign: SUBSET Modules],
         files' \in FilesType, budget' \in 0 .. MaxEvents,
         sup[s].pc # "unborn", r.pc # "unborn"
  PROVE  /\ TypeOKSup' /\ StaysIn(s)
         /\ sup'[s] = r /\ browser'[s] = b
<1>1. sup' \in [Runs -> ShellType] /\ browser' \in [Runs -> BrowserType]
  BY TypesBefore
<1>2. TypeOKSup'
  BY <1>1 DEF TypeOKSup, ShellType, BrowserType, FilesType, ExitType
<1>3. sup'[s] = r /\ browser'[s] = b
  BY TypesBefore
<1>4. \A t \in Runs \ {s} : sup'[t] = sup[t] /\ browser'[t] = browser[t]
  BY TypesBefore
<1> QED BY <1>2, <1>3, <1>4 DEF StaysIn

(* The start of the script, before it owns anything or has a browser.        *)
LEMMA BootKeeps ==
  ASSUME NEW s \in Runs, Before(s), Boot(s) PROVE After(s)
<1> DEFINE r == [sup[s] EXCEPT !.pc = "select"]
<1>1. r \in ShellType /\ r.pc = "select" /\ r.owns = sup[s].owns /\ r.knows = sup[s].knows
  BY TypesBefore DEF ShellType, Places
<1>2. sup' = [sup EXCEPT ![s] = r] /\ sup[s].pc = "early" /\ sup[s].sig = 0
  BY Zenon DEF Boot, At, GoTo
<1>3. browser' = [browser EXCEPT ![s] = browser[s]]
  BY TypesBefore DEF Boot
<1>4. files' \in FilesType /\ files'.exit.reason = "none"
  BY TypesBefore, NoStatusType DEF Boot, FilesType, NoStatus
<1>5. UNCHANGED <<kernel, budget>>
  BY DEF Boot
<1> HIDE DEF r
<1>6. /\ TypeOKSup' /\ StaysIn(s) /\ sup'[s] = r /\ browser'[s] = browser[s]
  BY <1>1, <1>2, <1>3, <1>4, <1>5, Changes, TypesBefore
<1>7. ShellInv(s)'
  BY <1>1, <1>2, <1>6 DEF Before, ShellInv, BrowserAlive, Alive
<1>8. ModulesInv'
  BY <1>1, <1>5, <1>6 DEF Before, ModulesInv, StaysIn
<1>9. KeepsDeath(s) /\ KeepsStatus(s)
  BY <1>1, <1>2, <1>4, <1>6 DEF KeepsDeath, KeepsStatus, Active, Alive, Doomed, BrowserAlive
<1> QED BY <1>6, <1>7, <1>8, <1>9 DEF After

(* A step of a shell that leaves the modules as they are. *)
LEMMA SameModules ==
  ASSUME NEW s \in Runs, Before(s), StaysIn(s), UNCHANGED kernel,
         sup'[s].owns \in {sup[s].owns, {}}
  PROVE  ModulesInv'
  BY DEF Before, ModulesInv, StaysIn

(* cleanup_gpu_modules: the shell keeps what it could not remove, or forgets  *)
(* it because it ends.                                                      *)
LEMMA CleanUpModules ==
  ASSUME NEW s \in Runs, Before(s), StaysIn(s), Alive(s), sup[s].pc # "early",
         NEW x \in StillOwned(sup[s].owns),
         kernel' = [kernel EXCEPT !.loaded = @ \ (sup[s].owns \ x)],
         sup'[s].owns \in {x, {}}
  PROVE  /\ kernel' \in [loaded: SUBSET Modules, foreign: SUBSET Modules]
         /\ ModulesInv'
<1>1. /\ kernel'.loaded = kernel.loaded \ (sup[s].owns \ x)
      /\ kernel'.foreign = kernel.foreign
      /\ kernel' \in [loaded: SUBSET Modules, foreign: SUBSET Modules]
  BY TypesBefore
<1>2. x \subseteq sup[s].owns /\ ("kbase" \in x => x = sup[s].owns)
  BY DEF StillOwned
<1>3. /\ kernel.foreign \subseteq kernel.loaded
      /\ "kbase" \in kernel.loaded => "helper" \in kernel.loaded
      /\ sup[s].owns \subseteq kernel.loaded \ kernel.foreign
      /\ "helper" \in sup[s].owns /\ "kbase" \in kernel.loaded => "kbase" \in sup[s].owns
  BY DEF Before, ModulesInv
<1>4. \A t \in Runs \ {s} : sup'[t].owns = {}
  BY DEF Before, Alone, StaysIn
<1>5. kernel'.foreign \subseteq kernel'.loaded
  BY <1>1, <1>2, <1>3
<1>6. "kbase" \in kernel'.loaded => "helper" \in kernel'.loaded
  BY <1>1, <1>2, <1>3
<1>7. sup'[s].owns \subseteq kernel'.loaded \ kernel'.foreign
  BY <1>1, <1>2, <1>3
<1>8. "helper" \in sup'[s].owns /\ "kbase" \in kernel'.loaded => "kbase" \in sup'[s].owns
  BY <1>1, <1>2, <1>3
<1> QED BY <1>1, <1>4, <1>5, <1>6, <1>7, <1>8 DEF ModulesInv

(* A step that leaves the browser of s and the exit status alone, and the    *)
(* shell neither gone nor before its traps.                                 *)
LEMMA GoesOn ==
  ASSUME NEW s \in Runs, Before(s), StaysIn(s), browser'[s] = browser[s],
         files'.exit.reason # "none" => files'.exit = files.exit,
         Alive(s), sup[s].pc # "early" \/ sup[s].sig = 0, sup'[s].pc # "early",
         Alive(s)' \/ ~BrowserAlive(s) \/ browser[s].quit
  PROVE  KeepsDeath(s) /\ KeepsStatus(s)
<1>1. KeepsStatus(s)
  BY DEF KeepsStatus
<1>2. KeepsDeath(s)
  BY DEF KeepsDeath, Active, Doomed, Alive, BrowserAlive
<1> QED BY <1>1, <1>2

(* A required runtime file is missing. *)
LEMMA BootFailsKeeps ==
  ASSUME NEW s \in Runs, Before(s), BootFails(s) PROVE After(s)
<1>1. Gone \in ShellType /\ Gone.pc = "gone" /\ Gone.owns = {} /\ ~Gone.knows
  BY DEF Gone, ShellType, Places, Codes
<1>2. sup' = [sup EXCEPT ![s] = Gone] /\ sup[s].pc = "early" /\ sup[s].sig = 0
  BY DEF BootFails, At
<1>3. browser' = [browser EXCEPT ![s] = browser[s]]
  BY TypesBefore DEF BootFails
<1> DEFINE e == [reason |-> "failed", mode |-> "none", run |-> s]
<1>e. e \in ExitType /\ e.run = s /\ files' = [files EXCEPT !.exit = e]
  BY BoundsAssumption DEF BootFails, ExitType, Runs
<1> HIDE DEF e
<1>4. files' \in FilesType /\ files'.exit.run = s
  BY <1>e, TypesBefore DEF FilesType
<1>5. UNCHANGED <<kernel, budget>>
  BY DEF BootFails
<1>6. /\ TypeOKSup' /\ StaysIn(s) /\ sup'[s] = Gone /\ browser'[s] = browser[s]
  BY <1>1, <1>2, <1>3, <1>4, <1>5, Changes, TypesBefore
<1>7. ShellInv(s)'
  BY <1>1, <1>2, <1>6 DEF Before, ShellInv, BrowserAlive, Alive
<1>8. ModulesInv'
  BY <1>1, <1>5, <1>6, SameModules
<1>9. KeepsDeath(s) /\ KeepsStatus(s)
  BY <1>1, <1>2, <1>4, <1>6
  DEF KeepsDeath, KeepsStatus, Active, Alive, Doomed, BrowserAlive, Before, ShellInv
<1> QED BY <1>6, <1>7, <1>8, <1>9 DEF After

(* load_gpu_modules succeeds. *)
LEMMA LoadModulesKeeps ==
  ASSUME NEW s \in Runs, Before(s), LoadModules(s) PROVE After(s)
<1> DEFINE new == IF "kbase" \in kernel.loaded THEN {} ELSE Modules \ kernel.loaded
           r == [sup[s] EXCEPT !.pc = "probe", !.gpu = files.gpu, !.owns = @ \cup new]
<1>1. /\ r \in ShellType /\ r.pc = "probe" /\ r.knows = sup[s].knows
      /\ r.owns = sup[s].owns \cup new
  BY TypesBefore DEF ShellType, FilesType, Places
<1>2. sup' = [sup EXCEPT ![s] = r] /\ sup[s].pc = "select" /\ sup[s].sig = 0
  BY TypesBefore DEF LoadModules, At, ShellType
<1>3. browser' = [browser EXCEPT ![s] = browser[s]]
  BY TypesBefore DEF LoadModules
<1>4. UNCHANGED <<files, budget>>
  BY DEF LoadModules
<1>5. /\ kernel' \in [loaded: SUBSET Modules, foreign: SUBSET Modules]
      /\ kernel'.loaded = kernel.loaded \cup new /\ kernel'.foreign = kernel.foreign
  BY TypesBefore DEF LoadModules
<1> HIDE DEF r
<1>6. /\ TypeOKSup' /\ StaysIn(s) /\ sup'[s] = r /\ browser'[s] = browser[s]
  BY <1>1, <1>2, <1>3, <1>4, <1>5, Changes, TypesBefore
<1>7. ShellInv(s)'
  BY <1>1, <1>2, <1>6 DEF Before, ShellInv, BrowserAlive, Alive
<1>8. ModulesInv'
  <2>1. \A t \in Runs \ {s} : sup'[t].owns = {}
    BY <1>2, <1>6 DEF Before, Alone, StaysIn, Alive
  <2>2. /\ sup[s].owns \subseteq kernel.loaded \ kernel.foreign
        /\ kernel.foreign \subseteq kernel.loaded
    BY DEF Before, ModulesInv
  <2>3. new \cap kernel.loaded = {}
    OBVIOUS
  <2>4. "kbase" \in kernel'.loaded /\ "helper" \in kernel'.loaded
    BY <1>5 DEF Before, ModulesInv, Modules
  <2>5. "helper" \in sup'[s].owns => "kbase" \in sup'[s].owns
    BY <1>1, <1>6 DEF Before, ModulesInv, Modules
  <2> HIDE DEF new
  <2>6. sup'[s].owns \subseteq kernel'.loaded \ kernel'.foreign
    BY <1>1, <1>5, <1>6, <2>2, <2>3
  <2> QED BY <1>5, <2>1, <2>2, <2>4, <2>5, <2>6 DEF ModulesInv
<1>9. KeepsDeath(s) /\ KeepsStatus(s)
  BY <1>1, <1>2, <1>4, <1>6, GoesOn DEF Alive
<1> QED BY <1>6, <1>7, <1>8, <1>9 DEF After

(* The steps that clean the modules up: the shell has no browser, or is in   *)
(* its EXIT trap.                                                           *)
LEMMA CleanUpKeeps ==
  ASSUME NEW s \in Runs, Before(s), NEW next, CleanUp(s, next),
         sup[s].pc \in {"select", "probe", "ended", "exit"},
         UNCHANGED <<browser, files, budget>>,
         \/ next = Gone /\ sup[s].pc = "exit"
         \/ /\ next \in ShellType /\ next.pc \in {"launch", "select", "exit"}
            /\ ~next.knows /\ ~BrowserAlive(s)
  PROVE  After(s)
<1>1. PICK x \in StillOwned(sup[s].owns) :
         /\ sup' = [sup EXCEPT ![s] = IF next = Gone THEN Gone ELSE [next EXCEPT !.owns = x]]
         /\ kernel' = [kernel EXCEPT !.loaded = @ \ (sup[s].owns \ x)]
  BY DEF CleanUp
<1> DEFINE r == IF next = Gone THEN Gone ELSE [next EXCEPT !.owns = x]
<1>2. Gone \in ShellType /\ Gone.pc = "gone" /\ Gone.owns = {} /\ ~Gone.knows
  BY DEF Gone, ShellType, Places, Codes
<1>3. x \subseteq Modules
  BY TypesBefore DEF StillOwned, ShellType
<1>4. /\ r \in ShellType /\ r.owns \in {x, {}} /\ ~r.knows
      /\ \/ r.pc = "gone" /\ sup[s].pc = "exit" /\ r.owns = {}
         \/ r.pc \in {"launch", "select", "exit"} /\ ~BrowserAlive(s)
  BY <1>2, <1>3 DEF ShellType
<1> HIDE DEF r
<1>5. /\ sup' = [sup EXCEPT ![s] = r] /\ sup[s].pc # "unborn" /\ r.pc # "unborn"
      /\ browser' = [browser EXCEPT ![s] = browser[s]]
  BY <1>1, <1>4, TypesBefore DEF r
<1>6. kernel' \in [loaded: SUBSET Modules, foreign: SUBSET Modules]
  BY <1>1, TypesBefore
<1>7. /\ TypeOKSup' /\ StaysIn(s) /\ sup'[s] = r /\ browser'[s] = browser[s]
  BY <1>4, <1>5, <1>6, Changes, TypesBefore
<1>8. ModulesInv'
  BY <1>1, <1>4, <1>7, CleanUpModules DEF Alive
<1>9. ShellInv(s)'
  BY <1>4, <1>7 DEF Before, ShellInv, BrowserAlive, Alive
<1>10. ~BrowserAlive(s) \/ browser[s].quit
  BY <1>4 DEF Before, ShellInv
<1>11. KeepsDeath(s) /\ KeepsStatus(s)
  BY <1>4, <1>7, <1>10, GoesOn DEF Alive
<1> QED BY <1>7, <1>8, <1>9, <1>11 DEF After

(* The GPU is off or not there. *)
LEMMA WithoutGpuKeeps ==
  ASSUME NEW s \in Runs, Before(s), WithoutGpu(s), sup[s].pc \in {"select", "probe"},
         UNCHANGED <<browser, files, budget>>
  PROVE  After(s)
<1> DEFINE place == IF files.gpu = "required" THEN "exit" ELSE "launch"
           n == [sup[s] EXCEPT !.gpu = files.gpu, !.profile = "cpu", !.pc = place]
<1>2. CleanUp(s, n) /\ place \in {"launch", "exit"}
  BY DEF WithoutGpu
<1> HIDE DEF place
<1>1. n \in ShellType /\ n.pc \in {"launch", "exit"} /\ n.knows = sup[s].knows
  BY <1>2, TypesBefore DEF ShellType, FilesType, Places
<1> HIDE DEF n
<1>3. ~sup[s].knows /\ ~BrowserAlive(s)
  BY DEF Before, ShellInv
<1> QED BY <1>1, <1>2, <1>3, CleanUpKeeps

(* The helper loads, bifrost_kbase does not. *)
LEMMA NoModulesKeeps ==
  ASSUME NEW s \in Runs, Before(s), NoModules(s) PROVE After(s)
<1>a. /\ sup[s].pc = "select" /\ sup[s].sig = 0 /\ UNCHANGED <<browser, files, budget>>
  BY DEF NoModules, At
<1>b. CASE WithoutGpu(s)
  BY <1>a, <1>b, WithoutGpuKeeps
<1> DEFINE r == [sup[s] EXCEPT !.pc = "probe", !.gpu = files.gpu, !.owns = @ \cup {"helper"}]
<1>c. CASE /\ files.gpu # "off" /\ "helper" \notin kernel.loaded
           /\ sup' = [sup EXCEPT ![s].pc = "probe", ![s].gpu = files.gpu,
                                 ![s].owns = @ \cup {"helper"}]
           /\ kernel' = [kernel EXCEPT !.loaded = @ \cup {"helper"}]
  <2>1. /\ r \in ShellType /\ r.pc = "probe" /\ r.knows = sup[s].knows
        /\ r.owns = sup[s].owns \cup {"helper"}
    BY TypesBefore DEF ShellType, FilesType, Places, Modules
  <2>2. sup' = [sup EXCEPT ![s] = r]
    BY <1>c, TypesBefore DEF ShellType
  <2>3. browser' = [browser EXCEPT ![s] = browser[s]]
    BY <1>a, TypesBefore
  <2>4. /\ kernel' \in [loaded: SUBSET Modules, foreign: SUBSET Modules]
        /\ kernel'.loaded = kernel.loaded \cup {"helper"} /\ kernel'.foreign = kernel.foreign
    BY <1>c, TypesBefore DEF Modules
  <2> HIDE DEF r
  <2>5. /\ TypeOKSup' /\ StaysIn(s) /\ sup'[s] = r /\ browser'[s] = browser[s]
    BY <1>a, <2>1, <2>2, <2>3, <2>4, Changes, TypesBefore
  <2>6. ShellInv(s)'
    BY <1>a, <2>1, <2>5 DEF Before, ShellInv, BrowserAlive, Alive
  <2>7. ModulesInv'
    <3>1. \A t \in Runs \ {s} : sup'[t].owns = {}
      BY <1>a, <2>5 DEF Before, Alone, StaysIn, Alive
    <3>2. "kbase" \notin kernel.loaded /\ kernel.foreign \subseteq kernel.loaded
      BY <1>c DEF Before, ModulesInv
    <3>3. sup'[s].owns \subseteq kernel'.loaded \ kernel'.foreign
      BY <1>c, <2>1, <2>4, <2>5, <3>2 DEF Before, ModulesInv
    <3> QED BY <2>4, <3>1, <3>2, <3>3 DEF ModulesInv
  <2>8. KeepsDeath(s) /\ KeepsStatus(s)
    BY <1>a, <2>1, <2>5, GoesOn DEF Alive
  <2> QED BY <2>5, <2>6, <2>7, <2>8 DEF After
<1> QED BY <1>b, <1>c DEF NoModules

(* wpe-gpu-probe succeeds. *)
LEMMA ProbeSucceedsKeeps ==
  ASSUME NEW s \in Runs, Before(s), ProbeSucceeds(s) PROVE After(s)
<1> DEFINE r == [sup[s] EXCEPT !.pc = "launch", !.profile = "gpu"]
<1>1. r \in ShellType /\ r.pc = "launch" /\ r.owns = sup[s].owns /\ r.knows = sup[s].knows
  BY TypesBefore DEF ShellType, Places
<1>2. sup' = [sup EXCEPT ![s] = r] /\ sup[s].pc = "probe"
  BY TypesBefore DEF ProbeSucceeds, At, ShellType
<1>3. browser' = [browser EXCEPT ![s] = browser[s]] /\ UNCHANGED <<kernel, files, budget>>
  BY TypesBefore DEF ProbeSucceeds
<1> HIDE DEF r
<1>4. /\ TypeOKSup' /\ StaysIn(s) /\ sup'[s] = r /\ browser'[s] = browser[s]
  BY <1>1, <1>2, <1>3, Changes, TypesBefore
<1>5. ShellInv(s)'
  BY <1>1, <1>2, <1>4 DEF Before, ShellInv, BrowserAlive, Alive
<1>6. ModulesInv'
  BY <1>1, <1>3, <1>4, SameModules
<1>7. KeepsDeath(s) /\ KeepsStatus(s)
  BY <1>1, <1>2, <1>3, <1>4, GoesOn DEF Alive
<1> QED BY <1>4, <1>5, <1>6, <1>7 DEF After

(* It fails. *)
LEMMA ProbeFailsKeeps ==
  ASSUME NEW s \in Runs, Before(s), ProbeFails(s) PROVE After(s)
  BY WithoutGpuKeeps DEF ProbeFails, At

(* The shell forks: the browser starts under a shell that waits for it. *)
LEMMA LaunchKeeps ==
  ASSUME NEW s \in Runs, Before(s), Launch(s) PROVE After(s)
<1> DEFINE r == [sup[s] EXCEPT !.pc = "forked"]
           b == [NoBrowser EXCEPT !.st = "starting", !.gpu = sup[s].profile = "gpu"]
<1>1. r \in ShellType /\ r.pc = "forked" /\ r.owns = sup[s].owns /\ r.knows = sup[s].knows
  BY TypesBefore DEF ShellType, Places
<1>2. b \in BrowserType
  BY DEF NoBrowser, BrowserType, Codes
<1>3. sup' = [sup EXCEPT ![s] = r] /\ browser' = [browser EXCEPT ![s] = b] /\ sup[s].pc = "launch"
  BY Zenon DEF Launch, GoTo, At
<1>4. files' \in FilesType /\ files'.exit = files.exit
  BY TypesBefore DEF Launch, FilesType
<1>5. UNCHANGED <<kernel, budget>>
  BY DEF Launch
<1> HIDE DEF r, b
<1>6. /\ TypeOKSup' /\ StaysIn(s) /\ sup'[s] = r /\ browser'[s] = b
  BY <1>1, <1>2, <1>3, <1>4, <1>5, Changes, TypesBefore
<1>7. ShellInv(s)'
  BY <1>1, <1>3, <1>6 DEF Before, ShellInv, Alive
<1>8. ModulesInv'
  BY <1>1, <1>5, <1>6, SameModules
<1>9. KeepsDeath(s) /\ KeepsStatus(s)
  BY <1>1, <1>3, <1>4, <1>6 DEF KeepsDeath, KeepsStatus, Active, Alive, Doomed
<1> QED BY <1>6, <1>7, <1>8, <1>9 DEF After

(* BROWSER_PID is assigned. *)
LEMMA RecordKeeps ==
  ASSUME NEW s \in Runs, Before(s), Record(s) PROVE After(s)
<1> DEFINE r == [sup[s] EXCEPT !.pc = "waiting", !.knows = TRUE]
<1>1. r \in ShellType /\ r.pc = "waiting" /\ r.owns = sup[s].owns /\ r.knows
  BY TypesBefore DEF ShellType, Places
<1>2. sup' = [sup EXCEPT ![s] = r] /\ sup[s].pc = "forked"
  BY TypesBefore DEF Record, At, ShellType
<1>3. browser' = [browser EXCEPT ![s] = browser[s]] /\ UNCHANGED <<kernel, files, budget>>
  BY TypesBefore DEF Record
<1> HIDE DEF r
<1>4. /\ TypeOKSup' /\ StaysIn(s) /\ sup'[s] = r /\ browser'[s] = browser[s]
  BY <1>1, <1>2, <1>3, Changes, TypesBefore
<1>5. ShellInv(s)'
  BY <1>1, <1>2, <1>4 DEF Before, ShellInv, BrowserAlive, Alive
<1>6. ModulesInv'
  BY <1>1, <1>3, <1>4, SameModules
<1>7. KeepsDeath(s) /\ KeepsStatus(s)
  BY <1>1, <1>2, <1>3, <1>4, GoesOn DEF Alive
<1> QED BY <1>4, <1>5, <1>6, <1>7 DEF After

(* SIGTERM to the browser of s, as a record. *)
LEMMA QuitOne ==
  ASSUME NEW s \in Runs, Before(s)
  PROVE  \E b \in BrowserType :
           /\ Quit({s}) = [browser EXCEPT ![s] = b]
           /\ b.st = browser[s].st /\ b.listed = browser[s].listed
           /\ b.quit = (browser[s].quit \/ BrowserAlive(s))
<1> DEFINE b == IF BrowserAlive(s) THEN [browser[s] EXCEPT !.quit = TRUE] ELSE browser[s]
<1>1. /\ b \in BrowserType
      /\ b.st = browser[s].st /\ b.listed = browser[s].listed
      /\ b.quit = (browser[s].quit \/ BrowserAlive(s))
  BY TypesBefore DEF BrowserType
<1>2. Quit({s}) = [browser EXCEPT ![s] = b]
  BY TypesBefore DEF Quit
<1> QED BY <1>1, <1>2

(* A pending SIGTERM is handled. *)
LEMMA TrapKeeps ==
  ASSUME NEW s \in Runs, Before(s), Trap(s) PROVE After(s)
<1>a. Alive(s) /\ sup[s].sig > 0 /\ UNCHANGED <<kernel, files, budget>>
  BY DEF Trap
<1>1. PICK left \in 0 .. sup[s].sig - 1 :
        LET t == [sup[s] EXCEPT !.sig = left, !.term = TRUE] IN
        sup' = [sup EXCEPT ![s] =
                  CASE t.pc = "early"   -> Gone
                    [] t.pc = "waiting" -> [t EXCEPT !.pc = "final"]
                    [] t.pc = "final"   -> [t EXCEPT !.pc = "ended", !.status = 0,
                                                     !.knows = FALSE]
                    [] OTHER            -> t]
  BY DEF Trap
<1> DEFINE t == [sup[s] EXCEPT !.sig = left, !.term = TRUE]
           r == CASE t.pc = "early"   -> Gone
                  [] t.pc = "waiting" -> [t EXCEPT !.pc = "final"]
                  [] t.pc = "final"   -> [t EXCEPT !.pc = "ended", !.status = 0, !.knows = FALSE]
                  [] OTHER            -> t
<1>2. sup' = [sup EXCEPT ![s] = r]
  BY <1>1
<1>3. /\ t \in ShellType /\ t.pc = sup[s].pc /\ t.term /\ t.knows = sup[s].knows
      /\ t.owns = sup[s].owns /\ t.status = sup[s].status
  <2>1. left \in 0 .. 2
    BY TypesBefore DEF ShellType
  <2> QED BY <2>1, TypesBefore DEF ShellType
<1> HIDE DEF t
<1>4. /\ r \in ShellType /\ r.owns \in {sup[s].owns, {}}
      /\ \/ sup[s].pc = "early" /\ r = Gone
         \/ /\ sup[s].pc = "waiting" /\ r.pc = "final"
            /\ r.knows = sup[s].knows /\ r.term /\ r.owns = sup[s].owns
         \/ /\ sup[s].pc = "final" /\ r.pc = "ended" /\ r.status = 0 /\ ~r.knows
            /\ r.term /\ r.owns = sup[s].owns
         \/ /\ sup[s].pc \notin {"early", "waiting", "final"} /\ r.pc = sup[s].pc
            /\ r.status = sup[s].status
            /\ r.knows = sup[s].knows /\ r.term /\ r.owns = sup[s].owns
  <2>1. CASE sup[s].pc = "early"
    <3>1. r = Gone
      BY <1>3, <2>1
    <3> HIDE DEF r
    <3>2. Gone \in ShellType /\ Gone.owns = {}
      BY DEF Gone, ShellType, Places, Codes
    <3> QED BY <2>1, <3>1, <3>2
  <2>2. CASE sup[s].pc = "waiting"
    <3>1. r = [t EXCEPT !.pc = "final"]
      BY <1>3, <2>2
    <3> QED BY <1>3, <2>2, <3>1 DEF ShellType, Places
  <2>3. CASE sup[s].pc = "final"
    <3>1. r = [t EXCEPT !.pc = "ended", !.status = 0, !.knows = FALSE]
      BY <1>3, <2>3
    <3> QED BY <1>3, <2>3, <3>1 DEF ShellType, Places, Codes
  <2>4. CASE sup[s].pc \notin {"early", "waiting", "final"}
    <3>1. r = t
      BY <1>3, <2>4
    <3> QED BY <1>3, <2>4, <3>1
  <2> QED BY <2>1, <2>2, <2>3, <2>4
<1> HIDE DEF r
<1>5. PICK b \in BrowserType :
        /\ browser' = [browser EXCEPT ![s] = b]
        /\ b.st = browser[s].st /\ b.listed = browser[s].listed
        /\ b.quit = (browser[s].quit \/ (sup[s].knows /\ BrowserAlive(s)))
  <2>1. CASE sup[s].knows
    BY <2>1, QuitOne DEF Trap
  <2>2. CASE ~sup[s].knows
    BY <2>2, TypesBefore DEF Trap, BrowserType
  <2> QED BY <2>1, <2>2
<1>6. r.pc # "unborn" /\ Gone.pc = "gone" /\ Gone.owns = {} /\ ~Gone.knows
  BY <1>4, <1>a DEF Alive, Gone
<1>7. /\ TypeOKSup' /\ StaysIn(s) /\ sup'[s] = r /\ browser'[s] = b
  BY <1>a, <1>2, <1>4, <1>5, <1>6, Changes, TypesBefore DEF Alive
<1>8. ModulesInv'
  BY <1>a, <1>4, <1>7, SameModules
<1>9. BrowserAlive(s)' = BrowserAlive(s)
  BY <1>5, <1>7 DEF BrowserAlive, Executing
<1>10. ShellInv(s)'
  BY <1>a, <1>4, <1>5, <1>6, <1>7, <1>9 DEF Before, ShellInv, Alive
<1>11. KeepsDeath(s)
  BY <1>a, <1>4, <1>5, <1>6, <1>7, <1>9, TypesBefore
  DEF KeepsDeath, Before, ShellInv, Active, Alive, Doomed, BrowserType
<1> QED BY <1>a, <1>7, <1>8, <1>10, <1>11 DEF After, KeepsStatus

(* The browser is reaped. *)
LEMMA ReapKeeps ==
  ASSUME NEW s \in Runs, Before(s), Reap(s) PROVE After(s)
<1> DEFINE code == IF sup[s].term THEN 0 ELSE browser[s].code
           r == [sup[s] EXCEPT !.pc = "ended", !.knows = FALSE, !.status = code]
<1>0. code \in Codes
  BY TypesBefore DEF Codes, BrowserType
<1>1. r \in ShellType /\ r.pc = "ended" /\ r.owns = sup[s].owns /\ ~r.knows
  <2> HIDE DEF code
  <2> QED BY <1>0, TypesBefore DEF ShellType, Places
<1>2. sup' = [sup EXCEPT ![s] = r] /\ sup[s].pc \in {"waiting", "final"}
  BY TypesBefore DEF Reap, At, ShellType
<1>3. NoBrowser \in BrowserType /\ NoBrowser.st = "none"
  BY DEF NoBrowser, BrowserType, Codes
<1>4. browser' = [browser EXCEPT ![s] = NoBrowser] /\ UNCHANGED <<kernel, files, budget>>
  BY DEF Reap
<1> HIDE DEF r
<1>5. /\ TypeOKSup' /\ StaysIn(s) /\ sup'[s] = r /\ browser'[s] = NoBrowser
  BY <1>1, <1>2, <1>3, <1>4, Changes, TypesBefore
<1>6. ~BrowserAlive(s)'
  BY <1>3, <1>5 DEF BrowserAlive, Executing
<1>7. ShellInv(s)'
  BY <1>1, <1>2, <1>5, <1>6 DEF Before, ShellInv, Alive
<1>8. ModulesInv'
  BY <1>1, <1>4, <1>5, SameModules
<1>9. KeepsDeath(s) /\ KeepsStatus(s)
  BY <1>1, <1>2, <1>4, <1>5, <1>6 DEF KeepsDeath, KeepsStatus, Active, Alive, Doomed
<1> QED BY <1>5, <1>7, <1>8, <1>9 DEF After

(* The shell goes to another place after its browser ended. *)
LEMMA EndedGoesTo ==
  ASSUME NEW s \in Runs, Before(s), sup[s].pc = "ended", NEW place \in {"launch", "exit"},
         GoTo(s, place), place = "launch" => ~BrowserAlive(s),
         files' \in FilesType,
         files'.exit.reason # "none" => files'.exit = files.exit \/ files'.exit.run = s,
         UNCHANGED <<browser, kernel, budget>>
  PROVE  After(s)
<1> DEFINE r == [sup[s] EXCEPT !.pc = place]
<1>1. r \in ShellType /\ r.pc = place /\ r.owns = sup[s].owns /\ r.knows = sup[s].knows
  BY TypesBefore DEF ShellType, Places
<1>2. sup' = [sup EXCEPT ![s] = r]
  BY Zenon DEF GoTo
<1>3. browser' = [browser EXCEPT ![s] = browser[s]]
  BY TypesBefore
<1> HIDE DEF r
<1>4. /\ TypeOKSup' /\ StaysIn(s) /\ sup'[s] = r /\ browser'[s] = browser[s]
  BY <1>1, <1>2, <1>3, Changes, TypesBefore
<1>5. ShellInv(s)'
  BY <1>1, <1>2, <1>4 DEF Before, ShellInv, BrowserAlive, Alive
<1>6. ModulesInv'
  BY <1>1, <1>4, SameModules
<1>7. KeepsDeath(s) /\ KeepsStatus(s)
  BY <1>1, <1>4 DEF KeepsDeath, KeepsStatus, Active, Alive, Doomed, BrowserAlive
<1> QED BY <1>4, <1>5, <1>6, <1>7 DEF After

(* A shell that was not told to end has reaped the browser it waited for. *)
LEMMA EndedAlone ==
  ASSUME NEW s \in Runs, Before(s), sup[s].pc = "ended",
         ~sup[s].term \/ sup[s].status # 0
  PROVE  ~BrowserAlive(s)
  BY DEF Before, ShellInv

(* Another profile of the browser. *)
LEMMA NextProfileKeeps ==
  ASSUME NEW s \in Runs, Before(s), NextProfile(s) PROVE After(s)
<1>1. sup[s].pc = "ended" /\ GoTo(s, "launch") /\ UNCHANGED <<browser, kernel, files, budget>>
  BY DEF NextProfile, At
<1>2. ~BrowserAlive(s)
  BY <1>1, EndedAlone DEF NextProfile, SwitchesProfile
<1> QED BY <1>1, <1>2, EndedGoesTo, TypesBefore

(* The GPU failed before the first frame. *)
LEMMA FallBackKeeps ==
  ASSUME NEW s \in Runs, Before(s), FallBack(s) PROVE After(s)
<1>1. sup[s].pc = "ended" /\ UNCHANGED <<browser, files, budget>>
  BY DEF FallBack, At
<1>2. ~BrowserAlive(s)
  BY <1>1, EndedAlone DEF FallBack, FallsBack
<1>3. CASE sup[s].gpu = "required"
  <2>1. GoTo(s, "exit") /\ UNCHANGED kernel
    BY <1>3 DEF FallBack
  <2> QED BY <1>1, <2>1, EndedGoesTo, TypesBefore
<1>4. CASE sup[s].gpu # "required"
  <2> DEFINE n == [sup[s] EXCEPT !.pc = "launch", !.profile = "fallback"]
  <2>1. n \in ShellType /\ n.pc = "launch" /\ n.knows = sup[s].knows
    BY TypesBefore DEF ShellType, Places
  <2>2. CleanUp(s, n)
    BY <1>4 DEF FallBack
  <2> HIDE DEF n
  <2>3. ~sup[s].knows
    BY <1>1 DEF Before, ShellInv
  <2> QED BY <1>1, <1>2, <2>1, <2>2, <2>3, CleanUpKeeps
<1> QED BY <1>3, <1>4

(* The GPU was switched on or off. *)
LEMMA GpuRestartKeeps ==
  ASSUME NEW s \in Runs, Before(s), GpuRestart(s) PROVE After(s)
<1> DEFINE n == [sup[s] EXCEPT !.pc = "select"]
<1>1. /\ sup[s].pc = "ended" /\ UNCHANGED <<browser, files, budget>>
      /\ sup[s].status = 73
  BY DEF GpuRestart, At
<1>2. n \in ShellType /\ n.pc = "select" /\ n.knows = sup[s].knows
  BY TypesBefore DEF ShellType, Places
<1>3. CleanUp(s, n)
  BY DEF GpuRestart
<1> HIDE DEF n
<1>4. ~sup[s].knows /\ ~BrowserAlive(s)
  BY <1>1, EndedAlone DEF Before, ShellInv
<1> QED BY <1>1, <1>2, <1>3, <1>4, CleanUpKeeps

(* The exit status is written. *)
LEMMA FinishKeeps ==
  ASSUME NEW s \in Runs, Before(s), Finish(s) PROVE After(s)
<1> DEFINE e == WrittenStatus(s)
<1>1. /\ sup[s].pc = "ended" /\ GoTo(s, "exit") /\ files' = [files EXCEPT !.exit = e]
      /\ UNCHANGED <<browser, kernel, budget>>
  BY DEF Finish, At
<1>2. e \in ExitType /\ (e.reason # "none" => e = files.exit \/ e.run = s)
  <2>1. files.exit \in ExitType /\ files.mode \in DisplayModes /\ s \in 0 .. MaxRuns
    BY TypesBefore, BoundsAssumption DEF FilesType, Runs
  <2>2. \/ e = NoStatus \/ e = files.exit
        \/ e = [reason |-> "rotation_change", mode |-> files.mode, run |-> s]
        \/ e = [reason |-> "user_shutdown", mode |-> "none", run |-> s]
        \/ e = [reason |-> "failed", mode |-> "none", run |-> s]
    BY DEF WrittenStatus
  <2> QED BY <2>1, <2>2, NoStatusType DEF ExitType, NoStatus
<1> HIDE DEF e
<1>3. files' \in FilesType /\ files'.exit = e
  BY <1>1, <1>2, TypesBefore DEF FilesType
<1> QED BY <1>1, <1>2, <1>3, EndedGoesTo

(* The EXIT trap. *)
LEMMA ExitKeeps ==
  ASSUME NEW s \in Runs, Before(s), Exit(s) PROVE After(s)
  BY CleanUpKeeps DEF Exit, At

(* The kernel kills the shell: out of a call, so nobody counts on its end. *)
LEMMA OutOfMemoryKeeps ==
  ASSUME NEW s \in Runs, Before(s), OutOfMemory(s), call.op = "none" PROVE After(s)
<1>1. Gone \in ShellType /\ Gone.pc = "gone" /\ Gone.owns = {} /\ ~Gone.knows
  BY DEF Gone, ShellType, Places, Codes
<1>2. /\ Alive(s) /\ sup' = [sup EXCEPT ![s] = Gone] /\ sup[s].pc # "unborn"
  BY TypesBefore DEF OutOfMemory, Shot, Alive
<1>3. browser' = [browser EXCEPT ![s] = browser[s]] /\ UNCHANGED <<kernel, files>>
  BY TypesBefore DEF OutOfMemory
<1>4. budget' \in 0 .. MaxEvents
  BY TypesBefore, BoundsAssumption DEF OutOfMemory, Spend
<1>5. /\ TypeOKSup' /\ StaysIn(s) /\ sup'[s] = Gone /\ browser'[s] = browser[s]
  BY <1>1, <1>2, <1>3, <1>4, Changes, TypesBefore
<1>6. ShellInv(s)'
  BY <1>1, <1>2, <1>5 DEF Before, ShellInv, BrowserAlive, Alive
<1>7. ModulesInv'
  BY <1>1, <1>3, <1>5, SameModules
<1>8. KeepsDeath(s) /\ KeepsStatus(s)
  BY <1>1, <1>3, <1>5 DEF KeepsDeath, KeepsStatus, Active, Alive, BrowserAlive
<1> QED BY <1>5, <1>6, <1>7, <1>8 DEF After

(* A browser that exists changes: it draws its first frame, or it ends.      *)
LEMMA BrowserChanges ==
  ASSUME NEW s \in Runs, Before(s), BrowserAlive(s), NEW b \in BrowserType,
         browser' = [browser EXCEPT ![s] = b],
         b.listed = browser[s].listed, b.quit = browser[s].quit,
         files' \in FilesType, files'.exit = files.exit, budget' \in 0 .. MaxEvents,
         UNCHANGED <<sup, kernel>>
  PROVE  After(s)
<1>1. sup' = [sup EXCEPT ![s] = sup[s]] /\ sup[s].pc # "unborn"
  BY TypesBefore DEF Before, ShellInv
<1>2. /\ TypeOKSup' /\ StaysIn(s) /\ sup'[s] = sup[s] /\ browser'[s] = b
  BY <1>1, Changes, TypesBefore
<1>3. ShellInv(s)'
  BY <1>2 DEF Before, ShellInv, Alive
<1>4. ModulesInv'
  BY <1>2, SameModules
<1>5. KeepsDeath(s) /\ KeepsStatus(s)
  BY <1>2 DEF KeepsDeath, KeepsStatus, Active, Alive, Doomed
<1> QED BY <1>2, <1>3, <1>4, <1>5 DEF After

(* on_buffer_rendered. *)
LEMMA FirstFrameKeeps ==
  ASSUME NEW s \in Runs, Before(s), FirstFrame(s) PROVE After(s)
<1> DEFINE b == [browser[s] EXCEPT !.st = "running"]
<1>1. b \in BrowserType /\ b.listed = browser[s].listed /\ b.quit = browser[s].quit
  BY TypesBefore DEF BrowserType
<1>2. browser' = [browser EXCEPT ![s] = b]
  BY Zenon DEF FirstFrame
<1>3. files' \in FilesType /\ files'.exit = files.exit
  BY TypesBefore DEF FirstFrame, FilesType, BrowserType
<1>4. BrowserAlive(s) /\ UNCHANGED <<sup, kernel, budget>>
  BY DEF FirstFrame, BrowserAlive, Executing
<1> HIDE DEF b
<1> QED BY <1>1, <1>2, <1>3, <1>4, BrowserChanges, TypesBefore

(* The browser exits with some code. *)
LEMMA ExitedType ==
  ASSUME NEW s \in Runs, Before(s), NEW code \in Codes
  PROVE  LET b == [browser[s] EXCEPT !.st = "exited", !.code = code]
         IN b \in BrowserType /\ b.listed = browser[s].listed /\ b.quit = browser[s].quit
  BY TypesBefore DEF BrowserType

(* By itself. *)
LEMMA BrowserEndsKeeps ==
  ASSUME NEW s \in Runs, Before(s), BrowserEnds(s) PROVE After(s)
<1>1. BrowserAlive(s) /\ UNCHANGED <<sup, kernel, files, budget>>
  BY DEF BrowserEnds
<1>2. PICK code \in Codes :
        browser' = [browser EXCEPT ![s] = [@ EXCEPT !.st = "exited", !.code = code]]
  BY DEF BrowserEnds, Codes
<1> DEFINE b == [browser[s] EXCEPT !.st = "exited", !.code = code]
<1>3. browser' = [browser EXCEPT ![s] = b]
  BY <1>2, Zenon
<1>4. b \in BrowserType /\ b.listed = browser[s].listed /\ b.quit = browser[s].quit
  BY ExitedType
<1> HIDE DEF b
<1> QED BY <1>1, <1>3, <1>4, BrowserChanges, TypesBefore

(* Because the user asked for another display, GPU or profile. *)
LEMMA UserRestartsKeeps ==
  ASSUME NEW s \in Runs, Before(s), UserRestarts(s) PROVE After(s)
<1>1. BrowserAlive(s) /\ UNCHANGED <<sup, kernel>> /\ budget' \in 0 .. MaxEvents
  BY TypesBefore, BoundsAssumption DEF UserRestarts, Spend
<1>2. PICK code \in {72, 73, 75} :
        /\ browser' = [browser EXCEPT ![s] = [@ EXCEPT !.st = "exited", !.code = code]]
        /\ CASE code = 72 -> \E m \in DisplayModes \ {files.mode}:
                               files' = [files EXCEPT !.mode = m]
             [] code = 73 -> \E g \in {"auto", "off"}:
                               files' = [files EXCEPT !.gpu = g]
             [] code = 75 -> UNCHANGED files
  BY DEF UserRestarts
<1> DEFINE b == [browser[s] EXCEPT !.st = "exited", !.code = code]
<1>3. browser' = [browser EXCEPT ![s] = b]
  BY <1>2, Zenon
<1>4. b \in BrowserType /\ b.listed = browser[s].listed /\ b.quit = browser[s].quit
  <2>1. code \in Codes
    BY DEF Codes
  <2> QED BY <2>1, ExitedType
<1>5. files' \in FilesType /\ files'.exit = files.exit
  <2>1. \/ \E m \in DisplayModes : files' = [files EXCEPT !.mode = m]
        \/ \E g \in {"auto", "off"} : files' = [files EXCEPT !.gpu = g]
        \/ UNCHANGED files
    BY <1>2
  <2> QED BY <2>1, TypesBefore DEF FilesType
<1> HIDE DEF b
<1> QED BY <1>1, <1>3, <1>4, <1>5, BrowserChanges

-----------------------------------------------------------------------------
(* The same of all the steps the shell and the browser of s can take.        *)
LEMMA ShellKeeps ==
  ASSUME NEW s \in Runs, Before(s),
         \/ ShellStep(s) \/ FirstFrame(s) \/ BrowserEnds(s) \/ UserRestarts(s)
         \/ OutOfMemory(s) /\ call.op = "none"
  PROVE  After(s)
<1>1. CASE ShellStep(s)
  BY <1>1, BootKeeps, BootFailsKeeps, LoadModulesKeeps, NoModulesKeeps, ProbeSucceedsKeeps,
     ProbeFailsKeeps, LaunchKeeps, RecordKeeps, TrapKeeps, ReapKeeps, NextProfileKeeps,
     FallBackKeeps, GpuRestartKeeps, FinishKeeps, ExitKeeps, Zenon DEF ShellStep
<1> QED BY <1>1, FirstFrameKeeps, BrowserEndsKeeps, UserRestartsKeeps, OutOfMemoryKeeps, Zenon

-----------------------------------------------------------------------------
(* A step of one shell keeps the order of the runs ...                     *)
LEMMA RunsKept ==
  ASSUME NEW s \in Runs, TypeOKSup, \A t \in Runs : ShellInv(t), RunsInv, CallInv,
         After(s), UNCHANGED pageVars
  PROVE  RunsInv'
<1>1. \A t \in Runs : sup'[t].pc = "unborn" <=> sup[t].pc = "unborn"
  BY DEF After, StaysIn
<1>2. \A t \in Runs : Latest(t)' <=> Latest(t)
  BY <1>1 DEF Latest
<1>3. \A t \in Runs \ {s} : (Active(t)' <=> Active(t)) /\ (BrowserAlive(t)' <=> BrowserAlive(t))
  BY DEF After, StaysIn, Active, Alive, Doomed, BrowserAlive
<1>4. \A t \in Runs : Active(t)' => Active(t)
  BY <1>3 DEF After, KeepsDeath
<1>5. \A t \in Runs : BrowserAlive(t)' => BrowserAlive(t) \/ Active(t)
  BY <1>3 DEF After, KeepsDeath
<1>6. pidFile' = pidFile
  BY DEF pageVars
<1>7. \A a, t \in Runs : a < t /\ sup'[t].pc # "unborn" => sup'[a].pc # "unborn"
  BY <1>1 DEF RunsInv
<1>8. \A t \in Runs : Active(t)' => pidFile' = t /\ Latest(t)'
  BY <1>2, <1>4, <1>6 DEF RunsInv
<1>9. \A t \in Runs : BrowserAlive(t)' => Latest(t)'
  BY <1>2, <1>5 DEF RunsInv
<1>10. files'.exit.reason # "none" => \A t \in Runs : t > files'.exit.run => sup'[t].pc = "unborn"
  <2>1. CASE files'.exit = files.exit
    BY <1>1, <2>1 DEF RunsInv
  <2>2. CASE Active(s) /\ files'.exit.run = s
    BY <1>1, <2>2 DEF RunsInv, Latest
  <2> QED BY <2>1, <2>2 DEF After, KeepsStatus
<1> QED BY <1>7, <1>8, <1>9, <1>10 DEF RunsInv

(* ... and what a native call has made sure of.                             *)
LEMMA CallKept ==
  ASSUME NEW s \in Runs, TypeOKSup, \A t \in Runs : ShellInv(t), RunsInv, CallInv,
         After(s), UNCHANGED pageVars
  PROVE  CallInv'
<1>1. \A t \in Runs \ {s} : /\ Active(t)' <=> Active(t)
                            /\ BrowserAlive(t)' <=> BrowserAlive(t)
                            /\ browser'[t] = browser[t]
  BY DEF After, StaysIn, Active, Alive, Doomed, BrowserAlive
<1>2. \A t \in Runs : Active(t)' => Active(t)
  BY <1>1 DEF After, KeepsDeath
<1>3. /\ BrowserAlive(s)' =>
           \/ /\ BrowserAlive(s) /\ browser'[s].listed = browser[s].listed
              /\ browser[s].quit => browser'[s].quit
           \/ (Active(s) /\ Active(s)')
      /\ call.op # "none" /\ Active(s) /\ ~Active(s)' /\ BrowserAlive(s)' => browser'[s].quit
  BY DEF After, KeepsDeath
<1>4. page' = page /\ call' = call /\ pidFile' = pidFile
  BY DEF pageVars
<1>5. HasNoBrowser' <=> HasNoBrowser
  BY <1>4 DEF HasNoBrowser, Here
<1>6. call.op # "none" /\ call.at \in {"list", "sweep", "swept", "fork"} =>
        \A t \in Runs : ~Active(t)'
  BY <1>2 DEF CallInv
<1>7. call.op = "start" /\ call.at \in {"sweep", "swept"} =>
        \A t \in Runs : BrowserAlive(t)' => browser'[t].listed
  BY <1>1, <1>3 DEF CallInv
<1>8. call.op = "start" /\ call.at = "fork" => \A t \in Runs : ~BrowserAlive(t)'
  BY <1>1, <1>3 DEF CallInv
<1>9. call.op = "stop" /\ call.at \in {"term", "wait", "sweep"} =>
        \A t \in Runs : BrowserAlive(t)' /\ ~Active(t)' => browser'[t].listed \/ browser'[t].quit
  BY <1>1, <1>3 DEF CallInv
<1>10. call.op = "stop" /\ call.at = "swept" =>
         \A t \in Runs : BrowserAlive(t)' => browser'[t].quit
  BY <1>1, <1>3 DEF CallInv
<1>11. call.op = "none" /\ HasNoBrowser =>
         \A t \in Runs : ~Active(t)' /\ (BrowserAlive(t)' => browser'[t].quit)
  BY <1>1, <1>2, <1>3 DEF CallInv
<1>12. call.op # "none" /\ call.at \in {"term", "wait"} => call.run \in Runs /\ pidFile = call.run
  BY DEF CallInv
<1> QED BY <1>4, <1>5, <1>6, <1>7, <1>8, <1>9, <1>10, <1>11, <1>12 DEF CallInv

(* A shell that owns modules, or could come to, is the last one. *)
LEMMA AloneIs ==
  ASSUME NEW s \in Runs, \A t \in Runs : ShellInv(t), RunsInv
  PROVE  Alone(s)
<1> SUFFICES ASSUME Alive(s), sup[s].pc # "early", NEW t \in Runs \ {s}
             PROVE  sup[t].owns = {}
  BY DEF Alone
<1>1. CASE ~Alive(t) \/ sup[t].pc = "early"
  BY <1>1 DEF ShellInv
<1>2. CASE Alive(t) /\ sup[t].pc # "early"
  <2>1. Active(s) /\ Active(t)
    BY <1>2 DEF Active, Doomed
  <2>2. pidFile = s /\ pidFile = t
    BY <2>1 DEF RunsInv
  <2> QED BY <2>2
<1> QED BY <1>1, <1>2

(* A step of the shell or of the browser. *)
LEMMA SupNextKeeps ==
  ASSUME IInv, (SupNext \/ KilledShell) /\ UNCHANGED pageVars
  PROVE  IInv'
<1>1. PICK s \in Runs : \/ ShellStep(s) \/ FirstFrame(s) \/ BrowserEnds(s) \/ UserRestarts(s)
                        \/ OutOfMemory(s) /\ call.op = "none"
  BY DEF SupNext, KilledShell
<1>2. Before(s)
  BY AloneIs DEF IInv, Before, TypeOK
<1>3. After(s)
  BY <1>1, <1>2, ShellKeeps
<1>4. TypeOKSup' /\ ModulesInv'
  BY <1>3 DEF After
<1>5. page' = page /\ call' = call /\ pidFile' = pidFile
  BY DEF pageVars
<1>6. TypeOK'
  BY <1>4, <1>5 DEF IInv, TypeOK
<1>7. \A t \in Runs : ShellInv(t)'
  BY <1>3 DEF After, StaysIn, IInv, ShellInv, Alive, BrowserAlive
<1>8. RunsInv' /\ CallInv'
  BY <1>3, RunsKept, CallKept DEF IInv, TypeOK
<1>9. StartInv'
  BY <1>5 DEF IInv, StartInv, Here
<1> QED BY <1>4, <1>6, <1>7, <1>8, <1>9 DEF IInv

-----------------------------------------------------------------------------
(* The page's own handlers.                                                 *)
PageType ==
  [here: {"no", "yes", "unloaded"}, visible: BOOLEAN, running: BOOLEAN,
   starting: BOOLEAN, leaving: BOOLEAN, returned: BOOLEAN,
   watching: BOOLEAN, timer: BOOLEAN, rotation: BOOLEAN,
   navigation: BOOLEAN, resolving: SUBSET Resolutions,
   override: DisplayModes \cup {"none"},
   keyboard: BOOLEAN, inactive: {"no", "due", "armed"}]
CallType ==
  [op: {"none", "start", "stop"},
   at: {"none", "look", "term", "wait", "list", "sweep", "swept", "fork"},
   run: 0 .. MaxRuns, mode: DisplayModes \cup {"none"}, return: BOOLEAN]

(* Nothing of a start is under way in the page p. *)
Quiet(p) == ~p.timer /\ \A r \in p.resolving : ~r.fresh

(* At most one start is: its timer, or the look-up of its options.          *)
OneStart(p) ==
  /\ p.timer => p.starting
  /\ \A r \in p.resolving : r.fresh =>
       /\ p.starting /\ ~p.timer
       /\ \A q \in p.resolving : q.fresh => q = r

(* The types of the page and of the call, by the names used here.           *)
LEMMA TypesOfPage ==
  TypeOK <=> /\ TypeOKSup /\ page \in PageType /\ call \in CallType
             /\ pidFile \in 0 .. MaxRuns
  BY DEF TypeOK, PageType, CallType

(* Out of a native call.                                                    *)
LEMMA NoCallType == NoCall \in CallType /\ NoCall.op = "none"
  BY BoundsAssumption DEF NoCall, CallType

(* The call of stopBrowser begins with a look at the identity file.         *)
LEMMA StopCallType ==
  ASSUME NEW back \in BOOLEAN
  PROVE  StopCall(back) \in CallType /\ StopCall(back).op = "stop" /\ StopCall(back).at = "look"
  BY NoCallType DEF StopCall, CallType

(* Where the page stands, whatever its timers do. *)
SameSight(p, q) == q.here = p.here /\ q.visible = p.visible /\ q.leaving = p.leaving
SameKeyboard(p, q) == q.keyboard = p.keyboard /\ q.inactive = p.inactive

(* cancelPendingStart. *)
LEMMA CancelledIs ==
  ASSUME NEW p \in PageType
  PROVE  /\ Cancelled(p) \in PageType /\ Quiet(Cancelled(p)) /\ ~Cancelled(p).starting
         /\ SameSight(p, Cancelled(p)) /\ SameKeyboard(p, Cancelled(p))
<1> DEFINE old == {[r EXCEPT !.fresh = FALSE] : r \in p.resolving}
<1>1. old \in SUBSET Resolutions /\ \A r \in old : ~r.fresh
  <2>1. \A r \in p.resolving : r \in Resolutions
    BY DEF PageType
  <2>2. \A r \in Resolutions : /\ [r EXCEPT !.fresh = FALSE] \in Resolutions
                               /\ ~[r EXCEPT !.fresh = FALSE].fresh
    BY DEF Resolutions
  <2> QED BY <2>1, <2>2
<1>2. Cancelled(p) = [p EXCEPT !.starting = FALSE, !.timer = FALSE, !.rotation = FALSE,
                               !.navigation = FALSE, !.resolving = old]
  BY DEF Cancelled
<1> HIDE DEF old
<1> QED BY <1>1, <1>2 DEF PageType, Quiet, SameSight, SameKeyboard

(* The keyboard closes, if it is open. *)
LEMMA WithoutKeyboardIs ==
  ASSUME NEW p \in PageType
  PROVE  /\ WithoutKeyboard(p) \in PageType
         /\ SameSight(p, WithoutKeyboard(p)) /\ ~WithoutKeyboard(p).keyboard
         /\ WithoutKeyboard(p).timer = p.timer /\ WithoutKeyboard(p).starting = p.starting
         /\ WithoutKeyboard(p).resolving = p.resolving
         /\ WithoutKeyboard(p).inactive = "no" => ~p.keyboard /\ p.inactive = "no"
<1>1. CASE p.keyboard
  <2>1. WithoutKeyboard(p) = [p EXCEPT !.keyboard = FALSE, !.inactive = "due"]
    BY <1>1 DEF WithoutKeyboard
  <2> QED BY <2>1 DEF PageType, SameSight
<1>2. CASE ~p.keyboard
  BY <1>2 DEF WithoutKeyboard, SameSight
<1> QED BY <1>1, <1>2

(* stop() up to its native call.                                            *)
LEMMA StoppedIs ==
  ASSUME NEW p \in PageType
  PROVE  /\ Stopped(p) \in PageType /\ Quiet(Stopped(p))
         /\ SameSight(p, Stopped(p))
<1> DEFINE q == [Cancelled(p) EXCEPT !.watching = FALSE, !.running = FALSE]
<1>1. q \in PageType /\ q.timer = Cancelled(p).timer /\ q.resolving = Cancelled(p).resolving
      /\ SameSight(Cancelled(p), q)
  <2> HIDE DEF q
  <2>1. Cancelled(p) \in PageType /\ q = [Cancelled(p) EXCEPT !.watching = FALSE, !.running = FALSE]
    BY CancelledIs DEF q
  <2> QED BY <2>1 DEF PageType, SameSight
<1>2. Stopped(p) = WithoutKeyboard(q)
  BY DEF Stopped
<1> HIDE DEF q
<1> QED BY <1>1, <1>2, CancelledIs, WithoutKeyboardIs DEF Quiet, SameSight

(* leaveFrame: the page leaves already, or it is stopped by a native call.   *)
LEMMA LeaveFrameIs ==
  ASSUME NEW p \in PageType, LeaveFrame(p)
  PROVE  /\ page' \in PageType /\ call' \in CallType
         /\ page'.here = p.here /\ page'.visible = p.visible /\ page'.leaving
         /\ \/ p.leaving /\ page' = p /\ call' = NoCall
            \/ call'.op = "stop" /\ call'.at = "look" /\ Quiet(page')
<1>1. CASE p.leaving
  BY <1>1, NoCallType DEF LeaveFrame
<1>2. CASE ~p.leaving
  <2> DEFINE q == [p EXCEPT !.leaving = TRUE]
  <2>1. q \in PageType /\ q.leaving /\ q.here = p.here /\ q.visible = p.visible
    BY DEF PageType
  <2>2. page' = Stopped(q) /\ call' = StopCall(TRUE)
    BY <1>2 DEF LeaveFrame
  <2> HIDE DEF q
  <2> QED BY <2>1, <2>2, StoppedIs, StopCallType DEF SameSight
<1> QED BY <1>1, <1>2

(* start(): adopts, or arms the timer of the only start. *)
LEMMA StartIs ==
  ASSUME NEW p \in PageType, OneStart(p), Start(p),
         ~p.starting => Quiet(p)
  PROVE  /\ page' \in PageType /\ OneStart(page')
         /\ SameSight(p, page') /\ SameKeyboard(p, page')
         /\ pidFile' = pidFile \/ (pidFile' = 0 /\ ~Recorded)
<1>1. \/ page' = p /\ pidFile' = pidFile
      \/ page' = [p EXCEPT !.running = TRUE, !.watching = TRUE] /\ pidFile' = pidFile
      \/ /\ page' = [p EXCEPT !.starting = TRUE, !.timer = TRUE] /\ ~p.starting
         /\ pidFile' = 0 /\ ~Recorded
  BY DEF Start
<1> QED BY <1>1 DEF PageType, OneStart, Quiet, SameSight, SameKeyboard

(* What every handler of the page keeps: the shells and browsers are as they *)
(* were, and only a native call makes sure that there are none.             *)
LEMMA PageKeeps ==
  ASSUME IInv, UNCHANGED <<sup, browser, kernel>>,
         files' \in FilesType, files'.exit \in {files.exit, NoStatus},
         budget' \in 0 .. MaxEvents,
         page' \in PageType, OneStart(page'), call' \in CallType,
         pidFile' = pidFile \/ (pidFile' = 0 /\ ~Recorded),
         \/ /\ call'.op = "none" /\ call.op = "none"
            /\ HasNoBrowser' => HasNoBrowser
         \/ call'.op = "stop" /\ call'.at = "look"
         \/ /\ call'.op = "start" /\ call'.at = "look"
            /\ Here' /\ page'.starting /\ page'.visible /\ ~page'.leaving /\ Quiet(page')
            /\ call'.mode \in DisplayModes
  PROVE  IInv'
<1>1. TypeOKSup /\ page \in PageType /\ call \in CallType /\ pidFile \in 0 .. MaxRuns
  BY TypesOfPage DEF IInv
<1>2. TypeOKSup'
  BY <1>1 DEF TypeOKSup, FilesType, ExitType
<1>3. TypeOK'
  <2>1. pidFile' \in 0 .. MaxRuns
    BY <1>1, BoundsAssumption
  <2> QED BY <1>2, <2>1 DEF TypeOK, PageType, CallType
<1>4. \A s \in Runs : ShellInv(s)'
  BY DEF IInv, ShellInv, Alive, BrowserAlive
<1>5. RunsInv'
  <2>1. \A s \in Runs : (Active(s)' <=> Active(s)) /\ (BrowserAlive(s)' <=> BrowserAlive(s))
                        /\ (Latest(s)' <=> Latest(s))
    BY DEF Active, Alive, Doomed, BrowserAlive, Latest
  <2>2. \A s \in Runs : Active(s) => Recorded
    BY BoundsAssumption DEF IInv, RunsInv, Active, Recorded, Runs
  <2>3. files'.exit.reason # "none" => files'.exit = files.exit
    BY DEF NoStatus
  <2> QED BY <2>1, <2>2, <2>3 DEF IInv, RunsInv
<1>6. ModulesInv'
  BY DEF IInv, ModulesInv
<1>7. StartInv'
  BY DEF IInv, StartInv, OneStart, Quiet
<1>8. CallInv'
  BY DEF IInv, CallInv, Active, Alive, Doomed, BrowserAlive
<1> QED BY <1>3, <1>4, <1>5, <1>6, <1>7, <1>8 DEF IInv

(* The page before a handler. *)
LEMMA PageBefore ==
  ASSUME IInv
  PROVE  /\ page \in PageType /\ call \in CallType /\ pidFile \in 0 .. MaxRuns
         /\ files \in FilesType /\ budget \in 0 .. MaxEvents
         /\ OneStart(page) /\ (~page.starting => Quiet(page))
<1>1. /\ page \in PageType /\ call \in CallType /\ pidFile \in 0 .. MaxRuns
      /\ files \in FilesType /\ budget \in 0 .. MaxEvents
  BY TypesOfPage, TypesOfSup DEF IInv
<1>2. OneStart(page) /\ (~page.starting => Quiet(page))
  BY DEF IInv, StartInv, OneStart, Quiet
<1> QED BY <1>1, <1>2

(* The bound on users and kernel.                                           *)
LEMMA Spends ==
  ASSUME IInv, Spend PROVE budget' \in 0 .. MaxEvents
  BY PageBefore, BoundsAssumption DEF Spend

(* No start is at most one.                                                 *)
LEMMA QuietIsOne ==
  ASSUME NEW p, Quiet(p) PROVE OneStart(p)
  BY DEF Quiet, OneStart

(* A page that is not visible has no start, once nothing is under way.       *)
LEMMA MountKeeps ==
  ASSUME IInv, Mount PROVE IInv'
<1> DEFINE p == [NoPage EXCEPT !.here = "yes", !.visible = TRUE]
<1>1. p \in PageType /\ Quiet(p) /\ p.here = "yes" /\ p.visible /\ ~p.leaving
  <2>1. NoPage \in PageType /\ Quiet(NoPage) /\ ~NoPage.leaving
    BY DEF NoPage, PageType, Quiet
  <2> QED BY <2>1 DEF PageType, Quiet
<1>2. Start(p) /\ Spend /\ call.op = "none" /\ UNCHANGED <<sup, browser, kernel, files, call>>
  BY DEF Mount
<1> HIDE DEF p
<1>3. /\ page' \in PageType /\ OneStart(page') /\ SameSight(p, page')
      /\ pidFile' = pidFile \/ (pidFile' = 0 /\ ~Recorded)
  BY <1>1, <1>2, QuietIsOne, StartIs
<1>4. ~HasNoBrowser'
  BY <1>1, <1>3 DEF HasNoBrowser, Here, SameSight
<1> QED BY <1>2, <1>3, <1>4, PageBefore, PageKeeps, Spends

(* onShow: a page that leaves is sent on, another one starts.               *)
LEMMA OnShowKeeps ==
  ASSUME IInv, OnShow PROVE IInv'
<1> DEFINE place == IF page.inactive = "armed" THEN "no" ELSE page.inactive
           p == [page EXCEPT !.visible = TRUE, !.inactive = place]
<1>1. place \in {"no", "due", "armed"}
  BY PageBefore DEF PageType
<1>2. /\ call.op = "none" /\ Here /\ UNCHANGED <<sup, browser, kernel, files, budget, call>>
      /\ IF p.leaving THEN page' = ScheduleReturn(p) /\ UNCHANGED pidFile ELSE Start(p)
  BY DEF OnShow, Idle, supVars
<1> HIDE DEF place
<1>3. /\ p \in PageType /\ p.here = page.here /\ p.visible /\ p.leaving = page.leaving
      /\ OneStart(p) /\ (~p.starting => Quiet(p))
  BY <1>1, PageBefore DEF PageType, OneStart, Quiet
<1> HIDE DEF p
<1>4. /\ page' \in PageType /\ OneStart(page') /\ SameSight(p, page')
      /\ pidFile' = pidFile \/ (pidFile' = 0 /\ ~Recorded)
  <2>1. CASE p.leaving
    BY <1>2, <1>3, <2>1 DEF ScheduleReturn, PageType, OneStart, SameSight
  <2>2. CASE ~p.leaving
    BY <1>2, <1>3, <2>2, StartIs
  <2> QED BY <2>1, <2>2
<1>5. HasNoBrowser' => HasNoBrowser
  BY <1>2, <1>3, <1>4 DEF HasNoBrowser, Here, SameSight
<1> QED BY <1>2, <1>4, <1>5, PageBefore, PageKeeps

(* onHide: the browser is stopped, unless the keyboard hides the page.      *)
LEMMA OnHideKeeps ==
  ASSUME IInv, OnHide PROVE IInv'
<1> DEFINE h == [page EXCEPT !.visible = FALSE]
           p == Cancelled(h)
<1>1. h \in PageType /\ h.keyboard = page.keyboard /\ h.leaving = page.leaving
      /\ h.here = page.here
  BY PageBefore DEF PageType
<1>2. /\ call.op = "none" /\ Here /\ page.visible
      /\ UNCHANGED <<sup, browser, kernel, files, pidFile>> /\ budget' \in 0 .. MaxEvents
      /\ \/ p.keyboard /\ page' = p /\ UNCHANGED call
         \/ page' = Stopped(p) /\ call' = StopCall(FALSE)
  BY Spends, PageBefore DEF OnHide, Idle
<1> HIDE DEF h
<1>3. /\ p \in PageType /\ Quiet(p) /\ SameSight(h, p) /\ SameKeyboard(h, p)
  BY <1>1, CancelledIs
<1> HIDE DEF p
<1>4. CASE p.keyboard /\ page' = p /\ UNCHANGED call
  <2>1. HasNoBrowser' => HasNoBrowser
    BY <1>1, <1>2, <1>3, <1>4 DEF HasNoBrowser, Here, SameSight, SameKeyboard
  <2> QED BY <1>2, <1>3, <1>4, <2>1, PageBefore, PageKeeps, QuietIsOne
<1>5. CASE page' = Stopped(p) /\ call' = StopCall(FALSE)
  BY <1>2, <1>3, <1>5, PageBefore, PageKeeps, QuietIsOne, StoppedIs, StopCallType
<1> QED BY <1>2, <1>4, <1>5

(* onUnload stops the browser.                                              *)
LEMMA OnUnloadKeeps ==
  ASSUME IInv, OnUnload PROVE IInv'
<1>1. Stopped(page) \in PageType /\ Quiet(Stopped(page))
  BY PageBefore, StoppedIs
<1>2. /\ page' = [Stopped(page) EXCEPT !.here = "unloaded", !.visible = FALSE, !.inactive = "no"]
      /\ call' = StopCall(FALSE)
      /\ UNCHANGED <<sup, browser, kernel, files, budget, pidFile>>
  BY DEF OnUnload, supVars
<1>3. page' \in PageType /\ Quiet(page')
  BY <1>1, <1>2 DEF PageType, Quiet
<1> QED BY <1>2, <1>3, PageBefore, PageKeeps, QuietIsOne, StopCallType

(* The timer of start(): its only look-up begins. *)
LEMMA StartTimerKeeps ==
  ASSUME IInv, StartTimer PROVE IInv'
<1> DEFINE r == [fresh |-> TRUE, mode |-> ModeOf(page)]
<1>1. r \in Resolutions
  BY PageBefore, LaunchAssumption DEF ModeOf, Resolutions, PageType, FilesType
<1>2. /\ call.op = "none" /\ page.timer
      /\ page' = [page EXCEPT !.timer = FALSE, !.resolving = @ \cup {r}]
      /\ UNCHANGED <<sup, browser, kernel, files, budget, call, pidFile>>
  BY DEF StartTimer, supVars, Idle
<1> HIDE DEF r
<1>3. page' \in PageType /\ SameSight(page, page') /\ SameKeyboard(page, page')
  BY <1>1, <1>2, PageBefore DEF PageType, SameSight, SameKeyboard
<1>4. OneStart(page')
  <2>1. page.starting /\ \A q \in page.resolving : ~q.fresh
    BY <1>2, PageBefore DEF OneStart
  <2>2. page'.starting /\ ~page'.timer /\ page'.resolving = page.resolving \cup {r}
    BY <1>2, <2>1, PageBefore DEF PageType
  <2> QED BY <2>1, <2>2 DEF OneStart
<1>5. HasNoBrowser' => HasNoBrowser
  BY <1>2, <1>3 DEF HasNoBrowser, Here, SameSight, SameKeyboard
<1> QED BY <1>2, <1>3, <1>4, <1>5, PageBefore, PageKeeps

(* A look-up ends: a part of the ones under way is left. *)
LEMMA ResolvingLess ==
  ASSUME IInv, NEW r \in page.resolving
  PROVE  LET p == [page EXCEPT !.resolving = @ \ {r}] IN
         /\ p \in PageType /\ OneStart(p) /\ SameSight(page, p) /\ SameKeyboard(page, p)
         /\ p.starting = page.starting
         /\ r.fresh => page.starting /\ Quiet(p)
  BY PageBefore DEF PageType, OneStart, SameSight, SameKeyboard, Quiet

(* The options are there: the native call begins, if nothing overtook it.   *)
LEMMA ResolvedKeeps ==
  ASSUME IInv, NEW r \in Resolutions, Resolved(r) PROVE IInv'
<1> DEFINE p == [page EXCEPT !.resolving = @ \ {r}]
<1>1. /\ call.op = "none" /\ Here /\ r \in page.resolving /\ page' = p
      /\ call' = IF IsCurrentStart(r)
                 THEN [NoCall EXCEPT !.op = "start", !.at = "look", !.mode = r.mode]
                 ELSE NoCall
      /\ UNCHANGED <<sup, browser, kernel, files, budget, pidFile>>
  BY DEF Resolved, supVars, Idle
<1>2. /\ p \in PageType /\ OneStart(p) /\ SameSight(page, p) /\ SameKeyboard(page, p)
      /\ p.starting = page.starting /\ (r.fresh => page.starting /\ Quiet(p))
  BY <1>1, ResolvingLess
<1> HIDE DEF p
<1>3. CASE IsCurrentStart(r)
  <2>1. /\ call' \in CallType /\ call'.op = "start" /\ call'.at = "look"
        /\ call'.mode \in DisplayModes
    BY <1>1, <1>3, NoCallType DEF CallType, Resolutions
  <2>2. Here' /\ page'.starting /\ page'.visible /\ ~page'.leaving /\ Quiet(page')
    BY <1>1, <1>2, <1>3 DEF IsCurrentStart, SameSight, Here
  <2> QED BY <1>1, <1>2, <2>1, <2>2, PageBefore, PageKeeps
<1>4. CASE ~IsCurrentStart(r)
  <2>1. HasNoBrowser' => HasNoBrowser
    BY <1>1, <1>2 DEF HasNoBrowser, Here, SameSight, SameKeyboard
  <2> QED BY <1>1, <1>2, <1>4, <2>1, NoCallType, PageBefore, PageKeeps
<1> QED BY <1>3, <1>4

(* leaveFrame in a handler. *)
LEMMA LeaveFrameKeeps ==
  ASSUME IInv, call.op = "none", Here, NEW p \in PageType, OneStart(p), SameSight(page, p),
         LeaveFrame(p), UNCHANGED <<sup, browser, kernel>>,
         files' \in FilesType, files'.exit \in {files.exit, NoStatus},
         budget' \in 0 .. MaxEvents,
         pidFile' = pidFile \/ (pidFile' = 0 /\ ~Recorded)
  PROVE  IInv'
<1>1. /\ page' \in PageType /\ call' \in CallType
      /\ page'.here = p.here /\ page'.visible = p.visible /\ page'.leaving
      /\ \/ p.leaving /\ page' = p /\ call' = NoCall
         \/ call'.op = "stop" /\ call'.at = "look" /\ Quiet(page')
  BY LeaveFrameIs
<1>2. CASE p.leaving /\ page' = p /\ call' = NoCall
  <2>1. HasNoBrowser' => HasNoBrowser
    BY <1>1, <1>2 DEF HasNoBrowser, Here, SameSight
  <2> QED BY <1>1, <1>2, <2>1, NoCallType, PageKeeps
<1>3. CASE call'.op = "stop" /\ call'.at = "look" /\ Quiet(page')
  BY <1>1, <1>3, PageKeeps, QuietIsOne
<1> QED BY <1>1, <1>2, <1>3

(* They cannot be had: the page leaves, if nothing overtook the start.      *)
LEMMA RejectedKeeps ==
  ASSUME IInv, NEW r \in Resolutions, Rejected(r) PROVE IInv'
<1> DEFINE p == [page EXCEPT !.resolving = @ \ {r}]
           q == [p EXCEPT !.running = FALSE]
<1>1. /\ call.op = "none" /\ Here /\ r \in page.resolving
      /\ IF IsCurrentStart(r) THEN LeaveFrame(q) ELSE page' = p /\ UNCHANGED call
      /\ UNCHANGED <<sup, browser, kernel, files, budget, pidFile>>
  BY DEF Rejected, supVars, Idle
<1>2. /\ p \in PageType /\ OneStart(p) /\ SameSight(page, p) /\ SameKeyboard(page, p)
  BY <1>1, ResolvingLess
<1>3. q \in PageType /\ OneStart(q) /\ SameSight(page, q)
  <2> HIDE DEF p
  <2> QED BY <1>2 DEF PageType, OneStart, SameSight
<1> HIDE DEF p, q
<1>4. CASE IsCurrentStart(r)
  BY <1>1, <1>3, <1>4, LeaveFrameKeeps, PageBefore
<1>5. CASE ~IsCurrentStart(r)
  <2>1. HasNoBrowser' => HasNoBrowser
    BY <1>1, <1>2, <1>5 DEF HasNoBrowser, Here, SameSight, SameKeyboard
  <2> QED BY <1>1, <1>2, <1>5, <2>1, PageBefore, PageKeeps
<1> QED BY <1>4, <1>5

(* The watchdog: a supervisor that runs, a rotation, or the end. *)
LEMMA WatchKeeps ==
  ASSUME IInv, Watch PROVE IInv'
<1>1. /\ call.op = "none" /\ Here /\ UNCHANGED <<sup, browser, kernel, budget>>
      /\ page.watching /\ ~page.starting /\ ~page.leaving
  BY DEF Watch, Idle
<1>2. CASE Recorded
  <2>1. page' = [page EXCEPT !.running = TRUE] /\ UNCHANGED <<files, pidFile, call>>
    BY <1>2 DEF Watch
  <2>2. /\ page' \in PageType /\ OneStart(page') /\ SameSight(page, page')
        /\ SameKeyboard(page, page')
    BY <2>1, PageBefore DEF PageType, OneStart, SameSight, SameKeyboard
  <2>3. HasNoBrowser' => HasNoBrowser
    BY <2>2 DEF HasNoBrowser, Here, SameSight, SameKeyboard
  <2> QED BY <1>1, <2>1, <2>2, <2>3, PageBefore, PageKeeps
<1>3. CASE ~Recorded
  <2> DEFINE p == [page EXCEPT !.running = FALSE]
             w == WithoutKeyboard(Cancelled(p))
  <2>1. p \in PageType /\ OneStart(p) /\ SameSight(page, p) /\ SameKeyboard(page, p)
    BY PageBefore DEF PageType, OneStart, SameSight, SameKeyboard
  <2>2. /\ pidFile' = 0 /\ files' = [files EXCEPT !.exit = NoStatus]
        /\ IF files.exit.reason = "rotation_change"
           THEN page' = [w EXCEPT !.watching = FALSE, !.rotation = TRUE,
                                  !.override = files.exit.mode] /\ UNCHANGED call
           ELSE LeaveFrame(p)
    BY <1>3 DEF Watch
  <2> HIDE DEF p
  <2>3. /\ files' \in FilesType /\ files'.exit = NoStatus
        /\ files.exit.mode \in DisplayModes \cup {"none"}
    BY <2>2, NoStatusType, PageBefore DEF FilesType, ExitType
  <2>4. /\ w \in PageType /\ Quiet(w) /\ SameSight(page, w)
        /\ w.inactive = "no" => ~page.keyboard /\ page.inactive = "no"
    <3> DEFINE c == Cancelled(p)
    <3>1. /\ c \in PageType /\ Quiet(c) /\ SameSight(p, c) /\ SameKeyboard(p, c)
      BY <2>1, CancelledIs
    <3> HIDE DEF c
    <3>2. /\ WithoutKeyboard(c) \in PageType /\ Quiet(WithoutKeyboard(c))
          /\ SameSight(c, WithoutKeyboard(c))
          /\ WithoutKeyboard(c).inactive = "no" => ~c.keyboard /\ c.inactive = "no"
      BY <3>1, WithoutKeyboardIs DEF Quiet
    <3>3. w = WithoutKeyboard(c)
      BY DEF c
    <3> QED BY <2>1, <3>1, <3>2, <3>3 DEF SameSight, SameKeyboard
  <2> HIDE DEF w
  <2>5. CASE files.exit.reason = "rotation_change"
    <3>1. /\ page' = [w EXCEPT !.watching = FALSE, !.rotation = TRUE, !.override = files.exit.mode]
          /\ UNCHANGED call
      BY <2>2, <2>5
    <3>2. /\ page' \in PageType /\ Quiet(page') /\ SameSight(page, page')
          /\ page'.inactive = w.inactive
      BY <2>3, <2>4, <3>1 DEF PageType, Quiet, SameSight
    <3>3. HasNoBrowser' => HasNoBrowser
      BY <1>1, <2>4, <3>2 DEF HasNoBrowser, Here, SameSight
    <3> QED BY <1>1, <1>3, <2>2, <2>3, <3>1, <3>2, <3>3, PageBefore, PageKeeps, QuietIsOne
  <2>6. CASE files.exit.reason # "rotation_change"
    BY <1>1, <1>3, <2>1, <2>2, <2>3, <2>6, LeaveFrameKeeps, PageBefore
  <2> QED BY <2>5, <2>6
<1> QED BY <1>2, <1>3

(* The start that follows a rotation.                                       *)
LEMMA RotationTimerKeeps ==
  ASSUME IInv, RotationTimer PROVE IInv'
<1> DEFINE p == [page EXCEPT !.rotation = FALSE]
<1>1. /\ call.op = "none" /\ Start(p)
      /\ UNCHANGED <<sup, browser, kernel, files, budget, call>>
  BY DEF RotationTimer, Idle, supVars
<1>2. /\ p \in PageType /\ OneStart(p) /\ (~p.starting => Quiet(p))
      /\ SameSight(page, p) /\ SameKeyboard(page, p)
  BY PageBefore DEF PageType, OneStart, Quiet, SameSight, SameKeyboard
<1> HIDE DEF p
<1>3. /\ page' \in PageType /\ OneStart(page') /\ SameSight(p, page') /\ SameKeyboard(p, page')
      /\ pidFile' = pidFile \/ (pidFile' = 0 /\ ~Recorded)
  BY <1>1, <1>2, StartIs
<1>4. HasNoBrowser' => HasNoBrowser
  BY <1>2, <1>3 DEF HasNoBrowser, Here, SameSight, SameKeyboard
<1> QED BY <1>1, <1>3, <1>4, PageBefore, PageKeeps

(* Handlers that neither start nor stop anything. *)
LEMMA OnlyThePage ==
  ASSUME IInv, call.op = "none", page' \in PageType, OneStart(page'),
         HasNoBrowser' => HasNoBrowser,
         UNCHANGED <<sup, browser, kernel, files, call, pidFile>>,
         budget' \in 0 .. MaxEvents
  PROVE  IInv'
  BY PageBefore, PageKeeps

(* The page returns to the index.                                           *)
LEMMA NavigationTimerKeeps ==
  ASSUME IInv, NavigationTimer PROVE IInv'
<1>1. /\ call.op = "none" /\ page' = [page EXCEPT !.navigation = FALSE, !.returned = TRUE]
      /\ UNCHANGED <<sup, browser, kernel, files, budget, call, pidFile>>
  BY DEF NavigationTimer, Idle, supVars
<1>2. /\ page' \in PageType /\ OneStart(page')
      /\ SameSight(page, page') /\ SameKeyboard(page, page')
  BY <1>1, PageBefore DEF PageType, OneStart, SameSight, SameKeyboard
<1>3. HasNoBrowser' => HasNoBrowser
  BY <1>2 DEF HasNoBrowser, Here, SameSight, SameKeyboard
<1> QED BY <1>1, <1>2, <1>3, OnlyThePage, PageBefore

(* The keyboard opens and closes.                                           *)
LEMMA KeyboardKeeps ==
  ASSUME IInv, KeyboardOpens \/ KeyboardCloses PROVE IInv'
<1>1. CASE KeyboardOpens
  <2>1. /\ call.op = "none" /\ Here /\ page.visible /\ page' = [page EXCEPT !.keyboard = TRUE]
        /\ UNCHANGED <<sup, browser, kernel, files, call, pidFile>>
        /\ budget' \in 0 .. MaxEvents
    BY <1>1, Spends DEF KeyboardOpens, Idle
  <2>2. page' \in PageType /\ OneStart(page') /\ SameSight(page, page')
    BY <2>1, PageBefore DEF PageType, OneStart, SameSight
  <2>3. HasNoBrowser' => HasNoBrowser
    BY <2>1, <2>2 DEF HasNoBrowser, Here, SameSight
  <2> QED BY <2>1, <2>2, <2>3, OnlyThePage
<1>2. CASE KeyboardCloses
  <2>1. /\ call.op = "none" /\ page.keyboard /\ page' = WithoutKeyboard(page)
        /\ UNCHANGED <<sup, browser, kernel, files, budget, call, pidFile>>
    BY <1>2 DEF KeyboardCloses, Idle, supVars
  <2>2. /\ page' \in PageType /\ OneStart(page') /\ SameSight(page, page')
        /\ page'.inactive # "no"
    BY <2>1, WithoutKeyboardIs, PageBefore DEF OneStart
  <2>3. HasNoBrowser' => HasNoBrowser
    BY <2>1, <2>2 DEF HasNoBrowser, Here, SameSight
  <2> QED BY <2>1, <2>2, <2>3, OnlyThePage, PageBefore
<1> QED BY <1>1, <1>2

(* A keyboard that closed arms the timer of 15 s.                           *)
LEMMA InactiveKeeps ==
  ASSUME IInv, Inactive PROVE IInv'
<1> DEFINE place == IF page.keyboard THEN "no" ELSE "armed"
<1>1. /\ call.op = "none" /\ page' = [page EXCEPT !.inactive = place]
      /\ UNCHANGED <<sup, browser, kernel, files, budget, call, pidFile>>
  BY DEF Inactive, Idle, supVars
<1>2. place \in {"no", "armed"} /\ (place = "no" => page.keyboard)
  OBVIOUS
<1> HIDE DEF place
<1>3. /\ page' \in PageType /\ OneStart(page') /\ SameSight(page, page')
      /\ page'.keyboard = page.keyboard /\ page'.inactive = place
  BY <1>1, <1>2, PageBefore DEF PageType, OneStart, SameSight
<1>4. HasNoBrowser' => HasNoBrowser
  BY <1>2, <1>3 DEF HasNoBrowser, Here, SameSight
<1> QED BY <1>1, <1>3, <1>4, OnlyThePage, PageBefore

(* The timer stops the browser of a page that is still hidden.              *)
LEMMA HideTimerKeeps ==
  ASSUME IInv, HideTimer PROVE IInv'
<1> DEFINE p == [page EXCEPT !.inactive = "no"]
<1>1. /\ call.op = "none" /\ Here
      /\ UNCHANGED <<sup, browser, kernel, files, budget, pidFile>>
      /\ IF page.visible \/ page.keyboard THEN page' = p /\ UNCHANGED call
         ELSE page' = Stopped(p) /\ call' = StopCall(FALSE)
  BY DEF HideTimer, Idle, supVars
<1>2. /\ p \in PageType /\ OneStart(p) /\ SameSight(page, p) /\ p.keyboard = page.keyboard
  BY PageBefore DEF PageType, OneStart, SameSight
<1> HIDE DEF p
<1>3. CASE page.visible \/ page.keyboard
  <2>1. HasNoBrowser' => HasNoBrowser
    BY <1>1, <1>2, <1>3 DEF HasNoBrowser, Here, SameSight
  <2> QED BY <1>1, <1>2, <1>3, <2>1, OnlyThePage, PageBefore
<1>4. CASE ~(page.visible \/ page.keyboard)
  BY <1>1, <1>2, <1>4, PageBefore, PageKeeps, QuietIsOne, StoppedIs, StopCallType
<1> QED BY <1>3, <1>4

-----------------------------------------------------------------------------
(* The native calls.  What signals and kills do to a shell and its browser:  *)
(* the shell goes on with more signals or is gone, the browser goes on or is *)
(* gone, and what was told to quit stays so.                                *)
Softened(s) ==
  /\ \/ sup'[s] = Gone /\ Alive(s)
     \/ /\ sup'[s].pc = sup[s].pc /\ sup'[s].owns = sup[s].owns
        /\ sup'[s].knows = sup[s].knows /\ sup'[s].term = sup[s].term
        /\ sup'[s].status = sup[s].status /\ sup'[s].sig >= sup[s].sig
  /\ \/ browser'[s] = NoBrowser
     \/ browser'[s].st = browser[s].st /\ (browser[s].quit => browser'[s].quit)

(* A shell that is gone and a browser that is none.                         *)
LEMMA GoneIs ==
  /\ Gone \in ShellType /\ Gone.pc = "gone" /\ Gone.owns = {} /\ ~Gone.knows
  /\ NoBrowser \in BrowserType /\ NoBrowser.st = "none"
  BY DEF Gone, ShellType, Places, Codes, NoBrowser, BrowserType

(* SIGTERM, n times, to the shells in S. *)
LEMMA SignalledIs ==
  ASSUME NEW S, NEW n \in Nat, sup \in [Runs -> ShellType]
  PROVE  /\ Signalled(S, n) \in [Runs -> ShellType]
         /\ \A s \in Runs :
              LET r == Signalled(S, n)[s] IN
              /\ r.pc = sup[s].pc /\ r.owns = sup[s].owns /\ r.knows = sup[s].knows
              /\ r.term = sup[s].term /\ r.status = sup[s].status /\ r.sig >= sup[s].sig
<1> SUFFICES ASSUME NEW s \in Runs
             PROVE  LET r == Signalled(S, n)[s] IN
                    /\ r \in ShellType
                    /\ r.pc = sup[s].pc /\ r.owns = sup[s].owns /\ r.knows = sup[s].knows
                    /\ r.term = sup[s].term /\ r.status = sup[s].status /\ r.sig >= sup[s].sig
  BY DEF Signalled
<1>1. sup[s] \in ShellType /\ sup[s].sig \in 0 .. 2
  BY DEF ShellType
<1> DEFINE m == IF sup[s].sig + n > 2 THEN 2 ELSE sup[s].sig + n
<1>2. m \in 0 .. 2 /\ m >= sup[s].sig
  BY <1>1
<1>3. \/ Signalled(S, n)[s] = sup[s]
      \/ Signalled(S, n)[s] = [sup[s] EXCEPT !.sig = m]
  BY <1>1 DEF Signalled
<1> HIDE DEF m
<1>4. Signalled(S, n)[s].sig >= sup[s].sig
  BY <1>1, <1>2, <1>3 DEF ShellType
<1> QED BY <1>1, <1>2, <1>3, <1>4 DEF ShellType

(* SIGKILL to them. *)
LEMMA ShotIs ==
  ASSUME NEW S, sup \in [Runs -> ShellType]
  PROVE  /\ Shot(S) \in [Runs -> ShellType]
         /\ \A s \in Runs : /\ Shot(S)[s] = sup[s] \/ (Shot(S)[s] = Gone /\ Alive(s))
                            /\ s \in S /\ Alive(s) => Shot(S)[s] = Gone
  BY GoneIs DEF Shot

(* SIGTERM and SIGKILL to the browsers in S. *)
LEMMA QuitIs ==
  ASSUME NEW S, browser \in [Runs -> BrowserType]
  PROVE  /\ Quit(S) \in [Runs -> BrowserType]
         /\ \A s \in Runs :
              /\ Quit(S)[s].st = browser[s].st /\ Quit(S)[s].listed = browser[s].listed
              /\ browser[s].quit => Quit(S)[s].quit
              /\ s \in S /\ BrowserAlive(s) => Quit(S)[s].quit
  BY DEF Quit, BrowserType

(* SIGKILL to the browsers in S.                                            *)
LEMMA KilledIs ==
  ASSUME NEW S, browser \in [Runs -> BrowserType]
  PROVE  /\ Killed(S) \in [Runs -> BrowserType]
         /\ \A s \in Runs : Killed(S)[s] = IF s \in S THEN NoBrowser ELSE browser[s]
  BY GoneIs DEF Killed

(* The browsers found in /proc. *)
LEMMA ListIs ==
  ASSUME browser \in [Runs -> BrowserType]
  PROVE  /\ ListBrowsers \in [Runs -> BrowserType]
         /\ \A s \in Runs : /\ ListBrowsers[s].st = browser[s].st
                            /\ ListBrowsers[s].quit = browser[s].quit
                            /\ ListBrowsers[s].listed = BrowserAlive(s)
         /\ Forgotten \in [Runs -> BrowserType]
         /\ \A s \in Runs : /\ Forgotten[s].st = browser[s].st
                            /\ Forgotten[s].quit = browser[s].quit
<1>1. \A s \in Runs : BrowserAlive(s) \in BOOLEAN
  BY DEF BrowserAlive, Executing
<1> QED BY <1>1 DEF ListBrowsers, Forgotten, BrowserType

(* No shell that was softened comes to life. *)
LEMMA SoftDeath ==
  ASSUME TypeOKSup, TypeOKSup', NEW s \in Runs, Softened(s), ShellInv(s)
  PROVE  /\ Active(s)' => Active(s)
         /\ BrowserAlive(s)' => BrowserAlive(s) /\ (browser[s].quit => browser'[s].quit)
         /\ sup'[s].pc = "unborn" <=> sup[s].pc = "unborn"
         /\ BrowserAlive(s)' /\ Active(s) /\ ~Active(s)' => sup'[s] = Gone
<1>1. /\ sup[s] \in ShellType /\ sup'[s] \in ShellType
      /\ browser[s] \in BrowserType /\ browser'[s] \in BrowserType
  BY TypesOfSup DEF TypeOKSup, ShellType, BrowserType
<1>2. sup[s].sig \in Nat /\ sup'[s].sig \in Nat
  BY <1>1 DEF ShellType
<1>3. Active(s)' => Active(s)
  BY <1>2, GoneIs DEF Softened, Active, Alive, Doomed
<1>4. BrowserAlive(s)' => BrowserAlive(s) /\ (browser[s].quit => browser'[s].quit)
  BY GoneIs DEF Softened, BrowserAlive, Executing
<1>5. sup'[s].pc = "unborn" <=> sup[s].pc = "unborn"
  BY GoneIs DEF Softened, Alive
<1>6. BrowserAlive(s)' /\ Active(s) /\ ~Active(s)' => sup'[s] = Gone
  BY <1>4 DEF Softened, Active, Alive, Doomed, ShellInv
<1> QED BY <1>3, <1>4, <1>5, <1>6

(* A step of a native call, as far as the shells are concerned. *)
LEMMA SoftKeeps ==
  ASSUME IInv, sup' \in [Runs -> ShellType], browser' \in [Runs -> BrowserType],
         UNCHANGED kernel, files' \in FilesType, files'.exit \in {files.exit, NoStatus},
         budget' \in 0 .. MaxEvents,
         \A s \in Runs : Softened(s),
         pidFile' = pidFile \/ (\A s \in Runs : ~Active(s)')
  PROVE  /\ TypeOKSup' /\ (\A s \in Runs : ShellInv(s)') /\ ModulesInv' /\ RunsInv'
         /\ \A s \in Runs :
              /\ Active(s)' => Active(s)
              /\ BrowserAlive(s)' => BrowserAlive(s) /\ (browser[s].quit => browser'[s].quit)
              /\ BrowserAlive(s)' /\ Active(s) /\ ~Active(s)' => sup'[s] = Gone
<1>1. TypeOKSup /\ kernel \in [loaded: SUBSET Modules, foreign: SUBSET Modules]
  BY TypesOfSup DEF IInv, TypeOK
<1>2. TypeOKSup'
  BY <1>1 DEF TypeOKSup, ShellType, BrowserType, FilesType, ExitType
<1>3. \A s \in Runs :
        /\ Active(s)' => Active(s)
        /\ BrowserAlive(s)' => BrowserAlive(s) /\ (browser[s].quit => browser'[s].quit)
        /\ sup'[s].pc = "unborn" <=> sup[s].pc = "unborn"
        /\ BrowserAlive(s)' /\ Active(s) /\ ~Active(s)' => sup'[s] = Gone
  BY <1>1, <1>2, SoftDeath DEF IInv
<1>4. ASSUME NEW s \in Runs PROVE ShellInv(s)'
  <2>1. ShellInv(s)
    BY DEF IInv
  <2>2. CASE sup'[s] = Gone
    BY <2>2, GoneIs DEF ShellInv, Alive
  <2>3. CASE /\ sup'[s].pc = sup[s].pc /\ sup'[s].owns = sup[s].owns
             /\ sup'[s].knows = sup[s].knows /\ sup'[s].term = sup[s].term
             /\ sup'[s].status = sup[s].status
    BY <1>3, <2>1, <2>3 DEF ShellInv, Alive
  <2> QED BY <2>2, <2>3 DEF Softened
<1>5. ModulesInv'
  <2>1. \A s \in Runs : sup'[s].owns \in {sup[s].owns, {}}
    BY GoneIs DEF Softened
  <2> QED BY <2>1 DEF IInv, ModulesInv
<1>6. RunsInv'
  <2>1. \A s \in Runs : Latest(s)' <=> Latest(s)
    BY <1>3 DEF Latest
  <2>2. files'.exit.reason # "none" => files'.exit = files.exit
    BY DEF NoStatus
  <2> QED BY <1>3, <2>1, <2>2 DEF IInv, RunsInv
<1> QED BY <1>2, <1>3, <1>4, <1>5, <1>6

(* A shell and a browser nothing happens to. *)
LEMMA SoftSame ==
  ASSUME NEW s \in Runs, TypeOKSup
  PROVE  /\ sup'[s] = sup[s] /\ browser'[s] = browser[s] => Softened(s)
         /\ sup'[s] = sup[s] /\ browser'[s].st = browser[s].st
            /\ (browser[s].quit => browser'[s].quit) => Softened(s)
<1>1. sup[s].sig \in 0 .. 2
  BY TypesOfSup DEF ShellType
<1> QED BY <1>1 DEF Softened

(* What becomes of the page and of the call. *)
LEMMA CallGoesOn ==
  ASSUME IInv, call.op \in {"start", "stop"}, page' = page, NEW place, NEW run \in 0 .. MaxRuns,
         place \in {"term", "wait", "list", "sweep", "swept", "fork"},
         call' = [call EXCEPT !.run = run, !.at = place]
  PROVE  /\ call' \in CallType /\ StartInv'
         /\ call'.op = call.op /\ call'.at = place /\ call'.run = run
<1>1. call' \in CallType /\ call'.op = call.op /\ call'.at = place /\ call'.run = run
      /\ call'.mode = call.mode
  BY PageBefore DEF CallType
<1>2. StartInv'
  BY <1>1 DEF IInv, StartInv, Here
<1> QED BY <1>1, <1>2

(* The same when the run stays.                                             *)
LEMMA PlaceGoesOn ==
  ASSUME IInv, call.op \in {"start", "stop"}, page' = page, NEW place,
         place \in {"term", "wait", "list", "sweep", "swept", "fork"},
         CallGoes(place)
  PROVE  /\ call' \in CallType /\ StartInv'
         /\ call'.op = call.op /\ call'.at = place /\ call'.run = call.run
<1>1. call.run \in 0 .. MaxRuns /\ call' = [call EXCEPT !.run = call.run, !.at = place]
  BY PageBefore DEF CallGoes, CallType
<1> QED BY <1>1, CallGoesOn

(* No shell is active that the identity file does not name. *)
LEMMA NoneActive ==
  ASSUME IInv, ~Recorded
  PROVE  \A s \in Runs : ~Active(s)
  BY BoundsAssumption DEF IInv, RunsInv, Active, Recorded, Runs

(* The identity file is read, the browsers are listed. *)
LEMMA LookKeeps ==
  ASSUME IInv, Look PROVE IInv'
<1> DEFINE run == IF Recorded THEN pidFile ELSE 0
           place == IF Recorded THEN "term" ELSE IF call.op = "stop" THEN "sweep" ELSE "list"
<1>1. /\ call.op \in {"start", "stop"} /\ page' = page
      /\ call' = [call EXCEPT !.run = run, !.at = place]
      /\ pidFile' = IF Recorded THEN pidFile ELSE 0
      /\ UNCHANGED <<sup, kernel, budget>>
      /\ IF call.op = "start"
         THEN files' = [files EXCEPT !.mode = call.mode] /\ UNCHANGED browser
         ELSE browser' = ListBrowsers /\ UNCHANGED files
  BY DEF Look, InCall, Both
<1>2. run \in 0 .. MaxRuns /\ place \in {"term", "sweep", "list"}
  BY PageBefore, BoundsAssumption
<1>3. sup \in [Runs -> ShellType] /\ browser \in [Runs -> BrowserType]
  BY TypesOfSup DEF IInv, TypeOK
<1>4. files' \in FilesType /\ files'.exit = files.exit
  BY <1>1, PageBefore DEF FilesType, IInv, StartInv
<1>5. browser' \in [Runs -> BrowserType] /\ \A s \in Runs : Softened(s)
  <2>1. browser' \in [Runs -> BrowserType]
        /\ \A s \in Runs : /\ browser'[s].st = browser[s].st
                           /\ browser[s].quit => browser'[s].quit
    BY <1>1, <1>3, ListIs
  <2>2. \A s \in Runs : sup'[s] = sup[s]
    BY <1>1
  <2> QED BY <2>1, <2>2, SoftSame DEF IInv, TypeOK
<1>6. \A s \in Runs : Active(s)' <=> Active(s)
  BY <1>1 DEF Active, Alive, Doomed
<1>7. pidFile' = pidFile \/ (\A s \in Runs : ~Active(s)')
  BY <1>1, <1>6, NoneActive
<1>8. /\ TypeOKSup' /\ (\A s \in Runs : ShellInv(s)') /\ ModulesInv' /\ RunsInv'
  BY <1>1, <1>3, <1>4, <1>5, <1>7, PageBefore, SoftKeeps
<1>9. /\ call' \in CallType /\ StartInv'
      /\ call'.op = call.op /\ call'.at = place /\ call'.run = run
  BY <1>1, <1>2, CallGoesOn
<1>10. TypeOK'
  <2>1. pidFile' \in 0 .. MaxRuns /\ page' \in PageType
    BY <1>1, PageBefore, BoundsAssumption
  <2> QED BY <1>8, <1>9, <2>1 DEF TypeOK, PageType, CallType
<1>11. CallInv'
  <2>1. CASE Recorded
    <3>1. run \in Runs /\ pidFile' = run /\ place = "term"
      BY <1>1, <2>1, PageBefore, BoundsAssumption DEF Recorded, Runs
    <3>2. call.op = "stop" => \A s \in Runs : BrowserAlive(s)' => browser'[s].listed
      BY <1>1, <1>3, ListIs DEF BrowserAlive, Executing
    <3> QED BY <1>1, <1>9, <3>1, <3>2 DEF CallInv
  <2>2. CASE ~Recorded
    <3>1. \A s \in Runs : ~Active(s)'
      BY <1>6, <2>2, NoneActive
    <3>2. call.op = "stop" => \A s \in Runs : BrowserAlive(s)' => browser'[s].listed
      BY <1>1, <1>3, ListIs DEF BrowserAlive, Executing
    <3>3. place = IF call.op = "stop" THEN "sweep" ELSE "list"
      BY <2>2
    <3> HIDE DEF place
    <3> QED BY <1>1, <1>9, <3>1, <3>2, <3>3 DEF CallInv
  <2> QED BY <2>1, <2>2
<1> QED BY <1>8, <1>9, <1>10, <1>11 DEF IInv

(* The page is as it was, the call and the identity file are typed. *)
LEMMA CallTyped ==
  ASSUME IInv, TypeOKSup', page' = page, call' \in CallType,
         pidFile' \in {pidFile, 0}
  PROVE  TypeOK'
<1>1. page' \in PageType /\ pidFile' \in 0 .. MaxRuns
  BY PageBefore, BoundsAssumption
<1> QED BY <1>1 DEF TypeOK, PageType, CallType

(* The types of the supervisor, from the invariant.                         *)
LEMMA SupTyped ==
  ASSUME IInv
  PROVE  /\ sup \in [Runs -> ShellType] /\ browser \in [Runs -> BrowserType]
         /\ TypeOKSup
  BY TypesOfSup DEF IInv, TypeOK

(* SIGTERM to the shell, whose traps do the rest. *)
LEMMA TermKeeps ==
  ASSUME IInv, Term PROVE IInv'
<1>1. /\ call.op \in {"start", "stop"} /\ call.at = "term" /\ CallGoes("wait")
      /\ page' = page /\ UNCHANGED <<kernel, files, budget, pidFile>>
      /\ \/ sup' = Signalled({call.run}, 2) /\ browser' = Quit({call.run})
         \/ UNCHANGED <<sup, browser>>
  BY DEF Term, InCall, Both
<1>2. /\ sup' \in [Runs -> ShellType] /\ browser' \in [Runs -> BrowserType]
      /\ \A s \in Runs : Softened(s) /\ browser'[s].listed = browser[s].listed
                         /\ sup'[s].pc = sup[s].pc
  <2>1. CASE sup' = Signalled({call.run}, 2) /\ browser' = Quit({call.run})
    BY <2>1, SupTyped, SignalledIs, QuitIs DEF Softened
  <2>2. CASE UNCHANGED <<sup, browser>>
    BY <2>2, SupTyped, SoftSame
  <2> QED BY <1>1, <2>1, <2>2
<1>3. /\ TypeOKSup' /\ (\A s \in Runs : ShellInv(s)') /\ ModulesInv' /\ RunsInv'
      /\ \A s \in Runs :
           /\ Active(s)' => Active(s)
           /\ BrowserAlive(s)' => BrowserAlive(s) /\ (browser[s].quit => browser'[s].quit)
           /\ BrowserAlive(s)' /\ Active(s) /\ ~Active(s)' => sup'[s] = Gone
  BY <1>1, <1>2, PageBefore, SoftKeeps
<1>4. /\ call' \in CallType /\ StartInv'
      /\ call'.op = call.op /\ call'.at = "wait" /\ call'.run = call.run
  BY <1>1, PlaceGoesOn
<1>5. TypeOK'
  BY <1>1, <1>3, <1>4, CallTyped
<1>6. CallInv'
  <2>1. call.run \in Runs /\ pidFile = call.run
    BY <1>1 DEF IInv, CallInv
  <2>2. ASSUME call.op = "stop", NEW s \in Runs, BrowserAlive(s)', ~Active(s)'
        PROVE  browser'[s].listed \/ browser'[s].quit
    <3>1. BrowserAlive(s) /\ (browser[s].quit => browser'[s].quit)
      BY <1>3, <2>2
    <3>2. ~Active(s)
      BY <1>2, <1>3, <2>2, GoneIs DEF Active, Alive
    <3>3. browser[s].listed \/ browser[s].quit
      BY <1>1, <2>2, <3>1, <3>2 DEF IInv, CallInv
    <3> QED BY <1>2, <3>1, <3>3
  <2> QED BY <1>1, <1>4, <2>1, <2>2 DEF CallInv
<1> QED BY <1>3, <1>4, <1>5, <1>6 DEF IInv

(* The shell has ended, or is killed with its browser. *)
LEMMA WaitKeeps ==
  ASSUME IInv, Ended \/ TwoSeconds PROVE IInv'
<1> DEFINE place == IF call.op = "stop" THEN "sweep" ELSE "list"
<1>1. /\ call.op \in {"start", "stop"} /\ call.at = "wait" /\ CallGoes(place)
      /\ page' = page /\ UNCHANGED <<kernel, files, budget>>
      /\ pidFile' = IF call.op = "stop" /\ pidFile # call.run THEN pidFile ELSE 0
      /\ \/ ~Alive(call.run) /\ UNCHANGED <<sup, browser>>
         \/ /\ Alive(call.run)
            /\ sup' = Shot({call.run}) /\ browser' = Killed({call.run})
  BY DEF Ended, TwoSeconds, AfterWait, InCall, Both
<1>c. PICK c \in Runs : c = call.run /\ pidFile = c
  BY <1>1 DEF IInv, CallInv
<1>3. /\ sup' \in [Runs -> ShellType] /\ browser' \in [Runs -> BrowserType]
      /\ \A s \in Runs : Softened(s) /\ (BrowserAlive(s)' => browser'[s] = browser[s])
      /\ ~Alive(c)'
      /\ \A s \in Runs \ {c} : sup'[s] = sup[s]
  <2>1. CASE ~Alive(c) /\ UNCHANGED <<sup, browser>>
    BY <2>1, SupTyped, SoftSame DEF Alive
  <2>2. CASE Alive(c) /\ sup' = Shot({c}) /\ browser' = Killed({c})
    <3>1. /\ sup' \in [Runs -> ShellType] /\ browser' \in [Runs -> BrowserType]
          /\ sup'[c] = Gone /\ browser'[c] = NoBrowser
      BY <1>c, <2>2, SupTyped, ShotIs, KilledIs
    <3>2. \A s \in Runs \ {c} : sup'[s] = sup[s] /\ browser'[s] = browser[s]
      BY <2>2, SupTyped DEF Shot, Killed
    <3>3. ~Alive(c)' /\ ~BrowserAlive(c)'
      BY <3>1, GoneIs DEF Alive, BrowserAlive, Executing
    <3>4. Softened(c)
      BY <2>2, <3>1 DEF Softened
    <3> QED BY <1>c, <3>1, <3>2, <3>3, <3>4, SupTyped, SoftSame
  <2> QED BY <1>1, <1>c, <2>1, <2>2
<1>4. \A s \in Runs : ~Active(s)'
  <2>1. \A s \in Runs \ {c} : ~Active(s)
    BY <1>c DEF IInv, RunsInv
  <2> QED BY <1>3, <2>1 DEF Active, Alive, Doomed
<1>5. /\ TypeOKSup' /\ (\A s \in Runs : ShellInv(s)') /\ ModulesInv' /\ RunsInv'
      /\ \A s \in Runs :
           /\ BrowserAlive(s)' => BrowserAlive(s) /\ (browser[s].quit => browser'[s].quit)
           /\ BrowserAlive(s)' /\ Active(s) /\ ~Active(s)' => sup'[s] = Gone
  BY <1>1, <1>3, <1>4, PageBefore, SoftKeeps
<1>6. place \in {"sweep", "list"}
  OBVIOUS
<1>7. /\ call' \in CallType /\ StartInv'
      /\ call'.op = call.op /\ call'.at = place /\ call'.run = call.run
  BY <1>1, <1>6, PlaceGoesOn
<1>8. TypeOK'
  BY <1>1, <1>5, <1>7, CallTyped
<1>9. CallInv'
  <2>1. ASSUME call.op = "stop", NEW s \in Runs, BrowserAlive(s)'
        PROVE  browser'[s].listed \/ browser'[s].quit
    <3>1. BrowserAlive(s) /\ browser'[s] = browser[s]
      BY <1>3, <1>5, <2>1
    <3>2. ~Active(s)
      <4>1. CASE UNCHANGED <<sup, browser>>
        BY <1>4, <4>1 DEF Active, Alive, Doomed
      <4>2. CASE sup' = Shot({c}) /\ browser' = Killed({c})
        <5>1. s # c
          BY <2>1, <4>2, SupTyped, KilledIs, GoneIs DEF BrowserAlive, Executing
        <5> QED BY <1>c, <5>1 DEF IInv, RunsInv
      <4> QED BY <1>1, <1>c, <4>1, <4>2
    <3> QED BY <1>1, <2>1, <3>1, <3>2 DEF IInv, CallInv
  <2>2. place = IF call.op = "stop" THEN "sweep" ELSE "list"
    OBVIOUS
  <2> HIDE DEF place
  <2> QED BY <1>1, <1>4, <1>7, <2>1, <2>2 DEF CallInv
<1> QED BY <1>5, <1>7, <1>8, <1>9 DEF IInv

(* startBrowser lists the browsers. *)
LEMMA ListKeeps ==
  ASSUME IInv, List PROVE IInv'
<1>1. /\ call.op = "start" /\ call.at = "list" /\ CallGoes("sweep")
      /\ page' = page /\ browser' = ListBrowsers
      /\ UNCHANGED <<sup, kernel, files, budget, pidFile>>
  BY DEF List, InCall
<1>2. /\ sup' \in [Runs -> ShellType] /\ browser' \in [Runs -> BrowserType]
      /\ \A s \in Runs : Softened(s)
  BY <1>1, SupTyped, ListIs, SoftSame
<1>3. /\ TypeOKSup' /\ (\A s \in Runs : ShellInv(s)') /\ ModulesInv' /\ RunsInv'
  BY <1>1, <1>2, PageBefore, SoftKeeps
<1>4. /\ call' \in CallType /\ StartInv'
      /\ call'.op = call.op /\ call'.at = "sweep" /\ call'.run = call.run
  BY <1>1, PlaceGoesOn
<1>5. TypeOK'
  BY <1>1, <1>3, <1>4, CallTyped
<1>6. CallInv'
  <2>1. \A s \in Runs : ~Active(s)
    BY <1>1 DEF IInv, CallInv
  <2>2. \A s \in Runs : ~Active(s)'
    BY <1>1, <2>1 DEF Active, Alive, Doomed
  <2>3. \A s \in Runs : BrowserAlive(s)' => browser'[s].listed
    BY <1>1, SupTyped, ListIs DEF BrowserAlive, Executing
  <2> QED BY <1>1, <1>4, <2>2, <2>3 DEF CallInv
<1> QED BY <1>3, <1>4, <1>5, <1>6 DEF IInv

(* SIGTERM to each of them. *)
LEMMA SweepKeeps ==
  ASSUME IInv, Sweep PROVE IInv'
<1>1. /\ call.op \in {"start", "stop"} /\ call.at = "sweep" /\ CallGoes("swept")
      /\ page' = page /\ UNCHANGED <<kernel, files, budget, pidFile>>
      /\ sup' = Signalled(Listed, 3) /\ browser' = Quit(Listed)
  BY DEF Sweep, InCall, Both
<1>2. /\ sup' \in [Runs -> ShellType] /\ browser' \in [Runs -> BrowserType]
      /\ \A s \in Runs : /\ Softened(s) /\ browser'[s].listed = browser[s].listed
                         /\ s \in Listed /\ BrowserAlive(s) => browser'[s].quit
  BY <1>1, SupTyped, SignalledIs, QuitIs DEF Softened
<1>3. /\ TypeOKSup' /\ (\A s \in Runs : ShellInv(s)') /\ ModulesInv' /\ RunsInv'
      /\ \A s \in Runs :
           /\ Active(s)' => Active(s)
           /\ BrowserAlive(s)' => BrowserAlive(s) /\ (browser[s].quit => browser'[s].quit)
  BY <1>1, <1>2, PageBefore, SoftKeeps
<1>4. /\ call' \in CallType /\ StartInv'
      /\ call'.op = call.op /\ call'.at = "swept" /\ call'.run = call.run
  BY <1>1, PlaceGoesOn
<1>5. TypeOK'
  BY <1>1, <1>3, <1>4, CallTyped
<1>6. CallInv'
  <2>1. \A s \in Runs : ~Active(s)
    BY <1>1 DEF IInv, CallInv
  <2>2. \A s \in Runs : ~Active(s)'
    BY <1>3, <2>1
  <2>3. call.op = "start" => \A s \in Runs : BrowserAlive(s)' => browser'[s].listed
    BY <1>1, <1>2, <1>3 DEF IInv, CallInv
  <2>4. ASSUME call.op = "stop", NEW s \in Runs, BrowserAlive(s)' PROVE browser'[s].quit
    <3>1. BrowserAlive(s) /\ (browser[s].quit => browser'[s].quit)
      BY <1>3, <2>4
    <3>2. browser[s].listed \/ browser[s].quit
      BY <1>1, <2>1, <2>4, <3>1 DEF IInv, CallInv
    <3> QED BY <1>2, <3>1, <3>2 DEF Listed
  <2> QED BY <1>1, <1>4, <2>2, <2>3, <2>4 DEF CallInv
<1> QED BY <1>3, <1>4, <1>5, <1>6 DEF IInv

(* The call has ended what it found: startBrowser goes on to the fork,       *)
(* stopBrowser returns.                                                     *)
LEMMA SweptKeeps ==
  ASSUME IInv, SweptClean \/ SweptKill PROVE IInv'
<1>1. /\ call.op \in {"start", "stop"} /\ call.at = "swept"
      /\ UNCHANGED <<kernel, files, budget, pidFile>>
      /\ IF call.op = "start" THEN CallGoes("fork") /\ UNCHANGED page
         ELSE call' = NoCall
              /\ page' = IF call.return THEN ScheduleReturn(page) ELSE page
      /\ \/ Listed = {} /\ UNCHANGED sup /\ browser' = Forgotten
         \/ Listed # {} /\ sup' = Shot(Listed) /\ browser' = Killed(Listed)
  BY DEF SweptClean, SweptKill, Swept, InCall, Both
<1>2. /\ sup' \in [Runs -> ShellType] /\ browser' \in [Runs -> BrowserType]
      /\ \A s \in Runs : Softened(s) /\ (s \in Listed => ~BrowserAlive(s)')
  <2>1. CASE Listed = {} /\ UNCHANGED sup /\ browser' = Forgotten
    BY <2>1, SupTyped, ListIs, SoftSame
  <2>2. CASE sup' = Shot(Listed) /\ browser' = Killed(Listed)
    <3>1. sup' \in [Runs -> ShellType] /\ browser' \in [Runs -> BrowserType]
      BY <2>2, SupTyped, ShotIs, KilledIs
    <3>2. ASSUME NEW s \in Runs PROVE Softened(s) /\ (s \in Listed => ~BrowserAlive(s)')
      <4>1. \/ sup'[s] = sup[s] \/ (sup'[s] = Gone /\ Alive(s))
        BY <2>2, SupTyped, ShotIs
      <4>2. browser'[s] = IF s \in Listed THEN NoBrowser ELSE browser[s]
        BY <2>2, SupTyped, KilledIs
      <4>3. sup[s].sig \in 0 .. 2
        BY SupTyped DEF ShellType
      <4> QED BY <4>1, <4>2, <4>3, GoneIs DEF Softened, BrowserAlive, Executing
    <3> QED BY <3>1, <3>2
  <2> QED BY <1>1, <2>1, <2>2
<1>3. /\ TypeOKSup' /\ (\A s \in Runs : ShellInv(s)') /\ ModulesInv' /\ RunsInv'
      /\ \A s \in Runs :
           /\ Active(s)' => Active(s)
           /\ BrowserAlive(s)' => BrowserAlive(s) /\ (browser[s].quit => browser'[s].quit)
  BY <1>1, <1>2, PageBefore, SoftKeeps
<1>4. \A s \in Runs : ~Active(s)'
  BY <1>1, <1>3 DEF IInv, CallInv
<1>5. CASE call.op = "start"
  <2>1. /\ call' \in CallType /\ StartInv' /\ page' = page
        /\ call'.op = call.op /\ call'.at = "fork" /\ call'.run = call.run
    BY <1>1, <1>5, PlaceGoesOn
  <2>2. TypeOK'
    BY <1>1, <1>3, <2>1, CallTyped
  <2>3. \A s \in Runs : ~BrowserAlive(s)'
    <3>1. \A s \in Runs : BrowserAlive(s) => s \in Listed
      BY <1>1, <1>5 DEF IInv, CallInv, Listed
    <3> QED BY <1>2, <1>3, <3>1
  <2>4. CallInv'
    BY <1>4, <1>5, <2>1, <2>3 DEF CallInv
  <2> QED BY <1>3, <2>1, <2>2, <2>4 DEF IInv
<1>6. CASE call.op = "stop"
  <2>1. call' = NoCall /\ page' = IF call.return THEN ScheduleReturn(page) ELSE page
    BY <1>1, <1>6
  <2>2. page' \in PageType /\ OneStart(page')
    <3>1. page' = page \/ page' = [page EXCEPT !.navigation = TRUE]
      BY <2>1 DEF ScheduleReturn
    <3> QED BY <3>1, PageBefore DEF PageType, OneStart
  <2>3. TypeOK' /\ call'.op = "none"
    BY <1>1, <1>3, <2>1, <2>2, NoCallType, PageBefore DEF TypeOK, PageType, CallType
  <2>4. StartInv'
    BY <2>2, <2>3 DEF StartInv, OneStart
  <2>5. CallInv'
    <3>1. \A s \in Runs : BrowserAlive(s) => browser[s].quit
      BY <1>1, <1>6 DEF IInv, CallInv
    <3> QED BY <1>3, <1>4, <2>3, <3>1 DEF CallInv
  <2> QED BY <1>3, <2>3, <2>4, <2>5 DEF IInv
<1> QED BY <1>1, <1>5, <1>6

(* The next run is started. *)
LEMMA ForkKeeps ==
  ASSUME IInv, NEW s \in Runs, Fork(s) PROVE IInv'
<1>1. /\ call.op = "start" /\ call.at = "fork" /\ sup[s].pc = "unborn"
      /\ \A t \in Runs : t < s => sup[t].pc # "unborn"
      /\ files' = [files EXCEPT !.exit = NoStatus] /\ UNCHANGED <<browser, kernel, budget>>
  BY DEF Fork, InCall
<1> DEFINE q == [page EXCEPT !.running = FALSE, !.starting = FALSE]
           two == [Started(s) EXCEPT !.sig = 2]
<1>2. \/ /\ sup' = [sup EXCEPT ![s] = Started(s)] /\ pidFile' = s /\ call' = NoCall
         /\ page' = [page EXCEPT !.running = TRUE, !.watching = TRUE, !.starting = FALSE]
      \/ /\ StartMayFail /\ sup' = [sup EXCEPT ![s] = two]
         /\ LeaveFrame(q) /\ UNCHANGED pidFile
  BY DEF Fork
<1>3. /\ Started(s) \in ShellType /\ Started(s).pc = "early"
      /\ Started(s).owns = sup[s].owns /\ Started(s).knows = sup[s].knows
      /\ two \in ShellType /\ two.pc = "early" /\ two.sig = 2
      /\ two.owns = sup[s].owns /\ two.knows = sup[s].knows
  <2>1. /\ Started(s) \in ShellType /\ Started(s).pc = "early"
        /\ Started(s).owns = sup[s].owns /\ Started(s).knows = sup[s].knows
    BY SupTyped DEF Started, ShellType, Places
  <2> QED BY <2>1 DEF ShellType
<1> HIDE DEF two
<1>4. PICK r \in ShellType : /\ sup' = [sup EXCEPT ![s] = r] /\ r.pc = "early"
                             /\ r.owns = sup[s].owns /\ r.knows = sup[s].knows
                             /\ pidFile' # s => StartMayFail /\ r.sig = 2
  BY <1>2, <1>3
<1>5. /\ sup' \in [Runs -> ShellType] /\ sup'[s] = r
      /\ \A t \in Runs \ {s} : sup'[t] = sup[t]
  BY <1>4, SupTyped
<1>6. /\ Here /\ page.starting /\ page.visible /\ ~page.leaving /\ Quiet(page)
      /\ \A t \in Runs : ~Active(t) /\ ~BrowserAlive(t)
  BY <1>1 DEF IInv, StartInv, CallInv, Quiet
<1>7. files' \in FilesType /\ files'.exit = NoStatus
  BY <1>1, PageBefore, NoStatusType DEF FilesType
<1>8. TypeOKSup'
  <2>1. browser' \in [Runs -> BrowserType]
        /\ kernel' \in [loaded: SUBSET Modules, foreign: SUBSET Modules]
        /\ budget' \in 0 .. MaxEvents
    BY <1>1, SupTyped, TypesOfSup
  <2> QED BY <1>5, <1>7, <2>1 DEF TypeOKSup, ShellType, BrowserType, FilesType, ExitType
<1>9. \A t \in Runs : ~BrowserAlive(t)'
  BY <1>1, <1>6 DEF BrowserAlive
<1>10. \A t \in Runs : ShellInv(t)'
  <2>1. ShellInv(s)'
    BY <1>1, <1>4, <1>5, <1>9 DEF IInv, ShellInv, Alive
  <2>2. \A t \in Runs \ {s} : ShellInv(t)'
    BY <1>1, <1>5 DEF IInv, ShellInv, Alive, BrowserAlive
  <2> QED BY <2>1, <2>2
<1>11. ModulesInv'
  BY <1>1, <1>4, <1>5 DEF IInv, ModulesInv
<1>12. RunsInv'
  <2>1. \A a, t \in Runs : a < t /\ sup'[t].pc # "unborn" => sup'[a].pc # "unborn"
    BY <1>1, <1>4, <1>5 DEF IInv, RunsInv
  <2>2. \A t \in Runs \ {s} : ~Active(t)'
    BY <1>5, <1>6 DEF Active, Alive, Doomed
  <2>3. Active(s)' => pidFile' = s
    BY <1>4, <1>5 DEF Active, Doomed
  <2>4. Latest(s)'
    <3>1. \A t \in Runs : t > s => sup'[t].pc = "unborn"
      BY <1>1, <1>5, BoundsAssumption DEF IInv, RunsInv, Runs
    <3> QED BY <1>4, <1>5, <3>1 DEF Latest
  <2> QED BY <1>7, <1>9, <2>1, <2>2, <2>3, <2>4 DEF RunsInv, NoStatus
<1>13. CASE /\ pidFile' = s /\ call' = NoCall
            /\ page' = [page EXCEPT !.running = TRUE, !.watching = TRUE, !.starting = FALSE]
  <2>1. page' \in PageType /\ Quiet(page') /\ SameSight(page, page')
    BY <1>6, <1>13, PageBefore DEF PageType, Quiet, SameSight
  <2>2. TypeOK' /\ call'.op = "none"
    <3>1. s \in 0 .. MaxRuns
      BY BoundsAssumption DEF Runs
    <3> QED BY <1>8, <1>13, <2>1, <3>1, NoCallType DEF TypeOK, PageType, CallType
  <2>3. ~HasNoBrowser'
    BY <1>6, <2>1 DEF HasNoBrowser, Here, SameSight
  <2>4. StartInv' /\ CallInv'
    BY <2>1, <2>2, <2>3 DEF StartInv, CallInv, Quiet
  <2> QED BY <1>8, <1>10, <1>11, <1>12, <2>2, <2>4 DEF IInv
<1>14. CASE LeaveFrame(q) /\ UNCHANGED pidFile
  <2>1. q \in PageType /\ ~q.leaving
    BY <1>6, PageBefore DEF PageType
  <2> HIDE DEF q
  <2>2. page' \in PageType /\ call' \in CallType /\ Quiet(page')
        /\ call'.op = "stop" /\ call'.at = "look"
    BY <1>14, <2>1, LeaveFrameIs
  <2>3. TypeOK'
    BY <1>8, <1>14, <2>2, PageBefore DEF TypeOK, PageType, CallType
  <2>4. StartInv' /\ CallInv'
    BY <2>2 DEF StartInv, CallInv, Quiet
  <2> QED BY <1>8, <1>10, <1>11, <1>12, <2>3, <2>4 DEF IInv
<1> QED BY <1>2, <1>13, <1>14

(* It cannot be. *)
LEMMA ForkFailsKeeps ==
  ASSUME IInv, ForkFails PROVE IInv'
<1> DEFINE q == [page EXCEPT !.running = FALSE, !.starting = FALSE]
<1>1. /\ call.op = "start" /\ files' = [files EXCEPT !.exit = NoStatus]
      /\ LeaveFrame(q) /\ UNCHANGED <<sup, browser, kernel, budget, pidFile>>
  BY DEF ForkFails, InCall
<1>2. q \in PageType /\ ~q.leaving
  BY <1>1, PageBefore DEF PageType, IInv, StartInv
<1> HIDE DEF q
<1>3. page' \in PageType /\ call' \in CallType /\ Quiet(page')
      /\ call'.op = "stop" /\ call'.at = "look"
  BY <1>1, <1>2, LeaveFrameIs
<1>4. files' \in FilesType /\ files'.exit = NoStatus
  BY <1>1, PageBefore, NoStatusType DEF FilesType
<1> QED BY <1>1, <1>3, <1>4, PageBefore, PageKeeps, QuietIsOne

(* The MiniApp process dies. *)
LEMMA MiniAppDiesKeeps ==
  ASSUME IInv, MiniAppDies PROVE IInv'
<1>1. /\ sup' = Signalled(Runs, 1) /\ page' = NoPage /\ call' = NoCall
      /\ UNCHANGED <<browser, kernel, files, budget, pidFile>>
  BY DEF MiniAppDies
<1>2. /\ sup' \in [Runs -> ShellType] /\ browser' \in [Runs -> BrowserType]
      /\ \A s \in Runs : Softened(s)
  BY <1>1, SupTyped, SignalledIs DEF Softened
<1>3. /\ TypeOKSup' /\ (\A s \in Runs : ShellInv(s)') /\ ModulesInv' /\ RunsInv'
  BY <1>1, <1>2, PageBefore, SoftKeeps
<1>4. page' \in PageType /\ Quiet(page') /\ page'.here = "no" /\ ~page'.timer
  BY <1>1 DEF NoPage, PageType, Quiet
<1>5. TypeOK' /\ call'.op = "none"
  BY <1>1, <1>3, <1>4, NoCallType, PageBefore DEF TypeOK, PageType, CallType
<1>6. StartInv' /\ CallInv'
  BY <1>4, <1>5 DEF StartInv, CallInv, Quiet, HasNoBrowser, Here
<1> QED BY <1>3, <1>5, <1>6 DEF IInv

-----------------------------------------------------------------------------
(* The invariant holds at first.                                            *)
LEMMA InitInv == Init => IInv
<1> SUFFICES ASSUME Init PROVE IInv
  OBVIOUS
<1>1. /\ page = NoPage /\ call = NoCall /\ pidFile = 0
      /\ sup = [s \in Runs |-> [Gone EXCEPT !.pc = "unborn"]]
      /\ browser = [s \in Runs |-> NoBrowser] /\ budget = MaxEvents
  BY DEF Init, InitSup
<1>2. PICK m \in Preloaded : kernel = [loaded |-> m, foreign |-> m]
  BY DEF Init, InitSup
<1>3. PICK g \in GpuModes :
        files = [mode |-> DefaultMode, gpu |-> g, ready |-> FALSE, exit |-> NoStatus]
  BY DEF Init, InitSup
<1> DEFINE u == [Gone EXCEPT !.pc = "unborn"]
<1>4. u \in ShellType /\ u.pc = "unborn" /\ u.owns = {} /\ ~u.knows
  BY GoneIs DEF ShellType, Places
<1> HIDE DEF u
<1>5. \A s \in Runs : sup[s] = u /\ browser[s] = NoBrowser
  BY <1>1 DEF u
<1>6. \A s \in Runs : sup[s].pc = "unborn" /\ ~Alive(s) /\ ~Active(s) /\ ~BrowserAlive(s)
  BY <1>4, <1>5, GoneIs DEF Alive, Active, BrowserAlive, Executing
<1>7. m \in {{}, {"helper"}, {"helper", "kbase"}}
  BY BoundsAssumption
<1>8. TypeOKSup
  <2>1. sup \in [Runs -> ShellType] /\ browser \in [Runs -> BrowserType]
    BY <1>1, <1>4, GoneIs DEF u
  <2>2. files \in FilesType
    BY <1>3, ModesAssumption, NoStatusType DEF FilesType
  <2>3. kernel \in [loaded: SUBSET Modules, foreign: SUBSET Modules] /\ budget \in 0 .. MaxEvents
    BY <1>1, <1>2, <1>7, BoundsAssumption DEF Modules
  <2> QED BY <2>1, <2>2, <2>3, TypesOfSup
<1>9. page \in PageType /\ Quiet(page) /\ page.here = "no"
  BY <1>1 DEF NoPage, PageType, Quiet
<1>10. TypeOK /\ call.op = "none"
  BY <1>1, <1>8, <1>9, NoCallType, TypesOfPage, BoundsAssumption
<1>11. \A s \in Runs : ShellInv(s)
  BY <1>4, <1>5, <1>6 DEF ShellInv
<1>12. RunsInv
  BY <1>3, <1>6 DEF RunsInv, NoStatus
<1>13. ModulesInv
  BY <1>2, <1>4, <1>5, <1>7 DEF ModulesInv
<1>14. StartInv /\ CallInv
  BY <1>6, <1>9, <1>10 DEF StartInv, CallInv, Quiet
<1> QED BY <1>10, <1>11, <1>12, <1>13, <1>14 DEF IInv

(* Every step keeps the invariant.                                          *)
LEMMA NextInv == IInv /\ [Next]_vars => IInv'
<1> SUFFICES ASSUME IInv, [Next]_vars PROVE IInv'
  OBVIOUS
<1>1. CASE Timers
  BY <1>1, StartTimerKeeps, WatchKeeps, RotationTimerKeeps, NavigationTimerKeeps,
     InactiveKeeps, HideTimerKeeps DEF Timers
<1>2. CASE Promises
  BY <1>2, ResolvedKeeps, RejectedKeeps DEF Promises
<1>3. CASE Native
  BY <1>3, LookKeeps, TermKeeps, WaitKeeps, ListKeeps, SweepKeeps, SweptKeeps,
     ForkKeeps, ForkFailsKeeps DEF Native
<1>4. CASE User
  BY <1>4, MountKeeps, OnShowKeeps, OnHideKeeps, OnUnloadKeeps, KeyboardKeeps,
     MiniAppDiesKeeps DEF User
<1>5. CASE (SupNext \/ KilledShell) /\ UNCHANGED pageVars
  BY <1>5, SupNextKeeps
<1>6. CASE UNCHANGED vars
  <2>1. UNCHANGED <<sup, browser, kernel, files, budget, page, call, pidFile>>
    BY <1>6 DEF vars, supVars, pageVars
  <2> QED BY <2>1 DEF IInv, TypeOK, TypeOKSup, ShellInv, RunsInv, ModulesInv, StartInv, CallInv,
              Alive, Active, Doomed, BrowserAlive, Latest, HasNoBrowser, Here
<1> QED BY <1>1, <1>2, <1>3, <1>4, <1>5, <1>6 DEF Next

(* The inductive invariant, for any number of runs and display modes and     *)
(* whether or not a shell can be started without its identity on the disk.  *)
THEOREM LifecycleInvariance == Spec => []IInv
<1>1. Init => IInv
  BY InitInv
<1>2. IInv /\ [Next]_vars => IInv'
  BY NextInv
<1> QED BY <1>1, <1>2, PTL DEF Spec

(* The exit status the watchdog reads is never that of an earlier run: a     *)
(* status on the disk was written by the last run there was.                *)
THEOREM StatusNeverStale == Spec => []StatusOfThisRun
<1>1. IInv => StatusOfThisRun
  BY DEF IInv, RunsInv, StatusOfThisRun
<1> QED BY <1>1, LifecycleInvariance, PTL

(* Modules that others loaded stay, bifrost_kbase never without its helper,  *)
(* and what a shell takes for its own is there to be removed.               *)
THEOREM ModulesStayOwned == Spec => []ModulesOwned
<1>1. IInv => ModulesOwned
  BY DEF IInv, ModulesInv, ModulesOwned
<1> QED BY <1>1, LifecycleInvariance, PTL

(* At most one shell, named by the identity file, one browser, and one start *)
(* under way: if the identity of a shell that was started can be written.    *)
THEOREM OneAtATime ==
  ASSUME ~StartMayFail PROVE Spec => []OneOfEach
<1>1. IInv => OneOfEach
  <2> SUFFICES ASSUME IInv PROVE OneOfEach
    OBVIOUS
  <2>1. \A s \in Runs : Alive(s) => pidFile = s
    BY DEF IInv, RunsInv, Active, Doomed
  <2> DEFINE living == {s \in Runs : BrowserAlive(s)}
  <2>2. \A s, t \in living : s = t
    <3>1. \A s \in living : Latest(s)
      BY DEF IInv, RunsInv
    <3> QED BY <3>1 DEF Latest, Runs
  <2>3. Cardinality(living) <= 1
    <3>1. CASE living = {}
      BY <3>1, FS_EmptySet
    <3>2. CASE living # {}
      <4>1. PICK s \in living : living = {s}
        BY <2>2, <3>2
      <4> QED BY <4>1, FS_Singleton
    <3> QED BY <3>1, <3>2
  <2>4. call.op = "start" =>
          /\ page.starting /\ page.visible /\ ~page.leaving /\ ~page.timer
          /\ \A r \in page.resolving : ~r.fresh
    BY DEF IInv, StartInv
  <2> QED BY <2>1, <2>3, <2>4 DEF OneOfEach, IInv
<1> QED BY <1>1, LifecycleInvariance, PTL

(* A page that is hidden, leaves or was unloaded has no shell, and no        *)
(* browser that was not told to quit, once its native call has returned.    *)
THEOREM NothingLeftBehind ==
  ASSUME ~StartMayFail PROVE Spec => []StopsEverything
<1>1. IInv => StopsEverything
  BY DEF IInv, CallInv, StopsEverything, Active, Doomed
<1> QED BY <1>1, LifecycleInvariance, PTL

(* The same whether or not the identity can be written: the only shell that  *)
(* may be left is one that was told to end before it did anything.          *)
DoomedAtMost ==
  /\ \A s \in Runs : Alive(s) => pidFile = s \/ Doomed(s)
  /\ call.op = "none" /\ HasNoBrowser =>
       \A s \in Runs : (Alive(s) => Doomed(s)) /\ (BrowserAlive(s) => browser[s].quit)

(* Without the assumption that the identity can be written. *)
THEOREM OnlyTheDoomedLeft == Spec => []DoomedAtMost
<1>1. IInv => DoomedAtMost
  BY DEF IInv, RunsInv, CallInv, DoomedAtMost, Active
<1> QED BY <1>1, LifecycleInvariance, PTL
=============================================================================
