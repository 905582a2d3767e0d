--------------------------- MODULE MemoryGovernor ---------------------------
(***************************************************************************)
(* The memory governor of the browser process: memory-runtime.sh chooses a  *)
(* profile when the shell starts, and every two seconds a timer reads        *)
(* /proc/meminfo, moves the level of pressure and has caches trimmed         *)
(* (memory_governor_tick, browser-memory-policy.c).                         *)
(*                                                                          *)
(* A device has a total of memory and of swap, and the pairs of both that may  *)
(* be free at a time; all amounts are in kB, all times in seconds. Clocks      *)
(* are ages, kept up to the bound that is asked for. Left out: limits and     *)
(* thresholds given in the environment, and what WebKit does with its own    *)
(* thresholds of the profile.                                               *)
(***************************************************************************)
EXTENDS Integers, FiniteSetsExt

CONSTANTS None, Devices

VARIABLES
  memory,    \* the device, the policy of its profile, and the governor
  relief     \* what the properties remember

vars == <<memory, relief>>

Normal == 0
Warning == 1
Critical == 2
MB == 1024
SummaryPeriod == 30
Elapsed == {2, 4}      \* a timer of two seconds may be late

(* What meminfo may say.                                                     *)
Readings(device) ==
  { [total |-> device.total, swapTotal |-> device.swap, available |-> f[1], swapFree |-> f[2]] :
      f \in device.free }
-----------------------------------------------------------------------------
(* memory_runtime_init *)
Profile(r) ==
  IF r.total >= 1572864 /\ r.available >= 393216 THEN "large"
  ELSE IF /\ r.total >= 921600 /\ r.available >= 196608 /\ r.swapTotal >= 524224
          /\ \/ r.swapFree >= 262144
             \/ r.available >= 393216 /\ r.swapFree >= 131072
  THEN "balanced" ELSE "conservative"

Thresholds(profile) ==
  CASE profile = "large" -> [warning |-> 85, critical |-> 93, warningMB |-> 256, criticalMB |-> 128]
    [] profile = "balanced" -> [warning |-> 82, critical |-> 90, warningMB |-> 192, criticalMB |-> 96]
    [] OTHER -> [warning |-> 80, critical |-> 88, warningMB |-> 192, criticalMB |-> 96]

RecoverySeconds == 10

(* env_uint, with the bounds memory_governor_tick has for each threshold.       *)
EnvUint(value, fallback, lowest, highest) ==
  IF value \in lowest..highest THEN value ELSE fallback

Policy(given) ==
  LET warning == EnvUint(given.warning, 82, 50, 98)
      warningMB == EnvUint(given.warningMB, 192, 32, 4096)
  IN  [warning |-> warning, critical |-> EnvUint(given.critical, 90, warning + 1, 99),
       warningMB |-> warningMB, criticalMB |-> EnvUint(given.criticalMB, 96, 16, warningMB)]

(* read_system_memory_snapshot *)
Readable(r) == r.total > 0 /\ r.available > 0
-----------------------------------------------------------------------------
(* browser-memory-policy.c *)
UsedPercent(r) == ((r.total - Min({r.available, r.total})) * 100) \div r.total

Classify(r, p) ==
  IF \/ UsedPercent(r) >= p.critical \/ r.available <= p.criticalMB * MB
     \/ r.swapTotal > 0 /\ r.swapFree <= 64 * MB
  THEN Critical
  ELSE IF \/ UsedPercent(r) >= p.warning \/ r.available <= p.warningMB * MB
          \/ r.swapTotal > 0 /\ r.swapFree * 10 <= r.swapTotal * 3
  THEN Warning
  ELSE Normal

SafelyRecovered(level, r, p) ==
  LET critical == level = Critical
  IN  /\ UsedPercent(r) + 4 < (IF critical THEN p.critical ELSE p.warning)
      /\ r.available > (IF critical THEN p.criticalMB + 32 ELSE p.warningMB + 64) * MB
      /\ \/ r.swapTotal = 0
         \/ IF critical THEN r.swapFree > 128 * MB ELSE r.swapFree * 10 > r.swapTotal * 4

Aged(age, by, limit) == IF age = None THEN None ELSE Min({age + by, limit})

(* mutation: a reading at the level does not start the recovery anew.          *)
Update_KeepsClock(g, r, p, by) ==
  LET desired == Classify(r, p)
      since == Aged(g.since, by, RecoverySeconds)
  IN  IF desired > g.level THEN [level |-> desired, since |-> None]
      ELSE IF desired = g.level THEN [g EXCEPT !.since = since]
      ELSE IF ~SafelyRecovered(g.level, r, p) THEN [g EXCEPT !.since = None]
      ELSE IF since = None THEN [g EXCEPT !.since = 0]
      ELSE IF since >= RecoverySeconds
      THEN [level |-> IF g.level = Critical THEN Warning ELSE desired, since |-> None]
      ELSE [g EXCEPT !.since = since]

(* browser_memory_governor_update: pressure rises at once and eases by one       *)
(* level, or to normal, after ten seconds of readings that are safely below.   *)
Update(g, r, p, by) ==
  LET desired == Classify(r, p)
      since == Aged(g.since, by, RecoverySeconds)
  IN  IF desired > g.level THEN [level |-> desired, since |-> None]
      ELSE IF desired = g.level \/ ~SafelyRecovered(g.level, r, p) THEN [g EXCEPT !.since = None]
      ELSE IF since = None THEN [g EXCEPT !.since = 0]
      ELSE IF since >= RecoverySeconds
      THEN [level |-> IF g.level = Critical THEN Warning ELSE desired, since |-> None]
      ELSE [g EXCEPT !.since = since]
-----------------------------------------------------------------------------
(* Comfortably away from every threshold.                                     *)
Plentiful(r, p) ==
  /\ UsedPercent(r) + 5 <= p.warning
  /\ r.available > (p.warningMB + 64) * MB
  /\ r.swapTotal > 0 => r.swapFree > 128 * MB /\ r.swapFree * 10 > r.swapTotal * 4

(* Two recoveries, each begun and ended by a tick that may be late.             *)
RecoveryTime == 2 * (RecoverySeconds + Max(Elapsed)) + Max(Elapsed)

Init ==
  /\ \E device \in Devices : \E r \in Readings(device) :
       memory = [device |-> device, policy |-> Policy(Thresholds(Profile(r))),
                 governor |-> [level |-> Normal, since |-> None], summary |-> None]
  /\ relief = [answered |-> TRUE, early |-> FALSE, forgot |-> FALSE, quiet |-> 0,
                plenty |-> None, trimmed |-> None]

(* memory_governor_tick. For the properties: how long ago a reading was as bad   *)
(* as the level, since when all have been plentiful, and how long ago the      *)
(* caches were trimmed as the level asks.                                    *)
Tick(r, by) ==
  \E g \in {Update(memory.governor, r, memory.policy, by)} :
    LET summary == Aged(memory.summary, by, SummaryPeriod)
        transitioned == g.level # memory.governor.level
        periodic == summary = None \/ summary >= SummaryPeriod
        trims == g.level > Normal /\ (transitioned \/ periodic)
        quiet == Aged(relief.quiet, by, RecoverySeconds)
        trimmed == Aged(relief.trimmed, by, SummaryPeriod)
    IN  /\ memory' = [memory EXCEPT !.governor = g,
                        !.summary = IF transitioned \/ periodic THEN 0 ELSE summary]
        /\ relief' = [answered |-> g.level >= Classify(r, memory.policy),
                      early |-> g.level < memory.governor.level /\ quiet < RecoverySeconds,
                      forgot |-> g.level > Normal /\ ~trims /\ trimmed \in {None, SummaryPeriod},
                      quiet |-> IF transitioned \/ Classify(r, memory.policy) >= g.level THEN 0 ELSE quiet,
                      plenty |-> IF ~Plentiful(r, memory.policy) THEN None
                                 ELSE IF relief.plenty = None THEN 0
                                 ELSE Aged(relief.plenty, by, RecoveryTime),
                      trimmed |-> IF g.level = Normal THEN None
                                  ELSE IF trims THEN 0 ELSE trimmed]

(* meminfo cannot be read: nothing happens, only time passes.                  *)
Unread(by) ==
  /\ memory' = [memory EXCEPT !.governor.since = Aged(@, by, RecoverySeconds),
                              !.summary = Aged(@, by, SummaryPeriod)]
  /\ relief' = [relief EXCEPT !.quiet = Aged(@, by, RecoverySeconds), !.plenty = None,
                              !.trimmed = Aged(@, by, SummaryPeriod)]

GovernorTick ==
  \E r \in Readings(memory.device), by \in Elapsed :
    IF Readable(r) THEN Tick(r, by) ELSE Unread(by)

Next == GovernorTick

Spec == Init /\ [][Next]_vars
-----------------------------------------------------------------------------
TypeOK ==
  /\ memory.device \in Devices
  /\ memory.governor.level \in {Normal, Warning, Critical}
  /\ memory.governor.since \in {None} \cup 0..RecoverySeconds
  /\ memory.summary \in {None} \cup 0..SummaryPeriod

(* Pressure is answered by the tick that sees it, and as long as it lasts no tick *)
(* finds the caches untrimmed for half a minute and leaves them so.            *)
Relieved == relief.answered /\ ~relief.forgot

(* The level never eases within ten seconds of a reading that was as bad.        *)
EasesSlowly == ~relief.early

(* Memory that stays plentiful ends the pressure.                             *)
PressureEnds == relief.plenty = RecoveryTime => memory.governor.level = Normal

PressureHandled == Relieved /\ EasesSlowly /\ PressureEnds
=============================================================================
