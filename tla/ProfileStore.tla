---------------------------- MODULE ProfileStore ----------------------------
(***************************************************************************)
(* The profiles of the browser: the database with its log, the directories  *)
(* with the site data, and the one browser process that holds the lock.     *)
(* Opening the store takes several steps and the process may end after each *)
(* of them; a transaction of SQLite is in the log as a whole or not at all. *)
(***************************************************************************)
EXTENDS Naturals, FiniteSetsExt

CONSTANTS
  Profiles,   \* the ids, 1..n; bound: the largest number a profile may get
  Limit,      \* BROWSER_PROFILE_LIMIT
  MaxDamages, \* bound: how often the database is damaged
  MaxLapses,  \* bound: file operations that fail
  LogAlone,   \* whether the log may be damaged so that the file is good without it
  None

VARIABLES
  disk,     \* browser.sqlite3 (main, log), the profile directories, the legacy state
  store     \* the process: profile_runtime, and how far it has come

storeVars == <<disk, store>>

Empty ==
  [birth |-> [p \in Profiles |-> 0], default |-> 0, active |-> 0, pending |-> 0,
   last |-> 0, migrated |-> FALSE]

Down == [at |-> "down", recovered |-> FALSE, snapshot |-> None, running |-> 0, birth |-> 0]

(* A birth stands for one profile, its id may be given again: dirs[p] holds  *)
(* the births of those who wrote there. damage numbers the damages, bad says *)
(* where the last one is, whole that nothing was removed since.             *)
New ==
  [main |-> None, log |-> None, bad |-> "", damage |-> 0, whole |-> TRUE, kept |-> {},
   dirs |-> [p \in Profiles |-> {}], legacy |-> {"state", "runtime"},
   births |-> 0, override |-> 0, lapses |-> 0, lost |-> FALSE]

(* A device with the state of an older version, or one whose browser ran and     *)
(* ended.                                                                    *)
Used ==
  [New EXCEPT !.main = [Empty EXCEPT !.birth[1] = 1, !.default = 1, !.active = 1, !.last = 1,
                                     !.migrated = TRUE],
              !.dirs[1] = {1}, !.legacy = {}, !.births = 1]

Init == disk \in {New, Used} /\ store = Down

Db == IF disk.log # None THEN disk.log ELSE disk.main
Rows(db) == {p \in Profiles : db.birth[p] # 0}
Commit(d, db) == [d EXCEPT !.log = db]
At(step) == store.at = step
Goes(step) == store' = [store EXCEPT !.at = step]
MayLapse == disk.lapses < MaxLapses
Lapsed(d) == [d EXCEPT !.lapses = @ + 1]
Ends == store' = Down

Guest == Max(Profiles) + 1
-----------------------------------------------------------------------------
(* open_database_with_recovery. *)

Corrupt == disk.bad = "main" \/ (disk.bad = "log" /\ disk.log # None)

(* Under the lock; the copy is taken before SQLite sees the files. A shell    *)
(* that starts has no profile to override; one that starts its browser      *)
(* again has the one that was asked for.                                    *)
Opens ==
  /\ At("down")
  /\ \E keep \in BOOLEAN : disk' = IF keep THEN disk ELSE [disk EXCEPT !.override = 0]
  /\ IF disk.main = None THEN store' = [Down EXCEPT !.at = "schema"]
     ELSE store' = [Down EXCEPT !.at = "check", !.snapshot = disk.whole]
SnapshotFails == At("check") /\ MayLapse /\ disk' = Lapsed(disk) /\ Ends

(* mutation: the copy is discarded whatever the check says. *)
Promoted_Discards(kept) == kept

(* The copy becomes a backup, of the whole database if nothing was missing.   *)
Promoted(kept) == IF store.snapshot THEN kept \cup {disk.damage} ELSE kept

QuickCheck ==
  /\ At("check")
  /\ IF Corrupt THEN disk' = [disk EXCEPT !.kept = Promoted(@)] /\ Goes("remove log")
     ELSE Goes("schema") /\ UNCHANGED disk

(* The sidecars first, the database last. *)
RemoveLog ==
  /\ At("remove log")
  /\ disk' = [disk EXCEPT !.log = None, !.whole = FALSE, !.lost = TRUE,
                          !.bad = IF @ = "log" THEN "" ELSE @]
  /\ Goes("remove main")
RemoveMain ==
  /\ At("remove main")
  /\ disk' = [disk EXCEPT !.main = None, !.bad = ""]
  /\ store' = [store EXCEPT !.at = "schema", !.recovered = TRUE]
RemovalFails ==
  /\ store.at \in {"remove log", "remove main"} /\ MayLapse
  /\ disk' = Lapsed(disk) /\ Ends
-----------------------------------------------------------------------------
(* browser_profile_store_open, after that. *)

Schema ==
  /\ At("schema")
  /\ disk' = [disk EXCEPT !.main = IF @ = None THEN Empty ELSE @, !.whole = (@ \/ disk.main = None)]
  /\ Goes("profiles")

(* mutation: an empty database gives its first number.                        *)
FreshId_First == 1

(* A number above that of every directory there is.                          *)
FreshId == 1 + Max({0} \cup {p \in Profiles : disk.dirs[p] # {}})

(* create_default_profile, in one transaction.                              *)
DefaultProfile ==
  /\ At("profiles") /\ Goes("mark")
  /\ IF Rows(Db) # {} THEN UNCHANGED disk
     ELSE /\ FreshId \in Profiles
          /\ disk' = [Commit(disk, [Db EXCEPT !.birth[FreshId] = disk.births + 1, !.default = FreshId,
                                              !.active = FreshId, !.last = FreshId])
                        EXCEPT !.births = @ + 1]

(* A recovered database takes nothing over from an older version.            *)
MarkRecovered ==
  /\ At("mark") /\ Goes("import")
  /\ disk' = IF store.recovered THEN Commit(disk, [Db EXCEPT !.migrated = TRUE]) ELSE disk

(* migrate_legacy_state: settings and tabs are taken over (which may happen   *)
(* again), the state is renamed, the runtime directory moved, and that      *)
(* marked.                                                                  *)
ImportState ==
  /\ At("import") /\ UNCHANGED disk
  /\ Goes(IF Db.migrated THEN "cleanup" ELSE IF "state" \in disk.legacy THEN "rename" ELSE "move")
RenameState ==
  /\ At("rename")
  /\ \/ disk' = [disk EXCEPT !.legacy = @ \ {"state"}] /\ Goes("move")
     \/ MayLapse /\ disk' = Lapsed(disk) /\ Ends
MoveRuntime ==
  /\ At("move")
  /\ \/ /\ disk' = IF disk.dirs[Db.default] # {} \/ "runtime" \notin disk.legacy THEN disk
                   ELSE [disk EXCEPT !.legacy = @ \ {"runtime"},
                                     !.dirs[Db.default] = {Db.birth[Db.default]}]
        /\ Goes("migrated")
     \/ MayLapse /\ "runtime" \in disk.legacy /\ disk' = Lapsed(disk) /\ Ends
MarkMigrated ==
  /\ At("migrated")
  /\ disk' = Commit(disk, [Db EXCEPT !.migrated = TRUE]) /\ Goes("cleanup")

(* cleanup_pending_delete: the directory goes first, then the mark; if the     *)
(* directory does not go, the mark stays.                                   *)
CleanupTree ==
  /\ At("cleanup")
  /\ IF Db.pending = 0 THEN UNCHANGED disk /\ Goes("profile")
     ELSE \/ disk' = [disk EXCEPT !.dirs[Db.pending] = {}] /\ Goes("unmark")
          \/ MayLapse /\ disk' = Lapsed(disk) /\ Goes("profile")
CleanupMark ==
  /\ At("unmark")
  /\ disk' = Commit(disk, [Db EXCEPT !.pending = 0]) /\ Goes("profile")

(* profile_runtime_initialize: the profile asked for, or the last one.        *)
InitialProfile ==
  /\ At("profile")
  /\ LET p == IF disk.override # 0 THEN disk.override
              ELSE IF Db.active # 0 THEN Db.active ELSE Db.default
     IN  IF p = Guest THEN UNCHANGED disk /\ store' = [store EXCEPT !.at = "running"]
         ELSE IF p \notin Rows(Db) THEN UNCHANGED disk /\ Ends
         ELSE /\ disk' = Commit(disk, [Db EXCEPT !.active = p])
              /\ store' = [store EXCEPT !.at = "running", !.running = p, !.birth = Db.birth[p]]
-----------------------------------------------------------------------------
(* The running browser. *)

Running == At("running")
Named == Running /\ store.running # 0

WritesSiteData ==
  /\ Named
  /\ disk' = [disk EXCEPT !.dirs[store.running] = @ \cup {store.birth}]
  /\ UNCHANGED store

(* chrome_write_profile_switch and exit 75; should the file not be written,    *)
(* the browser goes on as it is.                                            *)
Leaves(d, p) ==
  \/ disk' = [d EXCEPT !.override = p] /\ Ends
  \/ MayLapse /\ disk' = Lapsed(d) /\ UNCHANGED store

SwitchProfile(p) ==
  /\ Running /\ p \in Rows(Db) \cup {Guest}
  /\ Leaves(IF p = Guest THEN disk ELSE Commit(disk, [Db EXCEPT !.active = p]), p)

(* create_profile: numbers are never given again (AUTOINCREMENT).             *)
CreateProfile ==
  /\ Running /\ Cardinality(Rows(Db)) < Limit
  /\ LET p == Db.last + 1
     IN  /\ p \in Profiles
         /\ Leaves([Commit(disk, [Db EXCEPT !.birth[p] = disk.births + 1, !.last = p, !.active = p])
                      EXCEPT !.births = @ + 1], p)

(* prepare_delete_profile, in one transaction.                              *)
Deleted(db, p) ==
  [db EXCEPT !.birth[p] = 0, !.pending = p, !.active = IF @ = p THEN db.default ELSE @]

(* The profile in use is deleted; its directory is left to the next start,     *)
(* unless the database has another one as the active one.                   *)
DeleteProfile ==
  /\ Named /\ store.running \in Rows(Db) \ {Db.default}
  /\ LET p == store.running
         d == Commit(disk, Deleted(Db, p))
         cleaned == [Commit(d, [d.log EXCEPT !.pending = 0]) EXCEPT !.dirs[p] = {}]
     IN  Leaves(IF Db.active = p THEN d ELSE cleaned, Db.default)
-----------------------------------------------------------------------------
(* The world. *)

(* SQLite moves the log into the database file. *)
Checkpoint ==
  /\ Running /\ disk.log # None
  /\ disk' = [disk EXCEPT !.main = disk.log, !.log = None]
  /\ UNCHANGED store

(* The process ends, after any step; only a browser that never showed a frame  *)
(* is started again with the profile it was asked for.                      *)
Crash ==
  /\ ~At("down") /\ Ends
  /\ disk' = IF Running THEN [disk EXCEPT !.override = 0] ELSE disk

Damage ==
  /\ At("down") /\ disk.main # None /\ disk.damage < MaxDamages /\ ~Corrupt
  /\ \E where \in {"main"} \cup (IF LogAlone /\ disk.log # None THEN {"log"} ELSE {}) :
       disk' = [disk EXCEPT !.bad = where, !.damage = @ + 1, !.whole = TRUE]
  /\ UNCHANGED store

Next ==
  \/ Opens \/ SnapshotFails \/ QuickCheck \/ RemoveLog \/ RemoveMain \/ RemovalFails
  \/ Schema \/ DefaultProfile \/ MarkRecovered
  \/ ImportState \/ RenameState \/ MoveRuntime \/ MarkMigrated
  \/ CleanupTree \/ CleanupMark \/ InitialProfile
  \/ WritesSiteData \/ CreateProfile \/ DeleteProfile
  \/ \E p \in Profiles \cup {Guest} : SwitchProfile(p)
  \/ Checkpoint \/ Crash \/ Damage

Spec == Init /\ [][Next]_storeVars
-----------------------------------------------------------------------------
TypeOK ==
  /\ disk.main = None => disk.log = None
  /\ disk.override \in Profiles \cup {0, Guest}
  /\ Db # None => /\ (Db.default = 0) = (Rows(Db) = {})
                  /\ Db.active \in Rows(Db) \cup {0}

(* Site data of one profile is never seen by another one, whatever crashes,   *)
(* damages and recoveries there were (the comment in create_default_profile *)
(* says so of a recovered database); and data of a deleted profile is in    *)
(* use, or marked to be removed, while no file operation failed and no      *)
(* database was lost.                                                       *)
ProfilesApart ==
  Db # None => \A p \in Profiles :
    /\ Db.birth[p] # 0 => disk.dirs[p] \subseteq {Db.birth[p]}
    /\ Db.birth[p] = 0 /\ disk.dirs[p] # {} =>
         Db.pending = p \/ store.running = p \/ disk.lapses > 0 \/ disk.lost

(* A damaged database is there as a whole, in its place or as a backup.       *)
EvidenceKept ==
  disk.damage # 0 => disk.whole \/ disk.damage \in disk.kept
=============================================================================
