------------------------- MODULE ProfileStoreProofs -------------------------
(***************************************************************************)
(* The profiles through every crash, damage and recovery: no profile sees    *)
(* the site data of another one, and what was damaged is kept. The           *)
(* invariant says what the database, its log and the directories agree on    *)
(* (DiskInv) and what each step of opening the store may rely on (StageInv).  *)
(***************************************************************************)
EXTENDS ProfileStore, WellFoundedInduction, TLAPS

Numbers == Profiles \cup {0}
DbType ==
  [birth : [Profiles -> Nat], default : Numbers, active : Numbers, pending : Numbers,
   last : Numbers, migrated : BOOLEAN]
DiskType ==
  [main : DbType \cup {None}, log : DbType \cup {None}, bad : {"", "main", "log"}, damage : Nat,
   whole : BOOLEAN, kept : SUBSET Nat, dirs : [Profiles -> SUBSET Nat],
   legacy : SUBSET {"state", "runtime"}, births : Nat, override : Numbers \cup {Guest},
   lapses : Nat, lost : BOOLEAN]
Early == {"down", "check", "remove log", "remove main"}
Late ==
  {"mark", "import", "rename", "move", "migrated", "cleanup", "unmark", "profile", "running"}
StoreType ==
  [at : Early \cup {"schema", "profiles"} \cup Late, recovered : BOOLEAN,
   snapshot : BOOLEAN \cup {None}, running : Numbers, birth : Nat]

(* Ids are numbers from 1; None is no database and no answer.                  *)
Constants ==
  /\ \E n \in Nat \ {0} : Profiles = 1..n
  /\ None \notin DbType /\ None \notin BOOLEAN

Current(d) == IF d.log # None THEN d.log ELSE d.main

(* A database: numbers above the last one were never given, the default and    *)
(* the active profile are there, the one to be removed is not.               *)
DbOK(db) ==
  /\ \A p \in Profiles : db.birth[p] # 0 => p <= db.last
  /\ db.default = 0 => db.last = 0
  /\ db.default # 0 => db.birth[db.default] # 0
  /\ db.active # 0 => db.birth[db.active] # 0
  /\ db.pending # 0 => db.birth[db.pending] = 0
  /\ db.pending <= db.last

DatabasesOK(d) ==
  /\ d.main # None => DbOK(d.main)
  /\ d.log # None => d.main # None /\ DbOK(d.log) /\ d.log.default # 0

Evidence(d) == d.damage # 0 => d.whole \/ d.damage \in d.kept

(* A directory holds what the profile of its number wrote.                    *)
OwnData(db, dirs) == \A p \in Profiles : db.birth[p] # 0 => dirs[p] \subseteq {db.birth[p]}

(* The database file is older than its log.                                   *)
Older(main, log) ==
  \A p \in Profiles : main.birth[p] # 0 => p <= log.last /\ log.birth[p] \in {0, main.birth[p]}

(* A directory has a number that was given.                                   *)
Numbered(db, dirs) == db.default # 0 => \A p \in Profiles : dirs[p] # {} => p <= db.last

(* The directory of a deleted profile is to be removed.                         *)
Swept(db, dirs) == \A p \in Profiles : db.birth[p] = 0 /\ dirs[p] # {} => db.pending = p

Faultless(d) == d.lapses = 0 /\ ~d.lost

DataOK(d) ==
  /\ d.bad # "log" /\ (d.bad = "main" => d.main # None)
  /\ d.main # None => OwnData(d.main, d.dirs)
  /\ d.log # None => OwnData(d.log, d.dirs) /\ Older(d.main, d.log)
  /\ d.main # None /\ d.bad = "" => Numbered(Current(d), d.dirs)
  /\ Faultless(d) /\ d.main = None => \A p \in Profiles : d.dirs[p] = {}
  /\ Faultless(d) /\ d.main # None => Swept(Current(d), d.dirs)

DiskInv(d) == DatabasesOK(d) /\ Evidence(d) /\ (~LogAlone => DataOK(d))

(* How far the store has come says what is there, and what is to be removed was *)
(* copied.                                                                    *)
StageOK(d, s) ==
  /\ s.at \notin {"down", "schema"} => d.main # None
  /\ s.at \in Late => Current(d).default # 0
  /\ s.running # 0 => s.at = "running"
  /\ s.at = "check" => s.snapshot = d.whole
  /\ s.at \in {"remove log", "remove main"} => d.damage = 0 \/ d.damage \in d.kept
  /\ s.at = "remove main" => d.log = None /\ d.lost

(* The profile in use is the one that was opened, or was deleted since; that   *)
(* only when the browser could not leave.                                    *)
InUse(d, s) ==
  s.running # 0 =>
    /\ s.birth # 0 /\ s.running <= Current(d).last
    /\ Current(d).birth[s.running] \in {0, s.birth}
    /\ d.main.birth[s.running] \in {0, s.birth}
    /\ Faultless(d) => Current(d).birth[s.running] # 0

Cleaned(db, dirs) == db.pending # 0 => dirs[db.pending] = {}

DataInUse(d, s) ==
  /\ InUse(d, s)
  /\ d.bad = "main" => s.at \in Early
  /\ s.at \in {"remove log", "remove main"} => d.bad = "main"
  /\ Faultless(d) /\ s.at = "unmark" => Current(d).pending # 0
  /\ Faultless(d) /\ s.at \in {"unmark", "profile", "running"} => Cleaned(Current(d), d.dirs)

StageInv(d, s) == StageOK(d, s) /\ (~LogAlone => DataInUse(d, s))

Types == disk \in DiskType /\ store \in StoreType
IInv == Types /\ DiskInv(disk) /\ StageInv(disk, store)
-----------------------------------------------------------------------------
(* A set of numbers up to n has a largest one.                              *)
LEMMA HasMaximum ==
  ASSUME NEW n \in Nat, NEW S \in SUBSET (0..n), S # {}
  PROVE  Max(S) \in S /\ \A x \in S : x <= Max(S)
<1> DEFINE T == {n - x : x \in S}
<1>1. T \in SUBSET Nat
  <2>1. \A x \in 0..n : n - x \in Nat
    OBVIOUS
  <2> QED BY <2>1
<1>2. T # {}
  <2>1. PICK x \in S : TRUE
    OBVIOUS
  <2>2. n - x \in T
    BY <2>1
  <2> QED BY <2>2
<1>3. PICK m \in T : \A k \in T : <<k, m>> \notin OpToRel(<, Nat)
  BY <1>1, <1>2, NatLessThanWellFounded, WFMin
<1>4. \A k \in T : ~(k < m)
  BY <1>1, <1>3 DEF OpToRel
<1>5. PICK x \in S : m = n - x
  BY <1>3
<1>6. \A y \in S : x >= y
  <2>1. SUFFICES ASSUME NEW y \in S PROVE x >= y
    OBVIOUS
  <2>2. n - y \in T
    OBVIOUS
  <2>3. ~(n - y < n - x)
    BY <2>2, <1>4, <1>5
  <2> QED BY <2>3
<1>7. Max(S) \in S /\ \A y \in S : Max(S) >= y
  BY <1>5, <1>6 DEF Max
<1>8. S \subseteq Int
  <2>1. 0..n \subseteq Int
    OBVIOUS
  <2>2. S \subseteq 0..n
    OBVIOUS
  <2> QED BY <2>1, <2>2
<1> HIDE DEF T
<1>9. \A y \in S : y <= Max(S)
  BY <1>7, <1>8
<1> QED BY <1>7, <1>9

(* For contexts the provers of arithmetic do not read.                      *)
LEMMA Transitive == \A i, j, k \in Nat : i <= j /\ j <= k => i <= k
  OBVIOUS

(* Ids start at 1; the fresh one is above every directory.                  *)
LEMMA Ids ==
  ASSUME Constants
  PROVE  /\ Profiles \subseteq Nat \ {0} /\ 1 \in Profiles /\ Numbers \subseteq Nat
         /\ FreshId \in Nat \ {0}
         /\ \A p \in Profiles : disk.dirs[p] # {} => p < FreshId
<1>1. PICK n \in Nat \ {0} : Profiles = 1..n
  BY DEF Constants
<1>2. Profiles \subseteq Nat \ {0} /\ 1 \in Profiles /\ Numbers \subseteq Nat
  BY <1>1 DEF Numbers
<1> DEFINE S == {0} \cup {p \in Profiles : disk.dirs[p] # {}}
<1>3. S \in SUBSET (0..n) /\ S # {}
  BY <1>1
<1>4. Max(S) \in S /\ \A x \in S : x <= Max(S)
  BY <1>3, HasMaximum
<1>5. Max(S) \in Nat
  <2>1. 0..n \subseteq Nat
    OBVIOUS
  <2> HIDE DEF S
  <2> QED BY <2>1, <1>3, <1>4
<1>6. FreshId = 1 + Max(S)
  BY DEF FreshId
<1>7. ASSUME NEW p \in Profiles, disk.dirs[p] # {} PROVE p < FreshId
  <2>1. p \in S
    BY <1>7
  <2> QED BY <2>1, <1>2, <1>4, <1>5, <1>6
<1> HIDE DEF S
<1> QED BY <1>2, <1>5, <1>6, <1>7

(* What counts, log or file, is a sound database.                           *)
LEMMA Currents ==
  ASSUME Constants, NEW d \in DiskType, DatabasesOK(d), d.main # None
  PROVE  /\ Current(d) \in DbType /\ DbOK(Current(d)) /\ d.main \in DbType
         /\ d.log # None => d.log \in DbType
<1> QED BY DEF Current, DatabasesOK, DiskType, Constants

(* A process that has ended relies on nothing.                              *)
LEMMA Ended ==
  ASSUME Constants, NEW d \in DiskType
  PROVE  Down \in StoreType /\ StageInv(d, Down)
<1>1. Down \in StoreType
  BY DEF Down, StoreType, Numbers, Early
<1>2. Down.at = "down" /\ Down.running = 0
  BY DEF Down
<1> QED BY <1>1, <1>2 DEF StageInv, StageOK, DataInUse, InUse, Early, Late

(* The databases and the directories stay what they are.                    *)
LEMMA Alike ==
  ASSUME Constants, NEW d \in DiskType, NEW e \in DiskType, DiskInv(d),
         e.main = d.main, e.log = d.log, e.bad = d.bad, e.dirs = d.dirs,
         Evidence(e), Faultless(e) => Faultless(d)
  PROVE  DiskInv(e) /\ Current(e) = Current(d)
<1>1. Current(e) = Current(d)
  BY DEF Current
<1> QED BY <1>1 DEF DiskInv, DatabasesOK, DataOK

(* Every number given so far means the same, or nothing.                       *)
Extends(old, db) ==
  old.last <= db.last /\ \A q \in Profiles : q <= old.last => db.birth[q] \in {0, old.birth[q]}
(* Who is new finds an empty directory.                                       *)
Fresh(old, db, dirs) ==
  \A q \in Profiles : db.birth[q] # 0 => db.birth[q] = old.birth[q] \/ dirs[q] = {}

(* No number was given or taken.                                            *)
LEMMA SameNumbers ==
  ASSUME Constants, NEW a \in DbType, NEW b \in DbType, b.birth = a.birth, b.last = a.last
  PROVE  Extends(a, b)
<1>1. a.last <= b.last
  BY Ids DEF DbType
<1> QED BY <1>1 DEF Extends

(* A transaction that gives only fresh numbers keeps the disk sound.        *)
LEMMA Commits ==
  ASSUME Constants, NEW d \in DiskType, NEW e \in DiskType, DiskInv(d), d.main # None,
         e.main = d.main, e.log # None, e.bad = d.bad, Evidence(e),
         Faultless(e) => Faultless(d),
         \A p \in Profiles : e.dirs[p] \subseteq d.dirs[p],
         DbOK(e.log), e.log.default # 0, Extends(Current(d), e.log),
         ~LogAlone => /\ Fresh(Current(d), e.log, e.dirs)
                      /\ e.bad = "" => Numbered(e.log, e.dirs)
                      /\ Faultless(e) => Swept(e.log, e.dirs)
  PROVE  DiskInv(e) /\ Current(e) = e.log
<1>1. Current(e) = e.log
  BY DEF Current
<1>2. DatabasesOK(e)
  BY DEF DiskInv, DatabasesOK
<1>3. /\ Current(d) \in DbType /\ DbOK(Current(d)) /\ d.main \in DbType
      /\ d.log # None => d.log \in DbType
  BY Currents DEF DiskInv
<1>4. e.log \in DbType
  BY DEF DiskType
<1>5. ASSUME ~LogAlone PROVE DataOK(e)
  <2>0. DataOK(d)
    BY <1>5 DEF DiskInv
  <2>1. OwnData(Current(d), d.dirs)
    BY <2>0 DEF DataOK, Current
  <2>2. OwnData(e.log, e.dirs)
    BY <1>5, <2>1 DEF OwnData, Fresh
  <2>3. OwnData(e.main, e.dirs)
    BY <2>0 DEF DataOK, OwnData
  <2>4. Older(d.main, Current(d))
    <3>1. CASE d.log # None
      BY <2>0, <3>1 DEF DataOK, Current
    <3>2. CASE d.log = None
      BY <3>2, <1>3 DEF Current, Older, DbOK
    <3> QED BY <3>1, <3>2
  <2>5. Older(e.main, e.log)
    <3>1. SUFFICES ASSUME NEW p \in Profiles, d.main.birth[p] # 0
                   PROVE  p <= e.log.last /\ e.log.birth[p] \in {0, d.main.birth[p]}
      BY DEF Older
    <3>2. p <= Current(d).last /\ Current(d).birth[p] \in {0, d.main.birth[p]}
      BY <3>1, <2>4 DEF Older
    <3>3. /\ p \in Nat /\ Current(d).last \in Nat /\ e.log.last \in Nat
          /\ Current(d).last <= e.log.last
      BY Ids, <1>3, <1>4 DEF Extends, DbType
    <3>4. e.log.birth[p] \in {0, Current(d).birth[p]}
      BY <3>2 DEF Extends
    <3>5. p <= e.log.last
      <4> QED BY <3>2, <3>3, Transitive, Zenon
    <3>6. e.log.birth[p] \in {0, d.main.birth[p]}
      BY <3>2, <3>4
    <3> QED BY <3>5, <3>6
  <2> QED BY <1>1, <1>5, <2>0, <2>2, <2>3, <2>5 DEF DataOK
<1> QED BY <1>1, <1>2, <1>5 DEF DiskInv
-----------------------------------------------------------------------------
NextInv ==
  disk' \in DiskType /\ store' \in StoreType /\ DiskInv(disk') /\ StageInv(disk', store')

(* The same disk, but for a failed operation and the profile asked for.        *)
LEMMA Lapses ==
  ASSUME Constants, IInv, NEW o \in Numbers \cup {Guest},
         NEW l \in {disk.lapses, disk.lapses + 1}
  PROVE  LET e == [disk EXCEPT !.override = o, !.lapses = l]
         IN  /\ e \in DiskType /\ DiskInv(e) /\ Current(e) = Current(disk)
             /\ e.main = disk.main /\ e.log = disk.log /\ e.bad = disk.bad
             /\ e.damage = disk.damage /\ e.whole = disk.whole /\ e.kept = disk.kept
             /\ e.dirs = disk.dirs /\ Faultless(e) => Faultless(disk)
<1> DEFINE e == [disk EXCEPT !.override = o, !.lapses = l]
<1>1. disk \in DiskType
  BY DEF IInv, Types
<1>2. e \in DiskType
  <2>0. disk.lapses \in Nat
    BY <1>1 DEF DiskType
  <2>1. l \in Nat
    BY <2>0
  <2> QED BY <1>1, <2>1 DEF DiskType
<1>3. /\ e.main = disk.main /\ e.log = disk.log /\ e.bad = disk.bad
      /\ e.damage = disk.damage /\ e.whole = disk.whole /\ e.kept = disk.kept
      /\ e.dirs = disk.dirs /\ e.lapses = l /\ e.lost = disk.lost
      /\ disk.lapses \in Nat
  BY <1>1 DEF DiskType
<1> HIDE DEF e
<1>4. Faultless(e) => Faultless(disk)
  BY <1>3 DEF Faultless
<1>5. Evidence(e)
  BY <1>3 DEF Evidence, IInv, DiskInv
<1>6. DiskInv(e) /\ Current(e) = Current(disk)
  BY <1>1, <1>2, <1>3, <1>4, <1>5, Alike DEF IInv
<1> QED BY <1>2, <1>3, <1>4, <1>6 DEF e

(* An operation on a file fails and the store is not opened.                *)
LEMMA LapseEnds ==
  ASSUME Constants, IInv, disk' = Lapsed(disk), Ends
  PROVE  NextInv
<1> DEFINE e == [disk EXCEPT !.override = disk.override, !.lapses = @ + 1]
<1>1. disk \in DiskType
  BY DEF IInv, Types
<1>2. disk.override \in Numbers \cup {Guest}
  BY <1>1 DEF DiskType
<1>3. e \in DiskType /\ DiskInv(e)
  BY <1>2, Lapses
<1>4. disk' = e
  BY <1>1 DEF Lapsed, DiskType
<1>5. disk' \in DiskType /\ DiskInv(disk') /\ store' = Down
  BY <1>3, <1>4 DEF Ends
<1> QED BY <1>5, Ended DEF NextInv

(* Opens keeps the invariant.                                               *)
LEMMA OpensKeeps ==
  ASSUME Constants, IInv, Opens
  PROVE  NextInv
<1>1. disk \in DiskType
  BY DEF IInv, Types
<1>2. PICK o \in Numbers \cup {Guest} : disk' = [disk EXCEPT !.override = o, !.lapses = @]
  <2>1. PICK o \in {0, disk.override} : disk' = [disk EXCEPT !.override = o]
    <3>1. disk = [disk EXCEPT !.override = disk.override]
      BY <1>1 DEF DiskType
    <3>2. PICK keep \in BOOLEAN : disk' = IF keep THEN disk ELSE [disk EXCEPT !.override = 0]
      BY DEF Opens
    <3> QED BY <3>1, <3>2
  <2>2. o \in Numbers \cup {Guest}
    BY <1>1 DEF DiskType, Numbers
  <2>3. [disk EXCEPT !.override = o] = [disk EXCEPT !.override = o, !.lapses = @]
    BY <1>1 DEF DiskType
  <2> QED BY <2>1, <2>2, <2>3
<1> DEFINE e == [disk EXCEPT !.override = o, !.lapses = @]
<1>3. /\ e \in DiskType /\ DiskInv(e) /\ e.main = disk.main /\ e.whole = disk.whole
      /\ e.bad = disk.bad
  BY Lapses
<1>4. disk' = e
  BY <1>2
<1> HIDE DEF e
<1>5. disk.whole \in BOOLEAN /\ disk.bad \in {"", "main", "log"}
  BY <1>1 DEF DiskType
<1>6. CASE disk.main = None
  <2>1. store' = [Down EXCEPT !.at = "schema"]
    BY <1>6 DEF Opens
  <2>2. store' \in StoreType /\ store'.at = "schema" /\ store'.running = 0
    BY <2>1 DEF Down, StoreType, Numbers
  <2>3. ~LogAlone => e.bad # "main"
    BY <1>3, <1>6 DEF DiskInv, DataOK
  <2>4. StageInv(e, store')
    BY <2>2, <2>3 DEF StageInv, StageOK, DataInUse, InUse, Early, Late
  <2> QED BY <1>3, <1>4, <2>2, <2>4 DEF NextInv
<1>7. CASE disk.main # None
  <2>1. store' = [Down EXCEPT !.at = "check", !.snapshot = disk.whole]
    BY <1>7 DEF Opens
  <2>2. /\ store' \in StoreType /\ store'.at = "check" /\ store'.running = 0
        /\ store'.snapshot = disk.whole
    BY <1>5, <2>1 DEF Down, StoreType, Numbers, Early
  <2>3. StageInv(e, store')
    BY <1>3, <1>7, <2>2 DEF StageInv, StageOK, DataInUse, InUse, Early, Late
  <2> QED BY <1>3, <1>4, <2>2, <2>3 DEF NextInv
<1> QED BY <1>6, <1>7

(* QuickCheck: a damaged database is copied before it goes.                 *)
LEMMA QuickCheckKeeps ==
  ASSUME Constants, IInv, QuickCheck
  PROVE  NextInv
<1>1. /\ disk \in DiskType /\ store \in StoreType /\ DiskInv(disk) /\ StageInv(disk, store)
      /\ store.at = "check"
  BY DEF IInv, Types, QuickCheck, At
<1>2. store.snapshot = disk.whole /\ disk.main # None /\ store.running = 0
  BY <1>1 DEF StageInv, StageOK
<1>3. CASE Corrupt
  <2> DEFINE e == [disk EXCEPT !.kept = Promoted(@)]
  <2>1. disk' = e /\ store' = [store EXCEPT !.at = "remove log"]
    BY <1>3 DEF QuickCheck, Goes
  <2>2. disk.kept \in SUBSET Nat /\ disk.damage \in Nat /\ disk.whole \in BOOLEAN
    BY <1>1 DEF DiskType
  <2>3. Promoted(disk.kept) \in SUBSET Nat /\ disk.kept \subseteq Promoted(disk.kept)
    BY <2>2 DEF Promoted
  <2>4. disk.damage = 0 \/ disk.damage \in Promoted(disk.kept)
    BY <1>1, <1>2, <2>2 DEF DiskInv, Evidence, Promoted
  <2>5. e \in DiskType
    BY <1>1, <2>3 DEF DiskType
  <2>6. /\ e.main = disk.main /\ e.log = disk.log /\ e.bad = disk.bad
        /\ e.damage = disk.damage /\ e.whole = disk.whole /\ e.kept = Promoted(disk.kept)
        /\ e.dirs = disk.dirs /\ e.lapses = disk.lapses /\ e.lost = disk.lost
    BY <1>1 DEF DiskType
  <2> HIDE DEF e
  <2>7. DiskInv(e)
    <3>1. Evidence(e)
      BY <2>4, <2>6 DEF Evidence
    <3>2. Faultless(e) => Faultless(disk)
      BY <2>6 DEF Faultless
    <3> QED BY <1>1, <2>5, <2>6, <3>1, <3>2, Alike
  <2>8. store' \in StoreType /\ store'.at = "remove log" /\ store'.running = 0
    BY <1>1, <1>2, <2>1 DEF StoreType, Early
  <2>9. ~LogAlone => e.bad = "main"
    BY <1>1, <1>3, <2>6 DEF Corrupt, DiskInv, DataOK
  <2>10. StageInv(e, store')
    BY <1>2, <2>4, <2>6, <2>8, <2>9 DEF StageInv, StageOK, DataInUse, InUse, Early, Late
  <2> QED BY <2>1, <2>5, <2>7, <2>8, <2>10 DEF NextInv
<1>4. CASE ~Corrupt
  <2>1. disk' = disk /\ store' = [store EXCEPT !.at = "schema"]
    BY <1>4 DEF QuickCheck, Goes
  <2>2. store' \in StoreType /\ store'.at = "schema" /\ store'.running = 0
    BY <1>1, <1>2, <2>1 DEF StoreType
  <2>3. disk.bad # "main"
    BY <1>4 DEF Corrupt
  <2>4. StageInv(disk, store')
    BY <2>2, <2>3 DEF StageInv, StageOK, DataInUse, InUse, Early, Late
  <2> QED BY <1>1, <2>1, <2>2, <2>4 DEF NextInv
<1> QED BY <1>3, <1>4

(* RemoveLog: what is left is the older file, to be removed next.           *)
LEMMA RemoveLogKeeps ==
  ASSUME Constants, IInv, RemoveLog
  PROVE  NextInv
<1>1. /\ disk \in DiskType /\ store \in StoreType /\ DiskInv(disk) /\ StageInv(disk, store)
      /\ store.at = "remove log"
  BY DEF IInv, Types, RemoveLog, At
<1>2. /\ disk.main # None /\ store.running = 0
      /\ disk.damage = 0 \/ disk.damage \in disk.kept
      /\ ~LogAlone => disk.bad = "main"
  BY <1>1 DEF StageInv, StageOK, DataInUse
<1> DEFINE e == [disk EXCEPT !.log = None, !.whole = FALSE, !.lost = TRUE,
                             !.bad = IF @ = "log" THEN "" ELSE @]
<1>3. disk' = e /\ store' = [store EXCEPT !.at = "remove main"]
  BY DEF RemoveLog, Goes
<1>4. /\ e \in DiskType
      /\ e.main = disk.main /\ e.log = None /\ e.bad = IF disk.bad = "log" THEN "" ELSE disk.bad
      /\ e.damage = disk.damage /\ e.kept = disk.kept
      /\ e.dirs = disk.dirs /\ e.lost = TRUE
  BY <1>1 DEF DiskType
<1> HIDE DEF e
<1>5. DatabasesOK(e) /\ Evidence(e)
  BY <1>1, <1>2, <1>4 DEF DiskInv, DatabasesOK, Evidence
<1>6. ~LogAlone => DataOK(e)
  BY <1>1, <1>2, <1>4 DEF DiskInv, DataOK, Faultless
<1>7. store' \in StoreType /\ store'.at = "remove main" /\ store'.running = 0
  BY <1>1, <1>2, <1>3 DEF StoreType, Early
<1>8. StageInv(e, store')
  BY <1>2, <1>4, <1>7 DEF StageInv, StageOK, DataInUse, InUse, Early, Late
<1> QED BY <1>3, <1>4, <1>5, <1>6, <1>7, <1>8 DEF NextInv, DiskInv

(* RemoveMain: nothing is left but the directories.                         *)
LEMMA RemoveMainKeeps ==
  ASSUME Constants, IInv, RemoveMain
  PROVE  NextInv
<1>1. /\ disk \in DiskType /\ store \in StoreType /\ DiskInv(disk) /\ StageInv(disk, store)
      /\ store.at = "remove main"
  BY DEF IInv, Types, RemoveMain, At
<1>2. /\ store.running = 0 /\ disk.log = None /\ disk.lost
      /\ disk.damage = 0 \/ disk.damage \in disk.kept
  BY <1>1 DEF StageInv, StageOK
<1> DEFINE e == [disk EXCEPT !.main = None, !.bad = ""]
<1>3. disk' = e /\ store' = [store EXCEPT !.at = "schema", !.recovered = TRUE]
  BY DEF RemoveMain
<1>4. /\ e \in DiskType /\ e.main = None /\ e.log = disk.log /\ e.bad = ""
      /\ e.damage = disk.damage /\ e.kept = disk.kept /\ e.lost = disk.lost
  BY <1>1 DEF DiskType
<1> HIDE DEF e
<1>5. DatabasesOK(e) /\ Evidence(e)
  BY <1>2, <1>4 DEF DatabasesOK, Evidence
<1>6. DataOK(e)
  BY <1>2, <1>4 DEF DataOK, Faultless
<1>7. store' \in StoreType /\ store'.at = "schema" /\ store'.running = 0
  BY <1>1, <1>2, <1>3 DEF StoreType
<1>8. StageInv(e, store')
  BY <1>4, <1>7 DEF StageInv, StageOK, DataInUse, InUse, Early, Late
<1> QED BY <1>3, <1>4, <1>5, <1>6, <1>7, <1>8 DEF NextInv, DiskInv

(* Schema: the file is there, or an empty one is made.                      *)
LEMMA SchemaKeeps ==
  ASSUME Constants, IInv, Schema
  PROVE  NextInv
<1>1. /\ disk \in DiskType /\ store \in StoreType /\ DiskInv(disk) /\ StageInv(disk, store)
      /\ store.at = "schema" /\ store.running = 0
  BY DEF IInv, Types, Schema, At, StageInv, StageOK
<1>2. /\ Empty \in DbType /\ Empty # None /\ DbOK(Empty)
      /\ Empty.default = 0 /\ Empty.pending = 0 /\ \A p \in Profiles : Empty.birth[p] = 0
  <2>1. Profiles \subseteq Nat \ {0}
    BY Ids
  <2>2. Empty \in DbType
    BY DEF Empty, DbType, Numbers
  <2>3. Empty # None
    BY <2>2 DEF Constants
  <2>4. /\ Empty.default = 0 /\ Empty.pending = 0 /\ Empty.last = 0 /\ Empty.active = 0
        /\ \A p \in Profiles : Empty.birth[p] = 0
    BY DEF Empty
  <2>5. DbOK(Empty)
    BY <2>4 DEF DbOK
  <2> QED BY <2>2, <2>3, <2>4, <2>5
<1>3. CASE disk.main # None
  <2>1. disk' = disk
    <3>1. disk.whole \in BOOLEAN
      BY <1>1 DEF DiskType
    <3>2. disk' = [disk EXCEPT !.main = disk.main, !.whole = disk.whole]
      BY <1>3, <3>1 DEF Schema
    <3> QED BY <1>1, <3>2 DEF DiskType
  <2>2. store' = [store EXCEPT !.at = "profiles"]
    BY DEF Schema, Goes
  <2>3. store' \in StoreType /\ store'.at = "profiles" /\ store'.running = 0
    BY <1>1, <2>2 DEF StoreType
  <2>4. ~LogAlone => disk.bad # "main"
    BY <1>1 DEF StageInv, DataInUse, Early
  <2>5. StageInv(disk, store')
    BY <1>3, <2>3, <2>4 DEF StageInv, StageOK, DataInUse, InUse, Early, Late
  <2> QED BY <1>1, <2>1, <2>3, <2>5 DEF NextInv
<1>4. CASE disk.main = None
  <2> DEFINE e == [disk EXCEPT !.main = Empty, !.whole = TRUE]
  <2>1. disk' = e /\ store' = [store EXCEPT !.at = "profiles"]
    BY <1>4 DEF Schema, Goes
  <2>2. /\ e \in DiskType /\ e.main = Empty /\ e.log = disk.log /\ e.bad = disk.bad
        /\ e.whole = TRUE /\ e.dirs = disk.dirs /\ e.lapses = disk.lapses /\ e.lost = disk.lost
    BY <1>1, <1>2 DEF DiskType
  <2> HIDE DEF e
  <2>3. disk.log = None
    BY <1>1, <1>4 DEF DiskInv, DatabasesOK
  <2>4. DatabasesOK(e) /\ Evidence(e) /\ Current(e) = Empty
    BY <1>2, <2>2, <2>3 DEF DatabasesOK, Evidence, Current
  <2>5. ASSUME ~LogAlone PROVE DataOK(e)
    <3>1. DataOK(disk)
      BY <1>1, <2>5 DEF DiskInv
    <3> QED BY <1>2, <1>4, <2>2, <2>3, <2>4, <3>1 DEF DataOK, Faultless, OwnData, Numbered, Swept
  <2>6. store' \in StoreType /\ store'.at = "profiles" /\ store'.running = 0
    BY <1>1, <2>1 DEF StoreType
  <2>7. ~LogAlone => disk.bad # "main"
    BY <1>1 DEF StageInv, DataInUse, Early
  <2>8. StageInv(e, store')
    BY <1>2, <2>2, <2>6, <2>7 DEF StageInv, StageOK, DataInUse, InUse, Early, Late
  <2> QED BY <2>1, <2>2, <2>4, <2>5, <2>6, <2>8 DEF NextInv, DiskInv
<1> QED BY <1>3, <1>4
-----------------------------------------------------------------------------
(* A transaction changes the log, and what else it is not about.             *)
LEMMA Logged ==
  ASSUME Constants, NEW d \in DiskType, NEW db \in DbType,
         NEW n \in {d.births, d.births + 1}
  PROVE  LET e == [d EXCEPT !.log = db, !.births = n]
         IN  /\ e \in DiskType /\ e.log = db /\ e.log # None
             /\ e.main = d.main /\ e.bad = d.bad /\ e.damage = d.damage /\ e.whole = d.whole
             /\ e.kept = d.kept /\ e.dirs = d.dirs /\ e.lapses = d.lapses /\ e.lost = d.lost
             /\ n = d.births => e = Commit(d, db)
             /\ n = d.births + 1 => e = [Commit(d, db) EXCEPT !.births = @ + 1]
<1> DEFINE e == [d EXCEPT !.log = db, !.births = n]
<1>1. d.births \in Nat
  BY DEF DiskType
<1>2. n \in Nat
  BY <1>1
<1>3. e \in DiskType
  BY <1>2 DEF DiskType
<1>4. db # None
  BY DEF Constants
<1>5. n = d.births => e = Commit(d, db)
  BY DEF Commit, DiskType
<1>6. n = d.births + 1 => e = [Commit(d, db) EXCEPT !.births = @ + 1]
  BY DEF Commit, DiskType
<1> QED BY <1>3, <1>4, <1>5, <1>6 DEF DiskType

(* Where the browser leaves for another profile, or cannot.                   *)
LEMMA Left ==
  ASSUME NEW d \in DiskType, NEW p \in Profiles \cup {Guest}, Leaves(d, p), disk \in DiskType,
         d.lapses = disk.lapses
  PROVE  /\ disk' \in DiskType
         /\ disk'.main = d.main /\ disk'.log = d.log /\ disk'.bad = d.bad
         /\ disk'.damage = d.damage /\ disk'.whole = d.whole /\ disk'.kept = d.kept
         /\ disk'.dirs = d.dirs /\ disk'.lost = d.lost
         /\ \/ store' = Down /\ disk'.lapses = d.lapses
            \/ store' = store /\ ~Faultless(disk')
<1>1. CASE disk' = [d EXCEPT !.override = p] /\ Ends
  <2>1. p \in Numbers \cup {Guest}
    BY DEF Numbers
  <2> QED BY <1>1, <2>1 DEF DiskType, Ends
<1>2. CASE disk' = Lapsed(d) /\ UNCHANGED store
  <2>1. d.lapses \in Nat
    BY DEF DiskType
  <2>2. d.lapses + 1 \in Nat /\ d.lapses + 1 # 0
    BY <2>1
  <2>3. /\ disk' \in DiskType
        /\ disk'.main = d.main /\ disk'.log = d.log /\ disk'.bad = d.bad
        /\ disk'.damage = d.damage /\ disk'.whole = d.whole /\ disk'.kept = d.kept
        /\ disk'.dirs = d.dirs /\ disk'.lost = d.lost /\ disk'.lapses = d.lapses + 1
    BY <1>2, <2>2 DEF Lapsed, DiskType
  <2> QED BY <1>2, <2>2, <2>3 DEF Faultless
<1> QED BY <1>1, <1>2 DEF Leaves

(* DefaultProfile: the first number is above every directory.               *)
LEMMA DefaultProfileKeeps ==
  ASSUME Constants, IInv, DefaultProfile
  PROVE  NextInv
<1>1. /\ disk \in DiskType /\ store \in StoreType /\ DiskInv(disk) /\ StageInv(disk, store)
      /\ store.at = "profiles" /\ store.running = 0 /\ disk.main # None
  BY DEF IInv, Types, DefaultProfile, At, StageInv, StageOK
<1>2. Db = Current(disk) /\ DatabasesOK(disk)
  BY <1>1 DEF Db, Current, DiskInv
<1>3. /\ Db \in DbType /\ DbOK(Db) /\ disk.main \in DbType
  BY <1>1, <1>2, Currents
<1>4. store' = [store EXCEPT !.at = "mark"]
  BY DEF DefaultProfile, Goes
<1>5. store' \in StoreType /\ store'.at = "mark" /\ store'.running = 0
  BY <1>1, <1>4 DEF StoreType, Late
<1>6. ~LogAlone => disk.bad # "main"
  BY <1>1 DEF StageInv, DataInUse, Early
<1>7. /\ Profiles \subseteq Nat \ {0} /\ Numbers \subseteq Nat /\ FreshId \in Nat \ {0}
      /\ \A p \in Profiles : disk.dirs[p] # {} => p < FreshId
  BY Ids
<1>8. CASE Rows(Db) # {}
  <2>1. disk' = disk
    BY <1>8 DEF DefaultProfile
  <2>2. Db.default # 0
    <3>1. PICK p \in Profiles : Db.birth[p] # 0
      BY <1>8 DEF Rows
    <3>2. p <= Db.last /\ p \in Nat \ {0} /\ Db.last \in Nat
      BY <1>3, <1>7, <3>1 DEF DbOK, DbType
    <3>3. Db.last # 0
      BY <3>2
    <3> QED BY <1>3, <3>3 DEF DbOK
  <2>3. StageInv(disk, store')
    BY <1>1, <1>2, <1>5, <1>6, <2>2 DEF StageInv, StageOK, DataInUse, InUse, Early, Late
  <2> QED BY <1>1, <1>5, <2>1, <2>3 DEF NextInv
<1>9. CASE Rows(Db) = {}
  <2> DEFINE db == [Db EXCEPT !.birth[FreshId] = disk.births + 1, !.default = FreshId,
                              !.active = FreshId, !.last = FreshId]
             e == [disk EXCEPT !.log = db, !.births = @ + 1]
  <2>1. FreshId \in Profiles /\ disk' = [Commit(disk, db) EXCEPT !.births = @ + 1]
    BY <1>9 DEF DefaultProfile
  <2>2. disk.births + 1 \in Nat /\ disk.births + 1 # 0
    <3>1. disk.births \in Nat
      BY <1>1 DEF DiskType
    <3> QED BY <3>1
  <2>3. \A p \in Profiles : Db.birth[p] = 0
    BY <1>9 DEF Rows
  <2>4. Db.default = 0 /\ Db.last = 0 /\ Db.pending = 0
    <3>1. Db.default = 0
      BY <1>3, <2>3 DEF DbOK, DbType, Numbers
    <3>2. Db.last = 0 /\ Db.pending <= 0 /\ Db.pending \in Nat
      BY <1>3, <1>7, <3>1 DEF DbOK, DbType
    <3> QED BY <3>1, <3>2
  <2>5. /\ db \in DbType /\ db.default = FreshId /\ db.active = FreshId /\ db.last = FreshId
        /\ db.pending = 0 /\ db.birth[FreshId] # 0
        /\ \A p \in Profiles : p # FreshId => db.birth[p] = 0
    BY <1>3, <2>1, <2>2, <2>3, <2>4 DEF DbType, Numbers
  <2> HIDE DEF db
  <2>6. /\ e \in DiskType /\ e.log = db /\ e.log # None
        /\ e.main = disk.main /\ e.bad = disk.bad /\ e.damage = disk.damage /\ e.whole = disk.whole
        /\ e.kept = disk.kept /\ e.dirs = disk.dirs /\ e.lapses = disk.lapses /\ e.lost = disk.lost
        /\ disk' = e
    BY <1>1, <2>1, <2>5, Logged
  <2> HIDE DEF e
  <2>7. DbOK(db)
    BY <1>7, <2>1, <2>5 DEF DbOK
  <2>8. Extends(Db, db)
    BY <1>7, <2>1, <2>4, <2>5 DEF Extends
  <2>9. disk.dirs[FreshId] = {}
    BY <1>7, <2>1
  <2>10. Fresh(Db, db, e.dirs)
    BY <2>5, <2>6, <2>9 DEF Fresh
  <2>11. Numbered(db, e.dirs)
    BY <1>7, <2>1, <2>5, <2>6 DEF Numbered
  <2>12. ASSUME ~LogAlone, Faultless(e) PROVE Swept(db, e.dirs)
    <3>1. Swept(Db, disk.dirs)
      BY <1>1, <1>2, <2>6, <2>12 DEF DiskInv, DataOK, Faultless
    <3> QED BY <2>5, <2>6, <2>4, <3>1, <2>3 DEF Swept
  <2>13. Evidence(e) /\ (Faultless(e) => Faultless(disk))
    BY <1>1, <2>6 DEF Evidence, DiskInv, Faultless
  <2>14. db.default # 0
    BY <1>7, <2>5
  <2>15. DiskInv(e) /\ Current(e) = db
    BY <1>1, <1>2, <2>6, <2>7, <2>8, <2>10, <2>11, <2>12, <2>13, <2>14, Commits
  <2>16. StageInv(e, store')
    BY <1>1, <1>5, <1>6, <2>6, <2>14, <2>15 DEF StageInv, StageOK, DataInUse, InUse, Early, Late
  <2> QED BY <1>5, <2>6, <2>15, <2>16 DEF NextInv
<1> QED BY <1>8, <1>9
-----------------------------------------------------------------------------
Migrating == {"mark", "import", "rename", "move", "migrated"}

(* What a step of the migration may rely on.                                 *)
LEMMA AtWork ==
  ASSUME Constants, IInv, store.at \in Late \ {"running"}
  PROVE  /\ disk \in DiskType /\ store \in StoreType /\ DiskInv(disk) /\ StageInv(disk, store)
         /\ store.running = 0 /\ disk.main # None /\ disk.main \in DbType
         /\ Db = Current(disk) /\ Db \in DbType /\ DbOK(Db) /\ Db.default # 0
         /\ Db.default \in Profiles /\ Profiles \subseteq Nat \ {0} /\ Numbers \subseteq Nat
         /\ ~LogAlone => disk.bad = "" /\ DataOK(disk)
<1>1. /\ disk \in DiskType /\ store \in StoreType /\ DiskInv(disk) /\ StageInv(disk, store)
      /\ store.running = 0 /\ disk.main # None
  BY DEF IInv, Types, StageInv, StageOK, Late
<1>2. Db = Current(disk) /\ DatabasesOK(disk)
  BY <1>1 DEF Db, Current, DiskInv
<1>3. /\ Db \in DbType /\ DbOK(Db) /\ disk.main \in DbType
  BY <1>1, <1>2, Currents
<1>4. Db.default # 0
  BY <1>1, <1>2 DEF StageInv, StageOK
<1>5. Db.default \in Profiles
  BY <1>3, <1>4 DEF DbType, Numbers
<1>6. ASSUME ~LogAlone PROVE disk.bad = "" /\ DataOK(disk)
  <2>1. DataOK(disk) /\ disk.bad # "main"
    BY <1>1, <1>6 DEF DiskInv, StageInv, DataInUse, Late, Early
  <2>2. disk.bad \in {"", "main", "log"}
    BY <1>1 DEF DiskType
  <2> QED BY <2>1, <2>2 DEF DataOK
<1> QED BY <1>1, <1>2, <1>3, <1>4, <1>5, <1>6, Ids

(* What the steps of the migration rely on holds after each.                *)
LEMMA LateStage ==
  ASSUME NEW e \in DiskType, NEW t \in StoreType, e.main # None, Current(e).default # 0,
         ~LogAlone => e.bad = "", t.at \in Migrating \cup {"cleanup"}, t.running = 0
  PROVE  StageInv(e, t)
<1> QED BY DEF StageInv, StageOK, DataInUse, InUse, Early, Late, Migrating

(* ImportState changes nothing but how far the store is.                    *)
LEMMA ImportKeeps ==
  ASSUME Constants, IInv, ImportState
  PROVE  NextInv
<1>1. store.at = "import" /\ store.at \in Late \ {"running"} /\ disk' = disk
  BY DEF ImportState, At, Late
<1>2. PICK x \in {"cleanup", "rename", "move"} : store' = [store EXCEPT !.at = x]
  BY DEF ImportState, Goes
<1>3. store' \in StoreType /\ store'.at \in Migrating \cup {"cleanup"} /\ store'.running = 0
  BY <1>1, <1>2, AtWork DEF StoreType, Migrating, Late
<1>4. StageInv(disk, store')
  BY <1>1, <1>3, AtWork, LateStage
<1> QED BY <1>1, <1>3, <1>4, AtWork DEF NextInv

(* RenameState takes the old state away, or the start fails.                *)
LEMMA RenameKeeps ==
  ASSUME Constants, IInv, RenameState
  PROVE  NextInv
<1>1. store.at = "rename" /\ store.at \in Late \ {"running"}
  BY DEF RenameState, At, Late
<1>2. CASE disk' = Lapsed(disk) /\ Ends
  BY <1>2, LapseEnds
<1>3. CASE disk' = [disk EXCEPT !.legacy = @ \ {"state"}] /\ Goes("move")
  <2>1. /\ disk' \in DiskType /\ disk'.main = disk.main /\ disk'.log = disk.log
        /\ disk'.bad = disk.bad /\ disk'.dirs = disk.dirs /\ disk'.damage = disk.damage
        /\ disk'.whole = disk.whole /\ disk'.kept = disk.kept
        /\ disk'.lapses = disk.lapses /\ disk'.lost = disk.lost
    BY <1>1, <1>3, AtWork DEF DiskType
  <2>2. Evidence(disk') /\ (Faultless(disk') => Faultless(disk))
    BY <1>1, <2>1, AtWork DEF DiskInv, Evidence, Faultless
  <2>3. DiskInv(disk') /\ Current(disk') = Current(disk)
    BY <1>1, <2>1, <2>2, AtWork, Alike
  <2>4. store' \in StoreType /\ store'.at \in Migrating /\ store'.running = 0
    BY <1>1, <1>3, AtWork DEF StoreType, Migrating, Late, Goes
  <2>5. StageInv(disk', store')
    BY <1>1, <2>1, <2>3, <2>4, AtWork, LateStage
  <2> QED BY <2>1, <2>3, <2>4, <2>5 DEF NextInv
<1> QED BY <1>2, <1>3 DEF RenameState

(* The mark that nothing is to be taken over.                                *)
LEMMA Marks ==
  ASSUME Constants, IInv, store.at \in Late \ {"running"},
         NEW db \in DbType, disk' = Commit(disk, db),
         db.birth = Db.birth, db.default = Db.default, db.active = Db.active,
         db.pending = Db.pending, db.last = Db.last
  PROVE  /\ disk' \in DiskType /\ DiskInv(disk') /\ disk'.main # None
         /\ Current(disk').default # 0 /\ disk'.bad = disk.bad
<1> DEFINE e == [disk EXCEPT !.log = db, !.births = @]
<1>0. /\ disk \in DiskType /\ DiskInv(disk) /\ disk.main # None /\ Db = Current(disk)
      /\ Db \in DbType /\ DbOK(Db) /\ Db.default # 0
  BY AtWork
<1>1. /\ db \in DbType /\ db.birth = Db.birth /\ db.default = Db.default /\ db.active = Db.active
      /\ db.pending = Db.pending /\ db.last = Db.last
  OBVIOUS
<1>2. disk' = Commit(disk, db)
  OBVIOUS
<1>3. /\ e \in DiskType /\ e.log = db /\ e.log # None
      /\ e.main = disk.main /\ e.bad = disk.bad /\ e.damage = disk.damage /\ e.whole = disk.whole
      /\ e.kept = disk.kept /\ e.dirs = disk.dirs /\ e.lapses = disk.lapses /\ e.lost = disk.lost
      /\ disk' = e
  <2>1. e \in DiskType /\ e = Commit(disk, db) /\ db # None
    BY <1>0, <1>1 DEF DiskType, Commit, Constants
  <2> QED BY <1>0, <1>2, <2>1 DEF DiskType
<1> HIDE DEF e
<1>4. DbOK(db) /\ db.default # 0
  BY <1>1, AtWork DEF DbOK
<1>5. Extends(Db, db)
  BY <1>0, <1>1, SameNumbers
<1>6. Fresh(Db, db, e.dirs)
  BY <1>1 DEF Fresh
<1>7. ASSUME ~LogAlone PROVE Numbered(db, e.dirs) /\ (Faultless(e) => Swept(db, e.dirs))
  <2>1. Numbered(Db, disk.dirs) /\ (Faultless(disk) => Swept(Db, disk.dirs))
    BY <1>7, AtWork DEF DataOK
  <2>2. Faultless(e) => Faultless(disk)
    BY <1>3 DEF Faultless
  <2> QED BY <1>1, <1>3, <2>1, <2>2 DEF Numbered, Swept
<1>8. Evidence(e) /\ (Faultless(e) => Faultless(disk))
  BY <1>3, AtWork DEF Evidence, DiskInv, Faultless
<1>9. \A p \in Profiles : e.dirs[p] \subseteq disk.dirs[p]
  BY <1>3
<1>10. DiskInv(e) /\ Current(e) = db
  BY <1>0, <1>3, <1>4, <1>5, <1>6, <1>7, <1>8, <1>9, Commits
<1> QED BY <1>0, <1>3, <1>4, <1>10

(* The mark changes nothing else.                                           *)
LEMMA Migrated ==
  ASSUME Db \in DbType
  PROVE  LET db == [Db EXCEPT !.migrated = TRUE]
         IN  /\ db \in DbType /\ db.birth = Db.birth /\ db.default = Db.default
             /\ db.active = Db.active /\ db.pending = Db.pending /\ db.last = Db.last
<1> QED BY DEF DbType

(* MarkRecovered: a recovered database takes nothing over.                  *)
LEMMA MarkRecoveredKeeps ==
  ASSUME Constants, IInv, MarkRecovered
  PROVE  NextInv
<1>1. /\ store.at = "mark" /\ store.at \in Late \ {"running"}
      /\ store' = [store EXCEPT !.at = "import"]
  BY DEF MarkRecovered, At, Late, Goes
<1>2. /\ disk' \in DiskType /\ DiskInv(disk') /\ disk'.main # None
      /\ Current(disk').default # 0 /\ disk'.bad = disk.bad
  <2>1. CASE store.recovered
    <3> DEFINE db == [Db EXCEPT !.migrated = TRUE]
    <3>1. disk' = Commit(disk, db)
      BY <2>1 DEF MarkRecovered
    <3>2. /\ db \in DbType /\ db.birth = Db.birth /\ db.default = Db.default
          /\ db.active = Db.active /\ db.pending = Db.pending /\ db.last = Db.last
      BY <1>1, AtWork, Migrated
    <3> HIDE DEF db
    <3> QED BY <1>1, <3>1, <3>2, Marks
  <2>2. CASE ~store.recovered
    BY <1>1, <2>2, AtWork DEF MarkRecovered
  <2> QED BY <2>1, <2>2
<1>3. store' \in StoreType /\ store'.at \in Migrating /\ store'.running = 0
  BY <1>1, AtWork DEF StoreType, Migrating, Late
<1>4. StageInv(disk', store')
  BY <1>1, <1>2, <1>3, AtWork, LateStage
<1> QED BY <1>2, <1>3, <1>4 DEF NextInv

(* MarkMigrated keeps the invariant.                                        *)
LEMMA MarkMigratedKeeps ==
  ASSUME Constants, IInv, MarkMigrated
  PROVE  NextInv
<1>1. /\ store.at = "migrated" /\ store.at \in Late \ {"running"}
      /\ store' = [store EXCEPT !.at = "cleanup"]
  BY DEF MarkMigrated, At, Late, Goes
<1>2. /\ disk' \in DiskType /\ DiskInv(disk') /\ disk'.main # None
      /\ Current(disk').default # 0 /\ disk'.bad = disk.bad
  <2> DEFINE db == [Db EXCEPT !.migrated = TRUE]
  <2>1. disk' = Commit(disk, db)
    BY DEF MarkMigrated
  <2>2. /\ db \in DbType /\ db.birth = Db.birth /\ db.default = Db.default
        /\ db.active = Db.active /\ db.pending = Db.pending /\ db.last = Db.last
    BY <1>1, AtWork, Migrated
  <2> HIDE DEF db
  <2> QED BY <1>1, <2>1, <2>2, Marks
<1>3. store' \in StoreType /\ store'.at \in Migrating \cup {"cleanup"} /\ store'.running = 0
  BY <1>1, AtWork DEF StoreType, Migrating, Late
<1>4. StageInv(disk', store')
  BY <1>1, <1>2, <1>3, AtWork, LateStage
<1> QED BY <1>2, <1>3, <1>4 DEF NextInv

(* MoveRuntime gives the old data to the default profile.                   *)
LEMMA MoveRuntimeKeeps ==
  ASSUME Constants, IInv, MoveRuntime
  PROVE  NextInv
<1>0. store.at = "move" /\ store.at \in Late \ {"running"}
  BY DEF MoveRuntime, At, Late
<1>1. CASE disk' = Lapsed(disk) /\ Ends
  BY <1>1, LapseEnds
<1>2. CASE ~(disk' = Lapsed(disk) /\ Ends)
  <2>1. store' = [store EXCEPT !.at = "migrated"]
    BY <1>2 DEF MoveRuntime, Goes
  <2>2. store' \in StoreType /\ store'.at \in Migrating /\ store'.running = 0
    BY <1>0, <2>1, AtWork DEF StoreType, Migrating, Late
  <2>3. CASE disk' = disk
    BY <1>0, <2>2, <2>3, AtWork, LateStage DEF NextInv
  <2>4. CASE disk' # disk
    <3> DEFINE p == Db.default
               b == Db.birth[p]
               e == [disk EXCEPT !.legacy = @ \ {"runtime"}, !.dirs[p] = {b}]
    <3>1. disk' = e /\ disk.dirs[p] = {}
      BY <1>2, <2>4 DEF MoveRuntime
    <3>2. p \in Profiles /\ b \in Nat /\ b # 0
      BY <1>0, AtWork DEF DbOK, DbType
    <3>3. disk \in DiskType
      BY <1>0, AtWork
    <3> HIDE DEF p, b
    <3>4. /\ e \in DiskType /\ e.main = disk.main /\ e.log = disk.log /\ e.bad = disk.bad
          /\ e.damage = disk.damage /\ e.whole = disk.whole /\ e.kept = disk.kept
          /\ e.lapses = disk.lapses /\ e.lost = disk.lost
          /\ e.dirs[p] = {b} /\ \A q \in Profiles : q # p => e.dirs[q] = disk.dirs[q]
      BY <3>2, <3>3 DEF DiskType
    <3> HIDE DEF e
    <3>5. Current(e) = Db
      BY <1>0, <3>4, AtWork DEF Current
    <3>6. DatabasesOK(e) /\ Evidence(e)
      BY <1>0, <3>4, AtWork DEF DiskInv, DatabasesOK, Evidence
    <3>7. ASSUME ~LogAlone PROVE DataOK(e)
      <4>1. DataOK(disk) /\ disk.main # None /\ disk.bad = ""
        BY <1>0, <3>7, AtWork
      <4>2. Db.birth[p] = b /\ p <= Db.last
        BY <1>0, <3>2, AtWork DEF p, b, DbOK
      <4>3. disk.log # None => disk.log.birth[p] = b
        BY <4>2 DEF Db
      <4>4. disk.log # None => OwnData(e.log, e.dirs)
        BY <3>4, <4>1, <4>3 DEF DataOK, OwnData
      <4>5. disk.main.birth[p] \in {0, b}
        <5>1. CASE disk.log = None
          BY <5>1, <4>2 DEF Db
        <5>2. CASE disk.log # None
          BY <3>2, <5>2, <4>1, <4>3 DEF DataOK, Older
        <5> QED BY <5>1, <5>2
      <4>6. OwnData(e.main, e.dirs)
        BY <3>4, <4>1, <4>5 DEF DataOK, OwnData
      <4>7. Numbered(Db, disk.dirs) /\ (Faultless(disk) => Swept(Db, disk.dirs))
        BY <1>0, <4>1, AtWork DEF DataOK
      <4>8. Numbered(Db, e.dirs)
        BY <3>4, <4>2, <4>7 DEF Numbered
      <4>9. Faultless(e) => Swept(Db, e.dirs)
        BY <3>2, <3>4, <4>2, <4>7 DEF Swept, Faultless
      <4> QED BY <3>4, <3>5, <4>1, <4>4, <4>6, <4>8, <4>9 DEF DataOK
    <3>8. StageInv(e, store')
      BY <1>0, <2>2, <3>4, <3>5, AtWork, LateStage
    <3> QED BY <2>2, <3>1, <3>4, <3>6, <3>7, <3>8 DEF NextInv, DiskInv
  <2> QED BY <2>3, <2>4
<1> QED BY <1>1, <1>2

(* CleanupTree: the directory goes before its mark does.                    *)
LEMMA CleanupTreeKeeps ==
  ASSUME Constants, IInv, CleanupTree
  PROVE  NextInv
<1>0. store.at = "cleanup" /\ store.at \in Late \ {"running"}
  BY DEF CleanupTree, At, Late
<1>1. CASE Db.pending = 0
  <2>1. disk' = disk /\ store' = [store EXCEPT !.at = "profile"]
    BY <1>1 DEF CleanupTree, Goes
  <2>2. store' \in StoreType /\ store'.at = "profile" /\ store'.running = 0
    BY <1>0, <2>1, AtWork DEF StoreType, Late
  <2>3. StageInv(disk, store')
    BY <1>0, <1>1, <2>2, AtWork DEF StageInv, StageOK, DataInUse, InUse, Cleaned, Early, Late
  <2> QED BY <1>0, <2>1, <2>2, <2>3, AtWork DEF NextInv
<1>2. CASE disk' = Lapsed(disk) /\ Goes("profile")
  <2> DEFINE e == [disk EXCEPT !.override = disk.override, !.lapses = @ + 1]
  <2>1. disk \in DiskType
    BY <1>0, AtWork
  <2>2. disk.override \in Numbers \cup {Guest} /\ disk' = e /\ disk.lapses \in Nat
    BY <1>2, <2>1 DEF DiskType, Lapsed
  <2>3. e.lapses # 0
    <3>1. e.lapses = disk.lapses + 1
      BY <2>1 DEF DiskType
    <3> HIDE DEF e
    <3> QED BY <2>2, <3>1
  <2>4. /\ e \in DiskType /\ DiskInv(e) /\ Current(e) = Current(disk)
        /\ e.main = disk.main /\ e.bad = disk.bad
    BY <2>2, Lapses
  <2> HIDE DEF e
  <2>5. ~Faultless(e)
    BY <2>3 DEF Faultless
  <2>6. store' \in StoreType /\ store'.at = "profile" /\ store'.running = 0
    BY <1>0, <1>2, AtWork DEF StoreType, Late, Goes
  <2>7. StageInv(e, store')
    BY <1>0, <2>4, <2>5, <2>6, AtWork DEF StageInv, StageOK, DataInUse, InUse, Early, Late
  <2> QED BY <2>2, <2>4, <2>6, <2>7 DEF NextInv
<1>3. CASE Db.pending # 0 /\ disk' = [disk EXCEPT !.dirs[Db.pending] = {}] /\ Goes("unmark")
  <2> DEFINE p == Db.pending
             e == [disk EXCEPT !.dirs[p] = {}]
  <2>1. disk \in DiskType /\ disk' = e
    BY <1>0, <1>3, AtWork
  <2>2. p \in Profiles /\ p # 0
    BY <1>0, <1>3, AtWork DEF DbType, Numbers
  <2> HIDE DEF p
  <2>3. /\ e \in DiskType /\ e.main = disk.main /\ e.log = disk.log /\ e.bad = disk.bad
        /\ e.damage = disk.damage /\ e.whole = disk.whole /\ e.kept = disk.kept
        /\ e.lapses = disk.lapses /\ e.lost = disk.lost
        /\ e.dirs[p] = {} /\ \A q \in Profiles : q # p => e.dirs[q] = disk.dirs[q]
    BY <2>1, <2>2 DEF DiskType
  <2> HIDE DEF e
  <2>4. \A q \in Profiles : e.dirs[q] \subseteq disk.dirs[q]
    BY <2>3
  <2>5. DiskInv(e) /\ Current(e) = Db
    <3>1. Current(e) = Db
      BY <1>0, <2>3, AtWork DEF Current
    <3>2. DatabasesOK(e) /\ Evidence(e)
      BY <1>0, <2>3, AtWork DEF DiskInv, DatabasesOK, Evidence
    <3>3. ASSUME ~LogAlone PROVE DataOK(e)
      <4>1. DataOK(disk) /\ disk.main # None /\ disk.bad = "" /\ Db = Current(disk)
        BY <1>0, <3>3, AtWork
      <4>2. e.log # None => OwnData(e.log, e.dirs)
        BY <2>3, <2>4, <4>1 DEF DataOK, OwnData
      <4>3. OwnData(e.main, e.dirs)
        BY <2>3, <2>4, <4>1 DEF DataOK, OwnData
      <4>4. Numbered(Db, e.dirs)
        BY <2>4, <4>1 DEF DataOK, Numbered
      <4>5. Faultless(e) => Swept(Db, e.dirs)
        BY <2>3, <2>4, <4>1 DEF DataOK, Swept, Faultless
      <4> QED BY <2>3, <3>1, <4>1, <4>2, <4>3, <4>4, <4>5 DEF DataOK
    <3> QED BY <3>1, <3>2, <3>3 DEF DiskInv
  <2>6. store' \in StoreType /\ store'.at = "unmark" /\ store'.running = 0
    BY <1>0, <1>3, AtWork DEF StoreType, Late, Goes
  <2>7. Cleaned(Db, e.dirs) /\ Db.pending # 0
    BY <2>2, <2>3 DEF Cleaned, p
  <2>8. StageInv(e, store')
    BY <1>0, <2>3, <2>5, <2>6, <2>7, AtWork DEF StageInv, StageOK, DataInUse, InUse, Early, Late
  <2> QED BY <2>1, <2>3, <2>5, <2>6, <2>8 DEF NextInv
<1> QED BY <1>1, <1>2, <1>3 DEF CleanupTree

(* CleanupMark: the mark goes when the directory has.                       *)
LEMMA CleanupMarkKeeps ==
  ASSUME Constants, IInv, CleanupMark
  PROVE  NextInv
<1>0. /\ store.at = "unmark" /\ store.at \in Late \ {"running"}
      /\ store' = [store EXCEPT !.at = "profile"]
  BY DEF CleanupMark, At, Late, Goes
<1>1. /\ disk \in DiskType /\ DiskInv(disk) /\ disk.main # None /\ Db = Current(disk)
      /\ Db \in DbType /\ DbOK(Db) /\ Db.default # 0 /\ 0 \in Numbers
  BY <1>0, AtWork DEF Numbers
<1> DEFINE db == [Db EXCEPT !.pending = 0]
<1>2. /\ db \in DbType /\ db.birth = Db.birth /\ db.default = Db.default /\ db.active = Db.active
      /\ db.pending = 0 /\ db.last = Db.last
  BY <1>1 DEF DbType
<1>3. disk' = Commit(disk, db)
  BY DEF CleanupMark
<1> HIDE DEF db
<1> DEFINE e == Commit(disk, db)
<1>4. /\ e \in DiskType /\ e.log = db /\ e.log # None
      /\ e.main = disk.main /\ e.bad = disk.bad /\ e.damage = disk.damage /\ e.whole = disk.whole
      /\ e.kept = disk.kept /\ e.dirs = disk.dirs /\ e.lapses = disk.lapses /\ e.lost = disk.lost
  BY <1>1, <1>2 DEF DiskType, Commit, Constants
<1> HIDE DEF e
<1>5. DbOK(db) /\ db.default # 0
  <2>1. 0 <= db.last
    BY <1>1, <1>2, Ids DEF DbType
  <2> QED BY <1>1, <1>2, <2>1 DEF DbOK
<1>6. Extends(Db, db)
  BY <1>1, <1>2, SameNumbers
<1>7. Fresh(Db, db, e.dirs)
  BY <1>2 DEF Fresh
<1>8. Evidence(e) /\ (Faultless(e) => Faultless(disk))
  BY <1>1, <1>4 DEF Evidence, DiskInv, Faultless
<1>9. ASSUME ~LogAlone PROVE Numbered(db, e.dirs) /\ (Faultless(e) => Swept(db, e.dirs))
  <2>1. Numbered(Db, disk.dirs) /\ (Faultless(disk) => Swept(Db, disk.dirs))
    BY <1>0, <1>1, <1>9, AtWork DEF DataOK
  <2>2. Faultless(disk) => Cleaned(Db, disk.dirs) /\ Db.pending # 0
    BY <1>0, <1>1, <1>9, AtWork DEF StageInv, DataInUse
  <2> QED BY <1>2, <1>4, <1>8, <2>1, <2>2 DEF Numbered, Swept, Cleaned
<1>10. \A p \in Profiles : e.dirs[p] \subseteq disk.dirs[p]
  BY <1>4
<1>11. DiskInv(e) /\ Current(e) = db
  BY <1>1, <1>4, <1>5, <1>6, <1>7, <1>8, <1>9, <1>10, Commits
<1>12. store' \in StoreType /\ store'.at = "profile" /\ store'.running = 0
  BY <1>0, AtWork DEF StoreType, Late
<1>13. ~LogAlone => e.bad = ""
  BY <1>0, <1>4, AtWork
<1>14. StageInv(e, store')
  BY <1>1, <1>2, <1>4, <1>5, <1>11, <1>12, <1>13
     DEF StageInv, StageOK, DataInUse, InUse, Cleaned, Early, Late
<1> QED BY <1>3, <1>4, <1>11, <1>12, <1>14 DEF NextInv, e

(* The profile that was asked for, if it is there, or the guest.             *)
LEMMA InitialProfileKeeps ==
  ASSUME Constants, IInv, InitialProfile
  PROVE  NextInv
<1>0. store.at = "profile" /\ store.at \in Late \ {"running"}
  BY DEF InitialProfile, At, Late
<1>1. /\ disk \in DiskType /\ DiskInv(disk) /\ StageInv(disk, store)
      /\ disk.main # None /\ Db = Current(disk) /\ disk.main \in DbType
      /\ store \in StoreType /\ store.running = 0
      /\ Db \in DbType /\ DbOK(Db) /\ Db.default # 0 /\ 0 \in Numbers
      /\ ~LogAlone => disk.bad = "" /\ DataOK(disk)
  BY <1>0, AtWork DEF Numbers
<1> DEFINE p == IF disk.override # 0 THEN disk.override
                ELSE IF Db.active # 0 THEN Db.active ELSE Db.default
<1>2. \/ p = Guest /\ disk' = disk /\ store' = [store EXCEPT !.at = "running"]
      \/ disk' = disk /\ store' = Down
      \/ /\ p \in Rows(Db) /\ disk' = Commit(disk, [Db EXCEPT !.active = p])
         /\ store' = [store EXCEPT !.at = "running", !.running = p, !.birth = Db.birth[p]]
  BY DEF InitialProfile, Ends
<1> HIDE DEF p
<1>3. CASE disk' = disk /\ store' = Down
  BY <1>1, <1>3, Ended DEF NextInv
<1>4. CASE disk' = disk /\ store' = [store EXCEPT !.at = "running"]
  <2>1. store' \in StoreType /\ store'.at = "running" /\ store'.running = 0
    BY <1>1, <1>4 DEF StoreType, Late
  <2>2. StageInv(disk, store')
    BY <1>0, <1>1, <2>1 DEF StageInv, StageOK, DataInUse, InUse, Early, Late
  <2> QED BY <1>1, <1>4, <2>1, <2>2 DEF NextInv
<1>5. CASE /\ p \in Rows(Db) /\ disk' = Commit(disk, [Db EXCEPT !.active = p])
           /\ store' = [store EXCEPT !.at = "running", !.running = p, !.birth = Db.birth[p]]
  <2>1. p \in Profiles /\ Db.birth[p] # 0 /\ p \in Numbers /\ p # 0
    BY <1>5, Ids DEF Rows, Numbers
  <2> DEFINE db == [Db EXCEPT !.active = p]
             e == Commit(disk, db)
  <2>2. /\ db \in DbType /\ db.birth = Db.birth /\ db.default = Db.default /\ db.active = p
        /\ db.pending = Db.pending /\ db.last = Db.last
    BY <1>1, <2>1 DEF DbType
  <2>3. disk' = e
    BY <1>5
  <2> HIDE DEF db
  <2>4. /\ e \in DiskType /\ e.log = db /\ e.log # None
        /\ e.main = disk.main /\ e.bad = disk.bad /\ e.damage = disk.damage /\ e.whole = disk.whole
        /\ e.kept = disk.kept /\ e.dirs = disk.dirs /\ e.lapses = disk.lapses /\ e.lost = disk.lost
    BY <1>1, <2>2 DEF DiskType, Commit, Constants
  <2> HIDE DEF e
  <2>5. DbOK(db) /\ db.default # 0
    BY <1>1, <2>1, <2>2 DEF DbOK
  <2>6. Extends(Db, db)
    BY <1>1, <2>2, SameNumbers
  <2>7. Fresh(Db, db, e.dirs)
    BY <2>2 DEF Fresh
  <2>8. Evidence(e) /\ (Faultless(e) => Faultless(disk))
    BY <1>1, <2>4 DEF Evidence, DiskInv, Faultless
  <2>9. ASSUME ~LogAlone PROVE Numbered(db, e.dirs) /\ (Faultless(e) => Swept(db, e.dirs))
    <3>1. Numbered(Db, disk.dirs) /\ (Faultless(disk) => Swept(Db, disk.dirs))
      BY <1>1, <2>9 DEF DataOK
    <3> QED BY <2>2, <2>4, <2>8, <3>1 DEF Numbered, Swept
  <2>10. \A q \in Profiles : e.dirs[q] \subseteq disk.dirs[q]
    BY <2>4
  <2>11. DiskInv(e) /\ Current(e) = db
    BY <1>1, <2>4, <2>5, <2>6, <2>7, <2>8, <2>9, <2>10, Commits
  <2>12. /\ store' \in StoreType /\ store'.at = "running" /\ store'.running = p
         /\ store'.birth = Db.birth[p]
    <3>1. Db.birth[p] \in Nat
      BY <1>1, <2>1 DEF DbType
    <3> QED BY <1>1, <1>5, <2>1, <3>1 DEF StoreType, Late
  <2>13. ASSUME ~LogAlone PROVE InUse(e, store')
    <3>1. p <= db.last
      BY <1>1, <2>1, <2>2 DEF DbOK
    <3>2. e.main.birth[p] \in {0, Db.birth[p]}
      <4>1. CASE disk.log = None
        BY <1>1, <2>4, <4>1 DEF Current
      <4>2. CASE disk.log # None
        <5>1. Older(disk.main, Db)
          BY <1>1, <2>13, <4>2 DEF DataOK, Current
        <5> QED BY <2>1, <2>4, <5>1 DEF Older
      <4> QED BY <4>1, <4>2
    <3> QED BY <2>1, <2>2, <2>11, <2>12, <3>1, <3>2 DEF InUse
  <2>14. ASSUME ~LogAlone, Faultless(e) PROVE Cleaned(db, e.dirs)
    <3>1. Cleaned(Db, disk.dirs)
      BY <1>0, <1>1, <2>8, <2>14 DEF StageInv, DataInUse
    <3> QED BY <2>2, <2>4, <3>1 DEF Cleaned
  <2>15. StageInv(e, store')
    BY <1>1, <2>4, <2>5, <2>11, <2>12, <2>13, <2>14 DEF StageInv, StageOK, DataInUse, Early, Late
  <2> QED BY <2>3, <2>4, <2>11, <2>12, <2>15 DEF NextInv
<1> QED BY <1>2, <1>3, <1>4, <1>5
-----------------------------------------------------------------------------
(* What the running browser may rely on.                                     *)
LEMMA AtRun ==
  ASSUME Constants, IInv, Running
  PROVE  /\ disk \in DiskType /\ store \in StoreType /\ DiskInv(disk) /\ StageInv(disk, store)
         /\ store.at = "running" /\ store.running \in Numbers /\ store.birth \in Nat
         /\ disk.main # None /\ disk.main \in DbType
         /\ Db = Current(disk) /\ Db \in DbType /\ DbOK(Db) /\ Db.default # 0
         /\ Db.default \in Profiles /\ Profiles \subseteq Nat \ {0} /\ Numbers \subseteq Nat
         /\ ~LogAlone =>
              /\ disk.bad = "" /\ DataOK(disk) /\ InUse(disk, store)
              /\ Faultless(disk) => Cleaned(Db, disk.dirs)
<1>1. /\ disk \in DiskType /\ store \in StoreType /\ DiskInv(disk) /\ StageInv(disk, store)
      /\ store.at = "running" /\ disk.main # None
  BY DEF IInv, Types, StageInv, StageOK, Running, At
<1>2. Db = Current(disk) /\ DatabasesOK(disk)
  BY <1>1 DEF Db, Current, DiskInv
<1>3. /\ Db \in DbType /\ DbOK(Db) /\ disk.main \in DbType
  BY <1>1, <1>2, Currents
<1>4. Db.default # 0
  BY <1>1, <1>2 DEF StageInv, StageOK, Late
<1>5. Db.default \in Profiles
  BY <1>3, <1>4 DEF DbType, Numbers
<1>6. ASSUME ~LogAlone
      PROVE  /\ disk.bad = "" /\ DataOK(disk) /\ InUse(disk, store)
             /\ Faultless(disk) => Cleaned(Db, disk.dirs)
  <2>1. DataOK(disk) /\ DataInUse(disk, store)
    BY <1>1, <1>6 DEF DiskInv, StageInv
  <2>2. disk.bad # "main"
    BY <1>1, <2>1 DEF DataInUse, Early
  <2>3. disk.bad \in {"", "main", "log"}
    BY <1>1 DEF DiskType
  <2> QED BY <1>1, <1>2, <2>1, <2>2, <2>3 DEF DataOK, DataInUse
<1>7. store.running \in Numbers /\ store.birth \in Nat
  BY <1>1 DEF StoreType
<1> QED BY <1>1, <1>2, <1>3, <1>4, <1>5, <1>6, <1>7, Ids

(* The browser leaves for another profile, or goes on with what was written. *)
LEMMA LeavesKeeps ==
  ASSUME Constants, IInv, Running, NEW d \in DiskType, NEW p \in Profiles \cup {Guest},
         Leaves(d, p), DiskInv(d), d.main = disk.main, d.bad = disk.bad,
         d.lapses = disk.lapses, Current(d).default # 0,
         ~LogAlone /\ store.running # 0 =>
           /\ store.running <= Current(d).last
           /\ Current(d).birth[store.running] \in {0, store.birth}
  PROVE  NextInv
<1>1. /\ disk \in DiskType /\ store \in StoreType /\ store.at = "running" /\ disk.main # None
      /\ ~LogAlone => disk.bad = "" /\ InUse(disk, store)
  BY AtRun
<1>2. /\ disk' \in DiskType
      /\ disk'.main = d.main /\ disk'.log = d.log /\ disk'.bad = d.bad
      /\ disk'.damage = d.damage /\ disk'.whole = d.whole /\ disk'.kept = d.kept
      /\ disk'.dirs = d.dirs /\ disk'.lost = d.lost
      /\ \/ store' = Down /\ disk'.lapses = d.lapses
         \/ store' = store /\ ~Faultless(disk')
  BY <1>1, Left
<1>3. Evidence(disk')
  BY <1>2 DEF DiskInv, Evidence
<1>4. Faultless(disk') => Faultless(d)
  BY <1>2 DEF Faultless
<1>5. DiskInv(disk') /\ Current(disk') = Current(d)
  BY <1>2, <1>3, <1>4, Alike
<1>6. CASE store' = Down
  BY <1>2, <1>5, <1>6, Ended DEF NextInv
<1>7. CASE store' = store /\ ~Faultless(disk')
  <2>1. ~LogAlone => InUse(disk', store')
    BY <1>1, <1>2, <1>5, <1>7 DEF InUse
  <2>2. StageInv(disk', store')
    BY <1>1, <1>2, <1>5, <1>7, <2>1 DEF StageInv, StageOK, DataInUse, Early, Late
  <2> QED BY <1>1, <1>2, <1>5, <1>7, <2>2 DEF NextInv
<1> QED BY <1>2, <1>6, <1>7

(* WritesSiteData: the data is of the profile in use.                       *)
LEMMA WritesKeeps ==
  ASSUME Constants, IInv, WritesSiteData
  PROVE  NextInv
<1>0. Running /\ store.running # 0 /\ store' = store
  BY DEF WritesSiteData, Named
<1> DEFINE p == store.running
           b == store.birth
           e == [disk EXCEPT !.dirs[p] = @ \cup {b}]
<1>1. /\ disk \in DiskType /\ store \in StoreType /\ DiskInv(disk) /\ store.at = "running"
      /\ p \in Profiles /\ b \in Nat /\ disk.main # None
      /\ Db = Current(disk) /\ Db.default # 0
      /\ ~LogAlone =>
           /\ disk.bad = "" /\ DataOK(disk) /\ InUse(disk, store)
           /\ Faultless(disk) => Cleaned(Db, disk.dirs)
  BY <1>0, AtRun DEF Numbers
<1>2. disk' = e
  BY DEF WritesSiteData
<1>3. ~LogAlone =>
        /\ b # 0 /\ p <= Db.last
        /\ Db.birth[p] \in {0, b} /\ disk.main.birth[p] \in {0, b}
        /\ Faultless(disk) => Db.birth[p] # 0
  BY <1>0, <1>1 DEF InUse
<1> HIDE DEF p, b
<1>4. /\ e \in DiskType /\ e.main = disk.main /\ e.log = disk.log /\ e.bad = disk.bad
      /\ e.damage = disk.damage /\ e.whole = disk.whole /\ e.kept = disk.kept
      /\ e.lapses = disk.lapses /\ e.lost = disk.lost
      /\ e.dirs[p] = disk.dirs[p] \cup {b} /\ \A q \in Profiles : q # p => e.dirs[q] = disk.dirs[q]
  BY <1>1 DEF DiskType
<1> HIDE DEF e
<1>5. Current(e) = Db
  BY <1>1, <1>4 DEF Current
<1>6. DatabasesOK(e) /\ Evidence(e)
  BY <1>1, <1>4 DEF DiskInv, DatabasesOK, Evidence
<1>7. ASSUME ~LogAlone PROVE DataOK(e)
  <2>1. disk.log # None => disk.log.birth[p] \in {0, b}
    BY <1>3, <1>7 DEF Db
  <2>2. disk.log # None => OwnData(disk.log, e.dirs)
    BY <1>1, <1>4, <1>7, <2>1 DEF DataOK, OwnData
  <2>3. OwnData(disk.main, e.dirs)
    BY <1>1, <1>3, <1>4, <1>7 DEF DataOK, OwnData
  <2>4. Numbered(Db, disk.dirs) /\ (Faultless(disk) => Swept(Db, disk.dirs))
    BY <1>1, <1>7 DEF DataOK
  <2>5. Numbered(Db, e.dirs)
    BY <1>3, <1>4, <1>7, <2>4 DEF Numbered
  <2>6. Faultless(e) => Swept(Db, e.dirs)
    BY <1>3, <1>4, <1>7, <2>4 DEF Swept, Faultless
  <2> QED BY <1>1, <1>4, <1>5, <1>7, <2>2, <2>3, <2>5, <2>6 DEF DataOK
<1>8. ASSUME ~LogAlone, Faultless(e) PROVE Cleaned(Db, e.dirs)
  <2>1. Cleaned(Db, disk.dirs) /\ Db.birth[p] # 0
    BY <1>1, <1>3, <1>4, <1>8 DEF Faultless
  <2>2. DbOK(Db) /\ Db \in DbType
    BY <1>0, AtRun
  <2>3. Db.pending # 0 => Db.pending \in Profiles /\ Db.pending # p
    BY <2>1, <2>2 DEF DbOK, DbType, Numbers
  <2> QED BY <1>4, <2>1, <2>3 DEF Cleaned
<1>9. ~LogAlone => InUse(e, store)
  BY <1>1, <1>4, <1>5 DEF InUse, Faultless
<1>10. StageInv(e, store)
  BY <1>0, <1>1, <1>4, <1>5, <1>8, <1>9 DEF StageInv, StageOK, DataInUse, Early, Late
<1> QED BY <1>0, <1>1, <1>2, <1>4, <1>6, <1>7, <1>10 DEF NextInv, DiskInv

(* SwitchProfile: only the active profile is another one.                   *)
LEMMA SwitchKeeps ==
  ASSUME Constants, IInv, NEW p \in Profiles \cup {Guest}, SwitchProfile(p)
  PROVE  NextInv
<1>0. Running
  BY DEF SwitchProfile
<1>1. /\ disk \in DiskType /\ store \in StoreType /\ DiskInv(disk) /\ store.at = "running"
      /\ disk.main # None /\ Db = Current(disk) /\ Db \in DbType /\ DbOK(Db) /\ Db.default # 0
      /\ ~LogAlone => DataOK(disk) /\ InUse(disk, store)
  BY <1>0, AtRun
<1>2. CASE p = Guest
  <2>1. Leaves(disk, p)
    BY <1>2 DEF SwitchProfile
  <2>2. ~LogAlone /\ store.running # 0 =>
          /\ store.running <= Current(disk).last
          /\ Current(disk).birth[store.running] \in {0, store.birth}
    BY <1>1 DEF InUse
  <2> QED BY <1>0, <1>1, <2>1, <2>2, LeavesKeeps
<1>3. CASE p # Guest
  <2> DEFINE db == [Db EXCEPT !.active = p]
             e == Commit(disk, db)
  <2>1. p \in Rows(Db) /\ Leaves(e, p)
    BY <1>3 DEF SwitchProfile
  <2>2. p \in Profiles /\ Db.birth[p] # 0 /\ p \in Numbers
    BY <2>1 DEF Rows, Numbers
  <2>3. /\ db \in DbType /\ db.birth = Db.birth /\ db.default = Db.default /\ db.active = p
        /\ db.pending = Db.pending /\ db.last = Db.last
    BY <1>1, <2>2 DEF DbType
  <2> HIDE DEF db
  <2>4. /\ e \in DiskType /\ e.log = db /\ e.log # None
        /\ e.main = disk.main /\ e.bad = disk.bad /\ e.damage = disk.damage /\ e.whole = disk.whole
        /\ e.kept = disk.kept /\ e.dirs = disk.dirs /\ e.lapses = disk.lapses /\ e.lost = disk.lost
    BY <1>1, <2>3 DEF DiskType, Commit, Constants
  <2> HIDE DEF e
  <2>5. DbOK(db) /\ db.default # 0
    BY <1>1, <2>2, <2>3 DEF DbOK
  <2>6. Extends(Db, db)
    BY <1>1, <2>3, SameNumbers
  <2>7. Fresh(Db, db, e.dirs)
    BY <2>3 DEF Fresh
  <2>8. Evidence(e) /\ (Faultless(e) => Faultless(disk))
    BY <1>1, <2>4 DEF Evidence, DiskInv, Faultless
  <2>9. ASSUME ~LogAlone
        PROVE  (e.bad = "" => Numbered(db, e.dirs)) /\ (Faultless(e) => Swept(db, e.dirs))
    <3>1. (disk.bad = "" => Numbered(Db, disk.dirs)) /\ (Faultless(disk) => Swept(Db, disk.dirs))
      BY <1>1, <2>9 DEF DataOK
    <3> QED BY <2>3, <2>4, <2>8, <3>1 DEF Numbered, Swept
  <2>10. \A q \in Profiles : e.dirs[q] \subseteq disk.dirs[q]
    BY <2>4
  <2>11. DiskInv(e) /\ Current(e) = db
    BY <1>1, <2>4, <2>5, <2>6, <2>7, <2>8, <2>9, <2>10, Commits
  <2>12. ~LogAlone /\ store.running # 0 =>
           /\ store.running <= Current(e).last
           /\ Current(e).birth[store.running] \in {0, store.birth}
    BY <1>1, <2>3, <2>11 DEF InUse
  <2> QED BY <1>0, <2>1, <2>4, <2>5, <2>11, <2>12, LeavesKeeps
<1> QED BY <1>2, <1>3

(* CreateProfile: the next number was never given.                          *)
LEMMA CreateKeeps ==
  ASSUME Constants, IInv, CreateProfile
  PROVE  NextInv
<1>0. Running
  BY DEF CreateProfile
<1>1. /\ disk \in DiskType /\ store \in StoreType /\ DiskInv(disk) /\ store.at = "running"
      /\ disk.main # None /\ Db = Current(disk) /\ Db \in DbType /\ DbOK(Db) /\ Db.default # 0
      /\ Db.default \in Profiles /\ Profiles \subseteq Nat \ {0} /\ Numbers \subseteq Nat
      /\ store.running \in Numbers
      /\ ~LogAlone => disk.bad = "" /\ DataOK(disk) /\ InUse(disk, store)
  BY <1>0, AtRun
<1> DEFINE p == Db.last + 1
           db == [Db EXCEPT !.birth[p] = disk.births + 1, !.last = p, !.active = p]
           e == [disk EXCEPT !.log = db, !.births = @ + 1]
<1>2. p \in Profiles /\ Leaves([Commit(disk, db) EXCEPT !.births = @ + 1], p)
  BY DEF CreateProfile
<1>3. Db.last \in Nat /\ disk.births \in Nat
  BY <1>1 DEF DbType, DiskType
<1>4. p > Db.last /\ p \in Numbers /\ disk.births + 1 \in Nat /\ disk.births + 1 # 0
  BY <1>2, <1>3 DEF Numbers
<1> HIDE DEF p, e
<1>5. /\ db \in DbType /\ db.default = Db.default /\ db.active = p /\ db.last = p
      /\ db.pending = Db.pending /\ db.birth[p] # 0
      /\ \A q \in Profiles : q # p => db.birth[q] = Db.birth[q]
  BY <1>1, <1>2, <1>4 DEF DbType
<1> HIDE DEF db
<1>6. /\ e \in DiskType /\ e.log = db /\ e.log # None
      /\ e.main = disk.main /\ e.bad = disk.bad /\ e.damage = disk.damage /\ e.whole = disk.whole
      /\ e.kept = disk.kept /\ e.dirs = disk.dirs /\ e.lapses = disk.lapses /\ e.lost = disk.lost
  BY <1>1, <1>4, <1>5 DEF e, DiskType, Constants
<1>7. Leaves(e, p)
  <2>1. e = [Commit(disk, db) EXCEPT !.births = @ + 1]
    BY <1>1 DEF e, Commit, DiskType
  <2> QED BY <1>2, <2>1
<1>71. Numbers \subseteq Nat
  BY <1>1
<1>72. p \in Nat /\ Db.last \in Nat /\ Db.last < p
  BY <1>1, <1>3, <1>4
<1>8. /\ Db.default # p /\ Db.pending # p
      /\ \A q \in Profiles : Db.birth[q] # 0 => q <= Db.last /\ q # p
      /\ \A q \in Profiles : q <= Db.last => q # p
  <2>1. Db.default <= Db.last /\ Db.pending <= Db.last
    BY <1>1 DEF DbOK
  <2>2. \A q \in Numbers : q <= Db.last => q # p
    BY <1>71, <1>72
  <2>3. Db.default \in Numbers /\ Db.pending \in Numbers /\ Profiles \subseteq Numbers
    BY <1>1 DEF DbType, Numbers
  <2>4. \A q \in Profiles : Db.birth[q] # 0 => q <= Db.last
    BY <1>1 DEF DbOK
  <2> QED BY <2>1, <2>2, <2>3, <2>4
<1>9. \A q \in Numbers : q <= Db.last => q <= p
  BY <1>71, <1>72
<1>10. DbOK(db) /\ db.default # 0
  <2>1. \A q \in Profiles : db.birth[q] # 0 => q <= db.last
    <3>1. p <= p
      BY <1>72
    <3> QED BY <1>5, <1>8, <1>9, <3>1 DEF Numbers
  <2>2. db.pending <= db.last
    BY <1>1, <1>5, <1>9 DEF DbOK, DbType
  <2>3. db.birth[db.default] # 0
    BY <1>1, <1>5, <1>8 DEF DbOK
  <2>4. db.active # 0 => db.birth[db.active] # 0
    BY <1>5
  <2>5. db.pending # 0 => db.birth[db.pending] = 0
    BY <1>1, <1>5, <1>8 DEF DbOK, DbType, Numbers
  <2> QED BY <1>1, <1>5, <2>1, <2>2, <2>3, <2>4, <2>5 DEF DbOK
<1>11. Extends(Db, db)
  <2>1. Db.last <= db.last
    BY <1>72, <1>5
  <2> QED BY <1>5, <1>8, <2>1 DEF Extends
<1>12. Evidence(e) /\ (Faultless(e) => Faultless(disk))
  BY <1>1, <1>6 DEF Evidence, DiskInv, Faultless
<1>13. ASSUME ~LogAlone
       PROVE  /\ Fresh(Db, db, e.dirs) /\ Numbered(db, e.dirs)
              /\ Faultless(e) => Swept(db, e.dirs)
  <2>1. Numbered(Db, disk.dirs) /\ (Faultless(disk) => Swept(Db, disk.dirs))
    BY <1>1, <1>13 DEF DataOK
  <2>2. \A q \in Profiles : disk.dirs[q] # {} => q <= Db.last /\ q # p
    BY <1>1, <1>8, <2>1 DEF Numbered
  <2>3. Fresh(Db, db, e.dirs)
    BY <1>2, <1>5, <1>6, <2>2 DEF Fresh
  <2>4. Numbered(db, e.dirs)
    BY <1>5, <1>6, <1>9, <2>2 DEF Numbered, Numbers
  <2>5. Faultless(e) => Swept(db, e.dirs)
    BY <1>5, <1>6, <1>12, <2>1, <2>2 DEF Swept
  <2> QED BY <2>3, <2>4, <2>5
<1>14. \A q \in Profiles : e.dirs[q] \subseteq disk.dirs[q]
  BY <1>6
<1>15. DiskInv(e) /\ Current(e) = db
  BY <1>1, <1>6, <1>10, <1>11, <1>12, <1>13, <1>14, Commits
<1>16. ASSUME ~LogAlone, store.running # 0
       PROVE  /\ store.running <= Current(e).last
              /\ Current(e).birth[store.running] \in {0, store.birth}
  <2>1. store.running <= Db.last /\ Db.birth[store.running] \in {0, store.birth}
    BY <1>1, <1>16 DEF InUse
  <2>2. store.running \in Profiles
    BY <1>1, <1>16 DEF Numbers
  <2>3. store.running # p /\ store.running <= p
    BY <1>1, <1>8, <1>9, <2>1, <2>2
  <2> QED BY <1>5, <1>15, <2>1, <2>2, <2>3
<1> QED BY <1>0, <1>2, <1>6, <1>7, <1>10, <1>15, <1>16, LeavesKeeps

(* The database without p, which is to be removed, or is already.              *)
LEMMA Deletes ==
  ASSUME Constants, NEW db \in DbType, DbOK(db), NEW p \in Profiles, db.birth[p] # 0,
         db.default # 0, p # db.default
  PROVE  LET x == Deleted(db, p)
             y == [x EXCEPT !.pending = 0]
         IN  /\ x \in DbType /\ x.default = db.default /\ x.last = db.last /\ x.pending = p
             /\ x.birth[p] = 0 /\ \A q \in Profiles : q # p => x.birth[q] = db.birth[q]
             /\ DbOK(x)
             /\ y \in DbType /\ y.default = db.default /\ y.last = db.last /\ y.pending = 0
             /\ y.birth = x.birth /\ DbOK(y)
<1> DEFINE x == Deleted(db, p)
           y == [x EXCEPT !.pending = 0]
<1>1. Profiles \subseteq Nat \ {0} /\ Numbers \subseteq Nat /\ p \in Numbers /\ 0 \in Numbers
  BY Ids DEF Numbers
<1>2. /\ x \in DbType /\ x.default = db.default /\ x.last = db.last /\ x.pending = p
      /\ x.birth[p] = 0 /\ \A q \in Profiles : q # p => x.birth[q] = db.birth[q]
      /\ x.active = IF db.active = p THEN db.default ELSE db.active
  BY <1>1 DEF DbType, Deleted
<1> HIDE DEF x
<1>3. /\ y \in DbType /\ y.default = x.default /\ y.last = x.last /\ y.pending = 0
      /\ y.birth = x.birth /\ y.active = x.active
  BY <1>1, <1>2 DEF DbType
<1> HIDE DEF y
<1>4. db.default \in Profiles /\ db.active \in Numbers /\ p <= db.last /\ db.last \in Nat
  BY <1>1 DEF DbType, DbOK, Numbers
<1>5. /\ \A q \in Profiles : x.birth[q] # 0 => q <= x.last
      /\ x.birth[x.default] # 0
      /\ x.active # 0 => x.birth[x.active] # 0
  <2>1. \A q \in Profiles : x.birth[q] # 0 => q <= x.last
    BY <1>2 DEF DbOK
  <2>2. x.birth[x.default] # 0
    BY <1>2, <1>4 DEF DbOK
  <2>3. x.active # 0 => x.birth[x.active] # 0
    BY <1>2, <1>4 DEF DbOK, Numbers
  <2> QED BY <2>1, <2>2, <2>3
<1>6. DbOK(x)
  BY <1>1, <1>2, <1>4, <1>5 DEF DbOK
<1>7. DbOK(y)
  <2>1. 0 <= y.last
    BY <1>2, <1>3, <1>4
  <2> QED BY <1>1, <1>2, <1>3, <1>5, <2>1 DEF DbOK
<1> QED BY <1>2, <1>3, <1>6, <1>7 DEF x, y

(* DeleteProfile: the directory is marked, or gone.                         *)
LEMMA DeleteKeeps ==
  ASSUME Constants, IInv, DeleteProfile
  PROVE  NextInv
<1>0. Running /\ store.running # 0 /\ store.running \in Rows(Db) \ {Db.default}
  BY DEF DeleteProfile, Named
<1>1. /\ disk \in DiskType /\ store \in StoreType /\ DiskInv(disk) /\ store.at = "running"
      /\ disk.main # None /\ Db = Current(disk) /\ Db \in DbType /\ DbOK(Db) /\ Db.default # 0
      /\ Db.default \in Profiles \cup {Guest}
      /\ ~LogAlone => /\ disk.bad = "" /\ DataOK(disk) /\ InUse(disk, store)
                      /\ Faultless(disk) => Cleaned(Db, disk.dirs)
  BY <1>0, AtRun
<1> DEFINE p == store.running
           x == Deleted(Db, p)
           y == [x EXCEPT !.pending = 0]
           d == Commit(disk, x)
           cleaned == [Commit(d, [d.log EXCEPT !.pending = 0]) EXCEPT !.dirs[p] = {}]
<1>2. p \in Profiles /\ Db.birth[p] # 0 /\ p # Db.default
  BY <1>0 DEF Rows
<1>3. \/ Leaves(d, Db.default)
      \/ Leaves(cleaned, Db.default)
  BY DEF DeleteProfile
<1>4. /\ x \in DbType /\ x.default = Db.default /\ x.last = Db.last /\ x.pending = p
      /\ x.birth[p] = 0 /\ \A q \in Profiles : q # p => x.birth[q] = Db.birth[q]
      /\ DbOK(x)
      /\ y \in DbType /\ y.default = Db.default /\ y.last = Db.last /\ y.pending = 0
      /\ y.birth = x.birth /\ DbOK(y)
  <2> HIDE DEF p
  <2> QED BY <1>1, <1>2, Deletes
<1>5. /\ d \in DiskType /\ d.log = x /\ d.log # None
      /\ d.main = disk.main /\ d.bad = disk.bad /\ d.damage = disk.damage /\ d.whole = disk.whole
      /\ d.kept = disk.kept /\ d.dirs = disk.dirs /\ d.lapses = disk.lapses /\ d.lost = disk.lost
  <2> HIDE DEF p, x
  <2> QED BY <1>1, <1>4 DEF DiskType, Commit, Constants
<1>6. /\ cleaned \in DiskType /\ cleaned.log = y /\ cleaned.log # None
      /\ cleaned.main = disk.main /\ cleaned.bad = disk.bad /\ cleaned.damage = disk.damage
      /\ cleaned.whole = disk.whole /\ cleaned.kept = disk.kept
      /\ cleaned.lapses = disk.lapses /\ cleaned.lost = disk.lost
      /\ cleaned.dirs[p] = {}
      /\ \A q \in Profiles : q # p => cleaned.dirs[q] = disk.dirs[q]
  <2>1. cleaned = [Commit(d, y) EXCEPT !.dirs[p] = {}]
    BY <1>5
  <2> HIDE DEF p, y, d, cleaned
  <2>2. /\ Commit(d, y) \in DiskType /\ Commit(d, y).log = y /\ y # None
        /\ Commit(d, y).main = d.main /\ Commit(d, y).bad = d.bad
        /\ Commit(d, y).damage = d.damage /\ Commit(d, y).whole = d.whole
        /\ Commit(d, y).kept = d.kept /\ Commit(d, y).dirs = d.dirs
        /\ Commit(d, y).lapses = d.lapses /\ Commit(d, y).lost = d.lost
    BY <1>4, <1>5 DEF DiskType, Commit, Constants
  <2> QED BY <1>2, <1>5, <2>1, <2>2 DEF DiskType
<1> HIDE DEF p, x, y, d, cleaned
<1>7. /\ \A q \in Profiles : x.birth[q] \in {0, Db.birth[q]} /\ y.birth[q] \in {0, Db.birth[q]}
      /\ Extends(Db, x) /\ Extends(Db, y)
  <2>1. \A q \in Profiles : x.birth[q] \in {0, Db.birth[q]} /\ y.birth[q] \in {0, Db.birth[q]}
    BY <1>4
  <2>2. Db.last <= Db.last
    BY <1>1, SameNumbers DEF Extends
  <2> QED BY <1>4, <2>1, <2>2 DEF Extends
<1>8. ASSUME ~LogAlone
      PROVE  /\ Numbered(Db, disk.dirs)
             /\ Faultless(disk) => Swept(Db, disk.dirs) /\ Cleaned(Db, disk.dirs)
  BY <1>1, <1>8 DEF DataOK
<1>9. ASSUME ~LogAlone, store.running # 0
      PROVE  store.running <= Db.last /\ Db.birth[p] \in {0, store.birth}
  BY <1>1, <1>9 DEF InUse, p
<1>10. CASE Leaves(d, Db.default)
  <2>1. Evidence(d) /\ (Faultless(d) => Faultless(disk))
    BY <1>1, <1>5 DEF Evidence, DiskInv, Faultless
  <2>2. ASSUME ~LogAlone
        PROVE  Fresh(Db, x, d.dirs) /\ Numbered(x, d.dirs) /\ (Faultless(d) => Swept(x, d.dirs))
    <3>1. Fresh(Db, x, d.dirs)
      BY <1>7 DEF Fresh
    <3>2. Numbered(x, d.dirs)
      BY <1>4, <1>5, <1>8, <2>2 DEF Numbered
    <3>3. Faultless(d) => Swept(x, d.dirs)
      <4>1. SUFFICES ASSUME Faultless(d), NEW q \in Profiles, x.birth[q] = 0, disk.dirs[q] # {},
                             q # p
                     PROVE  FALSE
        BY <1>4, <1>5 DEF Swept
      <4>2. Db.pending = q
        BY <1>4, <1>8, <2>1, <2>2, <4>1 DEF Swept
      <4>3. q # 0
        BY Ids
      <4> QED BY <1>8, <2>1, <2>2, <4>1, <4>2, <4>3 DEF Cleaned
    <3> QED BY <3>1, <3>2, <3>3
  <2>3. \A q \in Profiles : d.dirs[q] \subseteq disk.dirs[q]
    BY <1>5
  <2>4. DiskInv(d) /\ Current(d) = x
    <3>1. /\ disk \in DiskType /\ DiskInv(disk) /\ disk.main # None /\ Current(disk) = Db
      BY <1>1
    <3>2. /\ d \in DiskType /\ d.main = disk.main /\ d.log # None /\ d.bad = disk.bad
          /\ d.log = x
      BY <1>5
    <3>3. DbOK(d.log) /\ d.log.default # 0 /\ Extends(Current(disk), d.log)
      BY <1>1, <1>4, <1>7, <3>2
    <3>4. ~LogAlone => /\ Fresh(Current(disk), d.log, d.dirs)
                       /\ d.bad = "" => Numbered(d.log, d.dirs)
                       /\ Faultless(d) => Swept(d.log, d.dirs)
      BY <2>2, <3>1, <3>2
    <3> QED BY <2>1, <2>3, <3>1, <3>2, <3>3, <3>4, Commits
  <2>5. ~LogAlone /\ store.running # 0 =>
          /\ store.running <= Current(d).last
          /\ Current(d).birth[store.running] \in {0, store.birth}
    BY <1>4, <1>9, <2>4 DEF p
  <2> QED BY <1>0, <1>1, <1>4, <1>5, <1>10, <2>4, <2>5, LeavesKeeps
<1>11. CASE Leaves(cleaned, Db.default)
  <2>1. Evidence(cleaned) /\ (Faultless(cleaned) => Faultless(disk))
    BY <1>1, <1>6 DEF Evidence, DiskInv, Faultless
  <2>2. ASSUME ~LogAlone
        PROVE  Fresh(Db, y, cleaned.dirs) /\ Numbered(y, cleaned.dirs)
               /\ (Faultless(cleaned) => Swept(y, cleaned.dirs))
    <3>1. Fresh(Db, y, cleaned.dirs)
      BY <1>7 DEF Fresh
    <3>2. Numbered(y, cleaned.dirs)
      BY <1>4, <1>6, <1>8, <2>2 DEF Numbered
    <3>3. Faultless(cleaned) => Swept(y, cleaned.dirs)
      BY <1>4, <1>6, <1>8, <2>1, <2>2 DEF Swept, Cleaned
    <3> QED BY <3>1, <3>2, <3>3
  <2>3. \A q \in Profiles : cleaned.dirs[q] \subseteq disk.dirs[q]
    BY <1>6
  <2>4. DiskInv(cleaned) /\ Current(cleaned) = y
    <3>1. /\ disk \in DiskType /\ DiskInv(disk) /\ disk.main # None /\ Current(disk) = Db
      BY <1>1
    <3>2. /\ cleaned \in DiskType /\ cleaned.main = disk.main /\ cleaned.log # None /\ cleaned.bad = disk.bad
          /\ cleaned.log = y
      BY <1>6
    <3>3. DbOK(cleaned.log) /\ cleaned.log.default # 0 /\ Extends(Current(disk), cleaned.log)
      BY <1>1, <1>4, <1>7, <3>2
    <3>4. ~LogAlone => /\ Fresh(Current(disk), cleaned.log, cleaned.dirs)
                       /\ cleaned.bad = "" => Numbered(cleaned.log, cleaned.dirs)
                       /\ Faultless(cleaned) => Swept(cleaned.log, cleaned.dirs)
      BY <2>2, <3>1, <3>2
    <3> QED BY <2>1, <2>3, <3>1, <3>2, <3>3, <3>4, Commits
  <2>5. ~LogAlone /\ store.running # 0 =>
          /\ store.running <= Current(cleaned).last
          /\ Current(cleaned).birth[store.running] \in {0, store.birth}
    BY <1>4, <1>9, <2>4 DEF p
  <2> QED BY <1>0, <1>1, <1>4, <1>6, <1>11, <2>4, <2>5, LeavesKeeps
<1> QED BY <1>3, <1>10, <1>11
-----------------------------------------------------------------------------
(* Checkpoint: the file is what its log was.                                *)
LEMMA CheckpointKeeps ==
  ASSUME Constants, IInv, Checkpoint
  PROVE  NextInv
<1>0. Running /\ disk.log # None /\ store' = store
  BY DEF Checkpoint
<1>1. /\ disk \in DiskType /\ store \in StoreType /\ DiskInv(disk) /\ StageInv(disk, store)
      /\ store.at = "running" /\ disk.main # None /\ disk.log = Db
      /\ Db = Current(disk) /\ Db \in DbType /\ Db # None /\ DbOK(Db) /\ Db.default # 0
      /\ ~LogAlone => /\ disk.bad = "" /\ DataOK(disk) /\ InUse(disk, store)
                      /\ Faultless(disk) => Cleaned(Db, disk.dirs)
  BY <1>0, AtRun DEF Db
<1> DEFINE e == [disk EXCEPT !.main = disk.log, !.log = None]
<1>2. disk' = e
  BY DEF Checkpoint
<1>3. /\ e \in DiskType /\ e.main = Db /\ e.log = None /\ e.bad = disk.bad
      /\ e.damage = disk.damage /\ e.whole = disk.whole /\ e.kept = disk.kept
      /\ e.dirs = disk.dirs /\ e.lapses = disk.lapses /\ e.lost = disk.lost
  BY <1>1 DEF DiskType
<1> HIDE DEF e
<1>4. Current(e) = Db
  BY <1>3 DEF Current
<1>5. DatabasesOK(e) /\ Evidence(e) /\ (Faultless(e) <=> Faultless(disk))
  BY <1>1, <1>3 DEF DatabasesOK, Evidence, DiskInv, Faultless
<1>6. ASSUME ~LogAlone PROVE DataOK(e)
  BY <1>1, <1>3, <1>4, <1>5, <1>6 DEF DataOK
<1>7. ASSUME ~LogAlone PROVE InUse(e, store)
  BY <1>1, <1>3, <1>4, <1>5, <1>7 DEF InUse
<1>8. StageInv(e, store)
  BY <1>1, <1>3, <1>4, <1>5, <1>7 DEF StageInv, StageOK, DataInUse, Early, Late
<1> QED BY <1>0, <1>1, <1>2, <1>3, <1>5, <1>6, <1>8 DEF NextInv, DiskInv

(* Crash: the disk stays, the process is gone.                              *)
LEMMA CrashKeeps ==
  ASSUME Constants, IInv, Crash
  PROVE  NextInv
<1>1. disk \in DiskType /\ disk.override \in Numbers \cup {Guest} /\ 0 \in Numbers
  BY DEF IInv, Types, DiskType, Numbers
<1>2. store' = Down
  BY DEF Crash, Ends
<1>3. disk' \in {[disk EXCEPT !.override = o, !.lapses = disk.lapses] : o \in {0, disk.override}}
  <2>1. disk = [disk EXCEPT !.override = disk.override, !.lapses = disk.lapses]
    BY <1>1 DEF DiskType
  <2>2. [disk EXCEPT !.override = 0] = [disk EXCEPT !.override = 0, !.lapses = disk.lapses]
    BY <1>1 DEF DiskType
  <2>3. disk' = disk \/ disk' = [disk EXCEPT !.override = 0]
    BY DEF Crash
  <2> QED BY <2>1, <2>2, <2>3
<1>4. \A o \in {0, disk.override} :
        LET e == [disk EXCEPT !.override = o, !.lapses = disk.lapses]
        IN  e \in DiskType /\ DiskInv(e)
  BY <1>1, Lapses
<1>5. disk' \in DiskType /\ DiskInv(disk')
  BY <1>3, <1>4
<1> QED BY <1>2, <1>5, Ended DEF NextInv

(* Damage while no process runs; with the log, or without it.               *)
LEMMA DamageKeeps ==
  ASSUME Constants, IInv, Damage
  PROVE  NextInv
<1>1. /\ disk \in DiskType /\ store \in StoreType /\ DiskInv(disk) /\ StageInv(disk, store)
      /\ store.at = "down" /\ disk.main # None /\ store' = store
  BY DEF IInv, Types, Damage, At
<1>2. PICK w \in {"main", "log"} :
        /\ disk' = [disk EXCEPT !.bad = w, !.damage = @ + 1, !.whole = TRUE]
        /\ ~LogAlone => w = "main"
  BY DEF Damage
<1> DEFINE e == [disk EXCEPT !.bad = w, !.damage = @ + 1, !.whole = TRUE]
<1>3. disk.damage \in Nat /\ disk.damage + 1 \in Nat
  <2>1. disk.damage \in Nat
    BY <1>1 DEF DiskType
  <2> QED BY <2>1
<1>4. /\ e \in DiskType /\ e.main = disk.main /\ e.log = disk.log /\ e.bad = w
      /\ e.whole = TRUE /\ e.dirs = disk.dirs /\ e.lapses = disk.lapses /\ e.lost = disk.lost
      /\ disk' = e
  BY <1>1, <1>2, <1>3 DEF DiskType
<1> HIDE DEF e
<1>5. DatabasesOK(e) /\ Evidence(e) /\ (Faultless(e) <=> Faultless(disk))
  BY <1>1, <1>4 DEF DatabasesOK, Evidence, DiskInv, Faultless
<1>6. ASSUME ~LogAlone PROVE DataOK(e)
  <2>1. Current(e) = Current(disk) /\ e.bad = "main" /\ DataOK(disk)
    BY <1>1, <1>2, <1>4, <1>6 DEF Current, DiskInv
  <2> QED BY <1>1, <1>4, <1>5, <2>1 DEF DataOK
<1>7. StageInv(e, store)
  <2>1. store.running = 0
    BY <1>1 DEF StageInv, StageOK
  <2> QED BY <1>1, <2>1 DEF StageInv, StageOK, DataInUse, InUse, Early, Late
<1> QED BY <1>1, <1>4, <1>5, <1>6, <1>7 DEF NextInv, DiskInv
-----------------------------------------------------------------------------
(* Every step keeps the invariant.                                          *)
LEMMA NextKeeps ==
  ASSUME Constants, IInv, Next
  PROVE  NextInv
<1>1. CASE Opens
  BY <1>1, OpensKeeps
<1>2. CASE SnapshotFails
  BY <1>2, LapseEnds DEF SnapshotFails
<1>3. CASE QuickCheck
  BY <1>3, QuickCheckKeeps
<1>4. CASE RemoveLog
  BY <1>4, RemoveLogKeeps
<1>5. CASE RemoveMain
  BY <1>5, RemoveMainKeeps
<1>6. CASE RemovalFails
  BY <1>6, LapseEnds DEF RemovalFails
<1>7. CASE Schema
  BY <1>7, SchemaKeeps
<1>8. CASE DefaultProfile
  BY <1>8, DefaultProfileKeeps
<1>9. CASE MarkRecovered
  BY <1>9, MarkRecoveredKeeps
<1>10. CASE ImportState
  BY <1>10, ImportKeeps
<1>11. CASE RenameState
  BY <1>11, RenameKeeps
<1>12. CASE MoveRuntime
  BY <1>12, MoveRuntimeKeeps
<1>13. CASE MarkMigrated
  BY <1>13, MarkMigratedKeeps
<1>14. CASE CleanupTree
  BY <1>14, CleanupTreeKeeps
<1>15. CASE CleanupMark
  BY <1>15, CleanupMarkKeeps
<1>16. CASE InitialProfile
  BY <1>16, InitialProfileKeeps
<1>17. CASE WritesSiteData
  BY <1>17, WritesKeeps
<1>18. CASE CreateProfile
  BY <1>18, CreateKeeps
<1>19. CASE DeleteProfile
  BY <1>19, DeleteKeeps
<1>20. CASE \E p \in Profiles \cup {Guest} : SwitchProfile(p)
  BY <1>20, SwitchKeeps
<1>21. CASE Checkpoint
  BY <1>21, CheckpointKeeps
<1>22. CASE Crash
  BY <1>22, CrashKeeps
<1>23. CASE Damage
  BY <1>23, DamageKeeps
<1> QED
  BY <1>1, <1>2, <1>3, <1>4, <1>5, <1>6, <1>7, <1>8, <1>9, <1>10, <1>11, <1>12, <1>13, <1>14,
     <1>15, <1>16, <1>17, <1>18, <1>19, <1>20, <1>21, <1>22, <1>23 DEF Next

(* A new device and a used one.                                             *)
LEMMA StartsSound ==
  ASSUME Constants, Init
  PROVE  IInv
<1>1. /\ Profiles \subseteq Nat \ {0} /\ 1 \in Profiles /\ Numbers \subseteq Nat
      /\ 0 \in Numbers /\ 1 \in Numbers
  BY Ids DEF Numbers
<1>2. New \in DiskType
  BY <1>1 DEF New, DiskType
<1>3. New.main = None /\ New.log = None /\ New.bad = "" /\ New.damage = 0
      /\ \A p \in Profiles : New.dirs[p] = {}
  BY DEF New
<1>4. DiskInv(New)
  BY <1>3 DEF DiskInv, DatabasesOK, Evidence, DataOK
<1> DEFINE db == [Empty EXCEPT !.birth[1] = 1, !.default = 1, !.active = 1, !.last = 1,
                               !.migrated = TRUE]
<1>5. /\ db \in DbType /\ db.default = 1 /\ db.active = 1 /\ db.last = 1 /\ db.pending = 0
      /\ db.birth[1] = 1 /\ \A p \in Profiles : p # 1 => db.birth[p] = 0
  BY <1>1 DEF Empty, DbType
<1> HIDE DEF db
<1>6. /\ Used \in DiskType /\ Used.main = db /\ Used.log = None /\ Used.bad = ""
      /\ Used.damage = 0 /\ Used.dirs[1] = {1}
      /\ \A p \in Profiles : p # 1 => Used.dirs[p] = {}
  <2>1. Used = [New EXCEPT !.main = db, !.dirs[1] = {1}, !.legacy = {}, !.births = 1]
    BY DEF Used, db
  <2>2. {1} \in SUBSET Nat /\ {} \in SUBSET Nat
    OBVIOUS
  <2> QED BY <1>1, <1>2, <1>3, <1>5, <2>1, <2>2 DEF DiskType
<1>7. DbOK(db)
  BY <1>1, <1>5 DEF DbOK
<1>8. db # None
  BY <1>5 DEF Constants
<1>9. OwnData(db, Used.dirs) /\ Numbered(db, Used.dirs) /\ Swept(db, Used.dirs)
  <2>1. OwnData(db, Used.dirs)
    BY <1>5, <1>6 DEF OwnData
  <2>2. 1 <= db.last
    BY <1>5
  <2>3. Numbered(db, Used.dirs)
    BY <1>6, <2>2 DEF Numbered
  <2>4. Swept(db, Used.dirs)
    BY <1>5, <1>6 DEF Swept
  <2> QED BY <2>1, <2>3, <2>4
<1>10. DiskInv(Used)
  BY <1>6, <1>7, <1>8, <1>9 DEF DiskInv, DatabasesOK, Evidence, DataOK, Current
<1>11. disk \in DiskType /\ DiskInv(disk)
  BY <1>2, <1>4, <1>6, <1>10 DEF Init
<1>12. store \in StoreType /\ StageInv(disk, store)
  BY <1>11, Ended DEF Init
<1> QED BY <1>11, <1>12 DEF IInv, Types

(* The invariant of the database, its log, the directories and the process.  *)
THEOREM StoreInvariance == ASSUME Constants PROVE Spec => []IInv
<1>1. Constants
  OBVIOUS
<1>2. Init => IInv
  BY <1>1, StartsSound
<1>3. IInv /\ [Next]_storeVars => IInv'
  <2>1. CASE Next
    BY <1>1, <2>1, NextKeeps DEF NextInv, IInv, Types
  <2>2. CASE UNCHANGED storeVars
    BY <2>2 DEF storeVars, IInv, Types
  <2> QED BY <2>1, <2>2
<1> QED BY <1>2, <1>3, PTL DEF Spec

(* EvidenceKept: a damaged database is there as a whole, or its backup is,   *)
(* wherever the damage was and wherever the process ended.                 *)
THEOREM DamageIsKept == ASSUME Constants PROVE Spec => []EvidenceKept
<1>1. IInv => EvidenceKept
  BY DEF IInv, DiskInv, Evidence, EvidenceKept
<1>2. Spec => []IInv
  BY StoreInvariance
<1> QED BY <1>1, <1>2, PTL

(* ProfilesApart, unless the log alone is damaged: no profile gets the site   *)
(* data of another one, and what a deleted one left is to be removed.       *)
THEOREM ApartForEver == ASSUME Constants, ~LogAlone PROVE Spec => []ProfilesApart
<1>1. ASSUME IInv PROVE ProfilesApart
  <2>1. DataOK(disk) /\ disk \in DiskType /\ DatabasesOK(disk)
    BY <1>1 DEF IInv, Types, DiskInv
  <2>2. Db = Current(disk)
    BY DEF Db, Current
  <2>3. SUFFICES ASSUME Db # None, NEW p \in Profiles
                 PROVE  /\ Db.birth[p] # 0 => disk.dirs[p] \subseteq {Db.birth[p]}
                        /\ Db.birth[p] = 0 /\ disk.dirs[p] # {} =>
                             Db.pending = p \/ store.running = p \/ disk.lapses > 0 \/ disk.lost
    BY DEF ProfilesApart
  <2>4. disk.main # None
    BY <2>1, <2>3 DEF DatabasesOK, Db
  <2>5. OwnData(Db, disk.dirs) /\ (Faultless(disk) => Swept(Db, disk.dirs))
    BY <2>1, <2>2, <2>4 DEF DataOK, Current
  <2>6. disk.lapses = 0 \/ disk.lapses > 0
    <3>1. disk.lapses \in Nat
      BY <2>1 DEF DiskType
    <3> QED BY <3>1
  <2> QED BY <2>5, <2>6 DEF OwnData, Swept, Faultless
<1>2. Spec => []IInv
  BY StoreInvariance
<1> QED BY <1>1, <1>2, PTL

(* TypeOK: a log needs its database; the default and the active profile exist. *)
THEOREM StoreTypes == ASSUME Constants PROVE Spec => []TypeOK
<1>1. ASSUME Constants, IInv PROVE TypeOK
  <2>1. disk \in DiskType /\ DatabasesOK(disk)
    BY <1>1 DEF IInv, Types, DiskInv
  <2>2. disk.main = None => disk.log = None
    BY <2>1 DEF DatabasesOK
  <2>3. disk.override \in Profiles \cup {0, Guest}
    BY <2>1 DEF DiskType, Numbers
  <2>4. ASSUME Db # None PROVE (Db.default = 0) = (Rows(Db) = {}) /\ Db.active \in Rows(Db) \cup {0}
    <3>1. disk.main # None /\ Db = Current(disk)
      BY <2>2, <2>4 DEF Db, Current
    <3>2. Db \in DbType /\ DbOK(Db)
      BY <1>1, <2>1, <3>1, Currents
    <3>3. Db.default # 0 => Db.default \in Rows(Db)
      BY <3>2 DEF DbOK, DbType, Numbers, Rows
    <3>4. ASSUME Db.default = 0 PROVE Rows(Db) = {}
      <4>1. \A p \in Profiles : ~(p <= 0)
        BY <1>1, Ids
      <4>2. Db.last = 0
        BY <3>2, <3>4 DEF DbOK
      <4> QED BY <3>2, <4>1, <4>2 DEF DbOK, Rows
    <3>5. Db.active \in Rows(Db) \cup {0}
      BY <3>2 DEF DbOK, DbType, Numbers, Rows
    <3> QED BY <3>3, <3>4, <3>5
  <2> QED BY <2>2, <2>3, <2>4 DEF TypeOK
<1>2. Constants
  OBVIOUS
<1>3. IInv => TypeOK
  BY <1>1, <1>2
<1>4. Spec => []IInv
  BY StoreInvariance
<1> QED BY <1>3, <1>4, PTL
=============================================================================
