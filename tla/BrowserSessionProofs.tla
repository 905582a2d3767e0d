------------------------ MODULE BrowserSessionProofs ------------------------
(***************************************************************************)
(* What holds of BrowserSession for any number of tabs, pages and faults of *)
(* the store: the tabs in the store outlive what the user did not close,    *)
(* the browser that leaves has saved what it shows, and a page that was     *)
(* killed for its memory is not loaded again on its own.                    *)
(*                                                                          *)
(* The invariant is one of two values, s for the store and c for the        *)
(* chrome: what is said of a save, of a change and of a start is then a      *)
(* lemma about values, and each action is one of the three. The web view     *)
(* has an invariant of its own.                                             *)
(***************************************************************************)
EXTENDS BrowserSession, FunctionTheorems, FiniteSetTheorems, TLAPS

Constants == Pages \subseteq Nat /\ MaxTabs \in Nat \ {0}

TabType == [id : Nat, page : Nat]
SavedType ==
  [tabs : Seq(TabType), active : Nat, next : Nat, restore : BOOLEAN, faults : Nat]
ChromeType ==
  [at : {"down", "up", "left"}, tabs : Seq(TabType), active : Nat, next : Nat, loaded : BOOLEAN,
   restored : Nat, restoring : BOOLEAN, dirty : BOOLEAN, explicit : BOOLEAN, timer : BOOLEAN,
   closed : SUBSET Nat, failed : BOOLEAN, changed : BOOLEAN]
WebType ==
  [page : Nat, load : {"no", "asked", "started", "gone"}, internal : BOOLEAN,
   reload : SUBSET Nat, last : SUBSET Nat, count : Nat, killed : SUBSET Nat]

(* Tabs have different numbers, all below the next one, and are not too many. *)
Fit(tabs, next) ==
  /\ Len(tabs) <= MaxTabs
  /\ \A i, j \in 1..Len(tabs) : tabs[i].id = tabs[j].id => i = j
  /\ \A i \in 1..Len(tabs) : tabs[i].id < next

SavedInv(s) ==
  /\ Fit(s.tabs, s.next)
  /\ s.tabs # <<>> => \E i \in 1..Len(s.tabs) : s.tabs[i].id = s.active

ChromeInv(c) ==
  /\ Fit(c.tabs, c.next)
  /\ c.at # "down" => c.active \in 1..Len(c.tabs)

(* The store has the tabs of the chrome, except for the page that the one on   *)
(* the screen is loading.                                                   *)
Agree(s, c) ==
  /\ Len(s.tabs) = Len(c.tabs)
  /\ \A i \in 1..Len(c.tabs) :
       /\ s.tabs[i].id = c.tabs[i].id
       /\ i # c.active => s.tabs[i] = c.tabs[i]
  /\ s.active = c.tabs[c.active].id

(* A chrome that read the store has every tab of it that was not closed.      *)
Known(s, c) ==
  c.loaded /\ c.restoring =>
    \A i \in 1..Len(s.tabs) :
      s.tabs[i].id \in c.closed \/ \E j \in 1..Len(c.tabs) : c.tabs[j].id = s.tabs[i].id

(* Fewer tabs than the store gave are due to the user, who was not heard yet. *)
ShrunkOnPurpose(c) ==
  c.loaded /\ Len(c.tabs) < c.restored => c.explicit /\ c.dirty

(* What is not to be saved any more is saved, and so is what was left.        *)
SavedOrDirty(s, c) ==
  /\ c.changed => c.loaded
  /\ c.changed /\ ~c.dirty => Agree(s, c)
  /\ c.at = "left" /\ c.changed /\ ~c.failed => Agree(s, c)

(* The chrome with the store, whatever was or was not saved of it.            *)
Sound(s, c) ==
  ChromeInv(c) /\ ShrunkOnPurpose(c) /\ (c.changed => c.loaded) /\ Known(s, c)

(* The same, while there is a chrome, with what was saved.                    *)
PairInv(s, c) ==
  /\ ChromeInv(c) /\ ShrunkOnPurpose(c) /\ SavedOrDirty(s, c)
  /\ c.at = "up" => Known(s, c)

WebInv ==
  /\ Blank \notin web.killed
  /\ \A page \in web.killed : page = web.page \/ page \in web.reload => page = Home

SessionTypes == saved \in SavedType /\ chrome \in ChromeType /\ web \in WebType
IInv == SessionTypes /\ SavedInv(saved) /\ PairInv(saved, chrome) /\ WebInv
-----------------------------------------------------------------------------
(* A tab that shows another page is the same tab.                           *)
LEMMA Rewritten ==
  ASSUME NEW tabs \in Seq(TabType), NEW i \in 1..Len(tabs), NEW p \in Nat
  PROVE  LET t == [tabs EXCEPT ![i].page = p]
         IN  /\ t \in Seq(TabType) /\ Len(t) = Len(tabs)
             /\ \A j \in 1..Len(tabs) : t[j].id = tabs[j].id
             /\ \A j \in 1..Len(tabs) : j # i => t[j] = tabs[j]
<1> DEFINE t == [tabs EXCEPT ![i].page = p]
<1>1. tabs \in [1..Len(tabs) -> TabType] /\ Len(tabs) \in Nat
  OBVIOUS
<1>2. [tabs[i] EXCEPT !.page = p] \in TabType /\ [tabs[i] EXCEPT !.page = p].id = tabs[i].id
  BY <1>1 DEF TabType
<1>3. t \in [1..Len(tabs) -> TabType]
  BY <1>1, <1>2
<1>4. t \in Seq(TabType) /\ Len(t) = Len(tabs)
  BY <1>1, <1>3
<1> QED BY <1>1, <1>2, <1>4

(* A change that is scheduled leaves a chrome that knows to save it.        *)
LEMMA Schedules ==
  ASSUME NEW s \in SavedType, NEW c \in ChromeType, NEW e \in BOOLEAN,
         c.at = "up", Sound(s, c)
  PROVE  Scheduled(c, e) \in ChromeType /\ PairInv(s, Scheduled(c, e))
<1>1. CASE ~c.loaded
  <2>1. Scheduled(c, e) = c
    BY <1>1 DEF Scheduled
  <2>2. ~c.changed
    BY <1>1 DEF Sound
  <2> QED BY <2>1, <2>2, <1>1 DEF Sound, PairInv, SavedOrDirty
<1>2. CASE c.loaded
  <2> DEFINE d == [c EXCEPT !.dirty = TRUE, !.explicit = @ \/ e, !.timer = TRUE, !.changed = TRUE]
  <2>1. Scheduled(c, e) = d
    BY <1>2 DEF Scheduled
  <2>2. /\ d \in ChromeType
        /\ d.at = c.at /\ d.tabs = c.tabs /\ d.active = c.active /\ d.next = c.next
        /\ d.loaded = c.loaded /\ d.restored = c.restored /\ d.restoring = c.restoring
        /\ d.closed = c.closed /\ d.dirty = TRUE /\ (c.explicit => d.explicit)
    BY DEF ChromeType
  <2> HIDE DEF d
  <2>3. PairInv(s, d)
    BY <2>2, <1>2 DEF Sound, PairInv, ChromeInv, ShrunkOnPurpose, SavedOrDirty, Known
  <2> QED BY <2>1, <2>2, <2>3
<1> QED BY <1>1, <1>2

(* The tab on the screen takes another page before that is scheduled.       *)
LEMMA OpensUrl ==
  ASSUME NEW s \in SavedType, NEW c \in ChromeType, NEW p \in Nat,
         c.at = "up", Sound(s, c)
  PROVE  LET d == [c EXCEPT !.tabs[c.active].page = p]
         IN  d \in ChromeType /\ d.at = "up" /\ Sound(s, d)
<1> DEFINE t == [c.tabs EXCEPT ![c.active].page = p]
           d == [c EXCEPT !.tabs = t]
<1>0. c.tabs \in Seq(TabType) /\ c.active \in 1..Len(c.tabs)
  BY DEF Sound, ChromeInv, ChromeType
<1>1. /\ t \in Seq(TabType) /\ Len(t) = Len(c.tabs)
      /\ \A j \in 1..Len(c.tabs) : t[j].id = c.tabs[j].id
  BY <1>0, Rewritten
<1>2. [c EXCEPT !.tabs[c.active].page = p] = d
  OBVIOUS
<1> HIDE DEF t
<1>3. /\ d \in ChromeType
      /\ d.at = c.at /\ d.tabs = t /\ d.active = c.active /\ d.next = c.next
      /\ d.loaded = c.loaded /\ d.restored = c.restored /\ d.restoring = c.restoring
      /\ d.closed = c.closed /\ d.dirty = c.dirty /\ d.explicit = c.explicit
      /\ d.changed = c.changed
  BY <1>1 DEF ChromeType
<1> HIDE DEF d
<1>4. ChromeInv(d)
  BY <1>1, <1>3 DEF Sound, ChromeInv, Fit
<1>5. ShrunkOnPurpose(d) /\ (d.changed => d.loaded)
  BY <1>1, <1>3 DEF Sound, ShrunkOnPurpose
<1>6. Known(s, d)
  BY <1>1, <1>3 DEF Sound, Known
<1> QED BY <1>2, <1>3, <1>4, <1>5, <1>6 DEF Sound

(* A save that is done, blocked or failed, and what it leaves in the store. *)
LEMMA SavesKeep ==
  ASSUME NEW s \in SavedType, saved = s, NEW c \in ChromeType, SavedInv(s),
         c.at # "down", Sound(s, c), c.changed /\ ~c.dirty => Agree(s, c), Saves(c)
  PROVE  /\ saved' \in SavedType /\ chrome' \in ChromeType
         /\ SavedInv(saved') /\ PairInv(saved', chrome')
         /\ c.restoring =>
              \A i \in 1..Len(s.tabs) :
                \/ s.tabs[i].id \in c.closed
                \/ \E j \in 1..Len(saved'.tabs) : saved'.tabs[j].id = s.tabs[i].id
<1> USE DEF Sound
<1>1. CASE ~c.loaded \/ ~c.dirty
  <2>1. saved' = s /\ chrome' = c
    BY <1>1 DEF Saves, SaveEnds
  <2>2. SavedOrDirty(s, c)
    BY <1>1 DEF SavedOrDirty
  <2> QED BY <2>1, <2>2 DEF PairInv
<1>2. CASE c.loaded /\ c.dirty
  <2>1. ~(Len(c.tabs) < c.restored /\ ~c.explicit)
    BY <1>2 DEF ShrunkOnPurpose
  <2> DEFINE s1 == [s EXCEPT !.tabs = c.tabs, !.active = c.tabs[c.active].id, !.next = c.next]
             c1 == Stored(c)
             s2 == [s EXCEPT !.faults = @ + 1]
             c2 == [c EXCEPT !.failed = TRUE]
  <2>2. \/ saved' = s1 /\ chrome' = c1
        \/ saved' = s2 /\ chrome' = c2
    BY <1>2, <2>1 DEF Saves, SaveEnds
  <2>3. CASE saved' = s1 /\ chrome' = c1
    <3>0. c.tabs \in Seq(TabType) /\ c.active \in 1..Len(c.tabs) /\ Len(c.tabs) \in Nat
      BY DEF ChromeInv, ChromeType
    <3>1. c.tabs[c.active] \in TabType
      BY <3>0
    <3>2. /\ s1 \in SavedType /\ s1.tabs = c.tabs /\ s1.next = c.next
          /\ s1.active = c.tabs[c.active].id
      BY <3>0, <3>1 DEF SavedType, ChromeType, TabType
    <3>3. /\ c1 \in ChromeType
          /\ c1.at = c.at /\ c1.tabs = c.tabs /\ c1.active = c.active /\ c1.next = c.next
          /\ c1.loaded = c.loaded /\ c1.restored = Len(c.tabs) /\ c1.changed = c.changed
      BY <3>0 DEF ChromeType, Stored, Kept
    <3> HIDE DEF s1, c1
    <3>4. SavedInv(s1)
      BY <3>0, <3>2 DEF SavedInv, ChromeInv
    <3>5. ChromeInv(c1) /\ ShrunkOnPurpose(c1)
      BY <3>0, <3>3 DEF ChromeInv, ShrunkOnPurpose
    <3>6. Agree(s1, c1)
      BY <3>0, <3>2, <3>3 DEF Agree
    <3>7. Known(s1, c1)
      BY <3>2, <3>3 DEF Known
    <3>8. PairInv(s1, c1)
      BY <1>2, <3>3, <3>5, <3>6, <3>7 DEF PairInv, SavedOrDirty
    <3>9. c.restoring =>
            \A i \in 1..Len(s.tabs) :
              \/ s.tabs[i].id \in c.closed
              \/ \E j \in 1..Len(s1.tabs) : s1.tabs[j].id = s.tabs[i].id
      BY <1>2, <3>2 DEF Known
    <3> QED BY <2>3, <3>2, <3>3, <3>4, <3>8, <3>9
  <2>4. CASE saved' = s2 /\ chrome' = c2
    <3>1. /\ s2 \in SavedType /\ s2.tabs = s.tabs /\ s2.next = s.next /\ s2.active = s.active
      BY DEF SavedType
    <3>2. /\ c2 \in ChromeType
          /\ c2.at = c.at /\ c2.tabs = c.tabs /\ c2.active = c.active /\ c2.next = c.next
          /\ c2.loaded = c.loaded /\ c2.restored = c.restored /\ c2.restoring = c.restoring
          /\ c2.closed = c.closed /\ c2.dirty = c.dirty /\ c2.explicit = c.explicit
          /\ c2.changed = c.changed /\ c2.failed = TRUE
      BY DEF ChromeType
    <3> HIDE DEF s2, c2
    <3>3. SavedInv(s2)
      BY <3>1 DEF SavedInv
    <3>4. ChromeInv(c2) /\ ShrunkOnPurpose(c2) /\ Known(s2, c2)
      BY <3>1, <3>2 DEF ChromeInv, ShrunkOnPurpose, Known
    <3>5. SavedOrDirty(s2, c2)
      BY <1>2, <3>2 DEF SavedOrDirty
    <3>6. \A i \in 1..Len(s.tabs) : \E j \in 1..Len(s2.tabs) : s2.tabs[j].id = s.tabs[i].id
      BY <3>1
    <3> QED BY <2>4, <3>1, <3>2, <3>3, <3>4, <3>5, <3>6 DEF PairInv
  <2> QED BY <2>2, <2>3, <2>4
<1> QED BY <1>1, <1>2

(* The chrome c starts with tabs, the i-th of which is on the screen.         *)
StartsWith(c, tabs, i, next) ==
  /\ c \in ChromeType
  /\ c.at = "up" /\ c.tabs = tabs /\ c.active = i /\ c.next = next
  /\ c.restored = Len(tabs) /\ c.changed = FALSE

(* A chrome that starts with the tabs of the store, or with one.            *)
LEMMA Restarts ==
  ASSUME NEW s \in SavedType, NEW tabs \in Seq(TabType), NEW i \in 1..Len(tabs),
         NEW next \in Nat, NEW c, StartsWith(c, tabs, i, next), Fit(tabs, next),
         c.loaded /\ c.restoring => tabs = s.tabs \/ s.tabs = <<>>
  PROVE  PairInv(s, c) /\ tabs[i].page \in Nat
<1>0. Len(tabs) \in Nat /\ i \in Nat /\ tabs[i] \in TabType
  OBVIOUS
<1>1. ChromeInv(c) /\ ShrunkOnPurpose(c) /\ SavedOrDirty(s, c)
  BY <1>0 DEF StartsWith, ChromeInv, ShrunkOnPurpose, SavedOrDirty
<1>2. Known(s, c)
  BY DEF StartsWith, Known
<1>3. tabs[i].page \in Nat
  BY <1>0 DEF TabType
<1> QED BY <1>1, <1>2, <1>3 DEF PairInv, StartsWith

(* The one tab of a browser that was given none.                            *)
LEMMA OneTab ==
  ASSUME Constants
  PROVE  /\ <<Tab(1, Home)>> \in Seq(TabType) /\ Fit(<<Tab(1, Home)>>, 2)
         /\ 1 \in 1..Len(<<Tab(1, Home)>>)
<1>1. Tab(1, Home) \in TabType /\ Tab(1, Home).id = 1
  BY DEF Tab, Home, TabType
<1>2. Len(<<Tab(1, Home)>>) = 1 /\ <<Tab(1, Home)>> \in Seq(TabType) /\ <<Tab(1, Home)>>[1].id = 1
  BY <1>1
<1>3. MaxTabs >= 1
  BY DEF Constants
<1>4. \A j \in 1..Len(<<Tab(1, Home)>>) : j = 1 /\ <<Tab(1, Home)>>[j].id = 1
  BY <1>2
<1>5. Fit(<<Tab(1, Home)>>, 2)
  BY <1>2, <1>3, <1>4 DEF Fit
<1> QED BY <1>2, <1>5

(* A load changes the page of the web view and nothing it remembers.        *)
LEMMA Loads ==
  ASSUME NEW w \in WebType, NEW page \in Nat
  PROVE  /\ Load(w, page) \in WebType
         /\ Load(w, page).page = page /\ Load(w, page).load = "asked"
         /\ Load(w, page).reload = w.reload /\ Load(w, page).killed = w.killed
         /\ Load(w, page).internal = w.internal /\ Load(w, page).last = w.last
         /\ Load(w, page).count = w.count
  BY DEF Load, WebType

(* The web view of a new browser.                                           *)
LEMMA WebStarts ==
  /\ NoWeb \in WebType /\ NoWeb.killed = {}
  /\ \A page \in Nat : Load(NoWeb, page) \in WebType /\ Load(NoWeb, page).killed = {}
<1>1. NoWeb \in WebType /\ NoWeb.killed = {}
  BY DEF NoWeb, WebType, Blank
<1> QED BY <1>1, Loads

(* What an action has to show: the three parts of the invariant.              *)
Keeps == SessionTypes' /\ SavedInv(saved') /\ PairInv(saved', chrome') /\ WebInv'

(* A tab of the store that the step removes was closed, or was never asked for. *)
TabsKept ==
  saved'.tabs = saved.tabs \/
  (chrome.restoring =>
     \A i \in 1..Len(saved.tabs) :
       \/ saved.tabs[i].id \in chrome.closed
       \/ \E j \in 1..Len(saved'.tabs) : saved'.tabs[j].id = saved.tabs[i].id)

(* Start.                                                                   *)
LEMMA StartKeeps ==
  ASSUME Constants, IInv, Start
  PROVE  Keeps /\ TabsKept
<1> USE DEF IInv, SessionTypes
<1>1. saved' = saved
  BY DEF Start, Starts
<1>2. PairInv(saved, chrome') /\ chrome' \in ChromeType
      /\ web' = Load(NoWeb, chrome'.tabs[chrome'.active].page)
      /\ chrome'.tabs[chrome'.active].page \in Nat
  <2>0. saved.restore \in BOOLEAN
    BY DEF SavedType
  <2>1. CASE saved.restore /\ saved.tabs # <<>>
    <3> DEFINE i == CHOOSE i \in DOMAIN saved.tabs : saved.tabs[i].id = saved.active
    <3>1. saved.tabs \in Seq(TabType) /\ saved.next \in Nat /\ Len(saved.tabs) \in Nat
      BY DEF SavedType
    <3>2. DOMAIN saved.tabs = 1..Len(saved.tabs)
      BY <3>1
    <3>3. i \in 1..Len(saved.tabs)
      BY <2>1, <3>2 DEF SavedInv
    <3>4. Fit(saved.tabs, saved.next)
      BY DEF SavedInv
    <3>5. /\ chrome' = Loaded(saved.tabs, i, saved.next, TRUE)
          /\ web' = Load(NoWeb, chrome'.tabs[chrome'.active].page)
      <4> DEFINE full == Loaded(saved.tabs, i, saved.next, TRUE)
                 blank == Loaded(<<Tab(1, Home)>>, 1, 2, TRUE)
                 first == IF saved.restore /\ saved.tabs # <<>> THEN full ELSE blank
      <4>1. Starts(first, saved)
        BY Zenon DEF Start
      <4> HIDE DEF full, blank
      <4>2. first = full
        BY <2>1
      <4>3. Starts(full, saved)
        BY <4>1, <4>2, Zenon
      <4> QED BY <4>3, Zenon DEF Starts, full
    <3> HIDE DEF i
    <3> DEFINE t == saved.tabs
               n == saved.next
    <3>6. /\ t \in Seq(TabType) /\ n \in Nat /\ Len(t) \in Nat /\ i \in Nat
          /\ chrome' = Loaded(t, i, n, TRUE)
      BY <3>1, <3>3, <3>5
    <3> HIDE DEF t, n
    <3>7. StartsWith(chrome', t, i, n)
      BY <2>0, <3>6 DEF StartsWith, Loaded, Down, ChromeType
    <3> USE DEF t, n
    <3>8. PairInv(saved, chrome') /\ saved.tabs[i].page \in Nat
      BY <3>1, <3>3, <3>4, <3>7, Restarts
    <3> QED BY <3>5, <3>7, <3>8 DEF StartsWith
  <2>2. CASE ~(saved.restore /\ saved.tabs # <<>>)
    <3> DEFINE t == <<Tab(1, Home)>>
    <3>1. /\ chrome' = Loaded(t, 1, 2, TRUE)
          /\ web' = Load(NoWeb, chrome'.tabs[chrome'.active].page)
      BY <2>2 DEF Start, Starts
    <3>2. t \in Seq(TabType) /\ Fit(t, 2) /\ 1 \in 1..Len(t) /\ Len(t) \in Nat
      BY OneTab
    <3> HIDE DEF t
    <3>3. StartsWith(chrome', t, 1, 2) /\ chrome'.restoring = saved.restore
      BY <2>0, <3>1, <3>2 DEF StartsWith, Loaded, Down, ChromeType
    <3>4. PairInv(saved, chrome') /\ t[1].page \in Nat
      BY <2>2, <3>2, <3>3, Restarts
    <3> QED BY <3>1, <3>3, <3>4 DEF StartsWith
  <2> QED BY <2>1, <2>2
<1>3. web' \in WebType /\ web'.killed = {}
  BY <1>2, WebStarts
<1> QED BY <1>1, <1>2, <1>3 DEF Keeps, TabsKept, WebInv

(* RestoreFails: the tabs that were not read are not written over.          *)
LEMMA RestoreFailsKeeps ==
  ASSUME Constants, IInv, RestoreFails
  PROVE  Keeps /\ TabsKept
<1> USE DEF IInv, SessionTypes
<1> DEFINE s == [saved EXCEPT !.faults = @ + 1]
           t == <<Tab(1, Home)>>
<1>1. /\ saved' = s /\ chrome' = Loaded(t, 1, 2, FALSE)
      /\ web' = Load(NoWeb, chrome'.tabs[chrome'.active].page)
  BY DEF RestoreFails, Starts
<1>2. s \in SavedType /\ s.tabs = saved.tabs /\ s.next = saved.next /\ s.active = saved.active
  BY DEF SavedType
<1>3. saved.restore \in BOOLEAN
  BY DEF SavedType
<1>4. t \in Seq(TabType) /\ Fit(t, 2) /\ 1 \in 1..Len(t) /\ Len(t) \in Nat
  BY OneTab
<1> HIDE DEF s, t
<1>5. StartsWith(chrome', t, 1, 2) /\ chrome'.loaded = FALSE
  BY <1>1, <1>3, <1>4 DEF StartsWith, Loaded, Down, ChromeType
<1>6. PairInv(s, chrome') /\ t[1].page \in Nat
  BY <1>2, <1>4, <1>5, Restarts
<1>7. web' \in WebType /\ web'.killed = {}
  BY <1>1, <1>5, <1>6, WebStarts DEF StartsWith
<1>8. SavedInv(s)
  BY <1>2 DEF SavedInv
<1> QED BY <1>1, <1>2, <1>5, <1>6, <1>7, <1>8 DEF Keeps, TabsKept, WebInv, StartsWith

(* Leave saves what the chrome shows.                                       *)
LEMMA LeaveKeeps ==
  ASSUME Constants, IInv, Leave
  PROVE  Keeps /\ TabsKept
<1> USE DEF IInv, SessionTypes
<1> DEFINE c == [chrome EXCEPT !.at = "left", !.timer = FALSE]
<1>1. Saves(c) /\ chrome.at = "up" /\ web' = NoWeb
  BY DEF Leave, Up
<1>2. /\ c \in ChromeType
      /\ c.at = "left" /\ c.tabs = chrome.tabs /\ c.active = chrome.active /\ c.next = chrome.next
      /\ c.loaded = chrome.loaded /\ c.restored = chrome.restored
      /\ c.restoring = chrome.restoring /\ c.closed = chrome.closed /\ c.dirty = chrome.dirty
      /\ c.explicit = chrome.explicit /\ c.changed = chrome.changed
  BY DEF ChromeType
<1> HIDE DEF c
<1>3. Sound(saved, c)
  BY <1>1, <1>2
     DEF PairInv, Sound, ChromeInv, ShrunkOnPurpose, Known, SavedOrDirty
<1>4. c.changed /\ ~c.dirty => Agree(saved, c)
  BY <1>2 DEF PairInv, SavedOrDirty, Agree
<1>5. /\ saved' \in SavedType /\ chrome' \in ChromeType
      /\ SavedInv(saved') /\ PairInv(saved', chrome')
      /\ c.restoring =>
           \A i \in 1..Len(saved.tabs) :
             \/ saved.tabs[i].id \in c.closed
             \/ \E j \in 1..Len(saved'.tabs) : saved'.tabs[j].id = saved.tabs[i].id
  BY <1>1, <1>2, <1>3, <1>4, SavesKeep
<1> QED BY <1>1, <1>2, <1>5, WebStarts DEF Keeps, TabsKept, WebInv

(* SaveTimer saves it before.                                               *)
LEMMA SaveTimerKeeps ==
  ASSUME Constants, IInv, SaveTimer
  PROVE  Keeps /\ TabsKept
<1> USE DEF IInv, SessionTypes
<1> DEFINE c == [chrome EXCEPT !.timer = FALSE]
<1>1. Saves(c) /\ chrome.at = "up" /\ web' = web
  BY DEF SaveTimer, Up
<1>2. /\ c \in ChromeType
      /\ c.at = "up" /\ c.tabs = chrome.tabs /\ c.active = chrome.active /\ c.next = chrome.next
      /\ c.loaded = chrome.loaded /\ c.restored = chrome.restored
      /\ c.restoring = chrome.restoring /\ c.closed = chrome.closed /\ c.dirty = chrome.dirty
      /\ c.explicit = chrome.explicit /\ c.changed = chrome.changed
  BY <1>1 DEF ChromeType
<1> HIDE DEF c
<1>3. Sound(saved, c)
  BY <1>1, <1>2
     DEF PairInv, Sound, ChromeInv, ShrunkOnPurpose, Known, SavedOrDirty
<1>4. c.changed /\ ~c.dirty => Agree(saved, c)
  BY <1>2 DEF PairInv, SavedOrDirty, Agree
<1>5. /\ saved' \in SavedType /\ chrome' \in ChromeType
      /\ SavedInv(saved') /\ PairInv(saved', chrome')
      /\ c.restoring =>
           \A i \in 1..Len(saved.tabs) :
             \/ saved.tabs[i].id \in c.closed
             \/ \E j \in 1..Len(saved'.tabs) : saved'.tabs[j].id = saved.tabs[i].id
  BY <1>1, <1>2, <1>3, <1>4, SavesKeep
<1> QED BY <1>1, <1>2, <1>5 DEF Keeps, TabsKept, WebInv

(* Die.                                                                     *)
LEMMA DieKeeps ==
  ASSUME Constants, IInv, Die
  PROVE  Keeps /\ TabsKept
<1> USE DEF IInv, SessionTypes
<1>1. saved' = saved /\ chrome' = Down /\ web' = NoWeb
  BY DEF Die
<1>2. Down \in ChromeType
  BY DEF Down, ChromeType
<1>3. ChromeInv(Down)
  BY DEF Down, ChromeInv, Fit, Constants
<1>4. PairInv(saved, Down)
  BY <1>3 DEF Down, PairInv, ShrunkOnPurpose, SavedOrDirty
<1> QED BY <1>1, <1>2, <1>4, WebStarts DEF Keeps, TabsKept, WebInv

(* A chrome that is up is sound with its store.                             *)
LEMMA PairSound ==
  ASSUME NEW s, NEW c, PairInv(s, c), c.at = "up"
  PROVE  Sound(s, c)
  BY DEF PairInv, Sound, SavedOrDirty

(* LoadUrl, on a chrome that was changed and is not scheduled yet.          *)
LEMMA LoadUrlKeeps ==
  ASSUME IInv, NEW c \in ChromeType, NEW p \in Nat, c.at = "up", Sound(saved, c), LoadUrl(c, p)
  PROVE  Keeps /\ TabsKept
<1> USE DEF IInv, SessionTypes
<1> DEFINE d == [c EXCEPT !.tabs[c.active].page = p]
           w == [web EXCEPT !.killed = {}]
<1>1. chrome' = Scheduled(d, FALSE) /\ web' = Load(w, p) /\ saved' = saved
  BY DEF LoadUrl
<1>2. d \in ChromeType /\ d.at = "up" /\ Sound(saved, d)
  BY OpensUrl
<1>3. w \in WebType /\ w.killed = {}
  BY DEF WebType
<1> HIDE DEF d, w
<1>4. chrome' \in ChromeType /\ PairInv(saved, chrome')
  BY <1>1, <1>2, Schedules
<1>5. web' \in WebType /\ web'.killed = {}
  BY <1>1, <1>3, Loads
<1> QED BY <1>1, <1>4, <1>5 DEF Keeps, TabsKept, WebInv

(* Opens.                                                                   *)
LEMMA OpensKeeps ==
  ASSUME Constants, IInv, NEW page \in Pages, Opens(page)
  PROVE  Keeps /\ TabsKept
<1>1. page \in Nat /\ chrome.at = "up" /\ LoadUrl(chrome, page) /\ chrome \in ChromeType
  BY DEF Constants, Opens, Up, IInv, SessionTypes
<1>2. Sound(saved, chrome)
  BY <1>1, PairSound DEF IInv
<1> QED BY <1>1, <1>2, LoadUrlKeeps

(* NewTab: its number is a new one.                                         *)
LEMMA NewTabKeeps ==
  ASSUME Constants, IInv, NewTab
  PROVE  Keeps /\ TabsKept
<1> USE DEF IInv, SessionTypes
<1> DEFINE new == Tab(chrome.next, Home)
           t == Append(chrome.tabs, new)
           c == [chrome EXCEPT !.tabs = t, !.next = @ + 1,
                               !.active = Len(chrome.tabs) + 1]
<1>1. chrome.at = "up" /\ LoadUrl(c, Home) /\ Len(chrome.tabs) < MaxTabs
  BY DEF NewTab, Up
<1>2. chrome.tabs \in Seq(TabType) /\ Len(chrome.tabs) \in Nat /\ chrome.next \in Nat
  BY DEF ChromeType
<1>3. new \in TabType /\ new.id = chrome.next
  BY <1>2 DEF Tab, Home, TabType
<1> HIDE DEF new
<1>4. /\ t \in Seq(TabType) /\ Len(t) = Len(chrome.tabs) + 1
      /\ \A i \in 1..Len(chrome.tabs) : t[i] = chrome.tabs[i]
      /\ t[Len(chrome.tabs) + 1] = new
  BY <1>2, <1>3
<1>5. /\ c \in ChromeType
      /\ c.at = "up" /\ c.tabs = t /\ c.active = Len(chrome.tabs) + 1 /\ c.next = chrome.next + 1
      /\ c.loaded = chrome.loaded /\ c.restored = chrome.restored
      /\ c.restoring = chrome.restoring /\ c.closed = chrome.closed /\ c.dirty = chrome.dirty
      /\ c.explicit = chrome.explicit /\ c.changed = chrome.changed
  <2> DEFINE n == chrome.next + 1
             a == Len(chrome.tabs) + 1
             k == [chrome EXCEPT !.tabs = t, !.next = n, !.active = a]
  <2>1. c = k
    OBVIOUS
  <2>2. n \in Nat /\ a \in Nat /\ t \in Seq(TabType)
    BY <1>2, <1>4
  <2> HIDE DEF t, n, a, c
  <2>3. /\ k \in ChromeType
        /\ k.at = chrome.at /\ k.tabs = t /\ k.active = a /\ k.next = n
        /\ k.loaded = chrome.loaded /\ k.restored = chrome.restored
        /\ k.restoring = chrome.restoring /\ k.closed = chrome.closed /\ k.dirty = chrome.dirty
        /\ k.explicit = chrome.explicit /\ k.changed = chrome.changed
    BY <2>2 DEF ChromeType
  <2> HIDE DEF k
  <2> QED BY <1>1, <2>1, <2>3 DEF n, a
<1> HIDE DEF c, t
<1>6. Sound(saved, chrome)
  BY <1>1, PairSound
<1>7. ChromeInv(c)
  <2>1. Fit(chrome.tabs, chrome.next) /\ MaxTabs \in Nat
    BY <1>6 DEF Sound, ChromeInv, Constants
  <2>2. Len(t) <= MaxTabs
    BY <1>1, <1>2, <1>4, <2>1
  <2>3. \A i \in 1..Len(t) : i \in 1..Len(chrome.tabs) \/ i = Len(chrome.tabs) + 1
    BY <1>2, <1>4
  <2>4. \A i \in 1..Len(chrome.tabs) : t[i].id = chrome.tabs[i].id /\ t[i].id < chrome.next
    BY <1>4, <2>1 DEF Fit
  <2>5. \A i \in 1..Len(chrome.tabs) : chrome.tabs[i].id \in Nat
    <3>1. \A i \in 1..Len(chrome.tabs) : chrome.tabs[i] \in TabType
      BY <1>2
    <3> QED BY <3>1 DEF TabType
  <2>6. \A i \in 1..Len(t) : t[i].id < chrome.next + 1
    BY <1>2, <1>3, <1>4, <2>3, <2>4, <2>5
  <2>7. \A i, j \in 1..Len(t) : t[i].id = t[j].id => i = j
    BY <1>2, <1>3, <1>4, <2>1, <2>3, <2>4, <2>5 DEF Fit
  <2> QED BY <1>2, <1>4, <1>5, <2>2, <2>6, <2>7 DEF ChromeInv, Fit
<1>8. ShrunkOnPurpose(c) /\ (c.changed => c.loaded)
  <2>1. c.restored \in Nat
    BY <1>5 DEF ChromeType
  <2> QED BY <1>2, <1>4, <1>5, <1>6, <2>1 DEF Sound, ShrunkOnPurpose
<1>9. Known(saved, c)
  <2>1. SUFFICES ASSUME c.loaded, c.restoring, NEW i \in 1..Len(saved.tabs),
                        saved.tabs[i].id \notin c.closed
                 PROVE  \E j \in 1..Len(c.tabs) : c.tabs[j].id = saved.tabs[i].id
    BY DEF Known
  <2>2. PICK j \in 1..Len(chrome.tabs) : chrome.tabs[j].id = saved.tabs[i].id
    BY <1>5, <1>6, <2>1 DEF Sound, Known
  <2>3. j \in 1..Len(t) /\ t[j] = chrome.tabs[j]
    BY <1>2, <1>4
  <2> QED BY <1>5, <2>2, <2>3
<1>10. Sound(saved, c) /\ Home \in Nat
  BY <1>7, <1>8, <1>9 DEF Sound, Home
<1> QED BY <1>1, <1>5, <1>10, LoadUrlKeeps

(* SwitchTab.                                                               *)
LEMMA SwitchTabKeeps ==
  ASSUME Constants, IInv, NEW i \in 1..MaxTabs, SwitchTab(i)
  PROVE  Keeps /\ TabsKept
<1> USE DEF IInv, SessionTypes
<1> DEFINE c == [chrome EXCEPT !.active = i]
<1>1. /\ chrome.at = "up" /\ LoadUrl(c, chrome.tabs[i].page) /\ chrome.tabs \in Seq(TabType)
      /\ i \in DOMAIN chrome.tabs
  BY DEF SwitchTab, Up, ChromeType
<1>2. i \in 1..Len(chrome.tabs) /\ i \in Nat /\ chrome.tabs[i] \in TabType
  BY <1>1
<1>3. /\ c \in ChromeType
      /\ c.at = "up" /\ c.tabs = chrome.tabs /\ c.active = i /\ c.next = chrome.next
      /\ c.loaded = chrome.loaded /\ c.restored = chrome.restored
      /\ c.restoring = chrome.restoring /\ c.closed = chrome.closed /\ c.dirty = chrome.dirty
      /\ c.explicit = chrome.explicit /\ c.changed = chrome.changed
  BY <1>1, <1>2 DEF ChromeType
<1> HIDE DEF c
<1>4. Sound(saved, chrome)
  BY <1>1, PairSound
<1>5. Sound(saved, c)
  BY <1>2, <1>3, <1>4 DEF Sound, ChromeInv, ShrunkOnPurpose, Known
<1>6. chrome.tabs[i].page \in Nat
  BY <1>2 DEF TabType
<1> QED BY <1>1, <1>3, <1>5, <1>6, LoadUrlKeeps

(* A sequence without its i-th element.                                        *)
LEMMA Removed ==
  ASSUME NEW tabs \in Seq(TabType), NEW i \in 1..Len(tabs)
  PROVE  LET rest == [j \in 1..(Len(tabs) - 1) |-> tabs[IF j < i THEN j ELSE j + 1]]
         IN  /\ rest \in Seq(TabType) /\ Len(rest) = Len(tabs) - 1
             /\ \A j \in 1..Len(tabs) : j < i => rest[j] = tabs[j]
             /\ \A j \in 1..Len(tabs) : j > i => rest[j - 1] = tabs[j]
             /\ \A j \in 1..(Len(tabs) - 1) :
                  (rest[j] = tabs[j] /\ j < i) \/ (rest[j] = tabs[j + 1] /\ j >= i)
<1> DEFINE n == Len(tabs)
           rest == [j \in 1..(n - 1) |-> tabs[IF j < i THEN j ELSE j + 1]]
<1>1. n \in Nat /\ i \in 1..n /\ \A j \in 1..n : tabs[j] \in TabType
  OBVIOUS
<1>2. n - 1 \in Nat
  BY <1>1
<1> HIDE DEF n
<1>3. \A j \in 1..(n - 1) : (IF j < i THEN j ELSE j + 1) \in 1..n
  BY <1>1
<1>4. rest \in [1..(n - 1) -> TabType]
  BY <1>1, <1>3
<1>5. rest \in Seq(TabType) /\ Len(rest) = n - 1
  BY <1>2, <1>4
<1>6. \A j \in 1..(n - 1) :
        (rest[j] = tabs[j] /\ j < i) \/ (rest[j] = tabs[j + 1] /\ j >= i)
  <2>1. SUFFICES ASSUME NEW j \in 1..(n - 1)
                 PROVE  (rest[j] = tabs[j] /\ j < i) \/ (rest[j] = tabs[j + 1] /\ j >= i)
    OBVIOUS
  <2>2. rest[j] = tabs[IF j < i THEN j ELSE j + 1]
    OBVIOUS
  <2> HIDE DEF rest
  <2>3. j < i \/ j >= i
    BY <1>1
  <2>4. CASE j < i
    BY <2>2, <2>4
  <2>5. CASE j >= i
    <3>1. ~(j < i)
      BY <1>1, <2>5
    <3> QED BY <2>2, <2>5, <3>1
  <2> QED BY <2>3, <2>4, <2>5
<1>7. \A j \in 1..n : j < i => j \in 1..(n - 1)
  BY <1>1
<1>8. \A j \in 1..n : j > i => j - 1 \in 1..(n - 1) /\ ~(j - 1 < i) /\ (j - 1) + 1 = j
  BY <1>1
<1> QED BY <1>5, <1>6, <1>7, <1>8 DEF n

(* The chrome d with other tabs.                                               *)
Retabbed(c, d, t, a, n) ==
  /\ c \in ChromeType
  /\ c.at = d.at /\ c.tabs = t /\ c.active = a /\ c.next = n
  /\ c.loaded = d.loaded /\ c.restored = d.restored /\ c.restoring = d.restoring
  /\ c.closed = d.closed /\ c.dirty = d.dirty /\ c.explicit = d.explicit
  /\ c.changed = d.changed /\ c.failed = d.failed

(* t has the tabs but for the i-th.                                            *)
Covers(t, tabs, i) ==
  \A j \in 1..Len(tabs) : j # i => \E k \in 1..Len(t) : t[k].id = tabs[j].id

LEMMA Closes ==
  ASSUME IInv, chrome.at = "up", NEW i \in 1..Len(chrome.tabs),
         NEW t \in Seq(TabType), NEW a \in 1..Len(t), NEW n \in Nat, NEW c,
         Fit(t, n), Covers(t, chrome.tabs, i), Retabbed(c, Closed(chrome, i), t, a, n)
  PROVE  Sound(saved, c) /\ PairInv(saved, c) /\ c.at = "up"
<1> USE DEF IInv, SessionTypes
<1> DEFINE e == Scheduled(chrome, TRUE)
           d == Closed(chrome, i)
<1>1. Sound(saved, chrome)
  BY PairSound
<1>2. /\ e \in ChromeType
      /\ e.at = "up" /\ e.loaded = chrome.loaded /\ e.restored = chrome.restored
      /\ e.restoring = chrome.restoring /\ e.closed = chrome.closed
      /\ e.changed => e.loaded
      /\ e.loaded => e.dirty /\ e.explicit
  <2>1. CASE ~chrome.loaded
    BY <1>1, <2>1 DEF Scheduled, Sound
  <2>2. CASE chrome.loaded
    BY <2>2 DEF Scheduled, ChromeType
  <2> QED BY <2>1, <2>2
<1> HIDE DEF e
<1>3. d = [e EXCEPT !.closed = @ \cup ({chrome.tabs[i].id} \cap Ids(saved.tabs))]
  BY DEF Closed, e
<1>4. /\ d.at = "up" /\ d.loaded = chrome.loaded /\ d.restored = chrome.restored
      /\ d.restoring = chrome.restoring
      /\ d.closed = chrome.closed \cup ({chrome.tabs[i].id} \cap Ids(saved.tabs))
      /\ d.changed => d.loaded
      /\ d.loaded => d.dirty /\ d.explicit
  BY <1>2, <1>3 DEF ChromeType
<1>41. Retabbed(c, d, t, a, n)
  OBVIOUS
<1> HIDE DEF d
<1>42. /\ c \in ChromeType
       /\ c.at = "up" /\ c.tabs = t /\ c.active = a /\ c.next = n
       /\ c.loaded = chrome.loaded /\ c.restored = chrome.restored
       /\ c.restoring = chrome.restoring
       /\ c.closed = chrome.closed \cup ({chrome.tabs[i].id} \cap Ids(saved.tabs))
       /\ c.changed => c.loaded
       /\ c.loaded => c.dirty /\ c.explicit
  BY <1>4, <1>41 DEF Retabbed
<1>5. ChromeInv(c)
  BY <1>42 DEF ChromeInv
<1>6. ShrunkOnPurpose(c) /\ (c.changed => c.loaded)
  BY <1>42 DEF ShrunkOnPurpose
<1>7. Known(saved, c)
  <2>1. SUFFICES ASSUME c.loaded, c.restoring, NEW m \in 1..Len(saved.tabs),
                        saved.tabs[m].id \notin c.closed
                 PROVE  \E j \in 1..Len(c.tabs) : c.tabs[j].id = saved.tabs[m].id
    BY DEF Known
  <2>2. saved.tabs[m].id \in Ids(saved.tabs)
    <3>1. saved.tabs \in Seq(TabType)
      BY DEF SavedType
    <3> QED BY <3>1 DEF Ids
  <2>3. saved.tabs[m].id \notin chrome.closed /\ saved.tabs[m].id # chrome.tabs[i].id
    BY <1>42, <2>1, <2>2
  <2>4. PICK j \in 1..Len(chrome.tabs) : chrome.tabs[j].id = saved.tabs[m].id
    BY <1>1, <1>42, <2>1, <2>3 DEF Sound, Known
  <2>5. j # i
    BY <2>3, <2>4
  <2>6. PICK k \in 1..Len(t) : t[k].id = chrome.tabs[j].id
    BY <2>5 DEF Covers
  <2> QED BY <1>42, <2>4, <2>6
<1>8. SavedOrDirty(saved, c)
  BY <1>42, <1>6 DEF SavedOrDirty
<1> QED BY <1>42, <1>5, <1>6, <1>7, <1>8 DEF Sound, PairInv

(* The chrome that will close a tab, before it does.                        *)
LEMMA ClosedIs ==
  ASSUME IInv, NEW i \in 1..Len(chrome.tabs)
  PROVE  /\ Closed(chrome, i) \in ChromeType
         /\ Closed(chrome, i).at = chrome.at /\ Closed(chrome, i).tabs = chrome.tabs
         /\ Closed(chrome, i).active = chrome.active /\ Closed(chrome, i).next = chrome.next
<1> USE DEF IInv, SessionTypes
<1> DEFINE e == Scheduled(chrome, TRUE)
           gone == {chrome.tabs[i].id} \cap Ids(saved.tabs)
<1>1. /\ e \in ChromeType
      /\ e.at = chrome.at /\ e.tabs = chrome.tabs /\ e.active = chrome.active
      /\ e.next = chrome.next
  BY DEF Scheduled, ChromeType
<1>2. gone \in SUBSET Nat
  <2>1. chrome.tabs \in Seq(TabType)
    BY DEF ChromeType
  <2>2. chrome.tabs[i] \in TabType
    BY <2>1
  <2> QED BY <2>2 DEF TabType
<1>3. Closed(chrome, i) = [e EXCEPT !.closed = @ \cup gone]
  BY DEF Closed
<1> HIDE DEF e, gone
<1> QED BY <1>1, <1>2, <1>3 DEF ChromeType

(* CloseTab, of the last tab and of one of several.                         *)
LEMMA CloseTabKeeps ==
  ASSUME Constants, IInv, NEW i \in 1..MaxTabs, CloseTab(i)
  PROVE  Keeps /\ TabsKept
<1> USE DEF IInv, SessionTypes
<1> DEFINE tabs == chrome.tabs
           rest == [j \in 1..(Len(tabs) - 1) |-> tabs[IF j < i THEN j ELSE j + 1]]
           d == Closed(chrome, i)
           one == [d EXCEPT !.tabs = <<Tab(chrome.next, Home)>>, !.next = @ + 1]
           place(k) == IF i < k THEN k - 1 ELSE IF k > Len(rest) THEN Len(rest) ELSE k
           many == [d EXCEPT !.tabs = rest, !.active = place(d.active)]
           c == IF rest = <<>> THEN one ELSE many
<1>1. chrome.at = "up" /\ tabs \in Seq(TabType) /\ i \in DOMAIN tabs
  BY DEF CloseTab, Up, ChromeType
<1>2. i \in 1..Len(tabs) /\ Len(tabs) \in Nat
  BY <1>1
<1>3. \/ i = chrome.active /\ LoadUrl(c, c.tabs[c.active].page)
      \/ chrome' = c /\ saved' = saved /\ web' = web
  BY DEF CloseTab
<1>4. /\ rest \in Seq(TabType) /\ Len(rest) = Len(tabs) - 1
      /\ \A j \in 1..Len(tabs) : j < i => rest[j] = tabs[j]
      /\ \A j \in 1..Len(tabs) : j > i => rest[j - 1] = tabs[j]
      /\ \A j \in 1..(Len(tabs) - 1) :
           (rest[j] = tabs[j] /\ j < i) \/ (rest[j] = tabs[j + 1] /\ j >= i)
  BY <1>1, <1>2, Removed
<1>5. /\ d \in ChromeType /\ d.at = "up" /\ d.tabs = tabs /\ d.active = chrome.active
      /\ d.next = chrome.next /\ d.next \in Nat
  BY <1>1, <1>2, ClosedIs DEF ChromeType
<1>6. Fit(tabs, chrome.next) /\ chrome.active \in 1..Len(tabs) /\ MaxTabs \in Nat /\ 1 <= MaxTabs
  BY <1>1 DEF PairInv, ChromeInv, Constants
<1>7. c \in ChromeType /\ Sound(saved, c) /\ PairInv(saved, c) /\ c.at = "up"
  <2>1. CASE rest = <<>>
    <3> DEFINE n == chrome.next + 1
               t == <<Tab(chrome.next, Home)>>
    <3>1. Tab(chrome.next, Home) \in TabType /\ Tab(chrome.next, Home).id = chrome.next
      BY <1>5 DEF Tab, Home, TabType
    <3>2. t \in Seq(TabType) /\ Len(t) = 1 /\ t[1] = Tab(chrome.next, Home)
      BY <3>1
    <3>3. \A j \in 1..Len(t) : j = 1 /\ t[j].id = chrome.next
      BY <3>1, <3>2
    <3>4. Fit(t, n) /\ n \in Nat
      BY <1>5, <1>6, <3>2, <3>3 DEF Fit
    <3>5. Len(tabs) = 1 /\ i = 1 /\ chrome.active = 1
      <4> HIDE DEF rest, tabs
      <4>1. Len(rest) = 0
        BY <2>1
      <4>2. Len(tabs) \in Nat /\ Len(rest) = Len(tabs) - 1
        BY <1>2, <1>4
      <4>3. Len(tabs) = 1
        BY <4>1, <4>2
      <4>4. i \in 1..Len(tabs) /\ chrome.active \in 1..Len(tabs)
        BY <1>2, <1>6
      <4> QED BY <4>3, <4>4
    <3>6. Covers(t, tabs, i)
      BY <3>5 DEF Covers
    <3>7. c = [d EXCEPT !.tabs = t, !.next = n]
      BY <1>5, <2>1
    <3> HIDE DEF t, n, c, rest, one, many, tabs
    <3>8. Retabbed(c, d, t, 1, n)
      BY <1>5, <3>2, <3>4, <3>5, <3>7 DEF ChromeType, Retabbed
    <3>9. 1 \in 1..Len(t)
      BY <3>2
    <3> HIDE DEF d
    <3>10. Sound(saved, c) /\ PairInv(saved, c) /\ c.at = "up"
      <4>1. Retabbed(c, Closed(chrome, i), t, 1, n) /\ Covers(t, chrome.tabs, i)
        BY <3>6, <3>8 DEF d, tabs
      <4> QED BY <1>1, <1>2, <3>2, <3>4, <3>9, <4>1, Closes DEF tabs
    <3> QED BY <3>8, <3>10 DEF Retabbed
  <2>2. CASE rest # <<>>
    <3> DEFINE n == chrome.next
               a == place(chrome.active)
    <3>0. Len(rest) \in Nat /\ Len(rest) >= 1
      BY <1>4, <2>2
    <3>1. a \in 1..Len(rest)
      <4> HIDE DEF rest
      <4> QED BY <1>2, <1>4, <1>6, <3>0
    <3>2. Fit(rest, n) /\ n \in Nat
      <4> HIDE DEF rest, tabs
      <4>1. \A j \in 1..Len(rest) :
              \E k \in 1..Len(tabs) : /\ rest[j] = tabs[k]
                                      /\ (k = j /\ j < i) \/ (k = j + 1 /\ j >= i)
        <5>1. SUFFICES ASSUME NEW j \in 1..Len(rest)
                       PROVE  \E k \in 1..Len(tabs) :
                                /\ rest[j] = tabs[k]
                                /\ (k = j /\ j < i) \/ (k = j + 1 /\ j >= i)
          OBVIOUS
        <5>2. j \in 1..Len(tabs) /\ j + 1 \in 1..Len(tabs) /\ j \in 1..(Len(tabs) - 1)
          BY <1>2, <1>4
        <5>3. (rest[j] = tabs[j] /\ j < i) \/ (rest[j] = tabs[j + 1] /\ j >= i)
          BY <1>4, <5>2
        <5> QED BY <5>2, <5>3
      <4>2. \A j \in 1..Len(rest) : rest[j].id < n
        BY <1>6, <4>1 DEF Fit
      <4>3. \A j, k \in 1..Len(rest) : rest[j].id = rest[k].id => j = k
        <5>1. SUFFICES ASSUME NEW j \in 1..Len(rest), NEW k \in 1..Len(rest),
                              rest[j].id = rest[k].id
                       PROVE  j = k
          OBVIOUS
        <5>2. PICK x \in 1..Len(tabs) : /\ rest[j] = tabs[x]
                                        /\ (x = j /\ j < i) \/ (x = j + 1 /\ j >= i)
          BY <4>1
        <5>3. PICK y \in 1..Len(tabs) : /\ rest[k] = tabs[y]
                                        /\ (y = k /\ k < i) \/ (y = k + 1 /\ k >= i)
          BY <4>1
        <5>4. x = y
          BY <1>6, <5>1, <5>2, <5>3 DEF Fit
        <5> QED BY <1>2, <3>0, <5>2, <5>3, <5>4
      <4>4. Len(rest) <= MaxTabs
        BY <1>2, <1>4, <1>6 DEF Fit
      <4> QED BY <1>5, <4>2, <4>3, <4>4 DEF Fit
    <3>3. Covers(rest, tabs, i)
      <4> HIDE DEF rest, tabs
      <4>1. SUFFICES ASSUME NEW j \in 1..Len(tabs), j # i
                     PROVE  \E k \in 1..Len(rest) : rest[k] = tabs[j]
        BY DEF Covers
      <4>2. CASE j < i
        <5>1. j \in 1..Len(rest)
          BY <1>2, <1>4, <4>2
        <5> QED BY <1>4, <4>2, <5>1
      <4>3. CASE j > i
        <5>1. j - 1 \in 1..Len(rest)
          BY <1>2, <1>4, <4>3
        <5> QED BY <1>4, <4>3, <5>1
      <4> QED BY <1>2, <4>1, <4>2, <4>3
    <3>4. c = [d EXCEPT !.tabs = rest, !.active = a]
      BY <1>5, <2>2
    <3> HIDE DEF n, a, c, rest, one, many, tabs
    <3> HIDE DEF d
    <3>5. Retabbed(c, d, rest, a, n)
      <4>1. a \in Nat /\ rest \in Seq(TabType) /\ d \in ChromeType
        BY <1>4, <1>5, <3>0, <3>1
      <4>2. [d EXCEPT !.tabs = rest, !.active = a] \in ChromeType
        BY <4>1 DEF ChromeType
      <4>3. d.next = n
        BY <1>5 DEF n
      <4> QED BY <3>4, <4>1, <4>2, <4>3 DEF ChromeType, Retabbed
    <3>7. Sound(saved, c) /\ PairInv(saved, c) /\ c.at = "up"
      <4>1. Retabbed(c, Closed(chrome, i), rest, a, n) /\ Covers(rest, chrome.tabs, i)
        BY <3>3, <3>5 DEF d, tabs
      <4> QED BY <1>1, <1>2, <1>4, <3>1, <3>2, <4>1, Closes DEF tabs
    <3> QED BY <3>5, <3>7 DEF Retabbed
  <2> QED BY <2>1, <2>2
<1> HIDE DEF c
<1>8. CASE LoadUrl(c, c.tabs[c.active].page)
  <2>1. c.tabs \in Seq(TabType) /\ c.active \in 1..Len(c.tabs)
    BY <1>7 DEF Sound, ChromeInv, ChromeType
  <2>2. c.tabs[c.active] \in TabType
    BY <2>1
  <2>3. c.tabs[c.active].page \in Nat
    BY <2>2 DEF TabType
  <2> QED BY <1>7, <1>8, <2>3, LoadUrlKeeps
<1>9. CASE chrome' = c /\ saved' = saved /\ web' = web
  BY <1>7, <1>9 DEF Keeps, TabsKept, WebInv
<1> QED BY <1>3, <1>8, <1>9

(* ToggleRestore.                                                           *)
LEMMA ToggleRestoreKeeps ==
  ASSUME Constants, IInv, ToggleRestore
  PROVE  Keeps /\ TabsKept
<1> USE DEF IInv, SessionTypes
<1> DEFINE s == [saved EXCEPT !.restore = ~@]
<1>1. saved' = s /\ chrome' = chrome /\ web' = web
  BY DEF ToggleRestore
<1>2. s \in SavedType /\ s.tabs = saved.tabs /\ s.next = saved.next /\ s.active = saved.active
  BY DEF SavedType
<1> HIDE DEF s
<1>3. SavedInv(s)
  BY <1>2 DEF SavedInv
<1>4. PairInv(s, chrome)
  BY <1>2 DEF PairInv, SavedOrDirty, Agree, Known
<1> QED BY <1>1, <1>2, <1>3, <1>4 DEF Keeps, TabsKept, WebInv

(* A change that is to be saved, while the web view does something.            *)
(* A change to be saved, while the web view does something.                 *)
LEMMA ScheduledKeeps ==
  ASSUME IInv, chrome.at = "up", NEW c, c = Scheduled(chrome, FALSE)
  PROVE  c \in ChromeType /\ PairInv(saved, c)
<1>1. Sound(saved, chrome)
  BY PairSound DEF IInv
<1>2. Scheduled(chrome, FALSE) \in ChromeType /\ PairInv(saved, Scheduled(chrome, FALSE))
  BY <1>1, Schedules DEF IInv, SessionTypes
<1> QED BY <1>2

(* LoadStarted: the tab on the screen may differ from the store unsaved.    *)
LEMMA LoadStartedKeeps ==
  ASSUME Constants, IInv, LoadStarted
  PROVE  Keeps /\ TabsKept
<1> USE DEF IInv, SessionTypes
<1>1. chrome.at = "up" /\ saved' = saved
  BY DEF LoadStarted, Up
<1>2. web' \in WebType /\ web'.page = web.page /\ web'.reload = web.reload
      /\ web'.killed = web.killed
  BY DEF LoadStarted, WebType
<1>3. WebInv'
  BY <1>2 DEF WebInv
<1>4. chrome' \in ChromeType /\ PairInv(saved, chrome')
  <2>1. CASE web.page = Blank
    BY <2>1 DEF LoadStarted
  <2>2. CASE web.page # Blank
    <3> DEFINE p == web.page
               t == [chrome.tabs EXCEPT ![chrome.active].page = p]
               d == [chrome EXCEPT !.tabs = t]
    <3>1. chrome' = d
      BY <2>2 DEF LoadStarted
    <3>2. /\ p \in Nat /\ chrome.tabs \in Seq(TabType)
          /\ chrome.active \in 1..Len(chrome.tabs)
      BY <1>1 DEF WebType, ChromeType, PairInv, ChromeInv
    <3> HIDE DEF p
    <3>3. /\ t \in Seq(TabType) /\ Len(t) = Len(chrome.tabs)
          /\ \A j \in 1..Len(chrome.tabs) : t[j].id = chrome.tabs[j].id
          /\ \A j \in 1..Len(chrome.tabs) : j # chrome.active => t[j] = chrome.tabs[j]
      BY <3>2, Rewritten
    <3> HIDE DEF t
    <3>4. /\ d \in ChromeType
          /\ d.at = chrome.at /\ d.tabs = t /\ d.active = chrome.active /\ d.next = chrome.next
          /\ d.loaded = chrome.loaded /\ d.restored = chrome.restored
          /\ d.restoring = chrome.restoring
          /\ d.closed = chrome.closed /\ d.dirty = chrome.dirty /\ d.explicit = chrome.explicit
          /\ d.changed = chrome.changed
      BY <3>3 DEF ChromeType
    <3> HIDE DEF d
    <3>5. ChromeInv(d) /\ ShrunkOnPurpose(d)
      BY <3>3, <3>4 DEF PairInv, ChromeInv, Fit, ShrunkOnPurpose
    <3>6. Known(saved, d)
      BY <1>1, <3>3, <3>4 DEF PairInv, Known
    <3>7. Agree(saved, chrome) => Agree(saved, d)
      BY <3>2, <3>3, <3>4 DEF Agree
    <3>8. SavedOrDirty(saved, d)
      BY <1>1, <3>4, <3>7 DEF PairInv, SavedOrDirty
    <3> QED BY <3>1, <3>4, <3>5, <3>6, <3>8 DEF PairInv
  <2> QED BY <2>1, <2>2
<1> QED BY <1>1, <1>2, <1>3, <1>4 DEF Keeps, TabsKept

(* LoadSettles.                                                             *)
LEMMA LoadSettlesKeeps ==
  ASSUME Constants, IInv, LoadSettles
  PROVE  Keeps /\ TabsKept
<1> USE DEF IInv, SessionTypes
<1>1. chrome.at = "up" /\ saved' = saved
  BY DEF LoadSettles, Up
<1>2. web' \in WebType /\ web'.page = web.page /\ web'.reload = web.reload
      /\ web'.killed = web.killed
  BY DEF LoadSettles, WebType
<1>3. WebInv'
  BY <1>2 DEF WebInv
<1>4. chrome' = chrome \/ chrome' = Scheduled(chrome, FALSE)
  BY DEF LoadSettles
<1> QED BY <1>1, <1>2, <1>3, <1>4, ScheduledKeeps DEF Keeps, TabsKept

(* TitleChanges.                                                            *)
LEMMA TitleChangesKeeps ==
  ASSUME Constants, IInv, TitleChanges
  PROVE  Keeps /\ TabsKept
<1>1. /\ chrome.at = "up" /\ saved' = saved /\ web' = web
      /\ chrome' = Scheduled(chrome, FALSE)
  BY DEF TitleChanges, Up
<1> QED BY <1>1, ScheduledKeeps DEF Keeps, TabsKept, WebInv, IInv, SessionTypes

(* A step of the web view alone.                                               *)
LEMMA WebKeeps ==
  ASSUME IInv, UNCHANGED <<saved, chrome>>, web' \in WebType, WebInv'
  PROVE  Keeps /\ TabsKept
  BY DEF IInv, SessionTypes, Keeps, TabsKept

(* Navigates.                                                               *)
LEMMA NavigatesKeeps ==
  ASSUME Constants, IInv, NEW page \in Pages, Navigates(page)
  PROVE  Keeps /\ TabsKept
<1> DEFINE w == Load(web, page)
<1>1. page \in Nat /\ web \in WebType
  BY DEF Constants, IInv, SessionTypes
<1>2. w \in WebType
  BY <1>1, Loads
<1>3. web' = [w EXCEPT !.killed = {}] /\ UNCHANGED <<saved, chrome>>
  BY DEF Navigates
<1> HIDE DEF w
<1>4. web' \in WebType /\ web'.killed = {}
  BY <1>2, <1>3 DEF WebType
<1> QED BY <1>3, <1>4, WebKeeps DEF WebInv

(* Crash: what crashed is to be loaded again, or the home page.             *)
LEMMA CrashKeeps ==
  ASSUME Constants, IInv, NEW late \in BOOLEAN, Crash(late)
  PROVE  Keeps /\ TabsKept
<1> DEFINE count == IF web.last = {web.page} /\ ~late THEN web.count + 1 ELSE 1
           three == [web EXCEPT !.load = "gone", !.count = 0, !.last = {}, !.reload = {Home}]
           fewer == [web EXCEPT !.load = "gone", !.count = count, !.last = {web.page},
                                !.reload = {web.page}]
<1>1. web \in WebType /\ WebInv
  BY DEF IInv, SessionTypes
<1>2. web' = three \/ web' = fewer
  BY DEF Crash
<1>3. UNCHANGED <<saved, chrome>>
  BY DEF Crash
<1>4. count \in Nat
  BY <1>1 DEF WebType
<1> HIDE DEF count
<1>5. /\ three \in WebType /\ three.page = web.page /\ three.killed = web.killed
      /\ three.reload = {Home}
  <2>1. {Home} \in SUBSET Nat /\ {} \in SUBSET Nat
    BY DEF Home
  <2> QED BY <1>1, <2>1 DEF WebType
<1>6. /\ fewer \in WebType /\ fewer.page = web.page /\ fewer.killed = web.killed
      /\ fewer.reload = {web.page}
  BY <1>1, <1>4 DEF WebType
<1> HIDE DEF three, fewer
<1>7. web' \in WebType /\ WebInv'
  BY <1>1, <1>2, <1>5, <1>6 DEF WebInv
<1> QED BY <1>3, <1>7, WebKeeps

(* MemoryKill takes back the reload that an earlier crash asked for.        *)
LEMMA MemoryKillKeeps ==
  ASSUME Constants, IInv, MemoryKill
  PROVE  Keeps /\ TabsKept
<1> DEFINE w == Cancelled(web)
           l == Load(w, Blank)
           k == IF web.page = Blank THEN w.killed ELSE {web.page}
<1>1. web \in WebType /\ WebInv
  BY DEF IInv, SessionTypes
<1>2. w \in WebType /\ w.reload = {} /\ w.killed = web.killed
  BY <1>1 DEF Cancelled, WebType
<1>3. Blank \in Nat
  BY DEF Blank
<1>4. k \in SUBSET Nat
  BY <1>1, <1>2 DEF WebType
<1>5. UNCHANGED <<saved, chrome>>
  BY DEF MemoryKill
<1> HIDE DEF w
<1>6. l \in WebType /\ l.page = Blank /\ l.reload = {} /\ l.killed = w.killed
  BY <1>2, <1>3, Loads
<1>7. web' = [l EXCEPT !.internal = TRUE, !.killed = k]
  <2>1. web' = [l EXCEPT !.internal = TRUE,
                         !.killed = IF web.page = Blank THEN @ ELSE {web.page}]
    BY DEF MemoryKill, w
  <2> HIDE DEF l
  <2> QED BY <2>1, <1>6 DEF WebType
<1> HIDE DEF l
<1>8. /\ web' \in WebType /\ web'.page = Blank /\ web'.reload = {} /\ web'.killed = k
  BY <1>4, <1>6, <1>7 DEF WebType
<1>9. WebInv'
  BY <1>1, <1>2, <1>8 DEF WebInv
<1> QED BY <1>5, <1>8, <1>9, WebKeeps

(* ReloadFires loads no page that was killed, but for the home page.        *)
LEMMA ReloadFiresKeeps ==
  ASSUME Constants, IInv, ReloadFires
  PROVE  Keeps /\ TabsKept
<1>1. web \in WebType /\ WebInv
  BY DEF IInv, SessionTypes
<1>2. PICK page \in web.reload : web' = [Load(web, page) EXCEPT !.reload = {}]
  BY DEF ReloadFires
<1>3. UNCHANGED <<saved, chrome>>
  BY DEF ReloadFires
<1>4. page \in Nat
  BY <1>1 DEF WebType
<1> DEFINE l == Load(web, page)
<1>5. l \in WebType /\ l.page = page /\ l.killed = web.killed
  BY <1>1, <1>4, Loads
<1> HIDE DEF l
<1>6. web' \in WebType /\ web'.page = page /\ web'.reload = {} /\ web'.killed = web.killed
  BY <1>2, <1>5 DEF WebType, l
<1>7. WebInv'
  BY <1>1, <1>6 DEF WebInv
<1> QED BY <1>3, <1>6, <1>7, WebKeeps
-----------------------------------------------------------------------------
(* Every action.                                                            *)
LEMMA NextKeeps ==
  ASSUME Constants, IInv, Next
  PROVE  Keeps /\ TabsKept
<1>1. \/ Start \/ RestoreFails \/ Leave \/ Die \/ SaveTimer \/ NewTab \/ ToggleRestore
      \/ (\E page \in Pages : Opens(page) \/ Navigates(page))
      \/ (\E i \in 1..MaxTabs : SwitchTab(i) \/ CloseTab(i))
      \/ LoadStarted \/ LoadSettles \/ TitleChanges
      \/ (\E late \in BOOLEAN : Crash(late))
      \/ MemoryKill \/ ReloadFires
  BY DEF Next
<1>2. CASE \E page \in Pages : Opens(page) \/ Navigates(page)
  BY <1>2, OpensKeeps, NavigatesKeeps
<1>3. CASE \E i \in 1..MaxTabs : SwitchTab(i) \/ CloseTab(i)
  BY <1>3, SwitchTabKeeps, CloseTabKeeps
<1>4. CASE \E late \in BOOLEAN : Crash(late)
  BY <1>4, CrashKeeps
<1>5. CASE Start \/ RestoreFails \/ Leave \/ Die \/ SaveTimer
  BY <1>5, StartKeeps, RestoreFailsKeeps, LeaveKeeps, DieKeeps, SaveTimerKeeps
<1>6. CASE NewTab \/ ToggleRestore \/ LoadStarted \/ LoadSettles \/ TitleChanges
  BY <1>6, NewTabKeeps, ToggleRestoreKeeps, LoadStartedKeeps, LoadSettlesKeeps,
     TitleChangesKeeps
<1>7. CASE MemoryKill \/ ReloadFires
  BY <1>7, MemoryKillKeeps, ReloadFiresKeeps
<1> QED BY <1>1, <1>2, <1>3, <1>4, <1>5, <1>6, <1>7

(* Every step.                                                              *)
LEMMA StepKeeps ==
  ASSUME Constants, IInv, [Next]_sessionVars
  PROVE  IInv' /\ TabsKept
<1>1. CASE Next
  BY <1>1, NextKeeps DEF Keeps, IInv
<1>2. CASE UNCHANGED sessionVars
  BY <1>2 DEF sessionVars, IInv, SessionTypes, WebInv, TabsKept
<1> QED BY <1>1, <1>2

(* The beginning.                                                           *)
LEMMA StartsSound ==
  ASSUME Constants, Init
  PROVE  IInv
<1>1. saved \in SavedType /\ SavedInv(saved)
  BY DEF Constants, Init, SavedType, SavedInv, Fit
<1>2. chrome \in ChromeType /\ PairInv(saved, chrome)
  BY DEF Constants, Init, Down, ChromeType, PairInv, ChromeInv, Fit, ShrunkOnPurpose,
         SavedOrDirty
<1>3. web \in WebType /\ WebInv
  BY WebStarts DEF Init, WebInv
<1> QED BY <1>1, <1>2, <1>3 DEF IInv, SessionTypes

(* The invariant of the tabs, the store, what is to be saved, and the web   *)
(* view.                                                                    *)
THEOREM SessionInvariance == ASSUME Constants PROVE Spec => []IInv
<1>1. Constants
  OBVIOUS
<1>2. Init => IInv
  BY <1>1, StartsSound
<1>3. IInv /\ [Next]_sessionVars => IInv'
  BY <1>1, StepKeeps
<1> QED BY <1>2, <1>3, PTL DEF Spec

(* BrowserSession, SessionSaved: the browser that leaves has its tabs in the   *)
(* store, unless the store failed it or nothing happened to them.            *)
THEOREM LeavesSaved == ASSUME Constants PROVE Spec => []SessionSaved
<1>1. IInv => SessionSaved
  <2>1. SUFFICES ASSUME IInv, chrome.at = "left", chrome.changed, ~chrome.failed
                 PROVE  /\ Ids(saved.tabs) = Ids(chrome.tabs)
                        /\ \A i \in DOMAIN chrome.tabs :
                             /\ saved.tabs[i].id = chrome.tabs[i].id
                             /\ i # chrome.active => saved.tabs[i] = chrome.tabs[i]
                        /\ saved.active = chrome.tabs[chrome.active].id
    BY DEF SessionSaved
  <2>2. Agree(saved, chrome)
    BY <2>1 DEF IInv, PairInv, SavedOrDirty
  <2>3. DOMAIN saved.tabs = 1..Len(saved.tabs) /\ DOMAIN chrome.tabs = 1..Len(chrome.tabs)
    BY <2>1 DEF IInv, SessionTypes, SavedType, ChromeType
  <2>4. Ids(saved.tabs) = Ids(chrome.tabs)
    BY <2>2, <2>3 DEF Ids, Agree
  <2> QED BY <2>2, <2>3, <2>4 DEF Agree
<1>2. Spec => []IInv
  BY SessionInvariance
<1> QED BY <1>1, <1>2, PTL

(* BrowserSession, SessionKept: no step takes a tab out of the store that   *)
(* the user did not close, unless the browser was started without them.     *)
THEOREM TabsOutlive == ASSUME Constants PROVE Spec => SessionKept
<1>1. Constants
  OBVIOUS
<1>2. IInv /\ [Next]_sessionVars => [StoredTabsStay]_sessionVars
  <2>1. SUFFICES ASSUME IInv, [Next]_sessionVars
                 PROVE  StoredTabsStay
    OBVIOUS
  <2>2. IInv' /\ TabsKept
    BY <1>1, <2>1, StepKeeps
  <2>3. /\ DOMAIN saved.tabs = 1..Len(saved.tabs) /\ DOMAIN saved'.tabs = 1..Len(saved'.tabs)
        /\ chrome.restoring \in BOOLEAN
    BY <2>1, <2>2 DEF IInv, SessionTypes, SavedType, ChromeType
  <2>4. SUFFICES ASSUME NEW id \in Ids(saved.tabs), id \notin Ids(saved'.tabs), chrome.restoring
                 PROVE  id \in chrome.closed
    BY <2>3 DEF StoredTabsStay
  <2>5. PICK i \in 1..Len(saved.tabs) : saved.tabs[i].id = id
    BY <2>3 DEF Ids
  <2>6. ~ \E j \in 1..Len(saved'.tabs) : saved'.tabs[j].id = id
    BY <2>3, <2>4 DEF Ids
  <2> QED BY <2>2, <2>4, <2>5, <2>6 DEF TabsKept, Ids
<1>3. Spec => []IInv
  BY <1>1, SessionInvariance
<1> QED BY <1>2, <1>3, PTL DEF Spec, SessionKept

(* BrowserSession, NoReloadAfterKill: a page that was killed for its memory *)
(* is not loaded again before the user asks, but for the home page.         *)
THEOREM KilledStaysDown == ASSUME Constants PROVE Spec => []NoReloadAfterKill
<1>1. IInv => NoReloadAfterKill
  BY DEF IInv, WebInv, NoReloadAfterKill
<1>2. Spec => []IInv
  BY SessionInvariance
<1> QED BY <1>1, <1>2, PTL

(* Tabs with different numbers are as many as their numbers.                *)
LEMMA DifferentIds ==
  ASSUME NEW tabs \in Seq(TabType), NEW next, Fit(tabs, next)
  PROVE  Cardinality(Ids(tabs)) = Len(tabs)
<1> DEFINE n == Len(tabs)
           f == [i \in 1..n |-> tabs[i].id]
<1>1. n \in Nat /\ DOMAIN tabs = 1..n
  OBVIOUS
<1>2. f \in Bijection(1..n, Ids(tabs))
  <2>1. \A x \in Ids(tabs) : \E i \in 1..n : f[i] = x
    BY <1>1 DEF Ids
  <2>2. f \in [1..n -> Ids(tabs)]
    BY <1>1 DEF Ids
  <2>3. \A i, j \in 1..n : f[i] = f[j] => i = j
    BY DEF Fit
  <2> HIDE DEF f, n
  <2> QED BY <2>1, <2>2, <2>3 DEF Bijection, Injection, Surjection, IsInjective
<1>3. ExistsBijection(1..n, Ids(tabs))
  BY <1>2 DEF ExistsBijection
<1>4. IsFiniteSet(1..n) /\ Cardinality(1..n) = n
  BY <1>1, FS_Interval
<1> QED BY <1>3, <1>4, FS_Bijection

(* BrowserSession, TypeOK: the tabs of store and chrome have numbers of     *)
(* their own below the next one, and are not more than MaxTabs.             *)
THEOREM TabsFit == ASSUME Constants PROVE Spec => []TypeOK
<1>1. IInv => TypeOK
  <2>1. SUFFICES ASSUME IInv PROVE TypeOK
    OBVIOUS
  <2>2. /\ saved.tabs \in Seq(TabType) /\ chrome.tabs \in Seq(TabType)
        /\ DOMAIN saved.tabs = 1..Len(saved.tabs) /\ DOMAIN chrome.tabs = 1..Len(chrome.tabs)
    BY <2>1 DEF IInv, SessionTypes, SavedType, ChromeType
  <2>3. Fit(saved.tabs, saved.next) /\ Fit(chrome.tabs, chrome.next)
    BY <2>1 DEF IInv, SavedInv, PairInv, ChromeInv
  <2>4. \A tabs \in {saved.tabs, chrome.tabs} :
          Len(tabs) <= MaxTabs /\ Cardinality(Ids(tabs)) = Len(tabs)
    BY <2>2, <2>3, DifferentIds DEF Fit
  <2>5. \A id \in Ids(saved.tabs) : id < saved.next
    BY <2>2, <2>3 DEF Ids, Fit
  <2>6. Up => chrome.active \in DOMAIN chrome.tabs /\ \A id \in Ids(chrome.tabs) : id < chrome.next
    BY <2>1, <2>2, <2>3 DEF Ids, Fit, IInv, PairInv, ChromeInv, Up
  <2> QED BY <2>4, <2>5, <2>6 DEF TypeOK
<1>2. Spec => []IInv
  BY SessionInvariance
<1> QED BY <1>1, <1>2, PTL
=============================================================================
