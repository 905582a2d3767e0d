--------------------------- MODULE BrowserSession ---------------------------
(***************************************************************************)
(* The tabs of the browser, the session it keeps of them in the store, and  *)
(* what it does when the process of the page ends: a page that crashed is   *)
(* loaded again, one that was killed for its memory is not.                 *)
(***************************************************************************)
EXTENDS Naturals, Sequences, FiniteSetsExt

CONSTANTS
  Pages,     \* 1..n; 1 is the home page
  MaxTabs,   \* MAX_BROWSER_TABS
  MaxIds,    \* bound: the tabs there are at all
  MaxFaults  \* bound: how often the store does not do as asked

VARIABLES
  saved,   \* the tabs in the store and the setting restore_tabs
  chrome,  \* BrowserChrome: the tabs and what is to be saved of them
  web      \* what the web view shows, the reload request, the count of crashes

sessionVars == <<saved, chrome, web>>

Home == 1
Blank == 0                        \* about:blank, the page of the memory error
Tab(id, page) == [id |-> id, page |-> page]
Ids(tabs) == {tabs[i].id : i \in DOMAIN tabs}

(* closed are the stored tabs the user closed; failed that the last save did,   *)
(* changed that there was one; killed is the page that was killed since the  *)
(* user last did something.                                                 *)
Down ==
  [at |-> "down", tabs |-> <<>>, active |-> 0, next |-> 2, loaded |-> FALSE, restored |-> 0,
   restoring |-> TRUE, dirty |-> FALSE, explicit |-> FALSE, timer |-> FALSE, closed |-> {},
   failed |-> FALSE, changed |-> FALSE]
NoWeb ==
  [page |-> Blank, load |-> "no", internal |-> FALSE, reload |-> {}, last |-> {}, count |-> 0,
   killed |-> {}]

Init ==
  /\ saved = [tabs |-> <<>>, active |-> 0, next |-> 2, restore |-> TRUE, faults |-> 0]
  /\ chrome = Down
  /\ web = NoWeb

Up == chrome.at = "up"
MayFault == saved.faults < MaxFaults
-----------------------------------------------------------------------------
(* chrome_save_session_now and chrome_schedule_session_save. *)

Kept(c) == [c EXCEPT !.dirty = FALSE, !.explicit = FALSE]
Stored(c) == [Kept(c) EXCEPT !.restored = Len(c.tabs), !.failed = FALSE, !.closed = {}]

(* The end of a save: what is in the store, and the chrome after it.          *)
SaveEnds(s, c) == saved' = s /\ chrome' = c

Saves(c) ==
  IF ~c.loaded \/ ~c.dirty THEN SaveEnds(saved, c)
  ELSE IF Len(c.tabs) < c.restored /\ ~c.explicit THEN SaveEnds(saved, Kept(c))
  ELSE \/ SaveEnds([saved EXCEPT !.tabs = c.tabs, !.active = c.tabs[c.active].id, !.next = c.next],
                   Stored(c))
       \/ MayFault /\ SaveEnds([saved EXCEPT !.faults = @ + 1], [c EXCEPT !.failed = TRUE])

Scheduled(c, explicit) ==
  IF ~c.loaded THEN c
  ELSE [c EXCEPT !.dirty = TRUE, !.explicit = @ \/ explicit, !.timer = TRUE,
                   !.changed = TRUE]

(* chrome_session_save_cb *)
SaveTimer == Up /\ chrome.timer /\ Saves([chrome EXCEPT !.timer = FALSE]) /\ UNCHANGED web
-----------------------------------------------------------------------------
(* chrome_load_state, and the first load. *)

(* mutation: the tabs that could not be read are overwritten. *)
Loaded_Anyway(tabs, active, next, loaded) ==
  [Down EXCEPT !.at = "up", !.tabs = tabs, !.active = active, !.next = next, !.loaded = TRUE,
               !.restored = Len(tabs), !.restoring = saved.restore]

(* A store that has no tabs, or was not asked for any, gives one. *)
Loaded(tabs, active, next, loaded) ==
  [Down EXCEPT !.at = "up", !.tabs = tabs, !.active = active, !.next = next, !.loaded = loaded,
               !.restored = Len(tabs), !.restoring = saved.restore]

Load(w, page) == [w EXCEPT !.page = page, !.load = "asked"]

Starts(c, s) ==
  /\ chrome.at # "up"
  /\ chrome' = c /\ saved' = s /\ web' = Load(NoWeb, c.tabs[c.active].page)

Start ==
  Starts(IF saved.restore /\ saved.tabs # <<>>
           THEN Loaded(saved.tabs, CHOOSE i \in DOMAIN saved.tabs : saved.tabs[i].id = saved.active,
                       saved.next, TRUE)
           ELSE Loaded(<<Tab(1, Home)>>, 1, 2, TRUE), saved)

RestoreFails ==
  /\ MayFault /\ saved.restore
  /\ Starts(Loaded(<<Tab(1, Home)>>, 1, 2, FALSE), [saved EXCEPT !.faults = @ + 1])

(* chrome_destroy: the user leaves, the profile, the rotation or the GPU mode  *)
(* changes, or the shell asks for it.                                       *)
Leave ==
  /\ Up /\ web' = NoWeb
  /\ \E c \in {[chrome EXCEPT !.at = "left", !.timer = FALSE]} : Saves(c)

Die == Up /\ chrome' = Down /\ web' = NoWeb /\ UNCHANGED saved
-----------------------------------------------------------------------------
(* The user. *)

(* chrome_load_url, on what the other tabs are then. *)
LoadUrl(c, page) ==
  /\ chrome' = Scheduled([c EXCEPT !.tabs[c.active].page = page], FALSE)
  /\ web' = Load([web EXCEPT !.killed = {}], page)
  /\ UNCHANGED saved

(* The address, a bookmark, back, forward, home and reload.                  *)
Opens(page) == Up /\ LoadUrl(chrome, page)

NewTab ==
  /\ Up /\ Len(chrome.tabs) < MaxTabs /\ chrome.next <= MaxIds
  /\ LoadUrl([chrome EXCEPT !.tabs = Append(@, Tab(chrome.next, Home)), !.next = @ + 1,
                            !.active = Len(chrome.tabs) + 1], Home)

SwitchTab(i) ==
  /\ Up /\ i \in DOMAIN chrome.tabs /\ i # chrome.active
  /\ LoadUrl([chrome EXCEPT !.active = i], chrome.tabs[i].page)

(* mutation: the tab is closed like any other change. *)
Closed_Implicit(c, i) == Scheduled(c, FALSE)

Closed(c, i) == [Scheduled(c, TRUE) EXCEPT !.closed = @ \cup ({c.tabs[i].id} \cap Ids(saved.tabs))]

(* The last tab is replaced by a new one. *)
CloseTab(i) ==
  /\ Up /\ i \in DOMAIN chrome.tabs
  /\ LET rest == [j \in 1..(Len(chrome.tabs) - 1) |-> chrome.tabs[IF j < i THEN j ELSE j + 1]]
         c == IF rest = <<>>
                THEN [Closed(chrome, i) EXCEPT !.tabs = <<Tab(chrome.next, Home)>>, !.next = @ + 1]
                ELSE [Closed(chrome, i) EXCEPT
                        !.tabs = rest,
                        !.active = IF i < @ THEN @ - 1 ELSE IF @ > Len(rest) THEN Len(rest) ELSE @]
     IN  IF i = chrome.active THEN c.next <= MaxIds + 1 /\ LoadUrl(c, c.tabs[c.active].page)
         ELSE chrome' = c /\ UNCHANGED <<saved, web>>

(* The setting is in the store at once, and counts at the next start.         *)
ToggleRestore ==
  /\ Up /\ saved' = [saved EXCEPT !.restore = ~@] /\ UNCHANGED <<chrome, web>>
-----------------------------------------------------------------------------
(* on_load_changed. The memory error leaves the tab as it is.                 *)

LoadStarted ==
  /\ Up /\ web.load = "asked"
  /\ web' = [web EXCEPT !.load = "started", !.internal = @ /\ web.page = Blank]
  /\ chrome' = IF web.page = Blank THEN chrome
               ELSE [chrome EXCEPT !.tabs[chrome.active].page = web.page]
  /\ UNCHANGED saved

(* It is committed, or finishes without. *)
LoadSettles ==
  /\ Up /\ web.load = "started"
  /\ web' = [web EXCEPT !.load = "no"]
  /\ chrome' = IF web.internal THEN chrome ELSE Scheduled(chrome, FALSE)
  /\ UNCHANGED saved

TitleChanges == Up /\ web.load # "gone" /\ chrome' = Scheduled(chrome, FALSE) /\ UNCHANGED <<saved, web>>

(* A link, a redirect, the page itself; the page of the memory error has two   *)
(* links, which the user follows.                                           *)
Navigates(page) ==
  /\ Up /\ web.load # "gone"
  /\ web' = [Load(web, page) EXCEPT !.killed = {}]
  /\ UNCHANGED <<saved, chrome>>
-----------------------------------------------------------------------------
(* on_web_process_terminated. *)

(* late: more than two minutes after the first crash that is counted.         *)
Crash(late) ==
  /\ Up /\ web.load # "gone"
  /\ LET count == IF web.last = {web.page} /\ ~late THEN web.count + 1 ELSE 1
     IN  web' = IF count >= 3
                  THEN [web EXCEPT !.load = "gone", !.count = 0, !.last = {}, !.reload = {Home}]
                  ELSE [web EXCEPT !.load = "gone", !.count = count, !.last = {web.page},
                                   !.reload = {web.page}]
  /\ UNCHANGED <<saved, chrome>>

(* mutation: the reload that an earlier crash asked for still comes. *)
Cancelled_ReloadStays(w) == [w EXCEPT !.last = {}, !.count = 0]

(* cancel_web_process_reload, and the count starts anew. *)
Cancelled(w) == [w EXCEPT !.reload = {}, !.last = {}, !.count = 0]

(* WEBKIT_WEB_PROCESS_EXCEEDED_MEMORY_LIMIT: show_web_process_memory_error.   *)
MemoryKill ==
  /\ Up /\ web.load # "gone"
  /\ web' = [Load(Cancelled(web), Blank) EXCEPT
               !.internal = TRUE, !.killed = IF web.page = Blank THEN @ ELSE {web.page}]
  /\ UNCHANGED <<saved, chrome>>

(* reload_after_web_process_crash; should the tab have changed in between, the *)
(* page is loaded into the other one.                                       *)
ReloadFires ==
  /\ Up /\ web.reload # {}
  /\ \E page \in web.reload : web' = [Load(web, page) EXCEPT !.reload = {}]
  /\ UNCHANGED <<saved, chrome>>

Next ==
  \/ Start \/ RestoreFails \/ Leave \/ Die \/ SaveTimer
  \/ NewTab \/ ToggleRestore
  \/ \E page \in Pages : Opens(page) \/ Navigates(page)
  \/ \E i \in 1..MaxTabs : SwitchTab(i) \/ CloseTab(i)
  \/ LoadStarted \/ LoadSettles \/ TitleChanges
  \/ \E late \in BOOLEAN : Crash(late)
  \/ MemoryKill \/ ReloadFires

Spec == Init /\ [][Next]_sessionVars
-----------------------------------------------------------------------------
TypeOK ==
  /\ \A tabs \in {saved.tabs, chrome.tabs} :
       Len(tabs) <= MaxTabs /\ Cardinality(Ids(tabs)) = Len(tabs)
  /\ \A id \in Ids(saved.tabs) : id < saved.next
  /\ Up => chrome.active \in DOMAIN chrome.tabs /\ \A id \in Ids(chrome.tabs) : id < chrome.next

(* A tab in the store goes only when the user closed it, or when the browser   *)
(* was started without the tabs; it stays when the store could not be read  *)
(* (STABILITY_REFACTOR_STATUS.md: "tab-load write protection").             *)
StoredTabsStay ==
  \A id \in Ids(saved.tabs) \ Ids(saved'.tabs) : id \in chrome.closed \/ ~chrome.restoring
SessionKept == [][StoredTabsStay]_sessionVars

(* The browser that leaves has the tabs the user left in the store, whatever   *)
(* was saved, blocked or put off before, unless the store failed it, or     *)
(* nothing happened to them.                                                *)
SessionSaved ==
  chrome.at = "left" /\ chrome.changed /\ ~chrome.failed =>
    /\ Ids(saved.tabs) = Ids(chrome.tabs)
    /\ \A i \in DOMAIN chrome.tabs :
         /\ saved.tabs[i].id = chrome.tabs[i].id
         /\ i # chrome.active => saved.tabs[i] = chrome.tabs[i]
    /\ saved.active = chrome.tabs[chrome.active].id

(* A page that was killed for its memory is not loaded again before the user   *)
(* asks ("require an explicit Retry/Home choice instead"), also when it had *)
(* crashed shortly before; only the home page has its reload from the       *)
(* memory error itself.                                                     *)
NoReloadAfterKill == web.reload \cap web.killed \subseteq {Home}
=============================================================================
