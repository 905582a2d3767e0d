---------------------------- MODULE ChromePanels ----------------------------
(***************************************************************************)
(* The panels of the browser: what they publish for the renderer to draw,   *)
(* row by row, and what a tap on a row does. Both are written out panel by   *)
(* panel in places far apart, read the same caches of the profile store, and *)
(* have to agree on what every row stands for.                              *)
(* A row is what its tap does, <<what, which>>, as far as it can be seen:     *)
(* the value a switch is drawn with, the record a line was written from.     *)
(* Not modelled: a tab's own history (back and forward do nothing), hiding   *)
(* the toolbar (ChromeToolbar) and failures of the store.                   *)
(***************************************************************************)
EXTENDS ChromeGeometry, FiniteSets

CONSTANTS
  Devices,     \* a set of [screen : [w, h], guest : BOOLEAN]
  MaxTabs,
  MaxChanges,  \* bound: moves of a panel under a finger, and changes of settings, tabs and records
  None

VARIABLES
  b,      \* BrowserChrome, the profile and what it has in the store
  glass,  \* the last snapshot
  motion  \* the last motion state: the offset of the panel that is open

panelVars == <<b, glass, motion>>

Parent ==
  [settings |-> "menu", language |-> "settings", rotation |-> "menu", appearance |-> "settings",
   web |-> "settings", startup |-> "settings", dataPrivacy |-> "settings", about |-> "settings",
   privacy |-> "menu", clearSiteData |-> "privacy", profiles |-> "menu", manage |-> "profiles",
   delete |-> "manage", history |-> "menu", bookmarks |-> "menu", clearHistory |-> "history"]
Lines ==
  [settings |-> 6, language |-> 2, rotation |-> 4, appearance |-> 6, web |-> 5, startup |-> 4,
   dataPrivacy |-> 4, about |-> 6, privacy |-> 2, clearSiteData |-> 2, profiles |-> 6,
   manage |-> 2, delete |-> 2, history |-> 8, bookmarks |-> 8, clearHistory |-> 2]
Lists == DOMAIN Parent
Overflow == Lists \cup {"menu"}
PanelNames == Overflow \cup {"none", "tabs"}

(* How many values a setting goes through, one tap each.                     *)
Values ==
  [theme |-> 2, autoHide |-> 2, gesture |-> 2, zoom |-> 5, font |-> 3, gpu |-> 2, site |-> 2,
   javascript |-> 2, autoplay |-> 2, smooth |-> 2, popups |-> 2, engine |-> 4, restore |-> 2,
   cookies |-> 3]

Home == 0
ProfilesPage == 4
HistoryPage == 6
Page(list, page, size) == SubSeq(list, page * size + 1, Smaller(Len(list), (page + 1) * size))
-----------------------------------------------------------------------------
(* What the handlers are made of. *)
LineCount(s, p) == Lines[p] + (IF p = "privacy" /\ s.status THEN 1 ELSE 0)

MaxScroll(s, p) ==
  CASE p = "tabs" -> TabsPanel(s.screen, Len(s.tabs)).max
    [] p = "menu" -> MenuPanel(s.screen).max
    [] p \in Lists -> ListPanel(s.screen, LineCount(s, p)).max
    [] OTHER -> 0
Clamped(s, p) == [s EXCEPT !.offset[p] = Between(@, 0, MaxScroll(s, p))]

OpenList(s, p, reset) ==
  Clamped([s EXCEPT !.panel = p, !.snap = None, !.offset[p] = IF reset THEN 0 ELSE @], p)
OpenMenu(s) ==
  [s EXCEPT !.panel = "menu", !.snap = None, !.page = 0, !.deleting = FALSE, !.offset["menu"] = 0]
ClosePanel(s) == [s EXCEPT !.panel = "none", !.snap = None]

(* The list of tabs opens at the active one.                                *)
OpenTabs(s) ==
  LET middle == (s.active * RowHeight + RowHeight \div 2) - Below(s.screen) \div 2
      at == IF Len(s.tabs) <= 1 \/ s.active = 0 THEN 0
            ELSE IF s.active >= Len(s.tabs) - 1 THEN MaxScroll(s, "tabs") ELSE middle
  IN  Clamped([s EXCEPT !.panel = "tabs", !.snap = None, !.offset["tabs"] = at], "tabs")

(* What is not a way from one panel to another is counted.                    *)
Changed(s) == [s EXCEPT !.changes = @ + 1]

ActiveTab(s) == s.tabs[s.active + 1]
LoadUrl(s, url) ==
  ClosePanel([s EXCEPT !.tabs[s.active + 1].url = url, !.loading = TRUE])

RefreshProfiles(s) == [s EXCEPT !.profiles = s.names]
RefreshPages(s, bookmarks) ==
  [s EXCEPT !.pages = IF s.guest THEN None
                      ELSE Page(IF bookmarks THEN s.marks ELSE s.visits, s.page, HistoryPage)]

Marked(s, url) == \E i \in 1..Len(s.marks) : s.marks[i] = url
Without(list, x) == SelectSeq(list, LAMBDA y : y # x)
Quits(s) == [s EXCEPT !.quit = TRUE]
Ask(s, kind) == Changed([s EXCEPT !.asking = kind])

Does(s, what, which) == [b |-> s, did |-> <<what, which>>]
Nothing == <<"nothing", 0>>
DoesNothing(s) == [b |-> s, did |-> Nothing]
Turned(s, k) == Does(Changed([s EXCEPT !.set[k] = (@ + 1) % Values[k]]), k, s.set[k])
-----------------------------------------------------------------------------
(* What is published: chrome_write_panel_lines. A row is the sequence of its   *)
(* choices.                                                                 *)
Choice(what, which, on) == [does |-> <<what, which>>, on |-> on]
Row(what, which) == <<Choice(what, which, TRUE)>>
Segments(rows) == [i \in 1..Len(rows) |-> Len(rows[i])]
Setting(s, k) == Row(k, s.set[k])
Blank == <<Choice("nothing", 0, TRUE)>>
Dash == <<Choice("nothing", 0, FALSE)>>

MenuRows(s) ==
  LET url == ActiveTab(s).url
  IN  <<<<Choice(IF ~s.guest /\ Marked(s, url) THEN "unmark" ELSE "mark", url, ~s.guest)>>,
        Row("history", 0), Row("bookmarks", 0), Row("profiles", 0), Row("privacy", 0),
        Row("settings", 0), Row("rotation", 0)>>

ProfileRows(s) ==
  LET names == IF s.profiles = None THEN <<>> ELSE Page(s.profiles, s.page, ProfilesPage)
      Named(id) == Row(IF ~s.guest /\ id = s.profile THEN "manage" ELSE "switch", id)
  IN  [i \in 1..ProfilesPage |-> IF i <= Len(names) THEN Named(names[i]) ELSE Blank] \o
      <<<<Choice("guest", 0, TRUE), Choice("new profile", 0, TRUE)>>,
        <<Choice("previous", 0, s.page > 0),
          Choice("next", 0, s.profiles # None /\ (s.page + 1) * ProfilesPage < Len(s.profiles)),
          Choice("manage", s.profile, ~s.guest)>>>>

PageRows(s, bookmarks) ==
  LET pages == IF s.pages = None THEN <<>> ELSE s.pages
      what == IF s.deleting THEN "forget" ELSE "open"
  IN  [i \in 1..HistoryPage |-> IF i <= Len(pages) THEN Row(what, pages[i]) ELSE Dash] \o
      <<<<Choice("previous", 0, s.page > 0), Choice("next", 0, Len(pages) = HistoryPage)>>,
        IF bookmarks THEN Row("deleting", 0)
        ELSE <<Choice("deleting", 0, TRUE), Choice("clear history", 0, ~s.guest)>>>>

TabRows(s) == [i \in 1..Len(s.tabs) |-> Row("tab", s.tabs[i].id)]

DataRows(s) ==
  <<Setting(s, "cookies"), Row("clear site data", 0), Row("clear cache", 0),
    <<Choice("clear history", 0, ~s.guest)>>>>
PrivacyRows(s) ==
  <<Setting(s, "cookies"), <<Choice("clear site data", 0, ~s.clearing)>>>> \o
  IF s.status THEN <<Blank>> ELSE <<>>

Rows(s) ==
  CASE s.panel = "menu" -> MenuRows(s)
    [] s.panel = "tabs" -> TabRows(s)
    [] s.panel = "settings" -> <<Row("appearance", 0), Row("web", 0), Row("startup", 0),
                                 Row("dataPrivacy", 0), Row("language", 0), Row("about", 0)>>
    [] s.panel = "language" -> <<Row("speak", 0), Row("speak", 1)>>
    [] s.panel = "rotation" -> [i \in 1..4 |-> Row("rotate", i - 1)]
    [] s.panel = "appearance" -> <<Setting(s, "theme"), Setting(s, "autoHide"), Setting(s, "gesture"),
                                   Setting(s, "zoom"), Setting(s, "font"), Setting(s, "gpu")>>
    [] s.panel = "web" -> <<Setting(s, "site"), Setting(s, "javascript"), Setting(s, "autoplay"),
                            Setting(s, "smooth"), Setting(s, "popups")>>
    [] s.panel = "startup" -> <<Setting(s, "engine"), Row("ask template", 0), Row("ask home", 0),
                                Setting(s, "restore")>>
    [] s.panel = "dataPrivacy" -> DataRows(s)
    [] s.panel = "about" -> [i \in 1..5 |-> Blank] \o <<Row("website", 0)>>
    [] s.panel = "privacy" -> PrivacyRows(s)
    [] s.panel \in {"clearSiteData", "delete", "clearHistory"} -> <<Row("cancel", 0), Row("confirm", 0)>>
    [] s.panel = "profiles" -> ProfileRows(s)
    [] s.panel = "manage" -> <<Row("rename", 0), <<Choice("delete", 0, ~s.guest /\ s.profile # s.default)>>>>
    [] s.panel \in {"history", "bookmarks"} -> PageRows(s, s.panel = "bookmarks")
    [] OTHER -> <<>>

(* Writing reads what was not read yet, and keeps the offset in range.        *)
Read(s) ==
  LET listed == IF s.panel = "profiles" /\ s.profiles = None THEN RefreshProfiles(s) ELSE s
      paged == IF s.panel \in {"history", "bookmarks"} /\ s.pages = None
               THEN RefreshPages(listed, s.panel = "bookmarks") ELSE listed
  IN  IF s.panel \in Lists THEN Clamped(paged, s.panel) ELSE paged

Written(s) ==
  [panel |-> s.panel, rows |-> Rows(s), offset |-> s.offset[s.panel], loading |-> s.loading,
   full |-> Len(s.tabs) >= MaxTabs]

KindOf(panel) == IF panel \in Lists THEN "list" ELSE panel
Motion(s) ==
  [kind |-> KindOf(s.panel), offset |-> IF s.panel = "none" THEN 0 ELSE s.offset[s.panel]]

Publishes(s) == b' = Read(s) /\ glass' = Written(b') /\ motion' = Motion(b')
-----------------------------------------------------------------------------
(* What a tap does: chrome_select_panel_row, panel by panel. Each answers the   *)
(* browser it leaves and what it did.                                       *)
SelectMenu(s, row) ==
  LET url == ActiveTab(s).url
  IN  CASE row = 0 -> IF s.guest THEN DoesNothing(s)
                      ELSE IF Marked(s, url)
                      THEN Does(Changed([s EXCEPT !.marks = Without(@, url)]), "unmark", url)
                      ELSE Does(Changed([s EXCEPT !.marks = <<url>> \o @]), "mark", url)
        [] row \in {1, 2} ->
             LET opened == OpenList(s, IF row = 2 THEN "bookmarks" ELSE "history", TRUE)
             IN  Does(RefreshPages([opened EXCEPT !.page = 0, !.deleting = FALSE], row = 2),
                      IF row = 2 THEN "bookmarks" ELSE "history", 0)
        [] row = 3 -> Does(RefreshProfiles([OpenList(s, "profiles", TRUE) EXCEPT !.page = 0]), "profiles", 0)
        [] row = 4 -> Does([OpenList(s, "privacy", TRUE) EXCEPT !.status = FALSE], "privacy", 0)
        [] row = 5 -> Does(OpenList(s, "settings", TRUE), "settings", 0)
        [] row = 6 -> Does(OpenList(s, "rotation", TRUE), "rotation", 0)

SelectSettings(s, row) ==
  LET panel == <<"appearance", "web", "startup", "dataPrivacy", "language", "about">>[row + 1]
  IN  Does(OpenList(s, panel, TRUE), panel, 0)

(* A new language makes the page load again; a new rotation ends the browser,  *)
(* if the file can be written.                                              *)
SelectLanguage(s, row) ==
  Does(IF s.language = row THEN s ELSE Changed([s EXCEPT !.language = row, !.loading = TRUE]),
       "speak", row)
SelectRotation(s, row, works) ==
  Does(IF s.rotation = row THEN ClosePanel(s) ELSE IF works THEN Quits(s) ELSE s, "rotate", row)

SelectAppearance(s, row, works) ==
  CASE row < 4 -> Turned(s, <<"theme", "autoHide", "gesture", "zoom">>[row + 1])
    [] row = 4 -> Turned([s EXCEPT !.loading = TRUE], "font")
    [] row = 5 -> Does(IF works THEN Quits(s) ELSE s, "gpu", s.set["gpu"])

SelectWeb(s, row) ==
  Turned([s EXCEPT !.loading = TRUE],
         <<"site", "javascript", "autoplay", "smooth", "popups">>[row + 1])

(* The search of one's own comes last and has to be known.                    *)
SelectStartup(s, row) ==
  CASE row = 0 -> IF s.set["engine"] = 2 /\ ~s.template
                  THEN Does(Ask(s, "template"), "engine", 2) ELSE Turned(s, "engine")
    [] row = 1 -> Does(Ask(s, "template"), "ask template", 0)
    [] row = 2 -> Does(Ask(s, "home"), "ask home", 0)
    [] row = 3 -> Turned(s, "restore")

Cookies(s) == IF s.guest THEN DoesNothing(s) ELSE Turned(s, "cookies")
OpenDialog(s, panel, what) ==
  Does(OpenList([s EXCEPT !.dialog = s.panel], panel, TRUE), what, 0)

SelectDataPrivacy(s, row) ==
  CASE row = 0 -> Cookies(s)
    [] row = 1 -> IF s.clearing THEN DoesNothing(s) ELSE OpenDialog(s, "clearSiteData", "clear site data")
    [] row = 2 -> Does(Changed([s EXCEPT !.status = TRUE]), "clear cache", 0)
    [] row = 3 -> IF s.guest THEN DoesNothing(s) ELSE OpenDialog(s, "clearHistory", "clear history")
SelectPrivacy(s, row) ==
  CASE row = 0 -> Cookies(s)
    [] row = 1 /\ ~s.clearing -> OpenDialog(s, "clearSiteData", "clear site data")
    [] OTHER -> DoesNothing(s)

DialogParent(s, other) == IF s.dialog = "dataPrivacy" THEN "dataPrivacy" ELSE other
SelectClearSiteData(s, row) ==
  LET left == OpenList(s, DialogParent(s, "privacy"), FALSE)
  IN  IF row = 0 THEN Does(left, "cancel", 0)
      ELSE Does(IF s.clearing THEN s
                ELSE OpenList(Changed([s EXCEPT !.clearing = TRUE, !.status = FALSE]), DialogParent(s, "privacy"), FALSE),
                "confirm", 0)

SwitchProfile(s, id, what, works) == Does(IF works THEN Quits(s) ELSE s, what, id)
SelectProfiles(s, row, segment, works) ==
  LET at == s.page * ProfilesPage + row + 1
      Turn(page) == RefreshProfiles([s EXCEPT !.page = page,
                                              !.offset["profiles"] = IF page = s.page THEN @ ELSE 0])
      more == s.profiles # None /\ (s.page + 1) * ProfilesPage < Len(s.profiles)
      manage == Does(OpenList(s, "manage", TRUE), "manage", s.profile)
  IN  CASE row < ProfilesPage ->
             IF s.profiles = None \/ at > Len(s.profiles) THEN DoesNothing(s)
             ELSE IF ~s.guest /\ s.profiles[at] = s.profile THEN manage
             ELSE SwitchProfile(s, s.profiles[at], "switch", works)
        [] row = 4 -> IF segment = 0 THEN SwitchProfile(s, 0, "guest", works)
                      ELSE Does(Ask(s, "profile"), "new profile", 0)
        [] row = 5 -> CASE segment = 0 -> IF s.page > 0 THEN Does(Turn(s.page - 1), "previous", 0)
                                          ELSE [b |-> Turn(s.page), did |-> Nothing]
                        [] segment = 1 -> IF more THEN Does(Turn(s.page + 1), "next", 0)
                                          ELSE [b |-> Turn(s.page), did |-> Nothing]
                        [] segment = 2 -> manage

SelectManage(s, row) ==
  CASE row = 0 /\ ~s.guest -> Does(Ask(s, "name"), "rename", 0)
    [] row = 1 /\ ~s.guest /\ s.profile # s.default -> Does(OpenList(s, "delete", TRUE), "delete", 0)
    [] OTHER -> DoesNothing(s)
SelectDelete(s, row, works) ==
  IF row = 0 THEN Does(OpenList(s, "manage", FALSE), "cancel", 0)
  ELSE Does(IF works THEN Quits(s) ELSE s, "confirm", 0)

Forget(s, id, bookmarks) ==
  RefreshPages(Changed(IF bookmarks THEN [s EXCEPT !.marks = Without(@, id)]
                       ELSE [s EXCEPT !.visits = Without(@, id)]), bookmarks)

(* The pages are only asked for one more when this one is full.               *)
SelectPages(s, row, segment) ==
  LET bookmarks == s.panel = "bookmarks"
      pages == IF s.pages = None THEN <<>> ELSE s.pages
      Turn(page) == RefreshPages([s EXCEPT !.page = page, !.offset[s.panel] = 0], bookmarks)
  IN  CASE row < HistoryPage ->
             IF row >= Len(pages) THEN DoesNothing(s)
             ELSE IF s.deleting THEN Does(Forget(s, pages[row + 1], bookmarks), "forget", pages[row + 1])
             ELSE Does(Changed(LoadUrl(s, pages[row + 1])), "open", pages[row + 1])
        [] row = 6 -> CASE segment = 0 /\ s.page > 0 -> Does(Turn(s.page - 1), "previous", 0)
                        [] segment = 1 /\ Len(pages) = HistoryPage -> Does(Turn(s.page + 1), "next", 0)
                        [] OTHER -> [b |-> Turn(s.page), did |-> Nothing]
        [] row = 7 -> IF bookmarks \/ segment = 0
                      THEN Does([s EXCEPT !.deleting = ~@], "deleting", 0)
                      ELSE Does(OpenList(s, "clearHistory", TRUE), "clear history", 0)

SelectClearHistory(s, row) ==
  LET parent == DialogParent(s, "history")
      Shown(t) == IF parent = "history" THEN RefreshPages(t, FALSE) ELSE t
  IN  IF row = 0 THEN Does(Shown(OpenList(s, parent, FALSE)), "cancel", 0)
      ELSE IF s.guest THEN DoesNothing(s)
      ELSE Does(Shown(Changed([OpenList([s EXCEPT !.visits = <<>>], parent, FALSE)
                               EXCEPT !.page = 0, !.offset[parent] = 0])), "confirm", 0)

Select(s, row, segment, works) ==
  CASE s.panel = "menu" -> SelectMenu(s, row)
    [] s.panel = "settings" -> SelectSettings(s, row)
    [] s.panel = "language" -> SelectLanguage(s, row)
    [] s.panel = "rotation" -> SelectRotation(s, row, works)
    [] s.panel = "appearance" -> SelectAppearance(s, row, works)
    [] s.panel = "web" -> SelectWeb(s, row)
    [] s.panel = "startup" -> SelectStartup(s, row)
    [] s.panel = "dataPrivacy" -> SelectDataPrivacy(s, row)
    [] s.panel = "privacy" -> SelectPrivacy(s, row)
    [] s.panel = "about" -> IF row = 5 THEN Does(Changed(LoadUrl(s, 1)), "website", 0) ELSE DoesNothing(s)
    [] s.panel = "clearSiteData" -> SelectClearSiteData(s, row)
    [] s.panel = "profiles" -> SelectProfiles(s, row, segment, works)
    [] s.panel = "manage" -> SelectManage(s, row)
    [] s.panel = "delete" -> SelectDelete(s, row, works)
    [] s.panel \in {"history", "bookmarks"} -> SelectPages(s, row, segment)
    [] s.panel = "clearHistory" -> SelectClearHistory(s, row)

(* The header of a list leads to where it was opened from; a dialog remembers  *)
(* that, and so does the next one, which may have been opened elsewhere.      *)
GoBack(s) ==
  LET parent == IF s.panel \in {"clearSiteData", "clearHistory"} /\ s.dialog # None
                THEN s.dialog ELSE Parent[s.panel]
      opened == IF parent = "menu" THEN OpenMenu(s) ELSE OpenList(s, parent, FALSE)
  IN  Does(IF parent = "profiles" THEN RefreshProfiles(opened) ELSE opened, "back", 0)

NewTab(s) ==
  LoadUrl([Changed(s) EXCEPT !.tabs = Append(@, [id |-> s.next, url |-> Home]), !.next = @ + 1,
                    !.active = Len(s.tabs)], Home)
CloseTab(s, row) ==
  LET left == [i \in 1..Len(s.tabs) - 1 |-> s.tabs[IF i <= row THEN i ELSE i + 1]]
      fresh == [s EXCEPT !.tabs = <<[id |-> s.next, url |-> Home]>>, !.next = @ + 1, !.active = 0]
      fewer == Clamped([s EXCEPT !.tabs = left,
                                 !.active = IF row < @ THEN @ - 1 ELSE Smaller(@, Len(left) - 1)], "tabs")
      closed == IF left = <<>> THEN Clamped(fresh, "tabs") ELSE fewer
  IN  Changed(IF row = s.active THEN OpenTabs(LoadUrl(closed, ActiveTab(closed).url)) ELSE closed)
SwitchTab(s, row) ==
  IF row = s.active THEN ClosePanel(s)
  ELSE LoadUrl([Changed(s) EXCEPT !.active = row], s.tabs[row + 1].url)

(* Back and forward find nothing in a tab without a history.                 *)
PressButton(s, i) ==
  CASE i \in {0, 1} -> DoesNothing(s)
    [] i = 2 -> Does(IF s.panel = "tabs" THEN ClosePanel(s) ELSE OpenTabs(s), "tabs", 0)
    [] i = 3 /\ s.panel \in Overflow -> Does(Quits(s), "exit", 0)
    [] i = 3 /\ s.panel = "tabs" ->
         IF Len(s.tabs) >= MaxTabs THEN DoesNothing(s) ELSE Does(NewTab(s), "new tab", 0)
    [] i = 3 /\ s.panel = "none" ->
         IF s.loading THEN Does(s, "stop", 0) ELSE Does(Changed(LoadUrl(s, ActiveTab(s).url)), "reload", 0)
    [] i = 4 -> Does(IF s.panel \in Overflow THEN ClosePanel(s) ELSE OpenMenu(s), "menu", 0)

HitAt(s, segments, x, y) ==
  CASE y < Toolbar(s.screen).height -> ToolbarHit(s.screen, x, y)
    [] s.panel = "tabs" -> TabHit(s.screen, Len(s.tabs), s.offset["tabs"], x, y)
    [] s.panel = "menu" -> MenuHit(s.screen, s.offset["menu"], x, y)
    [] s.panel \in Lists -> ListHit(s.screen, segments, s.offset[s.panel], x, y)
    [] OTHER -> NoHit

Act(s, hit, works) ==
  CASE hit.part = "none" -> DoesNothing(s)
    [] hit.part = "outside" -> Does(ClosePanel(s), "outside", 0)
    [] hit.part = "address" -> Does(Ask(ClosePanel(s), "address"), "address", 0)
    [] hit.part = "button" -> PressButton(s, hit.row)
    [] hit.part = "back" -> GoBack(s)
    [] hit.part = "close" -> Does(CloseTab(s, hit.row), "close", s.tabs[hit.row + 1].id)
    [] hit.part = "row" /\ s.panel = "tabs" -> Does(SwitchTab(s, hit.row), "tab", s.tabs[hit.row + 1].id)
    [] OTHER -> Select(s, hit.row, hit.segment, works)
-----------------------------------------------------------------------------
(* What is on the glass: the snapshot, moved by the motion state if that is of *)
(* the same kind of panel.                                                  *)
DrawnOffset == IF motion.kind = KindOf(glass.panel) THEN motion.offset ELSE glass.offset

Drawn ==
  Seen(ToolbarCards(b.screen) \cup
       CASE glass.panel = "tabs" -> TabCards(b.screen, Len(glass.rows), DrawnOffset)
         [] glass.panel = "menu" -> MenuCards(b.screen, DrawnOffset)
         [] glass.panel \in Lists -> ListCards(b.screen, Segments(glass.rows), DrawnOffset)
         [] OTHER -> {})

(* What the drawing tells the user a tap there does.                         *)
ButtonMeans(i) ==
  CASE i \in {0, 1} -> Choice("nothing", 0, FALSE)
    [] i = 2 -> Choice("tabs", 0, TRUE)
    [] i = 3 /\ glass.panel = "tabs" -> Choice("new tab", 0, ~glass.full)
    [] i = 3 /\ glass.panel \in Overflow -> Choice("exit", 0, TRUE)
    [] i = 3 /\ glass.panel = "none" -> Choice(IF glass.loading THEN "stop" ELSE "reload", 0, TRUE)
    [] i = 4 -> Choice("menu", 0, TRUE)
Means(hit) ==
  CASE hit.part = "button" -> ButtonMeans(hit.row)
    [] hit.part \in {"address", "back"} -> Choice(hit.part, 0, TRUE)
    [] hit.part = "close" -> Choice("close", glass.rows[hit.row + 1][1].does[2], TRUE)
    [] OTHER -> glass.rows[hit.row + 1][hit.segment + 1]
-----------------------------------------------------------------------------
(* The steps of the browser. *)

(* A finger taps something that is drawn, or where nothing is. Putting it down *)
(* in the menu ends the way to the next page.                               *)
Touched(x, y) ==
  IF b.panel = "menu" /\ Inside(x, y, MenuPanel(b.screen).area) THEN [b EXCEPT !.snap = None] ELSE b

Tap(segments, x, y) ==
  \E hit \in {HitAt(b, segments, x, y)} :
    IF hit = NoHit
    THEN b' = Touched(x, y) /\ motion' = Motion(b') /\ UNCHANGED glass
    ELSE \E after \in {Act(Touched(x, y), hit, works).b : works \in BOOLEAN} :
           after.changes <= MaxChanges /\ Publishes(after)

(* Of records and tabs the first and the last are enough.                     *)
InTheMiddle(hit) ==
  /\ glass.panel \in {"tabs", "history", "bookmarks"} /\ hit.part \in {"row", "close"}
  /\ hit.row \in 1..(IF glass.panel = "tabs" THEN Len(b.tabs) ELSE HistoryPage) - 2
Places ==
  {<<c.area.x, c.area.y>> : c \in {d \in Drawn : ~InTheMiddle(d.hit)}} \cup
  {<<0, b.screen.h - 1>>, <<b.screen.w - 1, b.screen.h - 1>>}
TapSomething ==
  LET segments == Segments(Rows(b)) IN \E p \in Places : Tap(segments, p[1], p[2])

(* The offset follows a finger; other fingers may tap meanwhile, and a list    *)
(* that was opened under the finger is the one that moves.                   *)
Dragged(kind) == IF kind = "list" THEN b.panel ELSE kind
DragMoves ==
  \E kind \in {"tabs", "menu", "list"}, part \in 0..2 :
    LET panel == Dragged(kind)
        to == (MaxScroll(b, panel) * part) \div 2
    IN  /\ b.changes < MaxChanges
        /\ IF b.drag = None THEN KindOf(b.panel) = kind ELSE b.drag.kind = kind
        /\ kind = "list" => panel \in Lists
        /\ to # b.offset[panel]
        /\ b' = [b EXCEPT !.offset[panel] = to, !.changes = @ + 1, !.snap = IF kind = "menu" THEN None ELSE @,
                          !.drag = IF @ = None THEN [kind |-> kind, from |-> b.offset[panel]] ELSE @]
        /\ motion' = Motion(b')
        /\ UNCHANGED glass

(* The menu goes on to a page, by the distance or by the speed of the finger.  *)
SnapTargets(from) ==
  LET m == MenuPanel(b.screen)
      page == (from + m.area.w \div 2) \div m.area.w
      far == Larger(48, m.area.w \div 5)
      way == b.offset["menu"] - from
      steps == IF way > far THEN {1} ELSE IF way < -far THEN {-1, 1} ELSE {-1, 0, 1}
  IN  {Between(page + d, 0, m.pages - 1) * m.area.w : d \in steps}

DragEnds ==
  /\ b.drag # None
  /\ IF b.drag.kind # "menu"
     THEN Publishes(Clamped([b EXCEPT !.drag = None], Dragged(b.drag.kind)))
     ELSE \E to \in SnapTargets(b.drag.from) :
            /\ b' = [b EXCEPT !.drag = None, !.snap = IF b.panel = "menu" THEN to ELSE @]
            /\ motion' = Motion(b')
            /\ UNCHANGED glass

(* A tick of the way to the page: in between, or the last one.                *)
SnapTick ==
  /\ b.snap # None
  /\ \/ LET between == MenuPanel(b.screen).max \div 2
        IN  /\ between # b.offset["menu"]
            /\ b' = [b EXCEPT !.offset["menu"] = between]
            /\ motion' = Motion(b')
            /\ UNCHANGED glass
     \/ Publishes([b EXCEPT !.offset["menu"] = b.snap, !.snap = None])

(* The page goes to another one by itself, which is recorded, or has loaded.   *)
PageMoves ==
  \E url \in {Home, 1} :
    /\ b.changes < MaxChanges
    /\ url # ActiveTab(b).url
    /\ Publishes(Changed([b EXCEPT !.tabs[b.active + 1].url = url, !.loading = TRUE,
                                  !.visits = IF b.guest THEN @ ELSE <<url>> \o Without(@, url)]))
PageLoaded == b.loading /\ Publishes([b EXCEPT !.loading = FALSE])

SiteDataCleared ==
  b.clearing /\ Publishes([b EXCEPT !.clearing = FALSE, !.status = TRUE])

KeyboardConfirms ==
  LET s == [b EXCEPT !.asking = None]
  IN  \/ b.asking = "address" /\ Publishes(LoadUrl(s, 1))
      \/ b.asking = "home" /\ Publishes(OpenList(s, "startup", FALSE))
      \/ /\ b.asking = "template"
         /\ Publishes(OpenList([s EXCEPT !.template = TRUE, !.set["engine"] = 3], "startup", FALSE))
      \/ b.asking = "profile" /\ Publishes(Quits(s))
      \/ b.asking = "name" /\ Publishes(OpenList(s, "manage", FALSE))
KeyboardCancels == b.asking # None /\ b' = [b EXCEPT !.asking = None] /\ UNCHANGED <<glass, motion>>

FirstState(screen, guest) ==
  [screen |-> screen, guest |-> guest, panel |-> "none", page |-> 0, deleting |-> FALSE,
   dialog |-> None, clearing |-> FALSE, status |-> FALSE, offset |-> [p \in PanelNames |-> 0],
   snap |-> None, drag |-> None, profiles |-> None, pages |-> None, asking |-> None, quit |-> FALSE,
   set |-> [k \in DOMAIN Values |-> 0], language |-> 0, rotation |-> 0, template |-> FALSE,
   tabs |-> [i \in 1..MaxTabs - 1 |-> [id |-> i, url |-> IF i = 1 THEN Home ELSE i]],
   next |-> MaxTabs, active |-> MaxTabs - 2, visits |-> [i \in 1..HistoryPage + 1 |-> i], marks |-> <<1, 2>>,
   names |-> [i \in 1..ProfilesPage + 1 |-> i], profile |-> 2, default |-> 1, loading |-> FALSE,
   changes |-> 0]

Init ==
  \E d \in Devices :
    /\ b = FirstState(d.screen, d.guest)
    /\ glass = Written(b)
    /\ motion = Motion(b)

Next ==
  /\ ~b.quit
  /\ \/ TapSomething
     \/ DragMoves
     \/ DragEnds
     \/ SnapTick
     \/ PageMoves
     \/ PageLoaded
     \/ SiteDataCleared
     \/ KeyboardConfirms
     \/ KeyboardCancels

Spec == Init /\ [][Next]_panelVars
-----------------------------------------------------------------------------
(* The fields that later rows and taps depend on.                             *)
TypeOK ==
  /\ b.panel \in PanelNames /\ b.page \in Nat /\ b.active \in 0..Len(b.tabs) - 1
  /\ \A k \in DOMAIN Values : b.set[k] \in 0..Values[k] - 1
  /\ \A p \in PanelNames : b.offset[p] \in Nat
  /\ glass.panel \in PanelNames /\ motion.kind \in {"none", "tabs", "menu", "list"}

(* What a guest's rows and a clearing under way are drawn for and do not do,    *)
(* and the two that are drawn as not available to a guest and open all the    *)
(* same.                                                                    *)
IdleThough(choice) ==
  \/ b.guest /\ choice.does[1] \in {"cookies", "rename", "confirm"}
  \/ b.clearing /\ choice.does[1] = "clear site data"
OpensThough(did) == b.guest /\ did[1] \in {"manage", "clear history"}

Answers(choice, did) ==
  IF choice.on THEN did = choice.does \/ (did = Nothing /\ IdleThough(choice))
  ELSE did = Nothing \/ OpensThough(did)

(* Between a touch and its answer nothing is drawn anew (chrome_handle_toolbar_- *)
(* tap against chrome_write_panel_lines and drawChromeOverlay): wherever the    *)
(* user touches something that is drawn, in whichever panel, scrolled to where  *)
(* it may, on every screen, what happens is what it was drawn for, with the     *)
(* value and the record it was drawn with. Taps are told apart by rectangles:  *)
(* what two opposite corners are taken for, all between them is.              *)
Corners(r) == {<<r.x, r.y>>, <<r.x + r.w - 1, r.y + r.h - 1>>}
AsDrawn ==
  ~b.quit =>
    LET segments == Segments(Rows(b))
    IN  \A c \in Drawn : \A hit \in {HitAt(b, segments, p[1], p[2]) : p \in Corners(c.area)} :
          Answers(Means(c.hit), Act(b, hit, TRUE).did)

(* A record that a list shows is in the store (chrome_refresh_pages): what was  *)
(* forgotten or cleared cannot be opened from the list again.                 *)
RowsStored ==
  glass.panel \in {"history", "bookmarks"} =>
    LET stored == IF glass.panel = "bookmarks" THEN b.marks ELSE b.visits
    IN  \A i \in 1..HistoryPage :
          LET row == glass.rows[i][1].does
          IN  row[1] \in {"open", "forget"} => \E k \in 1..Len(stored) : stored[k] = row[2]
=============================================================================
