------------------------- MODULE BrowserPartsProofs -------------------------
(***************************************************************************)
(* The parts of the browser process: the toolbar, the memory governor on    *)
(* any devices, and that what is proved of each part holds in the run, since *)
(* the steps of a part that was chosen are its own.                         *)
(*                                                                         *)
(* The clocks the properties of the governor remember are related to those   *)
(* it keeps: the age of the last bad reading to the recovery under way, the   *)
(* time of plenty to the recoveries it takes.                               *)
(***************************************************************************)
EXTENDS MCBrowserParts, Sequences, FiniteSets, TLAPS

(* None is no value the code computes with.                                 *)
NoneIsApart == None \notin Store!DbType /\ None \notin BOOLEAN /\ None \notin Int

(* ChromeToolbar: the types of what is kept of the toolbar.                  *)
UiType ==
  [visible: BOOLEAN, panel: Bar!Panels, autoHide: BOOLEAN, inImmersive: BOOLEAN,
   fullscreen: BOOLEAN, game: BOOLEAN, media: BOOLEAN, override: BOOLEAN,
   beforeFullscreen: BOOLEAN, beforeGame: BOOLEAN, auto: Bar!Wishes, inset: BOOLEAN,
   timer: BOOLEAN, shown: [visible: BOOLEAN, panel: Bar!Panels, fullscreen: BOOLEAN],
   touching: BOOLEAN, tapped: BOOLEAN, asking: {"none", "address", "setting", "name"}]
HistType == [asked: Bar!Wishes, gap: BOOLEAN, wanted: BOOLEAN, overGame: BOOLEAN]

(* The toolbar has its room and is drawn as it is.                          *)
Sound(u) == (Bar!TopInset(u) => u.inset) /\ u.shown = Bar!Seen(u)

(* What only the page changes.                                              *)
PageOf(u) == <<u.fullscreen, u.game, u.media, u.beforeFullscreen, u.beforeGame>>

(* A step of the user that spoils nothing.                                  *)
Harmless(u, v) ==
  v \in UiType /\ (Sound(u) => Sound(v)) /\ PageOf(v) = PageOf(u) /\ v.auto \in {u.auto, "none"}
Settles(u, v) == Harmless(u, v) /\ v.auto = "none"

(* What waits was asked for last; nothing waits while a game runs.          *)
WaitsAsAsked(u, h) ==
  /\ u.game => u.auto = "none"
  /\ u.auto = "none" \/ u.fullscreen \/ u.auto = h.asked

(* What was there before the page took the panel is known to whom gives it back. *)
Remembered(u, h) ==
  /\ u.media => u.game
  /\ h.wanted /\ u.media /\ ~u.fullscreen => u.beforeGame
  /\ h.wanted /\ u.fullscreen => u.beforeFullscreen \/ h.overGame

ToolbarInv ==
  /\ ui \in UiType /\ hist \in HistType
  /\ hist.gap \/ Sound(ui)
  /\ WaitsAsAsked(ui, hist)
  /\ Remembered(ui, hist)
-----------------------------------------------------------------------------
(* Publishing changes what the renderer is told, and nothing else.          *)
LEMMA Published ==
  ASSUME NEW u \in UiType
  PROVE  LET v == Bar!Publish(u) IN
         /\ v \in UiType /\ PageOf(v) = PageOf(u) /\ v.auto = u.auto /\ v.visible = u.visible
         /\ v.panel = u.panel /\ v.inset = u.inset /\ v.shown = Bar!Seen(v) /\ Bar!TopInset(v) = Bar!TopInset(u)
         /\ v.asking = u.asking
<1> DEFINE v == Bar!Publish(u)
<1>1. Bar!Seen(u) \in [visible: BOOLEAN, panel: Bar!Panels, fullscreen: BOOLEAN]
  BY DEF Bar!Seen, UiType
<1>2. v \in UiType
  BY Zenon, <1>1 DEF Bar!Publish, UiType
<1>3. /\ v.visible = u.visible /\ v.panel = u.panel /\ v.fullscreen = u.fullscreen
      /\ v.game = u.game /\ v.media = u.media /\ v.beforeFullscreen = u.beforeFullscreen
      /\ v.beforeGame = u.beforeGame /\ v.auto = u.auto /\ v.inset = u.inset
      /\ v.shown = Bar!Seen(u) /\ v.asking = u.asking
  BY DEF Bar!Publish, UiType
<1> HIDE DEF v
<1> QED BY <1>2, <1>3 DEF v, PageOf, Bar!Seen, Bar!TopInset

(* A layout changes room and timer; what is shown has its room afterwards.   *)
LEMMA LaidOut ==
  ASSUME NEW u \in UiType
  PROVE  LET v == Bar!Layout(u) IN
         /\ v \in UiType /\ PageOf(v) = PageOf(u) /\ v.auto = u.auto /\ v.visible = u.visible
         /\ v.panel = u.panel /\ v.shown = u.shown /\ (Bar!TopInset(v) => v.inset) /\ Bar!Seen(v) = Bar!Seen(u)
         /\ v.asking = u.asking
<1>1. CASE u.inset /\ ~Bar!TopInset(u)
  <2> DEFINE v == [u EXCEPT !.timer = TRUE]
  <2>1. v \in UiType
    BY Zenon DEF UiType
  <2>2. /\ v.visible = u.visible /\ v.panel = u.panel /\ v.fullscreen = u.fullscreen
        /\ v.game = u.game /\ v.media = u.media /\ v.beforeFullscreen = u.beforeFullscreen
        /\ v.beforeGame = u.beforeGame /\ v.auto = u.auto /\ v.inset = u.inset
        /\ v.shown = u.shown /\ v.asking = u.asking
    BY DEF UiType
  <2>3. Bar!Layout(u) = v
    BY <1>1 DEF Bar!Layout
  <2> HIDE DEF v
  <2> QED BY <1>1, <2>1, <2>2, <2>3 DEF PageOf, Bar!Seen, Bar!TopInset
<1>2. CASE ~(u.inset /\ ~Bar!TopInset(u))
  <2> DEFINE v == [u EXCEPT !.timer = FALSE, !.inset = Bar!TopInset(u)]
  <2>1. Bar!TopInset(u) \in BOOLEAN
    BY DEF Bar!TopInset, UiType
  <2>2. v \in UiType
    BY Zenon, <2>1 DEF UiType
  <2>3. /\ v.visible = u.visible /\ v.panel = u.panel /\ v.fullscreen = u.fullscreen
        /\ v.game = u.game /\ v.media = u.media /\ v.beforeFullscreen = u.beforeFullscreen
        /\ v.beforeGame = u.beforeGame /\ v.auto = u.auto /\ v.inset = Bar!TopInset(u)
        /\ v.shown = u.shown /\ v.asking = u.asking
    BY DEF UiType
  <2>4. Bar!Layout(u) = v
    BY <1>2 DEF Bar!Layout
  <2> HIDE DEF v
  <2> QED BY <2>2, <2>3, <2>4 DEF PageOf, Bar!Seen, Bar!TopInset
<1> QED BY <1>1, <1>2

(* Saving the state makes the toolbar sound.                                *)
LEMMA Saved ==
  ASSUME NEW u \in UiType
  PROVE  LET v == Bar!SaveState(u) IN
         /\ v \in UiType /\ PageOf(v) = PageOf(u) /\ v.auto = u.auto /\ v.visible = u.visible
         /\ v.panel = u.panel /\ Sound(v) /\ v.asking = u.asking
<1> DEFINE p == Bar!Publish(u)
           v == Bar!Layout(p)
<1>1. /\ p \in UiType /\ PageOf(p) = PageOf(u) /\ p.auto = u.auto /\ p.visible = u.visible
      /\ p.panel = u.panel /\ p.shown = Bar!Seen(p) /\ p.asking = u.asking
  BY Published
<1>2. Bar!SaveState(u) = v
  BY DEF Bar!SaveState
<1> HIDE DEF p
<1>3. /\ v \in UiType /\ PageOf(v) = PageOf(p) /\ v.auto = p.auto /\ v.visible = p.visible
      /\ v.panel = p.panel /\ v.shown = p.shown /\ (Bar!TopInset(v) => v.inset) /\ Bar!Seen(v) = Bar!Seen(p)
      /\ v.asking = p.asking
  BY <1>1, LaidOut
<1> HIDE DEF v
<1> QED BY <1>1, <1>2, <1>3 DEF Sound

(* Shown or hidden: nothing waits any more.                                 *)
LEMMA Shows ==
  ASSUME NEW u \in UiType, NEW visible \in BOOLEAN
  PROVE  LET v == Bar!SetVisible(u, visible) IN
         /\ v \in UiType /\ PageOf(v) = PageOf(u) /\ v.auto = "none" /\ v.visible = visible
         /\ v.panel = u.panel /\ v.inset = u.inset /\ v.shown = u.shown
<1> DEFINE v == Bar!SetVisible(u, visible)
<1>1. v \in UiType
  BY Zenon DEF Bar!SetVisible, UiType, Bar!Wishes
<1>2. /\ v.visible = visible /\ v.panel = u.panel /\ v.fullscreen = u.fullscreen
      /\ v.game = u.game /\ v.media = u.media /\ v.beforeFullscreen = u.beforeFullscreen
      /\ v.beforeGame = u.beforeGame /\ v.auto = "none" /\ v.inset = u.inset
      /\ v.shown = u.shown
  BY DEF Bar!SetVisible, UiType
<1> HIDE DEF v
<1> QED BY <1>1, <1>2 DEF v, PageOf

(* A panel opens or closes, the rest stays.                                 *)
LEMMA TakesPanel ==
  ASSUME NEW u \in UiType, NEW panel \in Bar!Panels
  PROVE  LET v == [u EXCEPT !.panel = panel] IN
         /\ v \in UiType /\ PageOf(v) = PageOf(u) /\ v.auto = u.auto /\ v.visible = u.visible
         /\ v.panel = panel /\ v.inset = u.inset /\ v.shown = u.shown
<1> DEFINE v == [u EXCEPT !.panel = panel]
<1>1. v \in UiType
  BY Zenon DEF UiType
<1>2. /\ v.visible = u.visible /\ v.panel = panel /\ v.fullscreen = u.fullscreen
      /\ v.game = u.game /\ v.media = u.media /\ v.beforeFullscreen = u.beforeFullscreen
      /\ v.beforeGame = u.beforeGame /\ v.auto = u.auto /\ v.inset = u.inset
      /\ v.shown = u.shown
  BY DEF UiType
<1> HIDE DEF v
<1> QED BY <1>1, <1>2 DEF v, PageOf

(* The keyboard is asked, the rest stays.                                   *)
LEMMA AsksOnly ==
  ASSUME NEW u \in UiType, NEW kind \in {"none", "address", "setting", "name"}
  PROVE  LET v == Bar!Asks(u, kind) IN
         /\ v \in UiType /\ PageOf(v) = PageOf(u) /\ v.auto = u.auto /\ v.visible = u.visible
         /\ v.panel = u.panel /\ v.inset = u.inset /\ v.shown = u.shown
<1> DEFINE v == Bar!Asks(u, kind)
<1>1. v \in UiType
  BY Zenon DEF Bar!Asks, UiType
<1>2. /\ v.visible = u.visible /\ v.panel = u.panel /\ v.fullscreen = u.fullscreen
      /\ v.game = u.game /\ v.media = u.media /\ v.beforeFullscreen = u.beforeFullscreen
      /\ v.beforeGame = u.beforeGame /\ v.auto = u.auto /\ v.inset = u.inset
      /\ v.shown = u.shown
  BY DEF Bar!Asks, UiType
<1> HIDE DEF v
<1> QED BY <1>1, <1>2 DEF v, PageOf
-----------------------------------------------------------------------------
(* Whatever is saved is harmless, whatever loads or opens a panel settles.  *)
LEMMA SaveHarmless ==
  ASSUME NEW u \in UiType, NEW w \in UiType, PageOf(w) = PageOf(u), w.auto \in {u.auto, "none"}
  PROVE  Harmless(u, Bar!SaveState(w))
BY Saved DEF Harmless

(* A page is loaded: the panel closes and the toolbar is shown.             *)
LEMMA LoadSettles ==
  ASSUME NEW u \in UiType, NEW w \in UiType, PageOf(w) = PageOf(u)
  PROVE  Settles(u, Bar!LoadUrl(w)) /\ Sound(Bar!LoadUrl(w)) /\ Bar!LoadUrl(w) \in UiType
<1> DEFINE c == Bar!ClosePanel(w)
           v == Bar!SetVisible(c, TRUE)
<1>1. c \in UiType /\ PageOf(c) = PageOf(u)
  BY TakesPanel DEF Bar!ClosePanel, Bar!Panels
<1> HIDE DEF c
<1>2. v \in UiType /\ PageOf(v) = PageOf(u) /\ v.auto = "none"
  BY <1>1, Shows
<1>3. Bar!LoadUrl(w) = Bar!SaveState(v)
  BY DEF Bar!LoadUrl, c, v
<1> HIDE DEF v
<1> QED BY <1>2, <1>3, Saved DEF Settles, Harmless

(* A panel is opened by the user.                                           *)
LEMMA OpenSettles ==
  ASSUME NEW u \in UiType, NEW w \in UiType, PageOf(w) = PageOf(u), NEW panel \in Bar!Panels
  PROVE  LET v == Bar!OpenPanel(w, panel) IN
         /\ v \in UiType /\ PageOf(v) = PageOf(u) /\ v.auto = "none"
         /\ v.panel = panel /\ v.inset = w.inset /\ v.visible
<1> DEFINE p == [w EXCEPT !.panel = panel]
<1>1. p \in UiType /\ PageOf(p) = PageOf(u) /\ p.panel = panel /\ p.inset = w.inset
  BY TakesPanel
<1> HIDE DEF p
<1>2. Bar!OpenPanel(w, panel) = Bar!SetVisible(p, TRUE)
  BY DEF Bar!OpenPanel, p
<1> QED BY <1>1, <1>2, Shows

(* What the user does without touching what scrolling asked for.            *)
LEMMA BecomesKeeps ==
  ASSUME ToolbarInv, NEW u, Harmless(ui, u), Bar!Becomes(u)
  PROVE  ToolbarInv' /\ Bar!GivesBack
<1>1. /\ ui \in UiType /\ hist \in HistType /\ u \in UiType
      /\ ui' = u /\ PageOf(u) = PageOf(ui) /\ u.auto \in {ui.auto, "none"}
      /\ hist.gap \/ Sound(u)
  BY DEF ToolbarInv, Harmless, Bar!Becomes
<1>2. Bar!Missing(u) \in BOOLEAN /\ (~Bar!Missing(u) => Sound(u))
  BY <1>1 DEF Bar!Missing, Sound, Bar!TopInset, Bar!Seen, UiType
<1> DEFINE g == hist.gap /\ Bar!Missing(u)
           h == [hist EXCEPT !.gap = g]
<1>3. g \in BOOLEAN /\ (g \/ Sound(u))
  BY <1>1, <1>2 DEF HistType
<1> HIDE DEF g
<1>4. /\ h \in HistType /\ h.gap = g /\ h.asked = hist.asked
      /\ h.wanted = hist.wanted /\ h.overGame = hist.overGame
  BY <1>1, <1>3 DEF HistType
<1>5. hist' = h
  BY DEF Bar!Becomes, g, h
<1> HIDE DEF h
<1>6. /\ u.fullscreen = ui.fullscreen /\ u.game = ui.game /\ u.media = ui.media
      /\ u.beforeFullscreen = ui.beforeFullscreen /\ u.beforeGame = ui.beforeGame
  BY <1>1 DEF PageOf
<1>7. WaitsAsAsked(u, h) /\ Remembered(u, h)
  BY <1>1, <1>4, <1>6 DEF ToolbarInv, WaitsAsAsked, Remembered
<1>8. ToolbarInv'
  BY <1>1, <1>3, <1>4, <1>5, <1>7 DEF ToolbarInv
<1> QED BY <1>1, <1>6, <1>8 DEF Bar!GivesBack, Bar!Covered

(* The user asks for something else: nothing waits any more.                *)
LEMMA ManuallyKeeps ==
  ASSUME ToolbarInv, NEW u, Settles(ui, u), Bar!Manually(u)
  PROVE  ToolbarInv' /\ Bar!GivesBack
<1>1. /\ ui \in UiType /\ hist \in HistType /\ u \in UiType
      /\ ui' = u /\ PageOf(u) = PageOf(ui) /\ u.auto = "none"
      /\ hist.gap \/ Sound(u)
  BY DEF ToolbarInv, Harmless, Settles, Bar!Manually
<1>2. Bar!Missing(u) \in BOOLEAN /\ (~Bar!Missing(u) => Sound(u))
  BY <1>1 DEF Bar!Missing, Sound, Bar!TopInset, Bar!Seen, UiType
<1> DEFINE g == hist.gap /\ Bar!Missing(u)
           h == [hist EXCEPT !.asked = "none", !.gap = g]
<1>3. g \in BOOLEAN /\ (g \/ Sound(u))
  BY <1>1, <1>2 DEF HistType
<1> HIDE DEF g
<1>4. /\ h \in HistType /\ h.gap = g
      /\ h.wanted = hist.wanted /\ h.overGame = hist.overGame
  BY <1>1, <1>3 DEF HistType, Bar!Wishes
<1>5. hist' = h
  BY DEF Bar!Manually, g, h
<1> HIDE DEF h
<1>6. /\ u.fullscreen = ui.fullscreen /\ u.game = ui.game /\ u.media = ui.media
      /\ u.beforeFullscreen = ui.beforeFullscreen /\ u.beforeGame = ui.beforeGame
  BY <1>1 DEF PageOf
<1>7. WaitsAsAsked(u, h) /\ Remembered(u, h)
  BY <1>1, <1>4, <1>6 DEF ToolbarInv, WaitsAsAsked, Remembered
<1>8. ToolbarInv'
  BY <1>1, <1>3, <1>4, <1>5, <1>7 DEF ToolbarInv
<1> QED BY <1>1, <1>6, <1>8 DEF Bar!GivesBack, Bar!Covered

(* Something is shown without a layout: the gap says so.                    *)
LEMMA UnlaidKeeps ==
  ASSUME ToolbarInv, NEW u \in UiType, PageOf(u) = PageOf(ui), u.auto \in {ui.auto, "none"}, Bar!Unlaid(u)
  PROVE  ToolbarInv' /\ Bar!GivesBack
<1>1. ui \in UiType /\ hist \in HistType /\ ui' = u
  BY DEF ToolbarInv, Bar!Unlaid
<1> DEFINE h == [hist EXCEPT !.gap = TRUE]
<1>2. /\ h \in HistType /\ h.gap /\ h.asked = hist.asked
      /\ h.wanted = hist.wanted /\ h.overGame = hist.overGame
  BY <1>1 DEF HistType
<1>3. hist' = h
  BY DEF Bar!Unlaid
<1> HIDE DEF h
<1>4. /\ u.fullscreen = ui.fullscreen /\ u.game = ui.game /\ u.media = ui.media
      /\ u.beforeFullscreen = ui.beforeFullscreen /\ u.beforeGame = ui.beforeGame
  BY <1>1 DEF PageOf
<1>5. WaitsAsAsked(u, h) /\ Remembered(u, h)
  BY <1>1, <1>2, <1>4 DEF ToolbarInv, WaitsAsAsked, Remembered
<1> QED BY <1>1, <1>2, <1>3, <1>4, <1>5 DEF ToolbarInv, Bar!GivesBack, Bar!Covered
-----------------------------------------------------------------------------
(* Closing what is open and opening a list where a panel is already open.   *)
LEMMA CloseHarmless ==
  ASSUME NEW u \in UiType
  PROVE  /\ Bar!ClosePanel(u) \in UiType /\ PageOf(Bar!ClosePanel(u)) = PageOf(u) /\ Bar!ClosePanel(u).auto = u.auto
         /\ Harmless(u, Bar!SaveState(Bar!ClosePanel(u)))
         /\ Harmless(u, Bar!Publish(Bar!ClosePanel(u)))
<1> DEFINE c == Bar!ClosePanel(u)
           p == Bar!Publish(c)
<1>1. /\ c \in UiType /\ PageOf(c) = PageOf(u) /\ c.auto = u.auto /\ c.visible = u.visible
      /\ c.panel = "none" /\ c.inset = u.inset
  BY TakesPanel DEF Bar!ClosePanel, Bar!Panels
<1>2. c.fullscreen = u.fullscreen
  BY <1>1 DEF PageOf
<1> HIDE DEF c
<1>3. /\ p \in UiType /\ PageOf(p) = PageOf(c) /\ p.auto = c.auto
      /\ p.inset = c.inset /\ p.shown = Bar!Seen(p) /\ Bar!TopInset(p) = Bar!TopInset(c)
  BY <1>1, Published
<1> HIDE DEF p
<1>4. Bar!TopInset(c) => Bar!TopInset(u)
  BY <1>1, <1>2 DEF Bar!TopInset
<1>5. Harmless(u, p)
  BY <1>1, <1>3, <1>4 DEF Harmless, Sound
<1>6. Harmless(u, Bar!SaveState(c))
  BY <1>1, SaveHarmless
<1> QED BY <1>1, <1>5, <1>6 DEF c, p

(* A list is opened, in place of another panel or with room for it.         *)
LEMMA ListHarmless ==
  ASSUME NEW u \in UiType
  PROVE  /\ Bar!OpenList(u) \in UiType /\ PageOf(Bar!OpenList(u)) = PageOf(u) /\ Bar!OpenList(u).auto = u.auto
         /\ LET p == Bar!Publish(Bar!OpenList(u)) IN
            /\ p \in UiType /\ PageOf(p) = PageOf(u) /\ p.auto = u.auto
            /\ Bar!TopInset(p) = Bar!TopInset(u) => Harmless(u, p)
         /\ u.panel # "none" => Harmless(u, Bar!Publish(Bar!OpenList(u)))
<1> DEFINE c == Bar!OpenList(u)
           p == Bar!Publish(c)
<1>1. /\ c \in UiType /\ PageOf(c) = PageOf(u) /\ c.auto = u.auto
      /\ c.panel = "list" /\ c.inset = u.inset
  BY TakesPanel DEF Bar!OpenList, Bar!Panels
<1>2. c.fullscreen = u.fullscreen
  BY <1>1 DEF PageOf
<1> HIDE DEF c
<1>3. /\ p \in UiType /\ PageOf(p) = PageOf(c) /\ p.auto = c.auto
      /\ p.inset = c.inset /\ p.shown = Bar!Seen(p) /\ Bar!TopInset(p) = Bar!TopInset(c)
  BY <1>1, Published
<1> HIDE DEF p
<1>4. u.panel # "none" => Bar!TopInset(c) = Bar!TopInset(u)
  BY <1>1, <1>2 DEF Bar!TopInset
<1>5. Bar!TopInset(p) = Bar!TopInset(u) => Harmless(u, p)
  BY <1>1, <1>3 DEF Harmless, Sound
<1> QED BY <1>1, <1>3, <1>4, <1>5 DEF c, p

(* What needs no more room may be published as it is.                       *)
LEMMA PublishHarmless ==
  ASSUME NEW u \in UiType, NEW w \in UiType, PageOf(w) = PageOf(u), w.auto \in {u.auto, "none"},
         w.inset = u.inset, Bar!TopInset(w) = Bar!TopInset(u)
  PROVE  Harmless(u, Bar!Publish(w))
<1> DEFINE p == Bar!Publish(w)
<1>1. /\ p \in UiType /\ PageOf(p) = PageOf(w) /\ p.auto = w.auto
      /\ p.inset = w.inset /\ p.shown = Bar!Seen(p) /\ Bar!TopInset(p) = Bar!TopInset(w)
  BY Published
<1> HIDE DEF p
<1>2. Harmless(u, p)
  BY <1>1 DEF Harmless, Sound
<1> QED BY <1>2 DEF p
-----------------------------------------------------------------------------
(* The taps, one action after the other.                                    *)
LEMMA TapOutsideKeeps ==
  ASSUME ToolbarInv, Bar!TapOutside
  PROVE  ToolbarInv' /\ Bar!GivesBack
BY BecomesKeeps, CloseHarmless DEF Bar!TapOutside, ToolbarInv

(* A tab is taken, closed or opened.                                        *)
LEMMA TapTabKeeps ==
  ASSUME ToolbarInv, Bar!TapTab
  PROVE  ToolbarInv' /\ Bar!GivesBack
<1>1. ui \in UiType
  BY DEF ToolbarInv
<1>2. CASE Bar!Becomes(Bar!SaveState(Bar!ClosePanel(ui)))
  BY <1>1, <1>2, BecomesKeeps, CloseHarmless
<1>3. CASE Bar!Manually(Bar!LoadUrl(ui))
  BY <1>1, <1>3, ManuallyKeeps, LoadSettles
<1>4. CASE Bar!Becomes(Bar!SaveState(ui))
  BY <1>1, <1>4, BecomesKeeps, SaveHarmless
<1>5. CASE Bar!Manually(Bar!SaveState(Bar!OpenPanel(Bar!LoadUrl(ui), "tabs")))
  <2> DEFINE l == Bar!LoadUrl(ui)
             o == Bar!OpenPanel(l, "tabs")
  <2>1. l \in UiType /\ PageOf(l) = PageOf(ui)
    BY <1>1, LoadSettles DEF Settles, Harmless
  <2> HIDE DEF l
  <2>2. o \in UiType /\ PageOf(o) = PageOf(ui) /\ o.auto = "none"
    BY <1>1, <2>1, OpenSettles DEF Bar!Panels
  <2>3. Bar!Manually(Bar!SaveState(o))
    BY <1>5 DEF l
  <2> HIDE DEF o
  <2>4. Settles(ui, Bar!SaveState(o))
    BY <1>1, <2>2, SaveHarmless, Saved DEF Settles
  <2> QED BY <2>3, <2>4, ManuallyKeeps
<1> QED BY <1>2, <1>3, <1>4, <1>5 DEF Bar!TapTab

(* A row of the menu.                                                       *)
LEMMA TapMenuKeeps ==
  ASSUME ToolbarInv, Bar!TapMenu
  PROVE  ToolbarInv' /\ Bar!GivesBack
<1>1. ui \in UiType /\ ui.panel = "menu"
  BY DEF ToolbarInv, Bar!TapMenu
<1>2. CASE Bar!Becomes(Bar!Publish(Bar!OpenList(ui)))
  BY <1>1, <1>2, BecomesKeeps, ListHarmless
<1>3. CASE Bar!Becomes(Bar!Publish(ui))
  BY <1>1, <1>3, BecomesKeeps, PublishHarmless
<1> QED BY <1>2, <1>3 DEF Bar!TapMenu

(* The head of a list leads back, on or out.                                *)
LEMMA TapHeaderKeeps ==
  ASSUME ToolbarInv, Bar!TapHeader
  PROVE  ToolbarInv' /\ Bar!GivesBack
<1>1. ui \in UiType /\ ui.panel = "list"
  BY DEF ToolbarInv, Bar!TapHeader, Bar!OnList
<1>2. CASE Bar!Manually(Bar!Publish(Bar!OpenPanel(ui, "menu")))
  <2> DEFINE o == Bar!OpenPanel(ui, "menu")
  <2>1. o \in UiType /\ PageOf(o) = PageOf(ui) /\ o.auto = "none" /\ o.panel = "menu" /\ o.inset = ui.inset
    BY <1>1, OpenSettles DEF Bar!Panels
  <2> HIDE DEF o
  <2>2. Bar!TopInset(o) = Bar!TopInset(ui)
    BY <1>1, <2>1 DEF Bar!TopInset, PageOf
  <2>3. Settles(ui, Bar!Publish(o))
    BY <1>1, <2>1, <2>2, PublishHarmless, Published DEF Settles
  <2> QED BY <1>2, <2>3, ManuallyKeeps DEF o
<1>3. CASE Bar!Becomes(Bar!Publish(Bar!OpenList(ui)))
  BY <1>1, <1>3, BecomesKeeps, ListHarmless
<1>4. CASE Bar!Becomes(Bar!Publish(Bar!ClosePanel(ui)))
  BY <1>1, <1>4, BecomesKeeps, CloseHarmless
<1> QED BY <1>2, <1>3, <1>4 DEF Bar!TapHeader

(* A question asked or answered moves nothing.                              *)
LEMMA AsksHarmless ==
  ASSUME NEW u \in UiType, NEW kind \in {"none", "address", "setting", "name"}
  PROVE  LET a == Bar!Asks(u, kind) IN
         /\ a \in UiType /\ PageOf(a) = PageOf(u) /\ a.auto = u.auto /\ a.panel = u.panel
         /\ a.inset = u.inset /\ Bar!TopInset(a) = Bar!TopInset(u)
         /\ Harmless(u, a) /\ Harmless(u, Bar!Publish(a))
<1> DEFINE a == Bar!Asks(u, kind)
<1>1. /\ a \in UiType /\ PageOf(a) = PageOf(u) /\ a.auto = u.auto /\ a.visible = u.visible
      /\ a.panel = u.panel /\ a.inset = u.inset /\ a.shown = u.shown
  BY AsksOnly
<1> HIDE DEF a
<1>2. Bar!TopInset(a) = Bar!TopInset(u) /\ Bar!Seen(a) = Bar!Seen(u)
  BY <1>1 DEF Bar!TopInset, Bar!Seen, PageOf
<1>3. Harmless(u, a)
  BY <1>1, <1>2 DEF Harmless, Sound
<1>4. Harmless(u, Bar!Publish(a))
  BY <1>1, <1>2, PublishHarmless
<1> QED BY <1>1, <1>2, <1>3, <1>4 DEF a

(* Saving what the user has just chosen.                                    *)
LEMMA SaveSettles ==
  ASSUME NEW u \in UiType, NEW w \in UiType, PageOf(w) = PageOf(u), w.auto = "none"
  PROVE  Settles(u, Bar!SaveState(w))
BY SaveHarmless, Saved DEF Settles

(* A row of the settings.                                                   *)
LEMMA TapSettingKeeps ==
  ASSUME ToolbarInv, Bar!TapSetting
  PROVE  ToolbarInv' /\ Bar!GivesBack
<1>1. ui \in UiType
  BY DEF ToolbarInv
<1>2. ASSUME NEW kind \in {ui.asking, "setting"}, Bar!Becomes(Bar!Publish(Bar!Asks(ui, kind)))
      PROVE  ToolbarInv' /\ Bar!GivesBack
  <2>1. kind \in {"none", "address", "setting", "name"}
    BY <1>1, <1>2 DEF UiType
  <2>2. Harmless(ui, Bar!Publish(Bar!Asks(ui, kind)))
    BY <1>1, <2>1, AsksHarmless
  <2> QED BY <1>2, <2>2, BecomesKeeps
<1>3. CASE Bar!Becomes(Bar!Publish(Bar!SaveState(ui)))
  <2> DEFINE s == Bar!SaveState(ui)
             p == Bar!Publish(s)
  <2>1. s \in UiType /\ PageOf(s) = PageOf(ui) /\ s.auto = ui.auto /\ Sound(s)
    BY <1>1, Saved
  <2>2. Bar!Becomes(p)
    BY <1>3
  <2> HIDE DEF s
  <2>3. /\ p \in UiType /\ PageOf(p) = PageOf(s) /\ p.auto = s.auto
        /\ p.inset = s.inset /\ p.shown = Bar!Seen(p) /\ Bar!TopInset(p) = Bar!TopInset(s)
    BY <2>1, Published
  <2> HIDE DEF p
  <2>4. Harmless(ui, p)
    BY <2>1, <2>3 DEF Harmless, Sound
  <2> QED BY <2>2, <2>4, BecomesKeeps
<1>4. CASE Bar!Becomes(Bar!Publish(Bar!ClosePanel(ui)))
  BY <1>1, <1>4, BecomesKeeps, CloseHarmless
<1>5. CASE Bar!Manually(Bar!LoadUrl(ui))
  BY <1>1, <1>5, ManuallyKeeps, LoadSettles
<1> QED BY <1>2, <1>3, <1>4, <1>5 DEF Bar!TapSetting

(* A profile, a bookmark, a page of the history.                            *)
LEMMA TapRecordKeeps ==
  ASSUME ToolbarInv, Bar!TapRecord
  PROVE  ToolbarInv' /\ Bar!GivesBack
<1>1. ui \in UiType
  BY DEF ToolbarInv
<1>2. ASSUME NEW kind \in {ui.asking, "name"}, Bar!Becomes(Bar!Publish(Bar!Asks(ui, kind)))
      PROVE  ToolbarInv' /\ Bar!GivesBack
  <2>1. kind \in {"none", "address", "setting", "name"}
    BY <1>1, <1>2 DEF UiType
  <2>2. Harmless(ui, Bar!Publish(Bar!Asks(ui, kind)))
    BY <1>1, <2>1, AsksHarmless
  <2> QED BY <1>2, <2>2, BecomesKeeps
<1>3. CASE Bar!Manually(Bar!Publish(Bar!LoadUrl(ui)))
  <2> DEFINE l == Bar!LoadUrl(ui)
             p == Bar!Publish(l)
  <2>1. l \in UiType /\ PageOf(l) = PageOf(ui) /\ l.auto = "none" /\ Sound(l)
    BY <1>1, LoadSettles DEF Settles, Harmless
  <2>2. Bar!Manually(p)
    BY <1>3
  <2> HIDE DEF l
  <2>3. /\ p \in UiType /\ PageOf(p) = PageOf(l) /\ p.auto = l.auto
        /\ p.inset = l.inset /\ p.shown = Bar!Seen(p) /\ Bar!TopInset(p) = Bar!TopInset(l)
    BY <2>1, Published
  <2> HIDE DEF p
  <2>4. Settles(ui, p)
    BY <2>1, <2>3 DEF Settles, Harmless, Sound
  <2> QED BY <2>2, <2>4, ManuallyKeeps
<1> QED BY <1>2, <1>3 DEF Bar!TapRecord

(* A setting of the appearance is on or off.                                *)
LEMMA SettingTyped ==
  ASSUME NEW u \in UiType, NEW on \in BOOLEAN
  PROVE  [u EXCEPT !.autoHide = on] \in UiType /\ [u EXCEPT !.inImmersive = on] \in UiType
BY Zenon DEF UiType

(* Automatic hiding is switched on or off.                                  *)
LEMMA TapAutoHideKeeps ==
  ASSUME ToolbarInv, Bar!TapAutoHide
  PROVE  ToolbarInv' /\ Bar!GivesBack
<1>1. ui \in UiType
  BY DEF ToolbarInv
<1> DEFINE c == [ui EXCEPT !.autoHide = ~ui.autoHide]
           v == Bar!SetVisible(c, TRUE)
<1>2. c \in UiType
  <2>1. (~ui.autoHide) \in BOOLEAN
    BY Zenon, <1>1 DEF UiType
  <2> QED BY <1>1, <2>1, SettingTyped
<1>3. PageOf(c) = PageOf(ui) /\ c.auto = ui.auto
  BY <1>1 DEF UiType, PageOf
<1>4. Bar!Becomes(Bar!SaveState(c)) \/ Bar!Manually(Bar!SaveState(v))
  BY DEF Bar!TapAutoHide
<1> HIDE DEF c
<1>5. v \in UiType /\ PageOf(v) = PageOf(ui) /\ v.auto = "none"
  BY <1>2, <1>3, Shows
<1> HIDE DEF v
<1>6. Harmless(ui, Bar!SaveState(c)) /\ Settles(ui, Bar!SaveState(v))
  BY <1>1, <1>2, <1>3, <1>5, SaveHarmless, SaveSettles
<1> QED BY <1>4, <1>6, BecomesKeeps, ManuallyKeeps

(* The gesture in full screen is allowed or not.                            *)
LEMMA TapInImmersiveKeeps ==
  ASSUME ToolbarInv, Bar!TapInImmersive
  PROVE  ToolbarInv' /\ Bar!GivesBack
<1>1. ui \in UiType
  BY DEF ToolbarInv
<1> DEFINE c == [ui EXCEPT !.inImmersive = ~ui.inImmersive]
           o == [c EXCEPT !.override = FALSE]
           p == Bar!ClosePanel(o)
           v == Bar!SetVisible(p, FALSE)
<1>2. c \in UiType
  <2>1. (~ui.inImmersive) \in BOOLEAN
    BY Zenon, <1>1 DEF UiType
  <2> QED BY <1>1, <2>1, SettingTyped
<1>3. PageOf(c) = PageOf(ui) /\ c.auto = ui.auto
  BY <1>1 DEF UiType, PageOf
<1>4. Bar!Becomes(Bar!SaveState(c)) \/ Bar!Manually(Bar!SaveState(v))
  BY Zenon DEF Bar!TapInImmersive
<1> HIDE DEF c
<1>5. o \in UiType
  BY Zenon, <1>2 DEF UiType
<1>6. PageOf(o) = PageOf(c)
  BY <1>2 DEF UiType, PageOf
<1> HIDE DEF o
<1>7. p \in UiType /\ PageOf(p) = PageOf(o)
  BY <1>5, CloseHarmless
<1> HIDE DEF p
<1>8. v \in UiType /\ PageOf(v) = PageOf(ui) /\ v.auto = "none"
  BY <1>3, <1>6, <1>7, Shows
<1> HIDE DEF v
<1>9. Harmless(ui, Bar!SaveState(c)) /\ Settles(ui, Bar!SaveState(v))
  BY <1>1, <1>2, <1>3, <1>8, SaveHarmless, SaveSettles
<1> QED BY <1>4, <1>9, BecomesKeeps, ManuallyKeeps

(* A tap on the toolbar itself.                                             *)
LEMMA TapToolbarKeeps ==
  ASSUME ToolbarInv, Bar!TapToolbar
  PROVE  ToolbarInv' /\ Bar!GivesBack
<1>1. ui \in UiType
  BY DEF ToolbarInv
<1>2. CASE Bar!Manually(Bar!Asks(Bar!SaveState(Bar!SetVisible(Bar!ClosePanel(ui), TRUE)), "address"))
  <2> DEFINE v == Bar!SetVisible(Bar!ClosePanel(ui), TRUE)
             s == Bar!SaveState(v)
             a == Bar!Asks(s, "address")
  <2>1. v \in UiType /\ PageOf(v) = PageOf(ui) /\ v.auto = "none"
    BY <1>1, CloseHarmless, Shows
  <2>2. Bar!Manually(a)
    BY <1>2
  <2> HIDE DEF v
  <2>3. s \in UiType /\ PageOf(s) = PageOf(ui) /\ s.auto = "none" /\ Sound(s)
    BY <2>1, Saved
  <2> HIDE DEF s
  <2>4. Harmless(s, a)
    BY <2>3, AsksHarmless
  <2> HIDE DEF a
  <2>5. Settles(ui, a)
    BY <2>3, <2>4 DEF Settles, Harmless
  <2> QED BY <2>2, <2>5, ManuallyKeeps
<1>3. CASE Bar!Manually(Bar!LoadUrl(ui))
  BY <1>1, <1>3, ManuallyKeeps, LoadSettles
<1>4. CASE Bar!Becomes(Bar!SaveState(Bar!ClosePanel(ui)))
  BY <1>1, <1>4, BecomesKeeps, CloseHarmless
<1>5. ASSUME NEW panel \in {"tabs", "menu"}, Bar!Manually(Bar!SaveState(Bar!OpenPanel(ui, panel)))
      PROVE  ToolbarInv' /\ Bar!GivesBack
  <2> DEFINE o == Bar!OpenPanel(ui, panel)
  <2>1. o \in UiType /\ PageOf(o) = PageOf(ui) /\ o.auto = "none"
    BY <1>1, <1>5, OpenSettles DEF Bar!Panels
  <2> HIDE DEF o
  <2>2. Settles(ui, Bar!SaveState(o))
    BY <1>1, <2>1, SaveSettles
  <2> QED BY <1>5, <2>2, ManuallyKeeps DEF o
<1> QED BY Zenon, <1>2, <1>3, <1>4, <1>5 DEF Bar!TapToolbar

(* A late answer of the keyboard: without a gap only where the room is there. *)
LEMMA KeyboardResultKeeps ==
  ASSUME ToolbarInv, Bar!KeyboardResult
  PROVE  ToolbarInv' /\ Bar!GivesBack
<1>1. ui \in UiType
  BY DEF ToolbarInv
<1> DEFINE d == Bar!Asks(ui, "none")
           l == Bar!OpenList(d)
           n == Bar!Publish(l)
<1>2. /\ Bar!Manually(Bar!LoadUrl(d)) \/ Bar!Becomes(Bar!SaveState(l))
         \/ (Bar!TopInset(n) = Bar!TopInset(ui) /\ Bar!Becomes(n)) \/ Bar!Unlaid(n)
  BY Zenon DEF Bar!KeyboardResult
<1>3. /\ d \in UiType /\ PageOf(d) = PageOf(ui) /\ d.auto = ui.auto
      /\ d.inset = ui.inset /\ Bar!TopInset(d) = Bar!TopInset(ui) /\ Harmless(ui, d)
  BY <1>1, AsksHarmless
<1> HIDE DEF d
<1>4. /\ l \in UiType /\ PageOf(l) = PageOf(d) /\ l.auto = d.auto
      /\ n \in UiType /\ PageOf(n) = PageOf(d) /\ n.auto = d.auto
      /\ Bar!TopInset(n) = Bar!TopInset(d) => Harmless(d, n)
  BY <1>3, ListHarmless
<1> HIDE DEF l, n
<1>5. Settles(ui, Bar!LoadUrl(d))
  BY <1>1, <1>3, LoadSettles
<1>6. Harmless(ui, Bar!SaveState(l))
  BY <1>1, <1>3, <1>4, SaveHarmless
<1>7. Bar!TopInset(n) = Bar!TopInset(ui) => Harmless(ui, n)
  BY <1>3, <1>4 DEF Harmless
<1> QED BY <1>2, <1>3, <1>4, <1>5, <1>6, <1>7, BecomesKeeps, ManuallyKeeps, UnlaidKeeps

(* No answer.                                                               *)
LEMMA KeyboardCancelledKeeps ==
  ASSUME ToolbarInv, Bar!KeyboardCancelled
  PROVE  ToolbarInv' /\ Bar!GivesBack
BY AsksHarmless, BecomesKeeps DEF Bar!KeyboardCancelled, ToolbarInv

(* The fingers are no part of what is shown.                                *)
LEMMA FingerHarmless ==
  ASSUME NEW u \in UiType, NEW touching \in BOOLEAN, NEW tapped \in BOOLEAN
  PROVE  LET v == [u EXCEPT !.touching = touching, !.tapped = tapped] IN Harmless(u, v)
<1> DEFINE v == [u EXCEPT !.touching = touching, !.tapped = tapped]
<1>1. v \in UiType
  BY Zenon DEF UiType
<1>2. /\ v.visible = u.visible /\ v.panel = u.panel /\ v.fullscreen = u.fullscreen
      /\ v.game = u.game /\ v.media = u.media /\ v.beforeFullscreen = u.beforeFullscreen
      /\ v.beforeGame = u.beforeGame /\ v.auto = u.auto /\ v.inset = u.inset
      /\ v.shown = u.shown
  BY DEF UiType
<1> HIDE DEF v
<1>3. Harmless(u, v)
  BY <1>1, <1>2 DEF PageOf, Harmless, Sound, Bar!TopInset, Bar!Seen
<1> QED BY <1>3 DEF v

(* Fingers come and go.                                                     *)
LEMMA TouchesKeep ==
  ASSUME ToolbarInv, Bar!GestureTapped \/ Bar!TouchDown \/ Bar!TouchUp
  PROVE  ToolbarInv' /\ Bar!GivesBack
<1>1. ui \in UiType
  BY DEF ToolbarInv
<1>2. \A t, f \in BOOLEAN : Harmless(ui, [ui EXCEPT !.touching = t, !.tapped = f])
  BY <1>1, FingerHarmless
<1>3. ui.touching \in BOOLEAN /\ ui.tapped \in BOOLEAN
  BY <1>1 DEF UiType
<1>4. CASE Bar!GestureTapped
  <2>1. [ui EXCEPT !.tapped = TRUE] = [ui EXCEPT !.touching = ui.touching, !.tapped = TRUE]
    BY <1>1 DEF UiType
  <2>2. Bar!Becomes([ui EXCEPT !.tapped = TRUE])
    BY <1>4 DEF Bar!GestureTapped
  <2>3. Harmless(ui, [ui EXCEPT !.tapped = TRUE])
    BY <1>2, <1>3, <2>1
  <2> QED BY <2>2, <2>3, BecomesKeeps
<1>5. CASE Bar!TouchDown
  <2>1. Bar!Becomes([ui EXCEPT !.touching = TRUE, !.tapped = FALSE])
    BY <1>5 DEF Bar!TouchDown
  <2> QED BY <1>2, <2>1, BecomesKeeps
<1>6. CASE Bar!TouchUp
  <2>1. [ui EXCEPT !.touching = FALSE] = [ui EXCEPT !.touching = FALSE, !.tapped = ui.tapped]
    BY <1>1 DEF UiType
  <2>2. Bar!Becomes([ui EXCEPT !.touching = FALSE])
    BY <1>6 DEF Bar!TouchUp
  <2>3. Harmless(ui, [ui EXCEPT !.touching = FALSE])
    BY <1>2, <1>3, <2>1
  <2> QED BY <2>2, <2>3, BecomesKeeps
<1> QED BY <1>4, <1>5, <1>6

(* Three taps show or hide the toolbar.                                     *)
LEMMA GestureFiresKeeps ==
  ASSUME ToolbarInv, Bar!GestureFires
  PROVE  ToolbarInv' /\ Bar!GivesBack
<1>1. ui \in UiType
  BY DEF ToolbarInv
<1> DEFINE c == [ui EXCEPT !.tapped = FALSE]
<1>2. c \in UiType
  BY Zenon, <1>1 DEF UiType
<1>3. PageOf(c) = PageOf(ui)
  BY <1>1 DEF UiType, PageOf
<1>4. Bar!Manually(Bar!Toggled(c))
  BY DEF Bar!GestureFires
<1> HIDE DEF c
<1> DEFINE o(on) == [c EXCEPT !.override = on]
<1>5. \A on \in BOOLEAN : o(on) \in UiType
  BY Zenon, <1>2 DEF UiType
<1>6. \A on \in BOOLEAN : PageOf(o(on)) = PageOf(c)
  BY <1>2 DEF UiType, PageOf
<1>7. Bar!Immersed(c) \in BOOLEAN
  BY <1>2 DEF Bar!Immersed, UiType
<1>8. Bar!Toggled(c) \in {Bar!SaveState(Bar!SetVisible(Bar!ClosePanel(o(FALSE)), FALSE)),
                      Bar!SaveState(Bar!SetVisible(o(Bar!Immersed(c)), TRUE))}
  BY Zenon DEF Bar!Toggled
<1> HIDE DEF o
<1>9. Settles(ui, Bar!SaveState(Bar!SetVisible(Bar!ClosePanel(o(FALSE)), FALSE)))
  <2> DEFINE p == Bar!ClosePanel(o(FALSE))
             v == Bar!SetVisible(p, FALSE)
  <2>1. p \in UiType /\ PageOf(p) = PageOf(ui)
    BY <1>3, <1>5, <1>6, CloseHarmless
  <2> HIDE DEF p
  <2>2. v \in UiType /\ PageOf(v) = PageOf(ui) /\ v.auto = "none"
    BY <2>1, Shows
  <2> HIDE DEF v
  <2>3. Settles(ui, Bar!SaveState(v))
    BY <1>1, <2>2, SaveSettles
  <2> QED BY <2>3 DEF v, p
<1>10. Settles(ui, Bar!SaveState(Bar!SetVisible(o(Bar!Immersed(c)), TRUE)))
  <2> DEFINE k == o(Bar!Immersed(c))
             v == Bar!SetVisible(k, TRUE)
  <2>4. k \in UiType /\ PageOf(k) = PageOf(ui)
    BY <1>3, <1>5, <1>6, <1>7
  <2> HIDE DEF k
  <2>1. v \in UiType /\ PageOf(v) = PageOf(ui) /\ v.auto = "none"
    BY <2>4, Shows
  <2> HIDE DEF v
  <2>2. Settles(ui, Bar!SaveState(v))
    BY <1>1, <2>1, SaveSettles
  <2> QED BY <2>2 DEF v, k
<1> QED BY <1>4, <1>8, <1>9, <1>10, ManuallyKeeps
-----------------------------------------------------------------------------
(* Scrolling asks: what waits is what was asked for last. No game runs.     *)
LEMMA ScrollAsksKeeps ==
  ASSUME ToolbarInv, NEW wish \in {"show", "hide"}, Bar!ScrollAsks(wish)
  PROVE  ToolbarInv' /\ Bar!GivesBack
<1>1. ui \in UiType /\ hist \in HistType /\ ~ui.game
  BY DEF ToolbarInv, Bar!ScrollAsks, Bar!Scrolls
<1> DEFINE v == [ui EXCEPT !.auto = wish]
           h == [hist EXCEPT !.asked = wish]
<1>2. v \in UiType
  BY Zenon, <1>1 DEF UiType, Bar!Wishes
<1>3. /\ v.visible = ui.visible /\ v.panel = ui.panel /\ v.fullscreen = ui.fullscreen
      /\ v.game = ui.game /\ v.media = ui.media /\ v.beforeFullscreen = ui.beforeFullscreen
      /\ v.beforeGame = ui.beforeGame /\ v.auto = wish /\ v.inset = ui.inset
      /\ v.shown = ui.shown
  BY <1>1 DEF UiType
<1>4. h \in HistType /\ h.asked = wish /\ h.gap = hist.gap /\ h.wanted = hist.wanted /\ h.overGame = hist.overGame
  BY <1>1 DEF HistType, Bar!Wishes
<1>5. ui' = v /\ hist' = h
  BY DEF Bar!ScrollAsks
<1> HIDE DEF v, h
<1>6. Sound(ui) => Sound(v)
  BY <1>3 DEF Sound, Bar!TopInset, Bar!Seen
<1>7. WaitsAsAsked(v, h) /\ Remembered(v, h)
  BY <1>1, <1>3, <1>4 DEF ToolbarInv, WaitsAsAsked, Remembered
<1> QED BY <1>2, <1>3, <1>4, <1>5, <1>6, <1>7 DEF ToolbarInv, Bar!GivesBack, Bar!Covered

(* Without automatic hiding it is shown at once, and the gap says so.       *)
LEMMA ScrollShowsKeeps ==
  ASSUME ToolbarInv, Bar!ScrollShows
  PROVE  ToolbarInv' /\ Bar!GivesBack
BY Shows, UnlaidKeeps DEF Bar!ScrollShows, ToolbarInv

(* What waited is done or dropped.                                          *)
LEMMA AutoVisibilityKeeps ==
  ASSUME ToolbarInv, Bar!AutoVisibility
  PROVE  ToolbarInv' /\ Bar!GivesBack
<1>1. ui \in UiType
  BY DEF ToolbarInv
<1> DEFINE d == [ui EXCEPT !.auto = "none"]
           on == (ui.auto = "show")
           v == Bar!SetVisible(d, on)
<1>2. d \in UiType
  BY Zenon, <1>1 DEF UiType, Bar!Wishes
<1>3. /\ d.visible = ui.visible /\ d.panel = ui.panel /\ d.fullscreen = ui.fullscreen
      /\ d.game = ui.game /\ d.media = ui.media /\ d.beforeFullscreen = ui.beforeFullscreen
      /\ d.beforeGame = ui.beforeGame /\ d.auto = "none" /\ d.inset = ui.inset
      /\ d.shown = ui.shown
  BY <1>1 DEF UiType
<1>4. Bar!Becomes(d) \/ Bar!Becomes(Bar!SaveState(v))
  BY DEF Bar!AutoVisibility
<1> HIDE DEF d
<1>5. Harmless(ui, d) /\ PageOf(d) = PageOf(ui)
  BY <1>2, <1>3 DEF PageOf, Harmless, Sound, Bar!TopInset, Bar!Seen
<1>6. on \in BOOLEAN
  OBVIOUS
<1>7. v \in UiType /\ PageOf(v) = PageOf(ui) /\ v.auto = "none"
  BY <1>2, <1>5, <1>6, Shows
<1> HIDE DEF v
<1>8. Harmless(ui, Bar!SaveState(v))
  BY <1>1, <1>7, SaveHarmless
<1> QED BY <1>4, <1>5, <1>8, BecomesKeeps

(* The layout put off to the end of the animation.                          *)
LEMMA DeferredLayoutKeeps ==
  ASSUME ToolbarInv, Bar!DeferredLayout
  PROVE  ToolbarInv' /\ Bar!GivesBack
<1>1. ui \in UiType
  BY DEF ToolbarInv
<1> DEFINE v == [ui EXCEPT !.timer = FALSE, !.inset = Bar!TopInset(ui)]
<1>2. Bar!TopInset(ui) \in BOOLEAN
  BY <1>1 DEF Bar!TopInset, UiType
<1>3. v \in UiType
  BY Zenon, <1>1, <1>2 DEF UiType
<1>4. /\ v.visible = ui.visible /\ v.panel = ui.panel /\ v.fullscreen = ui.fullscreen
      /\ v.game = ui.game /\ v.media = ui.media /\ v.beforeFullscreen = ui.beforeFullscreen
      /\ v.beforeGame = ui.beforeGame /\ v.auto = ui.auto /\ v.inset = Bar!TopInset(ui)
      /\ v.shown = ui.shown
  BY <1>1 DEF UiType
<1>5. Bar!Becomes(v)
  BY DEF Bar!DeferredLayout
<1> HIDE DEF v
<1>6. Bar!TopInset(v) = Bar!TopInset(ui) /\ Bar!Seen(v) = Bar!Seen(ui)
  BY <1>4 DEF Bar!TopInset, Bar!Seen
<1>7. Harmless(ui, v)
  BY <1>3, <1>4, <1>6 DEF PageOf, Harmless, Sound
<1> QED BY <1>5, <1>7, BecomesKeeps

(* The page loads, or has a new title.                                      *)
LEMMA LoadChangesKeeps ==
  ASSUME ToolbarInv, Bar!LoadChanges
  PROVE  ToolbarInv' /\ Bar!GivesBack
<1>1. ui \in UiType
  BY DEF ToolbarInv
<1>2. Harmless(ui, Bar!Publish(ui)) /\ Harmless(ui, Bar!SaveState(ui))
  BY <1>1, PublishHarmless, SaveHarmless
<1> QED BY <1>2, BecomesKeeps DEF Bar!LoadChanges

(* The page takes the panel: how it was is remembered.                      *)
LEMMA EnterFullscreenKeeps ==
  ASSUME ToolbarInv, Bar!EnterFullscreen
  PROVE  ToolbarInv' /\ Bar!GivesBack
<1>1. ui \in UiType /\ hist \in HistType /\ ~ui.fullscreen
  BY DEF ToolbarInv, Bar!EnterFullscreen
<1> DEFINE f == [ui EXCEPT !.fullscreen = TRUE, !.override = FALSE, !.beforeFullscreen = ui.visible,
                           !.panel = "none", !.visible = FALSE]
           s == Bar!SaveState(f)
           w == IF Bar!Covered(ui) THEN hist.wanted ELSE ui.visible
           h == [hist EXCEPT !.asked = "none", !.gap = FALSE, !.overGame = ui.media, !.wanted = w]
<1>2. ui.visible \in BOOLEAN /\ "none" \in Bar!Panels
  BY <1>1 DEF UiType, Bar!Panels
<1>3. f \in UiType
  BY Zenon, <1>1, <1>2 DEF UiType
<1>4. /\ f.fullscreen = TRUE /\ f.game = ui.game /\ f.media = ui.media
      /\ f.beforeFullscreen = ui.visible /\ f.beforeGame = ui.beforeGame /\ f.auto = ui.auto
  BY <1>1 DEF UiType
<1>5. ui' = s
  BY DEF Bar!EnterFullscreen, Bar!Inside
<1> HIDE DEF f
<1>6. s \in UiType /\ PageOf(s) = PageOf(f) /\ s.auto = f.auto /\ Sound(s)
  BY <1>3, Saved
<1>7. w \in BOOLEAN /\ ui.media \in BOOLEAN
  BY <1>1 DEF HistType, UiType
<1>8. hist' = h
  BY Zenon DEF Bar!EnterFullscreen, Bar!Takes
<1> HIDE DEF s
<1>9. Bar!Covered(ui) = ui.media
  BY <1>1 DEF Bar!Covered, UiType
<1>10. ~ui.media => w = ui.visible
  BY <1>1, <1>9 DEF UiType
<1> HIDE DEF w
<1>11. h \in HistType /\ h.gap = FALSE /\ h.overGame = ui.media /\ h.wanted = w
  BY <1>1, <1>7 DEF HistType, Bar!Wishes
<1> HIDE DEF h
<1>12. /\ s.fullscreen = TRUE /\ s.game = ui.game /\ s.media = ui.media
       /\ s.beforeFullscreen = ui.visible /\ s.beforeGame = ui.beforeGame /\ s.auto = ui.auto
  BY <1>4, <1>6 DEF PageOf
<1>13. WaitsAsAsked(s, h) /\ Remembered(s, h)
  BY <1>7, <1>10, <1>11, <1>12 DEF ToolbarInv, WaitsAsAsked, Remembered
<1> QED BY <1>5, <1>6, <1>8, <1>11, <1>12, <1>13 DEF ToolbarInv, Bar!GivesBack, Bar!Covered

(* It gives the panel back, of a game too.                                  *)
LEMMA LeaveFullscreenKeeps ==
  ASSUME ToolbarInv, Bar!LeaveFullscreen
  PROVE  ToolbarInv' /\ Bar!GivesBack
<1>1. ui \in UiType /\ hist \in HistType /\ ui.fullscreen
  BY DEF ToolbarInv, Bar!LeaveFullscreen
<1> DEFINE f == [ui EXCEPT !.fullscreen = FALSE, !.override = FALSE, !.panel = "none"]
           m == [f EXCEPT !.media = FALSE, !.beforeGame = TRUE]
           v == IF ui.media THEN Bar!SetVisible(m, TRUE) ELSE Bar!SetVisible(f, ui.beforeFullscreen)
           s == Bar!SaveState(v)
           g == hist.gap /\ Bar!Missing(s)
           h == [hist EXCEPT !.asked = "none", !.gap = g]
<1>2. "none" \in Bar!Panels
  BY DEF Bar!Panels
<1>3. f \in UiType
  BY Zenon, <1>1, <1>2 DEF UiType
<1>4. f.fullscreen = FALSE /\ f.game = ui.game /\ f.media = ui.media
  BY <1>1 DEF UiType
<1>5. ui' = Bar!SaveState(IF ui.media THEN Bar!SetVisible(m, TRUE) ELSE Bar!SetVisible(f, ui.beforeFullscreen))
  BY Zenon DEF Bar!LeaveFullscreen, Bar!Manually
<1>6. hist' = [hist EXCEPT !.asked = "none", !.gap = hist.gap /\ Bar!Missing(s)]
  BY Zenon DEF Bar!LeaveFullscreen, Bar!Manually
<1> HIDE DEF f
<1>7. m \in UiType
  BY Zenon, <1>3 DEF UiType
<1>8. m.fullscreen = FALSE /\ m.game = ui.game /\ m.media = FALSE
  BY <1>3, <1>4 DEF UiType
<1> HIDE DEF m
<1>9. ui.beforeFullscreen \in BOOLEAN /\ ui.media \in BOOLEAN
  BY <1>1 DEF UiType
<1>10. /\ v \in UiType /\ v.fullscreen = FALSE /\ v.game = ui.game /\ v.media = FALSE
       /\ v.auto = "none" /\ (ui.media \/ ui.beforeFullscreen => v.visible)
  <2>1. CASE ui.media
    <3>1. v = Bar!SetVisible(m, TRUE)
      BY <2>1
    <3> HIDE DEF v
    <3> QED BY <1>7, <1>8, <3>1, Shows DEF PageOf
  <2>2. CASE ~ui.media
    <3>1. v = Bar!SetVisible(f, ui.beforeFullscreen)
      BY <2>2
    <3> HIDE DEF v
    <3> QED BY <1>3, <1>4, <1>9, <2>2, <3>1, Shows DEF PageOf
  <2> QED BY <2>1, <2>2
<1>11. ui' = s
  BY <1>5
<1> HIDE DEF v
<1>12. /\ s \in UiType /\ Sound(s) /\ s.fullscreen = FALSE /\ s.game = ui.game /\ s.media = FALSE
       /\ s.auto = "none" /\ s.visible = v.visible
  BY <1>10, Saved DEF PageOf
<1> HIDE DEF s
<1>13. g \in BOOLEAN
  BY <1>1 DEF HistType
<1>14. hist' = h
  BY <1>6
<1> HIDE DEF g
<1>15. h \in HistType /\ h.gap = g /\ h.wanted = hist.wanted /\ h.overGame = hist.overGame
  BY <1>1, <1>13 DEF HistType, Bar!Wishes
<1> HIDE DEF h
<1>16. WaitsAsAsked(s, h) /\ Remembered(s, h)
  BY <1>12 DEF WaitsAsAsked, Remembered
<1>17. Bar!GivesBack
  <2>1. SUFFICES ASSUME hist.wanted PROVE ui'.visible \/ (hist.overGame /\ ~ui.media)
    BY DEF Bar!GivesBack
  <2>2. ui.media \/ ui.beforeFullscreen \/ hist.overGame
    BY <1>1, <2>1 DEF ToolbarInv, Remembered
  <2> QED BY <1>10, <1>11, <1>12, <2>2
<1> QED BY <1>11, <1>12, <1>14, <1>15, <1>16, <1>17 DEF ToolbarInv

(* A game takes the panel, or finds it taken.                               *)
LEMMA GameStartsKeeps ==
  ASSUME ToolbarInv, Bar!GameStarts
  PROVE  ToolbarInv' /\ Bar!GivesBack
<1>1. ui \in UiType /\ hist \in HistType /\ ~ui.game /\ ~ui.media
  BY DEF ToolbarInv, Bar!GameStarts, Remembered
<1> DEFINE p == [ui EXCEPT !.game = TRUE]
           f == [p EXCEPT !.media = TRUE, !.override = FALSE, !.beforeGame = ui.visible, !.panel = "none"]
           v == Bar!SetVisible(f, FALSE)
           s == Bar!SaveState(v)
           w == IF Bar!Covered(ui) THEN hist.wanted ELSE ui.visible
           h == [hist EXCEPT !.asked = "none", !.gap = FALSE, !.overGame = hist.overGame, !.wanted = w]
<1>2. ui.visible \in BOOLEAN /\ ui.fullscreen \in BOOLEAN /\ "none" \in Bar!Panels
  BY <1>1 DEF UiType, Bar!Panels
<1>3. p \in UiType
  BY Zenon, <1>1 DEF UiType
<1>4. p.game = TRUE /\ p.fullscreen = ui.fullscreen /\ p.beforeFullscreen = ui.beforeFullscreen
  BY <1>1 DEF UiType
<1>5. ui' = s
  BY Zenon, <1>1 DEF Bar!GameStarts, Bar!Playing
<1>6. hist' = h
  BY Zenon DEF Bar!GameStarts, Bar!Takes
<1> HIDE DEF p
<1>7. f \in UiType
  BY Zenon, <1>2, <1>3 DEF UiType
<1>8. /\ f.fullscreen = ui.fullscreen /\ f.game = TRUE /\ f.media = TRUE /\ f.beforeGame = ui.visible
      /\ f.beforeFullscreen = ui.beforeFullscreen
  BY <1>3, <1>4 DEF UiType
<1> HIDE DEF f
<1>9. /\ v \in UiType /\ v.auto = "none" /\ PageOf(v) = PageOf(f)
  BY <1>7, Shows
<1> HIDE DEF v
<1>10. s \in UiType /\ Sound(s) /\ s.auto = "none" /\ PageOf(s) = PageOf(f)
  BY <1>9, Saved
<1> HIDE DEF s
<1>11. /\ s.fullscreen = ui.fullscreen /\ s.game = TRUE /\ s.media = TRUE /\ s.beforeGame = ui.visible
       /\ s.beforeFullscreen = ui.beforeFullscreen
  BY <1>8, <1>10 DEF PageOf
<1>12. w \in BOOLEAN /\ (~ui.fullscreen => w = ui.visible) /\ (ui.fullscreen => w = hist.wanted)
  BY <1>1, <1>2 DEF HistType, Bar!Covered
<1> HIDE DEF w
<1>13. h \in HistType /\ h.gap = FALSE /\ h.overGame = hist.overGame /\ h.wanted = w
  BY <1>1, <1>12 DEF HistType, Bar!Wishes
<1> HIDE DEF h
<1>14. WaitsAsAsked(s, h) /\ Remembered(s, h)
  BY <1>2, <1>10, <1>11, <1>12, <1>13 DEF ToolbarInv, WaitsAsAsked, Remembered
<1> QED BY <1>5, <1>6, <1>10, <1>11, <1>13, <1>14 DEF ToolbarInv, Bar!GivesBack, Bar!Covered

(* A game ends: inside full screen what it took stays with full screen.        *)
LEMMA GameEndsKeeps ==
  ASSUME ToolbarInv, Bar!GameEnds
  PROVE  ToolbarInv' /\ Bar!GivesBack
<1>1. ui \in UiType /\ hist \in HistType /\ ui.game /\ ui.auto = "none"
  BY DEF ToolbarInv, Bar!GameEnds, WaitsAsAsked
<1> DEFINE o == [ui EXCEPT !.game = FALSE]
           m == [o EXCEPT !.media = FALSE]
           v == IF ui.fullscreen THEN m ELSE Bar!SetVisible(m, ui.beforeGame)
           s == Bar!SaveState(v)
           g == hist.gap /\ Bar!Missing(ui')
           h == [hist EXCEPT !.asked = "none", !.gap = g]
<1>2. ui.fullscreen \in BOOLEAN /\ ui.beforeGame \in BOOLEAN /\ ui.media \in BOOLEAN
  BY <1>1 DEF UiType
<1>3. o \in UiType
  BY Zenon, <1>1 DEF UiType
<1>4. /\ o.visible = ui.visible /\ o.panel = ui.panel /\ o.fullscreen = ui.fullscreen
      /\ o.game = FALSE /\ o.media = ui.media /\ o.beforeFullscreen = ui.beforeFullscreen
      /\ o.beforeGame = ui.beforeGame /\ o.auto = "none" /\ o.inset = ui.inset
      /\ o.shown = ui.shown
  BY <1>1 DEF UiType
<1>5. ui' = IF ~ui.media THEN o ELSE s
  BY Zenon DEF Bar!GameEnds, Bar!Manually, Bar!GameOver
<1>6. hist' = h
  BY Zenon DEF Bar!GameEnds, Bar!Manually
<1> HIDE DEF o
<1>7. m \in UiType
  BY Zenon, <1>3 DEF UiType
<1>8. /\ m.fullscreen = ui.fullscreen /\ m.game = FALSE /\ m.media = FALSE /\ m.auto = "none"
      /\ m.beforeFullscreen = ui.beforeFullscreen
  BY <1>3, <1>4 DEF UiType
<1> HIDE DEF m
<1>9. /\ v \in UiType /\ v.auto = "none" /\ PageOf(v) = PageOf(m)
      /\ ~ui.fullscreen => v.visible = ui.beforeGame
  <2>1. CASE ui.fullscreen
    BY <1>7, <1>8, <2>1
  <2>2. CASE ~ui.fullscreen
    <3>1. v = Bar!SetVisible(m, ui.beforeGame)
      BY <2>2
    <3> HIDE DEF v
    <3> QED BY <1>2, <1>7, <2>2, <3>1, Shows
  <2> QED BY <2>1, <2>2
<1> HIDE DEF v
<1>10. /\ s \in UiType /\ Sound(s) /\ s.auto = "none" /\ PageOf(s) = PageOf(m)
       /\ s.visible = v.visible
  BY <1>9, Saved
<1> HIDE DEF s
<1>11. /\ s.fullscreen = ui.fullscreen /\ s.game = FALSE /\ s.media = FALSE
       /\ s.beforeFullscreen = ui.beforeFullscreen
  BY <1>8, <1>10 DEF PageOf
<1>12. Sound(ui) => Sound(o)
  BY <1>4 DEF Sound, Bar!TopInset, Bar!Seen
<1>13. /\ ui' \in UiType /\ ui'.auto = "none" /\ ui'.game = FALSE /\ ui'.media = FALSE
       /\ ui'.fullscreen = ui.fullscreen /\ ui'.beforeFullscreen = ui.beforeFullscreen
       /\ (hist.gap \/ Sound(ui'))
  BY <1>2, <1>3, <1>4, <1>5, <1>10, <1>11, <1>12 DEF ToolbarInv
<1>14. Bar!Missing(ui') \in BOOLEAN /\ (~Bar!Missing(ui') => Sound(ui'))
  BY <1>13 DEF Bar!Missing, Sound, Bar!TopInset, Bar!Seen, UiType
<1>15. g \in BOOLEAN /\ (g \/ Sound(ui'))
  BY <1>1, <1>13, <1>14 DEF HistType
<1> HIDE DEF g
<1>16. h \in HistType /\ h.gap = g /\ h.wanted = hist.wanted /\ h.overGame = hist.overGame
  BY <1>1, <1>15 DEF HistType, Bar!Wishes
<1> HIDE DEF h
<1>17. WaitsAsAsked(ui', h) /\ Remembered(ui', h)
  BY <1>13, <1>16 DEF ToolbarInv, WaitsAsAsked, Remembered
<1>18. ToolbarInv'
  BY <1>6, <1>13, <1>15, <1>16, <1>17 DEF ToolbarInv
<1>19. Bar!GivesBack
  <2>1. SUFFICES ASSUME Bar!Covered(ui), ~Bar!Covered(ui'), hist.wanted
                 PROVE  ui'.visible
    BY DEF Bar!GivesBack, Bar!Covered
  <2>2. ~ui.fullscreen /\ ui.media
    BY <1>2, <1>13, <2>1 DEF Bar!Covered
  <2>3. ui.beforeGame
    BY <2>1, <2>2 DEF ToolbarInv, Remembered
  <2> QED BY <1>5, <1>9, <1>10, <2>2, <2>3
<1> QED BY <1>18, <1>19
-----------------------------------------------------------------------------
(* The toolbar starts as the invariant says, and every step keeps it.       *)
LEMMA ToolbarStarts == Bar!Init => ToolbarInv
<1> SUFFICES ASSUME Bar!Init PROVE ToolbarInv
  OBVIOUS
<1>1. ui \in UiType /\ hist \in HistType
  BY DEF Bar!Init, UiType, HistType, Bar!Panels, Bar!Wishes
<1>2. Sound(ui) /\ WaitsAsAsked(ui, hist) /\ Remembered(ui, hist)
  BY DEF Bar!Init, Sound, Bar!TopInset, Bar!Seen, WaitsAsAsked, Remembered
<1> QED BY <1>1, <1>2 DEF ToolbarInv

(* Each step keeps it, and gives back the toolbar with the panel.           *)
LEMMA ToolbarSteps ==
  ASSUME ToolbarInv, [Bar!Next]_(Bar!barVars)
  PROVE  ToolbarInv' /\ [Bar!GivesBack]_(Bar!barVars)
<1>1. CASE UNCHANGED Bar!barVars
  <2>1. ui' = ui /\ hist' = hist
    BY <1>1 DEF Bar!barVars
  <2>2. ToolbarInv'
    BY <2>1 DEF ToolbarInv
  <2> QED BY <1>1, <2>2
<1>2. CASE Bar!Next
  BY Zenon, <1>2, TapOutsideKeeps, TapTabKeeps, TapMenuKeeps, TapHeaderKeeps, TapSettingKeeps,
     TapRecordKeeps, TapAutoHideKeeps, TapInImmersiveKeeps, TapToolbarKeeps, KeyboardResultKeeps,
     KeyboardCancelledKeeps, TouchesKeep, GestureFiresKeeps, ScrollAsksKeeps, ScrollShowsKeeps,
     AutoVisibilityKeeps, DeferredLayoutKeeps, EnterFullscreenKeeps, LeaveFullscreenKeeps,
     GameStartsKeeps, GameEndsKeeps, LoadChangesKeeps DEF Bar!Next
<1> QED BY Zenon, <1>1, <1>2

(* What the invariant says of the toolbar.                                  *)
LEMMA ToolbarMeans ==
  ASSUME ToolbarInv
  PROVE  Bar!TypeOK /\ Bar!PageUncovered /\ Bar!DrawnAsIs /\ Bar!PendingIsWanted
<1>1. Bar!TypeOK
  BY Zenon DEF ToolbarInv, Bar!TypeOK, UiType, HistType
<1> QED BY <1>1 DEF ToolbarInv, Bar!PageUncovered, Bar!DrawnAsIs, Bar!PendingIsWanted, Sound, WaitsAsAsked, Bar!Void
-----------------------------------------------------------------------------
(* All that /proc/meminfo says is a number, and None is not.                   *)
Meminfo ==
  /\ None \notin Int
  /\ \A dev \in Memories :
       /\ dev.total \in Nat /\ dev.swap \in Nat
       /\ \A f \in dev.free : f[1] \in Nat /\ f[2] \in Nat

Levels == {Gov!Normal, Gov!Warning, Gov!Critical}
Ages(limit) == {None} \cup 0..limit
GovernorType == [level : Levels, since : Ages(Gov!RecoverySeconds)]
Policies == {Gov!Policy(Gov!Thresholds(profile)) : profile \in {"large", "balanced", "conservative"}}
MemoryType ==
  [device : Memories, policy : Policies, governor : GovernorType, summary : Ages(Gov!SummaryPeriod)]
ReliefType ==
  [answered : BOOLEAN, early : BOOLEAN, forgot : BOOLEAN, quiet : 0..Gov!RecoverySeconds,
   plenty : Ages(Gov!RecoveryTime), trimmed : Ages(Gov!SummaryPeriod)]

GovernorTypes == memory \in MemoryType /\ relief \in ReliefType

(* g is the governor, m and e the rest of memory and of relief.                *)
TrimmedInTime(g, summary, trimmed) == g.level > Gov!Normal => trimmed = summary
QuietSince(g, quiet) == g.since # None => quiet >= g.since

(* A recovery from critical began with the plenty or before; one from warning   *)
(* did, or it follows one from critical, by at most two late ticks.           *)
PlentyRecovers(g, plenty) ==
  plenty # None =>
    /\ g.level = Gov!Critical => g.since # None /\ g.since < Gov!RecoverySeconds /\ plenty <= g.since
    /\ g.level = Gov!Warning /\ g.since = None => plenty <= 13
    /\ g.level = Gov!Warning /\ g.since # None =>
         g.since < Gov!RecoverySeconds /\ plenty <= g.since + 17

ClocksAgree ==
  /\ TrimmedInTime(memory.governor, memory.summary, relief.trimmed)
  /\ QuietSince(memory.governor, relief.quiet)
  /\ PlentyRecovers(memory.governor, relief.plenty)

GovernorInv == GovernorTypes /\ ClocksAgree /\ Gov!Relieved /\ Gov!EasesSlowly
-----------------------------------------------------------------------------
(* An age grows with the time, up to the bound that is asked for.           *)
LEMMA Aging ==
  ASSUME Meminfo, NEW limit \in Nat, NEW age \in Ages(limit), NEW by \in Gov!Elapsed
  PROVE  /\ Gov!Aged(age, by, limit) \in Ages(limit)
         /\ age = None <=> Gov!Aged(age, by, limit) = None
         /\ age # None =>
              Gov!Aged(age, by, limit) = IF age + by <= limit THEN age + by ELSE limit
<1>1. CASE age = None
  BY <1>1 DEF Gov!Aged, Ages
<1>2. CASE age # None
  <2>1. age \in 0..limit /\ by \in Nat /\ age + by \in Nat
    BY <1>2 DEF Ages, Gov!Elapsed
  <2> DEFINE m == IF age + by <= limit THEN age + by ELSE limit
             x == age + by
  <2>2. m \in {x, limit} /\ \A y \in {x, limit} : m <= y
    BY <2>1
  <2>3. \A z \in {x, limit} : (\A y \in {x, limit} : z <= y) => z = m
    BY <2>1, <2>2
  <2>4. Gov!Min({x, limit}) = m
    <3> HIDE DEF m, x
    <3> QED BY <2>2, <2>3 DEF Gov!Min
  <2>5. Gov!Aged(age, by, limit) = m
    BY <1>2, <2>4 DEF Gov!Aged
  <2>6. m \in 0..limit
    BY <2>1
  <2> QED BY <1>2, <2>5, <2>6 DEF Ages, Meminfo
<1> QED BY <1>1, <1>2

(* The times the governor has.                                              *)
LEMMA Periods ==
  /\ Gov!RecoverySeconds = 10 /\ Gov!SummaryPeriod = 30 /\ Gov!Elapsed = {2, 4} /\ Gov!RecoveryTime = 32
  /\ Levels = {0, 1, 2} /\ Gov!Normal = 0 /\ Gov!Warning = 1 /\ Gov!Critical = 2
<1>1. Gov!Max({2, 4}) = 4
  BY DEF Gov!Max
<1> QED BY <1>1 DEF Gov!RecoverySeconds, Gov!SummaryPeriod, Gov!Elapsed, Gov!RecoveryTime, Levels, Gov!Normal,
                    Gov!Warning, Gov!Critical

(* The thresholds of every profile leave room between the levels.           *)
LEMMA PoliciesAre ==
  ASSUME NEW p \in Policies
  PROVE  /\ p.warning \in 80..85 /\ p.critical \in Nat /\ p.critical >= p.warning + 8
         /\ p.warningMB \in 192..256 /\ p.criticalMB \in 96..128
         /\ p.criticalMB + 64 <= p.warningMB
  BY DEF Policies, Gov!Policy, Gov!Thresholds, Gov!EnvUint

(* What meminfo says are numbers, and so is the percentage of them.         *)
LEMMA ReadingsAre ==
  ASSUME Meminfo, NEW dev \in Memories, NEW r \in Gov!Readings(dev)
  PROVE  /\ r.total \in Nat /\ r.available \in Nat /\ r.swapTotal \in Nat /\ r.swapFree \in Nat
         /\ Gov!Readable(r) => Gov!UsedPercent(r) \in Int
<1>1. r.total \in Nat /\ r.available \in Nat /\ r.swapTotal \in Nat /\ r.swapFree \in Nat
  BY DEF Meminfo, Gov!Readings
<1>2. ASSUME Gov!Readable(r) PROVE Gov!UsedPercent(r) \in Int
  <2> DEFINE a == r.available
             t == r.total
             m == Gov!Min({a, t})
  <2>1. a \in Nat /\ t \in Nat /\ t > 0
    BY <1>1, <1>2 DEF Gov!Readable
  <2>2. m \in {a, t}
    <3>1. \E x \in {a, t} : \A y \in {a, t} : x <= y
      BY <2>1
    <3> HIDE DEF a, t
    <3> QED BY <3>1 DEF Gov!Min
  <2>3. Gov!UsedPercent(r) = ((t - m) * 100) \div t
    BY DEF Gov!UsedPercent
  <2> HIDE DEF a, t, m
  <2>4. (t - m) * 100 \in Int
    BY <2>1, <2>2
  <2>5. ((t - m) * 100) \div t \in Int
    BY <2>1, <2>4
  <2> QED BY <2>3, <2>5
<1> QED BY <1>1, <1>2

(* A reading has one of the three levels.                                   *)
LEMMA Classes ==
  ASSUME NEW r, NEW p
  PROVE  Gov!Classify(r, p) \in Levels
  BY DEF Gov!Classify, Levels

(* A plentiful reading is normal, and safely so from every level.           *)
LEMMA PlentyIsSafe ==
  ASSUME Meminfo, NEW dev \in Memories, NEW r \in Gov!Readings(dev), NEW p \in Policies,
         Gov!Readable(r), Gov!Plentiful(r, p)
  PROVE  /\ Gov!Classify(r, p) = Gov!Normal
         /\ \A level \in {Gov!Warning, Gov!Critical} : Gov!SafelyRecovered(level, r, p)
<1> DEFINE u == Gov!UsedPercent(r)
<1>1. /\ r.total \in Nat /\ r.available \in Nat /\ r.swapTotal \in Nat /\ r.swapFree \in Nat
      /\ u \in Int
  BY ReadingsAre
<1>2. /\ p.warning \in 80..85 /\ p.critical \in Nat /\ p.critical >= p.warning + 8
      /\ p.warningMB \in 192..256 /\ p.criticalMB \in 96..128
      /\ p.criticalMB + 64 <= p.warningMB
  BY PoliciesAre
<1>3. /\ u + 5 <= p.warning /\ r.available > (p.warningMB + 64) * 1024
      /\ r.swapTotal > 0 => r.swapFree > 128 * 1024 /\ r.swapFree * 10 > r.swapTotal * 4
  BY DEF Gov!Plentiful, Gov!MB
<1>4. /\ ~(u >= p.critical) /\ ~(u >= p.warning)
      /\ ~(r.available <= p.criticalMB * 1024) /\ ~(r.available <= p.warningMB * 1024)
      /\ ~(r.swapTotal > 0 /\ r.swapFree <= 64 * 1024)
      /\ ~(r.swapTotal > 0 /\ r.swapFree * 10 <= r.swapTotal * 3)
  BY <1>1, <1>2, <1>3
<1>5. /\ u + 4 < p.critical /\ u + 4 < p.warning
      /\ r.available > (p.criticalMB + 32) * 1024 /\ r.available > (p.warningMB + 64) * 1024
      /\ r.swapTotal = 0 \/ (r.swapFree > 128 * 1024 /\ r.swapFree * 10 > r.swapTotal * 4)
  BY <1>1, <1>2, <1>3
<1> HIDE DEF u
<1>6. Gov!Classify(r, p) = Gov!Normal
  BY <1>4 DEF Gov!Classify, Gov!MB, u
<1>7. Gov!SafelyRecovered(Gov!Critical, r, p)
  BY <1>5 DEF Gov!SafelyRecovered, Gov!MB, u
<1>8. Gov!SafelyRecovered(Gov!Warning, r, p)
  BY <1>5 DEF Gov!SafelyRecovered, Gov!MB, u, Gov!Warning, Gov!Critical
<1> QED BY <1>6, <1>7, <1>8
-----------------------------------------------------------------------------
(* What an update does: the pressure rises, it stays and so does or ends the   *)
(* recovery, which goes on or begins, or it eases.                           *)
LEMMA Updates ==
  ASSUME Meminfo, NEW g \in GovernorType, NEW r, NEW p, NEW by \in Gov!Elapsed
  PROVE  LET n == Gov!Update(g, r, p, by)
             since == Gov!Aged(g.since, by, Gov!RecoverySeconds)
         IN  /\ n \in GovernorType /\ n.level >= Gov!Classify(r, p)
             /\ \/ n.level > g.level /\ n.level = Gov!Classify(r, p) /\ n.since = None
                \/ n.level = g.level /\ n.since = None
                   /\ (Gov!Classify(r, p) = g.level \/ ~Gov!SafelyRecovered(g.level, r, p))
                \/ n.level = g.level /\ g.since = None /\ n.since = 0 /\ Gov!Classify(r, p) < g.level
                \/ n.level = g.level /\ g.since # None /\ n.since = since /\ since < Gov!RecoverySeconds
                   /\ Gov!Classify(r, p) < g.level
                \/ n.level < g.level /\ g.since # None /\ since >= Gov!RecoverySeconds /\ n.since = None
                   /\ n.level = IF g.level = Gov!Critical THEN Gov!Warning ELSE Gov!Classify(r, p)
<1> DEFINE n == Gov!Update(g, r, p, by)
           c == Gov!Classify(r, p)
           since == Gov!Aged(g.since, by, Gov!RecoverySeconds)
<1>1. c \in Levels /\ g.level \in Levels /\ g.since \in Ages(Gov!RecoverySeconds)
  BY Classes DEF GovernorType
<1>2. since \in Ages(Gov!RecoverySeconds) /\ (g.since = None <=> since = None)
  BY <1>1, Aging DEF Gov!RecoverySeconds
<1>3. since # None => since \in Nat
  BY <1>2 DEF Ages
<1>4. n = IF c > g.level THEN [level |-> c, since |-> None]
          ELSE IF c = g.level \/ ~Gov!SafelyRecovered(g.level, r, p) THEN [g EXCEPT !.since = None]
          ELSE IF since = None THEN [g EXCEPT !.since = 0]
          ELSE IF since >= Gov!RecoverySeconds
          THEN [level |-> IF g.level = Gov!Critical THEN Gov!Warning ELSE c, since |-> None]
          ELSE [g EXCEPT !.since = since]
  BY DEF Gov!Update
<1> HIDE DEF n, c, since
<1> USE DEF GovernorType, Ages
<1>5. CASE c > g.level
  BY <1>1, <1>4, <1>5, Periods DEF c, n
<1>6. CASE ~(c > g.level) /\ (c = g.level \/ ~Gov!SafelyRecovered(g.level, r, p))
  BY <1>1, <1>4, <1>6, Periods DEF c, n
<1>7. CASE ~(c > g.level) /\ ~(c = g.level \/ ~Gov!SafelyRecovered(g.level, r, p)) /\ since = None
  BY <1>1, <1>2, <1>4, <1>7, Periods DEF c, n
<1>8. CASE /\ ~(c > g.level) /\ ~(c = g.level \/ ~Gov!SafelyRecovered(g.level, r, p))
           /\ since # None /\ since >= Gov!RecoverySeconds
  <2>1. n = [level |-> IF g.level = Gov!Critical THEN Gov!Warning ELSE c, since |-> None]
    BY <1>4, <1>8
  <2>2. c < g.level /\ g.since # None /\ c >= 0 /\ g.level <= 2
    BY <1>1, <1>2, <1>8, Periods
  <2>3. CASE g.level = Gov!Critical
    BY <1>1, <1>8, <2>1, <2>2, <2>3, Periods DEF c, n, since
  <2>4. CASE g.level # Gov!Critical
    BY <1>1, <1>8, <2>1, <2>2, <2>4, Periods DEF c, n, since
  <2> QED BY <2>3, <2>4
<1>9. CASE /\ ~(c > g.level) /\ ~(c = g.level \/ ~Gov!SafelyRecovered(g.level, r, p))
           /\ since # None /\ ~(since >= Gov!RecoverySeconds)
  <2>1. n = [g EXCEPT !.since = since]
    BY <1>4, <1>9
  <2>2. c < g.level /\ g.since # None /\ since < Gov!RecoverySeconds
    BY <1>1, <1>2, <1>3, <1>9, Periods
  <2> QED BY <1>1, <1>2, <2>1, <2>2, Periods DEF c, n, since
<1> QED BY <1>5, <1>6, <1>7, <1>8, <1>9

(* A tick that reads: the next governor, in terms of what the tick finds.      *)
LEMMA TickKeeps ==
  ASSUME Meminfo, GovernorInv, NEW r \in Gov!Readings(memory.device), NEW by \in Gov!Elapsed, Gov!Readable(r),
         Gov!Tick(r, by)
  PROVE  GovernorInv'
<1> USE DEF GovernorInv, GovernorTypes
<1> DEFINE p == memory.policy
           h == memory.governor
           g == Gov!Update(h, r, p, by)
           c == Gov!Classify(r, p)
           since == Gov!Aged(h.since, by, Gov!RecoverySeconds)
           summary == Gov!Aged(memory.summary, by, Gov!SummaryPeriod)
           transitioned == g.level # h.level
           periodic == summary = None \/ summary >= Gov!SummaryPeriod
           trims == g.level > Gov!Normal /\ (transitioned \/ periodic)
           quiet == Gov!Aged(relief.quiet, by, Gov!RecoverySeconds)
           trimmed == Gov!Aged(relief.trimmed, by, Gov!SummaryPeriod)
           summary1 == IF transitioned \/ periodic THEN 0 ELSE summary
           quiet1 == IF transitioned \/ c >= g.level THEN 0 ELSE quiet
           plenty1 == IF ~Gov!Plentiful(r, p) THEN None
                      ELSE IF relief.plenty = None THEN 0
                      ELSE Gov!Aged(relief.plenty, by, Gov!RecoveryTime)
           trimmed1 == IF g.level = Gov!Normal THEN None ELSE IF trims THEN 0 ELSE trimmed
<1>1. memory' = [memory EXCEPT !.governor = g, !.summary = summary1]
  BY DEF Gov!Tick
<1>2. relief' = [answered |-> g.level >= c, early |-> g.level < h.level /\ quiet < Gov!RecoverySeconds,
                 forgot |-> g.level > Gov!Normal /\ ~trims /\ trimmed \in {None, Gov!SummaryPeriod},
                 quiet |-> quiet1, plenty |-> plenty1, trimmed |-> trimmed1]
  BY DEF Gov!Tick
<1>3. /\ h \in GovernorType /\ p \in Policies /\ memory.device \in Memories
      /\ memory.summary \in Ages(Gov!SummaryPeriod) /\ relief.trimmed \in Ages(Gov!SummaryPeriod)
      /\ relief.plenty \in Ages(Gov!RecoveryTime) /\ relief.quiet \in 0..Gov!RecoverySeconds
      /\ memory \in MemoryType /\ relief \in ReliefType
  BY DEF MemoryType, ReliefType
<1>4. /\ TrimmedInTime(h, memory.summary, relief.trimmed) /\ QuietSince(h, relief.quiet)
      /\ PlentyRecovers(h, relief.plenty)
  BY DEF ClocksAgree
<1>5. /\ g \in GovernorType /\ g.level >= c
      /\ \/ g.level > h.level /\ g.level = c /\ g.since = None
         \/ g.level = h.level /\ g.since = None /\ (c = h.level \/ ~Gov!SafelyRecovered(h.level, r, p))
         \/ g.level = h.level /\ h.since = None /\ g.since = 0 /\ c < h.level
         \/ g.level = h.level /\ h.since # None /\ g.since = since /\ since < Gov!RecoverySeconds
            /\ c < h.level
         \/ g.level < h.level /\ h.since # None /\ since >= Gov!RecoverySeconds /\ g.since = None
            /\ g.level = IF h.level = Gov!Critical THEN Gov!Warning ELSE c
  BY <1>3, Updates
<1>6. /\ summary \in Ages(Gov!SummaryPeriod) /\ trimmed \in Ages(Gov!SummaryPeriod)
      /\ (memory.summary = relief.trimmed => summary = trimmed)
  BY <1>3, Aging, Periods
<1>7. /\ quiet \in 0..10 /\ quiet = IF relief.quiet + by <= 10 THEN relief.quiet + by ELSE 10
      /\ relief.quiet \in 0..10
  <2>1. relief.quiet \in Ages(Gov!RecoverySeconds) /\ relief.quiet # None
    BY <1>3, Periods DEF Ages, Meminfo
  <2> QED BY <1>3, <2>1, Aging, Periods DEF Ages, Meminfo
<1>8. /\ since \in Ages(10) /\ (h.since = None <=> since = None)
      /\ h.since # None => since = (IF h.since + by <= 10 THEN h.since + by ELSE 10)
                           /\ h.since \in 0..10
  BY <1>3, Aging, Periods DEF GovernorType, Ages
<1>9. /\ Gov!Aged(relief.plenty, by, Gov!RecoveryTime) \in Ages(32)
      /\ relief.plenty # None =>
           /\ relief.plenty \in 0..32
           /\ Gov!Aged(relief.plenty, by, Gov!RecoveryTime) =
                IF relief.plenty + by <= 32 THEN relief.plenty + by ELSE 32
  BY <1>3, Aging, Periods DEF Ages
<1>10. c \in {0, 1, 2} /\ g.level \in {0, 1, 2} /\ h.level \in {0, 1, 2} /\ by \in {2, 4}
       /\ g.since \in Ages(10)
  BY <1>3, <1>5, Classes, Periods DEF GovernorType
<1>11. Gov!Plentiful(r, p) =>
         c = Gov!Normal /\ \A level \in {Gov!Warning, Gov!Critical} : Gov!SafelyRecovered(level, r, p)
  BY <1>3, PlentyIsSafe
<1> HIDE DEF p, h, g, c, since, summary, trimmed, quiet
<1>12. summary1 \in Ages(Gov!SummaryPeriod) /\ trimmed1 \in Ages(Gov!SummaryPeriod)
  BY <1>6, Periods DEF Ages
<1>13. quiet1 \in 0..Gov!RecoverySeconds
  BY <1>7, Periods
<1>14. plenty1 \in Ages(Gov!RecoveryTime)
  BY <1>9, Periods DEF Ages
<1>15. TrimmedInTime(g, summary1, trimmed1)
  BY <1>4, <1>5, <1>6, <1>10, Periods DEF TrimmedInTime, Ages
<1>16. QuietSince(g, quiet1)
  BY <1>4, <1>5, <1>7, <1>8, <1>10, Periods DEF QuietSince, Ages
<1>17. PlentyRecovers(g, plenty1)
  BY <1>4, <1>5, <1>8, <1>9, <1>10, <1>11, Periods DEF PlentyRecovers, Ages, Meminfo
<1>18. ~(g.level < h.level /\ quiet < Gov!RecoverySeconds)
  BY <1>4, <1>5, <1>7, <1>8, <1>10, Periods DEF QuietSince, Ages
<1>19. ~(g.level > Gov!Normal /\ ~trims /\ trimmed \in {None, Gov!SummaryPeriod})
  BY <1>4, <1>5, <1>6, <1>10, Periods DEF TrimmedInTime, Ages
<1> HIDE DEF summary1, trimmed1, quiet1, plenty1, trims
<1>20. /\ memory' \in MemoryType /\ memory'.governor = g /\ memory'.summary = summary1
  BY <1>1, <1>3, <1>5, <1>12 DEF MemoryType
<1>21. /\ relief' \in ReliefType /\ relief'.quiet = quiet1 /\ relief'.plenty = plenty1
       /\ relief'.trimmed = trimmed1 /\ relief'.answered /\ ~relief'.forgot /\ ~relief'.early
  BY <1>2, <1>5, <1>12, <1>13, <1>14, <1>18, <1>19 DEF ReliefType
<1> QED BY <1>15, <1>16, <1>17, <1>20, <1>21 DEF ClocksAgree, Gov!Relieved, Gov!EasesSlowly

(* A tick that cannot read: the clocks go on, the plenty is not known.      *)
LEMMA UnreadKeeps ==
  ASSUME Meminfo, GovernorInv, NEW by \in Gov!Elapsed, Gov!Unread(by)
  PROVE  GovernorInv'
<1> USE DEF GovernorInv, GovernorTypes
<1> DEFINE h == memory.governor
           since == Gov!Aged(h.since, by, Gov!RecoverySeconds)
           summary == Gov!Aged(memory.summary, by, Gov!SummaryPeriod)
           quiet == Gov!Aged(relief.quiet, by, Gov!RecoverySeconds)
           trimmed == Gov!Aged(relief.trimmed, by, Gov!SummaryPeriod)
           g == [h EXCEPT !.since = since]
<1>1. memory' = [memory EXCEPT !.governor = g, !.summary = summary]
  BY DEF Gov!Unread, MemoryType
<1>2. relief' = [relief EXCEPT !.quiet = quiet, !.plenty = None, !.trimmed = trimmed]
  BY DEF Gov!Unread, ReliefType
<1>3. /\ h \in GovernorType /\ h.since \in Ages(Gov!RecoverySeconds)
      /\ memory.summary \in Ages(Gov!SummaryPeriod) /\ relief.trimmed \in Ages(Gov!SummaryPeriod)
      /\ relief.quiet \in 0..Gov!RecoverySeconds /\ memory \in MemoryType /\ relief \in ReliefType
  BY DEF MemoryType, ReliefType, GovernorType
<1>4. /\ TrimmedInTime(h, memory.summary, relief.trimmed) /\ QuietSince(h, relief.quiet)
  BY DEF ClocksAgree
<1>5. /\ summary \in Ages(Gov!SummaryPeriod) /\ trimmed \in Ages(Gov!SummaryPeriod)
      /\ (memory.summary = relief.trimmed => summary = trimmed)
  BY <1>3, Aging, Periods
<1>6. /\ quiet \in 0..10 /\ quiet = IF relief.quiet + by <= 10 THEN relief.quiet + by ELSE 10
      /\ relief.quiet \in 0..10
  <2>1. relief.quiet \in Ages(Gov!RecoverySeconds) /\ relief.quiet # None
    BY <1>3, Periods DEF Ages, Meminfo
  <2> QED BY <1>3, <2>1, Aging, Periods DEF Ages, Meminfo
<1>7. /\ since \in Ages(10) /\ (h.since = None <=> since = None)
      /\ h.since # None => since = (IF h.since + by <= 10 THEN h.since + by ELSE 10)
                           /\ h.since \in 0..10
  BY <1>3, Aging, Periods DEF GovernorType, Ages
<1>8. by \in {2, 4}
  BY Periods
<1> HIDE DEF h, since, summary, trimmed, quiet
<1>9. g \in GovernorType /\ g.since = since /\ g.level = h.level
  BY <1>3, <1>7, Periods DEF GovernorType
<1> HIDE DEF g
<1>10. TrimmedInTime(g, summary, trimmed) /\ PlentyRecovers(g, None)
  BY <1>4, <1>5, <1>9 DEF TrimmedInTime, PlentyRecovers
<1>11. QuietSince(g, quiet)
  BY <1>4, <1>6, <1>7, <1>8, <1>9 DEF QuietSince
<1>12. memory' \in MemoryType /\ memory'.governor = g /\ memory'.summary = summary
  BY <1>1, <1>3, <1>5, <1>9 DEF MemoryType
<1>13. /\ relief' \in ReliefType /\ relief'.quiet = quiet /\ relief'.plenty = None
       /\ relief'.trimmed = trimmed
       /\ relief'.answered = relief.answered /\ relief'.forgot = relief.forgot
       /\ relief'.early = relief.early
  BY <1>2, <1>3, <1>5, <1>6, Periods DEF ReliefType, Ages
<1> QED BY <1>10, <1>11, <1>12, <1>13 DEF ClocksAgree, Gov!Relieved, Gov!EasesSlowly

(* Every tick.                                                              *)
LEMMA StepKeeps ==
  ASSUME Meminfo, GovernorInv, [Gov!Next]_(Gov!vars)
  PROVE  GovernorInv'
<1>1. CASE Gov!Next
  <2>1. PICK r \in Gov!Readings(memory.device), by \in Gov!Elapsed :
          IF Gov!Readable(r) THEN Gov!Tick(r, by) ELSE Gov!Unread(by)
    BY <1>1 DEF Gov!Next, Gov!GovernorTick
  <2>2. CASE Gov!Readable(r)
    BY <2>1, <2>2, TickKeeps
  <2>3. CASE ~Gov!Readable(r)
    BY <2>1, <2>3, UnreadKeeps
  <2> QED BY <2>2, <2>3
<1>2. CASE UNCHANGED Gov!vars
  BY <1>2 DEF Gov!vars, GovernorInv, GovernorTypes, ClocksAgree, Gov!Relieved, Gov!EasesSlowly
<1> QED BY <1>1, <1>2

(* The beginning.                                                           *)
LEMMA StartsAtEase ==
  ASSUME Meminfo, Gov!Init
  PROVE  GovernorInv
<1>0. PICK dev \in Memories : \E r \in Gov!Readings(dev) :
        memory = [device |-> dev, policy |-> Gov!Policy(Gov!Thresholds(Gov!Profile(r))),
                  governor |-> [level |-> Gov!Normal, since |-> None], summary |-> None]
  BY DEF Gov!Init
<1>1. PICK r \in Gov!Readings(dev) :
        memory = [device |-> dev, policy |-> Gov!Policy(Gov!Thresholds(Gov!Profile(r))),
                  governor |-> [level |-> Gov!Normal, since |-> None], summary |-> None]
  BY <1>0
<1>2. Gov!Profile(r) \in {"large", "balanced", "conservative"}
  BY DEF Gov!Profile
<1>3. memory \in MemoryType
  BY <1>1, <1>2 DEF MemoryType, Policies, GovernorType, Levels, Ages
<1>4. relief \in ReliefType /\ relief.answered /\ ~relief.early /\ ~relief.forgot
  BY Periods DEF Gov!Init, ReliefType, Ages
<1>5. ClocksAgree
  BY <1>1, Periods DEF Gov!Init, ClocksAgree, TrimmedInTime, QuietSince, PlentyRecovers
<1> QED BY <1>3, <1>4, <1>5 DEF GovernorInv, GovernorTypes, Gov!Relieved, Gov!EasesSlowly

(* The invariant of the governor and the clocks the properties remember.    *)
THEOREM GovernorInvariance == ASSUME Meminfo PROVE Gov!Spec => []GovernorInv
<1>1. Meminfo
  OBVIOUS
<1>2. Gov!Init => GovernorInv
  BY <1>1, StartsAtEase
<1>3. GovernorInv /\ [Gov!Next]_(Gov!vars) => GovernorInv'
  BY <1>1, StepKeeps
<1> QED BY <1>2, <1>3, PTL DEF Gov!Spec

(* MemoryGovernor, PressureHandled, on every device: pressure is answered   *)
(* at once, eases slowly, and ends when memory stays plentiful.             *)
THEOREM PressureRelieved == ASSUME Meminfo PROVE Gov!Spec => [](Gov!TypeOK /\ Gov!PressureHandled)
<1>1. ASSUME GovernorInv PROVE Gov!TypeOK /\ Gov!PressureHandled
  <2>1. Gov!TypeOK
    BY <1>1 DEF GovernorInv, GovernorTypes, MemoryType, GovernorType, Gov!TypeOK, Levels, Ages
  <2>2. Gov!PressureEnds
    <3>1. memory.governor \in GovernorType /\ PlentyRecovers(memory.governor, relief.plenty)
      BY <1>1 DEF GovernorInv, GovernorTypes, ClocksAgree, MemoryType
    <3>2. memory.governor.since \in Ages(10) /\ memory.governor.level \in {0, 1, 2}
      BY <3>1, Periods DEF GovernorType
    <3>3. SUFFICES ASSUME relief.plenty = 32, memory.governor.level # 0 PROVE FALSE
      BY Periods DEF Gov!PressureEnds
    <3>4. 32 # None
      BY DEF Meminfo
    <3> QED BY <3>1, <3>2, <3>3, <3>4, Periods DEF PlentyRecovers, Ages
  <2> QED BY <1>1, <2>1, <2>2 DEF GovernorInv, Gov!PressureHandled
<1>2. Gov!Spec => []GovernorInv
  BY GovernorInvariance
<1> QED BY <1>1, <1>2, PTL
-----------------------------------------------------------------------------
(* Which part is there. It stays.                                           *)
OfProfiles == part = "profiles"
OfTabs == part = "tabs"
OfRecovery == part = "recovery"
OfMemory == part = "memory"
OfToolbar == part = "toolbar"

LEMMA PartStays ==
  ASSUME [PartsNext]_partsVars
  PROVE  part' = part
BY DEF PartsNext, partsVars

(* While the profile store is chosen it moves as itself.                    *)
LEMMA StoreRuns ==
  /\ PartsInit /\ OfProfiles => Store!Init
  /\ OfProfiles /\ [PartsNext]_partsVars => OfProfiles' /\ [Store!Next]_(Store!storeVars)
  /\ ~OfProfiles /\ [PartsNext]_partsVars => ~OfProfiles'
<1>1. PartsInit /\ OfProfiles => Store!Init
  BY DEF PartsInit, OfProfiles
<1>2. ASSUME OfProfiles, [PartsNext]_partsVars
      PROVE  [Store!Next]_(Store!storeVars)
  BY <1>2 DEF PartsNext, partsVars, storeVars, Store!storeVars, OfProfiles
<1> QED BY <1>1, <1>2, PartStays DEF OfProfiles

(* Many tabs, or the pages told apart: the session moves as itself.         *)
LEMMA SessionRuns ==
  /\ PartsInit /\ OfTabs => Tabs!Init
  /\ PartsInit /\ OfRecovery => Recovery!Init
  /\ OfTabs /\ [PartsNext]_partsVars => OfTabs' /\ [Tabs!Next]_(Tabs!sessionVars)
  /\ OfRecovery /\ [PartsNext]_partsVars => OfRecovery' /\ [Recovery!Next]_(Recovery!sessionVars)
  /\ ~OfTabs /\ [PartsNext]_partsVars => ~OfTabs'
  /\ ~OfRecovery /\ [PartsNext]_partsVars => ~OfRecovery'
<1>1. (PartsInit /\ OfTabs => Tabs!Init) /\ (PartsInit /\ OfRecovery => Recovery!Init)
  BY DEF PartsInit, OfTabs, OfRecovery
<1>2. ASSUME OfTabs, [PartsNext]_partsVars
      PROVE  [Tabs!Next]_(Tabs!sessionVars)
  BY <1>2 DEF PartsNext, partsVars, sessionVars, Tabs!sessionVars, OfTabs
<1>3. ASSUME OfRecovery, [PartsNext]_partsVars
      PROVE  [Recovery!Next]_(Recovery!sessionVars)
  BY <1>3 DEF PartsNext, partsVars, sessionVars, Recovery!sessionVars, OfRecovery
<1> QED BY <1>1, <1>2, <1>3, PartStays DEF OfTabs, OfRecovery

(* The governor moves as itself.                                            *)
LEMMA GovernorRuns ==
  /\ PartsInit /\ OfMemory => Gov!Init
  /\ OfMemory /\ [PartsNext]_partsVars => OfMemory' /\ [Gov!Next]_(Gov!vars)
  /\ ~OfMemory /\ [PartsNext]_partsVars => ~OfMemory'
<1>1. PartsInit /\ OfMemory => Gov!Init
  BY DEF PartsInit, OfMemory
<1>2. ASSUME OfMemory, [PartsNext]_partsVars
      PROVE  [Gov!Next]_(Gov!vars)
  BY <1>2 DEF PartsNext, partsVars, memoryVars, Gov!vars, OfMemory
<1> QED BY <1>1, <1>2, PartStays DEF OfMemory

(* The three profiles of the run are as the store numbers them.             *)
LEMMA StoreConstants == ASSUME NoneIsApart PROVE Store!Constants
<1>1. {1, 2, 3} = 1..3 /\ 3 \in Nat \ {0}
  OBVIOUS
<1> QED BY <1>1 DEF NoneIsApart, Store!Constants

(* The pages and the bounds of the two sessions are numbers.                *)
LEMMA SessionConstants == Tabs!Constants /\ Recovery!Constants
BY DEF Tabs!Constants, Recovery!Constants
-----------------------------------------------------------------------------
(* ProfileStore, EvidenceKept: in the run a damaged database is kept whole.  *)
THEOREM DamagedIsKept == ASSUME NoneIsApart PROVE PartsSpec => []EvidenceKept
<1>1. Store!Spec => []Store!EvidenceKept
  BY StoreConstants, Store!DamageIsKept
<1>2. Store!EvidenceKept \/ ~OfProfiles => EvidenceKept
  BY DEF EvidenceKept, OfProfiles
<1> QED BY <1>1, <1>2, StoreRuns, PTL DEF PartsSpec, Store!Spec

(* ProfileStore, ProfilesApart: in the run no profile sees the site data of  *)
(* another one, and the store has its types.                                *)
THEOREM ProfilesStayApart == ASSUME NoneIsApart PROVE PartsSpec => []ProfilesApart
<1>1. Store!Spec => []Store!TypeOK
  BY StoreConstants, Store!StoreTypes
<1>2. Store!Spec => []Store!ProfilesApart
  BY StoreConstants, Store!ApartForEver
<1>3. (Store!TypeOK /\ Store!ProfilesApart) \/ ~OfProfiles => ProfilesApart
  BY DEF ProfilesApart, OfProfiles
<1> QED BY <1>1, <1>2, <1>3, StoreRuns, PTL DEF PartsSpec, Store!Spec

(* BrowserSession, SessionSaved: in both sessions of the run the browser that *)
(* leaves has its tabs in the store, and tabs are as many as their numbers.   *)
THEOREM SessionIsSaved == PartsSpec => []SessionSaved
<1>1. Tabs!Spec => []Tabs!TypeOK
  BY SessionConstants, Tabs!TabsFit
<1>2. Tabs!Spec => []Tabs!SessionSaved
  BY SessionConstants, Tabs!LeavesSaved
<1>3. Recovery!Spec => []Recovery!TypeOK
  BY SessionConstants, Recovery!TabsFit
<1>4. Recovery!Spec => []Recovery!SessionSaved
  BY SessionConstants, Recovery!LeavesSaved
<1>5. ASSUME Recovery!TypeOK, Recovery!IInv
      PROVE  Tabs!TypeOK
  <2>1. \A tabs : Recovery!Ids(tabs) = Tabs!Ids(tabs)
    BY DEF Recovery!Ids, Tabs!Ids
  <2>2. Recovery!Up = Tabs!Up
    BY DEF Recovery!Up, Tabs!Up
  <2>3. saved.tabs \in Seq(Recovery!TabType) /\ chrome.tabs \in Seq(Recovery!TabType)
    BY <1>5 DEF Recovery!IInv, Recovery!SessionTypes, Recovery!SavedType, Recovery!ChromeType
  <2>4. \A tabs \in {saved.tabs, chrome.tabs} : Len(tabs) \in Nat
    BY <2>3
  <2>5. \A S : Recovery!Cardinality(S) = Tabs!Cardinality(S)
    BY DEF Recovery!Cardinality, Tabs!Cardinality
  <2>6. \A tabs \in {saved.tabs, chrome.tabs} :
          Len(tabs) <= 2 /\ Tabs!Cardinality(Tabs!Ids(tabs)) = Len(tabs)
    BY <1>5, <2>1, <2>4, <2>5 DEF Recovery!TypeOK
  <2> QED BY <1>5, <2>1, <2>2, <2>6 DEF Recovery!TypeOK, Tabs!TypeOK
<1>6. ASSUME Recovery!SessionSaved
      PROVE  Tabs!SessionSaved
  BY <1>6 DEF Recovery!SessionSaved, Tabs!SessionSaved, Recovery!Ids, Tabs!Ids
<1>7. /\ Tabs!TypeOK /\ Tabs!SessionSaved => SessionSaved
      /\ ~OfTabs /\ ~OfRecovery => SessionSaved
  BY DEF SessionSaved, OfTabs, OfRecovery
<1>8. Recovery!Spec => []Recovery!IInv
  BY SessionConstants, Recovery!SessionInvariance
<1> QED BY <1>1, <1>2, <1>3, <1>4, <1>5, <1>6, <1>7, <1>8, SessionRuns, PTL
        DEF PartsSpec, Tabs!Spec, Recovery!Spec

(* BrowserSession, NoReloadAfterKill: in both sessions of the run a page that *)
(* was killed for its memory waits for the user.                            *)
THEOREM KilledWaits == PartsSpec => []NoReloadAfterKill
<1>1. Tabs!Spec => []Tabs!NoReloadAfterKill
  BY SessionConstants, Tabs!KilledStaysDown
<1>2. Recovery!Spec => []Recovery!NoReloadAfterKill
  BY SessionConstants, Recovery!KilledStaysDown
<1>3. Recovery!NoReloadAfterKill => Tabs!NoReloadAfterKill
  BY DEF Recovery!NoReloadAfterKill, Tabs!NoReloadAfterKill, Recovery!Home, Tabs!Home
<1>4. /\ Tabs!NoReloadAfterKill => NoReloadAfterKill
      /\ ~OfTabs /\ ~OfRecovery => NoReloadAfterKill
  BY DEF NoReloadAfterKill, OfTabs, OfRecovery
<1> QED BY <1>1, <1>2, <1>3, <1>4, SessionRuns, PTL
        DEF PartsSpec, Tabs!Spec, Recovery!Spec

(* BrowserSession, SessionKept: in both sessions of the run a stored tab goes  *)
(* only when the user closed it.                                            *)
THEOREM TabsAreKept == PartsSpec => SessionKept
<1>1. Tabs!Spec => Tabs!SessionKept
  BY SessionConstants, Tabs!TabsOutlive
<1>2. Recovery!Spec => Recovery!SessionKept
  BY SessionConstants, Recovery!TabsOutlive
<1>3. Recovery!StoredTabsStay => Tabs!StoredTabsStay
  BY DEF Recovery!StoredTabsStay, Tabs!StoredTabsStay, Recovery!Ids, Tabs!Ids
<1>4. /\ Recovery!sessionVars = sessionVars /\ Tabs!sessionVars = sessionVars
      /\ Recovery!sessionVars' = sessionVars' /\ Tabs!sessionVars' = sessionVars'
  BY DEF Recovery!sessionVars, Tabs!sessionVars, sessionVars
<1>5. [Tabs!StoredTabsStay]_(Tabs!sessionVars) \/ [Recovery!StoredTabsStay]_(Recovery!sessionVars)
         \/ (~OfTabs /\ ~OfRecovery) =>
      [(part \in {"tabs", "recovery"}) => Tabs!StoredTabsStay]_sessionVars
  BY <1>3, <1>4 DEF OfTabs, OfRecovery
<1> QED BY <1>1, <1>2, <1>5, SessionRuns, PTL
        DEF PartsSpec, Tabs!Spec, Recovery!Spec, Tabs!SessionKept, Recovery!SessionKept, SessionKept

(* MemoryGovernor, PressureHandled: in the run, on any devices, pressure is   *)
(* answered at once, eases slowly, and ends when memory stays plentiful.    *)
THEOREM PressureIsHandled == ASSUME Meminfo PROVE PartsSpec => []PressureHandled
<1>1. Gov!Spec => [](Gov!TypeOK /\ Gov!PressureHandled)
  BY PressureRelieved
<1>2. (Gov!TypeOK /\ Gov!PressureHandled) \/ ~OfMemory => PressureHandled
  BY DEF PressureHandled, OfMemory
<1> QED BY <1>1, <1>2, GovernorRuns, PTL DEF PartsSpec, Gov!Spec

(* The toolbar moves as itself.                                             *)
LEMMA ToolbarRuns ==
  /\ PartsInit /\ OfToolbar => Bar!Init
  /\ OfToolbar /\ [PartsNext]_partsVars => OfToolbar' /\ [Bar!Next]_(Bar!barVars)
  /\ ~OfToolbar /\ [PartsNext]_partsVars => ~OfToolbar'
<1>1. PartsInit /\ OfToolbar => Bar!Init
  BY DEF PartsInit, OfToolbar
<1>2. ASSUME OfToolbar, [PartsNext]_partsVars
      PROVE  [Bar!Next]_(Bar!barVars)
  BY <1>2 DEF PartsNext, partsVars, barVars, Bar!barVars, OfToolbar
<1> QED BY <1>1, <1>2, PartStays DEF OfToolbar

(* ChromeToolbar, the invariant of the toolbar behind the next two theorems.  *)
THEOREM ToolbarInvariance == PartsSpec => [](OfToolbar => ToolbarInv)
<1>1. PartsInit => (OfToolbar => ToolbarInv)
  BY ToolbarRuns, ToolbarStarts
<1>2. ASSUME OfToolbar => ToolbarInv, [PartsNext]_partsVars
      PROVE  (OfToolbar => ToolbarInv)'
  BY <1>2, ToolbarRuns, ToolbarSteps
<1> QED BY <1>1, <1>2, PTL DEF PartsSpec

(* ChromeToolbar, ToolbarHasRoom: what is shown of the toolbar is drawn and    *)
(* has its room, and nothing that scrolling asked for outlives a later wish.  *)
THEOREM ToolbarKeepsRoom == PartsSpec => []ToolbarHasRoom
<1>1. (OfToolbar => ToolbarInv) => ToolbarHasRoom
  BY ToolbarMeans DEF ToolbarHasRoom, OfToolbar
<1> QED BY <1>1, ToolbarInvariance, PTL

(* ChromeToolbar, ToolbarReturns: full screen and games, beside and inside each *)
(* other, give the toolbar back; not when full screen is entered over a game   *)
(* that ends inside it.                                                      *)
THEOREM ToolbarComesBack == PartsSpec => ToolbarReturns
<1>1. ASSUME OfToolbar => ToolbarInv, [PartsNext]_partsVars
      PROVE  [part = "toolbar" => Bar!GivesBack]_barVars
  <2>1. Bar!barVars = barVars /\ Bar!barVars' = barVars'
    BY DEF Bar!barVars, barVars
  <2>2. CASE part = "toolbar"
    <3>1. [Bar!GivesBack]_(Bar!barVars)
      BY <1>1, <2>2, ToolbarRuns, ToolbarSteps DEF OfToolbar
    <3> QED BY <2>1, <3>1
  <2> QED BY <2>2
<1> QED BY <1>1, ToolbarInvariance, PTL DEF PartsSpec, ToolbarReturns
=============================================================================
