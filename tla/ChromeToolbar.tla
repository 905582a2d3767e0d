--------------------------- MODULE ChromeToolbar ---------------------------
(***************************************************************************)
(* The toolbar and its panels: who shows and hides them, what of that is    *)
(* published to the renderer, and how much room the page is left. The user  *)
(* taps, scrolls and makes the gesture of three taps; the page takes the    *)
(* whole screen, or plays a game; both take the toolbar away and give it    *)
(* back.                                                                    *)
(***************************************************************************)

VARIABLES
  ui,   \* what AppState and BrowserChrome keep of it
  hist  \* what was asked and what was so before, for the properties

barVars == <<ui, hist>>

(* A list is any panel but the tabs and the menu. *)
Panels == {"none", "tabs", "menu", "list"}
Wishes == {"none", "show", "hide"}

Seen(u) == [visible |-> u.visible, panel |-> u.panel, fullscreen |-> u.fullscreen]

TypeOK ==
  /\ ui \in [visible: BOOLEAN, panel: Panels, autoHide: BOOLEAN, inImmersive: BOOLEAN,
             fullscreen: BOOLEAN, game: BOOLEAN, media: BOOLEAN, override: BOOLEAN,
             beforeFullscreen: BOOLEAN, beforeGame: BOOLEAN, auto: Wishes, inset: BOOLEAN,
             timer: BOOLEAN, shown: [visible: BOOLEAN, panel: Panels, fullscreen: BOOLEAN],
             touching: BOOLEAN, tapped: BOOLEAN, asking: {"none", "address", "setting", "name"}]
  /\ hist \in [asked: Wishes, gap: BOOLEAN, wanted: BOOLEAN, overGame: BOOLEAN]

Init ==
  /\ ui = [visible |-> TRUE, panel |-> "none", autoHide |-> TRUE, inImmersive |-> TRUE,
           fullscreen |-> FALSE, game |-> FALSE, media |-> FALSE, override |-> FALSE,
           beforeFullscreen |-> FALSE, beforeGame |-> FALSE, auto |-> "none", inset |-> TRUE,
           timer |-> FALSE, shown |-> [visible |-> TRUE, panel |-> "none", fullscreen |-> FALSE],
           touching |-> FALSE, tapped |-> FALSE, asking |-> "none"]
  /\ hist = [asked |-> "none", gap |-> FALSE, wanted |-> TRUE, overGame |-> FALSE]

Immersed(u) == u.fullscreen \/ u.game \/ u.media

(* The page has the whole panel, by its own wish or for its game. *)
Covered(u) == u.fullscreen \/ u.media
-----------------------------------------------------------------------------
(* What the handlers are made of. *)

SetVisible(u, visible) == [u EXCEPT !.auto = "none", !.visible = visible]

(* Whether the page leaves room for the toolbar. *)
TopInset(u) == ~u.fullscreen /\ (u.panel # "none" \/ u.visible)

Publish(u) == [u EXCEPT !.shown = Seen(u)]

(* mutation: every layout waits for the end of the animation. *)
Layout_AlwaysLater(u) ==
  IF u.inset # TopInset(u) THEN [u EXCEPT !.timer = TRUE] ELSE [u EXCEPT !.timer = FALSE]

(* chrome_apply_layout: the page grows only when the toolbar has moved out.   *)
Layout(u) ==
  IF u.inset /\ ~TopInset(u) THEN [u EXCEPT !.timer = TRUE]
  ELSE [u EXCEPT !.timer = FALSE, !.inset = TopInset(u)]

SaveState(u) == Layout(Publish(u))
ClosePanel(u) == [u EXCEPT !.panel = "none"]
OpenList(u) == [u EXCEPT !.panel = "list"]
OpenPanel(u, panel) == SetVisible([u EXCEPT !.panel = panel], TRUE)
LoadUrl(u) == SaveState(SetVisible(ClosePanel(u), TRUE))
-----------------------------------------------------------------------------
(* gap: a handler showed something without a layout, and none came since.     *)
Missing(u) == (TopInset(u) /\ ~u.inset) \/ u.shown # Seen(u)

Becomes(u) ==
  /\ ui' = u
  /\ hist' = [hist EXCEPT !.gap = @ /\ Missing(u)]

(* The user, or the page that takes the whole screen: what scrolling asked    *)
(* for before does not count any more.                                      *)
Manually(u) ==
  /\ ui' = u
  /\ hist' = [hist EXCEPT !.asked = "none", !.gap = @ /\ Missing(u)]

(* Shown without a layout of the page. *)
Unlaid(u) ==
  /\ ui' = u
  /\ hist' = [hist EXCEPT !.gap = TRUE]

Asks(u, kind) == [u EXCEPT !.asking = kind]
-----------------------------------------------------------------------------
(* chrome_handle_toolbar_tap *)

TakesTaps == ~ui.fullscreen \/ ui.override

TapOutside ==
  /\ TakesTaps /\ ui.panel \in {"tabs", "menu"}
  /\ Becomes(SaveState(ClosePanel(ui)))

TapTab ==
  /\ TakesTaps /\ ui.panel = "tabs"
  /\ \/ Becomes(SaveState(ClosePanel(ui)))       \* the tab that is shown
     \/ Manually(LoadUrl(ui))                    \* another one
     \/ Becomes(SaveState(ui))                   \* another one is closed
     \/ Manually(SaveState(OpenPanel(LoadUrl(ui), "tabs")))

TapMenu ==
  /\ TakesTaps /\ ui.panel = "menu"
  /\ \/ Becomes(Publish(OpenList(ui)))
     \/ Becomes(Publish(ui))

OnList == TakesTaps /\ ui.panel = "list"

TapHeader ==
  /\ OnList
  /\ \/ Manually(Publish(OpenPanel(ui, "menu")))
     \/ Becomes(Publish(OpenList(ui)))
     \/ Becomes(Publish(ClosePanel(ui)))

(* A setting, or a question about one. The mode of rotation that is the       *)
(* present one closes the panel, the page about the browser leads out of it.  *)
TapSetting ==
  /\ OnList
  /\ \/ \E kind \in {ui.asking, "setting"} : Becomes(Publish(Asks(ui, kind)))
     \/ Becomes(Publish(SaveState(ui)))
     \/ Becomes(Publish(ClosePanel(ui)))
     \/ Manually(LoadUrl(ui))

(* Profiles, bookmarks, history, and the dialogues that delete.               *)
TapRecord ==
  /\ OnList
  /\ \/ \E kind \in {ui.asking, "name"} : Becomes(Publish(Asks(ui, kind)))
     \/ Manually(Publish(LoadUrl(ui)))

(* The settings of the appearance. *)
TapAutoHide ==
  /\ OnList
  /\ LET changed == [ui EXCEPT !.autoHide = ~@]
     IN  IF changed.autoHide THEN Becomes(SaveState(changed))
         ELSE Manually(SaveState(SetVisible(changed, TRUE)))

TapInImmersive ==
  /\ OnList
  /\ LET changed == [ui EXCEPT !.inImmersive = ~@]
     IN  IF ~changed.inImmersive /\ Immersed(ui) /\ ui.override
         THEN Manually(SaveState(SetVisible(ClosePanel([changed EXCEPT !.override = FALSE]), FALSE)))
         ELSE Becomes(SaveState(changed))

TapToolbar ==
  /\ TakesTaps /\ ui.visible
  /\ \/ Manually(Asks(SaveState(SetVisible(ClosePanel(ui), TRUE)), "address"))
     \/ Manually(LoadUrl(ui))
     \/ \E panel \in {"tabs", "menu"} :
          LET open == ui.panel \in (IF panel = "tabs" THEN {"tabs"} ELSE {"menu", "list"})
          IN  IF open THEN Becomes(SaveState(ClosePanel(ui)))
              ELSE Manually(SaveState(OpenPanel(ui, panel)))

(* keyboard_handle_response: an address, a home page or a search address, the *)
(* name of a profile. The user may have gone elsewhere meanwhile.            *)
KeyboardResult ==
  LET done == Asks(ui, "none")
      named == Publish(OpenList(done))
  IN  \/ ui.asking = "address" /\ Manually(LoadUrl(done))
      \/ ui.asking = "setting" /\ Becomes(SaveState(OpenList(done)))
      \/ ui.asking = "name" /\ IF TopInset(named) = TopInset(ui) THEN Becomes(named) ELSE Unlaid(named)

KeyboardCancelled == ui.asking # "none" /\ Becomes(Asks(ui, "none"))
-----------------------------------------------------------------------------
(* The gesture of three taps: taken when its quiet time is over. *)

GestureTapped ==
  /\ ~ui.tapped /\ ~ui.touching
  /\ ~Immersed(ui) \/ ui.inImmersive
  /\ Becomes([ui EXCEPT !.tapped = TRUE])

Toggled(u) ==
  IF u.visible \/ u.panel # "none"
  THEN SaveState(SetVisible(ClosePanel([u EXCEPT !.override = FALSE]), FALSE))
  ELSE SaveState(SetVisible([u EXCEPT !.override = Immersed(u)], TRUE))

GestureFires == ui.tapped /\ Manually(Toggled([ui EXCEPT !.tapped = FALSE]))

TouchDown == ~ui.touching /\ Becomes([ui EXCEPT !.touching = TRUE, !.tapped = FALSE])
TouchUp == ui.touching /\ Becomes([ui EXCEPT !.touching = FALSE])
-----------------------------------------------------------------------------
(* Scrolling: chrome_note_scroll and chrome_auto_visibility_tick. *)

Scrolls == ui.touching /\ ~ui.game /\ ~ui.fullscreen

WillBeVisible(u) == IF u.auto = "none" THEN u.visible ELSE u.auto = "show"

ScrollAsks(wish) ==
  /\ Scrolls /\ ui.autoHide
  /\ IF wish = "hide" THEN WillBeVisible(ui) /\ ui.panel = "none" ELSE ~WillBeVisible(ui)
  /\ ui' = [ui EXCEPT !.auto = wish]
  /\ hist' = [hist EXCEPT !.asked = wish]

(* Hiding is switched off: the toolbar comes back at once. *)
ScrollShows ==
  /\ Scrolls /\ ~ui.autoHide /\ ~ui.visible /\ ui.panel = "none"
  /\ Unlaid(SetVisible(ui, TRUE))

Void(u) == u.fullscreen \/ ~u.autoHide \/ u.panel # "none"

AutoVisibility ==
  /\ ui.auto # "none"
  /\ LET done == [ui EXCEPT !.auto = "none"]
         visible == ui.auto = "show"
     IN  \/ Void(ui) /\ Becomes(done)
         \/ /\ ~Void(ui) /\ ~ui.touching
            /\ Becomes(IF visible = ui.visible THEN done ELSE SaveState(SetVisible(done, visible)))

DeferredLayout ==
  ui.timer /\ Becomes([ui EXCEPT !.timer = FALSE, !.inset = TopInset(ui)])
-----------------------------------------------------------------------------
(* The page. *)

Inside(u) ==
  SaveState([u EXCEPT !.fullscreen = TRUE, !.override = FALSE, !.beforeFullscreen = u.visible,
                      !.panel = "none", !.visible = FALSE])

(* The page takes the panel; what the user saw before is wanted back. overGame: *)
(* full screen was entered while a game had the panel.                       *)
Takes(overGame) ==
  hist' = [hist EXCEPT !.asked = "none", !.gap = FALSE, !.overGame = overGame,
                       !.wanted = IF Covered(ui) THEN @ ELSE ui.visible]

EnterFullscreen == ~ui.fullscreen /\ ui' = Inside(ui) /\ Takes(ui.media)

LeaveFullscreen ==
  /\ ui.fullscreen
  /\ LET outside == [ui EXCEPT !.fullscreen = FALSE, !.override = FALSE, !.panel = "none"]
     IN  Manually(SaveState(
           IF ui.media
           THEN SetVisible([outside EXCEPT !.media = FALSE, !.beforeGame = TRUE], TRUE)
           ELSE SetVisible(outside, ui.beforeFullscreen)))

(* set_game_input_active: the video of a game plays, or stops. *)
Playing(u) ==
  LET playing == [u EXCEPT !.game = TRUE]
  IN  IF u.media THEN playing
      ELSE SaveState(SetVisible([playing EXCEPT !.media = TRUE, !.override = FALSE,
                                                !.beforeGame = u.visible, !.panel = "none"], FALSE))

(* mutation: a game inside full screen takes its place for what was before.   *)
GameStarts_Overwrites ==
  ~ui.game /\ ui' = [Playing(ui) EXCEPT !.beforeFullscreen = ui.visible] /\ Takes(hist.overGame)

GameStarts == ~ui.game /\ ui' = Playing(ui) /\ Takes(hist.overGame)

GameOver(u) ==
  LET over == [u EXCEPT !.game = FALSE]
  IN  IF ~u.media THEN over
      ELSE SaveState(IF u.fullscreen THEN [over EXCEPT !.media = FALSE]
                     ELSE SetVisible([over EXCEPT !.media = FALSE], u.beforeGame))

GameEnds == ui.game /\ Manually(GameOver(ui))

(* on_load_changed, a title, a dialogue that closes: what is shown is         *)
(* published again, with a layout or without.                                *)
LoadChanges == \E u \in {Publish(ui), SaveState(ui)} : Becomes(u)
-----------------------------------------------------------------------------
Next ==
  \/ TapOutside \/ TapTab \/ TapMenu \/ TapHeader \/ TapSetting \/ TapRecord
  \/ TapAutoHide \/ TapInImmersive \/ TapToolbar
  \/ KeyboardResult \/ KeyboardCancelled
  \/ GestureTapped \/ GestureFires \/ TouchDown \/ TouchUp
  \/ \E wish \in {"show", "hide"} : ScrollAsks(wish)
  \/ ScrollShows \/ AutoVisibility \/ DeferredLayout
  \/ EnterFullscreen \/ LeaveFullscreen \/ GameStarts \/ GameEnds \/ LoadChanges

Spec == Init /\ [][Next]_barVars
-----------------------------------------------------------------------------
(* A toolbar or a panel that is shown has its room above the page, whatever    *)
(* follows each other: a layout put off to the end of the animation, a page   *)
(* in full screen, a panel opened by a late answer of the keyboard. Where     *)
(* handlers show it without a layout (gap) room is missing until the next.    *)
PageUncovered == TopInset(ui) /\ ~hist.gap => ui.inset

(* The same of the toolbar in every state: README.en.md:103, "Resizes the page *)
(* viewport while the toolbar is visible so page content is not covered".    *)
RoomWhileVisible == ui.visible /\ ui.panel = "none" /\ ~ui.fullscreen => ui.inset

(* The renderer draws what is there, and taps find what is drawn: each change *)
(* of the toolbar and its panels has been published (but for the gap).       *)
DrawnAsIs == hist.gap \/ ui.shown = Seen(ui)

(* What waits to be shown or hidden after a scroll is what the last scroll     *)
(* wanted: the user and the page have shown or hidden nothing since            *)
(* (PORTRAIT_SCROLL_FIX.md: "Manual, menu and fullscreen operations cancel    *)
(* pending automatic work."). What only closes a panel cancels nothing.       *)
PendingIsWanted == ui.auto = "none" \/ Void(ui) \/ ui.auto = hist.asked

(* A page that gives the panel back gives the toolbar back: full screen and    *)
(* games may begin and end in any order, one inside the other too, with the   *)
(* gesture between. It fails in one order: full screen is entered over a game  *)
(* and what it saved is the toolbar the game had hidden; the game ends inside  *)
(* full screen, so that its end restores nothing, before full screen does.    *)
GivesBack ==
  Covered(ui) /\ ~Covered(ui)' /\ hist.wanted => ui'.visible \/ (hist.overGame /\ ~ui.media)
=============================================================================
