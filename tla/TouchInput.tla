----------------------------- MODULE TouchInput -----------------------------
(***************************************************************************)
(* From the touch panel to the page: the reports of the kernel are gathered *)
(* into frames, the recogniser of the toolbar gesture holds frames back or  *)
(* lets them pass on probation, and the frames that pass become touch       *)
(* streams of the page or, in a game, taps and drags.                       *)
(***************************************************************************)
EXTENDS Naturals, Sequences, FiniteSetsExt

CONSTANTS
  Slots,      \* 1..n; bound: the slots of the panel (BROWSER_TOUCH_MAX_CONTACTS)
  Contacts,   \* tracking ids, used again when nothing refers to them
  Taps,       \* taps of two fingers that make the gesture; 3 in the code
  MaxFrames,  \* bound: frames held back, below MAX_BUFFERED_TOUCH_FRAMES
  Abrupt      \* whether one report may change more than two fingers would

VARIABLES
  raw,      \* raw_slots, between two reports
  gesture,  \* toolbar_gesture
  view,     \* slots, and what the page was sent
  mode      \* game_input_active, and whether the gesture is enabled

touchVars == <<raw, gesture, view, mode>>

NoContact == [id |-> 0, pos |-> 0, active |-> FALSE, down |-> FALSE, up |-> FALSE]
NoGesture ==
  [phase |-> "idle", frames |-> <<>>, taps |-> 0, first |-> <<>>, pair |-> <<>>,
   reference |-> <<>>, speculative |-> FALSE]
NoTouch ==
  [id |-> 0, pos |-> 0, active |-> FALSE, consumed |-> FALSE, game |-> "none", cut |-> FALSE]

(* Two places tell everything apart: 1 is on the toolbar and further from 0   *)
(* than any threshold. down holds the slots with a stream the page has      *)
(* begun, ended the contacts held back whose end the page saw already.      *)
Init ==
  /\ raw = [s \in Slots |-> NoContact]
  /\ gesture = NoGesture
  /\ view = [slots |-> [s \in Slots |-> NoTouch], down |-> {}, stray |-> FALSE,
             ended |-> {}, twice |-> FALSE]
  /\ mode \in [game : BOOLEAN, enabled : BOOLEAN]
-----------------------------------------------------------------------------
(* process_touch_syn: one slot after the other. *)

(* wpe_view_event with a touch event; a slot whose game was left in mid-touch *)
(* keeps sending the rest of it.                                            *)
SendDown(v, S) == [v EXCEPT !.stray = @ \/ S \cap v.down # {}, !.down = @ \cup S]
SendMove(v, S) == [v EXCEPT !.stray = @ \/ \E s \in S : s \notin v.down /\ ~v.slots[s].cut]
SendEnd(v, S) == [SendMove(v, S) EXCEPT !.down = @ \ S]

Ended(v, s) ==
  IF v.slots[s].cut THEN v
  ELSE [v EXCEPT !.ended = @ \cup {v.slots[s].id}, !.twice = @ \/ v.slots[s].id \in v.ended]

(* game_activate_touch_slot *)
Activated(v, S) ==
  [SendDown(v, S) EXCEPT !.slots = [s \in Slots |-> IF s \in S THEN [v.slots[s] EXCEPT !.game = "touch"]
                                                     ELSE v.slots[s]]]

(* game_flush_multitouch: from two fingers on, everything is a touch.         *)
Flushed(v) ==
  LET playing == {s \in Slots : v.slots[s].active /\ ~v.slots[s].consumed
                                /\ v.slots[s].game # "none"}
  IN  IF Cardinality(playing) < 2 THEN v
      ELSE Activated(v, {s \in playing : v.slots[s].game = "pending"})

TouchDown(v, s, pos) ==
  LET w == [v EXCEPT !.slots[s].consumed = pos = 1, !.slots[s].cut = FALSE]
  IN  IF pos = 1 THEN w
      ELSE IF mode.game THEN Flushed([w EXCEPT !.slots[s].game = "pending"])
      ELSE SendDown(w, {s})

(* In a game a short touch is a click, which has no stream.                   *)
TouchUp(v, s) ==
  LET slot == v.slots[s]
      w == IF slot.consumed THEN v
           ELSE IF slot.game = "pending" THEN Ended(v, s)
           ELSE Ended(SendEnd(v, {s}), s)
  IN  [w EXCEPT !.slots[s] = NoTouch]

TouchMove(v, s, pos) ==
  LET slot == v.slots[s]
      w == [v EXCEPT !.slots[s].pos = pos]
  IN  IF slot.consumed THEN w
      ELSE IF slot.game = "pending" THEN SendMove(Activated(w, {s}), {s})
      ELSE SendMove(w, {s})

(* dispatch_touch_frame *)
Dispatch(v, frame) ==
  LET taken == [v EXCEPT !.slots = [s \in Slots |->
                  [v.slots[s] EXCEPT !.id = frame[s].id, !.active = frame[s].active]]]
      Slot(w, s) ==
        LET c == frame[s]
        IN  IF c.down THEN [TouchDown(w, s, c.pos) EXCEPT !.slots[s].pos = c.pos]
            ELSE IF c.up THEN TouchUp(w, s)
            ELSE IF c.active /\ c.pos # w.slots[s].pos THEN TouchMove(w, s, c.pos)
            ELSE w
      upto[s \in 0..Max(Slots)] == IF s = 0 THEN taken ELSE Slot(upto[s - 1], s)
  IN  upto[Max(Slots)]

(* cancel_speculative_touch_stream *)
Cancelled(v) ==
  LET present == {s \in Slots : v.slots[s].active \/ v.slots[s].id # 0}
      sent == {s \in present : v.slots[s].game = "touch"
                               \/ (v.slots[s].game = "none" /\ ~v.slots[s].consumed)}
  IN  [SendEnd(v, sent) EXCEPT !.slots = [s \in Slots |-> IF s \in present THEN NoTouch
                                                          ELSE v.slots[s]]]
-----------------------------------------------------------------------------
(* browser_toolbar_gesture_handle: what becomes of a frame, and of the          *)
(* recogniser. late: the window of the phase is over, the timer has not run.*)

ActiveIn(frame) == {s \in Slots : frame[s].active}
DownIn(frame) == {s \in Slots : frame[s].down}
Points(frame) ==
  [c \in {frame[s].id : s \in ActiveIn(frame)} |->
     frame[CHOOSE s \in ActiveIn(frame) : frame[s].id = c].pos]

Moved(points, frame) ==
  \E s \in Slots : /\ frame[s].active \/ frame[s].up
                   /\ frame[s].id \in DOMAIN points /\ points[frame[s].id] # frame[s].pos

(* The two fingers may change places. *)
Layout(points) == <<Cardinality({c \in DOMAIN points : points[c] = 1})>>

Does(action, g) == [action |-> action, gesture |-> g]
Fail(g) == Does("replay", g)
LetGo == Does("speculative pass", NoGesture)

(* begin_pair *)
Pairs(g, frame) ==
  /\ Cardinality(ActiveIn(frame)) = 2
  /\ g.reference = <<>> \/ g.reference = Layout(Points(frame))
Paired(g, frame) == [g EXCEPT !.phase = "pair active", !.pair = Points(frame), !.first = <<>>]

HandleIdle(g, frame) ==
  LET n == Cardinality(ActiveIn(frame))
      held == [g EXCEPT !.frames = <<frame>>]
  IN  IF ~mode.enabled \/ DownIn(frame) = {} \/ n > 2 \/ DownIn(frame) # ActiveIn(frame)
        THEN Does("pass", g)
      ELSE IF n = 2 THEN Does("buffer", Paired(held, frame))
      ELSE Does("speculative pass", [held EXCEPT !.phase = "wait pair", !.speculative = TRUE,
                                                 !.first = Points(frame)])

HandleNext(g, frame) ==
  LET n == Cardinality(ActiveIn(frame))
  IN  IF DownIn(frame) = {} THEN Does("buffer", g)
      ELSE IF n = 2 THEN IF Pairs(g, frame) THEN Does("buffer", Paired(g, frame)) ELSE Fail(g)
      ELSE IF n = 1 THEN Does("buffer", [g EXCEPT !.phase = "wait pair", !.first = Points(frame)])
      ELSE Fail(g)

(* mutation: the stream is not cancelled when the second finger comes. *)
HandleWaitPair_NoCancel(g, frame, late) ==
  LET n == Cardinality(ActiveIn(frame))
      GiveUp == IF g.speculative THEN LetGo ELSE Fail(g)
  IN  IF n = 0 \/ Moved(g.first, frame) THEN GiveUp
      ELSE IF n # 2 THEN Does(IF g.speculative THEN "speculative pass" ELSE "buffer", g)
      ELSE IF late THEN GiveUp
      ELSE IF ~Pairs(g, frame) THEN Fail(g)
      ELSE Does("buffer", [Paired(g, frame) EXCEPT !.speculative = FALSE])

HandleWaitPair(g, frame, late) ==
  LET n == Cardinality(ActiveIn(frame))
      GiveUp == IF g.speculative THEN LetGo ELSE Fail(g)
  IN  IF n = 0 \/ Moved(g.first, frame) THEN GiveUp
      ELSE IF n # 2 THEN Does(IF g.speculative THEN "speculative pass" ELSE "buffer", g)
      ELSE IF late THEN GiveUp
      ELSE IF ~Pairs(g, frame) THEN Fail(g)
      ELSE Does(IF g.speculative THEN "cancel" ELSE "buffer",
                [Paired(g, frame) EXCEPT !.speculative = FALSE])

HandlePair(g, frame, late) ==
  IF Moved(g.pair, frame) \/ late THEN Fail(g)
  ELSE IF ActiveIn(frame) # {} THEN Does("buffer", g)
  ELSE Does("buffer", [g EXCEPT !.taps = @ + 1,
                                !.reference = IF @ = <<>> THEN Layout(g.pair) ELSE @,
                                !.phase = IF g.taps + 1 >= Taps THEN "quiet" ELSE "wait next"])

Handle(g0, frame, late) ==
  LET g == [g0 EXCEPT !.frames = Append(@, frame)]
      touched == \E s \in Slots : frame[s] # NoContact
  IN  IF g0.phase = "idle" THEN HandleIdle(g0, frame)
      ELSE IF ~mode.enabled THEN IF g.speculative THEN LetGo ELSE Fail(g)
      ELSE IF g.phase = "quiet" THEN IF touched THEN Fail(g) ELSE Does("buffer", g)
      ELSE IF Cardinality(ActiveIn(frame)) > 2 THEN Fail(g)
      ELSE CASE g.phase = "wait next" -> HandleNext(g, frame)
             [] g.phase = "wait pair" -> HandleWaitPair(g, frame, late)
             [] OTHER -> HandlePair(g, frame, late)

Held(g) == UNION {{g.frames[i][s].id : s \in Slots} : i \in DOMAIN g.frames}

(* The recogniser and the page go on as g and v.                              *)
Goes(g, v) == gesture' = g /\ view' = [v EXCEPT !.ended = @ \cap Held(g)]

(* browser_toolbar_gesture_replay *)
Replay(v, frames) ==
  LET upto[i \in 0..Len(frames)] == IF i = 0 THEN v ELSE Dispatch(upto[i - 1], frames[i])
  IN  Goes(NoGesture, upto[Len(frames)])
-----------------------------------------------------------------------------
(* touch_io_cb: a report of the kernel, slot after slot, and its frame. *)

Used == {raw[s].id : s \in Slots} \cup {view.slots[s].id : s \in Slots} \cup Held(gesture)
Free == Contacts \ Used
Fresh(k) == CHOOSE c \in Free : Cardinality({d \in Free : d < c}) = k - 1

(* What a report says of a slot. A contact is in one report at least before   *)
(* it lifts; one that takes the place of another may not say that it did.   *)
Lands == {"lands on the page", "lands on the toolbar"}
Says(s) == {"nothing"} \cup Lands \cup (IF raw[s].active THEN {"lifts", "moves"} ELSE {})

(* Ids are given in the order of the slots. *)
Landed(says, s) ==
  [id |-> Fresh(Cardinality({t \in 1..s : says[t] \in Lands})),
   pos |-> IF says[s] = "lands on the page" THEN 0 ELSE 1,
   active |-> TRUE, down |-> TRUE, up |-> FALSE]

After(slot, says, s) ==
  CASE says[s] \in Lands -> Landed(says, s)
    [] says[s] = "lifts" /\ slot.active -> [slot EXCEPT !.active = FALSE, !.up = TRUE]
    [] says[s] = "moves" /\ slot.active -> [slot EXCEPT !.pos = 1 - @]
    [] OTHER -> slot

(* A slot whose contact is replaced: reset_raw_touch_stream retires the old    *)
(* one, and with it all that was, and that the report said of other slots    *)
(* so far.                                                                  *)
Replaced(says) == {s \in Slots : says[s] \in Lands /\ raw[s].active}

Read(says) ==
  IF Replaced(says) = {} THEN [s \in Slots |-> After(raw[s], says, s)]
  ELSE [s \in Slots |-> IF s < Min(Replaced(says)) THEN NoContact ELSE After(NoContact, says, s)]

(* build_touch_frame clears what was new. *)
Settled(slots) ==
  [s \in Slots |-> IF slots[s].active THEN [slots[s] EXCEPT !.down = FALSE] ELSE NoContact]

(* No finger lands as another one lifts, and none is joined by two at once;    *)
(* bound: of three fingers one moves or lifts at a time.                     *)
Smooth(says) ==
  LET landing == {s \in Slots : says[s] \in Lands}
  IN  /\ Cardinality(Slots) > 2 => Cardinality({s \in Slots : says[s] \in {"lifts", "moves"}}) <= 1
      /\ landing # {} => /\ \A s \in Slots : says[s] # "lifts"
                         /\ Cardinality(landing) <= IF ActiveIn(raw) = {} THEN 2 ELSE 1

(* handle_touch_frame. *)
Report(says, late) ==
  /\ Len(gesture.frames) < MaxFrames
  /\ Abrupt \/ Smooth(says)
  /\ \A s \in Slots : says[s] \in Says(s)
  /\ \E s \in Slots : says[s] # "nothing"
  /\ Cardinality({s \in Slots : says[s] \in Lands}) <= Cardinality(Free)
  /\ \E frame \in {Read(says)},
        v \in {IF Replaced(says) = {} THEN view ELSE Cancelled(view)},
        g \in {IF Replaced(says) = {} THEN gesture ELSE NoGesture} :
       \E done \in {Handle(g, frame, late)} :
         /\ raw' = Settled(frame)
         /\ \/ /\ done.action \in {"pass", "speculative pass"}
               /\ Goes(done.gesture, Dispatch(v, frame))
            \/ done.action = "cancel" /\ Goes(done.gesture, Cancelled(v))
            \/ done.action = "buffer" /\ Goes(done.gesture, v)
            \/ done.action = "replay" /\ Replay(v, done.gesture.frames)
  /\ UNCHANGED mode

(* SYN_DROPPED, or the device is gone: reset_raw_touch_stream. What follows   *)
(* up to the next report is not read.                                       *)
Resync ==
  /\ raw' = [s \in Slots |-> NoContact]
  /\ Goes(NoGesture, Cancelled(view))
  /\ UNCHANGED mode

(* toolbar_gesture_timeout_cb. A gesture that is complete is acted upon by      *)
(* the toolbar, and its frames are dropped.                                 *)
Expire ==
  /\ gesture.phase # "idle"
  /\ IF gesture.phase = "quiet" \/ gesture.speculative
       THEN Goes(NoGesture, view)
       ELSE Replay(view, gesture.frames)
  /\ UNCHANGED <<raw, mode>>
-----------------------------------------------------------------------------
(* game_hold_timeout_cb: a long touch is one. *)
HoldTimeout(s) ==
  /\ mode.game /\ view.slots[s].active /\ view.slots[s].game = "pending"
  /\ view' = Activated(view, {s})
  /\ UNCHANGED <<raw, gesture, mode>>

(* set_game_input_active, from a load; leaving ends the touches of the game.   *)
SetGame ==
  /\ mode' = [mode EXCEPT !.game = ~@]
  /\ IF ~mode.game THEN UNCHANGED view
     ELSE LET playing == {s \in Slots : view.slots[s].game # "none"}
              touching == {s \in playing : view.slots[s].game = "touch" /\ view.slots[s].active}
          IN  view' = [SendEnd(view, touching) EXCEPT
                         !.slots = [s \in Slots |->
                           IF s \in playing THEN [view.slots[s] EXCEPT !.game = "none", !.cut = TRUE]
                           ELSE view.slots[s]]]
  /\ UNCHANGED <<raw, gesture>>

(* Full screen, or the setting for it. *)
SetEnabled == mode' = [mode EXCEPT !.enabled = ~@] /\ UNCHANGED <<raw, gesture, view>>

Next ==
  \/ \E says \in [Slots -> Lands \cup {"nothing", "lifts", "moves"}],
        late \in IF gesture.phase \in {"wait pair", "pair active"} THEN BOOLEAN ELSE {FALSE} :
       Report(says, late)
  \/ \E s \in Slots : HoldTimeout(s)
  \/ Resync \/ Expire \/ SetGame \/ SetEnabled

Spec == Init /\ [][Next]_touchVars
-----------------------------------------------------------------------------
TypeOK ==
  /\ gesture.phase \in {"idle", "wait pair", "pair active", "wait next", "quiet"}
  /\ (gesture.phase = "idle") = (gesture.frames = <<>>)
  /\ gesture.taps \in 0..Taps

(* The page sees a stream begin only when the last one of the slot ended, and  *)
(* end or go on only when it began (touch_io_cb: "must retire the old WPE    *)
(* contact before allocating another sequence").                            *)
OldContactRetired == ~view.stray

(* Every stream of the page starts and ends once, whatever was held back,      *)
(* cancelled or replayed in between; no stream is left when its finger is    *)
(* gone and nothing is held back; and a tap reaches the page once: frames    *)
(* that passed on probation are replayed only when the stream they made was *)
(* cancelled.                                                               *)
StreamsWhole ==
  /\ OldContactRetired
  /\ gesture.phase = "idle" =>
       \A s \in view.down : raw[s].active /\ raw[s].id = view.slots[s].id
  /\ ~view.twice
=============================================================================
