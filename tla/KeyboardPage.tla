---------------------------- MODULE KeyboardPage ----------------------------
(***************************************************************************)
(* The keyboard of the MiniApp page (keyboard-bridge.js, keyboard.js and    *)
(* the JSAPI calls they make): requests found in a file are shown to the    *)
(* user in a text area or in the global keyboard of the system, and what    *)
(* the user does is written to files the browser reads. Each handler runs   *)
(* to its end; timers are members of page.timers and may fire as soon as    *)
(* they are armed.                                                          *)
(***************************************************************************)
EXTENDS Naturals, FiniteSets

CONSTANTS
  Ids,        \* the numbers of the requests, 1..n
  Texts,      \* what a field may hold; 0 is what it held before
  MaxSequence, \* bound: changes of the text the user makes per request
  MaxRetries, \* the length of RESPONSE_RETRY_DELAYS_MS
  MaxFaults,  \* bound: writes and keyboards that fail, documents and processes that end
  Overrides,  \* the values keyboard_backend may have in app.json
  None

ASSUME KeyboardConstants ==
  /\ Ids = 1..Cardinality(Ids)
  /\ 0 \in Texts /\ None \notin Texts
  /\ None \notin [confirmed : BOOLEAN, text : Texts]
  /\ Overrides \subseteq {"auto", "textarea", "global"}
  /\ MaxRetries \in Nat

VARIABLES
  page,     \* KeyboardBridge.state, its KeyboardSession, and backend.json (stored)
  files     \* the directories requests, responses and status

Backends == {"textarea", "global"}
Timers == {"focus", "probe", "switch", "return", "retry", "deadline"}
Decision(confirmed, text) == [confirmed |-> confirmed, text |-> text]

NoFiles ==
  [request |-> 0,
   update |-> [i \in Ids |-> None], ok |-> [i \in Ids |-> None],
   cancel |-> {}, status |-> [i \in Ids |-> ""]]

(* A page that is set up: readProfile takes the override, or what was stored. *)
NewPage(override, stored) ==
  [polls |-> TRUE, phase |-> "idle", req |-> 0, backend |-> "", tried |-> {},
   sequence |-> 0, last |-> None, answer |-> None, said |-> None, tries |-> 0, timers |-> {},
   visible |-> FALSE, focused |-> FALSE, blurred |-> FALSE,
   override |-> override, stored |-> stored,
   mode |-> IF override = "auto" THEN stored ELSE override,
   learned |-> override = "auto" /\ stored # "auto",
   uuid |-> 0, uuids |-> 0, open |-> {}, closing |-> {}, result |-> None,
   done |-> {}, taken |-> {}, again |-> FALSE, faults |-> 0]

PageInit ==
  /\ \E o \in Overrides : page = NewPage(o, "auto")
  /\ files = NoFiles
-----------------------------------------------------------------------------
(* The parts of the handlers. *)

CloseTextarea(p) ==
  [p EXCEPT !.timers = @ \ {"probe"}, !.visible = FALSE, !.focused = FALSE, !.blurred = FALSE]

(* KeyboardSession.close: the keyboard of the system is closed at once.     *)
CloseSession(p) == [p EXCEPT !.uuid = 0, !.open = @ \ {p.uuid}]

(* mutation: only the text area is closed. *)
CloseLocal_KeepsSession(p) == CloseTextarea(p)

CloseLocal(p) == CloseTextarea(CloseSession(p))

(* The request is over for this page, and is not taken again.               *)
Reset(p) ==
  [CloseLocal(p) EXCEPT
     !.phase = "idle", !.req = 0, !.backend = "", !.tried = {}, !.sequence = 0,
     !.last = None, !.answer = None, !.said = None, !.tries = 0, !.timers = {},
     !.done = IF p.req = 0 THEN @ ELSE @ \cup {p.req}]

(* markBackendSuccess, with the report that is stored.                      *)
Succeeded(p, backend) ==
  LET q == [p EXCEPT !.timers = @ \ {"probe"}]
  IN  IF p.override # "auto" THEN q
      ELSE [q EXCEPT !.mode = backend, !.learned = TRUE,
                     !.stored = IF p.mode # backend \/ ~p.learned THEN backend ELSE @]

(* respondKeyboardRequest: the file is there as a whole or not at all.      *)
Responded(f, p, d) ==
  IF d.confirmed
  THEN [f EXCEPT !.ok[p.req] = [sequence |-> p.sequence, text |-> d.text]]
  ELSE [f EXCEPT !.cancel = @ \cup {p.req}]

(* publishPendingResponse, after the file was written or was not.           *)
Published(p, wrote) ==
  LET q == [p EXCEPT !.timers = @ \ {"retry"}, !.faults = IF wrote THEN @ ELSE @ + 1]
  IN  IF wrote THEN CloseLocal([q EXCEPT !.answer = None, !.tries = 0])
      ELSE IF p.tries >= MaxRetries THEN Reset(q)
      ELSE [q EXCEPT !.tries = @ + 1, !.timers = @ \cup {"retry"}]

MayFail(p) == IF p.faults < MaxFaults THEN BOOLEAN ELSE {TRUE}

(* mutation: nothing limits the wait for the word of the browser. *)
Answered_NoDeadline(p, d) ==
  LET new == d.confirmed /\ d.text # p.last
  IN  [p EXCEPT !.phase = "responding", !.answer = d, !.said = d, !.tries = 0,
                !.last = IF new THEN d.text ELSE @,
                !.sequence = IF new THEN @ + 1 ELSE @, !.timers = {}]

(* finishRequest up to the attempt to publish: a text that was not sent as   *)
(* an update gets a number of its own.                                      *)
Answered(p, d) ==
  LET new == d.confirmed /\ d.text # p.last
  IN  [p EXCEPT !.phase = "responding", !.answer = d, !.said = d, !.tries = 0,
                !.last = IF new THEN d.text ELSE @,
                !.sequence = IF new THEN @ + 1 ELSE @,
                !.timers = {"deadline"}]

(* The user ends the request, the page answers.                             *)
FinishRequest(p, d) ==
  LET q == Answered(p, d)
  IN  \E wrote \in MayFail(p) :
        /\ page' = Published(q, wrote)
        /\ files' = IF wrote THEN Responded(files, q, d) ELSE files

(* The text area comes into view, and is focused a moment later.            *)
OpenTextarea(p) ==
  [p EXCEPT !.visible = TRUE, !.focused = FALSE, !.blurred = FALSE,
            !.phase = "opening", !.timers = @ \cup {"focus"}]

(* The system gives the keyboard it opens a number, a new one each time.    *)
OpenGlobal(p) ==
  [CloseTextarea(p) EXCEPT !.phase = "opening", !.uuids = @ + 1, !.uuid = p.uuids + 1,
                           !.open = @ \cup {p.uuids + 1}]

Other(backend) == IF backend = "textarea" THEN "global" ELSE "textarea"

(* failBackend as far as it does not end the request.                       *)
Failed(p) ==
  LET q == [p EXCEPT !.faults = @ + 1,
                     !.stored = IF p.override = "auto" /\ @ = p.backend THEN "auto" ELSE @]
      r == IF p.backend = "global" THEN CloseSession(q) ELSE CloseTextarea(q)
  IN  r
MayFallBack(p) == p.override = "auto" /\ Other(p.backend) \notin p.tried
FailBackend(p) ==
  IF MayFallBack(p)
  THEN /\ page' = [Failed(p) EXCEPT !.phase = "opening", !.timers = @ \cup {"switch"}]
       /\ UNCHANGED files
  ELSE FinishRequest(Failed(p), Decision(FALSE, 0))

OpenBackend(p, backend) ==
  LET q == [p EXCEPT !.backend = backend, !.tried = @ \cup {backend}]
  IN  IF backend = "textarea" THEN page' = OpenTextarea(q) /\ UNCHANGED files
      ELSE \/ page' = OpenGlobal(q) /\ UNCHANGED files
           \/ p.faults < MaxFaults /\ FailBackend([CloseTextarea(q) EXCEPT !.phase = "opening"])

Busy(backend) == page.req # 0 /\ page.backend = backend /\ page.phase # "responding"
Fires(timer) == timer \in page.timers
Disarmed(timer) == [page EXCEPT !.timers = @ \ {timer}]
-----------------------------------------------------------------------------
(* What the page polls for. *)

(* A request that was completed here is not taken again, should its file    *)
(* still be there.                                                          *)
MayTake ==
  /\ page.polls /\ page.req = 0 /\ page.phase = "idle"
  /\ files.request # 0 /\ files.request \notin page.done

(* pollRequest.                                                             *)
PollRequest ==
  /\ MayTake
  /\ LET i == files.request
         p == [page EXCEPT !.req = i, !.tried = {}, !.sequence = 0, !.last = 0,
                           !.timers = @ \ {"deadline"},
                           !.again = i \in page.taken, !.taken = @ \cup {i}]
     IN  OpenBackend(p, IF page.mode = "global" THEN "global" ELSE "textarea")

(* pollCompletion: the browser has ended the request; its word is deleted.  *)
PollCompletion ==
  /\ page.polls /\ page.req # 0 /\ files.status[page.req] # ""
  /\ files' = [files EXCEPT !.status[page.req] = ""]
  /\ page' = Reset(page)

(* No word of the browser 15 seconds after the answer.                      *)
CompletionTimeout ==
  /\ page.polls /\ page.req # 0 /\ page.phase = "responding" /\ Fires("deadline")
  /\ files.status[page.req] = ""
  /\ page' = Reset(page)
  /\ UNCHANGED files

ResponseRetry ==
  /\ Fires("retry")
  /\ \E wrote \in MayFail(page) :
       /\ page' = Published(page, wrote)
       /\ files' = IF wrote THEN Responded(files, page, page.answer) ELSE files
-----------------------------------------------------------------------------
(* The text area. *)

(* The focus timer: the field is focused, or cannot be.                     *)
FocusTimer ==
  /\ Fires("focus")
  /\ IF Busy("textarea") /\ page.phase = "opening"
     THEN LET p == [Disarmed("focus") EXCEPT !.focused = TRUE]
          IN  \/ page' = [p EXCEPT !.timers = @ \cup {"probe"}] /\ UNCHANGED files
              \/ page.faults < MaxFaults /\ FailBackend(p)
     ELSE page' = Disarmed("focus") /\ UNCHANGED files

(* A second and a half without any sign of the keyboard.                    *)
ProbeTimeout ==
  /\ Fires("probe") /\ page.faults < MaxFaults
  /\ IF Busy("textarea") THEN FailBackend(Disarmed("probe"))
     ELSE page' = Disarmed("probe") /\ UNCHANGED files

SwitchTimer ==
  /\ Fires("switch")
  /\ IF page.req # 0 /\ page.phase = "opening"
     THEN OpenBackend(Disarmed("switch"), Other(page.backend))
     ELSE page' = Disarmed("switch") /\ UNCHANGED files

(* The user types: every new text is written with the next number.          *)
TextareaInput(text) ==
  /\ Busy("textarea") /\ (text = page.last \/ page.sequence < MaxSequence)
  /\ LET p == [Succeeded(page, "textarea") EXCEPT !.phase = "active"]
     IN  IF text = page.last THEN page' = p /\ UNCHANGED files
         ELSE /\ page' = [p EXCEPT !.last = text, !.sequence = @ + 1]
              /\ files' = [files EXCEPT !.update[page.req] =
                             [sequence |-> page.sequence + 1, text |-> text]]

(* The user confirms the text area, which may name the text, or leaves it.  *)
TextareaConfirm(text) ==
  /\ Busy("textarea")
  /\ FinishRequest(Succeeded(page, "textarea"), Decision(TRUE, text))
TextareaCancel ==
  /\ Busy("textarea")
  /\ FinishRequest(Succeeded(page, "textarea"), Decision(FALSE, 0))

(* The text area, while it is there, gets the focus or loses it.            *)
TextareaFocus ==
  /\ page.visible
  /\ page' = [page EXCEPT !.focused = TRUE, !.blurred = FALSE, !.timers = @ \ {"return"}]
  /\ UNCHANGED files
TextareaBlur ==
  /\ page.visible
  /\ page' = [page EXCEPT !.focused = FALSE, !.blurred = TRUE]
  /\ UNCHANGED files

(* The page is hidden, by the keyboard itself or by the user.               *)
PageHide ==
  /\ page.backend # "" /\ page.phase \in {"opening", "active"}
  /\ page' = [Succeeded(page, page.backend) EXCEPT !.phase = "active"]
  /\ UNCHANGED files

(* The page comes back with a field that lost its focus: cancelled, unless   *)
(* something happens within 800 ms.                                         *)
PageShow ==
  /\ page' = [page EXCEPT !.timers =
                (@ \ {"return"}) \cup (IF Busy("textarea") /\ page.blurred THEN {"return"} ELSE {})]
  /\ UNCHANGED files
ReturnTimer ==
  /\ Fires("return")
  /\ IF page.req # 0 /\ ~page.focused /\ page.blurred /\ page.phase # "responding"
     THEN FinishRequest(Disarmed("return"), Decision(FALSE, 0))
     ELSE page' = Disarmed("return") /\ UNCHANGED files
-----------------------------------------------------------------------------
(* The global keyboard (KeyboardSession). *)

(* The system reports the end of an edit; only that of the keyboard in use   *)
(* counts, now and when the timer of the result fires.                      *)
GlobalFinished(uuid, d) ==
  /\ uuid = page.uuid /\ uuid # 0 /\ page.result = None
  /\ page' = [page EXCEPT !.result = [uuid |-> uuid, decision |-> d]]
  /\ UNCHANGED files

ResultCounts == page.result.uuid = page.uuid

(* finish or cancel of the session: the keyboard is closed 350 ms later,     *)
(* and the bridge hears of it while it uses this backend.                   *)
ResultTimer ==
  /\ page.result # None
  /\ LET p == [page EXCEPT !.result = None]
         q == [p EXCEPT !.uuid = 0, !.closing = @ \cup {page.uuid}]
     IN  IF ~ResultCounts THEN page' = p /\ UNCHANGED files
         ELSE IF Busy("global")
         THEN FinishRequest(Succeeded(q, "global"), page.result.decision)
         ELSE page' = q /\ UNCHANGED files

CloseTimer(uuid) ==
  /\ uuid \in page.closing
  /\ page' = [page EXCEPT !.closing = @ \ {uuid}, !.open = @ \ {uuid}]
  /\ UNCHANGED files
-----------------------------------------------------------------------------
(* cancelActiveRequest, which the lifecycle calls when the browser stops or  *)
(* restarts; a cancellation that cannot be written is forgotten.            *)
CancelActive(p, f, wrote) ==
  IF p.req = 0 THEN [page |-> CloseLocal(p), files |-> f]
  ELSE [page |-> Reset(p),
        files |-> IF p.phase # "responding" /\ wrote
                  THEN Responded(f, p, Decision(FALSE, 0)) ELSE f]

PageNext ==
  \/ PollRequest \/ PollCompletion \/ CompletionTimeout \/ ResponseRetry
  \/ FocusTimer \/ ProbeTimeout \/ SwitchTimer \/ ReturnTimer
  \/ \E t \in Texts : TextareaInput(t) \/ TextareaConfirm(t)
  \/ TextareaCancel \/ TextareaFocus \/ TextareaBlur \/ PageHide \/ PageShow
  \/ \E c \in BOOLEAN, t \in Texts : GlobalFinished(page.uuid, Decision(c, IF c THEN t ELSE 0))
  \/ ResultTimer \/ \E u \in page.closing : CloseTimer(u)
=============================================================================
