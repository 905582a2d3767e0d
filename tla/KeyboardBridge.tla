--------------------------- MODULE KeyboardBridge ---------------------------
(***************************************************************************)
(* The keyboard between the MiniApp page (KeyboardPage), the browser        *)
(* process (wpe-drm-minimal.c) and the script the browser puts into web     *)
(* pages. Page and browser share the files; browser and script exchange     *)
(* messages with a reply. The browser reads the files in several steps, the *)
(* page may write between any two of them; its other handlers come between  *)
(* two rounds.                                                              *)
(***************************************************************************)
EXTENDS KeyboardPage, Sequences

CONSTANTS
  Kinds      \* "web_input", a field of a page, and "address", one of the chrome

VARIABLES
  shell,     \* the keyboard_ fields of AppState, and where its round is
  frame,     \* the script in the document on the screen
  wire,      \* messages of scripts the browser has not handled yet
  said       \* history: what the user said to each request that is not over

vars == <<page, files, shell, frame, wire, said>>

Statuses == {"confirmed", "cancelled", "expired", "superseded", "failed"}
Apply(text, sequence, commit) == [text |-> text, sequence |-> sequence, commit |-> commit]
Command(op, id, apply) == [op |-> op, id |-> id, apply |-> apply]

NoSession(next) ==
  [next |-> next, active |-> 0, kind |-> "", last |-> 0, pending |-> None, queued |-> None, sent |-> None,
   terminal |-> FALSE, waiter |-> 0, at |-> "idle", got |-> None, did |-> None]

(* A document: its number, whether its script is in a session, the answer    *)
(* that is on its way to it, and the field with who wrote it last.          *)
Document(n) ==
  [doc |-> n, busy |-> FALSE, reply |-> None, field |-> [id |-> 0, text |-> 0]]

Init ==
  /\ PageInit
  /\ shell = NoSession(1)
  /\ frame = Document(1)
  /\ wire = <<>>
  /\ said = [i \in Ids |-> None]
-----------------------------------------------------------------------------
(* The parts of the browser's handlers, on [s |-> shell, f |-> frame].       *)

Reply(u, doc, cmd) ==
  IF doc = u.f.doc THEN [u EXCEPT !.f.reply = cmd] ELSE u

(* The newest text goes to the frame that waits, one at a time.             *)
Dispatch(u) ==
  IF u.s.queued = None \/ u.s.sent # None \/ u.s.waiter = 0 THEN u
  ELSE Reply([u EXCEPT !.s.sent = u.s.queued, !.s.queued = None, !.s.waiter = 0],
             u.s.waiter, Command("apply", u.s.active, u.s.queued))

QueueApply(u, a) == Dispatch([u EXCEPT !.s.queued = a])

(* keyboard_handle_update: older texts are ignored, and all of them once the *)
(* final one was read.                                                      *)
HandleUpdate(u, got) ==
  IF u.s.terminal \/ got.sequence <= u.s.last THEN u
  ELSE LET v == [u EXCEPT !.s.last = got.sequence, !.s.pending = got.text]
       IN  IF v.s.kind = "web_input" THEN QueueApply(v, Apply(got.text, got.sequence, FALSE))
           ELSE v

FinalText(s, got) ==
  IF got.sequence # 0 /\ got.sequence < s.last /\ s.pending # None THEN s.pending ELSE got.text
Larger(a, b) == IF a < b THEN b ELSE a
FinalSequence(s, got) == Larger(1, Larger(got.sequence, s.last))

(* The status is published and the waiting frame told; the files of the      *)
(* request are removed after that (ClearActive).                            *)
Finish(u, status) ==
  /\ files' = [files EXCEPT !.status[u.s.active] = status]
  /\ LET v == IF u.s.waiter = 0 THEN u
              ELSE Reply([u EXCEPT !.s.waiter = 0], u.s.waiter, Command("complete", u.s.active, None))
     IN  shell' = [v.s EXCEPT !.at = "clear"] /\ frame' = v.f

Now == [s |-> shell, f |-> frame]
Between == shell.at = "idle"
Becomes(u) == shell' = u.s /\ frame' = u.f
PageStays == UNCHANGED page
OneFault == [page EXCEPT !.faults = @ + 1]
-----------------------------------------------------------------------------
(* A request. *)

(* keyboard_request: one at a time, known by its number.                    *)
MayAsk == shell.active = 0 /\ shell.next \in Ids
Asked(kind) ==
  [shell EXCEPT !.next = @ + 1, !.active = shell.next, !.kind = kind,
                !.last = 0, !.pending = None]

(* The user touches the address, the name of a profile, ... of the chrome.  *)
ChromeAsks ==
  /\ Between /\ MayAsk /\ "address" \in Kinds
  /\ shell' = Asked("address")
  /\ files' = [files EXCEPT !.request = shell.next]
  /\ PageStays /\ UNCHANGED <<frame, wire>>

Post(op, id, ack) == wire' = Append(wire, [doc |-> frame.doc, op |-> op, id |-> id, ack |-> ack])

(* The user touches a field of the page: request of the script.             *)
FrameAsks ==
  /\ "web_input" \in Kinds /\ ~frame.busy /\ shell.next \in Ids
  /\ frame' = [frame EXCEPT !.busy = TRUE]
  /\ Post("open", 0, None)
  /\ PageStays /\ UNCHANGED <<files, shell>>

(* op=open: refused while another request is active, or when the touch is     *)
(* too old.                                                                 *)
HandleOpen ==
  /\ Between /\ wire # <<>> /\ Head(wire).op = "open"
  /\ wire' = Tail(wire)
  /\ LET answer(op, id) == Reply(Now, Head(wire).doc, Command(op, id, None)).f
     IN  \/ /\ MayAsk
            /\ shell' = Asked("web_input")
            /\ files' = [files EXCEPT !.request = shell.next]
            /\ frame' = answer("opened", shell.next)
         \/ frame' = answer("rejected", 0) /\ UNCHANGED <<shell, files>>
  /\ PageStays

(* mutation: an acknowledgement is good whatever the field shows. *)
Verified_Unseen(ack) == TRUE

(* The field shows the text that was sent. *)
Verified(ack) == ack.applied /\ ack.observed = shell.sent.text

(* op=wait: acknowledges the command in flight, if there is one, and waits    *)
(* for the next.                                                            *)
HandleWait ==
  /\ Between /\ wire # <<>> /\ Head(wire).op = "wait"
  /\ wire' = Tail(wire) /\ PageStays
  /\ LET m == Head(wire)
         stored(u) == [u EXCEPT !.s.waiter = m.doc]
         acked == [Now EXCEPT !.s.sent = None]
     IN  IF m.id # shell.active \/ shell.kind # "web_input"
         THEN /\ Becomes(Reply(Now, m.doc, Command("expired", m.id, None)))
              /\ UNCHANGED files
         ELSE IF shell.sent = None
         THEN Becomes(Dispatch(stored(Now))) /\ UNCHANGED files
         ELSE IF m.ack = None \/ m.ack.sequence # shell.sent.sequence
         THEN /\ Becomes(Reply(Now, m.doc, Command("stale", m.id, None)))
              /\ UNCHANGED files
         ELSE IF shell.sent.commit /\ shell.terminal
         THEN Finish(stored(acked), IF Verified(m.ack) THEN "confirmed" ELSE "failed")
         ELSE Becomes(Dispatch(stored(acked))) /\ UNCHANGED files
-----------------------------------------------------------------------------
(* A round of keyboard_response_tick, every 30 ms. *)

TickReads ==
  /\ Between /\ shell.active # 0
  /\ shell' = [shell EXCEPT !.got = files.update[shell.active],
                            !.at = IF files.update[shell.active] = None THEN "ok" ELSE "update"]
  /\ PageStays /\ UNCHANGED <<files, frame, wire>>

(* The file is removed after it was read, with what was written meanwhile.  *)
TickUpdate ==
  /\ shell.at = "update"
  /\ files' = [files EXCEPT !.update[shell.active] = None]
  /\ Becomes([HandleUpdate(Now, shell.got) EXCEPT !.s.at = "ok", !.s.got = None])
  /\ PageStays /\ UNCHANGED wire

(* The confirmation: acted on here for the chrome, committed to the field of *)
(* a web page by its script.                                                *)
TickOk ==
  /\ shell.at = "ok" /\ files.ok[shell.active] # None
  /\ LET got == files.ok[shell.active]
         text == FinalText(shell, got)
         rest == [files EXCEPT !.ok[shell.active] = None, !.cancel = @ \ {shell.active}]
     IN  IF shell.kind = "web_input"
         THEN /\ Becomes(QueueApply([Now EXCEPT !.s.terminal = TRUE, !.s.at = "idle"],
                                    Apply(text, FinalSequence(shell, got), TRUE)))
              /\ files' = rest
         ELSE /\ files' = [rest EXCEPT !.status[shell.active] = "confirmed"]
              /\ shell' = [shell EXCEPT !.at = "clear", !.did = text] /\ UNCHANGED frame
  /\ PageStays /\ UNCHANGED wire

(* Otherwise the cancellation; the page writes one of the two.               *)
TickCancel ==
  /\ shell.at = "ok" /\ files.ok[shell.active] = None
  /\ IF shell.active \in files.cancel THEN Finish(Now, "cancelled")
     ELSE /\ shell' = [shell EXCEPT !.at = "idle"]
          /\ UNCHANGED <<files, frame>>
  /\ PageStays /\ UNCHANGED wire

(* Two minutes after the request. *)
Expires ==
  /\ Between /\ shell.active # 0
  /\ Finish(Now, "expired")
  /\ PageStays /\ UNCHANGED wire

Cleared(f) ==
  [f EXCEPT !.request = 0, !.update[shell.active] = None, !.ok[shell.active] = None,
            !.cancel = @ \ {shell.active}]

ClearActive ==
  /\ shell.at = "clear"
  /\ files' = Cleared(files)
  /\ shell' = NoSession(shell.next)
  /\ PageStays /\ UNCHANGED <<frame, wire>>
-----------------------------------------------------------------------------
(* The script of the frame, and what becomes of its document. *)

(* A command is applied, as far as the page lets it, and acknowledged; the   *)
(* end of the session makes the script forget it. A stale one ends silently. *)
FrameHears ==
  /\ frame.reply # None
  /\ LET c == frame.reply
         heard == [frame EXCEPT !.reply = None]
     IN  CASE c.op = "opened" -> frame' = heard /\ Post("wait", c.id, None)
           [] c.op = "apply" ->
                \E shown \in {c.apply.text, frame.field.text} :
                  /\ frame' = [heard EXCEPT !.field = [id |-> c.id, text |-> shown]]
                  /\ Post("wait", c.id, [sequence |-> c.apply.sequence, observed |-> shown,
                                         applied |-> shown = c.apply.text])
           [] c.op = "stale" -> frame' = heard /\ UNCHANGED wire
           [] OTHER -> frame' = [heard EXCEPT !.busy = FALSE] /\ UNCHANGED wire
  /\ PageStays /\ UNCHANGED <<files, shell>>

(* A navigation starts: the session of a field ends; its document stays on   *)
(* the screen until the next one is there.                                  *)
LoadStarted ==
  /\ Between /\ shell.active # 0 /\ shell.kind = "web_input"
  /\ Finish(Now, "superseded")
  /\ PageStays /\ UNCHANGED wire

(* Another document: the navigation is committed, the tab or the frame was    *)
(* closed, its process has crashed. What it has sent may still arrive.      *)
DocumentReplaced ==
  /\ page.faults < MaxFaults
  /\ frame' = Document(frame.doc + 1)
  /\ wire' \in {wire, <<>>}
  /\ page' = OneFault /\ UNCHANGED <<files, shell>>
-----------------------------------------------------------------------------
(* The browser ends and another one starts. *)

NewShell == shell' = NoSession(shell.next)

(* The shell starts the browser again on its own, for another profile or     *)
(* another GPU mode: on its way out it removes the request, without a word. *)
BrowserRestarts ==
  /\ Between /\ page.faults < MaxFaults
  /\ files' = IF shell.active = 0 THEN files ELSE Cleared(files)
  /\ NewShell /\ frame' = Document(frame.doc + 1) /\ wire' = <<>>
  /\ page' = OneFault

(* BrowserLifecycle.stop, or a rotation: the page cancels its request and     *)
(* polls no more; an unloaded page has done so, too, before its session is  *)
(* unmounted, and a new one knows only the backend that was stored.         *)
PageStops ==
  /\ page.polls
  /\ \E wrote \in MayFail(page) :
       LET c == CancelActive(page, files, wrote)
       IN  page' = [c.page EXCEPT !.polls = FALSE] /\ files' = c.files
  /\ UNCHANGED <<shell, frame, wire>>
PageReloads ==
  /\ ~page.polls
  /\ page' = [NewPage(page.override, page.stored) EXCEPT
                !.polls = FALSE, !.uuids = page.uuids, !.taken = page.taken,
                !.faults = page.faults]
  /\ UNCHANGED <<files, shell, frame, wire>>

(* startBrowser: whatever browser there was is gone, the directories are      *)
(* emptied, another browser starts.                                         *)
PageStarts ==
  /\ ~page.polls /\ page.faults < MaxFaults
  /\ page' = [OneFault EXCEPT !.polls = TRUE]
  /\ files' = NoFiles
  /\ NewShell /\ frame' = Document(frame.doc + 1) /\ wire' = <<>>
-----------------------------------------------------------------------------
Tick == TickReads \/ TickUpdate \/ TickOk \/ TickCancel \/ ClearActive
Here == UNCHANGED <<shell, frame, wire>>
Step ==
  \/ PageNext /\ Here
  \/ ChromeAsks \/ FrameAsks \/ HandleOpen \/ HandleWait
  \/ Tick \/ Expires
  \/ FrameHears \/ LoadStarted \/ DocumentReplaced
  \/ BrowserRestarts \/ PageStops \/ PageReloads \/ PageStarts

(* What the user said is remembered until both sides have ended the request. *)
Remember ==
  said' = [i \in Ids |-> IF i \notin {page'.req, shell'.active} THEN None
                         ELSE IF page'.req = i /\ page'.said # None THEN page'.said
                         ELSE said[i]]

Next == Step /\ Remember

Spec == Init /\ [][Next]_vars

(* Timers of both processes fire in the end, the page goes on polling, and   *)
(* a round of the browser ends; a round begins with the look at the two      *)
(* minutes. A user or a web page need not do anything.                      *)
Fairness ==
  /\ WF_vars(PollCompletion /\ Here /\ Remember)
  /\ WF_vars(CompletionTimeout /\ Here /\ Remember)
  /\ WF_vars(Tick /\ Remember) /\ SF_vars(Expires /\ Remember)
FairSpec == Spec /\ Fairness
-----------------------------------------------------------------------------
(* What must be right. *)

TypeOK ==
  /\ page.phase \in {"idle", "opening", "active", "responding"}
  /\ page.req \in Ids \cup {0} /\ page.backend \in Backends \cup {""}
  /\ page.timers \subseteq Timers /\ page.tries \in 0..MaxRetries
  /\ page.done \cup page.taken \cup files.cancel \subseteq Ids
  /\ (page.phase = "idle") = (page.req = 0)
  /\ shell.active \in Ids \cup {0} /\ shell.waiter \in 0..frame.doc
  /\ shell.active # 0 => files.request = shell.active
  /\ \A i \in Ids : files.status[i] \in Statuses \cup {""}

(* A request opens a keyboard once, and one of the two at a time; when it is  *)
(* over, by whatever way, its keyboard is closed or about to be: the page   *)
(* counts as inactive again, and a page that is hidden stops its browser.   *)
OneKeyboard ==
  /\ TypeOK
  /\ ~page.again
  /\ ~(page.visible /\ page.uuid # 0)
  /\ page.phase = "idle" => ~page.visible /\ page.uuid = 0
  /\ page.open \subseteq page.closing \cup {page.uuid}

(* A confirmation that is reported is the user's, the text acted on is the    *)
(* one he confirmed, and the session does not write to the field any more;  *)
(* a cancellation is never reported for what he confirmed.                  *)
Reported(i, status) == files.status[i] # status /\ files.status'[i] = status
ConfirmedTextLands ==
  [][\A i \in Ids :
       /\ Reported(i, "confirmed") =>
            /\ said[i] # None /\ said[i].confirmed
            /\ shell.kind = "address" => shell'.did = said[i].text
            /\ frame.field.id = i => frame.field.text = said[i].text
       /\ Reported(i, "cancelled") => said[i] = None \/ ~said[i].confirmed
       /\ files.status[i] = "confirmed" /\ frame'.field.id = i => frame'.field = frame.field]_vars

(* Nobody but the user will end the request: the browser has restarted.      *)
Forsaken(i) ==
  shell.active # i /\ files.status[i] = "" /\ page.phase \in {"opening", "active"}

(* A request the page has taken is over in the end, whatever the user, the   *)
(* web page, the files and the time-outs do, unless the browser has         *)
(* restarted and the user does not answer either.                           *)
SessionsEnd == \A i \in Ids : page.req = i ~> page.req # i \/ Forsaken(i)
=============================================================================
