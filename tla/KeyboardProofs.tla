--------------------------- MODULE KeyboardProofs ---------------------------
(******************************************************************************)
(* One keyboard: of the text area and the keyboard of the system at most one  *)
(* is there, only while a request is, and none for the same request again.    *)
(* The invariant has a part for the page (Shape: what of its backend, timers  *)
(* and keyboards go together), one for the numbers of requests that were      *)
(* taken (TakenOK), and one for the browser and the script (BrowserInv).      *)
(*                                                                            *)
(* The text that was confirmed: what is reported confirmed is what the user   *)
(* said, and nothing is written after it. The invariant TextInv has a part for*)
(* what page, files and browser know of what the user said to the request that*)
(* is active (Asking), and one for who has the turn, the script or the session,*)
(* and which text may be committed (Turns).                                   *)
(******************************************************************************)
EXTENDS KeyboardBridge, SequenceTheorems, TLAPS

Decisions == [confirmed : BOOLEAN, text : Texts]
Results == [uuid : Nat, decision : Decisions]
Updates == [sequence : Nat, text : Texts]

PageType ==
  [polls : BOOLEAN, phase : {"idle", "opening", "active", "responding"}, req : Ids \cup {0},
   backend : Backends \cup {""}, tried : SUBSET Backends, sequence : Nat,
   last : Texts \cup {None}, answer : Decisions \cup {None}, said : Decisions \cup {None},
   tries : 0..MaxRetries, timers : SUBSET Timers, visible : BOOLEAN, focused : BOOLEAN,
   blurred : BOOLEAN, override : Overrides, stored : Backends \cup {"auto"},
   mode : Backends \cup {"auto"}, learned : BOOLEAN, uuid : Nat, uuids : Nat,
   open : SUBSET (Nat \ {0}), closing : SUBSET Nat, result : Results \cup {None},
   done : SUBSET Ids, taken : SUBSET Ids, again : BOOLEAN, faults : Nat]

FilesType ==
  [request : Ids \cup {0}, update : [Ids -> Updates \cup {None}],
   ok : [Ids -> Updates \cup {None}], cancel : SUBSET Ids, status : [Ids -> Statuses \cup {""}]]

Applies == [text : Texts, sequence : Nat, commit : BOOLEAN]
Commands ==
  [op : {"opened", "rejected", "apply", "complete", "expired", "stale"}, id : Ids \cup {0},
   apply : Applies \cup {None}]
Acks == [sequence : Nat, observed : Texts, applied : BOOLEAN]
Messages == [doc : Nat, op : {"open", "wait"}, id : Ids \cup {0}, ack : Acks \cup {None}]

ShellType ==
  [next : Nat \ {0}, active : Ids \cup {0}, kind : {"", "web_input", "address"}, last : Nat,
   pending : Texts \cup {None}, queued : Applies \cup {None}, sent : Applies \cup {None},
   terminal : BOOLEAN, waiter : Nat, at : {"idle", "update", "ok", "clear"},
   got : Updates \cup {None}, did : Texts \cup {None}]
FrameType ==
  [doc : Nat, busy : BOOLEAN, reply : Commands \cup {None},
   field : [id : Ids \cup {0}, text : Texts]]

(* Which of the two keyboards may be there: that of the backend in use.       *)
Held(p) ==
  /\ p \in PageType /\ ~p.again
  /\ p.backend # "global" => p.uuid = 0
  /\ p.backend # "textarea" => ~p.visible
  /\ p.open \subseteq p.closing \cup {p.uuid}

(* What a page between two handlers looks like.                               *)
Shape(p) ==
  /\ Held(p)
  /\ (p.phase = "idle") = (p.req = 0)
  /\ p.req = 0 => p.backend = "" /\ "switch" \notin p.timers
  /\ "switch" \in p.timers => p.uuid = 0
  /\ "retry" \in p.timers => p.phase = "responding" /\ p.answer \in Decisions

(* The request there is was not taken, or is under way, or over; those that   *)
(* come have numbers that were not given.                                     *)
TakenOK(p, request, next) ==
  /\ request < next /\ \A i \in p.taken : i < next
  /\ p.polls /\ request \in p.taken => request \in p.done \cup {p.req}

(* The browser's session and the script, between two steps of a handler.      *)
Pairs == [s : ShellType, f : FrameType]
PairOK(u) ==
  /\ u \in Pairs /\ u.s.waiter <= u.f.doc
  /\ u.f.reply # None /\ u.f.reply.op = "apply" => u.f.reply.apply # None

WireOK(w, doc) == w \in Seq(Messages) /\ \A i \in 1..Len(w) : w[i].doc <= doc

RoundOK(s, request) ==
  /\ s.active # 0 => request = s.active
  /\ s.at # "idle" \/ s.kind # "" => s.active # 0
  /\ s.at = "update" => s.got # None

PageInv == Shape(page) /\ files \in FilesType /\ TakenOK(page, files.request, shell.next)
BrowserInv == PairOK(Now) /\ WireOK(wire, frame.doc) /\ RoundOK(shell, files.request)

IInv == PageInv /\ BrowserInv
-----------------------------------------------------------------------------
(* Requests are numbered from 1.                                              *)
LEMMA Numbers == Ids \subseteq Nat \ {0}
<1> DEFINE n == Cardinality(Ids)
<1>1. Ids = 1..n
  BY KeyboardConstants
<1> HIDE DEF n
<1> QED BY <1>1

(* The parts of the page's handlers.                                          *)

(* What was taken or is over stays so, and the page polls as before.          *)
Follows(p, q) ==
  /\ q.taken = p.taken /\ q.polls = p.polls
  /\ \A i \in Ids : i \in p.done \cup {p.req} => i \in q.done \cup {q.req}

(* CloseTextarea: the text area is gone, the rest of the page is as it was.   *)
LEMMA CloseTextareaHeld ==
  ASSUME NEW p \in PageType
  PROVE  LET q == CloseTextarea(p)
         IN  /\ q \in PageType /\ ~q.visible /\ q.timers = p.timers \ {"probe"}
             /\ q.again = p.again /\ q.backend = p.backend /\ q.uuid = p.uuid /\ q.open = p.open
             /\ q.closing = p.closing /\ q.phase = p.phase /\ q.req = p.req
             /\ q.answer = p.answer /\ q.taken = p.taken /\ q.polls = p.polls
             /\ q.done = p.done /\ q.override = p.override /\ q.uuids = p.uuids
<1> DEFINE q == CloseTextarea(p)
<1>1. q \in PageType
  BY DEF CloseTextarea, PageType
<1> QED BY <1>1 DEF CloseTextarea, PageType

(* CloseSession: the keyboard of the system is closed.                        *)
LEMMA CloseSessionHeld ==
  ASSUME NEW p \in PageType
  PROVE  LET q == CloseSession(p)
         IN  /\ q \in PageType /\ q.uuid = 0 /\ q.open = p.open \ {p.uuid}
             /\ q.visible = p.visible /\ q.timers = p.timers
             /\ q.again = p.again /\ q.backend = p.backend
             /\ q.closing = p.closing /\ q.phase = p.phase /\ q.req = p.req
             /\ q.answer = p.answer /\ q.taken = p.taken /\ q.polls = p.polls
             /\ q.done = p.done /\ q.override = p.override
<1> DEFINE q == CloseSession(p)
<1>1. q \in PageType
  BY DEF CloseSession, PageType
<1> QED BY <1>1 DEF CloseSession, PageType

(* CloseLocal: neither of the two keyboards is there.                         *)
LEMMA CloseLocalHeld ==
  ASSUME NEW p \in PageType
  PROVE  LET q == CloseLocal(p)
         IN  /\ q \in PageType /\ ~q.visible /\ q.uuid = 0 /\ q.open = p.open \ {p.uuid}
             /\ q.timers = p.timers \ {"probe"}
             /\ q.again = p.again /\ q.backend = p.backend
             /\ q.closing = p.closing /\ q.phase = p.phase /\ q.req = p.req
             /\ q.answer = p.answer /\ q.taken = p.taken /\ q.polls = p.polls
             /\ q.done = p.done
<1> DEFINE s == CloseSession(p)
           q == CloseTextarea(s)
<1>1. /\ s \in PageType /\ s.uuid = 0 /\ s.open = p.open \ {p.uuid} /\ s.timers = p.timers
      /\ s.again = p.again /\ s.backend = p.backend
      /\ s.closing = p.closing /\ s.phase = p.phase /\ s.req = p.req
      /\ s.answer = p.answer /\ s.taken = p.taken /\ s.polls = p.polls
      /\ s.done = p.done
  BY CloseSessionHeld
<1> HIDE DEF s
<1>2. /\ q \in PageType /\ ~q.visible /\ q.uuid = s.uuid /\ q.open = s.open
      /\ q.timers = s.timers \ {"probe"}
      /\ q.again = s.again /\ q.backend = s.backend
      /\ q.closing = s.closing /\ q.phase = s.phase /\ q.req = s.req
      /\ q.answer = s.answer /\ q.taken = s.taken /\ q.polls = s.polls
      /\ q.done = s.done
  BY <1>1, CloseTextareaHeld
<1>3. CloseLocal(p) = q
  BY DEF CloseLocal, s
<1> HIDE DEF q
<1> QED BY <1>1, <1>2, <1>3

(* Reset: the request is over, whatever state it was in.                      *)
LEMMA ResetShape ==
  ASSUME NEW p, Held(p)
  PROVE  Shape(Reset(p)) /\ Follows(p, Reset(p)) /\ Reset(p).polls = p.polls
<1> DEFINE l == CloseLocal(p)
           q == Reset(p)
<1>1. /\ l \in PageType /\ ~l.visible /\ l.uuid = 0 /\ l.open = p.open \ {p.uuid}
      /\ l.again = p.again /\ l.closing = p.closing /\ l.req = p.req
      /\ l.taken = p.taken /\ l.polls = p.polls /\ l.done = p.done
  BY CloseLocalHeld DEF Held
<1> HIDE DEF l
<1>2. /\ q.phase = "idle" /\ q.req = 0 /\ q.backend = "" /\ q.timers = {} /\ q.uuid = l.uuid
      /\ q.visible = l.visible /\ q.open = l.open /\ q.closing = l.closing
      /\ q.again = l.again /\ q.taken = l.taken /\ q.polls = l.polls
      /\ q.done = IF p.req = 0 THEN l.done ELSE l.done \cup {p.req}
  BY <1>1 DEF Reset, PageType, l
<1>3. p.req \in Ids \cup {0} /\ p.done \subseteq Ids
  BY DEF Held, PageType
<1>4. q \in PageType
  <2> DEFINE over == IF p.req = 0 THEN l.done ELSE l.done \cup {p.req}
             half == [l EXCEPT !.phase = "idle", !.req = 0, !.backend = "", !.tried = {},
                               !.sequence = 0, !.last = None]
  <2>1. q = [half EXCEPT !.answer = None, !.said = None, !.tries = 0, !.timers = {},
                         !.done = over]
    BY <1>1 DEF Reset, PageType, l
  <2>2. over \subseteq Ids
    BY <1>1, <1>3 DEF PageType
  <2>3. half \in PageType
    <3>1. l \in PageType
      BY <1>1
    <3> QED BY <3>1 DEF PageType
  <2> HIDE DEF over, q, half
  <2>4. 0 \in 0..MaxRetries
    BY KeyboardConstants
  <2> QED BY <2>1, <2>2, <2>3, <2>4 DEF PageType
<1> HIDE DEF q
<1>5. Follows(p, q)
  BY <1>1, <1>2, <1>3, KeyboardConstants DEF Follows
<1> QED BY <1>1, <1>2, <1>4, <1>5 DEF Held, Shape, q

(* Succeeded: only what is known of the backend changes, and the probe.       *)
LEMMA SucceededShape ==
  ASSUME NEW p, NEW b \in Backends, Shape(p)
  PROVE  LET q == Succeeded(p, b)
         IN  /\ Shape(q) /\ Follows(p, q)
             /\ q.req = p.req /\ q.backend = p.backend /\ q.timers = p.timers \ {"probe"}
             /\ q.phase = p.phase /\ q.last = p.last /\ q.sequence = p.sequence
<1> DEFINE q == Succeeded(p, b)
<1>1. /\ p \in PageType
  BY DEF Shape, Held
<1>2. q \in PageType
  <2> DEFINE r == [p EXCEPT !.timers = @ \ {"probe"}]
             stored == IF p.mode # b \/ ~p.learned THEN b ELSE r.stored
  <2>1. r \in PageType
    BY <1>1 DEF PageType
  <2>2. CASE p.override # "auto"
    BY <2>1, <2>2 DEF Succeeded
  <2>3. CASE p.override = "auto"
    <3>1. q = [r EXCEPT !.mode = b, !.learned = TRUE, !.stored = stored]
      BY <2>1, <2>3 DEF Succeeded, PageType
    <3>2. stored \in Backends \cup {"auto"}
      BY <2>1 DEF PageType
    <3> HIDE DEF r, stored, q
    <3> QED BY <2>1, <3>1, <3>2 DEF PageType
  <2> QED BY <2>2, <2>3
<1>3. /\ q.timers = p.timers \ {"probe"}
      /\ q.req = p.req /\ q.backend = p.backend /\ q.phase = p.phase
      /\ q.last = p.last /\ q.sequence = p.sequence
      /\ q.again = p.again /\ q.uuid = p.uuid /\ q.visible = p.visible /\ q.open = p.open
      /\ q.closing = p.closing /\ q.answer = p.answer /\ q.taken = p.taken
      /\ q.polls = p.polls /\ q.done = p.done
  BY <1>1 DEF Succeeded, PageType
<1> HIDE DEF q
<1> QED BY <1>2, <1>3 DEF Shape, Held, Follows, q
(* The fields that decide are those named; the others have their types.       *)
LEMMA AnsweredShape ==
  ASSUME NEW p, NEW d \in Decisions, Held(p), p.req # 0
  PROVE  LET q == Answered(p, d)
         IN  /\ Shape(q) /\ q.phase = "responding" /\ q.answer = d /\ q.sequence \in Nat
             /\ q.taken = p.taken /\ q.polls = p.polls /\ q.done = p.done /\ q.req = p.req
<1> DEFINE new == d.confirmed /\ d.text # p.last
           last == IF new THEN d.text ELSE p.last
           sequence == IF new THEN p.sequence + 1 ELSE p.sequence
           h == [p EXCEPT !.phase = "responding", !.answer = d, !.said = d, !.tries = 0]
           q == Answered(p, d)
<1>1. p \in PageType
  BY DEF Held
<1>2. last \in Texts \cup {None} /\ sequence \in Nat
  <2>1. p.last \in Texts \cup {None} /\ p.sequence \in Nat
    BY <1>1 DEF PageType
  <2>2. d.text \in Texts
    BY DEF Decisions
  <2> HIDE DEF q, h
  <2> QED BY <2>1, <2>2
<1>3. q = [h EXCEPT !.last = last, !.sequence = sequence, !.timers = {"deadline"}]
  BY <1>1 DEF Answered, PageType
<1>4. h \in PageType
  <2>1. 0 \in 0..MaxRetries
    BY KeyboardConstants
  <2> QED BY <1>1, <2>1 DEF PageType
<1>5. /\ h.phase = "responding" /\ h.answer = d
      /\ h.req = p.req /\ h.backend = p.backend /\ h.uuid = p.uuid /\ h.visible = p.visible
      /\ h.open = p.open /\ h.closing = p.closing /\ h.again = p.again
      /\ h.taken = p.taken /\ h.polls = p.polls /\ h.done = p.done
  BY <1>1 DEF PageType
<1> HIDE DEF last, sequence, h, q
<1>6. q \in PageType
  BY <1>2, <1>3, <1>4 DEF PageType, Timers
<1>7. /\ q.phase = h.phase /\ q.answer = h.answer /\ q.sequence = sequence
      /\ q.timers = {"deadline"}
      /\ q.req = h.req /\ q.backend = h.backend /\ q.uuid = h.uuid /\ q.visible = h.visible
      /\ q.open = h.open /\ q.closing = h.closing /\ q.again = h.again
      /\ q.taken = h.taken /\ q.polls = h.polls /\ q.done = h.done
  BY <1>3, <1>4 DEF PageType
<1>8. Held(q)
  BY <1>5, <1>6, <1>7 DEF Held
<1>9. q.req # 0 /\ q.phase = "responding" /\ q.timers = {"deadline"}
  BY <1>5, <1>7
<1> QED BY <1>2, <1>5, <1>7, <1>8, <1>9 DEF Shape, q

(* Published: the answer is out, or tried again later, or given up.           *)
LEMMA PublishedShape ==
  ASSUME NEW p, NEW wrote \in BOOLEAN, Shape(p), p.phase = "responding",
         p.answer \in Decisions
  PROVE  Shape(Published(p, wrote)) /\ Follows(p, Published(p, wrote))
<1> DEFINE faults == IF wrote THEN p.faults ELSE p.faults + 1
           q == [p EXCEPT !.timers = @ \ {"retry"}, !.faults = faults]
<1>1. /\ p \in PageType /\ p.req # 0 /\ Held(p)
  BY DEF Shape, Held
<1>2. faults \in Nat
  <2>1. p.faults \in Nat
    BY <1>1 DEF PageType
  <2> HIDE DEF q
  <2> QED BY <2>1
<1>3. Published(p, wrote) =
        IF wrote THEN CloseLocal([q EXCEPT !.answer = None, !.tries = 0])
        ELSE IF p.tries >= MaxRetries THEN Reset(q)
        ELSE [q EXCEPT !.tries = @ + 1, !.timers = @ \cup {"retry"}]
  BY DEF Published
<1> HIDE DEF faults
<1>4. q \in PageType
  BY <1>1, <1>2 DEF PageType
<1>5. /\ q.phase = p.phase /\ q.timers = p.timers \ {"retry"} /\ q.tries = p.tries
      /\ q.answer = p.answer
      /\ q.req = p.req /\ q.backend = p.backend /\ q.uuid = p.uuid /\ q.visible = p.visible
      /\ q.open = p.open /\ q.closing = p.closing /\ q.again = p.again
      /\ q.taken = p.taken /\ q.polls = p.polls /\ q.done = p.done
  BY <1>1 DEF PageType
<1> HIDE DEF q
<1>6. Shape(q) /\ Follows(p, q) /\ Held(q)
  BY <1>4, <1>5 DEF Shape, Held, Follows
<1>7. CASE wrote
  <2> DEFINE r == [q EXCEPT !.answer = None, !.tries = 0]
             s == CloseLocal(r)
  <2>1. r \in PageType
    <3>1. 0 \in 0..MaxRetries
      BY KeyboardConstants
    <3> QED BY <1>4, <3>1 DEF PageType
  <2>2. /\ r.phase = q.phase /\ r.timers = q.timers
        /\ r.req = q.req /\ r.backend = q.backend /\ r.uuid = q.uuid /\ r.visible = q.visible
        /\ r.open = q.open /\ r.closing = q.closing /\ r.again = q.again
        /\ r.taken = q.taken /\ r.polls = q.polls /\ r.done = q.done
    BY <1>4 DEF PageType
  <2> HIDE DEF r
  <2>3. /\ s \in PageType /\ ~s.visible /\ s.uuid = 0 /\ s.open = r.open \ {r.uuid}
        /\ s.timers = r.timers \ {"probe"}
        /\ s.again = r.again /\ s.backend = r.backend
        /\ s.closing = r.closing /\ s.phase = r.phase /\ s.req = r.req
        /\ s.taken = r.taken /\ s.polls = r.polls /\ s.done = r.done
    BY <2>1, CloseLocalHeld
  <2> HIDE DEF s
  <2>4. Shape(s)
    BY <1>5, <1>6, <2>2, <2>3 DEF Shape, Held
  <2>5. Follows(p, s)
    BY <1>5, <2>2, <2>3 DEF Follows
  <2> QED BY <1>3, <1>7, <2>4, <2>5 DEF s, r
<1>8. CASE ~wrote /\ p.tries >= MaxRetries
  <2>1. Shape(Reset(q)) /\ Follows(q, Reset(q))
    BY <1>6, ResetShape
  <2> QED BY <1>3, <1>6, <1>8, <2>1 DEF Follows
<1>9. CASE ~wrote /\ ~(p.tries >= MaxRetries)
  <2> DEFINE r == [q EXCEPT !.tries = @ + 1, !.timers = @ \cup {"retry"}]
  <2>1. p.tries + 1 \in 0..MaxRetries
    <3>1. p.tries \in 0..MaxRetries
      BY <1>1 DEF PageType
    <3> QED BY <1>9, <3>1, KeyboardConstants
  <2>2. r \in PageType
    BY <1>4, <1>5, <2>1 DEF PageType, Timers
  <2>3. /\ r.phase = q.phase /\ r.timers = q.timers \cup {"retry"} /\ r.answer = q.answer
        /\ r.req = q.req /\ r.backend = q.backend /\ r.uuid = q.uuid /\ r.visible = q.visible
        /\ r.open = q.open /\ r.closing = q.closing /\ r.again = q.again
        /\ r.taken = q.taken /\ r.polls = q.polls /\ r.done = q.done
    BY <1>4 DEF PageType
  <2> HIDE DEF r
  <2>4. Shape(r)
    BY <1>5, <1>6, <2>2, <2>3 DEF Shape, Held
  <2>5. Follows(p, r)
    BY <1>5, <2>3 DEF Follows
  <2> QED BY <1>3, <1>9, <2>4, <2>5 DEF r
<1> QED BY <1>7, <1>8, <1>9
(* Responded: a confirmation or a cancellation is in the files.               *)
LEMMA RespondedTyped ==
  ASSUME NEW f \in FilesType, NEW p \in PageType, NEW d \in Decisions, p.req # 0
  PROVE  Responded(f, p, d) \in FilesType /\ Responded(f, p, d).request = f.request
<1>1. p.req \in Ids /\ p.sequence \in Nat /\ d.text \in Texts
  BY DEF PageType, Decisions
<1>2. CASE d.confirmed
  <2> DEFINE u == [sequence |-> p.sequence, text |-> d.text]
             ok == [f.ok EXCEPT ![p.req] = u]
  <2>1. u \in Updates
    BY <1>1 DEF Updates
  <2>2. Responded(f, p, d) = [f EXCEPT !.ok = ok]
    BY <1>2 DEF Responded, FilesType
  <2> HIDE DEF u
  <2>3. ok \in [Ids -> Updates \cup {None}]
    BY <1>1, <2>1 DEF FilesType
  <2> HIDE DEF ok
  <2> QED BY <2>2, <2>3 DEF FilesType
<1>3. CASE ~d.confirmed
  <2> DEFINE cancel == f.cancel \cup {p.req}
  <2>1. Responded(f, p, d) = [f EXCEPT !.cancel = cancel]
    BY <1>3 DEF Responded, FilesType
  <2>2. cancel \subseteq Ids
    BY <1>1 DEF FilesType
  <2> HIDE DEF cancel
  <2> QED BY <2>1, <2>2 DEF FilesType
<1> QED BY <1>2, <1>3

(* What a handler of the page leaves that started from p.                     *)
Leaves(p) ==
  /\ Shape(page') /\ Follows(p, page')
  /\ files' \in FilesType /\ files'.request = files.request

(* FinishRequest: from wherever the user ends the request.                    *)
LEMMA FinishRequestLeaves ==
  ASSUME NEW p, NEW d \in Decisions, Held(p), p.req # 0, files \in FilesType,
         FinishRequest(p, d)
  PROVE  Leaves(p)
<1> DEFINE q == Answered(p, d)
<1>1. /\ Shape(q) /\ q.phase = "responding" /\ q.answer = d
      /\ q.taken = p.taken /\ q.polls = p.polls /\ q.done = p.done /\ q.req = p.req
  BY AnsweredShape
<1>2. \E wrote \in MayFail(p) :
        page' = Published(q, wrote) /\ files' = IF wrote THEN Responded(files, q, d) ELSE files
  BY DEF FinishRequest
<1> HIDE DEF q
<1>3. PICK wrote \in BOOLEAN :
        page' = Published(q, wrote) /\ files' = IF wrote THEN Responded(files, q, d) ELSE files
  BY <1>2 DEF MayFail
<1>4. Shape(page') /\ Follows(q, page')
  BY <1>1, <1>3, PublishedShape
<1>5. Follows(p, page')
  BY <1>1, <1>4 DEF Follows
<1>6. Responded(files, q, d) \in FilesType /\ Responded(files, q, d).request = files.request
  BY <1>1, RespondedTyped DEF Shape, Held
<1>7. files' \in FilesType /\ files'.request = files.request
  BY <1>3, <1>6
<1> QED BY <1>4, <1>5, <1>7 DEF Leaves

(* The keyboard of the backend that failed is closed.                         *)
LEMMA FailedHeld ==
  ASSUME NEW p, Held(p)
  PROVE  LET q == Failed(p)
         IN  /\ Held(q) /\ q.uuid = 0 /\ q.req = p.req /\ q.backend = p.backend
             /\ q.phase = p.phase /\ q.timers \subseteq p.timers
             /\ q.taken = p.taken /\ q.polls = p.polls /\ q.done = p.done
<1> DEFINE stored == IF p.override = "auto" /\ p.stored = p.backend THEN "auto" ELSE p.stored
           faults == p.faults + 1
           q == [p EXCEPT !.faults = faults, !.stored = stored]
           f == Failed(p)
<1>1. p \in PageType
  BY DEF Held
<1>2. stored \in Backends \cup {"auto"} /\ faults \in Nat
  <2>1. p.stored \in Backends \cup {"auto"} /\ p.faults \in Nat
    BY <1>1 DEF PageType
  <2> HIDE DEF q, f
  <2> QED BY <2>1
<1>3. f = IF p.backend = "global" THEN CloseSession(q) ELSE CloseTextarea(q)
  BY <1>1 DEF Failed, PageType
<1> HIDE DEF f, stored, faults
<1>4. q \in PageType
  BY <1>1, <1>2 DEF PageType
<1>5. /\ q.phase = p.phase /\ q.timers = p.timers
      /\ q.req = p.req /\ q.backend = p.backend /\ q.uuid = p.uuid /\ q.visible = p.visible
      /\ q.open = p.open /\ q.closing = p.closing /\ q.again = p.again
      /\ q.taken = p.taken /\ q.polls = p.polls /\ q.done = p.done
  BY <1>1 DEF PageType
<1> HIDE DEF q
<1>6. CASE p.backend = "global"
  <2> DEFINE c == CloseSession(q)
  <2>1. /\ c \in PageType /\ c.uuid = 0 /\ c.open = q.open \ {q.uuid}
        /\ c.visible = q.visible /\ c.timers = q.timers
        /\ c.again = q.again /\ c.backend = q.backend
        /\ c.closing = q.closing /\ c.phase = q.phase /\ c.req = q.req
        /\ c.taken = q.taken /\ c.polls = q.polls /\ c.done = q.done
    BY <1>4, CloseSessionHeld
  <2>2. f = c
    BY <1>3, <1>6
  <2> HIDE DEF c
  <2> QED BY <1>5, <2>1, <2>2 DEF Held, f
<1>7. CASE p.backend # "global"
  <2> DEFINE c == CloseTextarea(q)
  <2>1. /\ c \in PageType /\ ~c.visible /\ c.timers = q.timers \ {"probe"}
        /\ c.again = q.again /\ c.backend = q.backend /\ c.uuid = q.uuid /\ c.open = q.open
        /\ c.closing = q.closing /\ c.phase = q.phase /\ c.req = q.req
        /\ c.taken = q.taken /\ c.polls = q.polls /\ c.done = q.done
    BY <1>4, CloseTextareaHeld
  <2>2. f = c
    BY <1>3, <1>7
  <2> HIDE DEF c
  <2> QED BY <1>5, <1>7, <2>1, <2>2 DEF Held, f
<1> QED BY <1>6, <1>7

(* FailBackend: the other backend is tried, or the request is cancelled.      *)
LEMMA FailBackendLeaves ==
  ASSUME NEW p, Held(p), p.req # 0, "retry" \notin p.timers, files \in FilesType,
         FailBackend(p)
  PROVE  Leaves(p)
<1> DEFINE f == Failed(p)
           q == [f EXCEPT !.phase = "opening", !.timers = @ \cup {"switch"}]
<1>1. /\ Held(f) /\ f.uuid = 0 /\ f.req = p.req /\ f.backend = p.backend
      /\ f.phase = p.phase /\ f.timers \subseteq p.timers
      /\ f.taken = p.taken /\ f.polls = p.polls /\ f.done = p.done
  BY FailedHeld
<1>2. CASE MayFallBack(p)
  <2>1. page' = q /\ files' = files
    BY <1>2 DEF FailBackend
  <2> HIDE DEF f
  <2>2. f \in PageType
    BY <1>1 DEF Held
  <2>3. q \in PageType
    BY <2>2 DEF PageType, Timers
  <2>4. /\ q.phase = "opening" /\ q.timers = f.timers \cup {"switch"}
        /\ q.req = f.req /\ q.backend = f.backend /\ q.uuid = f.uuid /\ q.visible = f.visible
        /\ q.open = f.open /\ q.closing = f.closing /\ q.again = f.again
        /\ q.taken = f.taken /\ q.polls = f.polls /\ q.done = f.done
    BY <2>2 DEF PageType
  <2> HIDE DEF q
  <2>5. Shape(q)
    BY <1>1, <2>3, <2>4 DEF Shape, Held
  <2>6. Follows(p, q)
    BY <1>1, <2>4 DEF Follows
  <2> QED BY <2>1, <2>5, <2>6 DEF Leaves
<1>3. CASE ~MayFallBack(p)
  <2>1. FinishRequest(f, Decision(FALSE, 0))
    BY <1>3 DEF FailBackend
  <2>2. Decision(FALSE, 0) \in Decisions
    BY KeyboardConstants DEF Decision, Decisions
  <2> HIDE DEF f
  <2>3. Leaves(f)
    BY <1>1, <2>1, <2>2, FinishRequestLeaves
  <2> QED BY <1>1, <2>3 DEF Leaves, Follows
<1> QED BY <1>2, <1>3
(* OpenTextarea.                                                              *)
LEMMA OpenTextareaHeld ==
  ASSUME NEW p \in PageType
  PROVE  LET q == OpenTextarea(p)
         IN  /\ q \in PageType
             /\ q.phase = "opening" /\ q.visible /\ q.timers = p.timers \cup {"focus"}
             /\ q.backend = p.backend /\ q.req = p.req /\ q.uuid = p.uuid
             /\ q.open = p.open /\ q.closing = p.closing /\ q.again = p.again
             /\ q.taken = p.taken /\ q.polls = p.polls /\ q.done = p.done
<1> DEFINE q == OpenTextarea(p)
           timers == p.timers \cup {"focus"}
<1>1. timers \subseteq Timers
  BY DEF PageType, Timers
<1>2. q = [p EXCEPT !.visible = TRUE, !.focused = FALSE, !.blurred = FALSE,
                    !.phase = "opening", !.timers = timers]
  BY DEF OpenTextarea, PageType
<1> HIDE DEF q, timers
<1>3. q \in PageType
  BY <1>1, <1>2, Zenon DEF PageType
<1>4. /\ q.phase = "opening" /\ q.visible /\ q.timers = timers
      /\ q.backend = p.backend /\ q.req = p.req /\ q.uuid = p.uuid
      /\ q.open = p.open /\ q.closing = p.closing /\ q.again = p.again
      /\ q.taken = p.taken /\ q.polls = p.polls /\ q.done = p.done
  BY <1>2 DEF PageType
<1> QED BY <1>3, <1>4 DEF q, timers

(* The keyboard of the system has a number of its own.                        *)
LEMMA OpenGlobalHeld ==
  ASSUME NEW p \in PageType
  PROVE  LET q == OpenGlobal(p)
         IN  /\ q \in PageType
             /\ q.phase = "opening" /\ ~q.visible /\ q.timers = p.timers \ {"probe"}
             /\ q.backend = p.backend /\ q.req = p.req /\ q.uuid # 0
             /\ q.open = p.open \cup {q.uuid} /\ q.closing = p.closing /\ q.again = p.again
             /\ q.taken = p.taken /\ q.polls = p.polls /\ q.done = p.done
<1> DEFINE c == CloseTextarea(p)
           n == p.uuids + 1
           open == c.open \cup {n}
           q == OpenGlobal(p)
<1>1. n \in Nat \ {0}
  <2>1. p.uuids \in Nat
    BY DEF PageType
  <2> HIDE DEF c, q
  <2> QED BY <2>1
<1>2. /\ c \in PageType /\ ~c.visible /\ c.timers = p.timers \ {"probe"}
      /\ c.again = p.again /\ c.backend = p.backend /\ c.open = p.open
      /\ c.closing = p.closing /\ c.req = p.req /\ c.uuids = p.uuids
      /\ c.taken = p.taken /\ c.polls = p.polls /\ c.done = p.done
  BY CloseTextareaHeld
<1>3. q = [c EXCEPT !.phase = "opening", !.uuids = @ + 1, !.uuid = n, !.open = @ \cup {n}]
  BY DEF OpenGlobal
<1> HIDE DEF c, q
<1>4. q = [c EXCEPT !.phase = "opening", !.uuids = n, !.uuid = n, !.open = open]
  BY <1>2, <1>3 DEF PageType
<1>5. open \subseteq Nat \ {0}
  BY <1>1, <1>2 DEF PageType
<1> HIDE DEF n
<1>6. open = p.open \cup {n}
  BY <1>2
<1> HIDE DEF open
<1>0. c \in PageType
  BY <1>2
<1>7. q \in PageType
  BY <1>0, <1>1, <1>4, <1>5, Zenon DEF PageType
<1>8. /\ q.phase = "opening" /\ q.uuid = n /\ q.open = open
      /\ q.visible = c.visible /\ q.timers = c.timers
      /\ q.backend = c.backend /\ q.req = c.req
      /\ q.closing = c.closing /\ q.again = c.again
      /\ q.taken = c.taken /\ q.polls = c.polls /\ q.done = c.done
  BY <1>0, <1>4 DEF PageType
<1> QED BY <1>1, <1>2, <1>6, <1>7, <1>8 DEF q

(* What stays of a page that takes or changes its backend.                    *)
Stays(p, q) ==
  /\ q.req = p.req /\ q.uuid = p.uuid /\ q.open = p.open /\ q.closing = p.closing
  /\ q.again = p.again /\ q.taken = p.taken /\ q.polls = p.polls /\ q.done = p.done

(* A backend is chosen before it is opened.                                   *)
LEMMA ChosenHeld ==
  ASSUME NEW p \in PageType, NEW b \in Backends
  PROVE  LET q == [p EXCEPT !.backend = b, !.tried = @ \cup {b}]
         IN  q \in PageType /\ q.backend = b /\ q.timers = p.timers /\ Stays(p, q)
<1> DEFINE tried == p.tried \cup {b}
           q == [p EXCEPT !.backend = b, !.tried = @ \cup {b}]
<1>1. tried \subseteq Backends
  BY DEF PageType
<1>2. q = [p EXCEPT !.backend = b, !.tried = tried]
  BY DEF PageType
<1> HIDE DEF tried, q
<1>3. q \in PageType
  BY <1>1, <1>2, Zenon DEF PageType
<1>4. q.backend = b /\ q.timers = p.timers /\ Stays(p, q)
  BY <1>2 DEF PageType, Stays
<1> QED BY <1>3, <1>4 DEF q

(* A change of the phase alone.                                               *)
LEMMA PhaseHeld ==
  ASSUME NEW p \in PageType, NEW phase \in {"opening", "active"}
  PROVE  LET q == [p EXCEPT !.phase = phase]
         IN  /\ q \in PageType /\ Stays(p, q) /\ q.phase = phase
             /\ q.backend = p.backend /\ q.timers = p.timers /\ q.visible = p.visible
<1> DEFINE q == [p EXCEPT !.phase = phase]
<1>1. q \in PageType
  BY Zenon DEF PageType
<1> QED BY <1>1 DEF PageType, Stays

(* A backend is opened where no keyboard of the system is.                    *)
LEMMA OpenBackendLeaves ==
  ASSUME NEW p \in PageType, NEW b \in Backends, ~p.again, p.req # 0, p.uuid = 0,
         p.open \subseteq p.closing, "retry" \notin p.timers, "switch" \notin p.timers,
         files \in FilesType, OpenBackend(p, b)
  PROVE  Leaves(p)
<1> DEFINE q == [p EXCEPT !.backend = b, !.tried = @ \cup {b}]
           t == OpenTextarea(q)
           g == OpenGlobal(q)
           c == CloseTextarea(q)
           o == [c EXCEPT !.phase = "opening"]
<1>1. /\ b = "textarea" => page' = t /\ files' = files
      /\ b # "textarea" => \/ page' = g /\ files' = files
                           \/ FailBackend(o)
  BY Zenon DEF OpenBackend
<1>2. q \in PageType /\ q.backend = b /\ q.timers = p.timers /\ Stays(p, q)
  BY ChosenHeld
<1> HIDE DEF q
<1>3. CASE b = "textarea"
  <2>1. /\ t \in PageType
        /\ t.phase = "opening" /\ t.visible /\ t.timers = q.timers \cup {"focus"}
        /\ t.backend = q.backend /\ Stays(q, t)
    BY <1>2, OpenTextareaHeld DEF Stays
  <2>2. page' = t /\ files' = files
    BY <1>1, <1>3
  <2> HIDE DEF t, g, o
  <2>3. Shape(t)
    BY <1>2, <1>3, <2>1 DEF Shape, Held, Stays
  <2>4. Follows(p, t)
    BY <1>2, <2>1 DEF Follows, Stays
  <2> QED BY <2>2, <2>3, <2>4 DEF Leaves
<1>4. CASE b = "global" /\ page' = g /\ files' = files
  <2>1. /\ g \in PageType
        /\ g.phase = "opening" /\ ~g.visible /\ g.timers = q.timers \ {"probe"}
        /\ g.backend = q.backend /\ g.req = q.req /\ g.uuid # 0
        /\ g.open = q.open \cup {g.uuid} /\ g.closing = q.closing /\ g.again = q.again
        /\ g.taken = q.taken /\ g.polls = q.polls /\ g.done = q.done
    BY <1>2, OpenGlobalHeld
  <2> HIDE DEF t, g, o
  <2>2. Shape(g)
    BY <1>2, <1>4, <2>1 DEF Shape, Held, Stays
  <2>3. Follows(p, g)
    BY <1>2, <2>1 DEF Follows, Stays
  <2> QED BY <1>4, <2>2, <2>3 DEF Leaves
<1>5. CASE b = "global" /\ FailBackend(o)
  <2>1. c \in PageType /\ ~c.visible /\ c.timers = q.timers \ {"probe"}
        /\ c.backend = q.backend /\ Stays(q, c)
    BY <1>2, CloseTextareaHeld DEF Stays
  <2> HIDE DEF t, g, c
  <2>2. /\ o \in PageType /\ Stays(c, o) /\ o.phase = "opening"
        /\ o.backend = c.backend /\ o.timers = c.timers /\ o.visible = c.visible
    BY <2>1, PhaseHeld
  <2> HIDE DEF o
  <2>3. Held(o) /\ o.req # 0 /\ "retry" \notin o.timers
    BY <1>2, <1>5, <2>1, <2>2 DEF Held, Stays
  <2>4. Leaves(o)
    BY <1>5, <2>3, FailBackendLeaves
  <2> QED BY <1>2, <2>1, <2>2, <2>4 DEF Leaves, Follows, Stays
<1> QED BY <1>1, <1>3, <1>4, <1>5 DEF Backends
-----------------------------------------------------------------------------
(* The actions of the page.                                                   *)

PageNextInv ==
  /\ Shape(page') /\ files' \in FilesType
  /\ TakenOK(page', files'.request, shell.next) /\ files'.request = files.request

(* A handler that leaves what it should keeps the invariant.                  *)
LEMMA LeavesKeeps ==
  ASSUME IInv, NEW p, Leaves(p), p.taken = page.taken, p.polls = page.polls,
         p.done = page.done, p.req = page.req
  PROVE  PageNextInv
<1>1. TakenOK(page, files.request, shell.next) /\ files.request \in Ids \cup {0}
  BY DEF IInv, PageInv, FilesType
<1>2. 0 \notin page.taken
  BY Numbers DEF IInv, PageInv, Shape, Held, PageType
<1>3. TakenOK(page', files'.request, shell.next)
  BY <1>1, <1>2 DEF Leaves, Follows, TakenOK
<1> QED BY <1>3 DEF Leaves, PageNextInv

(* The request that is taken was not taken before.                            *)
LEMMA PolledHeld ==
  ASSUME NEW p \in PageType, NEW i \in Ids, i \notin p.taken
  PROVE  LET q == [p EXCEPT !.req = i, !.tried = {}, !.sequence = 0, !.last = 0,
                            !.timers = @ \ {"deadline"},
                            !.again = i \in p.taken, !.taken = @ \cup {i}]
         IN  /\ q \in PageType
             /\ q.req = i /\ q.timers = p.timers \ {"deadline"} /\ ~q.again
             /\ q.taken = p.taken \cup {i} /\ q.polls = p.polls /\ q.done = p.done
             /\ q.uuid = p.uuid /\ q.open = p.open /\ q.closing = p.closing
<1> DEFINE q == [p EXCEPT !.req = i, !.tried = {}, !.sequence = 0, !.last = 0,
                          !.timers = @ \ {"deadline"},
                          !.again = i \in p.taken, !.taken = @ \cup {i}]
           again == i \in p.taken
           timers == p.timers \ {"deadline"}
           taken == p.taken \cup {i}
<1>1. again = FALSE
  OBVIOUS
<1>2. timers \subseteq Timers /\ taken \subseteq Ids
  BY DEF PageType
<1>3. q = [p EXCEPT !.req = i, !.tried = {}, !.sequence = 0, !.last = 0,
                    !.timers = timers, !.again = again, !.taken = taken]
  BY DEF PageType
<1> HIDE DEF q, again, timers, taken
<1> DEFINE r == [p EXCEPT !.req = i, !.tried = {}, !.sequence = 0, !.last = 0]
<1>4. r \in PageType
  BY KeyboardConstants, Zenon DEF PageType
<1>5. q = [r EXCEPT !.timers = timers, !.again = FALSE, !.taken = taken]
  BY <1>1, <1>3
<1>6. /\ r.req = i /\ r.polls = p.polls /\ r.done = p.done
      /\ r.uuid = p.uuid /\ r.open = p.open /\ r.closing = p.closing
  BY DEF PageType
<1> HIDE DEF r
<1>7. q \in PageType
  BY <1>2, <1>4, <1>5, Zenon DEF PageType
<1>8. /\ q.req = r.req /\ q.timers = timers /\ ~q.again /\ q.taken = taken
      /\ q.polls = r.polls /\ q.done = r.done
      /\ q.uuid = r.uuid /\ q.open = r.open /\ q.closing = r.closing
  BY <1>1, <1>4, <1>5 DEF PageType
<1> QED BY <1>6, <1>7, <1>8 DEF q, timers, taken

(* PollRequest: TakenOK says that the number is a new one.                    *)
LEMMA PollRequestKeeps ==
  ASSUME IInv, PollRequest
  PROVE  PageNextInv
<1> DEFINE i == files.request
           b == IF page.mode = "global" THEN "global" ELSE "textarea"
           p == [page EXCEPT !.req = i, !.tried = {}, !.sequence = 0, !.last = 0,
                             !.timers = @ \ {"deadline"},
                             !.again = i \in page.taken, !.taken = @ \cup {i}]
<1>1. /\ page.polls /\ page.req = 0 /\ page.phase = "idle" /\ i # 0 /\ i \notin page.done
      /\ OpenBackend(p, b)
  BY DEF PollRequest, MayTake
<1>2. /\ Shape(page) /\ page \in PageType /\ files \in FilesType
      /\ TakenOK(page, i, shell.next) /\ i \in Ids
  BY <1>1 DEF IInv, PageInv, Shape, Held, FilesType
<1>3. i \notin page.taken /\ i < shell.next
  BY <1>1, <1>2 DEF TakenOK
<1>4. b \in Backends
  BY DEF Backends
<1> HIDE DEF b
<1>7. /\ p \in PageType
      /\ p.req = i /\ p.timers = page.timers \ {"deadline"} /\ ~p.again
      /\ p.taken = page.taken \cup {i} /\ p.polls = page.polls /\ p.done = page.done
      /\ p.uuid = page.uuid /\ p.open = page.open /\ p.closing = page.closing
  BY <1>2, <1>3, PolledHeld
<1> HIDE DEF i, p
<1>9. /\ page.uuid = 0 /\ page.open \subseteq page.closing
      /\ "retry" \notin page.timers /\ "switch" \notin page.timers
  BY <1>1, <1>2 DEF Shape, Held, PageType
<1>10. /\ p.req # 0 /\ p.uuid = 0 /\ p.open \subseteq p.closing
       /\ "retry" \notin p.timers /\ "switch" \notin p.timers
  BY <1>1, <1>7, <1>9
<1>11. Leaves(p)
  BY <1>1, <1>2, <1>4, <1>7, <1>10, OpenBackendLeaves
<1>12. TakenOK(page', i, shell.next)
  BY <1>2, <1>3, <1>7, <1>11 DEF Leaves, Follows, TakenOK
<1> QED BY <1>11, <1>12 DEF Leaves, PageNextInv, i
(* A step that leaves the request, the keyboards and the answer alone, and    *)
(* arms none of the two timers that belong to a phase.                        *)
Quiet(p, q) ==
  /\ q \in PageType /\ Stays(p, q) /\ q.phase = p.phase /\ q.backend = p.backend
  /\ q.answer = p.answer /\ q.visible = p.visible
  /\ q.timers \subseteq p.timers \cup {"focus", "probe", "return", "deadline"}

(* A quiet step keeps the shape of the page.                                  *)
LEMMA QuietShape ==
  ASSUME NEW p, NEW q, Shape(p), Quiet(p, q)
  PROVE  Shape(q) /\ Follows(p, q)
<1>1. Held(q)
  BY DEF Quiet, Stays, Shape, Held
<1>2. Follows(p, q)
  BY DEF Quiet, Stays, Follows
<1> QED BY <1>1, <1>2 DEF Quiet, Stays, Shape

(* Timers that belong to no phase are armed or disarmed.                      *)
LEMMA TimersQuiet ==
  ASSUME NEW p \in PageType, NEW timers,
         timers \subseteq p.timers \cup {"focus", "probe", "return", "deadline"}
  PROVE  /\ Quiet(p, [p EXCEPT !.timers = timers])
         /\ [p EXCEPT !.timers = timers].timers = timers
         /\ [p EXCEPT !.timers = timers].focused = p.focused
<1> DEFINE q == [p EXCEPT !.timers = timers]
<1>1. timers \subseteq Timers
  BY DEF PageType, Timers
<1>2. q \in PageType
  BY <1>1, Zenon DEF PageType
<1> QED BY <1>2 DEF Quiet, Stays, PageType

(* The focus of the text area comes and goes.                                 *)
LEMMA FocusQuiet ==
  ASSUME NEW p \in PageType
  PROVE  /\ Quiet(p, [p EXCEPT !.focused = TRUE])
         /\ Quiet(p, [p EXCEPT !.focused = TRUE, !.blurred = FALSE])
         /\ Quiet(p, [p EXCEPT !.focused = FALSE, !.blurred = TRUE])
<1> DEFINE f == [p EXCEPT !.focused = TRUE]
           g == [p EXCEPT !.focused = TRUE, !.blurred = FALSE]
           h == [p EXCEPT !.focused = FALSE, !.blurred = TRUE]
<1>1. f \in PageType
  BY Zenon DEF PageType
<1>2. g \in PageType
  BY Zenon DEF PageType
<1>3. h \in PageType
  BY Zenon DEF PageType
<1>4. Quiet(p, f)
  BY <1>1 DEF Quiet, Stays, PageType
<1>5. Quiet(p, g)
  BY <1>2 DEF Quiet, Stays, PageType
<1>6. Quiet(p, h)
  BY <1>3 DEF Quiet, Stays, PageType
<1> QED BY <1>4, <1>5, <1>6

(* Two quiet steps are one.                                                   *)
LEMMA QuietAgain ==
  ASSUME NEW p, NEW q, NEW r, Quiet(p, q), Quiet(q, r)
  PROVE  Quiet(p, r)
  BY DEF Quiet, Stays

(* A timer that fires is disarmed.                                            *)
LEMMA DisarmedQuiet ==
  ASSUME page \in PageType, NEW t
  PROVE  Quiet(page, Disarmed(t)) /\ Disarmed(t).timers = page.timers \ {t}
<1> DEFINE timers == page.timers \ {t}
<1>1. Disarmed(t) = [page EXCEPT !.timers = timers]
  BY DEF Disarmed, PageType
<1>2. timers \subseteq page.timers \cup {"focus", "probe", "return", "deadline"}
  OBVIOUS
<1> HIDE DEF timers
<1>3. /\ Quiet(page, [page EXCEPT !.timers = timers])
      /\ [page EXCEPT !.timers = timers].timers = timers
  BY <1>2, TimersQuiet
<1> QED BY <1>1, <1>3 DEF timers

(* Such a step keeps the invariant, and so does one that goes on from there.  *)
LEMMA QuietKeeps ==
  ASSUME IInv, Quiet(page, page'), files' = files
  PROVE  PageNextInv
<1>1. Shape(page) /\ files \in FilesType
  BY DEF IInv, PageInv
<1>2. Leaves(page)
  BY <1>1, QuietShape DEF Leaves
<1> QED BY <1>2, LeavesKeeps

(* A handler that first does a quiet step.                                    *)
LEMMA GoesOn ==
  ASSUME IInv, NEW p, Stays(page, p), Leaves(p)
  PROVE  PageNextInv
  BY LeavesKeeps DEF Stays

(* What the invariant says of the page and the files.                         *)
LEMMA PageNow ==
  ASSUME IInv
  PROVE  /\ Shape(page) /\ Held(page) /\ page \in PageType /\ files \in FilesType
         /\ TakenOK(page, files.request, shell.next)
  BY DEF IInv, PageInv, Shape, Held
-----------------------------------------------------------------------------
(* PollCompletion.                                                            *)
LEMMA PollCompletionKeeps ==
  ASSUME IInv, PollCompletion
  PROVE  PageNextInv
<1>1. /\ page.req # 0 /\ page' = Reset(page)
      /\ files' = [files EXCEPT !.status[page.req] = ""]
  BY DEF PollCompletion
<1>2. Held(page) /\ files \in FilesType /\ page \in PageType
  BY PageNow
<1>3. files' \in FilesType /\ files'.request = files.request
  BY <1>1, <1>2 DEF FilesType
<1>4. Leaves(page)
  BY <1>1, <1>2, <1>3, ResetShape DEF Leaves
<1> QED BY <1>4, LeavesKeeps

(* CompletionTimeout.                                                         *)
LEMMA CompletionTimeoutKeeps ==
  ASSUME IInv, CompletionTimeout
  PROVE  PageNextInv
<1>1. page' = Reset(page) /\ files' = files
  BY DEF CompletionTimeout
<1>2. Leaves(page)
  BY <1>1, PageNow, ResetShape DEF Leaves
<1> QED BY <1>2, LeavesKeeps

(* ResponseRetry: an answer that could not be written is still there.         *)
LEMMA ResponseRetryKeeps ==
  ASSUME IInv, ResponseRetry
  PROVE  PageNextInv
<1>1. /\ "retry" \in page.timers
      /\ \E wrote \in MayFail(page) :
           /\ page' = Published(page, wrote)
           /\ files' = IF wrote THEN Responded(files, page, page.answer) ELSE files
  BY DEF ResponseRetry, Fires
<1>2. PICK wrote \in BOOLEAN :
        /\ page' = Published(page, wrote)
        /\ files' = IF wrote THEN Responded(files, page, page.answer) ELSE files
  BY <1>1 DEF MayFail
<1>3. Shape(page) /\ page \in PageType /\ files \in FilesType
  BY PageNow
<1>4. page.phase = "responding" /\ page.answer \in Decisions /\ page.req # 0
  BY <1>1, <1>3 DEF Shape
<1>5. Shape(page') /\ Follows(page, page')
  BY <1>2, <1>3, <1>4, PublishedShape
<1>6. /\ Responded(files, page, page.answer) \in FilesType
      /\ Responded(files, page, page.answer).request = files.request
  BY <1>3, <1>4, RespondedTyped
<1>7. files' \in FilesType /\ files'.request = files.request
  BY <1>2, <1>3, <1>6
<1>8. Leaves(page)
  BY <1>5, <1>7 DEF Leaves
<1> QED BY <1>8, LeavesKeeps

(* A backend that fails does so before the page has answered.                 *)
LEMMA QuietFails ==
  ASSUME IInv, NEW p, Quiet(page, p), page.req # 0, page.phase # "responding",
         FailBackend(p)
  PROVE  PageNextInv
<1>1. Shape(p) /\ p.req # 0 /\ Stays(page, p) /\ files \in FilesType
  BY PageNow, QuietShape DEF Quiet, Stays
<1>2. Held(p) /\ "retry" \notin p.timers
  BY <1>1 DEF Shape, Quiet
<1>3. Leaves(p)
  BY <1>1, <1>2, FailBackendLeaves
<1> QED BY <1>1, <1>3, GoesOn

(* FocusTimer.                                                                *)
LEMMA FocusTimerKeeps ==
  ASSUME IInv, FocusTimer
  PROVE  PageNextInv
<1> DEFINE d == Disarmed("focus")
           p == [d EXCEPT !.focused = TRUE]
           q == [p EXCEPT !.timers = @ \cup {"probe"}]
<1>1. \/ Busy("textarea") /\ page' = q /\ files' = files
      \/ Busy("textarea") /\ FailBackend(p)
      \/ page' = d /\ files' = files
  BY DEF FocusTimer
<1>2. Quiet(page, d)
  BY PageNow, DisarmedQuiet
<1> HIDE DEF d
<1>3. Quiet(d, p)
  <2>1. d \in PageType
    BY <1>2 DEF Quiet
  <2> QED BY <2>1, FocusQuiet
<1> HIDE DEF p
<1>4. Quiet(page, p)
  BY <1>2, <1>3, QuietAgain
<1>5. Quiet(p, q)
  <2> DEFINE timers == p.timers \cup {"probe"}
  <2>1. p \in PageType
    BY <1>4 DEF Quiet
  <2>2. q = [p EXCEPT !.timers = timers]
    BY <2>1 DEF PageType
  <2> HIDE DEF q
  <2>3. timers \subseteq p.timers \cup {"focus", "probe", "return", "deadline"}
    OBVIOUS
  <2> HIDE DEF timers
  <2> QED BY <2>1, <2>2, <2>3, TimersQuiet
<1> HIDE DEF q
<1>6. Quiet(page, q)
  BY <1>4, <1>5, QuietAgain
<1>7. CASE page' = q /\ files' = files
  BY <1>6, <1>7, QuietKeeps
<1>8. CASE page' = d /\ files' = files
  BY <1>2, <1>8, QuietKeeps
<1>9. CASE Busy("textarea") /\ FailBackend(p)
  BY <1>4, <1>9, QuietFails DEF Busy
<1> QED BY <1>1, <1>7, <1>8, <1>9

(* ProbeTimeout.                                                              *)
LEMMA ProbeTimeoutKeeps ==
  ASSUME IInv, ProbeTimeout
  PROVE  PageNextInv
<1>1. \/ Busy("textarea") /\ FailBackend(Disarmed("probe"))
      \/ page' = Disarmed("probe") /\ files' = files
  BY DEF ProbeTimeout
<1>2. Quiet(page, Disarmed("probe"))
  BY PageNow, DisarmedQuiet
<1>3. CASE Busy("textarea") /\ FailBackend(Disarmed("probe"))
  BY <1>2, <1>3, QuietFails DEF Busy
<1>4. CASE page' = Disarmed("probe") /\ files' = files
  BY <1>2, <1>4, QuietKeeps
<1> QED BY <1>1, <1>3, <1>4

(* The timer that changes the backend is armed after the keyboard was closed. *)
LEMMA SwitchTimerKeeps ==
  ASSUME IInv, SwitchTimer
  PROVE  PageNextInv
<1> DEFINE p == Disarmed("switch")
           b == Other(page.backend)
<1>1. /\ "switch" \in page.timers
      /\ \/ page.req # 0 /\ page.phase = "opening" /\ OpenBackend(p, b)
         \/ page' = p /\ files' = files
  BY DEF SwitchTimer, Fires
<1>2. Quiet(page, p) /\ p.timers = page.timers \ {"switch"}
  BY PageNow, DisarmedQuiet
<1>3. b \in Backends
  BY DEF Other, Backends
<1> HIDE DEF p, b
<1>4. Shape(p) /\ p \in PageType /\ files \in FilesType /\ Stays(page, p)
  BY <1>2, PageNow, QuietShape DEF Quiet
<1>5. CASE page.req # 0 /\ page.phase = "opening" /\ OpenBackend(p, b)
  <2>1. page.uuid = 0 /\ "retry" \notin page.timers
    BY <1>1, <1>5, PageNow DEF Shape
  <2>2. /\ ~p.again /\ p.req # 0 /\ p.uuid = 0
        /\ "retry" \notin p.timers /\ "switch" \notin p.timers
    BY <1>2, <1>4, <1>5, <2>1 DEF Shape, Held, Stays
  <2>3. p.open \subseteq p.closing
    BY <1>4, <2>2 DEF Shape, Held, PageType
  <2>4. Leaves(p)
    BY <1>3, <1>4, <1>5, <2>2, <2>3, OpenBackendLeaves
  <2> QED BY <1>4, <2>4, GoesOn
<1>6. CASE page' = p /\ files' = files
  BY <1>2, <1>6, QuietKeeps
<1> QED BY <1>1, <1>5, <1>6
(* A text gets the next number.                                               *)
LEMMA TextQuiet ==
  ASSUME NEW p \in PageType, NEW text \in Texts, NEW n \in Nat
  PROVE  Quiet(p, [p EXCEPT !.last = text, !.sequence = n])
<1> DEFINE q == [p EXCEPT !.last = text, !.sequence = n]
<1>1. q \in PageType
  BY Zenon DEF PageType
<1> QED BY <1>1 DEF Quiet, Stays, PageType

(* The user types, confirms, leaves.                                          *)
LEMMA TextareaInputKeeps ==
  ASSUME IInv, NEW text \in Texts, TextareaInput(text)
  PROVE  PageNextInv
<1> DEFINE s == Succeeded(page, "textarea")
           p == [s EXCEPT !.phase = "active"]
           q == [p EXCEPT !.last = text, !.sequence = @ + 1]
<1>1. /\ page.req # 0 /\ page.backend = "textarea" /\ page.phase # "responding"
      /\ \/ page' = p /\ files' = files
         \/ /\ page' = q
            /\ files' = [files EXCEPT !.update[page.req] =
                           [sequence |-> page.sequence + 1, text |-> text]]
  BY DEF TextareaInput, Busy
<1>2. /\ Shape(page) /\ page \in PageType /\ files \in FilesType
      /\ page.req \in Ids /\ page.sequence \in Nat
  BY <1>1, PageNow DEF PageType
<1>3. /\ Shape(s) /\ Follows(page, s)
      /\ s.req = page.req /\ s.backend = page.backend /\ s.timers = page.timers \ {"probe"}
      /\ s.sequence = page.sequence
  BY <1>2, SucceededShape DEF Backends
<1> HIDE DEF s
<1>4. /\ p \in PageType /\ Stays(s, p) /\ p.phase = "active"
      /\ p.backend = s.backend /\ p.timers = s.timers /\ p.visible = s.visible
      /\ p.sequence = s.sequence
  <2>1. s \in PageType
    BY <1>3 DEF Shape, Held
  <2>2. /\ p \in PageType /\ Stays(s, p) /\ p.phase = "active"
        /\ p.backend = s.backend /\ p.timers = s.timers /\ p.visible = s.visible
    BY <2>1, PhaseHeld
  <2> QED BY <2>1, <2>2 DEF PageType
<1> HIDE DEF p
<1>5. Shape(p) /\ Follows(page, p)
  <2>1. "retry" \notin p.timers /\ p.req # 0
    BY <1>1, <1>2, <1>3, <1>4 DEF Shape, Stays
  <2> QED BY <1>3, <1>4, <2>1 DEF Shape, Held, Stays, Follows
<1>6. CASE page' = p /\ files' = files
  BY <1>2, <1>5, <1>6, LeavesKeeps DEF Leaves
<1>7. CASE /\ page' = q
           /\ files' = [files EXCEPT !.update[page.req] =
                          [sequence |-> page.sequence + 1, text |-> text]]
  <2> DEFINE n == p.sequence + 1
  <2>1. n \in Nat /\ p.sequence + 1 = page.sequence + 1
    BY <1>2, <1>3, <1>4
  <2>2. q = [p EXCEPT !.last = text, !.sequence = n]
    BY <1>4 DEF PageType
  <2> HIDE DEF n, q
  <2>4. Quiet(p, q)
    BY <1>4, <2>1, <2>2, TextQuiet
  <2>5. Shape(q) /\ Follows(p, q)
    BY <1>5, <2>4, QuietShape
  <2>6. files' \in FilesType /\ files'.request = files.request
    <3> DEFINE u == [sequence |-> page.sequence + 1, text |-> text]
               update == [files.update EXCEPT ![page.req] = u]
    <3>1. files' = [files EXCEPT !.update = update]
      BY <1>2, <1>7 DEF FilesType
    <3>2. u \in Updates
      BY <1>2 DEF Updates
    <3> HIDE DEF u
    <3>3. update \in [Ids -> Updates \cup {None}]
      BY <1>2, <3>2 DEF FilesType
    <3> HIDE DEF update
    <3> QED BY <1>2, <3>1, <3>3 DEF FilesType
  <2>7. Leaves(page)
    BY <1>5, <1>7, <2>5, <2>6 DEF Leaves, Follows
  <2> QED BY <2>7, LeavesKeeps
<1> QED BY <1>1, <1>6, <1>7

(* The user ends a request in the keyboard that is in use.                    *)
LEMMA Answers ==
  ASSUME IInv, NEW d \in Decisions, NEW b \in Backends, Busy(b),
         FinishRequest(Succeeded(page, b), d)
  PROVE  PageNextInv
<1> DEFINE s == Succeeded(page, b)
<1>1. Shape(s) /\ Follows(page, s) /\ s.req = page.req /\ page.req # 0
  BY PageNow, SucceededShape DEF Busy
<1>2. Leaves(s)
  BY <1>1, PageNow, FinishRequestLeaves DEF Shape
<1>3. Leaves(page)
  BY <1>1, <1>2 DEF Leaves, Follows
<1> QED BY <1>3, LeavesKeeps

(* TextareaConfirm, TextareaCancel.                                           *)
LEMMA ConfirmKeeps ==
  ASSUME IInv, NEW text \in Texts, TextareaConfirm(text) \/ TextareaCancel
  PROVE  PageNextInv
<1>1. Decision(TRUE, text) \in Decisions /\ Decision(FALSE, 0) \in Decisions
  BY KeyboardConstants DEF Decision, Decisions
<1>2. "textarea" \in Backends
  BY DEF Backends
<1> QED BY <1>1, <1>2, Answers DEF TextareaConfirm, TextareaCancel

(* TextareaFocus, TextareaBlur.                                               *)
LEMMA FocusKeeps ==
  ASSUME IInv, TextareaFocus \/ TextareaBlur
  PROVE  PageNextInv
<1>1. page \in PageType
  BY PageNow
<1>2. CASE TextareaFocus
  <2> DEFINE timers == page.timers \ {"return"}
             p == [page EXCEPT !.timers = timers]
             q == [p EXCEPT !.focused = TRUE, !.blurred = FALSE]
  <2>1. page' = q /\ files' = files
    BY <1>1, <1>2 DEF TextareaFocus, PageType
  <2>2. timers \subseteq page.timers \cup {"focus", "probe", "return", "deadline"}
    OBVIOUS
  <2> HIDE DEF timers
  <2>3. Quiet(page, p)
    BY <1>1, <2>2, TimersQuiet
  <2> HIDE DEF p
  <2>4. Quiet(p, q)
    BY <2>3, FocusQuiet DEF Quiet
  <2> HIDE DEF q
  <2> QED BY <2>1, <2>3, <2>4, QuietAgain, QuietKeeps
<1>3. CASE TextareaBlur
  BY <1>1, <1>3, FocusQuiet, QuietKeeps DEF TextareaBlur
<1> QED BY <1>2, <1>3

(* PageHide.                                                                  *)
LEMMA PageHideKeeps ==
  ASSUME IInv, PageHide
  PROVE  PageNextInv
<1> DEFINE s == Succeeded(page, page.backend)
           p == [s EXCEPT !.phase = "active"]
<1>1. /\ page.backend \in Backends /\ page.phase \in {"opening", "active"}
      /\ page' = p /\ files' = files
  BY PageNow DEF PageHide, PageType
<1>2. /\ Shape(s) /\ Follows(page, s)
      /\ s.req = page.req /\ s.timers = page.timers \ {"probe"} /\ s.phase = page.phase
  BY <1>1, PageNow, SucceededShape
<1> HIDE DEF s
<1>3. /\ p \in PageType /\ Stays(s, p) /\ p.phase = "active"
      /\ p.backend = s.backend /\ p.timers = s.timers /\ p.visible = s.visible
  BY <1>2, PhaseHeld DEF Shape, Held
<1> HIDE DEF p
<1>4. Shape(p) /\ Follows(page, p)
  <2>1. "retry" \notin p.timers /\ p.req # 0
    BY <1>1, <1>2, <1>3, PageNow DEF Shape, Stays
  <2> QED BY <1>2, <1>3, <2>1 DEF Shape, Held, Stays, Follows
<1>5. Leaves(page)
  BY <1>1, <1>4, PageNow DEF Leaves
<1> QED BY <1>5, LeavesKeeps

(* PageShow.                                                                  *)
LEMMA PageShowKeeps ==
  ASSUME IInv, PageShow
  PROVE  PageNextInv
<1> DEFINE timers == (page.timers \ {"return"})
                       \cup (IF Busy("textarea") /\ page.blurred THEN {"return"} ELSE {})
<1>1. page' = [page EXCEPT !.timers = timers] /\ files' = files
  BY PageNow DEF PageShow, PageType
<1>2. timers \subseteq page.timers \cup {"focus", "probe", "return", "deadline"}
  OBVIOUS
<1> HIDE DEF timers
<1> QED BY <1>1, <1>2, PageNow, TimersQuiet, QuietKeeps

(* ReturnTimer.                                                               *)
LEMMA ReturnTimerKeeps ==
  ASSUME IInv, ReturnTimer
  PROVE  PageNextInv
<1> DEFINE p == Disarmed("return")
<1>1. \/ page.req # 0 /\ FinishRequest(p, Decision(FALSE, 0))
      \/ page' = p /\ files' = files
  BY DEF ReturnTimer
<1>2. Quiet(page, p)
  BY PageNow, DisarmedQuiet
<1>3. Decision(FALSE, 0) \in Decisions
  BY KeyboardConstants DEF Decision, Decisions
<1> HIDE DEF p
<1>4. CASE page.req # 0 /\ FinishRequest(p, Decision(FALSE, 0))
  <2>1. Held(p) /\ p.req # 0 /\ Stays(page, p)
    BY <1>2, <1>4, PageNow, QuietShape DEF Shape, Quiet, Stays
  <2>2. Leaves(p)
    BY <1>3, <1>4, <2>1, PageNow, FinishRequestLeaves
  <2> QED BY <2>1, <2>2, GoesOn
<1>5. CASE page' = p /\ files' = files
  BY <1>2, <1>5, QuietKeeps
<1> QED BY <1>1, <1>4, <1>5
(* A result waits for its timer.                                              *)
LEMMA ResultQuiet ==
  ASSUME NEW p \in PageType, NEW r \in Results \cup {None}
  PROVE  Quiet(p, [p EXCEPT !.result = r])
<1> DEFINE q == [p EXCEPT !.result = r]
<1>1. q \in PageType
  BY Zenon DEF PageType
<1> QED BY <1>1 DEF Quiet, Stays, PageType

(* GlobalFinished.                                                            *)
LEMMA GlobalFinishedKeeps ==
  ASSUME IInv, NEW c \in BOOLEAN, NEW t \in Texts,
         GlobalFinished(page.uuid, Decision(c, IF c THEN t ELSE 0))
  PROVE  PageNextInv
<1> DEFINE d == Decision(c, IF c THEN t ELSE 0)
           r == [uuid |-> page.uuid, decision |-> d]
<1>1. page' = [page EXCEPT !.result = r] /\ files' = files
  BY DEF GlobalFinished
<1>2. d \in Decisions
  BY KeyboardConstants DEF Decision, Decisions
<1>3. page \in PageType /\ page.uuid \in Nat
  BY PageNow DEF PageType
<1> HIDE DEF d
<1>4. r \in Results
  BY <1>2, <1>3 DEF Results
<1> HIDE DEF r
<1> QED BY <1>1, <1>3, <1>4, ResultQuiet, QuietKeeps

(* The keyboard of the system that has reported is about to be closed.        *)
LEMMA ClosingShape ==
  ASSUME NEW p, Shape(p)
  PROVE  LET q == [p EXCEPT !.uuid = 0, !.closing = @ \cup {p.uuid}]
         IN  /\ Shape(q) /\ Follows(p, q) /\ q.req = p.req /\ q.taken = p.taken
             /\ q.polls = p.polls /\ q.done = p.done
             /\ q.phase = p.phase /\ q.backend = p.backend
<1> DEFINE q == [p EXCEPT !.uuid = 0, !.closing = @ \cup {p.uuid}]
           closing == p.closing \cup {p.uuid}
<1>1. p \in PageType
  BY DEF Shape, Held
<1>2. closing \subseteq Nat
  BY <1>1 DEF PageType
<1>3. q = [p EXCEPT !.uuid = 0, !.closing = closing]
  BY <1>1 DEF PageType
<1> HIDE DEF q, closing
<1>4. q \in PageType
  BY <1>1, <1>2, <1>3, Zenon DEF PageType
<1>5. /\ q.uuid = 0 /\ q.closing = closing /\ q.visible = p.visible /\ q.timers = p.timers
      /\ q.req = p.req /\ q.phase = p.phase /\ q.backend = p.backend /\ q.answer = p.answer
      /\ q.open = p.open /\ q.again = p.again /\ q.taken = p.taken
      /\ q.polls = p.polls /\ q.done = p.done
  BY <1>1, <1>3 DEF PageType
<1>6. Held(q)
  BY <1>4, <1>5 DEF Shape, Held, closing
<1> QED BY <1>5, <1>6 DEF Shape, Follows, q

(* ResultTimer: the session is closing whether or not the bridge hears.       *)
LEMMA ResultTimerKeeps ==
  ASSUME IInv, ResultTimer
  PROVE  PageNextInv
<1> DEFINE p == [page EXCEPT !.result = None]
           q == [p EXCEPT !.uuid = 0, !.closing = @ \cup {page.uuid}]
           r == [p EXCEPT !.uuid = 0, !.closing = @ \cup {p.uuid}]
<1>1. /\ page.result # None
      /\ \/ page' = p /\ files' = files
         \/ Busy("global") /\ FinishRequest(Succeeded(q, "global"), page.result.decision)
         \/ page' = q /\ files' = files
  BY DEF ResultTimer
<1>2. page \in PageType /\ page.result.decision \in Decisions
  BY <1>1, PageNow DEF PageType, Results
<1>3. Quiet(page, p)
  BY <1>2, ResultQuiet
<1>4. q = r
  BY <1>2 DEF PageType
<1> HIDE DEF p, q
<1>5. Shape(p)
  BY <1>3, PageNow, QuietShape
<1>6. /\ Shape(r) /\ Follows(p, r) /\ r.req = p.req
      /\ r.phase = p.phase /\ r.backend = p.backend
  BY <1>5, ClosingShape
<1>7. Shape(q) /\ Follows(page, q) /\ q.req = page.req
  <2> HIDE DEF r
  <2> QED BY <1>3, <1>4, <1>6 DEF Quiet, Stays, Follows
<1>8. CASE page' = p /\ files' = files
  BY <1>3, <1>8, QuietKeeps
<1>9. CASE page' = q /\ files' = files
  BY <1>7, <1>9, PageNow, LeavesKeeps DEF Leaves
<1>10. CASE Busy("global") /\ FinishRequest(Succeeded(q, "global"), page.result.decision)
  <2> DEFINE s == Succeeded(q, "global")
  <2>1. Shape(s) /\ Follows(q, s) /\ s.req = q.req
    BY <1>7, SucceededShape DEF Backends
  <2> HIDE DEF s, r
  <2>2. Held(s) /\ s.req # 0
    BY <1>7, <1>10, <2>1 DEF Busy, Shape
  <2>3. FinishRequest(s, page.result.decision)
    BY <1>10 DEF s
  <2>4. Leaves(s)
    BY <1>2, <2>2, <2>3, PageNow, FinishRequestLeaves
  <2>5. Leaves(page)
    BY <1>7, <2>1, <2>4 DEF Leaves, Follows
  <2> QED BY <2>5, LeavesKeeps
<1> QED BY <1>1, <1>8, <1>9, <1>10

(* CloseTimer.                                                                *)
LEMMA CloseTimerKeeps ==
  ASSUME IInv, NEW u \in page.closing, CloseTimer(u)
  PROVE  PageNextInv
<1> DEFINE closing == page.closing \ {u}
           open == page.open \ {u}
<1>1. page' = [page EXCEPT !.closing = closing, !.open = open] /\ files' = files
  BY PageNow DEF CloseTimer, PageType
<1>2. closing \subseteq Nat /\ open \subseteq Nat \ {0} /\ open \subseteq closing \cup {page.uuid}
  BY PageNow DEF PageType, Held
<1> HIDE DEF closing, open
<1>3. page' \in PageType
  BY <1>1, <1>2, PageNow, Zenon DEF PageType
<1>4. /\ page'.open = open /\ page'.closing = closing
      /\ page'.uuid = page.uuid /\ page'.visible = page.visible /\ page'.timers = page.timers
      /\ page'.req = page.req /\ page'.phase = page.phase /\ page'.backend = page.backend
      /\ page'.answer = page.answer /\ page'.again = page.again /\ page'.taken = page.taken
      /\ page'.polls = page.polls /\ page'.done = page.done
  BY <1>1, PageNow DEF PageType
<1>5. Shape(page') /\ Follows(page, page')
  BY <1>2, <1>3, <1>4, PageNow DEF Shape, Held, Follows
<1> QED BY <1>1, <1>5, PageNow, LeavesKeeps DEF Leaves

(* Every step of the page.                                                    *)
LEMMA PageNextKeeps ==
  ASSUME IInv, PageNext
  PROVE  PageNextInv
<1>1. ASSUME NEW t \in Texts, TextareaInput(t) \/ TextareaConfirm(t)
      PROVE  PageNextInv
  BY <1>1, TextareaInputKeeps, ConfirmKeeps
<1>2. ASSUME NEW c \in BOOLEAN, NEW t \in Texts,
             GlobalFinished(page.uuid, Decision(c, IF c THEN t ELSE 0))
      PROVE  PageNextInv
  BY <1>2, GlobalFinishedKeeps
<1>3. ASSUME NEW t \in Texts, TextareaCancel
      PROVE  PageNextInv
  BY <1>3, ConfirmKeeps
<1>4. CASE TextareaCancel
  BY <1>3, <1>4, KeyboardConstants
<1> QED BY <1>1, <1>2, <1>4, PollRequestKeeps, PollCompletionKeeps, CompletionTimeoutKeeps,
           ResponseRetryKeeps, FocusTimerKeeps, ProbeTimeoutKeeps, SwitchTimerKeeps,
           ReturnTimerKeeps, FocusKeeps, PageHideKeeps, PageShowKeeps, ResultTimerKeeps,
           CloseTimerKeeps DEF PageNext
-----------------------------------------------------------------------------
(* The parts of the browser's handlers.                                       *)

(* The round, the request and the document stay.                              *)
SameRound(u, v) ==
  /\ v.s.active = u.s.active /\ v.s.at = u.s.at /\ v.s.got = u.s.got /\ v.s.next = u.s.next
  /\ v.s.kind = u.s.kind /\ v.f.doc = u.f.doc

(* Reply: to this document or to none.                                        *)
LEMMA ReplyKeeps ==
  ASSUME NEW u, NEW doc, NEW cmd \in Commands, PairOK(u),
         cmd.op = "apply" => cmd.apply # None
  PROVE  LET v == Reply(u, doc, cmd) IN PairOK(v) /\ SameRound(u, v) /\ v.s = u.s
<1> DEFINE g == [u.f EXCEPT !.reply = cmd]
           v == Reply(u, doc, cmd)
<1>1. /\ u \in [s : ShellType, f : FrameType] /\ u.s.waiter <= u.f.doc
      /\ u.f \in FrameType /\ u.s \in ShellType
  BY DEF PairOK, Pairs
<1>2. g \in FrameType /\ g.doc = u.f.doc /\ g.reply = cmd
  BY <1>1 DEF FrameType
<1>3. CASE doc # u.f.doc
  <2>1. v = u
    BY <1>3 DEF Reply
  <2> HIDE DEF v
  <2> QED BY <2>1 DEF SameRound, v
<1>4. CASE doc = u.f.doc
  <2>1. v = [u EXCEPT !.f = g]
    BY <1>1, <1>4 DEF Reply
  <2> HIDE DEF v, g
  <2>2. v \in [s : ShellType, f : FrameType] /\ v.s = u.s /\ v.f = g
    BY <1>1, <1>2, <2>1
  <2>3. PairOK(v)
    BY <1>1, <1>2, <2>2 DEF PairOK, Pairs
  <2> QED BY <1>2, <2>2, <2>3 DEF SameRound, v
<1> QED BY <1>3, <1>4

(* Another session of the same round.                                         *)
LEMMA SessionKeeps ==
  ASSUME NEW u, PairOK(u), NEW s \in ShellType, s.waiter <= u.f.doc
  PROVE  LET v == [u EXCEPT !.s = s] IN PairOK(v) /\ v.s = s /\ v.f = u.f
<1> DEFINE v == [u EXCEPT !.s = s]
<1>1. u \in [s : ShellType, f : FrameType]
  BY DEF PairOK, Pairs
<1>2. v \in [s : ShellType, f : FrameType] /\ v.s = s /\ v.f = u.f
  BY <1>1
<1> HIDE DEF v
<1>3. PairOK(v)
  BY <1>2 DEF PairOK, Pairs
<1> QED BY <1>2, <1>3 DEF v

(* Dispatch.                                                                  *)
LEMMA DispatchKeeps ==
  ASSUME NEW u, PairOK(u)
  PROVE  PairOK(Dispatch(u)) /\ SameRound(u, Dispatch(u))
<1> DEFINE s == [u.s EXCEPT !.sent = u.s.queued, !.queued = None, !.waiter = 0]
           w == [u EXCEPT !.s = s]
           cmd == Command("apply", u.s.active, u.s.queued)
           v == Reply(w, u.s.waiter, cmd)
<1>1. u \in [s : ShellType, f : FrameType] /\ u.s \in ShellType /\ u.f.doc \in Nat
  BY DEF PairOK, Pairs, FrameType
<1>2. CASE u.s.queued = None \/ u.s.sent # None \/ u.s.waiter = 0
  <2>1. Dispatch(u) = u
    BY <1>2 DEF Dispatch
  <2> QED BY <2>1 DEF SameRound
<1>3. CASE ~(u.s.queued = None \/ u.s.sent # None \/ u.s.waiter = 0)
  <2>1. Dispatch(u) = v
    BY <1>1, <1>3 DEF Dispatch
  <2>2. s \in ShellType /\ s.waiter = 0
    BY <1>1 DEF ShellType
  <2>3. /\ s.active = u.s.active /\ s.at = u.s.at /\ s.got = u.s.got /\ s.next = u.s.next
        /\ s.kind = u.s.kind
    BY <1>1 DEF ShellType
  <2>4. cmd \in Commands /\ cmd.apply # None
    <3>1. u.s.queued \in Applies /\ u.s.active \in Ids \cup {0}
      BY <1>1, <1>3 DEF ShellType
    <3> QED BY <1>3, <3>1 DEF Command, Commands
  <2> HIDE DEF s, cmd
  <2>5. PairOK(w) /\ w.s = s /\ w.f = u.f
    BY <1>1, <2>2, SessionKeeps
  <2> HIDE DEF w
  <2>6. PairOK(v) /\ SameRound(w, v)
    BY <2>4, <2>5, ReplyKeeps
  <2> HIDE DEF v
  <2> QED BY <2>1, <2>3, <2>5, <2>6 DEF SameRound
<1> QED BY <1>2, <1>3

(* QueueApply.                                                                *)
LEMMA QueueApplyKeeps ==
  ASSUME NEW u, NEW a \in Applies, PairOK(u)
  PROVE  PairOK(QueueApply(u, a)) /\ SameRound(u, QueueApply(u, a))
<1> DEFINE s == [u.s EXCEPT !.queued = a]
           w == [u EXCEPT !.s = s]
<1>1. u \in [s : ShellType, f : FrameType] /\ u.s \in ShellType /\ u.s.waiter <= u.f.doc
  BY DEF PairOK, Pairs
<1>2. QueueApply(u, a) = Dispatch(w)
  BY <1>1 DEF QueueApply
<1>3. s \in ShellType
  BY <1>1 DEF ShellType
<1>4. /\ s.waiter = u.s.waiter
      /\ s.active = u.s.active /\ s.at = u.s.at /\ s.got = u.s.got /\ s.next = u.s.next
      /\ s.kind = u.s.kind
  BY <1>1 DEF ShellType
<1> HIDE DEF s
<1>5. PairOK(w) /\ w.s = s /\ w.f = u.f
  BY <1>1, <1>3, <1>4, SessionKeeps
<1> HIDE DEF w
<1>6. PairOK(Dispatch(w)) /\ SameRound(w, Dispatch(w))
  BY <1>5, DispatchKeeps
<1> QED BY <1>2, <1>4, <1>5, <1>6 DEF SameRound

(* HandleUpdate.                                                              *)
LEMMA HandleUpdateKeeps ==
  ASSUME NEW u, NEW got \in Updates, PairOK(u)
  PROVE  PairOK(HandleUpdate(u, got)) /\ SameRound(u, HandleUpdate(u, got))
<1> DEFINE s == [u.s EXCEPT !.last = got.sequence, !.pending = got.text]
           w == [u EXCEPT !.s = s]
           a == Apply(got.text, got.sequence, FALSE)
<1>1. u \in [s : ShellType, f : FrameType] /\ u.s \in ShellType /\ u.s.waiter <= u.f.doc
  BY DEF PairOK, Pairs
<1>2. \/ HandleUpdate(u, got) = u \/ HandleUpdate(u, got) = w
      \/ HandleUpdate(u, got) = QueueApply(w, a)
  BY <1>1 DEF HandleUpdate
<1>3. got.sequence \in Nat /\ got.text \in Texts
  BY DEF Updates
<1>4. s \in ShellType
  BY <1>1, <1>3 DEF ShellType
<1>5. /\ s.waiter = u.s.waiter
      /\ s.active = u.s.active /\ s.at = u.s.at /\ s.got = u.s.got /\ s.next = u.s.next
      /\ s.kind = u.s.kind
  BY <1>1 DEF ShellType
<1>6. a \in Applies
  BY <1>3 DEF Apply, Applies
<1> HIDE DEF s, a
<1>7. PairOK(w) /\ w.s = s /\ w.f = u.f
  BY <1>1, <1>4, <1>5, SessionKeeps
<1> HIDE DEF w
<1>8. SameRound(u, u) /\ SameRound(u, w)
  BY <1>5, <1>7 DEF SameRound
<1>9. PairOK(QueueApply(w, a)) /\ SameRound(w, QueueApply(w, a))
  BY <1>6, <1>7, QueueApplyKeeps
<1>10. SameRound(u, QueueApply(w, a))
  BY <1>8, <1>9 DEF SameRound
<1> QED BY <1>2, <1>7, <1>8, <1>9, <1>10
(* The messages that are under way come from this document or an older one.   *)
LEMMA WireKeeps ==
  ASSUME NEW w, NEW doc \in Nat, WireOK(w, doc)
  PROVE  /\ w # <<>> => /\ WireOK(Tail(w), doc)
                        /\ Head(w) \in Messages /\ Head(w).doc <= doc
         /\ \A m \in Messages : m.doc <= doc => WireOK(Append(w, m), doc)
         /\ WireOK(w, doc + 1) /\ WireOK(<<>>, doc + 1)
<1>1. w \in Seq(Messages) /\ Len(w) \in Nat /\ \A i \in 1..Len(w) : w[i].doc <= doc
  BY DEF WireOK
<1>2. ASSUME w # <<>>
      PROVE  WireOK(Tail(w), doc) /\ Head(w) \in Messages /\ Head(w).doc <= doc
  <2>1. /\ Head(w) = w[1] /\ Len(w) > 0
        /\ Tail(w) \in Seq(Messages) /\ Len(Tail(w)) = Len(w) - 1
        /\ \A i \in 1..Len(Tail(w)) : Tail(w)[i] = w[i + 1]
    BY <1>1, <1>2, HeadTailProperties, EmptySeq, LenProperties
  <2>2. w[1] \in Messages /\ w[1].doc <= doc
    BY <1>1, <2>1
  <2>3. \A i \in 1..Len(Tail(w)) : Tail(w)[i].doc <= doc
    BY <1>1, <2>1
  <2> QED BY <2>1, <2>2, <2>3 DEF WireOK
<1>3. ASSUME NEW m \in Messages, m.doc <= doc
      PROVE  WireOK(Append(w, m), doc)
  <2>1. /\ Append(w, m) \in Seq(Messages) /\ Len(Append(w, m)) = Len(w) + 1
        /\ \A i \in 1..Len(w) : Append(w, m)[i] = w[i]
        /\ Append(w, m)[Len(w) + 1] = m
    BY <1>1, AppendProperties
  <2>2. \A i \in 1..Len(Append(w, m)) : Append(w, m)[i].doc <= doc
    BY <1>1, <1>3, <2>1
  <2> QED BY <2>1, <2>2 DEF WireOK
<1>4. WireOK(w, doc + 1)
  <2>1. ASSUME NEW i \in 1..Len(w)
        PROVE  w[i].doc <= doc + 1
    <3>1. w[i] \in Messages
      BY <1>1
    <3>2. w[i].doc \in Nat
      BY <3>1 DEF Messages
    <3> QED BY <1>1, <3>2
  <2> QED BY <1>1, <2>1 DEF WireOK
<1>5. WireOK(<<>>, doc + 1)
  BY DEF WireOK
<1> QED BY <1>2, <1>3, <1>4, <1>5

(* What is reported or removed changes no request but its own.                *)
LEMMA FilesTyped ==
  ASSUME NEW f \in FilesType, NEW i \in Ids, NEW st \in Statuses \cup {""}
  PROVE  /\ [f EXCEPT !.status[i] = st] \in FilesType
         /\ [f EXCEPT !.status[i] = st].request = f.request
         /\ [f EXCEPT !.update[i] = None] \in FilesType
         /\ [f EXCEPT !.update[i] = None].request = f.request
         /\ [f EXCEPT !.ok[i] = None, !.cancel = @ \ {i}] \in FilesType
         /\ [f EXCEPT !.ok[i] = None, !.cancel = @ \ {i}].request = f.request
         /\ [f EXCEPT !.request = i] \in FilesType
         /\ [f EXCEPT !.request = i].request = i
<1>1. /\ [f EXCEPT !.status[i] = st] \in FilesType
      /\ [f EXCEPT !.status[i] = st].request = f.request
  BY DEF FilesType
<1>2. /\ [f EXCEPT !.update[i] = None] \in FilesType
      /\ [f EXCEPT !.update[i] = None].request = f.request
  BY DEF FilesType
<1>3. /\ [f EXCEPT !.ok[i] = None, !.cancel = @ \ {i}] \in FilesType
      /\ [f EXCEPT !.ok[i] = None, !.cancel = @ \ {i}].request = f.request
  BY DEF FilesType
<1>4. /\ [f EXCEPT !.request = i] \in FilesType
      /\ [f EXCEPT !.request = i].request = i
  BY DEF FilesType
<1> QED BY <1>1, <1>2, <1>3, <1>4

(* Cleared: the request and its files are gone.                               *)
LEMMA ClearedTyped ==
  ASSUME files \in FilesType
  PROVE  Cleared(files) \in FilesType /\ Cleared(files).request = 0
<1> DEFINE i == shell.active
           update == [files.update EXCEPT ![i] = None]
           ok == [files.ok EXCEPT ![i] = None]
           cancel == files.cancel \ {i}
<1>1. Cleared(files) = [files EXCEPT !.request = 0, !.update = update, !.ok = ok,
                                     !.cancel = cancel]
  BY DEF Cleared, FilesType
<1>2. /\ update \in [Ids -> Updates \cup {None}] /\ ok \in [Ids -> Updates \cup {None}]
      /\ cancel \subseteq Ids
  BY DEF FilesType
<1> HIDE DEF update, ok, cancel
<1> QED BY <1>1, <1>2 DEF FilesType
-----------------------------------------------------------------------------
(* The actions of the browser and of the script.                              *)

NextInv ==
  /\ Shape(page') /\ files' \in FilesType /\ TakenOK(page', files'.request, shell'.next)
  /\ PairOK([s |-> shell', f |-> frame']) /\ WireOK(wire', frame'.doc)
  /\ RoundOK(shell', files'.request)

(* What the invariant says of the browser and the script.                     *)
LEMMA BrowserNow ==
  ASSUME IInv
  PROVE  /\ shell \in ShellType /\ frame \in FrameType /\ PairOK(Now)
         /\ frame.doc \in Nat /\ shell.waiter <= frame.doc
         /\ WireOK(wire, frame.doc) /\ RoundOK(shell, files.request)
         /\ shell.active \in Ids \cup {0} /\ shell.next \in Nat \ {0}
         /\ Now.s = shell /\ Now.f = frame
<1>1. PairOK(Now) /\ WireOK(wire, frame.doc) /\ RoundOK(shell, files.request)
  BY DEF IInv, BrowserInv
<1>2. Now.s = shell /\ Now.f = frame
  BY DEF Now
<1>3. shell \in ShellType /\ frame \in FrameType /\ shell.waiter <= frame.doc
  BY <1>1, <1>2 DEF PairOK, Pairs
<1> QED BY <1>1, <1>2, <1>3 DEF ShellType, FrameType

(* A pair is its two parts.                                                   *)
LEMMA PairAgain ==
  ASSUME NEW u, PairOK(u)
  PROVE  PairOK([s |-> u.s, f |-> u.f]) /\ u.s \in ShellType /\ u.f \in FrameType
<1>1. u \in [s : ShellType, f : FrameType]
  BY DEF PairOK, Pairs
<1>2. [s |-> u.s, f |-> u.f] = u
  BY <1>1
<1> QED BY <1>1, <1>2

(* A session that goes on.                                                    *)
LEMMA SameSession ==
  ASSUME IInv, NEW u, PairOK(u), u.s.active = shell.active, u.s.next = shell.next,
         u.f.doc = frame.doc, u.s.at = "update" => u.s.got # None,
         u.s.kind = shell.kind, u.s.at # "idle" => shell.active # 0,
         Becomes(u), page' = page, files' \in FilesType, files'.request = files.request,
         WireOK(wire', frame.doc)
  PROVE  NextInv
<1>1. shell' = u.s /\ frame' = u.f
  BY DEF Becomes
<1>2. PairOK([s |-> shell', f |-> frame'])
  BY <1>1, PairAgain
<1>3. RoundOK(shell', files'.request)
  BY <1>1, BrowserNow DEF RoundOK
<1> QED BY <1>1, <1>2, <1>3, PageNow DEF NextInv

(* Finish: the request is over for the browser, its files are not gone yet.   *)
LEMMA FinishKeeps ==
  ASSUME IInv, NEW u, PairOK(u), NEW st \in Statuses, u.s.active = shell.active,
         u.s.next = shell.next, u.s.kind = shell.kind, u.f.doc = frame.doc,
         shell.active # 0,
         Finish(u, st), page' = page, WireOK(wire', frame.doc)
  PROVE  NextInv
<1> DEFINE s == [u.s EXCEPT !.waiter = 0]
           w == [u EXCEPT !.s = s]
           cmd == Command("complete", u.s.active, None)
           r == Reply(w, u.s.waiter, cmd)
           v == IF u.s.waiter = 0 THEN u ELSE r
           t == [v.s EXCEPT !.at = "clear"]
<1>1. u \in [s : ShellType, f : FrameType] /\ u.s \in ShellType /\ u.f.doc \in Nat
  BY DEF PairOK, Pairs, FrameType
<1>2. /\ shell' = t /\ frame' = v.f
      /\ files' = [files EXCEPT !.status[u.s.active] = st]
  BY <1>1 DEF Finish
<1>3. /\ s \in ShellType /\ s.waiter = 0 /\ s.active = u.s.active /\ s.next = u.s.next
      /\ s.kind = u.s.kind
  BY <1>1 DEF ShellType
<1>4. cmd \in Commands /\ cmd.op = "complete"
  <2>1. u.s.active \in Ids \cup {0}
    BY <1>1 DEF ShellType
  <2> QED BY <2>1 DEF Command, Commands
<1> HIDE DEF s, cmd
<1>5. PairOK(w) /\ w.s = s /\ w.f = u.f
  BY <1>1, <1>3, SessionKeeps
<1> HIDE DEF w
<1>6. PairOK(r) /\ SameRound(w, r)
  BY <1>4, <1>5, ReplyKeeps
<1> HIDE DEF r
<1>7. /\ PairOK(v) /\ v.s.active = u.s.active /\ v.s.next = u.s.next /\ v.f.doc = u.f.doc
      /\ v.s.kind = u.s.kind
  BY <1>3, <1>5, <1>6 DEF SameRound
<1> HIDE DEF v
<1>8. v.s \in ShellType /\ v.f \in FrameType /\ v.s.waiter <= v.f.doc
  BY <1>7 DEF PairOK, Pairs
<1>9. /\ t \in ShellType /\ t.waiter = v.s.waiter /\ t.active = v.s.active
      /\ t.next = v.s.next /\ t.kind = v.s.kind /\ t.at = "clear"
  BY <1>8 DEF ShellType
<1> HIDE DEF t
<1> DEFINE x == [v EXCEPT !.s = t]
<1>10. PairOK(x) /\ x.s = t /\ x.f = v.f
  BY <1>7, <1>8, <1>9, SessionKeeps
<1> HIDE DEF x
<1>11. Becomes(x)
  BY <1>2, <1>10 DEF Becomes
<1>12. files' \in FilesType /\ files'.request = files.request
  <2>1. shell.active \in Ids
    BY BrowserNow
  <2>2. files' = [files EXCEPT !.status[shell.active] = st]
    BY <1>2
  <2>3. files \in FilesType /\ st \in Statuses \cup {""}
    BY PageNow
  <2> QED BY <2>1, <2>2, <2>3, FilesTyped
<1>13. /\ x.s.active = shell.active /\ x.s.next = shell.next /\ x.f.doc = frame.doc
       /\ x.s.kind = shell.kind /\ x.s.at = "clear"
  BY <1>7, <1>9, <1>10
<1> QED BY <1>10, <1>11, <1>12, <1>13, SameSession
(* A new request has a number that was never taken.                           *)
LEMMA AskKeeps ==
  ASSUME IInv, Between, MayAsk, NEW kind \in {"web_input", "address"},
         shell' = Asked(kind), files' = [files EXCEPT !.request = shell.next],
         PairOK([s |-> shell, f |-> frame']), frame'.doc = frame.doc, page' = page,
         WireOK(wire', frame.doc)
  PROVE  NextInv
<1> DEFINE n == shell.next
           m == n + 1
           s == Asked(kind)
           u == [s |-> shell, f |-> frame']
<1>1. n \in Ids /\ n \in Nat /\ m \in Nat \ {0} /\ n < m
  BY Numbers DEF MayAsk
<1>2. s = [shell EXCEPT !.next = m, !.active = n, !.kind = kind, !.last = 0, !.pending = None]
  BY BrowserNow DEF Asked, ShellType
<1> HIDE DEF m, n, s
<1>3. s \in ShellType
  BY <1>1, <1>2, BrowserNow DEF ShellType
<1>4. /\ s.next = m /\ s.active = n /\ s.at = shell.at /\ s.waiter = shell.waiter
  BY <1>2, BrowserNow DEF ShellType
<1>5. s.at = "idle" /\ s.waiter <= frame'.doc
  BY <1>4, BrowserNow DEF Between
<1> DEFINE v == [u EXCEPT !.s = s]
<1>6. PairOK(v) /\ v.s = s /\ v.f = frame'
  BY <1>3, <1>5, SessionKeeps
<1> HIDE DEF v
<1>7. PairOK([s |-> shell', f |-> frame'])
  BY <1>6, PairAgain DEF s
<1>8. files' \in FilesType /\ files'.request = n
  BY <1>1, PageNow, FilesTyped DEF n
<1>9. TakenOK(page, n, m)
  <2>1. \A i \in page.taken : i < n
    BY PageNow DEF TakenOK, n
  <2>2. page.taken \subseteq Nat
    BY PageNow, Numbers DEF PageType
  <2>3. \A i \in page.taken : i < m
    BY <1>1, <2>1, <2>2
  <2>4. n \notin page.taken
    BY <1>1, <2>1
  <2> QED BY <1>1, <2>3, <2>4 DEF TakenOK
<1>10. RoundOK(s, n)
  BY <1>1, <1>4, <1>5, Numbers DEF RoundOK
<1>11. shell' = s
  BY DEF s
<1> QED BY <1>4, <1>7, <1>8, <1>9, <1>10, <1>11, PageNow DEF NextInv

(* ChromeAsks.                                                                *)
LEMMA ChromeAsksKeeps ==
  ASSUME IInv, ChromeAsks
  PROVE  NextInv
<1>1. /\ Between /\ MayAsk /\ shell' = Asked("address")
      /\ files' = [files EXCEPT !.request = shell.next]
      /\ page' = page /\ frame' = frame /\ wire' = wire
  BY DEF ChromeAsks, PageStays
<1>2. PairOK([s |-> shell, f |-> frame'])
  BY <1>1, BrowserNow DEF Now
<1> QED BY <1>1, <1>2, BrowserNow, AskKeeps

(* A message of this document.                                                *)
LEMMA PostKeeps ==
  ASSUME IInv, NEW op \in {"open", "wait"}, NEW id \in Ids \cup {0},
         NEW ack \in Acks \cup {None}, Post(op, id, ack)
  PROVE  WireOK(wire', frame.doc)
<1> DEFINE m == [doc |-> frame.doc, op |-> op, id |-> id, ack |-> ack]
<1>1. m \in Messages /\ m.doc <= frame.doc
  BY BrowserNow DEF Messages
<1>2. wire' = Append(wire, m)
  BY DEF Post
<1> HIDE DEF m
<1> QED BY <1>1, <1>2, BrowserNow, WireKeeps

(* The frame and the wire change, the session does not.                       *)
LEMMA FrameKeeps ==
  ASSUME IInv, NEW f \in FrameType, frame' = f, f.doc = frame.doc,
         f.reply # None /\ f.reply.op = "apply" => f.reply.apply # None,
         page' = page, files' = files, shell' = shell, WireOK(wire', frame.doc)
  PROVE  NextInv
<1>1. PairOK([s |-> shell', f |-> frame'])
  BY BrowserNow DEF PairOK, Pairs
<1> QED BY <1>1, BrowserNow, PageNow DEF NextInv

(* FrameAsks.                                                                 *)
LEMMA FrameAsksKeeps ==
  ASSUME IInv, FrameAsks
  PROVE  NextInv
<1> DEFINE f == [frame EXCEPT !.busy = TRUE]
<1>1. frame' = f /\ Post("open", 0, None) /\ page' = page /\ files' = files /\ shell' = shell
  BY DEF FrameAsks, PageStays
<1>2. f \in FrameType /\ f.doc = frame.doc /\ f.reply = frame.reply
  BY BrowserNow DEF FrameType
<1> HIDE DEF f
<1>3. f.reply # None /\ f.reply.op = "apply" => f.reply.apply # None
  BY <1>2, BrowserNow DEF PairOK
<1>4. WireOK(wire', frame.doc)
  BY <1>1, PostKeeps
<1> QED BY <1>1, <1>2, <1>3, <1>4, FrameKeeps

(* HandleOpen.                                                                *)
LEMMA HandleOpenKeeps ==
  ASSUME IInv, HandleOpen
  PROVE  NextInv
<1> DEFINE doc == Head(wire).doc
           yes == Command("opened", shell.next, None)
           no == Command("rejected", 0, None)
           v == Reply(Now, doc, yes)
           w == Reply(Now, doc, no)
<1>1. /\ Between /\ wire # <<>> /\ wire' = Tail(wire) /\ page' = page
      /\ \/ /\ MayAsk /\ shell' = Asked("web_input")
            /\ files' = [files EXCEPT !.request = shell.next]
            /\ frame' = v.f
         \/ frame' = w.f /\ shell' = shell /\ files' = files
  BY DEF HandleOpen, PageStays
<1>2. WireOK(wire', frame.doc)
  BY <1>1, BrowserNow, WireKeeps
<1>3. no \in Commands /\ no.op = "rejected"
  BY DEF Command, Commands
<1>4. MayAsk => yes \in Commands /\ yes.op = "opened"
  BY DEF Command, Commands, MayAsk
<1> HIDE DEF yes, no, doc
<1>5. PairOK(w) /\ w.s = shell /\ w.f.doc = frame.doc
  BY <1>3, BrowserNow, ReplyKeeps DEF SameRound
<1>6. MayAsk => PairOK(v) /\ v.s = shell /\ v.f.doc = frame.doc
  BY <1>4, BrowserNow, ReplyKeeps DEF SameRound
<1> HIDE DEF v, w
<1>7. CASE /\ MayAsk /\ shell' = Asked("web_input")
           /\ files' = [files EXCEPT !.request = shell.next]
           /\ frame' = v.f
  <2>1. PairOK([s |-> shell, f |-> frame']) /\ frame'.doc = frame.doc
    BY <1>6, <1>7, PairAgain
  <2> QED BY <1>1, <1>2, <1>7, <2>1, AskKeeps
<1>8. CASE frame' = w.f /\ shell' = shell /\ files' = files
  <2>1. /\ w.f \in FrameType
        /\ w.f.reply # None /\ w.f.reply.op = "apply" => w.f.reply.apply # None
    BY <1>5 DEF PairOK, Pairs
  <2> QED BY <1>1, <1>2, <1>5, <1>8, <2>1, FrameKeeps
<1> QED BY <1>1, <1>7, <1>8
(* One field of the session changes.                                          *)
LEMMA FieldKeeps ==
  ASSUME NEW u, PairOK(u), NEW w \in 0..u.f.doc, NEW sent \in Applies \cup {None}
  PROVE  /\ PairOK([u EXCEPT !.s.waiter = w]) /\ SameRound(u, [u EXCEPT !.s.waiter = w])
         /\ PairOK([u EXCEPT !.s.sent = sent]) /\ SameRound(u, [u EXCEPT !.s.sent = sent])
<1> DEFINE a == [u.s EXCEPT !.waiter = w]
           b == [u.s EXCEPT !.sent = sent]
           v == [u EXCEPT !.s = a]
           x == [u EXCEPT !.s = b]
<1>1. /\ u \in [s : ShellType, f : FrameType] /\ u.s \in ShellType /\ u.s.waiter <= u.f.doc
      /\ u.f.doc \in Nat
  BY DEF PairOK, Pairs, FrameType
<1>2. [u EXCEPT !.s.waiter = w] = v /\ [u EXCEPT !.s.sent = sent] = x
  BY <1>1
<1>3. w \in Nat /\ w <= u.f.doc
  BY <1>1
<1>4. a \in ShellType
  BY <1>1, <1>3 DEF ShellType
<1>5. b \in ShellType
  BY <1>1 DEF ShellType
<1>6. /\ a.waiter = w /\ b.waiter = u.s.waiter
      /\ a.active = u.s.active /\ a.at = u.s.at /\ a.got = u.s.got /\ a.next = u.s.next
      /\ a.kind = u.s.kind
      /\ b.active = u.s.active /\ b.at = u.s.at /\ b.got = u.s.got /\ b.next = u.s.next
      /\ b.kind = u.s.kind
  BY <1>1 DEF ShellType
<1> HIDE DEF a, b
<1>7. PairOK(v) /\ v.s = a /\ v.f = u.f
  BY <1>1, <1>3, <1>4, <1>6, SessionKeeps
<1>8. PairOK(x) /\ x.s = b /\ x.f = u.f
  BY <1>1, <1>5, <1>6, SessionKeeps
<1> HIDE DEF v, x
<1>9. SameRound(u, v) /\ SameRound(u, x)
  BY <1>6, <1>7, <1>8 DEF SameRound
<1> QED BY <1>2, <1>7, <1>8, <1>9

(* HandleWait: every answer goes to the document that asked, if it is here.   *)
LEMMA HandleWaitKeeps ==
  ASSUME IInv, HandleWait
  PROVE  NextInv
<1> DEFINE m == Head(wire)
           expired == Command("expired", m.id, None)
           stale == Command("stale", m.id, None)
           acked == [Now EXCEPT !.s.sent = None]
           w == [Now EXCEPT !.s.waiter = m.doc]
           wa == [acked EXCEPT !.s.waiter = m.doc]
           st == IF Verified(m.ack) THEN "confirmed" ELSE "failed"
<1>1. /\ Between /\ wire # <<>> /\ wire' = Tail(wire) /\ page' = page
      /\ \/ Becomes(Reply(Now, m.doc, expired)) /\ files' = files
         \/ Becomes(Dispatch(w)) /\ files' = files
         \/ Becomes(Reply(Now, m.doc, stale)) /\ files' = files
         \/ shell.kind = "web_input" /\ Finish(wa, st)
         \/ Becomes(Dispatch(wa)) /\ files' = files
  BY DEF HandleWait, PageStays
<1>2. WireOK(wire', frame.doc) /\ m \in Messages /\ m.doc <= frame.doc
  BY <1>1, BrowserNow, WireKeeps
<1>3. m.id \in Ids \cup {0} /\ m.doc \in 0..frame.doc
  BY <1>2, BrowserNow DEF Messages
<1>4. /\ expired \in Commands /\ expired.op = "expired"
      /\ stale \in Commands /\ stale.op = "stale"
  BY <1>3 DEF Command, Commands
<1>5. st \in Statuses
  BY DEF Statuses
<1> HIDE DEF m, expired, stale, st
<1>6. /\ PairOK(w) /\ SameRound(Now, w)
      /\ PairOK(acked) /\ SameRound(Now, acked)
  BY <1>3, BrowserNow, FieldKeeps
<1> HIDE DEF acked, w
<1>7. acked.f.doc = frame.doc
  BY <1>6, BrowserNow DEF SameRound
<1>8. PairOK(wa) /\ SameRound(acked, wa)
  BY <1>3, <1>6, <1>7, FieldKeeps
<1> HIDE DEF wa
<1>9. SameRound(Now, wa)
  BY <1>6, <1>8 DEF SameRound
<1>10. ASSUME NEW u, PairOK(u), SameRound(Now, u), Becomes(u), files' = files
       PROVE  NextInv
  <2>1. /\ u.s.active = shell.active /\ u.s.next = shell.next /\ u.f.doc = frame.doc
        /\ u.s.kind = shell.kind /\ u.s.at = "idle"
    BY <1>1, <1>10, BrowserNow DEF SameRound, Between
  <2>2. files' \in FilesType
    BY <1>10, PageNow
  <2> QED BY <1>1, <1>2, <1>10, <2>1, <2>2, SameSession
<1>11. CASE Becomes(Reply(Now, m.doc, expired)) /\ files' = files
  BY <1>4, <1>10, <1>11, BrowserNow, ReplyKeeps
<1>12. CASE Becomes(Reply(Now, m.doc, stale)) /\ files' = files
  BY <1>4, <1>10, <1>12, BrowserNow, ReplyKeeps
<1>13. CASE Becomes(Dispatch(w)) /\ files' = files
  <2>1. PairOK(Dispatch(w)) /\ SameRound(Now, Dispatch(w))
    BY <1>6, DispatchKeeps DEF SameRound
  <2> QED BY <1>10, <1>13, <2>1
<1>14. CASE Becomes(Dispatch(wa)) /\ files' = files
  <2>1. PairOK(Dispatch(wa)) /\ SameRound(Now, Dispatch(wa))
    BY <1>8, <1>9, DispatchKeeps DEF SameRound
  <2> QED BY <1>10, <1>14, <2>1
<1>15. CASE shell.kind = "web_input" /\ Finish(wa, st)
  <2>1. shell.active # 0
    BY <1>15, BrowserNow DEF RoundOK
  <2>2. /\ wa.s.active = shell.active /\ wa.s.next = shell.next /\ wa.f.doc = frame.doc
        /\ wa.s.kind = shell.kind
    BY <1>9, BrowserNow DEF SameRound
  <2> QED BY <1>1, <1>2, <1>5, <1>8, <1>15, <2>1, <2>2, FinishKeeps
<1> QED BY <1>1, <1>11, <1>12, <1>13, <1>14, <1>15
(* Another step of the round.                                                 *)
LEMMA RoundKeeps ==
  ASSUME NEW u, PairOK(u), NEW s \in ShellType, s.waiter = u.s.waiter
  PROVE  PairOK([s |-> s, f |-> u.f])
<1> DEFINE v == [u EXCEPT !.s = s]
<1>1. u.s.waiter <= u.f.doc
  BY DEF PairOK
<1>2. PairOK(v) /\ v.s = s /\ v.f = u.f
  BY <1>1, SessionKeeps
<1> HIDE DEF v
<1> QED BY <1>2, PairAgain

(* TickReads.                                                                 *)
LEMMA TickReadsKeeps ==
  ASSUME IInv, TickReads
  PROVE  NextInv
<1> DEFINE got == files.update[shell.active]
           at == IF got = None THEN "ok" ELSE "update"
           s == [shell EXCEPT !.got = got, !.at = at]
<1>1. /\ shell.active # 0 /\ shell' = s
      /\ page' = page /\ files' = files /\ frame' = frame /\ wire' = wire
  BY DEF TickReads, PageStays
<1>2. got \in Updates \cup {None}
  BY <1>1, BrowserNow, PageNow DEF FilesType
<1>3. at \in {"ok", "update"} /\ (at = "update" => got # None)
  OBVIOUS
<1> HIDE DEF got, at
<1>4. s \in ShellType
  BY <1>2, <1>3, BrowserNow DEF ShellType
<1>5. /\ s.active = shell.active /\ s.waiter = shell.waiter /\ s.next = shell.next
      /\ s.at = at /\ s.got = got
  BY BrowserNow DEF ShellType
<1> HIDE DEF s
<1>6. PairOK([s |-> s, f |-> frame])
  BY <1>4, <1>5, BrowserNow, RoundKeeps
<1>7. RoundOK(s, files.request)
  BY <1>1, <1>3, <1>5, BrowserNow DEF RoundOK
<1> QED BY <1>1, <1>5, <1>6, <1>7, BrowserNow, PageNow DEF NextInv

(* TickUpdate.                                                                *)
LEMMA TickUpdateKeeps ==
  ASSUME IInv, TickUpdate
  PROVE  NextInv
<1> DEFINE u == HandleUpdate(Now, shell.got)
           s == [u.s EXCEPT !.at = "ok", !.got = None]
           v == [u EXCEPT !.s = s]
           i == shell.active
<1>1. /\ shell.at = "update" /\ page' = page /\ wire' = wire
      /\ files' = [files EXCEPT !.update[i] = None]
      /\ Becomes([u EXCEPT !.s.at = "ok", !.s.got = None])
  BY DEF TickUpdate, PageStays
<1>2. i \in Ids /\ shell.got \in Updates
  BY <1>1, BrowserNow DEF RoundOK, ShellType
<1>3. PairOK(u) /\ SameRound(Now, u)
  BY <1>2, BrowserNow, HandleUpdateKeeps
<1> HIDE DEF u, i
<1>4. u \in [s : ShellType, f : FrameType] /\ u.s \in ShellType /\ u.s.waiter <= u.f.doc
  BY <1>3 DEF PairOK, Pairs
<1>5. [u EXCEPT !.s.at = "ok", !.s.got = None] = v
  BY <1>4
<1>6. s \in ShellType
  BY <1>4 DEF ShellType
<1>7. /\ s.active = u.s.active /\ s.waiter = u.s.waiter /\ s.next = u.s.next
      /\ s.kind = u.s.kind /\ s.at = "ok"
  BY <1>4 DEF ShellType
<1> HIDE DEF s
<1>8. PairOK(v) /\ v.s = s /\ v.f = u.f
  <2>1. s.waiter <= u.f.doc
    BY <1>4, <1>7
  <2> QED BY <1>3, <1>6, <2>1, SessionKeeps
<1> HIDE DEF v
<1>9. /\ v.s.active = shell.active /\ v.s.next = shell.next /\ v.f.doc = frame.doc
      /\ v.s.kind = shell.kind /\ v.s.at = "ok"
  BY <1>3, <1>7, <1>8, BrowserNow DEF SameRound
<1>10. files' \in FilesType /\ files'.request = files.request
  BY <1>1, <1>2, PageNow, FilesTyped
<1>11. shell.active # 0
  BY <1>2, Numbers DEF i
<1> QED BY <1>1, <1>5, <1>8, <1>9, <1>10, <1>11, BrowserNow, SameSession

(* TickOk.                                                                    *)
LEMMA TickOkKeeps ==
  ASSUME IInv, TickOk
  PROVE  NextInv
<1> DEFINE i == shell.active
           got == files.ok[i]
           text == FinalText(shell, got)
           sequence == FinalSequence(shell, got)
           rest == [files EXCEPT !.ok[i] = None, !.cancel = @ \ {i}]
           a == Apply(text, sequence, TRUE)
           s == [shell EXCEPT !.terminal = TRUE, !.at = "idle"]
           u == [Now EXCEPT !.s.terminal = TRUE, !.s.at = "idle"]
           v == [Now EXCEPT !.s = s]
           t == [shell EXCEPT !.at = "clear", !.did = text]
<1>1. /\ shell.at = "ok" /\ got # None /\ page' = page /\ wire' = wire
      /\ \/ Becomes(QueueApply(u, a)) /\ files' = rest
         \/ /\ files' = [rest EXCEPT !.status[i] = "confirmed"]
            /\ shell' = t /\ frame' = frame
  BY DEF TickOk, PageStays
<1>2. i \in Ids /\ i # 0
  BY <1>1, BrowserNow DEF RoundOK
<1>3. got \in Updates
  BY <1>1, <1>2, PageNow DEF FilesType
<1>4. text \in Texts
  <2>1. got.text \in Texts /\ shell.pending \in Texts \cup {None}
    BY <1>3, BrowserNow DEF Updates, ShellType
  <2> QED BY <2>1 DEF FinalText
<1>5. sequence \in Nat
  <2>1. got.sequence \in Nat /\ shell.last \in Nat
    BY <1>3, BrowserNow DEF Updates, ShellType
  <2> QED BY <2>1 DEF FinalSequence, Larger
<1>6. rest \in FilesType /\ rest.request = files.request
  BY <1>2, PageNow, FilesTyped DEF Statuses
<1> HIDE DEF got, text, sequence
<1>7. a \in Applies
  BY <1>4, <1>5 DEF Apply, Applies
<1> HIDE DEF rest, a, i
<1>8. CASE Becomes(QueueApply(u, a)) /\ files' = rest
  <2>1. u = v
    BY BrowserNow DEF Now
  <2>2. s \in ShellType
    BY BrowserNow DEF ShellType
  <2>3. /\ s.active = shell.active /\ s.waiter = shell.waiter /\ s.next = shell.next
        /\ s.kind = shell.kind /\ s.at = "idle"
    BY BrowserNow DEF ShellType
  <2> HIDE DEF s, t
  <2>4. PairOK(v) /\ v.s = s /\ v.f = frame
    BY <2>2, <2>3, BrowserNow, SessionKeeps
  <2> HIDE DEF u, v
  <2>5. PairOK(QueueApply(v, a)) /\ SameRound(v, QueueApply(v, a))
    BY <1>7, <2>4, QueueApplyKeeps
  <2> DEFINE w == QueueApply(v, a)
  <2>6. PairOK(w) /\ Becomes(w)
    BY <1>8, <2>1, <2>5
  <2>7. /\ w.s.active = shell.active /\ w.s.next = shell.next /\ w.f.doc = frame.doc
        /\ w.s.kind = shell.kind /\ w.s.at = "idle"
    BY <2>3, <2>4, <2>5 DEF SameRound
  <2> HIDE DEF w
  <2> QED BY <1>1, <1>6, <1>8, <2>6, <2>7, BrowserNow, SameSession
<1>9. CASE /\ files' = [rest EXCEPT !.status[i] = "confirmed"]
           /\ shell' = t /\ frame' = frame
  <2>1. t \in ShellType
    BY <1>4, BrowserNow DEF ShellType
  <2>2. /\ t.active = shell.active /\ t.waiter = shell.waiter /\ t.next = shell.next
        /\ t.at = "clear"
    BY BrowserNow DEF ShellType
  <2> HIDE DEF s, t
  <2>3. PairOK([s |-> t, f |-> frame])
    BY <2>1, <2>2, BrowserNow, RoundKeeps
  <2>4. files' \in FilesType /\ files'.request = files.request
    <3>1. "confirmed" \in Statuses \cup {""}
      BY DEF Statuses
    <3>2. files' = [rest EXCEPT !.status[i] = "confirmed"]
      BY <1>9
    <3>3. rest \in FilesType /\ i \in Ids
      BY <1>2, <1>6
    <3>4. /\ [rest EXCEPT !.status[i] = "confirmed"] \in FilesType
          /\ [rest EXCEPT !.status[i] = "confirmed"].request = rest.request
      BY <3>1, <3>3 DEF FilesType
    <3> QED BY <1>6, <3>2, <3>4
  <2>5. RoundOK(t, files.request)
    BY <1>2, <2>2, BrowserNow DEF RoundOK, i
  <2> QED BY <1>1, <1>9, <2>2, <2>3, <2>4, <2>5, BrowserNow, PageNow DEF NextInv
<1> QED BY <1>1, <1>8, <1>9

(* TickCancel.                                                                *)
LEMMA TickCancelKeeps ==
  ASSUME IInv, TickCancel
  PROVE  NextInv
<1> DEFINE s == [shell EXCEPT !.at = "idle"]
<1>1. /\ shell.at = "ok" /\ page' = page /\ wire' = wire
      /\ \/ Finish(Now, "cancelled")
         \/ shell' = s /\ files' = files /\ frame' = frame
  BY DEF TickCancel, PageStays
<1>2. shell.active # 0
  BY <1>1, BrowserNow DEF RoundOK
<1>3. CASE Finish(Now, "cancelled")
  BY <1>1, <1>2, <1>3, BrowserNow, FinishKeeps DEF Statuses
<1>4. CASE shell' = s /\ files' = files /\ frame' = frame
  <2>1. s \in ShellType
    BY BrowserNow DEF ShellType
  <2>2. /\ s.active = shell.active /\ s.waiter = shell.waiter /\ s.next = shell.next
        /\ s.at = "idle"
    BY BrowserNow DEF ShellType
  <2> HIDE DEF s
  <2>3. PairOK([s |-> s, f |-> frame])
    BY <2>1, <2>2, BrowserNow, RoundKeeps
  <2>4. RoundOK(s, files.request)
    BY <1>2, <2>2, BrowserNow DEF RoundOK
  <2> QED BY <1>1, <1>4, <2>2, <2>3, <2>4, BrowserNow, PageNow DEF NextInv
<1> QED BY <1>1, <1>3, <1>4

(* The two minutes are over, or a navigation starts.                          *)
LEMMA EndsKeeps ==
  ASSUME IInv, Expires \/ LoadStarted
  PROVE  NextInv
<1>1. /\ shell.active # 0 /\ page' = page /\ wire' = wire
      /\ Finish(Now, "expired") \/ Finish(Now, "superseded")
  BY DEF Expires, LoadStarted, PageStays
<1> QED BY <1>1, BrowserNow, FinishKeeps DEF Statuses

(* A browser without a session and a document without a command.              *)
LEMMA NewShellOK ==
  ASSUME IInv, NEW f \in FrameType, f.reply # None => f.reply.op # "apply" \/ f.reply.apply # None
  PROVE  /\ PairOK([s |-> NoSession(shell.next), f |-> f])
         /\ \A r : RoundOK(NoSession(shell.next), r)
         /\ NoSession(shell.next).next = shell.next
<1> DEFINE s == NoSession(shell.next)
           u == [s |-> s, f |-> f]
<1>1. s \in ShellType
  BY BrowserNow DEF NoSession, ShellType
<1>2. s.next = shell.next /\ s.waiter = 0 /\ s.active = 0 /\ s.at = "idle" /\ s.kind = ""
  BY DEF NoSession
<1> HIDE DEF s
<1>3. f.doc \in Nat
  BY DEF FrameType
<1>4. PairOK(u)
  <2>1. u \in [s : ShellType, f : FrameType] /\ u.s = s /\ u.f = f
    BY <1>1
  <2> HIDE DEF u
  <2>2. 0 <= f.doc
    BY <1>3
  <2>3. u.s.waiter <= u.f.doc
    BY <1>2, <2>1, <2>2
  <2> QED BY <2>1, <2>3 DEF PairOK, Pairs
<1>5. \A r : RoundOK(s, r)
  BY <1>2 DEF RoundOK
<1> QED BY <1>2, <1>4, <1>5 DEF s
(* No request is not a request that was taken.                                *)
LEMMA NoRequest ==
  ASSUME IInv, NEW p, p.taken = page.taken
  PROVE  TakenOK(p, 0, shell.next)
<1>1. 0 \notin page.taken
  BY PageNow, Numbers DEF PageType
<1>2. \A i \in page.taken : i < shell.next
  BY PageNow DEF TakenOK
<1>3. shell.next \in Nat \ {0}
  BY BrowserNow
<1>4. 0 < shell.next
  BY <1>3
<1> QED BY <1>1, <1>2, <1>4 DEF TakenOK

(* ClearActive.                                                               *)
LEMMA ClearActiveKeeps ==
  ASSUME IInv, ClearActive
  PROVE  NextInv
<1> DEFINE s == NoSession(shell.next)
<1>1. /\ files' = Cleared(files) /\ shell' = s
      /\ page' = page /\ frame' = frame /\ wire' = wire
  BY DEF ClearActive, PageStays
<1>2. files' \in FilesType /\ files'.request = 0
  BY <1>1, PageNow, ClearedTyped
<1>3. frame.reply # None => frame.reply.op # "apply" \/ frame.reply.apply # None
  BY BrowserNow DEF PairOK
<1>4. PairOK([s |-> s, f |-> frame]) /\ RoundOK(s, 0) /\ s.next = shell.next
  BY <1>3, BrowserNow, NewShellOK
<1> HIDE DEF s
<1>5. TakenOK(page, 0, s.next)
  BY <1>4, NoRequest
<1> QED BY <1>1, <1>2, <1>4, <1>5, BrowserNow, PageNow DEF NextInv

(* FrameHears.                                                                *)
LEMMA FrameHearsKeeps ==
  ASSUME IInv, FrameHears
  PROVE  NextInv
<1> DEFINE c == frame.reply
           heard == [frame EXCEPT !.reply = None]
<1>1. c # None /\ page' = page /\ files' = files /\ shell' = shell
  BY DEF FrameHears, PageStays
<1>2. c \in Commands
  BY <1>1, BrowserNow DEF FrameType
<1>3. heard \in FrameType /\ heard.doc = frame.doc /\ heard.reply = None
  BY BrowserNow DEF FrameType
<1>4. WireOK(wire, frame.doc)
  BY BrowserNow
<1>5. CASE c.op = "opened"
  <2>1. frame' = heard /\ Post("wait", c.id, None)
    BY <1>5 DEF FrameHears
  <2>2. c.id \in Ids \cup {0}
    BY <1>2 DEF Commands
  <2> HIDE DEF c, heard
  <2>3. WireOK(wire', frame.doc)
    BY <2>1, <2>2, PostKeeps
  <2> QED BY <1>1, <1>3, <2>1, <2>3, FrameKeeps
<1>6. CASE c.op = "apply"
  <2>1. c.apply \in Applies
    BY <1>1, <1>2, <1>6, BrowserNow DEF Commands, PairOK
  <2>2. frame.field \in [id : Ids \cup {0}, text : Texts]
    BY BrowserNow DEF FrameType
  <2>3. /\ c.apply.text \in Texts /\ c.apply.sequence \in Nat /\ frame.field.text \in Texts
        /\ c.id \in Ids \cup {0}
    BY <1>2, <2>1, <2>2 DEF Applies, Commands
  <2>4. \E shown \in {c.apply.text, frame.field.text} :
          /\ frame' = [heard EXCEPT !.field = [id |-> c.id, text |-> shown]]
          /\ Post("wait", c.id, [sequence |-> c.apply.sequence, observed |-> shown,
                                 applied |-> shown = c.apply.text])
    BY <1>6 DEF FrameHears
  <2>5. PICK shown \in Texts :
          /\ frame' = [heard EXCEPT !.field = [id |-> c.id, text |-> shown]]
          /\ Post("wait", c.id, [sequence |-> c.apply.sequence, observed |-> shown,
                                 applied |-> shown = c.apply.text])
    BY <2>3, <2>4
  <2> DEFINE applied == shown = c.apply.text
             ack == [sequence |-> c.apply.sequence, observed |-> shown, applied |-> applied]
             field == [id |-> c.id, text |-> shown]
             f == [heard EXCEPT !.field = field]
  <2>6. Post("wait", c.id, ack) /\ frame' = f
    BY <2>5
  <2>7. applied \in BOOLEAN
    OBVIOUS
  <2> HIDE DEF c, heard, applied
  <2>8. ack \in Acks
    BY <2>3, <2>7 DEF Acks
  <2>9. field \in [id : Ids \cup {0}, text : Texts]
    BY <2>3
  <2> HIDE DEF ack, field
  <2>10. f \in FrameType /\ f.doc = frame.doc /\ f.reply = None
    BY <1>3, <2>9 DEF FrameType
  <2> HIDE DEF f
  <2>11. WireOK(wire', frame.doc)
    BY <2>3, <2>6, <2>8, PostKeeps
  <2> QED BY <1>1, <2>6, <2>10, <2>11, FrameKeeps
<1>7. CASE c.op = "stale"
  <2>1. frame' = heard /\ wire' = wire
    BY <1>7 DEF FrameHears
  <2> HIDE DEF c, heard
  <2> QED BY <1>1, <1>3, <1>4, <2>1, FrameKeeps
<1>8. CASE c.op \notin {"opened", "apply", "stale"}
  <2> DEFINE f == [heard EXCEPT !.busy = FALSE]
  <2>1. frame' = f /\ wire' = wire
    BY <1>8 DEF FrameHears
  <2> HIDE DEF c, heard
  <2>2. f \in FrameType /\ f.doc = frame.doc /\ f.reply = None
    BY <1>3 DEF FrameType
  <2> HIDE DEF f
  <2> QED BY <1>1, <1>4, <2>1, <2>2, FrameKeeps
<1> QED BY <1>5, <1>6, <1>7, <1>8
-----------------------------------------------------------------------------
(* Documents, browsers and pages that end.                                    *)

(* The next document.                                                         *)
LEMMA DocumentTyped ==
  ASSUME IInv
  PROVE  /\ Document(frame.doc + 1) \in FrameType
         /\ Document(frame.doc + 1).doc = frame.doc + 1
         /\ Document(frame.doc + 1).reply = None
<1> DEFINE n == frame.doc + 1
<1>1. n \in Nat
  BY BrowserNow
<1> HIDE DEF n
<1>2. Document(n) \in FrameType /\ Document(n).doc = n /\ Document(n).reply = None
  BY <1>1, KeyboardConstants DEF Document, FrameType
<1> QED BY <1>2 DEF n

(* A fault is counted.                                                        *)
LEMMA FaultQuiet ==
  ASSUME page \in PageType
  PROVE  Quiet(page, OneFault)
<1> DEFINE n == page.faults + 1
           q == [page EXCEPT !.faults = n]
<1>1. n \in Nat
  <2>1. page.faults \in Nat
    BY DEF PageType
  <2> HIDE DEF q
  <2> QED BY <2>1
<1>2. OneFault = q
  BY DEF OneFault, PageType
<1> HIDE DEF n
<1>3. q \in PageType
  BY <1>1, Zenon DEF PageType
<1>4. Quiet(page, q)
  BY <1>3 DEF Quiet, Stays, PageType
<1> QED BY <1>2, <1>4

(* DocumentReplaced.                                                          *)
LEMMA DocumentReplacedKeeps ==
  ASSUME IInv, DocumentReplaced
  PROVE  NextInv
<1> DEFINE f == Document(frame.doc + 1)
           n == frame.doc + 1
           u == [s |-> shell, f |-> f]
<1>1. /\ frame' = f /\ wire' \in {wire, <<>>} /\ page' = OneFault
      /\ files' = files /\ shell' = shell
  BY DEF DocumentReplaced
<1>2. f \in FrameType /\ f.doc = n /\ f.reply = None
  BY DocumentTyped
<1>3. n \in Nat /\ shell.waiter <= n
  <2>1. shell.waiter \in Nat
    BY BrowserNow DEF ShellType
  <2> QED BY <2>1, BrowserNow
<1>4. WireOK(wire', n)
  BY <1>1, BrowserNow, WireKeeps
<1> HIDE DEF f, n
<1>5. u \in Pairs /\ u.s = shell /\ u.f = f
  BY <1>2, BrowserNow DEF Pairs
<1> HIDE DEF u
<1>6. PairOK(u)
  BY <1>2, <1>3, <1>5 DEF PairOK
<1>7. Shape(page') /\ Follows(page, page')
  BY <1>1, PageNow, FaultQuiet, QuietShape
<1>8. TakenOK(page', files.request, shell.next)
  <2>1. Leaves(page)
    BY <1>1, <1>7, PageNow DEF Leaves
  <2> QED BY <1>1, <2>1, LeavesKeeps DEF PageNextInv
<1> QED BY <1>1, <1>2, <1>4, <1>6, <1>7, <1>8, BrowserNow, PageNow DEF NextInv, u
(* BrowserRestarts.                                                           *)
LEMMA BrowserRestartsKeeps ==
  ASSUME IInv, BrowserRestarts
  PROVE  NextInv
<1> DEFINE f == Document(frame.doc + 1)
           s == NoSession(shell.next)
<1>1. /\ files' = files \/ files' = Cleared(files)
      /\ shell' = s /\ frame' = f /\ wire' = <<>> /\ page' = OneFault
  BY DEF BrowserRestarts, NewShell
<1>2. f \in FrameType /\ f.doc = frame.doc + 1 /\ f.reply = None
  BY DocumentTyped
<1>3. WireOK(wire', frame.doc + 1)
  BY <1>1, BrowserNow, WireKeeps
<1> HIDE DEF f
<1>4. PairOK([s |-> s, f |-> f]) /\ (\A r : RoundOK(s, r)) /\ s.next = shell.next
  BY <1>2, NewShellOK
<1> HIDE DEF s
<1>5. Quiet(page, page')
  BY <1>1, PageNow, FaultQuiet
<1>6. Shape(page') /\ Follows(page, page')
  BY <1>5, PageNow, QuietShape
<1>7. CASE files' = files
  <2>1. Leaves(page)
    BY <1>6, <1>7, PageNow DEF Leaves
  <2>2. TakenOK(page', files'.request, shell.next)
    BY <2>1, LeavesKeeps DEF PageNextInv
  <2> QED BY <1>1, <1>2, <1>3, <1>4, <1>6, <1>7, <2>2, PageNow DEF NextInv
<1>8. CASE files' = Cleared(files)
  <2>1. files' \in FilesType /\ files'.request = 0
    BY <1>8, PageNow, ClearedTyped
  <2>2. TakenOK(page', 0, shell.next)
    BY <1>5, NoRequest DEF Quiet, Stays
  <2> QED BY <1>1, <1>2, <1>3, <1>4, <1>6, <2>1, <2>2 DEF NextInv
<1> QED BY <1>1, <1>7, <1>8

(* A page that stops polling may have taken what it does not know any more.   *)
LEMMA PollsHeld ==
  ASSUME NEW p, NEW b \in BOOLEAN, Shape(p)
  PROVE  LET q == [p EXCEPT !.polls = b]
         IN  /\ Shape(q) /\ q.taken = p.taken /\ q.done = p.done /\ q.req = p.req
             /\ q.polls = b
<1> DEFINE q == [p EXCEPT !.polls = b]
<1>1. p \in PageType
  BY DEF Shape, Held
<1>2. q \in PageType
  <2>1. CASE b = TRUE
    <3>1. [p EXCEPT !.polls = TRUE] \in PageType
      BY <1>1, Zenon DEF PageType
    <3> QED BY <2>1, <3>1
  <2>2. CASE b = FALSE
    <3>1. [p EXCEPT !.polls = FALSE] \in PageType
      BY <1>1, Zenon DEF PageType
    <3> QED BY <2>2, <3>1
  <2> QED BY <2>1, <2>2
<1>3. /\ q.polls = b /\ q.visible = p.visible /\ q.timers = p.timers /\ q.uuid = p.uuid
      /\ q.req = p.req /\ q.phase = p.phase /\ q.backend = p.backend /\ q.answer = p.answer
      /\ q.open = p.open /\ q.closing = p.closing /\ q.again = p.again
      /\ q.taken = p.taken /\ q.done = p.done
  BY <1>1 DEF PageType
<1> HIDE DEF q
<1>4. Held(q)
  BY <1>2, <1>3 DEF Shape, Held
<1> QED BY <1>3, <1>4 DEF Shape, q

(* A page that polls no more has nothing to prove about what it took.         *)
LEMMA StopsKeeps ==
  ASSUME IInv, NEW p, Shape(p), p.taken = page.taken, page' = [p EXCEPT !.polls = FALSE],
         files' \in FilesType, files'.request = files.request,
         shell' = shell, frame' = frame, wire' = wire
  PROVE  NextInv
<1> DEFINE q == [p EXCEPT !.polls = FALSE]
<1>1. Shape(q) /\ q.taken = p.taken /\ q.polls = FALSE
  BY PollsHeld
<1>2. page' = q
  OBVIOUS
<1> HIDE DEF q
<1>3. TakenOK(q, files.request, shell.next)
  BY <1>1, PageNow DEF TakenOK
<1> QED BY <1>1, <1>2, <1>3, BrowserNow DEF NextInv, Now

(* PageStops.                                                                 *)
LEMMA PageStopsKeeps ==
  ASSUME IInv, PageStops
  PROVE  NextInv
<1>1. PICK wrote \in BOOLEAN :
        LET c == CancelActive(page, files, wrote)
        IN  page' = [c.page EXCEPT !.polls = FALSE] /\ files' = c.files
  BY DEF PageStops, MayFail
<1>0. shell' = shell /\ frame' = frame /\ wire' = wire
  BY DEF PageStops
<1> DEFINE c == CancelActive(page, files, wrote)
           q == c.page
<1>2. page' = [q EXCEPT !.polls = FALSE] /\ files' = c.files
  BY <1>1
<1>3. CASE page.req = 0
  <2>1. q = CloseLocal(page) /\ c.files = files
    BY <1>3 DEF CancelActive
  <2> HIDE DEF c, q
  <2>2. /\ q \in PageType /\ ~q.visible /\ q.uuid = 0 /\ q.open = page.open \ {page.uuid}
        /\ q.timers = page.timers \ {"probe"}
        /\ q.again = page.again /\ q.backend = page.backend
        /\ q.closing = page.closing /\ q.phase = page.phase /\ q.req = page.req
        /\ q.answer = page.answer /\ q.taken = page.taken
    BY <2>1, PageNow, CloseLocalHeld
  <2>3. Shape(q)
    BY <2>2, PageNow DEF Shape, Held
  <2> QED BY <1>2, <2>1, <2>2, <2>3, PageNow, StopsKeeps, <1>0
<1>4. CASE page.req # 0
  <2> DEFINE d == Decision(FALSE, 0)
             answered == Responded(files, page, d)
  <2>1. q = Reset(page) /\ (c.files = answered \/ c.files = files)
    BY <1>4 DEF CancelActive
  <2>2. d \in Decisions
    BY KeyboardConstants DEF Decision, Decisions
  <2> HIDE DEF c, q, d
  <2>3. answered \in FilesType /\ answered.request = files.request
    BY <1>4, <2>2, PageNow, RespondedTyped
  <2> HIDE DEF answered
  <2>4. Shape(q) /\ q.taken = page.taken
    BY <2>1, PageNow, ResetShape DEF Follows
  <2> QED BY <1>0, <1>2, <2>1, <2>3, <2>4, PageNow, StopsKeeps
<1> QED BY <1>3, <1>4

(* A page that is set up.                                                     *)
LEMMA NewPageShape ==
  ASSUME NEW o \in Overrides, NEW stored \in Backends \cup {"auto"}
  PROVE  NewPage(o, stored) \in PageType /\ Shape(NewPage(o, stored))
<1> DEFINE mode == IF o = "auto" THEN stored ELSE o
           learned == o = "auto" /\ stored # "auto"
           n == NewPage(o, stored)
<1>1. o \in Backends \cup {"auto"}
  BY KeyboardConstants DEF Backends
<1>2. mode \in Backends \cup {"auto"} /\ learned \in BOOLEAN
  BY <1>1
<1>3. n = [polls |-> TRUE, phase |-> "idle", req |-> 0, backend |-> "", tried |-> {},
           sequence |-> 0, last |-> None, answer |-> None, said |-> None, tries |-> 0,
           timers |-> {}, visible |-> FALSE, focused |-> FALSE, blurred |-> FALSE,
           override |-> o, stored |-> stored, mode |-> mode, learned |-> learned,
           uuid |-> 0, uuids |-> 0, open |-> {}, closing |-> {}, result |-> None,
           done |-> {}, taken |-> {}, again |-> FALSE, faults |-> 0]
  BY DEF NewPage
<1> HIDE DEF mode, learned, n
<1>4. 0 \in 0..MaxRetries
  BY KeyboardConstants
<1>5. n \in PageType
  BY <1>2, <1>3, <1>4 DEF PageType
<1>6. /\ n.phase = "idle" /\ n.req = 0 /\ n.backend = "" /\ n.timers = {} /\ n.uuid = 0
      /\ ~n.visible /\ n.open = {} /\ ~n.again
  BY <1>3
<1>7. Held(n)
  BY <1>5, <1>6 DEF Held
<1> QED BY <1>5, <1>6, <1>7 DEF Shape, n

(* What a page that is set up again has from the one before.                  *)
LEMMA ReloadedTyped ==
  ASSUME NEW n \in PageType, NEW uuids \in Nat, NEW taken, taken \subseteq Ids,
         NEW faults \in Nat
  PROVE  [n EXCEPT !.polls = FALSE, !.uuids = uuids, !.taken = taken,
                   !.faults = faults] \in PageType
  BY Zenon DEF PageType

(* PageReloads: what was taken is forgotten, but there is no polling.         *)
LEMMA PageReloadsKeeps ==
  ASSUME IInv, PageReloads
  PROVE  NextInv
<1> DEFINE mode == IF page.override = "auto" THEN page.stored ELSE page.override
           learned == page.override = "auto" /\ page.stored # "auto"
           n == NewPage(page.override, page.stored)
           q == [n EXCEPT !.polls = FALSE, !.uuids = page.uuids, !.taken = page.taken,
                          !.faults = page.faults]
<1>1. /\ page' = q /\ files' = files /\ shell' = shell /\ frame' = frame /\ wire' = wire
  BY DEF PageReloads
<1>2. /\ page.override \in Overrides /\ page.stored \in Backends \cup {"auto"}
      /\ page.uuids \in Nat /\ page.taken \subseteq Ids /\ page.faults \in Nat
  BY PageNow DEF PageType
<1>3. n \in PageType /\ Shape(n)
  BY <1>2, NewPageShape
<1>4. /\ q \in PageType /\ q.taken = page.taken /\ q.polls = FALSE
      /\ q.visible = n.visible /\ q.timers = n.timers /\ q.uuid = n.uuid
      /\ q.req = n.req /\ q.phase = n.phase /\ q.backend = n.backend /\ q.answer = n.answer
      /\ q.open = n.open /\ q.closing = n.closing /\ q.again = n.again
  <2> HIDE DEF n, mode, learned
  <2>1. q \in PageType
    BY <1>2, <1>3, ReloadedTyped
  <2> QED BY <1>3, <2>1 DEF PageType
<1> HIDE DEF n, q
<1>5. Shape(q)
  BY <1>3, <1>4 DEF Shape, Held
<1>6. TakenOK(q, files.request, shell.next)
  BY <1>4, PageNow DEF TakenOK
<1> QED BY <1>1, <1>5, <1>6, BrowserNow, PageNow DEF NextInv, Now

(* PageStarts: the directories are empty, so nothing is taken again.          *)
LEMMA PageStartsKeeps ==
  ASSUME IInv, PageStarts
  PROVE  NextInv
<1> DEFINE f == Document(frame.doc + 1)
           s == NoSession(shell.next)
           q == [OneFault EXCEPT !.polls = TRUE]
<1>1. /\ page' = q /\ files' = NoFiles /\ shell' = s /\ frame' = f /\ wire' = <<>>
  BY DEF PageStarts, NewShell
<1>2. f \in FrameType /\ f.doc = frame.doc + 1 /\ f.reply = None
  BY DocumentTyped
<1>3. WireOK(wire', frame.doc + 1)
  BY <1>1, BrowserNow, WireKeeps
<1> HIDE DEF f
<1>4. PairOK([s |-> s, f |-> f]) /\ (\A r : RoundOK(s, r)) /\ s.next = shell.next
  BY <1>2, NewShellOK
<1> HIDE DEF s
<1>5. Shape(OneFault) /\ OneFault.taken = page.taken
  BY PageNow, FaultQuiet, QuietShape DEF Quiet, Stays
<1>6. Shape(q) /\ q.taken = page.taken
  BY <1>5, PollsHeld
<1> HIDE DEF q
<1>7. NoFiles \in FilesType /\ NoFiles.request = 0
  BY DEF NoFiles, FilesType
<1>8. TakenOK(q, 0, shell.next)
  BY <1>6, NoRequest
<1> QED BY <1>1, <1>2, <1>3, <1>4, <1>6, <1>7, <1>8 DEF NextInv
-----------------------------------------------------------------------------
(* Every step of the page, of the browser and of the script.                  *)
LEMMA StepKeeps ==
  ASSUME IInv, Step
  PROVE  NextInv
<1>1. CASE PageNext /\ Here
  <2>1. PageNextInv /\ shell' = shell /\ frame' = frame /\ wire' = wire
    BY <1>1, PageNextKeeps DEF Here
  <2> QED BY <2>1, BrowserNow DEF PageNextInv, NextInv, Now
<1>2. CASE Tick
  BY <1>2, TickReadsKeeps, TickUpdateKeeps, TickOkKeeps, TickCancelKeeps, ClearActiveKeeps
     DEF Tick
<1>3. CASE ChromeAsks \/ FrameAsks \/ HandleOpen \/ HandleWait
  BY <1>3, ChromeAsksKeeps, FrameAsksKeeps, HandleOpenKeeps, HandleWaitKeeps
<1>4. CASE Expires \/ FrameHears \/ LoadStarted \/ DocumentReplaced
  BY <1>4, EndsKeeps, FrameHearsKeeps, DocumentReplacedKeeps
<1>5. CASE BrowserRestarts \/ PageStops \/ PageReloads \/ PageStarts
  BY <1>5, BrowserRestartsKeeps, PageStopsKeeps, PageReloadsKeeps, PageStartsKeeps
<1> QED BY <1>1, <1>2, <1>3, <1>4, <1>5 DEF Step

(* The invariant is inductive.                                                *)
LEMMA Inductive ==
  ASSUME IInv, [Next]_vars
  PROVE  IInv'
<1>1. CASE Next
  <2>1. NextInv
    BY <1>1, StepKeeps DEF Next
  <2>2. PageInv'
    BY <2>1 DEF NextInv, PageInv
  <2>3. BrowserInv'
    BY <2>1 DEF NextInv, BrowserInv, Now
  <2> QED BY <2>2, <2>3 DEF IInv
<1>2. CASE UNCHANGED vars
  BY <1>2 DEF vars, IInv, PageInv, BrowserInv, Now, Shape, Held, TakenOK, PairOK, WireOK, RoundOK
<1> QED BY <1>1, <1>2

(* It holds in the beginning.                                                 *)
LEMMA Initially ==
  ASSUME Init
  PROVE  IInv
<1>1. PICK o \in Overrides : page = NewPage(o, "auto")
  BY DEF Init, PageInit
<1>2. page \in PageType /\ Shape(page) /\ page.taken = {}
  BY <1>1, NewPageShape DEF NewPage
<1>3. files \in FilesType /\ files.request = 0
  BY DEF Init, PageInit, NoFiles, FilesType
<1>4. shell \in ShellType /\ shell.next = 1 /\ shell.active = 0 /\ shell.at = "idle"
      /\ shell.kind = "" /\ shell.waiter = 0
  <2>1. shell = NoSession(1)
    BY DEF Init
  <2>2. NoSession(1) \in ShellType
    <3> DEFINE n == 1
    <3>1. n \in Nat \ {0}
      OBVIOUS
    <3> HIDE DEF n
    <3>2. NoSession(n) \in ShellType
      BY <3>1 DEF NoSession, ShellType
    <3> QED BY <3>2 DEF n
  <2> QED BY <2>1, <2>2 DEF NoSession
<1>5. frame \in FrameType /\ frame.doc = 1 /\ frame.reply = None
  BY KeyboardConstants DEF Init, Document, FrameType
<1>6. WireOK(wire, frame.doc)
  BY DEF Init, WireOK
<1>7. PageInv
  <2>1. TakenOK(page, files.request, shell.next)
    <3>1. page.taken = {} /\ files.request = 0 /\ shell.next = 1
      BY <1>2, <1>3, <1>4
    <3> QED BY <3>1 DEF TakenOK
  <2> QED BY <1>2, <1>3, <2>1 DEF PageInv
<1>8. PairOK(Now)
  <2>1. Now \in Pairs /\ Now.s = shell /\ Now.f = frame
    BY <1>4, <1>5 DEF Pairs, Now
  <2>2. shell.waiter = 0 /\ frame.doc = 1 /\ frame.reply = None
    BY <1>4, <1>5
  <2> HIDE DEF Now
  <2>3. Now.s.waiter <= Now.f.doc
    BY <2>1, <2>2
  <2> QED BY <2>1, <2>2, <2>3 DEF PairOK
<1>9. RoundOK(shell, files.request)
  BY <1>4 DEF RoundOK
<1> QED BY <1>6, <1>7, <1>8, <1>9 DEF IInv, BrowserInv

(* It implies what must be right.                                             *)
LEMMA Implied ==
  ASSUME IInv
  PROVE  OneKeyboard
<1>1. TypeOK
  <2>1. /\ page.phase \in {"idle", "opening", "active", "responding"}
        /\ page.req \in Ids \cup {0} /\ page.backend \in Backends \cup {""}
        /\ page.timers \subseteq Timers /\ page.tries \in 0..MaxRetries
        /\ page.done \cup page.taken \subseteq Ids
    BY PageNow DEF PageType
  <2>2. files.cancel \subseteq Ids /\ \A i \in Ids : files.status[i] \in Statuses \cup {""}
    BY PageNow DEF FilesType
  <2>3. shell.waiter \in 0..frame.doc
    <3>1. shell.waiter \in Nat
      BY BrowserNow DEF ShellType
    <3> QED BY <3>1, BrowserNow
  <2>4. (page.phase = "idle") = (page.req = 0)
    BY PageNow DEF Shape
  <2>5. shell.active # 0 => files.request = shell.active
    BY BrowserNow DEF RoundOK
  <2> QED BY <2>1, <2>2, <2>3, <2>4, <2>5, BrowserNow DEF TypeOK
<1>2. ~page.again /\ page.open \subseteq page.closing \cup {page.uuid}
  BY PageNow DEF Held
<1>3. ~(page.visible /\ page.uuid # 0)
  BY PageNow DEF Held
<1>4. page.phase = "idle" => ~page.visible /\ page.uuid = 0
  BY PageNow DEF Held, Shape
<1> QED BY <1>1, <1>2, <1>3, <1>4 DEF OneKeyboard
-----------------------------------------------------------------------------
(* What the page, the browser and the script know of a request agrees.        *)
THEOREM KeyboardInvariance == Spec => []IInv
<1>1. Init => IInv
  BY Initially
<1>2. IInv /\ [Next]_vars => IInv'
  BY Inductive
<1> QED BY <1>1, <1>2, PTL DEF Spec

(* A request opens a keyboard once and one of the two at a time; when it is   *)
(* over, by whatever way, its keyboard is closed or about to be               *)
(* (keyboard-bridge.js: setRequest, finishRequest, resetSession).             *)
THEOREM OneKeyboardAtATime == Spec => []OneKeyboard
<1>1. IInv => OneKeyboard
  BY Implied
<1> QED BY <1>1, KeyboardInvariance, PTL
-----------------------------------------------------------------------------
(* The text that was confirmed: what is known of the request that is active.  *)
(* w is what the user said to each request.                                   *)

(* Nothing is written about request i.                                        *)
Unasked(f, w, i) == f.update[i] = None /\ f.ok[i] = None /\ i \notin f.cancel /\ w[i] = None

(* Requests that come are not written about.                                  *)
Unborn(f, w, next) == \A i \in Ids : i >= next => Unasked(f, w, i) /\ f.status[i] = ""

(* The page knows what the user said, once he did, and what it has to write.  *)
Speaks(p) ==
  /\ IF p.phase = "responding" THEN p.said \in Decisions /\ p.answer \in {p.said, None}
     ELSE p.said = None
  /\ p.req # 0 => p.req \in p.taken

Upto(u, n) == u # None => u.sequence <= n

(* The files of request a against what the user said, and the texts against   *)
(* the one he confirmed: n is the number of the last text that was read, got  *)
(* what was read and not yet handled.                                         *)
Answering(p, f, w, a, n, got) ==
  /\ a \notin p.taken => Unasked(f, w, a) /\ got = None /\ n = 0
  /\ p.req = a =>
       /\ w[a] = p.said
       /\ p.phase # "responding" \/ p.answer # None => f.ok[a] = None /\ a \notin f.cancel
       /\ n <= p.sequence /\ Upto(f.update[a], p.sequence) /\ Upto(got, p.sequence)
  /\ f.ok[a] # None =>
       /\ w[a] # None /\ w[a].confirmed /\ w[a].text = f.ok[a].text
       /\ n <= f.ok[a].sequence
       /\ Upto(f.update[a], f.ok[a].sequence) /\ Upto(got, f.ok[a].sequence)
  /\ a \in f.cancel => w[a] = None \/ ~w[a].confirmed

AskingWith(p, f, w, s) ==
  /\ w \in [Ids -> Decisions \cup {None}] /\ Speaks(p) /\ Unborn(f, w, s.next)
  /\ s.active # 0 => Answering(p, f, w, s.active, s.last, s.got)

(* The script of the document hears that it may go on with request i, or has  *)
(* said that it waits, in message n.                                          *)
Hears(fr, i) == fr.reply # None /\ fr.reply.op \in {"opened", "apply"} /\ fr.reply.id = i
Waits(wr, i, n) == n \in 1..Len(wr) /\ wr[n].op = "wait" /\ wr[n].id = i

(* One of the two has the turn, so that an answer is about what the field     *)
(* shows.                                                                     *)
OneTurn(s, fr, wr, a) ==
  /\ s.waiter # 0 \/ Hears(fr, a) => \A n \in Nat : ~Waits(wr, a, n)
  /\ s.waiter # 0 => ~Hears(fr, a)
  /\ \A n, m \in Nat : Waits(wr, a, n) /\ Waits(wr, a, m) => n = m
  /\ \A n \in Nat : Waits(wr, a, n) /\ wr[n].ack # None /\ fr.field.id = a =>
       fr.field.text = wr[n].ack.observed
  /\ s.kind # "web_input" =>
       s.waiter = 0 /\ ~Hears(fr, a) /\ (\A n \in Nat : ~Waits(wr, a, n)) /\ fr.field.id # a

(* A text that is committed is the one that was confirmed.                    *)
Final(x, d) == x # None /\ x.commit => d # None /\ d.confirmed /\ x.text = d.text

Rested(s) ==
  s.active = 0 => s.got = None /\ s.waiter = 0 /\ s.queued = None /\ s.sent = None

(* Only requests that were given are spoken of.                               *)
Named(fr, wr, next) ==
  /\ fr.reply # None => fr.reply.id < next
  /\ fr.field.id < next
  /\ \A n \in 1..Len(wr) : wr[n].id < next

(* Nothing is applied for a request whose confirmation was reported; of the   *)
(* active one nothing was.                                                    *)
Reporting(s, fr, f) ==
  /\ \A i \in Ids : f.status[i] = "confirmed" =>
       ~(fr.reply # None /\ fr.reply.op = "apply" /\ fr.reply.id = i)
  /\ s.active # 0 /\ s.at # "clear" => f.status[s.active] = ""

TurnsWith(s, fr, wr, f, w) ==
  /\ Rested(s) /\ Named(fr, wr, s.next) /\ Reporting(s, fr, f)
  /\ s.active # 0 =>
       OneTurn(s, fr, wr, s.active) /\ Final(s.queued, w[s.active]) /\ Final(s.sent, w[s.active])

Asking == AskingWith(page, files, said, shell)
Turns == TurnsWith(shell, frame, wire, files, said)
TextInv == Asking /\ Turns

(* What is to be shown of a step.                                             *)
Landing ==
  \A i \in Ids :
    /\ Reported(i, "confirmed") =>
         /\ said[i] # None /\ said[i].confirmed
         /\ shell.kind = "address" => shell'.did = said[i].text
         /\ frame.field.id = i => frame.field.text = said[i].text
    /\ Reported(i, "cancelled") => said[i] = None \/ ~said[i].confirmed
    /\ files.status[i] = "confirmed" /\ frame'.field.id = i => frame'.field = frame.field
-----------------------------------------------------------------------------
(* What the parts of the page's handlers do to the answer.                    *)

(* The request, what was said to it and the number of its text are the same.  *)
SameWord(p, q) ==
  /\ q.req = p.req /\ q.said = p.said /\ q.sequence = p.sequence /\ q.taken = p.taken
Alike(p, q) == SameWord(p, q) /\ q.phase = p.phase /\ q.answer = p.answer

(* CloseTextarea, CloseSession, CloseLocal.                                   *)
LEMMA CloseAlike ==
  ASSUME NEW p \in PageType
  PROVE  /\ Alike(p, CloseTextarea(p)) /\ Alike(p, CloseSession(p)) /\ Alike(p, CloseLocal(p))
         /\ CloseTextarea(p) \in PageType /\ CloseSession(p) \in PageType
         /\ CloseLocal(p) \in PageType
<1>1. Alike(p, CloseTextarea(p))
  BY DEF CloseTextarea, PageType, Alike, SameWord
<1>2. ASSUME NEW q \in PageType
      PROVE  Alike(q, CloseSession(q))
  BY <1>2 DEF CloseSession, PageType, Alike, SameWord
<1>3. CloseTextarea(p) \in PageType /\ CloseSession(p) \in PageType
  BY CloseTextareaHeld, CloseSessionHeld
<1>4. Alike(CloseSession(p), CloseLocal(p)) /\ CloseLocal(p) \in PageType
  <2> DEFINE s == CloseSession(p)
  <2>1. s \in PageType
    BY <1>3
  <2>2. CloseLocal(p) = CloseTextarea(s)
    BY DEF CloseLocal
  <2> HIDE DEF s
  <2>3. CloseTextarea(s) \in PageType
    BY <2>1, CloseTextareaHeld
  <2>4. Alike(s, CloseTextarea(s))
    BY <2>1 DEF CloseTextarea, PageType, Alike, SameWord
  <2> QED BY <2>2, <2>3, <2>4 DEF s
<1>5. Alike(p, CloseSession(p))
  BY <1>2
<1> QED BY <1>1, <1>3, <1>4, <1>5 DEF Alike, SameWord

(* Reset: no request, so no word of it.                                       *)
GivenUp(p, q) ==
  /\ q.req = 0 /\ q.phase = "idle" /\ q.said = None /\ q.taken = p.taken

LEMMA ResetGivesUp ==
  ASSUME NEW p \in PageType
  PROVE  GivenUp(p, Reset(p))
<1> DEFINE l == CloseLocal(p)
<1>1. l \in PageType /\ Alike(p, l)
  BY CloseAlike
<1> HIDE DEF l
<1>2. /\ Reset(p).req = 0 /\ Reset(p).phase = "idle" /\ Reset(p).said = None
      /\ Reset(p).taken = l.taken
  BY <1>1 DEF Reset, PageType, l
<1> QED BY <1>1, <1>2 DEF GivenUp, Alike, SameWord

(* Succeeded.                                                                 *)
LEMMA SucceededAlike ==
  ASSUME NEW p \in PageType, NEW b
  PROVE  Alike(p, Succeeded(p, b))
BY DEF Succeeded, PageType, Alike, SameWord

(* Failed.                                                                    *)
LEMMA FailedAlike ==
  ASSUME NEW p \in PageType
  PROVE  Alike(p, Failed(p))
<1> DEFINE stored == IF p.override = "auto" /\ p.stored = p.backend THEN "auto" ELSE p.stored
           faults == p.faults + 1
           q == [p EXCEPT !.faults = faults, !.stored = stored]
<1>1. faults \in Nat
  <2>1. p.faults \in Nat
    BY DEF PageType
  <2> HIDE DEF q
  <2> QED BY <2>1
<1>2. stored \in Backends \cup {"auto"}
  <2>1. p.stored \in Backends \cup {"auto"}
    BY DEF PageType
  <2> HIDE DEF q, faults
  <2> QED BY <2>1
<1>3. Failed(p) = IF p.backend = "global" THEN CloseSession(q) ELSE CloseTextarea(q)
  BY DEF Failed, PageType
<1> HIDE DEF stored, faults
<1>4. q \in PageType
  BY <1>1, <1>2 DEF PageType
<1>5. Alike(p, q)
  BY DEF PageType, Alike, SameWord
<1> HIDE DEF q
<1>6. Alike(q, CloseSession(q)) /\ Alike(q, CloseTextarea(q))
  BY <1>4, CloseAlike
<1> QED BY <1>3, <1>5, <1>6 DEF Alike, SameWord

(* Answered: what the user said is the answer.                                *)
LEMMA AnsweredWord ==
  ASSUME NEW p \in PageType, NEW d \in Decisions
  PROVE  LET q == Answered(p, d)
         IN  /\ q.req = p.req /\ q.taken = p.taken /\ q.phase = "responding"
             /\ q.said = d /\ q.answer = d /\ q.sequence >= p.sequence
<1> DEFINE new == d.confirmed /\ d.text # p.last
           sequence == IF new THEN p.sequence + 1 ELSE p.sequence
           q == Answered(p, d)
<1>1. /\ q.req = p.req /\ q.taken = p.taken /\ q.phase = "responding"
      /\ q.said = d /\ q.answer = d
  BY DEF Answered, PageType
<1>2. q.sequence = sequence
  BY DEF Answered, PageType
<1>3. sequence >= p.sequence
  <2>1. p.sequence \in Nat
    BY DEF PageType
  <2> HIDE DEF q, new
  <2> QED BY <2>1
<1> QED BY <1>1, <1>2, <1>3

(* An answer that was written is not to be written again.                     *)
LEMMA WrittenTyped ==
  ASSUME NEW p \in PageType
  PROVE  [p EXCEPT !.answer = None, !.tries = 0] \in PageType
<1>1. 0 \in 0..MaxRetries
  BY KeyboardConstants
<1> QED BY <1>1 DEF PageType

(* Published: the answer was written, or is to be tried again, or given up.   *)
LEMMA PublishedWord ==
  ASSUME NEW p \in PageType, NEW wrote \in BOOLEAN
  PROVE  LET q == Published(p, wrote)
         IN  \/ wrote /\ SameWord(p, q) /\ q.phase = p.phase /\ q.answer = None
             \/ ~wrote /\ (Alike(p, q) \/ GivenUp(p, q))
<1> DEFINE faults == IF wrote THEN p.faults ELSE p.faults + 1
           q == [p EXCEPT !.timers = @ \ {"retry"}, !.faults = faults]
           r == [q EXCEPT !.answer = None, !.tries = 0]
           t == [q EXCEPT !.tries = @ + 1, !.timers = @ \cup {"retry"}]
<1>1. faults \in Nat
  <2>1. p.faults \in Nat
    BY DEF PageType
  <2> HIDE DEF q
  <2> QED BY <2>1
<1>2. Published(p, wrote) =
        IF wrote THEN CloseLocal(r) ELSE IF p.tries >= MaxRetries THEN Reset(q) ELSE t
  BY DEF Published
<1> HIDE DEF faults
<1>3. q \in PageType
  BY <1>1 DEF PageType
<1>4. Alike(p, q)
  BY DEF PageType, Alike, SameWord
<1> HIDE DEF q
<1>5. r \in PageType
  BY <1>3, WrittenTyped
<1>6. SameWord(q, r) /\ r.phase = q.phase /\ r.answer = None
  BY <1>3 DEF PageType, SameWord
<1>7. Alike(q, t)
  BY <1>3 DEF PageType, Alike, SameWord
<1> HIDE DEF r, t
<1>8. Alike(r, CloseLocal(r))
  BY <1>5, CloseAlike
<1>9. GivenUp(q, Reset(q))
  BY <1>3, ResetGivesUp
<1>10. CASE wrote
  BY <1>2, <1>4, <1>6, <1>8, <1>10 DEF Alike, SameWord
<1>11. CASE ~wrote
  BY <1>2, <1>4, <1>7, <1>9, <1>11 DEF Alike, SameWord, GivenUp
<1> QED BY <1>10, <1>11
-----------------------------------------------------------------------------
(* What becomes of a request the user has not answered, from p: it goes on,   *)
(* is given up, or is answered, and the answer is written or not.             *)
Replied(p) ==
  \/ SameWord(p, page') /\ page'.phase # "responding" /\ files' = files
  \/ GivenUp(p, page') /\ files' = files
  \/ \E d \in Decisions :
       /\ page'.req = p.req /\ page'.taken = p.taken /\ page'.phase = "responding"
       /\ page'.said = d /\ page'.sequence >= p.sequence
       /\ \/ page'.answer = d /\ files' = files
          \/ page'.answer = None /\ files' = Responded(files, page', d)

(* FinishRequest.                                                             *)
LEMMA FinishReplies ==
  ASSUME NEW p \in PageType, NEW d \in Decisions, Held(p), p.req # 0, FinishRequest(p, d)
  PROVE  Replied(p)
<1> DEFINE q == Answered(p, d)
<1>1. /\ q.req = p.req /\ q.taken = p.taken /\ q.phase = "responding"
      /\ q.said = d /\ q.answer = d /\ q.sequence >= p.sequence
  BY AnsweredWord
<1>2. q \in PageType
  BY AnsweredShape DEF Shape, Held
<1>3. \E wrote \in MayFail(p) :
        page' = Published(q, wrote) /\ files' = IF wrote THEN Responded(files, q, d) ELSE files
  BY DEF FinishRequest
<1> HIDE DEF q
<1>4. PICK wrote \in BOOLEAN :
        page' = Published(q, wrote) /\ files' = IF wrote THEN Responded(files, q, d) ELSE files
  BY <1>3 DEF MayFail
<1>5. \/ wrote /\ SameWord(q, page') /\ page'.phase = q.phase /\ page'.answer = None
      \/ ~wrote /\ (Alike(q, page') \/ GivenUp(q, page'))
  BY <1>2, <1>4, PublishedWord
<1>6. CASE wrote /\ SameWord(q, page') /\ page'.phase = q.phase /\ page'.answer = None
  <2>1. files' = Responded(files, q, d)
    BY <1>4, <1>6
  <2>2. Responded(files, page', d) = Responded(files, q, d)
    BY <1>6 DEF Responded, SameWord
  <2> QED BY <1>1, <1>6, <2>1, <2>2 DEF Replied, SameWord
<1>7. CASE ~wrote /\ Alike(q, page')
  <2>1. files' = files
    BY <1>4, <1>7
  <2> QED BY <1>1, <1>7, <2>1 DEF Replied, Alike, SameWord
<1>8. CASE ~wrote /\ GivenUp(q, page')
  <2>1. files' = files
    BY <1>4, <1>8
  <2> QED BY <1>1, <1>8, <2>1 DEF Replied, GivenUp
<1> QED BY <1>5, <1>6, <1>7, <1>8

(* What was done before does not matter, as long as the word is the same.     *)
LEMMA RepliedBefore ==
  ASSUME NEW p, NEW q, SameWord(p, q), Replied(q)
  PROVE  Replied(p)
BY DEF Replied, SameWord, GivenUp

(* FailBackend.                                                               *)
LEMMA FailReplies ==
  ASSUME NEW p \in PageType, Held(p), p.req # 0, p.phase # "responding", FailBackend(p)
  PROVE  Replied(p)
<1> DEFINE f == Failed(p)
           q == [f EXCEPT !.phase = "opening", !.timers = @ \cup {"switch"}]
<1>1. Held(f) /\ Alike(p, f) /\ f \in PageType
  BY FailedHeld, FailedAlike DEF Held
<1>2. CASE MayFallBack(p)
  <2>1. page' = q /\ files' = files
    BY <1>2 DEF FailBackend
  <2> HIDE DEF f
  <2>2. SameWord(f, q) /\ q.phase = "opening"
    BY <1>1 DEF PageType, SameWord
  <2> HIDE DEF q
  <2> QED BY <1>1, <2>1, <2>2 DEF Replied, Alike, SameWord
<1>3. CASE ~MayFallBack(p)
  <2>1. FinishRequest(f, Decision(FALSE, 0))
    BY <1>3 DEF FailBackend
  <2>2. Decision(FALSE, 0) \in Decisions
    BY KeyboardConstants DEF Decision, Decisions
  <2> HIDE DEF f
  <2>3. f.req # 0
    BY <1>1 DEF Alike, SameWord
  <2>4. Replied(f)
    BY <1>1, <2>1, <2>2, <2>3, FinishReplies
  <2> QED BY <1>1, <2>4, RepliedBefore DEF Alike
<1> QED BY <1>2, <1>3

(* OpenBackend.                                                               *)
LEMMA OpenReplies ==
  ASSUME NEW p \in PageType, NEW b \in Backends, ~p.again, p.req # 0, p.uuid = 0,
         p.open \subseteq p.closing, OpenBackend(p, b)
  PROVE  Replied(p)
<1> DEFINE q == [p EXCEPT !.backend = b, !.tried = @ \cup {b}]
           t == OpenTextarea(q)
           c == CloseTextarea(q)
           g == OpenGlobal(q)
           o == [c EXCEPT !.phase = "opening"]
<1>1. \/ page' = t /\ files' = files
      \/ page' = g /\ files' = files
      \/ b # "textarea" /\ FailBackend(o)
  BY Zenon DEF OpenBackend
<1>2. q \in PageType /\ q.backend = b /\ Stays(p, q)
  BY ChosenHeld
<1>3. SameWord(p, q)
  BY DEF PageType, SameWord
<1> HIDE DEF q
<1>4. SameWord(q, t) /\ t.phase = "opening"
  BY <1>2 DEF OpenTextarea, PageType, SameWord
<1>5. c \in PageType /\ SameWord(q, c)
  BY <1>2, CloseAlike DEF Alike
<1>6. SameWord(c, g) /\ g.phase = "opening"
  <2> DEFINE n == q.uuids + 1
             open == c.open \cup {n}
  <2>1. g = [c EXCEPT !.phase = "opening", !.uuids = c.uuids + 1, !.uuid = n, !.open = open]
    BY <1>5 DEF OpenGlobal, PageType
  <2> HIDE DEF n, open, c, g
  <2> QED BY <1>5, <2>1 DEF PageType, SameWord
<1>7. ~c.visible /\ c.backend = b /\ Stays(q, c)
  BY <1>2, CloseTextareaHeld DEF Stays
<1> HIDE DEF c, t, g
<1>8. o \in PageType /\ Stays(c, o) /\ o.phase = "opening" /\ o.backend = b /\ ~o.visible
  BY <1>5, <1>7, PhaseHeld
<1>9. SameWord(c, o)
  BY <1>5 DEF PageType, SameWord
<1> HIDE DEF o
<1>10. CASE page' = t /\ files' = files
  BY <1>3, <1>4, <1>10 DEF Replied, SameWord
<1>11. CASE page' = g /\ files' = files
  BY <1>3, <1>5, <1>6, <1>11 DEF Replied, SameWord
<1>12. CASE b # "textarea" /\ FailBackend(o)
  <2>1. Held(o) /\ o.req # 0
    BY <1>2, <1>7, <1>8, <1>12 DEF Held, Stays, Backends
  <2>2. Replied(o)
    BY <1>8, <1>12, <2>1, FailReplies
  <2>3. SameWord(p, o)
    BY <1>3, <1>5, <1>9 DEF SameWord
  <2> QED BY <2>2, <2>3, RepliedBefore
<1> QED BY <1>1, <1>10, <1>11, <1>12
-----------------------------------------------------------------------------
(* What is to be shown of a step of the page.                                 *)
WordKept == shell.active # 0 /\ said[shell.active] # None =>
              said'[shell.active] = said[shell.active]
StatusKept == \A i \in Ids : files'.status[i] \in {files.status[i], ""}
PageAsks == Asking' /\ WordKept /\ StatusKept

(* Responded: one file of the request is written.                             *)
LEMMA RespondedFiles ==
  ASSUME NEW f \in FilesType, NEW p, p.req \in Ids, NEW d
  PROVE  LET g == Responded(f, p, d)
         IN  /\ g.update = f.update /\ g.status = f.status /\ g.request = f.request
             /\ \A i \in Ids : i # p.req => g.ok[i] = f.ok[i] /\ (i \in g.cancel <=> i \in f.cancel)
             /\ d.confirmed => /\ g.ok[p.req] = [sequence |-> p.sequence, text |-> d.text]
                               /\ g.cancel = f.cancel
             /\ ~d.confirmed => g.ok = f.ok /\ g.cancel = f.cancel \cup {p.req}
<1> DEFINE u == [sequence |-> p.sequence, text |-> d.text]
           ok == [f.ok EXCEPT ![p.req] = u]
           cancel == f.cancel \cup {p.req}
<1>1. Responded(f, p, d) = IF d.confirmed THEN [f EXCEPT !.ok = ok] ELSE [f EXCEPT !.cancel = cancel]
  BY DEF Responded, FilesType
<1> HIDE DEF u
<1>2. ok[p.req] = u /\ \A i \in Ids : i # p.req => ok[i] = f.ok[i]
  BY DEF FilesType
<1> HIDE DEF ok
<1>3. \A i \in Ids : i # p.req => (i \in cancel <=> i \in f.cancel)
  OBVIOUS
<1> HIDE DEF cancel
<1>4. CASE d.confirmed
  <2>1. Responded(f, p, d) = [f EXCEPT !.ok = ok]
    BY <1>1, <1>4
  <2> QED BY <1>2, <1>4, <2>1 DEF FilesType, u
<1>5. CASE ~d.confirmed
  <2>1. Responded(f, p, d) = [f EXCEPT !.cancel = cancel]
    BY <1>1, <1>5
  <2> QED BY <1>3, <1>5, <2>1 DEF FilesType, cancel
<1> QED BY <1>4, <1>5

(* What is remembered of what the user said.                                  *)
LEMMA Remembers ==
  ASSUME IInv, IInv', Asking, Remember
  PROVE  /\ said' \in [Ids -> Decisions \cup {None}]
         /\ \A i \in Ids :
              /\ i \notin {page'.req, shell'.active} => said'[i] = None
              /\ page'.req = i /\ page'.said # None => said'[i] = page'.said
              /\ i \in {page'.req, shell'.active} /\ ~(page'.req = i /\ page'.said # None) =>
                   said'[i] = said[i]
         /\ \A d \in Decisions : d # None
<1>1. page'.said \in Decisions \cup {None}
  BY DEF IInv, PageInv, Shape, Held, PageType
<1>2. said \in [Ids -> Decisions \cup {None}]
  BY DEF Asking, AskingWith
<1>3. said' = [i \in Ids |-> IF i \notin {page'.req, shell'.active} THEN None
                             ELSE IF page'.req = i /\ page'.said # None THEN page'.said
                             ELSE said[i]]
  BY DEF Remember
<1>4. said' \in [Ids -> Decisions \cup {None}]
  BY <1>1, <1>2, <1>3
<1>5. \A d \in Decisions : d # None
  BY KeyboardConstants DEF Decisions
<1> QED BY <1>3, <1>4, <1>5

(* The active request has a number that was given.                            *)
LEMMA ActiveNumber ==
  ASSUME IInv
  PROVE  /\ shell.active # 0 => shell.active < shell.next /\ shell.active \in Ids
         /\ shell.next \in Nat \ {0} /\ page.taken \subseteq Ids
         /\ \A i \in page.taken : i < shell.next
BY BrowserNow, PageNow DEF RoundOK, TakenOK, PageType

(* The request goes on, is given up, or is answered.                          *)
LEMMA RepliedAsks ==
  ASSUME IInv, IInv', Asking, NEW p, p.req \in Ids, p.phase # "responding", p.sequence \in Nat,
         AskingWith(p, files, said, shell), \A i \in p.taken : i < shell.next,
         Replied(p), shell' = shell, Remember
  PROVE  PageAsks
<1> DEFINE a == shell.active
<1>1. /\ said' \in [Ids -> Decisions \cup {None}]
      /\ \A i \in Ids :
           /\ i \notin {page'.req, a} => said'[i] = None
           /\ page'.req = i /\ page'.said # None => said'[i] = page'.said
           /\ i \in {page'.req, a} /\ ~(page'.req = i /\ page'.said # None) => said'[i] = said[i]
      /\ \A d \in Decisions : d # None
  BY Remembers
<1>2. /\ Speaks(p) /\ Unborn(files, said, shell.next)
      /\ a # 0 => Answering(p, files, said, a, shell.last, shell.got)
  BY DEF AskingWith
<1>3. /\ a # 0 => a < shell.next /\ a \in Ids
      /\ shell.next \in Nat /\ Ids \subseteq Nat \ {0} /\ files \in FilesType
      /\ page'.sequence \in Nat /\ p.req \in p.taken /\ p.req < shell.next /\ p.said = None
  BY <1>2, ActiveNumber, PageNow, Numbers DEF Speaks, IInv, PageInv, Shape, Held, PageType
<1>0. \A i \in Ids : i >= shell.next => i # a /\ i # p.req
  BY <1>3
<1> HIDE DEF a
<1>4. ASSUME page'.req \in {p.req, 0}, page'.said = None, page'.taken = p.taken,
             page'.phase # "responding", page'.req = p.req => page'.sequence = p.sequence,
             files' = files
      PROVE  PageAsks
  <2>1. Speaks(page')
    BY <1>3, <1>4 DEF Speaks
  <2>2. \A i \in Ids : said'[i] = said[i] \/ said'[i] = None
    BY <1>1, <1>4
  <2>3. Unborn(files', said', shell.next)
    BY <1>2, <1>4, <2>2 DEF Unborn, Unasked
  <2>4. a # 0 => said'[a] = said[a]
    BY <1>1, <1>3, <1>4
  <2>5. a # 0 => Answering(page', files', said', a, shell.last, shell.got)
    BY <1>2, <1>3, <1>4, <2>4 DEF Answering, Unasked
  <2>6. Asking'
    BY <1>1, <2>1, <2>3, <2>5 DEF Asking, AskingWith, a
  <2>7. WordKept /\ StatusKept
    BY <1>4, <2>4 DEF WordKept, StatusKept, a
  <2> QED BY <2>6, <2>7 DEF PageAsks
<1>5. CASE SameWord(p, page') /\ page'.phase # "responding" /\ files' = files
  BY <1>3, <1>4, <1>5 DEF SameWord
<1>6. CASE GivenUp(p, page') /\ files' = files
  <2>1. page'.req # p.req
    BY <1>3, <1>6 DEF GivenUp
  <2> QED BY <1>4, <1>6, <2>1 DEF GivenUp
<1>7. ASSUME NEW d \in Decisions, page'.req = p.req, page'.taken = p.taken,
             page'.phase = "responding", page'.said = d, page'.sequence >= p.sequence,
             \/ page'.answer = d /\ files' = files
             \/ page'.answer = None /\ files' = Responded(files, page', d)
      PROVE  PageAsks
  <2>1. Speaks(page')
    BY <1>3, <1>7 DEF Speaks
  <2>2. said'[p.req] = d /\ d # None
    BY <1>1, <1>7
  <2>3. \A i \in Ids : i # p.req => said'[i] = said[i] \/ said'[i] = None
    BY <1>1, <1>7
  <2>4. a # 0 /\ a # p.req => said'[a] = said[a]
    BY <1>1, <1>3, <1>7
  <2>5. a # 0 /\ a = p.req => said[a] = None
    BY <1>2, <1>3 DEF Answering
  <2>6. WordKept
    BY <2>4, <2>5 DEF WordKept, a
  <2>7. \/ page'.answer = d /\ files' = files
        \/ /\ page'.answer = None
           /\ files'.update = files.update /\ files'.status = files.status
           /\ \A i \in Ids : i # p.req =>
                files'.ok[i] = files.ok[i] /\ (i \in files'.cancel <=> i \in files.cancel)
           /\ d.confirmed => /\ files'.ok[p.req] = [sequence |-> page'.sequence, text |-> d.text]
                             /\ files'.cancel = files.cancel
           /\ ~d.confirmed => files'.ok = files.ok /\ files'.cancel = files.cancel \cup {p.req}
    <3>1. page'.req \in Ids
      BY <1>7
    <3> QED BY <1>3, <1>7, <3>1, RespondedFiles
  <2>8. StatusKept
    BY <2>7 DEF StatusKept
  <2>9. Unborn(files', said', shell.next)
    <3>1. ASSUME NEW i \in Ids, i >= shell.next
          PROVE  Unasked(files', said', i) /\ files'.status[i] = ""
      <4>1. i # p.req /\ Unasked(files, said, i) /\ files.status[i] = ""
        BY <1>0, <1>2, <3>1 DEF Unborn
      <4>2. said'[i] = None
        BY <2>3, <4>1 DEF Unasked
      <4> QED BY <2>7, <4>1, <4>2 DEF Unasked
    <3> QED BY <3>1 DEF Unborn
  <2>10. a # 0 /\ a # p.req => Answering(page', files', said', a, shell.last, shell.got)
    BY <1>2, <1>3, <1>7, <2>4, <2>7 DEF Answering, Unasked
  <2>11. ASSUME a # 0, a = p.req
         PROVE  Answering(page', files', said', a, shell.last, shell.got)
    <3> DEFINE n == shell.last
               got == shell.got
    <3>1. files.ok[a] = None /\ a \notin files.cancel
      BY <1>2, <1>3, <2>11 DEF Answering
    <3>2. n <= p.sequence /\ Upto(files.update[a], p.sequence) /\ Upto(got, p.sequence)
      BY <1>2, <1>3, <2>11 DEF Answering
    <3>3. n \in Nat /\ got \in Updates \cup {None} /\ files.update[a] \in Updates \cup {None}
      BY <1>3, <2>11, BrowserNow DEF ShellType, FilesType
    <3> HIDE DEF n, got
    <3>4. n <= page'.sequence /\ Upto(files.update[a], page'.sequence) /\ Upto(got, page'.sequence)
      BY <1>3, <1>7, <3>2, <3>3 DEF Upto, Updates
    <3>5. a \in page'.taken /\ said'[a] = page'.said /\ said'[a] = d
      BY <1>3, <1>7, <2>2, <2>11
    <3>6. files'.update[a] = files.update[a]
      BY <2>7
    <3>7. page'.answer # None => files'.ok[a] = None /\ a \notin files'.cancel
      BY <2>7, <3>1
    <3>8. files'.ok[a] # None =>
            /\ d.confirmed /\ files'.ok[a].text = d.text /\ files'.ok[a].sequence = page'.sequence
      BY <2>7, <2>11, <3>1
    <3>9. a \in files'.cancel => ~d.confirmed
      BY <2>7, <2>11, <3>1
    <3> QED BY <1>7, <2>2, <3>4, <3>5, <3>6, <3>7, <3>8, <3>9 DEF Answering, n, got
  <2>12. Asking'
    BY <1>1, <2>1, <2>9, <2>10, <2>11 DEF Asking, AskingWith, a
  <2> QED BY <2>6, <2>8, <2>12 DEF PageAsks
<1> QED BY <1>5, <1>6, <1>7 DEF Replied
-----------------------------------------------------------------------------
(* The actions of the page.                                                   *)

PageText == IInv /\ IInv' /\ Asking /\ shell' = shell /\ Remember

(* What is known of the page itself.                                          *)
LEMMA TextNow ==
  ASSUME PageText
  PROVE  /\ page \in PageType /\ Held(page) /\ Shape(page) /\ files \in FilesType
         /\ AskingWith(page, files, said, shell) /\ \A i \in page.taken : i < shell.next
         /\ page.req # 0 => page.req \in Ids
         /\ page.sequence \in Nat
BY PageNow, ActiveNumber DEF PageText, Asking, PageType

(* A handler that starts from the page, or from what is the same of it.       *)
LEMMA AlikeAsks ==
  ASSUME PageText, NEW p, Alike(page, p), page.req # 0, page.phase # "responding", Replied(p)
  PROVE  PageAsks
<1>1. Replied(page)
  BY RepliedBefore DEF Alike
<1> QED BY <1>1, TextNow, RepliedAsks DEF PageText

(* Nothing is said, answered or written.                                      *)
NothingWritten ==
  \/ files' = files
  \/ page.req \in Ids /\ files' = [files EXCEPT !.status[page.req] = ""]

LEMMA AlikeKeeps ==
  ASSUME PageText, Alike(page, page') \/ GivenUp(page, page'), NothingWritten
  PROVE  PageAsks
<1> DEFINE a == shell.active
<1>1. /\ said' \in [Ids -> Decisions \cup {None}]
      /\ \A i \in Ids :
           /\ i \notin {page'.req, a} => said'[i] = None
           /\ page'.req = i /\ page'.said # None => said'[i] = page'.said
           /\ i \in {page'.req, a} /\ ~(page'.req = i /\ page'.said # None) => said'[i] = said[i]
  BY Remembers DEF PageText
<1>2. /\ Speaks(page) /\ Unborn(files, said, shell.next)
      /\ a # 0 => Answering(page, files, said, a, shell.last, shell.got)
  BY TextNow DEF AskingWith
<1>3. /\ a # 0 => a < shell.next /\ a \in Ids
      /\ shell.next \in Nat /\ Ids \subseteq Nat \ {0} /\ files \in FilesType
      /\ page.req # 0 => page.req \in page.taken /\ page.req < shell.next
  BY <1>2, TextNow, ActiveNumber, Numbers DEF Speaks, PageText
<1>4. /\ files'.update = files.update /\ files'.ok = files.ok /\ files'.cancel = files.cancel
      /\ \A i \in Ids : files'.status[i] \in {files.status[i], ""}
  <2> DEFINE status == [files.status EXCEPT ![page.req] = ""]
  <2>1. CASE files' = files
    BY <2>1
  <2>2. CASE page.req \in Ids /\ files' = [files EXCEPT !.status[page.req] = ""]
    <3>1. files' = [files EXCEPT !.status = status]
      BY <1>3, <2>2 DEF FilesType
    <3>2. \A i \in Ids : status[i] \in {files.status[i], ""}
      BY <1>3 DEF FilesType
    <3> HIDE DEF status
    <3> QED BY <1>3, <3>1, <3>2 DEF FilesType
  <2> QED BY <2>1, <2>2 DEF NothingWritten
<1> HIDE DEF a
<1>5. Speaks(page')
  BY <1>2 DEF Speaks, Alike, SameWord, GivenUp
<1>6. a # 0 => said'[a] = said[a]
  <2>1. CASE Alike(page, page')
    <3>1. page'.req = page.req /\ page'.said = page.said
      BY <2>1 DEF Alike, SameWord
    <3> QED BY <1>1, <1>2, <1>3, <3>1 DEF Answering
  <2>2. CASE GivenUp(page, page')
    BY <1>1, <1>3, <2>2 DEF GivenUp
  <2> QED BY <2>1, <2>2
<1>7. Unborn(files', said', shell.next)
  <2>1. ASSUME NEW i \in Ids, i >= shell.next
        PROVE  Unasked(files', said', i) /\ files'.status[i] = ""
    <3>1. Unasked(files, said, i) /\ files.status[i] = ""
      BY <1>2, <2>1 DEF Unborn
    <3>2. i # page'.req /\ i # a
      <4>1. page'.req \in {page.req, 0}
        BY DEF Alike, SameWord, GivenUp
      <4>2. i \in Nat \ {0} /\ i # a /\ i # page.req
        BY <1>3, <2>1
      <4> QED BY <4>1, <4>2
    <3>3. said'[i] = None
      BY <1>1, <3>2
    <3>4. files'.status[i] = ""
      BY <1>4, <3>1
    <3> QED BY <1>4, <3>1, <3>3, <3>4 DEF Unasked
  <2> QED BY <2>1 DEF Unborn
<1>8. a # 0 => Answering(page', files', said', a, shell.last, shell.got)
  <2>1. CASE Alike(page, page')
    <3>1. /\ page'.req = page.req /\ page'.said = page.said /\ page'.sequence = page.sequence
          /\ page'.taken = page.taken /\ page'.phase = page.phase /\ page'.answer = page.answer
      BY <2>1 DEF Alike, SameWord
    <3>2. a # 0 => Answering(page', files, said, a, shell.last, shell.got)
      BY <1>2, <3>1 DEF Answering
    <3>3. a # 0 => Answering(page', files', said', a, shell.last, shell.got)
      BY <1>4, <1>6, <3>2 DEF Answering, Unasked
    <3> QED BY <3>3
  <2>2. CASE GivenUp(page, page')
    BY <1>2, <1>3, <1>4, <1>6, <2>2 DEF Answering, Unasked, GivenUp
  <2> QED BY <2>1, <2>2
<1>9. Asking'
  BY <1>1, <1>5, <1>7, <1>8 DEF Asking, AskingWith, PageText, a
<1> QED BY <1>4, <1>6, <1>9 DEF PageAsks, WordKept, StatusKept, a

(* PollRequest: the number is that of the active request.                     *)
LEMMA PollRequestAsks ==
  ASSUME PageText, PollRequest
  PROVE  PageAsks
<1> DEFINE i == files.request
           b == IF page.mode = "global" THEN "global" ELSE "textarea"
           p == [page EXCEPT !.req = i, !.tried = {}, !.sequence = 0, !.last = 0,
                             !.timers = @ \ {"deadline"},
                             !.again = i \in page.taken, !.taken = @ \cup {i}]
<1>1. /\ page.polls /\ page.req = 0 /\ page.phase = "idle" /\ i # 0 /\ i \notin page.done
      /\ OpenBackend(p, b)
  BY DEF PollRequest, MayTake
<1>2. /\ IInv /\ Shape(page) /\ page \in PageType /\ files \in FilesType
      /\ TakenOK(page, i, shell.next) /\ i \in Ids
  BY <1>1 DEF PageText, IInv, PageInv, Shape, Held, FilesType
<1>3. i \notin page.taken /\ i < shell.next
  BY <1>1, <1>2 DEF TakenOK
<1>4. b \in Backends
  BY DEF Backends
<1> HIDE DEF b
<1>5. /\ p \in PageType
      /\ p.req = i /\ ~p.again /\ p.taken = page.taken \cup {i}
      /\ p.uuid = page.uuid /\ p.open = page.open /\ p.closing = page.closing
  BY <1>2, <1>3, PolledHeld
<1>6. p.sequence = 0 /\ p.phase = page.phase /\ p.said = page.said
  BY <1>2 DEF PageType
<1> HIDE DEF i, p
<1>7. page.uuid = 0 /\ page.open \subseteq page.closing
  BY <1>1, <1>2 DEF Shape, Held, PageType
<1>8. Replied(p)
  <2>1. p.req # 0 /\ p.uuid = 0 /\ p.open \subseteq p.closing
    BY <1>1, <1>5, <1>7
  <2> QED BY <1>1, <1>4, <1>5, <2>1, OpenReplies
<1>9. /\ Asking /\ Speaks(page) /\ Unborn(files, said, shell.next)
      /\ said \in [Ids -> Decisions \cup {None}]
      /\ shell.active # 0 => Answering(page, files, said, shell.active, shell.last, shell.got)
  BY DEF PageText, Asking, AskingWith
<1>10. shell.active # 0 => shell.active = i
  BY <1>2, BrowserNow DEF RoundOK, i
<1>11. page.said = None
  BY <1>1, <1>9 DEF Speaks
<1>12. Speaks(p)
  BY <1>1, <1>5, <1>6, <1>11 DEF Speaks
<1>13. shell.active # 0 => Answering(p, files, said, shell.active, shell.last, shell.got)
  <2> DEFINE n == shell.last
             got == shell.got
             a == shell.active
  <2>1. a # 0 => Answering(page, files, said, a, n, got)
    BY <1>9
  <2>2. a # 0 => a = i
    BY <1>10
  <2> HIDE DEF n, got, a
  <2>3. a # 0 => Answering(p, files, said, a, n, got)
    BY <1>3, <1>5, <1>6, <1>11, <2>1, <2>2 DEF Answering, Unasked, Upto
  <2> QED BY <2>3 DEF n, got, a
<1>14. AskingWith(p, files, said, shell)
  BY <1>9, <1>12, <1>13 DEF AskingWith
<1>15. \A j \in p.taken : j < shell.next
  BY <1>3, <1>5, TextNow
<1>16. p.req \in Ids /\ p.phase # "responding" /\ p.sequence \in Nat
  BY <1>1, <1>2, <1>5, <1>6
<1> QED BY <1>8, <1>9, <1>14, <1>15, <1>16, RepliedAsks DEF PageText
(* PollCompletion, CompletionTimeout: the request is over for the page.       *)
LEMMA CompletionAsks ==
  ASSUME PageText, PollCompletion \/ CompletionTimeout
  PROVE  PageAsks
<1>1. page.req # 0 /\ page' = Reset(page)
  BY DEF PollCompletion, CompletionTimeout
<1>2. GivenUp(page, page')
  BY <1>1, TextNow, ResetGivesUp
<1>3. NothingWritten
  BY <1>1, TextNow DEF PollCompletion, CompletionTimeout, NothingWritten
<1> QED BY <1>2, <1>3, AlikeKeeps

(* An answer of which nothing is written yet.                                 *)
LEMMA WritesAsks ==
  ASSUME PageText, page.req # 0, page.phase = "responding", NEW d \in Decisions, page.answer = d,
         SameWord(page, page'), page'.phase = "responding", page'.answer = None,
         files' = Responded(files, page, d)
  PROVE  PageAsks
<1> DEFINE a == shell.active
           n == shell.last
           got == shell.got
<1>1. /\ said' \in [Ids -> Decisions \cup {None}]
      /\ \A i \in Ids :
           /\ i \notin {page'.req, a} => said'[i] = None
           /\ page'.req = i /\ page'.said # None => said'[i] = page'.said
           /\ i \in {page'.req, a} /\ ~(page'.req = i /\ page'.said # None) => said'[i] = said[i]
      /\ \A e \in Decisions : e # None
  BY Remembers DEF PageText
<1>2. /\ Speaks(page) /\ Unborn(files, said, shell.next)
      /\ a # 0 => Answering(page, files, said, a, n, got)
  BY TextNow DEF AskingWith
<1>3. /\ a # 0 => a < shell.next /\ a \in Ids
      /\ shell.next \in Nat /\ Ids \subseteq Nat \ {0} /\ files \in FilesType
      /\ page.req \in Ids /\ page.req \in page.taken /\ page.req < shell.next
  BY <1>2, TextNow, ActiveNumber, Numbers DEF Speaks, PageText
<1>4. /\ files'.update = files.update /\ files'.status = files.status
      /\ \A i \in Ids : i # page.req =>
           files'.ok[i] = files.ok[i] /\ (i \in files'.cancel <=> i \in files.cancel)
      /\ d.confirmed => /\ files'.ok[page.req] = [sequence |-> page.sequence, text |-> d.text]
                        /\ files'.cancel = files.cancel
      /\ ~d.confirmed => files'.ok = files.ok /\ files'.cancel = files.cancel \cup {page.req}
  BY <1>3, RespondedFiles
<1>5. /\ page'.req = page.req /\ page'.said = page.said /\ page'.sequence = page.sequence
      /\ page'.taken = page.taken
  BY DEF SameWord
<1> HIDE DEF a, n, got
<1>6. page.said = d /\ Speaks(page')
  BY <1>1, <1>2, <1>5 DEF Speaks
<1>7. a # 0 => said'[a] = said[a]
  BY <1>1, <1>2, <1>3, <1>5 DEF Answering
<1>8. Unborn(files', said', shell.next)
  <2>1. ASSUME NEW i \in Ids, i >= shell.next
        PROVE  Unasked(files', said', i) /\ files'.status[i] = ""
    <3>1. Unasked(files, said, i) /\ files.status[i] = ""
      BY <1>2, <2>1 DEF Unborn
    <3>2. i # page.req /\ i # a
      BY <1>3, <2>1
    <3> QED BY <1>1, <1>4, <1>5, <3>1, <3>2 DEF Unasked
  <2> QED BY <2>1 DEF Unborn
<1>9. a # 0 /\ a # page.req => Answering(page', files', said', a, n, got)
  <2>1. a # 0 /\ a # page.req => Answering(page', files, said, a, n, got)
    BY <1>2, <1>5 DEF Answering
  <2> QED BY <1>3, <1>4, <1>5, <1>7, <2>1 DEF Answering, Unasked
<1>10. ASSUME a # 0, a = page.req
       PROVE  Answering(page', files', said', a, n, got)
  <2>1. files.ok[a] = None /\ a \notin files.cancel /\ said[a] = d
    BY <1>1, <1>2, <1>6, <1>10 DEF Answering
  <2>2. n <= page.sequence /\ Upto(files.update[a], page.sequence) /\ Upto(got, page.sequence)
    BY <1>2, <1>10 DEF Answering
  <2>3. files'.ok[a] # None =>
          d.confirmed /\ files'.ok[a].text = d.text /\ files'.ok[a].sequence = page.sequence
    BY <1>4, <1>10, <2>1
  <2>4. a \in files'.cancel => ~d.confirmed
    BY <1>4, <1>10, <2>1
  <2>5. said'[a] = d /\ d # None /\ files'.update[a] = files.update[a]
    BY <1>1, <1>4, <1>7, <1>10, <2>1
  <2> QED BY <1>3, <1>5, <1>6, <1>10, <2>2, <2>3, <2>4, <2>5 DEF Answering
<1>11. Asking'
  BY <1>1, <1>6, <1>8, <1>9, <1>10 DEF Asking, AskingWith, PageText, a, n, got
<1> QED BY <1>4, <1>7, <1>11 DEF PageAsks, WordKept, StatusKept, a

(* ResponseRetry.                                                             *)
LEMMA RetryAsks ==
  ASSUME PageText, ResponseRetry
  PROVE  PageAsks
<1>1. /\ "retry" \in page.timers
      /\ \E wrote \in MayFail(page) :
           /\ page' = Published(page, wrote)
           /\ files' = IF wrote THEN Responded(files, page, page.answer) ELSE files
  BY DEF ResponseRetry, Fires
<1>2. PICK wrote \in BOOLEAN :
        /\ page' = Published(page, wrote)
        /\ files' = IF wrote THEN Responded(files, page, page.answer) ELSE files
  BY <1>1 DEF MayFail
<1>3. page.phase = "responding" /\ page.answer \in Decisions /\ page.req # 0
  BY <1>1, TextNow DEF Shape
<1>4. \/ wrote /\ SameWord(page, page') /\ page'.phase = page.phase /\ page'.answer = None
      \/ ~wrote /\ (Alike(page, page') \/ GivenUp(page, page'))
  BY <1>2, TextNow, PublishedWord
<1>5. CASE wrote /\ SameWord(page, page') /\ page'.phase = page.phase /\ page'.answer = None
  <2>1. files' = Responded(files, page, page.answer)
    BY <1>2, <1>5
  <2> QED BY <1>3, <1>5, <2>1, WritesAsks
<1>6. CASE ~wrote /\ (Alike(page, page') \/ GivenUp(page, page'))
  <2>1. NothingWritten
    BY <1>2, <1>6 DEF NothingWritten
  <2> QED BY <1>6, <2>1, AlikeKeeps
<1> QED BY <1>4, <1>5, <1>6

(* A quiet step that leaves the word alone.                                   *)
LEMMA QuietAsks ==
  ASSUME PageText, Alike(page, page'), files' = files
  PROVE  PageAsks
BY AlikeKeeps DEF NothingWritten

(* A backend that fails does so before the page has answered.                 *)
LEMMA FailAsks ==
  ASSUME PageText, NEW p, Quiet(page, p), Alike(page, p), page.req # 0,
         page.phase # "responding", FailBackend(p)
  PROVE  PageAsks
<1>1. Held(p) /\ p \in PageType
  BY TextNow, QuietShape DEF Quiet, Shape
<1>2. p.req # 0 /\ p.phase # "responding"
  BY DEF Alike, SameWord
<1>3. Replied(p)
  BY <1>1, <1>2, FailReplies
<1> QED BY <1>3, AlikeAsks

(* Disarmed.                                                                  *)
LEMMA DisarmedAlike ==
  ASSUME PageText, NEW t
  PROVE  Alike(page, Disarmed(t)) /\ Quiet(page, Disarmed(t))
<1>1. page \in PageType
  BY TextNow
<1> QED BY <1>1, DisarmedQuiet DEF Disarmed, PageType, Alike, SameWord

(* FocusTimer.                                                                *)
LEMMA FocusTimerAsks ==
  ASSUME PageText, FocusTimer
  PROVE  PageAsks
<1> DEFINE d == Disarmed("focus")
           p == [d EXCEPT !.focused = TRUE]
           q == [p EXCEPT !.timers = @ \cup {"probe"}]
<1>1. \/ Busy("textarea") /\ page' = q /\ files' = files
      \/ Busy("textarea") /\ FailBackend(p)
      \/ page' = d /\ files' = files
  BY DEF FocusTimer
<1>2. Alike(page, d) /\ Quiet(page, d)
  BY DisarmedAlike
<1> HIDE DEF d
<1>3. d \in PageType
  BY <1>2 DEF Quiet
<1>4. Quiet(d, p)
  BY <1>3, FocusQuiet
<1>5. Alike(d, p)
  BY <1>3 DEF PageType, Alike, SameWord
<1> HIDE DEF p
<1>6. Quiet(page, p) /\ Alike(page, p) /\ p \in PageType
  BY <1>2, <1>4, <1>5, QuietAgain DEF Alike, SameWord, Quiet
<1>7. Alike(p, q)
  BY <1>6 DEF PageType, Alike, SameWord
<1> HIDE DEF q
<1>8. Alike(page, q)
  BY <1>6, <1>7 DEF Alike, SameWord
<1>9. CASE Busy("textarea") /\ FailBackend(p)
  BY <1>6, <1>9, FailAsks DEF Busy
<1> QED BY <1>1, <1>2, <1>8, <1>9, QuietAsks

(* ProbeTimeout.                                                              *)
LEMMA ProbeTimeoutAsks ==
  ASSUME PageText, ProbeTimeout
  PROVE  PageAsks
<1>1. \/ Busy("textarea") /\ FailBackend(Disarmed("probe"))
      \/ page' = Disarmed("probe") /\ files' = files
  BY DEF ProbeTimeout
<1>2. Alike(page, Disarmed("probe")) /\ Quiet(page, Disarmed("probe"))
  BY DisarmedAlike
<1> QED BY <1>1, <1>2, FailAsks, QuietAsks DEF Busy

(* SwitchTimer.                                                               *)
LEMMA SwitchTimerAsks ==
  ASSUME PageText, SwitchTimer
  PROVE  PageAsks
<1> DEFINE p == Disarmed("switch")
           b == Other(page.backend)
<1>1. /\ "switch" \in page.timers
      /\ \/ page.req # 0 /\ page.phase = "opening" /\ OpenBackend(p, b)
         \/ page' = p /\ files' = files
  BY DEF SwitchTimer, Fires
<1>2. Alike(page, p) /\ Quiet(page, p)
  BY DisarmedAlike
<1>3. b \in Backends
  BY DEF Other, Backends
<1> HIDE DEF p, b
<1>4. CASE page.req # 0 /\ page.phase = "opening" /\ OpenBackend(p, b)
  <2>1. page.uuid = 0
    BY <1>1, TextNow DEF Shape
  <2>2. p \in PageType /\ Shape(p) /\ Stays(page, p)
    BY <1>2, TextNow, QuietShape DEF Quiet
  <2>3. ~p.again /\ p.req # 0 /\ p.uuid = 0 /\ p.open \subseteq p.closing
    BY <1>4, <2>1, <2>2 DEF Shape, Held, Stays, PageType
  <2>4. Replied(p)
    BY <1>3, <1>4, <2>2, <2>3, OpenReplies
  <2> QED BY <1>2, <1>4, <2>4, AlikeAsks
<1> QED BY <1>1, <1>2, <1>4, QuietAsks
(* A handler after which the request goes on.                                 *)
LEMMA GoesOnAsks ==
  ASSUME PageText, page.req # 0, page.phase # "responding", SameWord(page, page'),
         page'.phase # "responding", files' = files
  PROVE  PageAsks
<1>1. Replied(page) /\ Alike(page, page)
  BY DEF Replied, Alike, SameWord
<1> QED BY <1>1, AlikeAsks

(* A new text has the next number.                                            *)
LEMMA TypedAsks ==
  ASSUME PageText, NEW text \in Texts, page.req # 0, page.phase # "responding",
         page'.req = page.req, page'.said = page.said, page'.taken = page.taken,
         page'.sequence = page.sequence + 1, page'.phase # "responding",
         files'.ok = files.ok, files'.cancel = files.cancel, files'.status = files.status,
         \A i \in Ids : i # page.req => files'.update[i] = files.update[i],
         Upto(files'.update[page.req], page'.sequence)
  PROVE  PageAsks
<1> DEFINE a == shell.active
           n == shell.last
           got == shell.got
           sequence == page'.sequence
<1>1. /\ said' \in [Ids -> Decisions \cup {None}]
      /\ \A i \in Ids :
           /\ i \notin {page'.req, a} => said'[i] = None
           /\ page'.req = i /\ page'.said # None => said'[i] = page'.said
           /\ i \in {page'.req, a} /\ ~(page'.req = i /\ page'.said # None) => said'[i] = said[i]
  BY Remembers DEF PageText
<1>2. /\ Speaks(page) /\ Unborn(files, said, shell.next)
      /\ a # 0 => Answering(page, files, said, a, n, got)
  BY TextNow DEF AskingWith
<1>3. /\ a # 0 => a < shell.next /\ a \in Ids
      /\ shell.next \in Nat /\ Ids \subseteq Nat \ {0} /\ page.sequence \in Nat
      /\ page.req \in Ids /\ page.req \in page.taken /\ page.req < shell.next
      /\ n \in Nat /\ got \in Updates \cup {None} /\ page.said = None
  BY <1>2, TextNow, ActiveNumber, Numbers, BrowserNow DEF Speaks, PageText, ShellType
<1> HIDE DEF a, n, got
<1>4. Speaks(page')
  BY <1>2, <1>3 DEF Speaks
<1>5. a # 0 => said'[a] = said[a]
  BY <1>1, <1>3
<1>6. Unborn(files', said', shell.next)
  <2>1. ASSUME NEW i \in Ids, i >= shell.next
        PROVE  Unasked(files', said', i) /\ files'.status[i] = ""
    <3>1. Unasked(files, said, i) /\ files.status[i] = ""
      BY <1>2, <2>1 DEF Unborn
    <3>2. i # page.req /\ i # a
      BY <1>3, <2>1
    <3> QED BY <1>1, <3>1, <3>2 DEF Unasked
  <2> QED BY <2>1 DEF Unborn
<1>7. a # 0 /\ a # page.req => Answering(page', files', said', a, n, got)
  BY <1>2, <1>3, <1>5 DEF Answering, Unasked
<1>8. ASSUME a # 0, a = page.req
      PROVE  Answering(page', files', said', a, n, got)
  <2>1. files.ok[a] = None /\ a \notin files.cancel /\ said[a] = page.said
    BY <1>2, <1>8 DEF Answering
  <2>2. n <= page.sequence /\ Upto(got, page.sequence)
    BY <1>2, <1>8 DEF Answering
  <2>3. n <= sequence /\ Upto(got, sequence)
    BY <1>3, <2>2 DEF Upto, Updates
  <2> QED BY <1>3, <1>5, <1>8, <2>1, <2>3 DEF Answering
<1>9. Asking'
  BY <1>1, <1>4, <1>6, <1>7, <1>8 DEF Asking, AskingWith, PageText, a, n, got
<1> QED BY <1>5, <1>9 DEF PageAsks, WordKept, StatusKept, a

(* TextareaInput.                                                             *)
LEMMA TextareaInputAsks ==
  ASSUME PageText, NEW text \in Texts, TextareaInput(text)
  PROVE  PageAsks
<1> DEFINE s == Succeeded(page, "textarea")
           p == [s EXCEPT !.phase = "active"]
           q == [p EXCEPT !.last = text, !.sequence = @ + 1]
           u == [sequence |-> page.sequence + 1, text |-> text]
           update == [files.update EXCEPT ![page.req] = u]
<1>1. /\ page.req # 0 /\ page.backend = "textarea" /\ page.phase # "responding"
      /\ \/ page' = p /\ files' = files
         \/ page' = q /\ files' = [files EXCEPT !.update[page.req] = u]
  BY DEF TextareaInput, Busy
<1>2. Alike(page, s) /\ s \in PageType
  BY TextNow, SucceededAlike, SucceededShape DEF Backends, Shape, Held
<1> HIDE DEF s
<1>3. SameWord(s, p) /\ p.phase = "active" /\ p \in PageType
  <2>1. p \in PageType /\ p.phase = "active"
    BY <1>2, PhaseHeld
  <2>2. SameWord(s, p)
    BY <1>2 DEF PageType, SameWord
  <2> QED BY <2>1, <2>2
<1> HIDE DEF p
<1>4. CASE page' = p /\ files' = files
  BY <1>1, <1>2, <1>3, <1>4, GoesOnAsks DEF Alike, SameWord
<1>5. CASE page' = q /\ files' = [files EXCEPT !.update[page.req] = u]
  <2>1. /\ q.req = p.req /\ q.said = p.said /\ q.taken = p.taken /\ q.phase = p.phase
        /\ q.sequence = p.sequence + 1
    BY <1>3 DEF PageType
  <2> HIDE DEF q
  <2>2. /\ page'.req = page.req /\ page'.said = page.said /\ page'.taken = page.taken
        /\ page'.phase # "responding" /\ page'.sequence = page.sequence + 1
    BY <1>2, <1>3, <1>5, <2>1 DEF Alike, SameWord
  <2>3. files' = [files EXCEPT !.update = update] /\ page.req \in Ids /\ files \in FilesType
    BY <1>1, <1>5, TextNow DEF FilesType
  <2>4. u.sequence = page.sequence + 1
    OBVIOUS
  <2> HIDE DEF u
  <2>5. update[page.req] = u /\ \A i \in Ids : i # page.req => update[i] = files.update[i]
    BY <2>3 DEF FilesType
  <2> HIDE DEF update
  <2>6. /\ files'.update = update /\ files'.ok = files.ok /\ files'.cancel = files.cancel
        /\ files'.status = files.status
    BY <2>3 DEF FilesType
  <2>7. Upto(files'.update[page.req], page'.sequence)
    <3>1. page.sequence \in Nat
      BY TextNow
    <3> QED BY <2>2, <2>4, <2>5, <2>6, <3>1 DEF Upto
  <2> QED BY <1>1, <2>2, <2>5, <2>6, <2>7, TypedAsks
<1> QED BY <1>1, <1>4, <1>5

(* The user ends the request.                                                 *)
LEMMA FinishAsks ==
  ASSUME PageText, NEW p, NEW d \in Decisions, Alike(page, p), Held(p), page.req # 0,
         page.phase # "responding", FinishRequest(p, d)
  PROVE  PageAsks
<1>1. p \in PageType /\ p.req # 0
  BY DEF Held, Alike, SameWord
<1>2. Replied(p)
  BY <1>1, FinishReplies
<1> QED BY <1>2, AlikeAsks

(* TextareaConfirm, TextareaCancel.                                           *)
LEMMA ConfirmAsks ==
  ASSUME PageText, NEW text \in Texts, TextareaConfirm(text) \/ TextareaCancel
  PROVE  PageAsks
<1>1. Decision(TRUE, text) \in Decisions /\ Decision(FALSE, 0) \in Decisions
  BY KeyboardConstants DEF Decision, Decisions
<1>2. Alike(page, Succeeded(page, "textarea")) /\ Held(Succeeded(page, "textarea"))
  BY TextNow, SucceededAlike, SucceededShape DEF Backends, Shape
<1> QED BY <1>1, <1>2, FinishAsks DEF TextareaConfirm, TextareaCancel, Busy

(* TextareaFocus, TextareaBlur, PageShow, GlobalFinished, CloseTimer: nothing *)
(* is said.                                                                   *)
LEMMA SilentAsks ==
  ASSUME PageText,
         \/ TextareaFocus \/ TextareaBlur \/ PageShow
         \/ \E d : GlobalFinished(page.uuid, d)
         \/ \E u : CloseTimer(u)
  PROVE  PageAsks
<1>1. page \in PageType
  BY TextNow
<1>2. CASE TextareaFocus
  <2>1. Alike(page, page') /\ files' = files
    BY <1>1, <1>2 DEF TextareaFocus, PageType, Alike, SameWord
  <2> QED BY <2>1, QuietAsks
<1>3. CASE TextareaBlur
  <2>1. Alike(page, page') /\ files' = files
    BY <1>1, <1>3 DEF TextareaBlur, PageType, Alike, SameWord
  <2> QED BY <2>1, QuietAsks
<1>4. CASE PageShow
  <2> DEFINE timers == (page.timers \ {"return"})
                         \cup (IF Busy("textarea") /\ page.blurred THEN {"return"} ELSE {})
  <2>1. page' = [page EXCEPT !.timers = timers] /\ files' = files
    BY <1>1, <1>4 DEF PageShow, PageType
  <2> HIDE DEF timers
  <2>2. Alike(page, page')
    BY <1>1, <2>1 DEF PageType, Alike, SameWord
  <2> QED BY <2>1, <2>2, QuietAsks
<1>5. CASE \E d : GlobalFinished(page.uuid, d)
  <2>1. Alike(page, page') /\ files' = files
    BY <1>1, <1>5 DEF GlobalFinished, PageType, Alike, SameWord
  <2> QED BY <2>1, QuietAsks
<1>6. CASE \E u : CloseTimer(u)
  <2>1. Alike(page, page') /\ files' = files
    BY <1>1, <1>6 DEF CloseTimer, PageType, Alike, SameWord
  <2> QED BY <2>1, QuietAsks
<1> QED BY <1>2, <1>3, <1>4, <1>5, <1>6

(* PageHide.                                                                  *)
LEMMA PageHideAsks ==
  ASSUME PageText, PageHide
  PROVE  PageAsks
<1> DEFINE s == Succeeded(page, page.backend)
           p == [s EXCEPT !.phase = "active"]
<1>1. /\ page.backend \in Backends /\ page.phase \in {"opening", "active"}
      /\ page' = p /\ files' = files
  BY TextNow DEF PageHide, PageType
<1>2. Alike(page, s) /\ s \in PageType
  BY <1>1, TextNow, SucceededAlike, SucceededShape DEF Shape, Held
<1> HIDE DEF s
<1>3. SameWord(s, p) /\ p.phase = "active"
  BY <1>2 DEF PageType, SameWord
<1> HIDE DEF p
<1>4. page.req # 0
  BY <1>1, TextNow DEF Shape
<1> QED BY <1>1, <1>2, <1>3, <1>4, GoesOnAsks DEF Alike, SameWord

(* ReturnTimer.                                                               *)
LEMMA ReturnTimerAsks ==
  ASSUME PageText, ReturnTimer
  PROVE  PageAsks
<1> DEFINE p == Disarmed("return")
<1>1. \/ page.req # 0 /\ page.phase # "responding" /\ FinishRequest(p, Decision(FALSE, 0))
      \/ page' = p /\ files' = files
  BY DEF ReturnTimer
<1>2. Alike(page, p) /\ Quiet(page, p)
  BY DisarmedAlike
<1>3. Decision(FALSE, 0) \in Decisions
  BY KeyboardConstants DEF Decision, Decisions
<1> HIDE DEF p
<1>4. Held(p)
  BY <1>2, TextNow, QuietShape DEF Shape
<1> QED BY <1>1, <1>2, <1>3, <1>4, FinishAsks, QuietAsks

(* ResultTimer.                                                               *)
LEMMA ResultTimerAsks ==
  ASSUME PageText, ResultTimer
  PROVE  PageAsks
<1> DEFINE p == [page EXCEPT !.result = None]
           q == [p EXCEPT !.uuid = 0, !.closing = @ \cup {page.uuid}]
           r == [p EXCEPT !.uuid = 0, !.closing = @ \cup {p.uuid}]
           s == Succeeded(q, "global")
<1>1. /\ page.result # None
      /\ \/ page' = p /\ files' = files
         \/ Busy("global") /\ FinishRequest(s, page.result.decision)
         \/ page' = q /\ files' = files
  BY DEF ResultTimer
<1>2. page \in PageType /\ page.result.decision \in Decisions
  BY <1>1, TextNow DEF PageType, Results
<1>3. Quiet(page, p) /\ Alike(page, p)
  BY <1>2, ResultQuiet DEF PageType, Alike, SameWord
<1>4. q = r
  BY <1>2 DEF PageType
<1> HIDE DEF p
<1>5. Shape(p) /\ p \in PageType
  BY <1>3, TextNow, QuietShape DEF Shape, Held
<1>6. Shape(r)
  BY <1>5, ClosingShape
<1>7. Alike(p, q)
  BY <1>5 DEF PageType, Alike, SameWord
<1> HIDE DEF q, r
<1>8. Shape(q) /\ q \in PageType /\ Alike(page, q)
  BY <1>3, <1>4, <1>6, <1>7 DEF Shape, Held, Alike, SameWord
<1>9. Shape(s) /\ Alike(q, s)
  BY <1>8, SucceededShape, SucceededAlike DEF Backends
<1> HIDE DEF s
<1>10. CASE Busy("global") /\ FinishRequest(s, page.result.decision)
  <2>1. Alike(page, s) /\ Held(s)
    BY <1>8, <1>9 DEF Alike, SameWord, Shape
  <2> QED BY <1>2, <1>10, <2>1, FinishAsks DEF Busy
<1> QED BY <1>1, <1>3, <1>8, <1>10, QuietAsks

(* Every step of the page.                                                    *)
LEMMA PageNextAsks ==
  ASSUME PageText, PageNext
  PROVE  PageAsks
<1>1. ASSUME NEW t \in Texts, TextareaInput(t) \/ TextareaConfirm(t)
      PROVE  PageAsks
  BY <1>1, TextareaInputAsks, ConfirmAsks
<1>2. ASSUME NEW t \in Texts, TextareaCancel
      PROVE  PageAsks
  BY <1>2, ConfirmAsks
<1>3. CASE TextareaCancel
  BY <1>2, <1>3, KeyboardConstants
<1> QED BY <1>1, <1>3, PollRequestAsks, CompletionAsks, RetryAsks, FocusTimerAsks,
           ProbeTimeoutAsks, SwitchTimerAsks, ReturnTimerAsks, PageHideAsks, ResultTimerAsks,
           SilentAsks DEF PageNext
-----------------------------------------------------------------------------
(* The browser: what the user said stays what is remembered.                  *)

BrowserText == IInv /\ IInv' /\ TextInv /\ Alike(page, page') /\ Remember

(* Only the files of the active request change.                               *)
OnlyActive(g) ==
  \A i \in Ids : i # shell.active =>
    /\ g.update[i] = files.update[i] /\ g.ok[i] = files.ok[i]
    /\ (i \in g.cancel <=> i \in files.cancel) /\ g.status[i] = files.status[i]

LEMMA OnlyActiveUnborn ==
  ASSUME BrowserText, NEW g, OnlyActive(g), NEW next \in Nat, next >= shell.next
  PROVE  Unborn(g, said, next)
<1>1. /\ Unborn(files, said, shell.next) /\ shell.next \in Nat /\ Ids \subseteq Nat
      /\ shell.active # 0 => shell.active < shell.next
  BY ActiveNumber, Numbers DEF BrowserText, TextInv, Asking, AskingWith
<1>2. ASSUME NEW i \in Ids, i >= next
      PROVE  Unasked(g, said, i) /\ g.status[i] = ""
  <2>1. i >= shell.next /\ i # shell.active
    <3>1. i >= shell.next
      BY <1>1, <1>2
    <3>2. shell.active # 0 => i # shell.active
      BY <1>1, <3>1
    <3>3. i # 0
      BY Numbers
    <3> QED BY <3>1, <3>2, <3>3
  <2>2. Unasked(files, said, i) /\ files.status[i] = ""
    BY <1>1, <2>1 DEF Unborn
  <2> QED BY <2>1, <2>2 DEF Unasked, OnlyActive
<1> QED BY <1>2 DEF Unborn

(* The texts of the active request are read one after the other.              *)
LEMMA AnsweringGoesOn ==
  ASSUME NEW a, NEW g, NEW n, NEW got, NEW m, NEW next,
         Answering(page, files, said, a, n, got),
         g.update[a] \in {files.update[a], None}, g.ok[a] \in {files.ok[a], None},
         a \in g.cancel => a \in files.cancel,
         m = n \/ (got # None /\ m = got.sequence),
         next \in {None, got, files.update[a]}
  PROVE  Answering(page, g, said, a, m, next)
<1>1. a \notin page.taken => Unasked(g, said, a) /\ next = None /\ m = 0
  BY DEF Answering, Unasked
<1>2. ASSUME page.req = a
      PROVE  m <= page.sequence /\ Upto(g.update[a], page.sequence) /\ Upto(next, page.sequence)
  BY <1>2 DEF Answering, Upto
<1>3. ASSUME g.ok[a] # None
      PROVE  /\ m <= g.ok[a].sequence
             /\ Upto(g.update[a], g.ok[a].sequence) /\ Upto(next, g.ok[a].sequence)
  BY <1>3 DEF Answering, Upto
<1> QED BY <1>1, <1>2, <1>3 DEF Answering

(* The active request goes on, or another one begins, or there is none.       *)
LEMMA BrowserAsks ==
  ASSUME BrowserText, Unborn(files', said, shell'.next),
         shell'.next \in Nat, shell'.next >= shell.next,
         \/ shell'.active \in {0, shell.active}
         \/ shell'.active \in Ids /\ shell'.active >= shell.next,
         shell'.active # 0 =>
           Answering(page, files', said, shell'.active, shell'.last, shell'.got)
  PROVE  /\ Asking'
         /\ shell'.active # 0 => said'[shell'.active] = said[shell'.active]
<1> DEFINE a == shell.active
           b == shell'.active
<1>1. /\ said' \in [Ids -> Decisions \cup {None}]
      /\ \A i \in Ids :
           /\ i \notin {page'.req, b} => said'[i] = None
           /\ page'.req = i /\ page'.said # None => said'[i] = page'.said
           /\ i \in {page'.req, b} /\ ~(page'.req = i /\ page'.said # None) => said'[i] = said[i]
  BY Remembers DEF BrowserText, TextInv
<1>2. /\ Speaks(page) /\ Unborn(files, said, shell.next)
      /\ a # 0 => Answering(page, files, said, a, shell.last, shell.got)
  BY DEF BrowserText, TextInv, Asking, AskingWith
<1>3. /\ a # 0 => a \in Ids
      /\ shell.next \in Nat /\ Ids \subseteq Nat \ {0}
      /\ page.req # 0 => page.req \in page.taken /\ page.req < shell.next
      /\ IInv
  BY <1>2, ActiveNumber, Numbers DEF Speaks, BrowserText
<1>4. /\ page'.req = page.req /\ page'.said = page.said /\ page'.sequence = page.sequence
      /\ page'.taken = page.taken /\ page'.phase = page.phase /\ page'.answer = page.answer
  BY DEF BrowserText, Alike, SameWord
<1>5. b # 0 => b \in Ids /\ (b = a \/ b # page.req)
  <2>1. CASE b = a
    BY <1>3, <2>1
  <2>2. ASSUME b \in Ids, b >= shell.next
        PROVE  b # page.req
    <3>1. b \in Nat \ {0}
      BY <1>3, <2>2
    <3>2. page.req # 0 => b # page.req
      BY <1>3, <2>2, <3>1
    <3> QED BY <3>1, <3>2
  <2> QED BY <2>1, <2>2
<1>0. shell'.active # 0 =>
        Answering(page, files', said, b, shell'.last, shell'.got)
  OBVIOUS
<1> HIDE DEF a, b
<1>6. b # 0 => said'[b] = said[b]
  <2>1. CASE b = a
    BY <1>1, <1>2, <1>4, <1>5, <2>1 DEF Answering
  <2>2. CASE b # page.req
    BY <1>1, <1>4, <1>5, <2>2
  <2> QED BY <1>5, <2>1, <2>2
<1>7. Speaks(page')
  BY <1>2, <1>4 DEF Speaks
<1>8. ASSUME NEW i \in Ids, i >= shell'.next
      PROVE  Unasked(files', said', i) /\ files'.status[i] = ""
  <2>1. Unasked(files', said, i) /\ files'.status[i] = ""
    BY <1>8 DEF Unborn
  <2>2. i # page.req
    <3>1. i \in Nat \ {0} /\ i >= shell.next
      BY <1>3, <1>8
    <3>2. page.req # 0 => i # page.req
      BY <1>3, <3>1
    <3> QED BY <3>1, <3>2
  <2>3. page'.req # i
    BY <1>4, <2>2
  <2>4. said'[i] = None
    BY <1>1, <2>1, <2>3 DEF Unasked
  <2> QED BY <2>1, <2>4 DEF Unasked
<1>9. Unborn(files', said', shell'.next)
  BY <1>8 DEF Unborn
<1>10. b # 0 => Answering(page', files', said', b, shell'.last, shell'.got)
  BY <1>0, <1>4, <1>6 DEF Answering, Unasked, b
<1> QED BY <1>1, <1>6, <1>7, <1>9, <1>10 DEF Asking, AskingWith, b
-----------------------------------------------------------------------------
(* Whose turn it is.                                                          *)

(* A step of the page changes nothing about that, and reports nothing.        *)
LEMMA PageLands ==
  ASSUME IInv, TextInv, PageAsks, shell' = shell, frame' = frame, wire' = wire
  PROVE  TextInv' /\ Landing
<1>1. Turns /\ Asking' /\ WordKept /\ StatusKept
  BY DEF TextInv, PageAsks
<1>2. shell.active # 0 => shell.active \in Ids
  BY ActiveNumber
<1>3. Reporting(shell, frame, files')
  BY <1>1, <1>2 DEF Turns, TurnsWith, Reporting, StatusKept
<1>4. shell.active # 0 => Final(shell.queued, said'[shell.active]) /\ Final(shell.sent, said'[shell.active])
  BY <1>1 DEF Turns, TurnsWith, Final, WordKept
<1>5. Turns'
  BY <1>1, <1>3, <1>4 DEF Turns, TurnsWith
<1>6. Landing
  BY <1>1 DEF Landing, Reported, StatusKept
<1> QED BY <1>1, <1>5, <1>6 DEF TextInv

(* What is remembered of the active request is all that counts.               *)
LEMMA SaidTurns ==
  ASSUME NEW s, NEW fr, NEW wr, NEW f, NEW w, NEW v, TurnsWith(s, fr, wr, f, w),
         s.active # 0 => v[s.active] = w[s.active]
  PROVE  TurnsWith(s, fr, wr, f, v)
BY DEF TurnsWith

(* Messages that are gone.                                                    *)
LEMMA NoMessages ==
  ASSUME NEW i, NEW n
  PROVE  ~Waits(<<>>, i, n)
<1>1. Len(<<>>) = 0
  BY LenProperties, EmptySeq
<1>2. 1..0 = {}
  OBVIOUS
<1> QED BY <1>1, <1>2 DEF Waits

(* The first message is handled.                                              *)
LEMMA TailWaits ==
  ASSUME NEW wr \in Seq(Messages), wr # <<>>
  PROVE  /\ \A i : \A n \in Nat : Waits(Tail(wr), i, n) => Waits(wr, i, n + 1)
         /\ \A n \in 1..Len(Tail(wr)) : n + 1 \in 1..Len(wr) /\ Tail(wr)[n] = wr[n + 1]
         /\ 1 \in 1..Len(wr) /\ Head(wr) = wr[1]
<1>1. /\ Head(wr) = wr[1] /\ Len(wr) > 0 /\ Len(wr) \in Nat
      /\ Tail(wr) \in Seq(Messages) /\ Len(Tail(wr)) = Len(wr) - 1
      /\ \A i \in 1..Len(Tail(wr)) : Tail(wr)[i] = wr[i + 1]
  BY HeadTailProperties, EmptySeq, LenProperties
<1>2. \A n \in 1..Len(Tail(wr)) : n + 1 \in 1..Len(wr) /\ Tail(wr)[n] = wr[n + 1]
  BY <1>1
<1>3. \A i : \A n \in Nat : Waits(Tail(wr), i, n) => Waits(wr, i, n + 1)
  BY <1>2 DEF Waits
<1>4. 1 \in 1..Len(wr)
  BY <1>1
<1> QED BY <1>1, <1>2, <1>3, <1>4

LEMMA TailTurns ==
  ASSUME NEW s, NEW fr, NEW wr \in Seq(Messages), NEW f, NEW w, wr # <<>>,
         TurnsWith(s, fr, wr, f, w)
  PROVE  /\ TurnsWith(s, fr, Tail(wr), f, w)
         /\ s.active # 0 /\ Waits(wr, s.active, 1) =>
              /\ s.waiter = 0 /\ ~Hears(fr, s.active)
              /\ \A n \in Nat : ~Waits(Tail(wr), s.active, n)
         /\ Head(wr).id < s.next
<1>1. /\ \A i : \A n \in Nat : Waits(Tail(wr), i, n) => Waits(wr, i, n + 1)
      /\ \A n \in 1..Len(Tail(wr)) : n + 1 \in 1..Len(wr) /\ Tail(wr)[n] = wr[n + 1]
      /\ 1 \in 1..Len(wr) /\ Head(wr) = wr[1]
  BY TailWaits
<1>2. Named(fr, wr, s.next) /\ Rested(s) /\ Reporting(s, fr, f)
  BY DEF TurnsWith
<1>3. Named(fr, Tail(wr), s.next)
  BY <1>1, <1>2 DEF Named
<1>4. Head(wr).id < s.next
  BY <1>1, <1>2 DEF Named
<1>5. ASSUME s.active # 0
      PROVE  /\ OneTurn(s, fr, Tail(wr), s.active)
             /\ Waits(wr, s.active, 1) =>
                  /\ s.waiter = 0 /\ ~Hears(fr, s.active)
                  /\ \A n \in Nat : ~Waits(Tail(wr), s.active, n)
  <2> DEFINE a == s.active
  <2>1. OneTurn(s, fr, wr, a)
    BY <1>5 DEF TurnsWith
  <2> HIDE DEF a
  <2>3. \A n \in Nat : Waits(Tail(wr), a, n) => n # 0
    BY DEF Waits
  <2>4. \A n, m \in Nat : n + 1 = m + 1 => n = m
    OBVIOUS
  <2>5. \A n \in Nat : n + 1 \in Nat
    OBVIOUS
  <2>6. s.waiter # 0 \/ Hears(fr, a) => \A n \in Nat : ~Waits(Tail(wr), a, n)
    BY <1>1, <2>1, <2>5 DEF OneTurn
  <2>7. \A n, m \in Nat : Waits(Tail(wr), a, n) /\ Waits(Tail(wr), a, m) => n = m
    BY <1>1, <2>1, <2>4, <2>5 DEF OneTurn
  <2>8. \A n \in Nat : Waits(Tail(wr), a, n) => Tail(wr)[n] = wr[n + 1]
    BY <1>1 DEF Waits
  <2>9. \A n \in Nat : Waits(Tail(wr), a, n) /\ Tail(wr)[n].ack # None /\ fr.field.id = a =>
          fr.field.text = Tail(wr)[n].ack.observed
    BY <1>1, <2>1, <2>5, <2>8 DEF OneTurn
  <2>10. s.kind # "web_input" => \A n \in Nat : ~Waits(Tail(wr), a, n)
    BY <1>1, <2>1, <2>5 DEF OneTurn
  <2>11. OneTurn(s, fr, Tail(wr), a)
    BY <2>1, <2>6, <2>7, <2>9, <2>10 DEF OneTurn
  <2>12. ASSUME Waits(wr, a, 1)
         PROVE  /\ s.waiter = 0 /\ ~Hears(fr, a)
                /\ \A n \in Nat : ~Waits(Tail(wr), a, n)
    <3>1. s.waiter = 0 /\ ~Hears(fr, a)
      BY <2>1, <2>12 DEF OneTurn
    <3>2. ASSUME NEW n \in Nat, Waits(Tail(wr), a, n)
          PROVE  FALSE
      <4>1. Waits(wr, a, n + 1) /\ n + 1 \in Nat /\ n # 0
        BY <1>1, <2>3, <3>2
      <4>2. n + 1 = 1
        BY <2>1, <2>12, <4>1 DEF OneTurn
      <4> QED BY <4>1, <4>2
    <3> QED BY <3>1, <3>2
  <2> QED BY <2>11, <2>12 DEF a
<1>6. TurnsWith(s, fr, Tail(wr), f, w)
  BY <1>2, <1>3, <1>5 DEF TurnsWith
<1> QED BY <1>4, <1>5, <1>6

(* An answer that gives nobody the turn.                                      *)
LEMMA OtherReply ==
  ASSUME NEW s, NEW fr, NEW gr, NEW wr, NEW f, NEW w, TurnsWith(s, fr, wr, f, w),
         gr.field = fr.field,
         \/ gr.reply = fr.reply
         \/ gr.reply.op \notin {"opened", "apply"} /\ gr.reply.id < s.next
  PROVE  TurnsWith(s, gr, wr, f, w)
<1>1. \A i : Hears(gr, i) => Hears(fr, i)
  BY DEF Hears
<1>2. Named(gr, wr, s.next)
  BY DEF TurnsWith, Named
<1>3. Reporting(s, gr, f)
  BY DEF TurnsWith, Reporting
<1>4. s.active # 0 => OneTurn(s, gr, wr, s.active)
  <2> DEFINE a == s.active
  <2>1. a # 0 => OneTurn(s, fr, wr, a)
    BY DEF TurnsWith
  <2> HIDE DEF a
  <2>2. a # 0 => OneTurn(s, gr, wr, a)
    BY <1>1, <2>1 DEF OneTurn
  <2> QED BY <2>2 DEF a
<1> QED BY <1>2, <1>3, <1>4 DEF TurnsWith

(* Reply: the field is as it was.                                             *)
LEMMA ReplyFrame ==
  ASSUME NEW u, NEW doc, NEW cmd \in Commands, PairOK(u)
  PROVE  LET v == Reply(u, doc, cmd)
         IN  /\ v.s = u.s /\ v.f.field = u.f.field
             /\ v.f.reply = u.f.reply \/ v.f.reply = cmd
<1> DEFINE g == [u.f EXCEPT !.reply = cmd]
           v == Reply(u, doc, cmd)
<1>1. /\ u \in [s : ShellType, f : FrameType] /\ u.f \in FrameType
  BY DEF PairOK, Pairs
<1>2. g.field = u.f.field /\ g.reply = cmd
  BY <1>1 DEF FrameType
<1>3. v = u \/ v = [u EXCEPT !.f = g]
  BY <1>1 DEF Reply
<1> HIDE DEF v, g
<1>4. [u EXCEPT !.f = g].s = u.s /\ [u EXCEPT !.f = g].f = g
  BY <1>1
<1> QED BY <1>2, <1>3, <1>4 DEF v
-----------------------------------------------------------------------------
(* The texts that are sent.                                                   *)

PairTurns(u, wr, f, w) == TurnsWith(u.s, u.f, wr, f, w)

(* The round, the text that was read and the field stay.                      *)
SameText(u, v) == SameRound(u, v) /\ v.s.last = u.s.last /\ v.f.field = u.f.field

(* Dispatch: the turn goes from the browser to the script.                    *)
LEMMA DispatchTurns ==
  ASSUME NEW u, NEW wr, NEW f, NEW w, PairOK(u), PairTurns(u, wr, f, w),
         u.s.at # "clear", u.s.active # 0 => u.s.active < u.s.next
  PROVE  PairTurns(Dispatch(u), wr, f, w) /\ SameText(u, Dispatch(u))
<1> DEFINE s == [u.s EXCEPT !.sent = u.s.queued, !.queued = None, !.waiter = 0]
           x == [u EXCEPT !.s = s]
           cmd == Command("apply", u.s.active, u.s.queued)
           v == Reply(x, u.s.waiter, cmd)
           a == u.s.active
<1>1. u \in [s : ShellType, f : FrameType] /\ u.s \in ShellType
  BY DEF PairOK, Pairs
<1>2. CASE u.s.queued = None \/ u.s.sent # None \/ u.s.waiter = 0
  <2>1. Dispatch(u) = u
    BY <1>2 DEF Dispatch
  <2> QED BY <2>1 DEF SameText, SameRound
<1>3. CASE ~(u.s.queued = None \/ u.s.sent # None \/ u.s.waiter = 0)
  <2>1. Dispatch(u) = v
    BY <1>1, <1>3 DEF Dispatch
  <2>2. s \in ShellType /\ s.waiter = 0
    BY <1>1 DEF ShellType
  <2>3. /\ s.active = a /\ s.at = u.s.at /\ s.got = u.s.got /\ s.next = u.s.next
        /\ s.kind = u.s.kind /\ s.last = u.s.last
        /\ s.sent = u.s.queued /\ s.queued = None
    BY <1>1 DEF ShellType
  <2>4. cmd \in Commands /\ cmd.op = "apply" /\ cmd.id = a
    <3>1. u.s.queued \in Applies /\ u.s.active \in Ids \cup {0}
      BY <1>1, <1>3 DEF ShellType
    <3> QED BY <1>3, <3>1 DEF Command, Commands
  <2> HIDE DEF s, cmd
  <2>5. PairOK(x) /\ x.s = s /\ x.f = u.f
    <3>1. u.s.waiter <= u.f.doc /\ u.f.doc \in Nat
      BY <1>1 DEF PairOK, FrameType
    <3> QED BY <2>2, <3>1, SessionKeeps
  <2> HIDE DEF x
  <2>6. v.s = x.s /\ v.f.field = x.f.field /\ (v.f.reply = x.f.reply \/ v.f.reply = cmd)
    BY <2>4, <2>5, ReplyFrame
  <2>7. SameText(u, Dispatch(u))
    <3>1. SameRound(u, Dispatch(u))
      BY DispatchKeeps
    <3> QED BY <2>1, <2>3, <2>5, <2>6, <3>1 DEF SameText
  <2> HIDE DEF v
  <2>8. /\ Rested(u.s) /\ Named(u.f, wr, u.s.next) /\ Reporting(u.s, u.f, f)
        /\ a # 0 => OneTurn(u.s, u.f, wr, a) /\ Final(u.s.queued, w[a]) /\ Final(u.s.sent, w[a])
    BY DEF PairTurns, TurnsWith
  <2>9. a # 0
    BY <1>3, <2>8 DEF Rested
  <2>10. /\ OneTurn(u.s, u.f, wr, a) /\ ~Hears(u.f, a) /\ (\A n \in Nat : ~Waits(wr, a, n))
         /\ u.s.kind = "web_input"
    BY <1>3, <2>8, <2>9 DEF OneTurn
  <2> HIDE DEF a
  <2>11. OneTurn(s, v.f, wr, a)
    BY <2>2, <2>3, <2>10 DEF OneTurn
  <2>12. Named(v.f, wr, s.next)
    BY <2>3, <2>4, <2>5, <2>6, <2>8, <2>9 DEF Named, a
  <2>13. Reporting(s, v.f, f)
    <3>1. f.status[a] = ""
      BY <2>8, <2>9 DEF Reporting, a
    <3>2. \A i \in Ids : f.status[i] = "confirmed" =>
            ~(v.f.reply # None /\ v.f.reply.op = "apply" /\ v.f.reply.id = i)
      BY <2>4, <2>5, <2>6, <2>8, <3>1 DEF Reporting
    <3> QED BY <2>3, <3>1, <3>2 DEF Reporting
  <2>14. Final(s.queued, w[a]) /\ Final(s.sent, w[a])
    BY <2>3, <2>8, <2>9 DEF Final
  <2>15. TurnsWith(s, v.f, wr, f, w)
    BY <2>3, <2>9, <2>11, <2>12, <2>13, <2>14 DEF TurnsWith, Rested
  <2> QED BY <2>1, <2>5, <2>6, <2>7, <2>15 DEF PairTurns
<1> QED BY <1>2, <1>3

(* QueueApply: a text that is committed has to be the final one.              *)
LEMMA QueueTurns ==
  ASSUME NEW u, NEW x \in Applies, NEW wr, NEW f, NEW w, PairOK(u), PairTurns(u, wr, f, w),
         u.s.at # "clear", u.s.active # 0, u.s.active < u.s.next, Final(x, w[u.s.active])
  PROVE  PairTurns(QueueApply(u, x), wr, f, w) /\ SameText(u, QueueApply(u, x))
<1> DEFINE s == [u.s EXCEPT !.queued = x]
           v == [u EXCEPT !.s = s]
<1>1. u \in [s : ShellType, f : FrameType] /\ u.s \in ShellType /\ u.s.waiter <= u.f.doc
  BY DEF PairOK, Pairs
<1>2. QueueApply(u, x) = Dispatch(v)
  BY <1>1 DEF QueueApply
<1>3. s \in ShellType
  BY <1>1 DEF ShellType
<1>4. /\ s.waiter = u.s.waiter /\ s.queued = x /\ s.sent = u.s.sent /\ s.last = u.s.last
      /\ s.active = u.s.active /\ s.at = u.s.at /\ s.got = u.s.got /\ s.next = u.s.next
      /\ s.kind = u.s.kind
  BY <1>1 DEF ShellType
<1> HIDE DEF s
<1>5. PairOK(v) /\ v.s = s /\ v.f = u.f
  BY <1>1, <1>3, <1>4, SessionKeeps
<1> HIDE DEF v
<1>6. TurnsWith(s, u.f, wr, f, w)
  <2>1. /\ Rested(u.s) /\ Named(u.f, wr, u.s.next) /\ Reporting(u.s, u.f, f)
        /\ OneTurn(u.s, u.f, wr, u.s.active) /\ Final(u.s.sent, w[u.s.active])
    BY DEF PairTurns, TurnsWith
  <2>2. OneTurn(s, u.f, wr, s.active)
    BY <1>4, <2>1 DEF OneTurn
  <2>3. Reporting(s, u.f, f)
    BY <1>4, <2>1 DEF Reporting
  <2>4. Rested(s) /\ Named(u.f, wr, s.next) /\ Final(s.queued, w[s.active]) /\ Final(s.sent, w[s.active])
    BY <1>4, <2>1 DEF Rested
  <2> QED BY <2>2, <2>3, <2>4 DEF TurnsWith
<1>7. PairTurns(Dispatch(v), wr, f, w) /\ SameText(v, Dispatch(v))
  BY <1>4, <1>5, <1>6, DispatchTurns DEF PairTurns
<1> QED BY <1>2, <1>4, <1>5, <1>7 DEF SameText, SameRound

(* HandleUpdate: what the user is still writing is not committed.             *)
LEMMA HandleUpdateTurns ==
  ASSUME NEW u, NEW got \in Updates, NEW wr, NEW f, NEW w, PairOK(u), PairTurns(u, wr, f, w),
         u.s.at # "clear", u.s.active # 0, u.s.active < u.s.next
  PROVE  LET v == HandleUpdate(u, got)
         IN  /\ PairTurns(v, wr, f, w) /\ SameRound(u, v) /\ v.f.field = u.f.field
             /\ v.s.last \in {u.s.last, got.sequence}
<1> DEFINE s == [u.s EXCEPT !.last = got.sequence, !.pending = got.text]
           v == [u EXCEPT !.s = s]
           x == Apply(got.text, got.sequence, FALSE)
<1>1. u \in [s : ShellType, f : FrameType] /\ u.s \in ShellType /\ u.s.waiter <= u.f.doc
  BY DEF PairOK, Pairs
<1>2. \/ HandleUpdate(u, got) = u \/ HandleUpdate(u, got) = v
      \/ HandleUpdate(u, got) = QueueApply(v, x)
  BY <1>1 DEF HandleUpdate
<1>3. got.sequence \in Nat /\ got.text \in Texts
  BY DEF Updates
<1>4. s \in ShellType
  BY <1>1, <1>3 DEF ShellType
<1>5. /\ s.waiter = u.s.waiter /\ s.queued = u.s.queued /\ s.sent = u.s.sent
      /\ s.last = got.sequence
      /\ s.active = u.s.active /\ s.at = u.s.at /\ s.got = u.s.got /\ s.next = u.s.next
      /\ s.kind = u.s.kind
  BY <1>1 DEF ShellType
<1>6. x \in Applies /\ ~x.commit
  BY <1>3 DEF Apply, Applies
<1> HIDE DEF s, x
<1>7. PairOK(v) /\ v.s = s /\ v.f = u.f
  BY <1>1, <1>4, <1>5, SessionKeeps
<1> HIDE DEF v
<1>8. TurnsWith(s, u.f, wr, f, w)
  <2>1. /\ Rested(u.s) /\ Named(u.f, wr, u.s.next) /\ Reporting(u.s, u.f, f)
        /\ OneTurn(u.s, u.f, wr, u.s.active) /\ Final(u.s.sent, w[u.s.active])
        /\ Final(u.s.queued, w[u.s.active])
    BY DEF PairTurns, TurnsWith
  <2>2. OneTurn(s, u.f, wr, s.active)
    BY <1>5, <2>1 DEF OneTurn
  <2>3. Reporting(s, u.f, f)
    BY <1>5, <2>1 DEF Reporting
  <2>4. Rested(s) /\ Named(u.f, wr, s.next) /\ Final(s.queued, w[s.active]) /\ Final(s.sent, w[s.active])
    BY <1>5, <2>1 DEF Rested
  <2> QED BY <2>2, <2>3, <2>4 DEF TurnsWith
<1>9. PairTurns(QueueApply(v, x), wr, f, w) /\ SameText(v, QueueApply(v, x))
  BY <1>5, <1>6, <1>7, <1>8, QueueTurns DEF PairTurns, Final
<1>10. SameRound(u, v) /\ SameRound(u, u)
  BY <1>5, <1>7 DEF SameRound
<1>11. SameRound(u, QueueApply(v, x)) /\ QueueApply(v, x).s.last = got.sequence
       /\ QueueApply(v, x).f.field = u.f.field
  BY <1>5, <1>7, <1>9, <1>10 DEF SameText, SameRound
<1> QED BY <1>2, <1>5, <1>7, <1>8, <1>9, <1>10, <1>11 DEF PairTurns

(* Finish: the session is over, nobody has the turn.                          *)
LEMMA FinishTurns ==
  ASSUME NEW u, NEW st \in Statuses, NEW wr, NEW w, PairOK(u), PairTurns(u, wr, files, w),
         files \in FilesType, u.s.active \in Ids \ {0}, u.s.active < u.s.next, Finish(u, st),
         st = "confirmed" => ~Hears(u.f, u.s.active)
  PROVE  /\ TurnsWith(shell', frame', wr, files', w)
         /\ shell'.active = u.s.active /\ shell'.next = u.s.next /\ shell'.last = u.s.last
         /\ shell'.got = u.s.got /\ shell'.did = u.s.did /\ frame'.field = u.f.field
         /\ files'.update = files.update /\ files'.ok = files.ok /\ files'.cancel = files.cancel
         /\ files'.status[u.s.active] = st
         /\ \A i \in Ids : i # u.s.active => files'.status[i] = files.status[i]
<1> DEFINE s == [u.s EXCEPT !.waiter = 0]
           x == [u EXCEPT !.s = s]
           a == u.s.active
           cmd == Command("complete", a, None)
           r == Reply(x, u.s.waiter, cmd)
           v == IF u.s.waiter = 0 THEN u ELSE r
           t == [v.s EXCEPT !.at = "clear"]
           status == [files.status EXCEPT ![a] = st]
<1>1. u \in [s : ShellType, f : FrameType] /\ u.s \in ShellType /\ u.f.doc \in Nat
  BY DEF PairOK, Pairs, FrameType
<1>2. shell' = t /\ frame' = v.f /\ files' = [files EXCEPT !.status = status]
  BY <1>1 DEF Finish, FilesType
<1>3. status[a] = st /\ \A i \in Ids : i # a => status[i] = files.status[i]
  BY DEF FilesType
<1> HIDE DEF status
<1>4. /\ files'.update = files.update /\ files'.ok = files.ok /\ files'.cancel = files.cancel
      /\ files'.status = status
  BY <1>2 DEF FilesType
<1>5. /\ s \in ShellType /\ s.waiter = 0 /\ s.active = u.s.active /\ s.next = u.s.next
      /\ s.kind = u.s.kind /\ s.last = u.s.last /\ s.got = u.s.got /\ s.did = u.s.did
      /\ s.queued = u.s.queued /\ s.sent = u.s.sent
  BY <1>1 DEF ShellType
<1>6. cmd \in Commands /\ cmd.op = "complete" /\ cmd.id = a
  BY DEF Command, Commands
<1> HIDE DEF s, cmd
<1>7. PairOK(x) /\ x.s = s /\ x.f = u.f
  BY <1>1, <1>5, SessionKeeps
<1> HIDE DEF x
<1>8. r.s = s /\ r.f.field = u.f.field /\ (r.f.reply = u.f.reply \/ r.f.reply = cmd)
  BY <1>6, <1>7, ReplyFrame
<1> HIDE DEF r
<1>9. /\ v.s \in ShellType /\ v.s.waiter = 0 /\ v.s.active = u.s.active /\ v.s.next = u.s.next
      /\ v.s.kind = u.s.kind /\ v.s.last = u.s.last /\ v.s.got = u.s.got /\ v.s.did = u.s.did
      /\ v.s.queued = u.s.queued /\ v.s.sent = u.s.sent
      /\ v.f.field = u.f.field /\ (v.f.reply = u.f.reply \/ v.f.reply = cmd)
  BY <1>1, <1>5, <1>8
<1> HIDE DEF v
<1>10. /\ t.waiter = 0 /\ t.active = u.s.active /\ t.next = u.s.next
       /\ t.kind = u.s.kind /\ t.last = u.s.last /\ t.got = u.s.got /\ t.did = u.s.did
       /\ t.queued = u.s.queued /\ t.sent = u.s.sent /\ t.at = "clear"
  BY <1>9 DEF ShellType
<1> HIDE DEF t
<1>11. TurnsWith(u.s, v.f, wr, files, w)
  BY <1>6, <1>9, OtherReply DEF PairTurns
<1>12. /\ Rested(u.s) /\ Named(v.f, wr, u.s.next) /\ Reporting(u.s, v.f, files)
       /\ OneTurn(u.s, v.f, wr, a) /\ Final(u.s.queued, w[a]) /\ Final(u.s.sent, w[a])
  BY <1>11 DEF TurnsWith
<1> HIDE DEF a
<1>13. OneTurn(t, v.f, wr, a)
  BY <1>10, <1>12 DEF OneTurn
<1>14. st = "confirmed" => ~(v.f.reply # None /\ v.f.reply.op = "apply" /\ v.f.reply.id = a)
  BY <1>6, <1>9 DEF Hears, a
<1>15. Reporting(t, v.f, files')
  BY <1>3, <1>4, <1>10, <1>12, <1>14 DEF Reporting
<1>16. TurnsWith(t, v.f, wr, files', w)
  BY <1>10, <1>12, <1>13, <1>15 DEF TurnsWith, Rested, a
<1> QED BY <1>2, <1>3, <1>4, <1>9, <1>10, <1>16 DEF a
-----------------------------------------------------------------------------
(* The browser's actions: what is to be shown of each.                        *)
TextLands == TextInv' /\ Landing

(* Nothing that the user decided is reported, and no field is written to.     *)
LEMMA Harmless ==
  ASSUME \A i \in Ids :
           files'.status[i] \in {files.status[i], "", "expired", "superseded", "failed"},
         frame'.field = frame.field \/ frame'.field.id = 0
  PROVE  Landing
<1>1. ASSUME NEW i \in Ids
      PROVE  /\ ~Reported(i, "confirmed") /\ ~Reported(i, "cancelled")
             /\ frame'.field.id = i => frame'.field = frame.field
  <2>1. i # 0
    BY Numbers
  <2>2. files'.status[i] \in {files.status[i], "", "expired", "superseded", "failed"}
    OBVIOUS
  <2> QED BY <2>1, <2>2 DEF Reported
<1> QED BY <1>1 DEF Landing

(* What is known of the active request.                                       *)
LEMMA ActiveNow ==
  ASSUME BrowserText
  PROVE  /\ TurnsWith(shell, frame, wire, files, said)
         /\ shell.active # 0 => Answering(page, files, said, shell.active, shell.last, shell.got)
         /\ IInv /\ IInv'
BY DEF BrowserText, TextInv, Turns, Asking, AskingWith

(* The session goes on, or there is none any more.                            *)
LEMMA SessionLands ==
  ASSUME BrowserText, OnlyActive(files'), shell'.next = shell.next,
         shell'.active \in {0, shell.active},
         shell'.active # 0 =>
           Answering(page, files', said, shell'.active, shell'.last, shell'.got),
         TurnsWith(shell', frame', wire', files', said), Landing
  PROVE  TextLands
<1>1. shell.next \in Nat
  BY ActiveNow, ActiveNumber
<1>2. Unborn(files', said, shell'.next)
  BY <1>1, OnlyActiveUnborn
<1>3. Asking' /\ (shell'.active # 0 => said'[shell'.active] = said[shell'.active])
  BY <1>1, <1>2, BrowserAsks
<1>4. TurnsWith(shell', frame', wire', files', said')
  BY <1>3, SaidTurns
<1> QED BY <1>3, <1>4 DEF TextLands, TextInv, Turns

(* A request of its own number, of which nobody has heard.                    *)
LEMMA AskLands ==
  ASSUME BrowserText, MayAsk, NEW kind \in {"web_input", "address"}, shell' = Asked(kind),
         files' = [files EXCEPT !.request = shell.next],
         TurnsWith(shell, frame, wire', files, said), frame'.field = frame.field,
         \/ frame'.reply = frame.reply
         \/ kind = "web_input" /\ frame'.reply.op = "opened" /\ frame'.reply.id = shell.next
  PROVE  TextLands
<1> DEFINE n == shell.next
           m == n + 1
           s == Asked(kind)
<1>0. IInv /\ IInv'
  BY ActiveNow
<1>1. n \in Ids /\ n \in Nat /\ m \in Nat \ {0} /\ n < m /\ n # 0 /\ shell.active = 0
  BY Numbers DEF MayAsk
<1>2. s = [shell EXCEPT !.next = m, !.active = n, !.kind = kind, !.last = 0, !.pending = None]
  BY <1>0, BrowserNow DEF Asked, ShellType
<1>3. /\ Rested(shell) /\ Named(frame, wire', n) /\ Reporting(shell, frame, files)
  BY DEF TurnsWith
<1> HIDE DEF m, n, s
<1>4. /\ s.next = m /\ s.active = n /\ s.kind = kind /\ s.last = 0
      /\ s.waiter = 0 /\ s.got = None /\ s.queued = None /\ s.sent = None
  <2>1. shell.waiter = 0 /\ shell.got = None /\ shell.queued = None /\ shell.sent = None
    BY <1>1, <1>3 DEF Rested
  <2> QED BY <1>0, <1>2, <2>1, BrowserNow DEF ShellType
<1>5. /\ files'.update = files.update /\ files'.ok = files.ok /\ files'.cancel = files.cancel
      /\ files'.status = files.status
  BY <1>0, PageNow DEF FilesType
<1>6. Unborn(files', said, m)
  <2>1. OnlyActive(files')
    BY <1>5 DEF OnlyActive
  <2>2. m \in Nat /\ m >= shell.next
    BY <1>1 DEF n
  <2> QED BY <2>1, <2>2, OnlyActiveUnborn
<1>7. Unasked(files, said, n) /\ files.status[n] = "" /\ Speaks(page)
  <2>1. Unborn(files, said, shell.next) /\ Speaks(page)
    BY DEF BrowserText, TextInv, Asking, AskingWith
  <2>2. n >= shell.next
    BY <1>1 DEF n
  <2> QED BY <1>1, <2>1, <2>2 DEF Unborn
<1>8. n \notin page.taken
  <2>1. \A i \in page.taken : i < n
    BY <1>0, ActiveNumber DEF n
  <2> QED BY <1>1, <2>1
<1>9. Answering(page, files', said, n, 0, None)
  BY <1>1, <1>5, <1>7, <1>8 DEF Answering, Unasked, Speaks
<1>10. Asking' /\ said'[n] = said[n]
  <2>1. shell' = s
    BY DEF s
  <2>2. shell'.active \in Ids /\ shell'.active >= shell.next /\ shell'.active = n
    BY <1>1, <1>4, <2>1 DEF n
  <2>3. shell'.next \in Nat /\ shell'.next >= shell.next /\ shell'.next = m
    BY <1>1, <1>4, <2>1 DEF n
  <2>4. Answering(page, files', said, shell'.active, shell'.last, shell'.got)
    BY <1>4, <1>9, <2>1
  <2> QED BY <1>1, <1>6, <2>2, <2>3, <2>4, BrowserAsks
<1>11. frame \in FrameType /\ wire' \in Seq(Messages)
  BY <1>0, BrowserNow DEF IInv, BrowserInv, WireOK
<1>12. Named(frame', wire', m)
  <2>1. frame.reply # None => frame.reply.id \in Nat
    BY <1>11, Numbers DEF FrameType, Commands
  <2>2. frame.field.id \in Nat
    BY <1>11, Numbers DEF FrameType
  <2>3. \A i \in 1..Len(wire') : wire'[i].id \in Nat
    <3>1. \A i \in 1..Len(wire') : wire'[i] \in Messages
      BY <1>11
    <3> QED BY <3>1, Numbers DEF Messages
  <2>4. frame'.reply # None => frame'.reply.id < m
    BY <1>1, <1>3, <2>1 DEF Named, n
  <2>5. frame'.field.id < m
    BY <1>1, <1>3, <2>2 DEF Named
  <2>6. \A i \in 1..Len(wire') : wire'[i].id < m
    BY <1>1, <1>3, <2>3 DEF Named
  <2> QED BY <2>4, <2>5, <2>6 DEF Named
<1>13. OneTurn(s, frame', wire', n)
  <2>1. \A i \in Nat : ~Waits(wire', n, i)
    <3>1. \A i \in 1..Len(wire') : wire'[i].id # n
      BY <1>1, <1>3 DEF Named
    <3> QED BY <3>1 DEF Waits
  <2>2. frame'.field.id # n
    BY <1>1, <1>3 DEF Named
  <2>3. kind # "web_input" => ~Hears(frame', n)
    <3>1. frame.reply # None => frame.reply.id # n
      BY <1>1, <1>3 DEF Named
    <3> QED BY <3>1 DEF Hears
  <2> QED BY <1>4, <2>1, <2>2, <2>3 DEF OneTurn
<1>14. Reporting(s, frame', files')
  <2>1. \A i \in Ids : files'.status[i] = "confirmed" =>
          ~(frame'.reply # None /\ frame'.reply.op = "apply" /\ frame'.reply.id = i)
    BY <1>3, <1>5 DEF Reporting
  <2> QED BY <1>4, <1>5, <1>7, <2>1 DEF Reporting
<1>15. TurnsWith(s, frame', wire', files', said)
  BY <1>1, <1>4, <1>12, <1>13, <1>14 DEF TurnsWith, Rested, Final
<1>16. Landing
  BY <1>5, Harmless
<1>17. TurnsWith(s, frame', wire', files', said')
  BY <1>4, <1>10, <1>15, SaidTurns
<1> QED BY <1>10, <1>16, <1>17 DEF TextLands, TextInv, Turns, s

(* ChromeAsks.                                                                *)
LEMMA ChromeAsksLands ==
  ASSUME BrowserText, ChromeAsks
  PROVE  TextLands
<1>1. /\ MayAsk /\ shell' = Asked("address")
      /\ files' = [files EXCEPT !.request = shell.next]
      /\ frame' = frame /\ wire' = wire
  BY DEF ChromeAsks
<1> QED BY <1>1, ActiveNow, AskLands

(* HandleOpen.                                                                *)
LEMMA HandleOpenLands ==
  ASSUME BrowserText, HandleOpen
  PROVE  TextLands
<1> DEFINE doc == Head(wire).doc
           yes == Command("opened", shell.next, None)
           no == Command("rejected", 0, None)
           v == Reply(Now, doc, yes)
           w == Reply(Now, doc, no)
<1>0. IInv /\ IInv' /\ TurnsWith(shell, frame, wire, files, said)
  BY ActiveNow
<1>1. /\ wire # <<>> /\ wire' = Tail(wire)
      /\ \/ /\ MayAsk /\ shell' = Asked("web_input")
            /\ files' = [files EXCEPT !.request = shell.next]
            /\ frame' = v.f
         \/ frame' = w.f /\ shell' = shell /\ files' = files
  BY DEF HandleOpen
<1>2. TurnsWith(shell, frame, wire', files, said)
  BY <1>0, <1>1, BrowserNow, TailTurns DEF WireOK
<1>3. no \in Commands /\ no.op = "rejected" /\ no.id = 0
  BY DEF Command, Commands
<1>4. MayAsk => yes \in Commands /\ yes.op = "opened" /\ yes.id = shell.next
  BY DEF Command, Commands, MayAsk
<1> HIDE DEF yes, no, doc
<1>5. w.f.field = frame.field /\ (w.f.reply = frame.reply \/ w.f.reply = no)
  BY <1>0, <1>3, BrowserNow, ReplyFrame
<1>6. MayAsk => v.f.field = frame.field /\ (v.f.reply = frame.reply \/ v.f.reply = yes)
  BY <1>0, <1>4, BrowserNow, ReplyFrame
<1> HIDE DEF v, w
<1>7. CASE /\ MayAsk /\ shell' = Asked("web_input")
           /\ files' = [files EXCEPT !.request = shell.next]
           /\ frame' = v.f
  BY <1>2, <1>4, <1>6, <1>7, AskLands
<1>8. CASE frame' = w.f /\ shell' = shell /\ files' = files
  <2>1. 0 < shell.next
    <3>1. shell.next \in Nat \ {0}
      BY <1>0, BrowserNow
    <3> QED BY <3>1
  <2>2. TurnsWith(shell', frame', wire', files', said)
    BY <1>2, <1>3, <1>5, <1>8, <2>1, OtherReply
  <2>3. Landing
    BY <1>5, <1>8, Harmless
  <2>4. OnlyActive(files')
    BY <1>8 DEF OnlyActive
  <2> QED BY <1>8, <2>2, <2>3, <2>4, ActiveNow, SessionLands
<1> QED BY <1>1, <1>7, <1>8
-----------------------------------------------------------------------------
(* The script.                                                                *)

(* Another message is sent.                                                   *)
LEMMA AppendWaits ==
  ASSUME NEW wr \in Seq(Messages), NEW m \in Messages
  PROVE  LET x == Append(wr, m)
         IN  /\ \A i : \A n \in Nat : Waits(x, i, n) =>
                  \/ Waits(wr, i, n) /\ x[n] = wr[n]
                  \/ n = Len(wr) + 1 /\ m.op = "wait" /\ m.id = i /\ x[n] = m
             /\ \A n \in 1..Len(x) : x[n] = m \/ (n \in 1..Len(wr) /\ x[n] = wr[n])
<1> DEFINE x == Append(wr, m)
<1>1. /\ Len(x) = Len(wr) + 1 /\ Len(wr) \in Nat
      /\ \A i \in 1..Len(wr) : x[i] = wr[i]
      /\ x[Len(wr) + 1] = m
  BY AppendProperties, LenProperties
<1> HIDE DEF x
<1>2. \A n \in 1..Len(x) : n = Len(wr) + 1 \/ n \in 1..Len(wr)
  BY <1>1
<1>3. \A n \in 1..Len(x) : x[n] = m \/ (n \in 1..Len(wr) /\ x[n] = wr[n])
  BY <1>1, <1>2
<1>4. ASSUME NEW i, NEW n \in Nat, Waits(x, i, n)
      PROVE  \/ Waits(wr, i, n) /\ x[n] = wr[n]
             \/ n = Len(wr) + 1 /\ m.op = "wait" /\ m.id = i /\ x[n] = m
  BY <1>1, <1>2, <1>4 DEF Waits
<1> QED BY <1>3, <1>4 DEF x

(* A message that is no sign of waiting.                                      *)
LEMMA OpenTurns ==
  ASSUME NEW s, NEW fr, NEW gr, NEW wr \in Seq(Messages), NEW m \in Messages, NEW f, NEW w,
         TurnsWith(s, fr, wr, f, w), m.op = "open", m.id < s.next,
         gr.field = fr.field, gr.reply = fr.reply
  PROVE  TurnsWith(s, gr, Append(wr, m), f, w)
<1> DEFINE x == Append(wr, m)
           a == s.active
<1>1. /\ \A n \in Nat : Waits(x, a, n) => Waits(wr, a, n) /\ x[n] = wr[n]
      /\ \A n \in 1..Len(x) : x[n] = m \/ (n \in 1..Len(wr) /\ x[n] = wr[n])
  BY AppendWaits
<1> HIDE DEF x
<1>2. Named(gr, x, s.next)
  BY <1>1 DEF TurnsWith, Named
<1>3. Reporting(s, gr, f)
  BY DEF TurnsWith, Reporting
<1>4. ASSUME a # 0
      PROVE  OneTurn(s, gr, x, a)
  <2>1. OneTurn(s, fr, wr, a)
    BY <1>4 DEF TurnsWith
  <2>2. Hears(gr, a) <=> Hears(fr, a)
    BY DEF Hears
  <2> HIDE DEF a
  <2> QED BY <1>1, <2>1, <2>2 DEF OneTurn
<1> QED BY <1>2, <1>3, <1>4 DEF TurnsWith, x

(* The script has heard, and waits: the turn goes to its message.             *)
LEMMA WaitTurns ==
  ASSUME NEW s, NEW fr, NEW gr, NEW wr \in Seq(Messages), NEW m \in Messages, NEW f, NEW w,
         TurnsWith(s, fr, wr, f, w), m.op = "wait", Hears(fr, m.id), gr.reply = None,
         \/ m.ack = None /\ gr.field = fr.field
         \/ gr.field.id = m.id /\ gr.field.text = m.ack.observed
  PROVE  TurnsWith(s, gr, Append(wr, m), f, w)
<1> DEFINE x == Append(wr, m)
           a == s.active
<1>0. /\ \A i : \A n \in Nat : Waits(x, i, n) =>
           \/ Waits(wr, i, n) /\ x[n] = wr[n]
           \/ n = Len(wr) + 1 /\ m.op = "wait" /\ m.id = i /\ x[n] = m
      /\ \A n \in 1..Len(x) : x[n] = m \/ (n \in 1..Len(wr) /\ x[n] = wr[n])
  BY AppendWaits
<1> HIDE DEF x
<1>1. /\ \A n \in Nat : Waits(x, a, n) =>
           \/ Waits(wr, a, n) /\ x[n] = wr[n]
           \/ n = Len(wr) + 1 /\ m.id = a /\ x[n] = m
      /\ \A n \in 1..Len(x) : x[n] = m \/ (n \in 1..Len(wr) /\ x[n] = wr[n])
  BY <1>0
<1>2. fr.reply # None /\ fr.reply.id = m.id
  BY DEF Hears
<1>3. Named(gr, x, s.next)
  <2>1. m.id < s.next /\ gr.field.id < s.next
    BY <1>2 DEF TurnsWith, Named
  <2> QED BY <1>1, <2>1 DEF TurnsWith, Named
<1>4. Reporting(s, gr, f)
  BY DEF TurnsWith, Reporting
<1>5. ~Hears(gr, a)
  BY DEF Hears
<1>6. ASSUME a # 0
      PROVE  OneTurn(s, gr, x, a)
  <2>1. OneTurn(s, fr, wr, a)
    BY <1>6 DEF TurnsWith
  <2> HIDE DEF a
  <2>2. CASE m.id = a
    <3>1. /\ \A n \in Nat : ~Waits(wr, a, n)
          /\ s.waiter = 0 /\ s.kind = "web_input"
      BY <2>1, <2>2 DEF OneTurn
    <3>2. \A n \in Nat : Waits(x, a, n) => n = Len(wr) + 1 /\ x[n] = m
      BY <1>1, <3>1
    <3>3. m.ack # None => gr.field.text = m.ack.observed
      OBVIOUS
    <3> QED BY <1>5, <3>1, <3>2, <3>3 DEF OneTurn
  <2>3. CASE m.id # a
    <3>1. \A n \in Nat : Waits(x, a, n) => Waits(wr, a, n) /\ x[n] = wr[n]
      BY <1>1, <2>3
    <3>2. gr.field = fr.field \/ gr.field.id # a
      BY <2>3
    <3> QED BY <1>5, <2>1, <3>1, <3>2 DEF OneTurn
  <2> QED BY <2>2, <2>3
<1> QED BY <1>3, <1>4, <1>6 DEF TurnsWith, x

(* What the script has heard says nothing to it.                              *)
LEMMA SilentTurns ==
  ASSUME NEW s, NEW fr, NEW gr, NEW wr, NEW f, NEW w, TurnsWith(s, fr, wr, f, w),
         gr.field = fr.field, gr.reply = None
  PROVE  TurnsWith(s, gr, wr, f, w)
<1> DEFINE a == s.active
<1>1. ~Hears(gr, a)
  BY DEF Hears
<1>2. Named(gr, wr, s.next) /\ Reporting(s, gr, f)
  BY DEF TurnsWith, Named, Reporting
<1>3. ASSUME a # 0
      PROVE  OneTurn(s, gr, wr, a)
  <2>1. OneTurn(s, fr, wr, a)
    BY <1>3 DEF TurnsWith
  <2> HIDE DEF a
  <2> QED BY <1>1, <2>1 DEF OneTurn
<1> QED BY <1>2, <1>3 DEF TurnsWith

(* FrameAsks.                                                                 *)
LEMMA FrameAsksLands ==
  ASSUME BrowserText, FrameAsks
  PROVE  TextLands
<1> DEFINE m == [doc |-> frame.doc, op |-> "open", id |-> 0, ack |-> None]
           g == [frame EXCEPT !.busy = TRUE]
<1>0. IInv /\ TurnsWith(shell, frame, wire, files, said)
  BY ActiveNow
<1>1. frame' = g /\ wire' = Append(wire, m) /\ files' = files /\ shell' = shell
  BY DEF FrameAsks, Post
<1>2. m \in Messages /\ m.op = "open" /\ m.id = 0
  BY <1>0, BrowserNow DEF Messages
<1>3. g.field = frame.field /\ g.reply = frame.reply
  BY <1>0, BrowserNow DEF FrameType
<1> HIDE DEF m, g
<1>4. 0 < shell.next
  <2>1. shell.next \in Nat \ {0}
    BY <1>0, BrowserNow
  <2> QED BY <2>1
<1>5. wire \in Seq(Messages)
  BY <1>0, BrowserNow DEF WireOK
<1>6. TurnsWith(shell, g, Append(wire, m), files, said)
  BY <1>0, <1>2, <1>3, <1>4, <1>5, OpenTurns
<1>7. Landing
  BY <1>1, <1>3, Harmless
<1>8. OnlyActive(files')
  BY <1>1 DEF OnlyActive
<1> QED BY <1>1, <1>6, <1>7, <1>8, ActiveNow, SessionLands

(* FrameHears.                                                                *)
LEMMA FrameHearsLands ==
  ASSUME BrowserText, FrameHears
  PROVE  TextLands
<1> DEFINE c == frame.reply
           heard == [frame EXCEPT !.reply = None]
<1>0. IInv /\ TurnsWith(shell, frame, wire, files, said)
  BY ActiveNow
<1>1. c # None /\ files' = files /\ shell' = shell
  BY DEF FrameHears
<1>2. c \in Commands /\ c.id \in Ids \cup {0}
  <2>1. c \in Commands
    BY <1>0, <1>1, BrowserNow DEF FrameType
  <2> QED BY <2>1 DEF Commands
<1>3. heard \in FrameType /\ heard.field = frame.field /\ heard.reply = None
  BY <1>0, BrowserNow DEF FrameType
<1>4. wire \in Seq(Messages) /\ frame.doc \in Nat
  BY <1>0, BrowserNow DEF WireOK
<1>5. ASSUME TurnsWith(shell, frame', wire', files, said), Landing
      PROVE  TextLands
  <2>1. OnlyActive(files')
    BY <1>1 DEF OnlyActive
  <2> QED BY <1>1, <1>5, <2>1, ActiveNow, SessionLands
<1>6. CASE c.op = "opened"
  <2> DEFINE m == [doc |-> frame.doc, op |-> "wait", id |-> c.id, ack |-> None]
  <2>1. frame' = heard /\ wire' = Append(wire, m)
    BY <1>6 DEF FrameHears, Post
  <2>2. m \in Messages /\ m.op = "wait" /\ m.id = c.id /\ m.ack = None
    BY <1>2, <1>4 DEF Messages
  <2>3. Hears(frame, c.id)
    BY <1>1, <1>6 DEF Hears
  <2> HIDE DEF m, heard
  <2>4. TurnsWith(shell, heard, Append(wire, m), files, said)
    BY <1>0, <1>3, <1>4, <2>2, <2>3, WaitTurns
  <2>5. Landing
    BY <1>1, <1>3, <2>1, Harmless
  <2> QED BY <1>5, <2>1, <2>4, <2>5
<1>7. CASE c.op = "apply"
  <2>1. c.apply \in Applies
    BY <1>0, <1>1, <1>2, <1>7, BrowserNow DEF Commands, PairOK
  <2>2. frame.field \in [id : Ids \cup {0}, text : Texts]
    BY <1>0, BrowserNow DEF FrameType
  <2>3. c.apply.text \in Texts /\ c.apply.sequence \in Nat /\ frame.field.text \in Texts
    BY <2>1, <2>2 DEF Applies
  <2>4. \E shown \in {c.apply.text, frame.field.text} :
          /\ frame' = [heard EXCEPT !.field = [id |-> c.id, text |-> shown]]
          /\ Post("wait", c.id, [sequence |-> c.apply.sequence, observed |-> shown,
                                 applied |-> shown = c.apply.text])
    BY <1>7 DEF FrameHears
  <2>5. PICK shown \in Texts :
          /\ frame' = [heard EXCEPT !.field = [id |-> c.id, text |-> shown]]
          /\ Post("wait", c.id, [sequence |-> c.apply.sequence, observed |-> shown,
                                 applied |-> shown = c.apply.text])
    BY <2>3, <2>4
  <2> DEFINE applied == shown = c.apply.text
             ack == [sequence |-> c.apply.sequence, observed |-> shown, applied |-> applied]
             field == [id |-> c.id, text |-> shown]
             g == [heard EXCEPT !.field = field]
             m == [doc |-> frame.doc, op |-> "wait", id |-> c.id, ack |-> ack]
  <2>6. wire' = Append(wire, m) /\ frame' = g
    BY <2>5 DEF Post
  <2>7. applied \in BOOLEAN
    OBVIOUS
  <2>8. Hears(frame, c.id)
    BY <1>1, <1>7 DEF Hears
  <2>12. \A i \in Ids : files.status[i] = "confirmed" => c.id # i
    BY <1>0, <1>1, <1>7 DEF TurnsWith, Reporting
  <2> HIDE DEF c, heard, applied
  <2>9. ack \in Acks /\ ack.observed = shown
    BY <2>3, <2>7 DEF Acks
  <2>10. field.id = c.id /\ field.text = shown
    OBVIOUS
  <2> HIDE DEF ack, field
  <2>11. g.field = field /\ g.reply = None
    BY <1>3 DEF FrameType
  <2>13. m \in Messages /\ m.op = "wait" /\ m.id = c.id /\ m.ack = ack
    BY <1>2, <1>4, <2>9 DEF Messages
  <2> HIDE DEF g, m
  <2>14. TurnsWith(shell, g, Append(wire, m), files, said)
    BY <1>0, <1>4, <2>8, <2>9, <2>10, <2>11, <2>13, WaitTurns
  <2>15. Landing
    BY <1>1, <2>6, <2>10, <2>11, <2>12 DEF Landing, Reported
  <2> QED BY <1>5, <2>6, <2>14, <2>15
<1>8. CASE c.op \notin {"opened", "apply"}
  <2> DEFINE g == [heard EXCEPT !.busy = FALSE]
  <2>1. (frame' = heard \/ frame' = g) /\ wire' = wire
    BY <1>8 DEF FrameHears
  <2> HIDE DEF c, heard
  <2>2. g.field = frame.field /\ g.reply = None
    BY <1>3 DEF FrameType
  <2> HIDE DEF g
  <2>3. TurnsWith(shell, frame', wire, files, said) /\ frame'.field = frame.field
    BY <1>0, <1>3, <2>1, <2>2, SilentTurns
  <2>4. Landing
    BY <1>1, <2>3, Harmless
  <2> QED BY <1>5, <2>1, <2>3, <2>4
<1> QED BY <1>6, <1>7, <1>8
-----------------------------------------------------------------------------
(* The script waits for the next command.                                     *)

(* The session waits, or has nothing in flight.                               *)
Kept(u, v) == v.f = u.f /\ v.s.queued = u.s.queued /\ v.s.last = u.s.last
Stored(u, v) == Kept(u, v) /\ v.s.sent = u.s.sent
Acked(u, v) == Kept(u, v) /\ v.s.sent = None

LEMMA FieldText ==
  ASSUME NEW u, PairOK(u), NEW n
  PROVE  /\ Stored(u, [u EXCEPT !.s.waiter = n])
         /\ Acked(u, [u EXCEPT !.s.sent = None])
<1> DEFINE a == [u.s EXCEPT !.waiter = n]
           b == [u.s EXCEPT !.sent = None]
           v == [u EXCEPT !.s = a]
           x == [u EXCEPT !.s = b]
<1>1. u \in [s : ShellType, f : FrameType] /\ u.s \in ShellType
  BY DEF PairOK, Pairs
<1>2. [u EXCEPT !.s.waiter = n] = v /\ [u EXCEPT !.s.sent = None] = x
  BY <1>1
<1>3. /\ a.sent = u.s.sent /\ a.queued = u.s.queued /\ a.last = u.s.last
      /\ b.sent = None /\ b.queued = u.s.queued /\ b.last = u.s.last
  BY <1>1 DEF ShellType
<1> HIDE DEF a, b
<1>4. v.s = a /\ v.f = u.f /\ x.s = b /\ x.f = u.f
  BY <1>1
<1> HIDE DEF v, x
<1>5. Stored(u, v) /\ Acked(u, x)
  BY <1>3, <1>4 DEF Stored, Acked, Kept
<1> QED BY <1>2, <1>5

(* The frame that waits has the turn no more, and nobody else has it.         *)
LEMMA StoredTurns ==
  ASSUME NEW u, NEW wr, NEW f, NEW w, TurnsWith(shell, frame, wr, f, w), shell.active # 0,
         shell.kind = "web_input", ~Hears(frame, shell.active),
         \A n \in Nat : ~Waits(wr, shell.active, n),
         SameRound(Now, u), u.f = frame, u.s.queued = shell.queued,
         u.s.sent = shell.sent \/ u.s.sent = None
  PROVE  PairTurns(u, wr, f, w)
<1> DEFINE a == shell.active
           s == u.s
<1>1. s.active = a /\ s.at = shell.at /\ s.next = shell.next /\ s.kind = shell.kind
  BY DEF SameRound, Now
<1>2. /\ Named(frame, wr, shell.next) /\ Reporting(shell, frame, f)
      /\ Final(shell.queued, w[a]) /\ Final(shell.sent, w[a])
  BY DEF TurnsWith
<1>3. s.queued = shell.queued /\ (s.sent = shell.sent \/ s.sent = None) /\ a # 0
  OBVIOUS
<1>4. OneTurn(s, frame, wr, a)
  BY <1>1 DEF OneTurn
<1> HIDE DEF a, s
<1>5. Final(s.queued, w[a]) /\ Final(s.sent, w[a])
  BY <1>2, <1>3 DEF Final
<1>6. Reporting(s, frame, f)
  BY <1>1, <1>2 DEF Reporting, a
<1>7. TurnsWith(s, frame, wr, f, w)
  BY <1>1, <1>2, <1>3, <1>4, <1>5, <1>6 DEF TurnsWith, Rested
<1> QED BY <1>7 DEF PairTurns, s

(* A pair the session becomes, while the files stay.                          *)
LEMMA BecomesLands ==
  ASSUME BrowserText, NEW u, Becomes(u), files' = files,
         PairTurns(u, wire', files, said), SameText(Now, u)
  PROVE  TextLands
<1>1. shell' = u.s /\ frame' = u.f
  BY DEF Becomes
<1>2. /\ shell'.active = shell.active /\ shell'.next = shell.next /\ shell'.last = shell.last
      /\ shell'.got = shell.got /\ frame'.field = frame.field
  BY <1>1 DEF SameText, SameRound, Now
<1>3. TurnsWith(shell', frame', wire', files', said)
  BY <1>1 DEF PairTurns
<1>4. Landing
  BY <1>2, Harmless
<1>5. OnlyActive(files')
  BY DEF OnlyActive
<1> QED BY <1>2, <1>3, <1>4, <1>5, ActiveNow, SessionLands

(* The confirmation is reported when the field shows the text.                *)
LEMMA VerifiedLands ==
  ASSUME BrowserText, NEW u, NEW m, PairOK(u), SameRound(Now, u), u.f = frame,
         u.s.last = shell.last, PairTurns(u, wire', files, said),
         shell.active # 0, shell.kind = "web_input", ~Hears(frame, shell.active),
         shell.sent # None, shell.sent.commit,
         frame.field.id = shell.active => frame.field.text = m.ack.observed,
         Finish(u, IF Verified(m.ack) THEN "confirmed" ELSE "failed")
  PROVE  TextLands
<1> DEFINE a == shell.active
           st == IF Verified(m.ack) THEN "confirmed" ELSE "failed"
<1>0. IInv /\ TurnsWith(shell, frame, wire, files, said)
  BY ActiveNow
<1>1. /\ u.s.active = a /\ u.s.next = shell.next /\ u.s.got = shell.got
  BY DEF SameRound, Now
<1>2. a \in Ids /\ a # 0 /\ a < shell.next /\ files \in FilesType
  BY <1>0, ActiveNumber, PageNow
<1>3. st \in Statuses
  BY DEF Statuses
<1>4. Final(shell.sent, said[a])
  BY <1>0 DEF TurnsWith
<1>5. st = "confirmed" /\ frame.field.id = a => frame.field.text = said[a].text
  BY <1>4 DEF Verified, Final
<1>6. said[a] # None /\ said[a].confirmed
  BY <1>4 DEF Final
<1>7. ~Hears(u.f, u.s.active) /\ u.s.active \in Ids \ {0} /\ u.s.active < u.s.next /\ Finish(u, st)
  BY <1>1, <1>2
<1>8. st \in {"confirmed", "failed"}
  OBVIOUS
<1> HIDE DEF st, a
<1>9. /\ TurnsWith(shell', frame', wire', files', said)
      /\ shell'.active = u.s.active /\ shell'.next = u.s.next /\ shell'.last = u.s.last
      /\ shell'.got = u.s.got /\ frame'.field = u.f.field
      /\ files'.update = files.update /\ files'.ok = files.ok /\ files'.cancel = files.cancel
      /\ files'.status[u.s.active] = st
      /\ \A i \in Ids : i # u.s.active => files'.status[i] = files.status[i]
  BY <1>2, <1>3, <1>7, FinishTurns
<1>10. Landing
  <2>1. ASSUME NEW i \in Ids
        PROVE  /\ Reported(i, "confirmed") =>
                    /\ said[i] # None /\ said[i].confirmed
                    /\ shell.kind # "address"
                    /\ frame.field.id = i => frame.field.text = said[i].text
               /\ ~Reported(i, "cancelled") /\ frame'.field = frame.field
    BY <1>1, <1>5, <1>6, <1>8, <1>9 DEF Reported
  <2> QED BY <2>1 DEF Landing
<1>11. OnlyActive(files')
  BY <1>1, <1>9 DEF OnlyActive, a
<1>12. Answering(page, files', said, a, shell'.last, shell'.got)
  <2>1. Answering(page, files, said, a, shell.last, shell.got)
    BY <1>2, ActiveNow DEF a
  <2> QED BY <1>1, <1>9, <2>1 DEF Answering, Unasked
<1> QED BY <1>1, <1>9, <1>10, <1>11, <1>12, SessionLands DEF a

(* HandleWait.                                                                *)
LEMMA HandleWaitLands ==
  ASSUME BrowserText, HandleWait
  PROVE  TextLands
<1> DEFINE m == Head(wire)
           expired == Command("expired", m.id, None)
           stale == Command("stale", m.id, None)
           acked == [Now EXCEPT !.s.sent = None]
           w == [Now EXCEPT !.s.waiter = m.doc]
           wa == [acked EXCEPT !.s.waiter = m.doc]
           a == shell.active
           fits == m.id = a /\ shell.kind = "web_input"
<1>0. IInv /\ TurnsWith(shell, frame, wire, files, said)
  BY ActiveNow
<1>1. /\ Between /\ wire # <<>> /\ wire' = Tail(wire) /\ m.op = "wait"
      /\ \/ Becomes(Reply(Now, m.doc, expired)) /\ files' = files
         \/ fits /\ Becomes(Dispatch(w)) /\ files' = files
         \/ Becomes(Reply(Now, m.doc, stale)) /\ files' = files
         \/ /\ fits /\ shell.sent # None /\ m.ack # None /\ shell.sent.commit
            /\ Finish(wa, IF Verified(m.ack) THEN "confirmed" ELSE "failed")
         \/ fits /\ Becomes(Dispatch(wa)) /\ files' = files
  BY DEF HandleWait
<1>2. m \in Messages /\ m.doc <= frame.doc /\ wire \in Seq(Messages)
  BY <1>0, <1>1, BrowserNow, WireKeeps DEF WireOK
<1>3. m.id \in Ids \cup {0} /\ m.doc \in 0..frame.doc
  BY <1>0, <1>2, BrowserNow DEF Messages
<1>4. /\ expired \in Commands /\ expired.op = "expired" /\ expired.id = m.id
      /\ stale \in Commands /\ stale.op = "stale" /\ stale.id = m.id
  BY <1>3 DEF Command, Commands
<1>5. Now.s = shell /\ Now.f = frame /\ PairOK(Now)
  BY <1>0, BrowserNow
<1>6. /\ TurnsWith(shell, frame, wire', files, said)
      /\ a # 0 /\ Waits(wire, a, 1) =>
           ~Hears(frame, a) /\ \A n \in Nat : ~Waits(wire', a, n)
      /\ m.id < shell.next
  BY <1>0, <1>1, <1>2, TailTurns
<1>7. 1 \in 1..Len(wire) /\ m = wire[1]
  BY <1>1, <1>2, TailWaits
<1>8. fits => /\ a # 0 /\ a \in Ids /\ a < shell.next /\ shell.kind = "web_input"
              /\ Waits(wire, a, 1)
  <2>1. shell.kind = "web_input" => shell.active # 0
    BY <1>0, BrowserNow DEF RoundOK
  <2>2. m.id = a => Waits(wire, a, 1)
    BY <1>1, <1>7 DEF Waits
  <2> QED BY <1>0, <2>1, <2>2, ActiveNumber
<1>9. a # 0 /\ Waits(wire, a, 1) /\ m.ack # None /\ frame.field.id = a =>
        frame.field.text = m.ack.observed
  <2>1. a # 0 => OneTurn(shell, frame, wire, a)
    BY <1>0 DEF TurnsWith
  <2> QED BY <1>7, <2>1 DEF OneTurn
<1> HIDE DEF m, expired, stale
<1>10. /\ PairOK(w) /\ SameRound(Now, w) /\ w.f = frame
       /\ w.s.sent = shell.sent /\ w.s.queued = shell.queued /\ w.s.last = shell.last
       /\ PairOK(acked) /\ SameRound(Now, acked) /\ acked.f = frame
       /\ acked.s.sent = None /\ acked.s.queued = shell.queued /\ acked.s.last = shell.last
  <2>1. /\ PairOK(w) /\ SameRound(Now, w)
        /\ PairOK(acked) /\ SameRound(Now, acked)
    BY <1>3, <1>5, FieldKeeps
  <2>2. Stored(Now, w) /\ Acked(Now, acked)
    BY <1>5, FieldText
  <2> HIDE DEF w, acked
  <2> QED BY <1>5, <2>1, <2>2 DEF Stored, Acked, Kept
<1> HIDE DEF acked, w
<1>11. /\ PairOK(wa) /\ SameRound(Now, wa) /\ wa.f = frame
       /\ wa.s.sent = None /\ wa.s.queued = shell.queued /\ wa.s.last = shell.last
  <2>1. PairOK(wa) /\ SameRound(acked, wa)
    BY <1>3, <1>10, FieldKeeps
  <2>2. Stored(acked, wa)
    BY <1>10, FieldText
  <2>3. SameRound(Now, wa)
    BY <1>10, <2>1 DEF SameRound
  <2> HIDE DEF wa
  <2> QED BY <1>10, <2>1, <2>2, <2>3 DEF Stored, Kept
<1> HIDE DEF wa
<1>12. fits => PairTurns(w, wire', files, said) /\ PairTurns(wa, wire', files, said)
  <2>1. ASSUME fits
        PROVE  /\ a # 0 /\ shell.kind = "web_input" /\ ~Hears(frame, a)
               /\ \A n \in Nat : ~Waits(wire', a, n)
    BY <1>6, <1>8, <2>1
  <2> QED BY <1>6, <1>10, <1>11, <2>1, StoredTurns
<1>13. ASSUME NEW u, PairOK(u), SameRound(Now, u), u.f = frame, u.s.last = shell.last,
              PairTurns(u, wire', files, said), fits, Becomes(Dispatch(u)), files' = files
       PROVE  TextLands
  <2>1. u.s.at # "clear" /\ (u.s.active # 0 => u.s.active < u.s.next)
    BY <1>1, <1>8, <1>13 DEF SameRound, Now, Between
  <2>2. PairTurns(Dispatch(u), wire', files, said) /\ SameText(u, Dispatch(u))
    BY <1>13, <2>1, DispatchTurns
  <2>3. SameText(Now, Dispatch(u))
    BY <1>5, <1>13, <2>2 DEF SameText, SameRound
  <2> QED BY <1>13, <2>2, <2>3, BecomesLands
<1>14. ASSUME NEW cmd \in Commands, cmd.op \in {"expired", "stale"}, cmd.id = m.id,
              Becomes(Reply(Now, m.doc, cmd)), files' = files
       PROVE  TextLands
  <2> DEFINE v == Reply(Now, m.doc, cmd)
  <2>1. v.s = shell /\ v.f.field = frame.field /\ (v.f.reply = frame.reply \/ v.f.reply = cmd)
    BY <1>5, <1>14, ReplyFrame
  <2>2. Becomes(v)
    BY <1>14
  <2>5. SameRound(Now, v)
    BY <1>5, <1>14, ReplyKeeps
  <2> HIDE DEF v
  <2>3. PairTurns(v, wire', files, said)
    BY <1>6, <1>14, <2>1, OtherReply DEF PairTurns
  <2>4. SameText(Now, v)
    BY <1>5, <2>1, <2>5 DEF SameText
  <2> QED BY <1>14, <2>2, <2>3, <2>4, BecomesLands
<1>15. CASE /\ fits /\ shell.sent # None /\ m.ack # None /\ shell.sent.commit
            /\ Finish(wa, IF Verified(m.ack) THEN "confirmed" ELSE "failed")
  <2>1. a # 0 /\ shell.kind = "web_input" /\ ~Hears(frame, a)
    BY <1>6, <1>8, <1>15
  <2>2. frame.field.id = a => frame.field.text = m.ack.observed
    BY <1>8, <1>9, <1>15
  <2> QED BY <1>11, <1>12, <1>15, <2>1, <2>2, VerifiedLands
<1> HIDE DEF fits
<1> QED BY <1>1, <1>4, <1>10, <1>11, <1>12, <1>13, <1>14, <1>15
-----------------------------------------------------------------------------
(* A round of the browser.                                                    *)

(* Files that say the same of the requests that are over.                     *)
LEMMA FilesTurns ==
  ASSUME NEW s, NEW fr, NEW wr, NEW f, NEW g, NEW w, TurnsWith(s, fr, wr, f, w),
         \A i \in Ids : g.status[i] = f.status[i], s.active \in Ids \cup {0}
  PROVE  TurnsWith(s, fr, wr, g, w)
<1>1. Reporting(s, fr, g)
  BY DEF TurnsWith, Reporting
<1> QED BY <1>1 DEF TurnsWith

(* Where the round is does not matter.                                        *)
LEMMA RoundTurns ==
  ASSUME NEW s, NEW t, NEW fr, NEW wr, NEW f, NEW w, TurnsWith(s, fr, wr, f, w),
         s.active # 0, t.active = s.active, t.next = s.next, t.kind = s.kind,
         t.waiter = s.waiter, t.queued = s.queued, t.sent = s.sent, s.at # "clear"
  PROVE  TurnsWith(t, fr, wr, f, w)
<1> DEFINE a == s.active
<1>1. /\ Named(fr, wr, s.next) /\ Reporting(s, fr, f)
      /\ OneTurn(s, fr, wr, a) /\ Final(s.queued, w[a]) /\ Final(s.sent, w[a])
  BY DEF TurnsWith
<1>2. a # 0 /\ t.active = a
  OBVIOUS
<1>3. Reporting(t, fr, f)
  BY <1>1 DEF Reporting
<1> HIDE DEF a
<1>4. OneTurn(t, fr, wr, a)
  BY <1>1 DEF OneTurn
<1> QED BY <1>1, <1>2, <1>3, <1>4 DEF TurnsWith, Rested

(* TickReads.                                                                 *)
LEMMA TickReadsLands ==
  ASSUME BrowserText, TickReads
  PROVE  TextLands
<1> DEFINE a == shell.active
           got == files.update[a]
           at == IF got = None THEN "ok" ELSE "update"
           s == [shell EXCEPT !.got = got, !.at = at]
<1>0. IInv /\ TurnsWith(shell, frame, wire, files, said)
  BY ActiveNow
<1>1. /\ Between /\ a # 0 /\ shell' = s /\ files' = files /\ frame' = frame /\ wire' = wire
  BY DEF TickReads
<1>2. Answering(page, files, said, a, shell.last, shell.got)
  BY <1>1, ActiveNow
<1>3. Answering(page, files, said, a, shell.last, got)
  <2>1. \A x, y, z : y \in {x, None} <=> y = x \/ y = None
    OBVIOUS
  <2> QED BY <1>2, AnsweringGoesOn
<1> HIDE DEF got, at
<1>4. /\ s.active = a /\ s.waiter = shell.waiter /\ s.next = shell.next /\ s.kind = shell.kind
      /\ s.queued = shell.queued /\ s.sent = shell.sent /\ s.last = shell.last /\ s.got = got
  BY <1>0, BrowserNow DEF ShellType
<1> HIDE DEF s, a
<1>5. TurnsWith(s, frame, wire, files, said)
  BY <1>0, <1>1, <1>4, RoundTurns DEF Between, a
<1>6. Landing
  BY <1>1, Harmless
<1>7. OnlyActive(files')
  BY <1>1 DEF OnlyActive
<1> QED BY <1>1, <1>3, <1>4, <1>5, <1>6, <1>7, SessionLands DEF a

(* TickUpdate.                                                                *)
LEMMA TickUpdateLands ==
  ASSUME BrowserText, TickUpdate
  PROVE  TextLands
<1> DEFINE u == HandleUpdate(Now, shell.got)
           s == [u.s EXCEPT !.at = "ok", !.got = None]
           v == [u EXCEPT !.s = s]
           a == shell.active
           update == [files.update EXCEPT ![a] = None]
<1>0. IInv /\ TurnsWith(shell, frame, wire, files, said)
  BY ActiveNow
<1>1. /\ shell.at = "update" /\ wire' = wire
      /\ files' = [files EXCEPT !.update[a] = None]
      /\ Becomes([u EXCEPT !.s.at = "ok", !.s.got = None])
  BY DEF TickUpdate
<1>2. a \in Ids /\ a # 0 /\ a < shell.next /\ shell.got \in Updates /\ shell.got # None
  BY <1>0, <1>1, BrowserNow, ActiveNumber DEF RoundOK, ShellType
<1>3. Answering(page, files, said, a, shell.last, shell.got)
  BY <1>2, ActiveNow
<1>4. Now.s = shell /\ Now.f = frame /\ PairOK(Now) /\ files \in FilesType
  BY <1>0, BrowserNow, PageNow
<1>5. /\ PairTurns(u, wire, files, said) /\ SameRound(Now, u) /\ u.f.field = frame.field
      /\ u.s.last \in {shell.last, shell.got.sequence} /\ PairOK(u)
  <2>1. PairTurns(Now, wire, files, said)
    BY <1>0, <1>4 DEF PairTurns
  <2>2. Now.s.at # "clear" /\ Now.s.active # 0 /\ Now.s.active < Now.s.next
    BY <1>1, <1>2, <1>4
  <2>3. /\ PairTurns(u, wire, files, said) /\ SameRound(Now, u) /\ u.f.field = Now.f.field
        /\ u.s.last \in {Now.s.last, shell.got.sequence}
    BY <1>2, <1>4, <2>1, <2>2, HandleUpdateTurns
  <2>4. PairOK(u)
    BY <1>2, <1>4, HandleUpdateKeeps
  <2> QED BY <1>4, <2>3, <2>4
<1>6. files'.ok = files.ok /\ files'.cancel = files.cancel /\ files'.status = files.status
      /\ files'.update[a] = None /\ \A i \in Ids : i # a => files'.update[i] = files.update[i]
  <2>1. files' = [files EXCEPT !.update = update]
    BY <1>1, <1>4 DEF FilesType
  <2>2. update[a] = None /\ \A i \in Ids : i # a => update[i] = files.update[i]
    BY <1>2, <1>4 DEF FilesType
  <2> HIDE DEF update
  <2> QED BY <1>4, <2>1, <2>2 DEF FilesType
<1> HIDE DEF u, a
<1>7. u \in [s : ShellType, f : FrameType] /\ u.s \in ShellType
  BY <1>5 DEF PairOK, Pairs
<1>8. shell' = s /\ frame' = u.f
  <2>1. [u EXCEPT !.s.at = "ok", !.s.got = None] = v
    BY <1>7
  <2> HIDE DEF s
  <2>2. v.s = s /\ v.f = u.f
    BY <1>7
  <2> QED BY <1>1, <2>1, <2>2 DEF Becomes
<1>9. /\ s.active = u.s.active /\ s.waiter = u.s.waiter /\ s.next = u.s.next
      /\ s.kind = u.s.kind /\ s.queued = u.s.queued /\ s.sent = u.s.sent
      /\ s.last = u.s.last /\ s.got = None
  BY <1>7 DEF ShellType
<1> HIDE DEF s
<1>10. u.s.active = a /\ u.s.next = shell.next /\ u.s.at = "update"
  BY <1>1, <1>4, <1>5 DEF SameRound, a
<1>11. TurnsWith(s, u.f, wire, files', said)
  <2>1. TurnsWith(s, u.f, wire, files, said)
    BY <1>2, <1>5, <1>9, <1>10, RoundTurns DEF PairTurns
  <2> QED BY <1>2, <1>6, <1>9, <1>10, <2>1, FilesTurns
<1>12. Answering(page, files', said, a, u.s.last, None)
  <2>1. files'.ok[a] \in {files.ok[a], None} /\ files'.update[a] \in {files.update[a], None}
    BY <1>6
  <2>2. a \in files'.cancel => a \in files.cancel
    BY <1>6
  <2>3. u.s.last = shell.last \/ (shell.got # None /\ u.s.last = shell.got.sequence)
    BY <1>2, <1>5
  <2> QED BY <1>3, <2>1, <2>2, <2>3, AnsweringGoesOn
<1>13. Landing
  BY <1>5, <1>6, <1>8, Harmless
<1>14. OnlyActive(files')
  BY <1>6 DEF OnlyActive, a
<1> QED BY <1>1, <1>8, <1>9, <1>10, <1>11, <1>12, <1>13, <1>14, SessionLands DEF a

(* The request ends without a confirmation.                                   *)
LEMMA EndLands ==
  ASSUME BrowserText, shell.active # 0, NEW st \in {"expired", "superseded", "cancelled"},
         Finish(Now, st), wire' = wire,
         st = "cancelled" => shell.active \in files.cancel
  PROVE  TextLands
<1> DEFINE a == shell.active
<1>0. IInv /\ TurnsWith(shell, frame, wire, files, said)
  BY ActiveNow
<1>1. Now.s = shell /\ Now.f = frame /\ PairOK(Now) /\ files \in FilesType
  BY <1>0, BrowserNow, PageNow
<1>2. a \in Ids /\ a # 0 /\ a < shell.next
  BY <1>0, ActiveNumber
<1>3. Answering(page, files, said, a, shell.last, shell.got)
  BY ActiveNow
<1>4. PairTurns(Now, wire, files, said) /\ st \in Statuses
  BY <1>0, <1>1 DEF PairTurns, Statuses
<1>5. Now.s.active \in Ids \ {0} /\ Now.s.active < Now.s.next
  BY <1>1, <1>2
<1>6. /\ TurnsWith(shell', frame', wire, files', said)
      /\ shell'.active = Now.s.active /\ shell'.next = Now.s.next /\ shell'.last = Now.s.last
      /\ shell'.got = Now.s.got /\ frame'.field = Now.f.field
      /\ files'.update = files.update /\ files'.ok = files.ok /\ files'.cancel = files.cancel
      /\ files'.status[Now.s.active] = st
      /\ \A i \in Ids : i # Now.s.active => files'.status[i] = files.status[i]
  BY <1>1, <1>4, <1>5, FinishTurns
<1>7. st = "cancelled" => said[a] = None \/ ~said[a].confirmed
  BY <1>3 DEF Answering
<1> HIDE DEF a
<1>8. Landing
  <2>1. ASSUME NEW i \in Ids
        PROVE  /\ ~Reported(i, "confirmed") /\ frame'.field = frame.field
               /\ Reported(i, "cancelled") => said[i] = None \/ ~said[i].confirmed
    BY <1>1, <1>6, <1>7 DEF Reported, a
  <2> QED BY <2>1 DEF Landing
<1>9. OnlyActive(files')
  BY <1>1, <1>6 DEF OnlyActive
<1>10. Answering(page, files', said, a, shell'.last, shell'.got)
  BY <1>1, <1>3, <1>6 DEF Answering, Unasked
<1> QED BY <1>1, <1>6, <1>8, <1>9, <1>10, SessionLands DEF a

(* TickCancel.                                                                *)
LEMMA TickCancelLands ==
  ASSUME BrowserText, TickCancel
  PROVE  TextLands
<1> DEFINE s == [shell EXCEPT !.at = "idle"]
<1>0. IInv /\ TurnsWith(shell, frame, wire, files, said)
  BY ActiveNow
<1>1. /\ shell.at = "ok" /\ wire' = wire
      /\ \/ shell.active \in files.cancel /\ Finish(Now, "cancelled")
         \/ shell' = s /\ files' = files /\ frame' = frame
  BY DEF TickCancel
<1>2. shell.active # 0
  BY <1>0, <1>1, BrowserNow DEF RoundOK
<1>3. CASE shell.active \in files.cancel /\ Finish(Now, "cancelled")
  BY <1>1, <1>2, <1>3, EndLands
<1>4. CASE shell' = s /\ files' = files /\ frame' = frame
  <2>1. /\ s.active = shell.active /\ s.waiter = shell.waiter /\ s.next = shell.next
        /\ s.kind = shell.kind /\ s.queued = shell.queued /\ s.sent = shell.sent
        /\ s.last = shell.last /\ s.got = shell.got
    BY <1>0, BrowserNow DEF ShellType
  <2> HIDE DEF s
  <2>2. TurnsWith(s, frame, wire, files, said)
    BY <1>0, <1>1, <1>2, <2>1, RoundTurns
  <2>3. Landing
    BY <1>4, Harmless
  <2>4. OnlyActive(files')
    BY <1>4 DEF OnlyActive
  <2> QED BY <1>1, <1>4, <2>1, <2>2, <2>3, <2>4, ActiveNow, SessionLands
<1> QED BY <1>1, <1>3, <1>4

(* The two minutes are over, or a navigation starts.                          *)
LEMMA EndsLand ==
  ASSUME BrowserText, Expires \/ LoadStarted
  PROVE  TextLands
<1>1. /\ shell.active # 0 /\ wire' = wire
      /\ Finish(Now, "expired") \/ Finish(Now, "superseded")
  BY DEF Expires, LoadStarted
<1> QED BY <1>1, EndLands
-----------------------------------------------------------------------------
(* The confirmation is read.                                                  *)

(* The text that is acted on is the one the user confirmed.                   *)
LEMMA FinalTextSaid ==
  ASSUME BrowserText, shell.active # 0, files.ok[shell.active] # None
  PROVE  LET got == files.ok[shell.active]
         IN  /\ FinalText(shell, got) = got.text
             /\ said[shell.active] # None /\ said[shell.active].confirmed
             /\ said[shell.active].text = got.text
<1> DEFINE a == shell.active
           got == files.ok[a]
<1>0. IInv
  BY ActiveNow
<1>1. Answering(page, files, said, a, shell.last, shell.got)
  BY ActiveNow
<1>2. /\ said[a] # None /\ said[a].confirmed /\ said[a].text = got.text
      /\ shell.last <= got.sequence
  BY <1>1 DEF Answering
<1>3. got \in Updates
  BY <1>0, BrowserNow, PageNow DEF FilesType
<1>4. got.sequence \in Nat /\ shell.last \in Nat
  BY <1>0, <1>3, BrowserNow DEF Updates, ShellType
<1> HIDE DEF got, a
<1>5. ~(got.sequence < shell.last)
  BY <1>2, <1>4
<1>6. FinalText(shell, got) = got.text
  BY <1>5 DEF FinalText
<1> QED BY <1>2, <1>6 DEF got, a

(* The files of the confirmation are gone.                                    *)
LEMMA RestFiles ==
  ASSUME files \in FilesType, NEW i \in Ids
  PROVE  LET rest == [files EXCEPT !.ok[i] = None, !.cancel = @ \ {i}]
         IN  /\ rest \in FilesType /\ rest.status = files.status /\ rest.update = files.update
             /\ rest.ok[i] = None /\ i \notin rest.cancel
             /\ \A j \in Ids : j # i =>
                  rest.ok[j] = files.ok[j] /\ (j \in rest.cancel <=> j \in files.cancel)
<1> DEFINE ok == [files.ok EXCEPT ![i] = None]
           cancel == files.cancel \ {i}
           rest == [files EXCEPT !.ok[i] = None, !.cancel = @ \ {i}]
<1>1. rest = [files EXCEPT !.ok = ok, !.cancel = cancel] /\ rest \in FilesType
  BY DEF FilesType
<1>2. ok[i] = None /\ \A j \in Ids : j # i => ok[j] = files.ok[j]
  BY DEF FilesType
<1>3. i \notin cancel /\ \A j \in Ids : j # i => (j \in cancel <=> j \in files.cancel)
  OBVIOUS
<1> HIDE DEF ok, cancel
<1>4. rest.ok = ok /\ rest.cancel = cancel /\ rest.status = files.status /\ rest.update = files.update
  BY <1>1 DEF FilesType
<1> HIDE DEF rest
<1> QED BY <1>1, <1>2, <1>3, <1>4 DEF rest

(* TickOk: the field of a web page is to show the text that was confirmed.    *)
LEMMA CommitLands ==
  ASSUME BrowserText, shell.at = "ok", shell.active # 0, shell.kind = "web_input",
         files.ok[shell.active] # None, NEW x \in Applies, x.text = files.ok[shell.active].text,
         Becomes(QueueApply([Now EXCEPT !.s.terminal = TRUE, !.s.at = "idle"], x)),
         files' = [files EXCEPT !.ok[shell.active] = None, !.cancel = @ \ {shell.active}],
         wire' = wire
  PROVE  TextLands
<1> DEFINE a == shell.active
           s == [shell EXCEPT !.terminal = TRUE, !.at = "idle"]
           u == [Now EXCEPT !.s.terminal = TRUE, !.s.at = "idle"]
           v == [Now EXCEPT !.s = s]
           w == QueueApply(v, x)
<1>0. IInv /\ TurnsWith(shell, frame, wire, files, said)
  BY ActiveNow
<1>1. Now.s = shell /\ Now.f = frame /\ PairOK(Now) /\ files \in FilesType
  BY <1>0, BrowserNow, PageNow
<1>2. a \in Ids /\ a # 0 /\ a < shell.next
  BY <1>0, ActiveNumber
<1>3. Answering(page, files, said, a, shell.last, shell.got)
  BY ActiveNow
<1>4. said[a] # None /\ said[a].confirmed /\ x.text = said[a].text
  BY FinalTextSaid
<1>5. /\ files'.status = files.status /\ files'.update = files.update
      /\ files'.ok[a] = None /\ a \notin files'.cancel
      /\ \A j \in Ids : j # a =>
           files'.ok[j] = files.ok[j] /\ (j \in files'.cancel <=> j \in files.cancel)
  BY <1>1, <1>2, RestFiles
<1>6. u = v
  BY <1>1 DEF Now
<1>7. s \in ShellType
  BY <1>0, BrowserNow DEF ShellType
<1>8. /\ s.active = a /\ s.waiter = shell.waiter /\ s.next = shell.next /\ s.kind = shell.kind
      /\ s.queued = shell.queued /\ s.sent = shell.sent /\ s.last = shell.last
      /\ s.got = shell.got /\ s.at = "idle"
  BY <1>0, BrowserNow DEF ShellType
<1>9. Becomes(QueueApply(u, x))
  OBVIOUS
<1> HIDE DEF s, u
<1>10. PairOK(v) /\ v.s = s /\ v.f = frame
  BY <1>0, <1>1, <1>7, <1>8, BrowserNow, SessionKeeps
<1>11. Becomes(w)
  BY <1>6, <1>9
<1> HIDE DEF v
<1>12. PairTurns(v, wire, files, said)
  BY <1>0, <1>8, <1>10, RoundTurns DEF PairTurns
<1>13. v.s.at # "clear" /\ v.s.active = a /\ v.s.active # 0 /\ v.s.active < v.s.next
  BY <1>2, <1>8, <1>10
<1>14. Final(x, said[v.s.active])
  BY <1>4, <1>13 DEF Final
<1>15. PairTurns(w, wire, files, said) /\ SameText(v, w)
  BY <1>10, <1>12, <1>13, <1>14, QueueTurns
<1> HIDE DEF w, a
<1>16. /\ shell'.active = a /\ shell'.next = shell.next /\ shell'.last = shell.last
       /\ shell'.got = shell.got /\ frame'.field = frame.field
       /\ shell' = w.s /\ frame' = w.f
  BY <1>8, <1>10, <1>11, <1>15 DEF SameText, SameRound, Becomes
<1>17. TurnsWith(shell', frame', wire', files', said)
  <2>1. TurnsWith(w.s, w.f, wire, files, said)
    BY <1>15 DEF PairTurns
  <2> QED BY <1>2, <1>5, <1>16, <2>1, FilesTurns
<1>18. Answering(page, files', said, a, shell.last, shell.got)
  <2>1. files'.ok[a] \in {files.ok[a], None} /\ files'.update[a] \in {files.update[a], None}
    BY <1>5
  <2>2. a \in files'.cancel => a \in files.cancel
    BY <1>5
  <2> QED BY <1>3, <2>1, <2>2, AnsweringGoesOn
<1>19. Landing
  BY <1>5, <1>16, Harmless
<1>20. OnlyActive(files')
  BY <1>5 DEF OnlyActive, a
<1> QED BY <1>16, <1>17, <1>18, <1>19, <1>20, SessionLands DEF a

(* TickOk: the chrome acts on the text that was confirmed.                    *)
LEMMA DidLands ==
  ASSUME BrowserText, shell.at = "ok", shell.active # 0, shell.kind # "web_input",
         files.ok[shell.active] # None,
         files' = [[files EXCEPT !.ok[shell.active] = None, !.cancel = @ \ {shell.active}]
                     EXCEPT !.status[shell.active] = "confirmed"],
         shell' = [shell EXCEPT !.at = "clear", !.did = files.ok[shell.active].text],
         frame' = frame, wire' = wire
  PROVE  TextLands
<1> DEFINE a == shell.active
           text == files.ok[a].text
           t == [shell EXCEPT !.at = "clear", !.did = text]
           rest == [files EXCEPT !.ok[a] = None, !.cancel = @ \ {a}]
           status == [rest.status EXCEPT ![a] = "confirmed"]
<1>0. IInv /\ TurnsWith(shell, frame, wire, files, said) /\ files \in FilesType
  BY ActiveNow, PageNow
<1>1. a \in Ids /\ a # 0 /\ a < shell.next
  BY <1>0, ActiveNumber
<1>2. Answering(page, files, said, a, shell.last, shell.got)
  BY ActiveNow
<1>3. said[a] # None /\ said[a].confirmed /\ said[a].text = text
  BY FinalTextSaid
<1>4. /\ rest \in FilesType /\ rest.status = files.status /\ rest.update = files.update
      /\ rest.ok[a] = None /\ a \notin rest.cancel
      /\ \A j \in Ids : j # a =>
           rest.ok[j] = files.ok[j] /\ (j \in rest.cancel <=> j \in files.cancel)
  BY <1>0, <1>1, RestFiles
<1>5. files' = [rest EXCEPT !.status[a] = "confirmed"] /\ shell' = t
  OBVIOUS
<1> HIDE DEF rest
<1>6. status[a] = "confirmed" /\ \A i \in Ids : i # a => status[i] = files.status[i]
  BY <1>1, <1>4 DEF FilesType
<1>7. files' = [rest EXCEPT !.status = status]
  BY <1>4, <1>5 DEF FilesType
<1> HIDE DEF status
<1>8. /\ files'.update = files.update /\ files'.ok = rest.ok /\ files'.cancel = rest.cancel
      /\ files'.status = status
  BY <1>4, <1>7 DEF FilesType
<1> HIDE DEF text
<1>9. /\ t.active = a /\ t.waiter = shell.waiter /\ t.next = shell.next /\ t.kind = shell.kind
      /\ t.queued = shell.queued /\ t.sent = shell.sent /\ t.last = shell.last
      /\ t.got = shell.got /\ t.at = "clear" /\ t.did = text
  BY <1>0, BrowserNow DEF ShellType
<1> HIDE DEF t, a
<1>10. /\ Named(frame, wire, shell.next) /\ Reporting(shell, frame, files)
       /\ OneTurn(shell, frame, wire, a) /\ Final(shell.queued, said[a])
       /\ Final(shell.sent, said[a])
  BY <1>0 DEF TurnsWith, a
<1>11. ~Hears(frame, a) /\ frame.field.id # a
  BY <1>10 DEF OneTurn
<1>12. Reporting(t, frame, files')
  BY <1>6, <1>8, <1>9, <1>10, <1>11 DEF Reporting, Hears
<1>13. OneTurn(t, frame, wire, a)
  BY <1>9, <1>10 DEF OneTurn
<1>14. TurnsWith(t, frame, wire, files', said)
  BY <1>1, <1>9, <1>10, <1>12, <1>13 DEF TurnsWith, Rested
<1>15. Landing
  <2>1. ASSUME NEW i \in Ids
        PROVE  (Reported(i, "confirmed") => i = a) /\ ~Reported(i, "cancelled")
    <3>1. files'.status[i] = IF i = a THEN "confirmed" ELSE files.status[i]
      BY <1>6, <1>8, <2>1
    <3> QED BY <3>1 DEF Reported
  <2>2. shell'.did = said[a].text
    BY <1>3, <1>5, <1>9
  <2> QED BY <1>3, <1>11, <2>1, <2>2 DEF Landing
<1>16. OnlyActive(files')
  BY <1>4, <1>6, <1>8 DEF OnlyActive, a
<1>17. Answering(page, files', said, a, shell.last, shell.got)
  <2>1. files'.ok[a] \in {files.ok[a], None} /\ files'.update[a] \in {files.update[a], None}
    BY <1>4, <1>8
  <2>2. a \in files'.cancel => a \in files.cancel
    BY <1>4, <1>8
  <2> QED BY <1>2, <2>1, <2>2, AnsweringGoesOn
<1> QED BY <1>5, <1>9, <1>14, <1>15, <1>16, <1>17, SessionLands DEF a

(* TickOk.                                                                    *)
LEMMA TickOkLands ==
  ASSUME BrowserText, TickOk
  PROVE  TextLands
<1> DEFINE a == shell.active
           got == files.ok[a]
           sequence == FinalSequence(shell, got)
           x == Apply(got.text, sequence, TRUE)
<1>0. IInv
  BY ActiveNow
<1>1. shell.at = "ok" /\ got # None /\ wire' = wire
  BY DEF TickOk
<1>2. a \in Ids /\ a # 0
  BY <1>0, <1>1, BrowserNow DEF RoundOK
<1>3. FinalText(shell, got) = got.text
  BY <1>1, <1>2, FinalTextSaid
<1>4. CASE shell.kind = "web_input"
  <2>1. /\ Becomes(QueueApply([Now EXCEPT !.s.terminal = TRUE, !.s.at = "idle"], x))
        /\ files' = [files EXCEPT !.ok[a] = None, !.cancel = @ \ {a}]
    BY <1>3, <1>4 DEF TickOk
  <2>2. got \in Updates
    BY <1>0, <1>1, <1>2, PageNow DEF FilesType
  <2>3. got.text \in Texts /\ got.sequence \in Nat /\ shell.last \in Nat
    BY <1>0, <2>2, BrowserNow DEF Updates, ShellType
  <2>4. sequence \in Nat
    BY <2>3 DEF FinalSequence, Larger
  <2> HIDE DEF sequence
  <2>5. x \in Applies /\ x.text = got.text
    BY <2>3, <2>4 DEF Apply, Applies
  <2> HIDE DEF x
  <2> QED BY <1>1, <1>2, <1>4, <2>1, <2>5, CommitLands
<1>5. CASE shell.kind # "web_input"
  <2>1. /\ files' = [[files EXCEPT !.ok[a] = None, !.cancel = @ \ {a}]
                       EXCEPT !.status[a] = "confirmed"]
        /\ shell' = [shell EXCEPT !.at = "clear", !.did = got.text] /\ frame' = frame
    BY <1>3, <1>5 DEF TickOk
  <2> QED BY <1>1, <1>2, <1>5, <2>1, DidLands
<1> QED BY <1>4, <1>5
-----------------------------------------------------------------------------
(* Sessions, documents and pages that end.                                    *)

(* Cleared: the files of the active request are gone, its status stays.       *)
LEMMA ClearedFiles ==
  ASSUME files \in FilesType
  PROVE  Cleared(files).status = files.status /\ OnlyActive(Cleared(files))
<1> DEFINE a == shell.active
           update == [files.update EXCEPT ![a] = None]
           ok == [files.ok EXCEPT ![a] = None]
           cancel == files.cancel \ {a}
           g == Cleared(files)
<1>1. g = [files EXCEPT !.request = 0, !.update = update, !.ok = ok, !.cancel = cancel]
  BY DEF Cleared, FilesType
<1>2. \A i \in Ids : i # a =>
        /\ update[i] = files.update[i] /\ ok[i] = files.ok[i]
        /\ (i \in cancel <=> i \in files.cancel)
  BY DEF FilesType
<1> HIDE DEF update, ok, cancel, g
<1>3. g.update = update /\ g.ok = ok /\ g.cancel = cancel /\ g.status = files.status
  BY <1>1 DEF FilesType
<1>4. OnlyActive(g)
  BY <1>2, <1>3 DEF OnlyActive
<1> QED BY <1>3, <1>4 DEF g

(* A browser without a session.                                               *)
LEMMA NoSessionTurns ==
  ASSUME NEW next, NEW fr, NEW wr, NEW f, NEW w, Named(fr, wr, next),
         \A i \in Ids : f.status[i] = "confirmed" =>
           ~(fr.reply # None /\ fr.reply.op = "apply" /\ fr.reply.id = i)
  PROVE  TurnsWith(NoSession(next), fr, wr, f, w)
<1> DEFINE s == NoSession(next)
<1>1. /\ s.active = 0 /\ s.got = None /\ s.waiter = 0 /\ s.queued = None /\ s.sent = None
      /\ s.next = next
  BY DEF NoSession
<1> HIDE DEF s
<1>2. Rested(s) /\ Reporting(s, fr, f)
  BY <1>1 DEF Rested, Reporting
<1> QED BY <1>1, <1>2 DEF TurnsWith, s

(* A document of which nobody has heard.                                      *)
LEMMA DocumentNamed ==
  ASSUME IInv, NEW n
  PROVE  /\ Named(Document(n), <<>>, shell.next) /\ Document(n).reply = None
         /\ Document(n).field.id = 0
<1>1. Document(n).reply = None /\ Document(n).field.id = 0
  BY DEF Document
<1>2. 0 < shell.next
  <2>1. shell.next \in Nat \ {0}
    BY BrowserNow
  <2> QED BY <2>1
<1>3. \A i \in 1..Len(<<>>) : FALSE
  <2>1. Len(<<>>) = 0
    BY LenProperties, EmptySeq
  <2>2. 1..0 = {}
    OBVIOUS
  <2> QED BY <2>1, <2>2
<1> QED BY <1>1, <1>2, <1>3 DEF Named

(* ClearActive.                                                               *)
LEMMA ClearActiveLands ==
  ASSUME BrowserText, ClearActive
  PROVE  TextLands
<1> DEFINE s == NoSession(shell.next)
<1>0. IInv /\ TurnsWith(shell, frame, wire, files, said) /\ files \in FilesType
  BY ActiveNow, PageNow
<1>1. files' = Cleared(files) /\ shell' = s /\ frame' = frame /\ wire' = wire
  BY DEF ClearActive
<1>2. OnlyActive(files') /\ files'.status = files.status
  BY <1>0, <1>1, ClearedFiles
<1>3. s.active = 0 /\ s.next = shell.next
  BY DEF NoSession
<1>4. TurnsWith(s, frame, wire, files', said)
  <2>1. Named(frame, wire, shell.next) /\ Reporting(shell, frame, files)
    BY <1>0 DEF TurnsWith
  <2>2. \A i \in Ids : files'.status[i] = "confirmed" =>
          ~(frame.reply # None /\ frame.reply.op = "apply" /\ frame.reply.id = i)
    BY <1>2, <2>1 DEF Reporting
  <2> HIDE DEF s
  <2> QED BY <2>1, <2>2, NoSessionTurns DEF s
<1> HIDE DEF s
<1>5. Landing
  BY <1>1, <1>2, Harmless
<1> QED BY <1>1, <1>2, <1>3, <1>4, <1>5, SessionLands

(* OneFault: nothing of the request.                                          *)
LEMMA FaultAlike ==
  ASSUME page \in PageType
  PROVE  OneFault \in PageType /\ Alike(page, OneFault)
<1> DEFINE n == page.faults + 1
           q == [page EXCEPT !.faults = n]
<1>1. n \in Nat
  <2>1. page.faults \in Nat
    BY DEF PageType
  <2> HIDE DEF q
  <2> QED BY <2>1
<1>2. OneFault = q
  BY DEF OneFault, PageType
<1> HIDE DEF n
<1>3. q \in PageType
  BY <1>1, Zenon DEF PageType
<1>4. Alike(page, q)
  BY DEF PageType, Alike, SameWord
<1> QED BY <1>2, <1>3, <1>4

(* DocumentReplaced: whoever waits, it is not the new document.               *)
LEMMA DocumentReplacedLands ==
  ASSUME BrowserText, DocumentReplaced
  PROVE  TextLands
<1> DEFINE g == Document(frame.doc + 1)
           a == shell.active
<1>0. IInv /\ TurnsWith(shell, frame, wire, files, said)
  BY ActiveNow
<1>1. frame' = g /\ wire' \in {wire, <<>>} /\ files' = files /\ shell' = shell
  BY DEF DocumentReplaced
<1>2. Named(g, <<>>, shell.next) /\ g.reply = None /\ g.field.id = 0
  BY <1>0, DocumentNamed
<1> HIDE DEF g
<1>3. /\ Rested(shell) /\ Named(frame, wire, shell.next) /\ Reporting(shell, frame, files)
      /\ a # 0 => /\ OneTurn(shell, frame, wire, a)
                  /\ Final(shell.queued, said[a]) /\ Final(shell.sent, said[a])
  BY <1>0 DEF TurnsWith
<1>4. Named(g, wire', shell.next)
  BY <1>1, <1>2, <1>3 DEF Named
<1>5. Reporting(shell, g, files)
  BY <1>2, <1>3 DEF Reporting
<1>6. ~Hears(g, a)
  BY <1>2 DEF Hears
<1> HIDE DEF a
<1>7. ASSUME a # 0
      PROVE  OneTurn(shell, g, wire', a)
  <2>1. \A n \in Nat : Waits(wire', a, n) => Waits(wire, a, n)
    BY <1>1, NoMessages
  <2>2. OneTurn(shell, frame, wire, a) /\ g.field.id # a
    BY <1>2, <1>3, <1>7
  <2>3. shell.waiter # 0 => \A n \in Nat : ~Waits(wire', a, n)
    BY <2>1, <2>2 DEF OneTurn
  <2>4. \A n, m \in Nat : Waits(wire', a, n) /\ Waits(wire', a, m) => n = m
    BY <2>1, <2>2 DEF OneTurn
  <2>5. shell.kind # "web_input" => shell.waiter = 0 /\ \A n \in Nat : ~Waits(wire', a, n)
    BY <2>1, <2>2 DEF OneTurn
  <2> QED BY <1>6, <2>2, <2>3, <2>4, <2>5 DEF OneTurn
<1>8. TurnsWith(shell, g, wire', files, said)
  BY <1>3, <1>4, <1>5, <1>7 DEF TurnsWith, a
<1>9. Landing
  BY <1>1, <1>2, Harmless
<1>10. OnlyActive(files')
  BY <1>1 DEF OnlyActive
<1> QED BY <1>1, <1>8, <1>9, <1>10, ActiveNow, SessionLands

(* BrowserRestarts.                                                           *)
LEMMA BrowserRestartsLands ==
  ASSUME BrowserText, BrowserRestarts
  PROVE  TextLands
<1> DEFINE g == Document(frame.doc + 1)
           s == NoSession(shell.next)
<1>0. IInv /\ files \in FilesType
  BY ActiveNow, PageNow
<1>1. /\ files' = files \/ files' = Cleared(files)
      /\ shell' = s /\ frame' = g /\ wire' = <<>>
  BY DEF BrowserRestarts, NewShell
<1>2. Named(g, <<>>, shell.next) /\ g.reply = None /\ g.field.id = 0
  BY <1>0, DocumentNamed
<1>3. OnlyActive(files') /\ files'.status = files.status
  <2>1. OnlyActive(files)
    BY DEF OnlyActive
  <2> QED BY <1>0, <1>1, <2>1, ClearedFiles
<1>4. s.active = 0 /\ s.next = shell.next
  BY DEF NoSession
<1> HIDE DEF g
<1>5. TurnsWith(s, g, <<>>, files', said)
  BY <1>2, NoSessionTurns
<1> HIDE DEF s
<1>6. Landing
  BY <1>1, <1>2, <1>3, Harmless
<1> QED BY <1>1, <1>3, <1>4, <1>5, <1>6, SessionLands

(* PageStarts: nothing is left of any request.                                *)
LEMMA PageStartsLands ==
  ASSUME BrowserText, PageStarts
  PROVE  TextLands
<1> DEFINE g == Document(frame.doc + 1)
           s == NoSession(shell.next)
<1>0. IInv
  BY ActiveNow
<1>1. files' = NoFiles /\ shell' = s /\ frame' = g /\ wire' = <<>>
  BY DEF PageStarts, NewShell
<1>2. Named(g, <<>>, shell.next) /\ g.reply = None /\ g.field.id = 0
  BY <1>0, DocumentNamed
<1>3. \A i \in Ids : /\ NoFiles.update[i] = None /\ NoFiles.ok[i] = None /\ i \notin NoFiles.cancel
                     /\ NoFiles.status[i] = ""
  BY DEF NoFiles
<1>4. s.active = 0 /\ s.next = shell.next
  BY DEF NoSession
<1> HIDE DEF g
<1>5. TurnsWith(s, g, <<>>, files', said)
  BY <1>1, <1>2, NoSessionTurns
<1> HIDE DEF s
<1>6. Unborn(files', said, shell.next)
  <2>1. Unborn(files, said, shell.next)
    BY DEF BrowserText, TextInv, Asking, AskingWith
  <2> QED BY <1>1, <1>3, <2>1 DEF Unborn, Unasked
<1>7. shell.next \in Nat
  BY <1>0, ActiveNumber
<1>8. Asking'
  <2>1. /\ shell'.next = shell.next /\ shell'.active = 0
        /\ shell'.next \in Nat /\ shell'.next >= shell.next
    BY <1>1, <1>4, <1>7
  <2> QED BY <1>6, <2>1, BrowserAsks
<1>9. Landing
  BY <1>1, <1>2, <1>3, Harmless
<1>10. TurnsWith(s, g, <<>>, files', said')
  BY <1>4, <1>5, SaidTurns
<1> QED BY <1>1, <1>8, <1>9, <1>10 DEF TextLands, TextInv, Turns

(* A page that stops or starts polling.                                       *)
LEMMA PollsAlike ==
  ASSUME NEW p \in PageType, NEW b
  PROVE  /\ Alike(p, [p EXCEPT !.polls = b])
         /\ \A q : GivenUp(q, p) => GivenUp(q, [p EXCEPT !.polls = b])
<1> DEFINE r == [p EXCEPT !.polls = b]
<1>1. /\ r.req = p.req /\ r.said = p.said /\ r.sequence = p.sequence /\ r.taken = p.taken
      /\ r.phase = p.phase /\ r.answer = p.answer
  BY DEF PageType
<1> HIDE DEF r
<1> QED BY <1>1 DEF Alike, SameWord, GivenUp, r

(* A cancellation is one file.                                                *)
LEMMA CancelledFiles ==
  ASSUME files \in FilesType, page.req \in Ids, NEW d, ~d.confirmed
  PROVE  LET g == Responded(files, page, d)
         IN  /\ g.update = files.update /\ g.status = files.status /\ g.ok = files.ok
             /\ g.cancel = files.cancel \cup {page.req}
<1> DEFINE cancel == files.cancel \cup {page.req}
<1>1. Responded(files, page, d) = [files EXCEPT !.cancel = cancel]
  BY DEF Responded, FilesType
<1> HIDE DEF cancel
<1> QED BY <1>1 DEF FilesType, cancel

(* CancelActive: the page cancels what the user has not answered.             *)
LEMMA CancelAsks ==
  ASSUME PageText, GivenUp(page, page'), page.req # 0, page.phase # "responding",
         files' = Responded(files, page, Decision(FALSE, 0))
  PROVE  PageAsks
<1> DEFINE a == shell.active
           d == Decision(FALSE, 0)
<1>1. /\ said' \in [Ids -> Decisions \cup {None}]
      /\ \A i \in Ids :
           /\ i \notin {page'.req, a} => said'[i] = None
           /\ page'.req = i /\ page'.said # None => said'[i] = page'.said
           /\ i \in {page'.req, a} /\ ~(page'.req = i /\ page'.said # None) => said'[i] = said[i]
  BY Remembers DEF PageText
<1>2. /\ Speaks(page) /\ Unborn(files, said, shell.next)
      /\ a # 0 => Answering(page, files, said, a, shell.last, shell.got)
  BY TextNow DEF AskingWith
<1>3. /\ a # 0 => a < shell.next /\ a \in Ids
      /\ shell.next \in Nat /\ Ids \subseteq Nat \ {0} /\ files \in FilesType
      /\ page.req \in Ids /\ page.req \in page.taken /\ page.req < shell.next /\ page.said = None
  BY <1>2, TextNow, ActiveNumber, Numbers DEF Speaks, PageText
<1>4. ~d.confirmed /\ files' = Responded(files, page, d)
  BY DEF Decision
<1> HIDE DEF d
<1>5. /\ files'.update = files.update /\ files'.status = files.status /\ files'.ok = files.ok
      /\ files'.cancel = files.cancel \cup {page.req}
  <2> DEFINE g == Responded(files, page, d)
  <2>1. /\ g.update = files.update /\ g.status = files.status /\ g.ok = files.ok
        /\ g.cancel = files.cancel \cup {page.req}
    BY <1>3, <1>4, CancelledFiles
  <2> HIDE DEF g
  <2>2. files' = g
    BY <1>4 DEF g
  <2> QED BY <1>4, <2>1, <2>2
<1> HIDE DEF a
<1>6. Speaks(page')
  BY DEF Speaks, GivenUp
<1>7. page'.req = 0 /\ page'.said = None /\ page'.taken = page.taken
  BY DEF GivenUp
<1>8. \A i \in Ids : said'[i] = None \/ said'[i] = said[i]
  BY <1>1, <1>7
<1>9. a # 0 => said'[a] = said[a]
  BY <1>1, <1>3, <1>7
<1>10. Unborn(files', said', shell.next)
  <2>1. ASSUME NEW i \in Ids, i >= shell.next
        PROVE  Unasked(files', said', i) /\ files'.status[i] = ""
    <3>1. i # page.req
      BY <1>3, <2>1
    <3>2. Unasked(files, said, i) /\ files.status[i] = ""
      BY <1>2, <2>1 DEF Unborn
    <3> QED BY <1>5, <1>8, <3>1, <3>2 DEF Unasked
  <2> QED BY <2>1 DEF Unborn
<1>11. ASSUME a # 0
       PROVE  Answering(page', files', said', a, shell.last, shell.got)
  <2>1. Answering(page, files, said, a, shell.last, shell.got)
    BY <1>2, <1>11
  <2>2. a \notin page.taken => a # page.req
    BY <1>3
  <2>3. a \in files'.cancel => said[a] = None \/ ~said[a].confirmed
    BY <1>3, <1>5, <2>1 DEF Answering
  <2>4. page'.req # a
    BY <1>7, <1>11
  <2>5. a \notin page'.taken => /\ Unasked(files', said', a) /\ shell.got = None /\ shell.last = 0
    BY <1>5, <1>7, <1>9, <1>11, <2>1, <2>2 DEF Answering, Unasked
  <2>6. files'.ok[a] # None =>
          /\ said'[a] # None /\ said'[a].confirmed /\ said'[a].text = files'.ok[a].text
          /\ shell.last <= files'.ok[a].sequence
          /\ Upto(files'.update[a], files'.ok[a].sequence)
          /\ Upto(shell.got, files'.ok[a].sequence)
    BY <1>5, <1>9, <1>11, <2>1 DEF Answering
  <2> QED BY <1>9, <1>11, <2>3, <2>4, <2>5, <2>6 DEF Answering
<1>12. Asking'
  BY <1>1, <1>6, <1>10, <1>11 DEF Asking, AskingWith, PageText, a
<1>13. WordKept /\ StatusKept
  BY <1>5, <1>9 DEF WordKept, StatusKept, a
<1> QED BY <1>12, <1>13 DEF PageAsks

(* PageStops.                                                                 *)
LEMMA PageStopsLands ==
  ASSUME IInv, IInv', TextInv, PageStops, Remember
  PROVE  TextLands
<1>1. PICK wrote \in BOOLEAN :
        LET c == CancelActive(page, files, wrote)
        IN  page' = [c.page EXCEPT !.polls = FALSE] /\ files' = c.files
  BY DEF PageStops, MayFail
<1>2. shell' = shell /\ frame' = frame /\ wire' = wire
  BY DEF PageStops
<1>3. PageText /\ page \in PageType
  BY <1>2, PageNow DEF PageText, TextInv
<1> DEFINE c == CancelActive(page, files, wrote)
           q == c.page
<1>4. page' = [q EXCEPT !.polls = FALSE] /\ files' = c.files
  BY <1>1
<1>5. CASE page.req = 0
  <2>1. q = CloseLocal(page) /\ c.files = files
    BY <1>5 DEF CancelActive
  <2> HIDE DEF c, q
  <2>2. q \in PageType /\ Alike(page, q)
    BY <1>3, <2>1, CloseAlike
  <2>3. Alike(q, page')
    BY <1>4, <2>2, PollsAlike
  <2>4. Alike(page, page') /\ NothingWritten
    BY <1>4, <2>1, <2>2, <2>3 DEF Alike, SameWord, NothingWritten
  <2> QED BY <1>2, <1>3, <2>4, AlikeKeeps, PageLands DEF TextLands
<1>6. CASE page.req # 0
  <2>1. /\ q = Reset(page)
        /\ \/ page.phase # "responding" /\ c.files = Responded(files, page, Decision(FALSE, 0))
           \/ c.files = files
    BY <1>6 DEF CancelActive
  <2> HIDE DEF c, q
  <2>2. q \in PageType /\ GivenUp(page, q)
    BY <1>3, <2>1, PageNow, ResetShape, ResetGivesUp DEF Shape, Held
  <2>3. GivenUp(page, page')
    BY <1>4, <2>2, PollsAlike
  <2>4. PageAsks
    <3>1. CASE page.phase # "responding" /\ c.files = Responded(files, page, Decision(FALSE, 0))
      BY <1>3, <1>4, <1>6, <2>3, <3>1, CancelAsks
    <3>2. CASE c.files = files
      BY <1>3, <1>4, <2>3, <3>2, AlikeKeeps DEF NothingWritten
    <3> QED BY <2>1, <3>1, <3>2
  <2> QED BY <1>2, <2>4, PageLands DEF TextLands
<1> QED BY <1>5, <1>6

(* PageReloads.                                                               *)
LEMMA PageReloadsLands ==
  ASSUME IInv, IInv', TextInv, PageReloads, Remember
  PROVE  TextLands
<1> DEFINE n == NewPage(page.override, page.stored)
           q == [n EXCEPT !.polls = FALSE, !.uuids = page.uuids, !.taken = page.taken,
                          !.faults = page.faults]
<1>1. page' = q /\ files' = files /\ shell' = shell /\ frame' = frame /\ wire' = wire
  BY DEF PageReloads
<1>2. PageText /\ page \in PageType
  BY <1>1, PageNow DEF PageText, TextInv
<1>3. page.override \in Overrides /\ page.stored \in Backends \cup {"auto"}
  BY <1>2 DEF PageType
<1>4. n \in PageType /\ n.req = 0 /\ n.phase = "idle" /\ n.said = None
  BY <1>3, NewPageShape DEF NewPage
<1> HIDE DEF n
<1>5. q.req = n.req /\ q.phase = n.phase /\ q.said = n.said /\ q.taken = page.taken
  BY <1>4 DEF PageType
<1> HIDE DEF q
<1>6. GivenUp(page, page') /\ NothingWritten
  BY <1>1, <1>4, <1>5 DEF GivenUp, NothingWritten
<1> QED BY <1>1, <1>2, <1>6, AlikeKeeps, PageLands DEF TextLands
-----------------------------------------------------------------------------
(* Every step.                                                                *)
LEMMA StepLands ==
  ASSUME IInv, IInv', TextInv, Step, Remember
  PROVE  TextLands
<1>1. page \in PageType
  BY PageNow
<1>2. ASSUME page' = page
      PROVE  BrowserText
  BY <1>2 DEF BrowserText, Alike, SameWord
<1>3. ASSUME page' = OneFault
      PROVE  BrowserText
  BY <1>1, <1>3, FaultAlike DEF BrowserText
<1>4. CASE PageNext /\ Here
  <2>1. shell' = shell /\ frame' = frame /\ wire' = wire
    BY <1>4 DEF Here
  <2>2. PageAsks
    BY <1>4, <2>1, PageNextAsks DEF PageText, TextInv
  <2> QED BY <2>1, <2>2, PageLands DEF TextLands
<1>5. CASE Tick
  <2>1. BrowserText
    BY <1>2, <1>5 DEF Tick, TickReads, TickUpdate, TickOk, TickCancel, ClearActive, PageStays
  <2> QED BY <1>5, <2>1, TickReadsLands, TickUpdateLands, TickOkLands, TickCancelLands,
             ClearActiveLands DEF Tick
<1>6. CASE ChromeAsks \/ FrameAsks \/ HandleOpen \/ HandleWait
  <2>1. BrowserText
    BY <1>2, <1>6 DEF ChromeAsks, FrameAsks, HandleOpen, HandleWait, PageStays
  <2> QED BY <1>6, <2>1, ChromeAsksLands, FrameAsksLands, HandleOpenLands, HandleWaitLands
<1>7. CASE Expires \/ FrameHears \/ LoadStarted
  <2>1. BrowserText
    BY <1>2, <1>7 DEF Expires, FrameHears, LoadStarted, PageStays
  <2> QED BY <1>7, <2>1, EndsLand, FrameHearsLands
<1>8. CASE DocumentReplaced \/ BrowserRestarts
  <2>1. BrowserText
    BY <1>3, <1>8 DEF DocumentReplaced, BrowserRestarts
  <2> QED BY <1>8, <2>1, DocumentReplacedLands, BrowserRestartsLands
<1>9. CASE PageStarts
  <2> DEFINE p == OneFault
             q == [p EXCEPT !.polls = TRUE]
  <2>1. page' = q
    BY <1>9 DEF PageStarts
  <2>2. p \in PageType /\ Alike(page, p)
    BY <1>1, FaultAlike
  <2> HIDE DEF p
  <2>3. Alike(p, q)
    BY <2>2, PollsAlike
  <2>4. BrowserText
    BY <2>1, <2>2, <2>3 DEF BrowserText, Alike, SameWord
  <2> QED BY <1>9, <2>4, PageStartsLands
<1>10. CASE PageStops \/ PageReloads
  BY <1>10, PageStopsLands, PageReloadsLands
<1> QED BY <1>4, <1>5, <1>6, <1>7, <1>8, <1>9, <1>10 DEF Step

(* In the beginning nobody has said anything.                                 *)
LEMMA TextInitially ==
  ASSUME Init
  PROVE  TextInv
<1>0. IInv
  BY Initially
<1>1. PICK o \in Overrides : page = NewPage(o, "auto")
  BY DEF Init, PageInit
<1>2. page.req = 0 /\ page.phase = "idle" /\ page.said = None
  BY <1>1 DEF NewPage
<1>3. Speaks(page)
  BY <1>2 DEF Speaks
<1>4. Unborn(files, said, shell.next)
  BY DEF Init, PageInit, NoFiles, Unborn, Unasked
<1>5. said \in [Ids -> Decisions \cup {None}]
  BY DEF Init
<1>6. shell.active = 0 /\ shell = NoSession(shell.next)
  <2>1. shell = NoSession(1)
    BY DEF Init
  <2>2. NoSession(1).active = 0 /\ NoSession(1).next = 1
    BY DEF NoSession
  <2> QED BY <2>1, <2>2
<1>7. Asking
  BY <1>3, <1>4, <1>5, <1>6 DEF Asking, AskingWith
<1>8. Turns
  <2>1. frame = Document(1) /\ wire = <<>>
    BY DEF Init
  <2>2. Named(frame, wire, shell.next) /\ frame.reply = None
    BY <1>0, <2>1, DocumentNamed
  <2>3. TurnsWith(NoSession(shell.next), frame, wire, files, said)
    BY <2>2, NoSessionTurns
  <2> QED BY <1>6, <2>3 DEF Turns
<1> QED BY <1>7, <1>8 DEF TextInv

(* The invariant is inductive, and every step is as it should be.             *)
LEMMA TextInductive ==
  ASSUME IInv, TextInv, [Next]_vars
  PROVE  /\ IInv' /\ TextInv'
         /\ Landing \/ UNCHANGED vars
<1>1. IInv'
  BY Inductive
<1>2. CASE Next
  BY <1>1, <1>2, StepLands DEF Next, TextLands
<1>3. CASE UNCHANGED vars
  <2>1. TextInv'
    BY <1>3 DEF vars, TextInv, Asking, Turns
  <2> QED BY <1>1, <1>3, <2>1
<1> QED BY <1>2, <1>3
-----------------------------------------------------------------------------
(* Page, browser and script agree on what was said to the active request, and *)
(* the one of them that has the turn is the one that acts.                    *)
THEOREM TextInvariance == Spec => [](IInv /\ TextInv)
<1>1. Init => IInv /\ TextInv
  BY Initially, TextInitially
<1>2. IInv /\ TextInv /\ [Next]_vars => (IInv /\ TextInv)'
  BY TextInductive
<1> QED BY <1>1, <1>2, PTL DEF Spec

(* A confirmation that is reported is the user's; the text acted on, and the  *)
(* one the field shows, is what was confirmed, and the session does not write *)
(* to the field any more; a cancellation is never reported for what the user  *)
(* confirmed (wpe-drm-minimal.c: keyboard_handle_response,                    *)
(* on_keyboard_script_message_with_reply).                                    *)
THEOREM ConfirmedTextIsFinal == Spec => ConfirmedTextLands
<1>1. IInv /\ TextInv /\ [Next]_vars => [Landing]_vars
  BY TextInductive
<1>2. Spec => [][Landing]_vars
  BY <1>1, TextInvariance, PTL DEF Spec
<1> QED BY <1>2 DEF ConfirmedTextLands, Landing
=============================================================================
