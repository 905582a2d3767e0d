------------------------ MODULE DRMFrameQueueProofs ------------------------
(***************************************************************************)
(* Machine-checked facts about DRMFrameQueue, for any number of buffers,   *)
(* any pool of slots and every bound, in three parts.                      *)
(*                                                                         *)
(* The ledger, for every configuration: the view always has its type, every *)
(* buffer accepted from the producer is in exactly one place until it is   *)
(* released exactly once, and the quarantine never overflows.  The         *)
(* invariant IInv is what holds between two handlers.  Inside one, the     *)
(* operators of DRMFrameQueue keep the weaker Consistent; there is one     *)
(* lemma per operator, in the order of that module, then one per action.   *)
(*                                                                         *)
(* Phases, fences and targets, on a display without a cursor plane: the    *)
(* assertions on the phase of the pending ticket hold, a waiting frame     *)
(* always has a wake-up on its way, and what the display engine reads is   *)
(* never given up; if the view waits for fences itself, no buffer is       *)
(* released or shown before the GPU is done with it.  PInv is what holds   *)
(* between two handlers, next to IInv.  Inside one, the frames that are    *)
(* not pending keep Books and the display Screened; what becomes of the    *)
(* pending frame is told by Asked, before RequestUpdate runs, and by       *)
(* Decided, after it.                                                      *)
(*                                                                         *)
(* Pages and lending, on such a display: the screen never shows a page that *)
(* is drawn over or an older one than before, it shows the page that is    *)
(* committed, and every step is one of FrameLending or a stutter.  CInv is  *)
(* the invariant: which target holds which page.  Inside a handler Steady, *)
(* Moves and Rests say what becomes of the pages and the frames.           *)
(***************************************************************************)
EXTENDS DRMFrameQueue, TLAPS, FiniteSetTheorems

(* The queue and the quarantine share the lent buffers out between them. *)
Owned(v) ==
  /\ v.ledger.lent = Held(v) \cup v.fences.quarantine
  /\ Held(v) \cap v.fences.quarantine = {}
  /\ v.queue.pendingBuffer # None =>
       v.queue.pendingBuffer \notin {v.queue.queuedBuffer, v.queue.committedBuffer}
  /\ v.queue.queuedBuffer # None => v.queue.queuedBuffer # v.queue.committedBuffer
  /\ v.ledger.repeated = {}

(* A buffer whose end was not reported yet is one the producer waits for. *)
ReportsDue(v) ==
  /\ v.queue.pendingBuffer # None /\ ~v.queue.pendingTicket.rendered =>
       v.queue.pendingBuffer \in v.ledger.unpaced
  /\ v.queue.queuedBuffer # None => v.queue.queuedBuffer \in v.ledger.unpaced

(* What every operator keeps, also in the middle of a handler. *)
Consistent(v) == v \in ViewType /\ v.fault # "quarantine" /\ Owned(v) /\ ReportsDue(v)

(* Between handlers a pending frame has its commit requested, and the flag  *)
(* of a dropped frame belongs to no pending one.                            *)
Pends(v) ==
  v.queue.pendingBuffer # None =>
    "BufferUpdateRequested" \in v.update.flags /\ ~v.update.dropped

Settled(v) == Consistent(v) /\ Pends(v)

(* The inductive invariant. *)
IInv == view \in ViewType /\ view.fault # "quarantine" /\ (~view.disposed => Settled(view))

(* Consistent, once b was handed over and before the queue takes it. *)
Given(v, b) ==
  /\ v \in ViewType /\ v.fault # "quarantine"
  /\ b \in Buffers /\ b \in v.ledger.lent /\ b \in v.ledger.unpaced
  /\ b \notin Held(v) \cup v.fences.quarantine
  /\ v.ledger.lent \ {b} = Held(v) \cup v.fences.quarantine
  /\ Held(v) \cap v.fences.quarantine = {}
  /\ v.queue.pendingBuffer # None =>
       v.queue.pendingBuffer \notin {v.queue.queuedBuffer, v.queue.committedBuffer}
  /\ v.queue.queuedBuffer # None => v.queue.queuedBuffer # v.queue.committedBuffer
  /\ v.ledger.repeated = {}
  /\ ReportsDue(v)

(* The same buffers in the same places. *)
SameBuffers(v, w) ==
  /\ w.queue.pendingBuffer = v.queue.pendingBuffer
  /\ w.queue.queuedBuffer = v.queue.queuedBuffer
  /\ w.queue.committedBuffer = v.queue.committedBuffer

(* Only the drawing, the chrome, KMS and timers may differ. *)
SameCore(v, w) ==
  /\ w.queue = v.queue /\ w.fences = v.fences /\ w.ledger = v.ledger
  /\ w.update.flags = v.update.flags /\ w.update.dropped = v.update.dropped
  /\ w.fault = v.fault /\ w.disposed = v.disposed

(* A target operator draws and prepares a chrome base, nothing else. *)
TargetOf(v, t) ==
  /\ t.v \in ViewType /\ SameCore(v, t.v) /\ t.v.kms = v.kms
  /\ t.fb \in Targets \cup {None}

(* What RequestUpdate may do to the view: a frame that is still pending was *)
(* accepted, and was not dropped.                                           *)
Answer(v, r) ==
  /\ Consistent(r.v) /\ r.v.disposed = v.disposed /\ r.v.update.flags = v.update.flags
  /\ r.v.queue.pendingBuffer # None =>
       /\ r.ok /\ r.v.queue.pendingBuffer = v.queue.pendingBuffer
       /\ r.v.update.dropped = v.update.dropped
-----------------------------------------------------------------------------
(* wpe_view_buffer_released takes b from the producer ledger, once.         *)
LEMMA ReleasedEffect ==
  ASSUME NEW v \in ViewType, NEW b \in Buffers
  PROVE  LET w == BufferReleased(v, b) IN
         /\ w \in ViewType
         /\ w.queue = v.queue /\ w.update = v.update
         /\ w.fault = v.fault /\ w.disposed = v.disposed
         /\ w.fences.quarantine = v.fences.quarantine
         /\ w.ledger.lent = v.ledger.lent \ {b}
         /\ w.ledger.unpaced = v.ledger.unpaced
         /\ w.ledger.repeated = v.ledger.repeated \cup ({b} \ v.ledger.lent)
  BY DEF BufferReleased, ViewType, LedgerType, FencesType

(* A discarded buffer is released or quarantined: there is always room.     *)
LEMMA RetireEffect ==
  ASSUME NEW v \in ViewType, NEW b \in Buffers, NEW held \in BOOLEAN,
         b \in v.ledger.lent, b \notin v.fences.quarantine
  PROVE  LET w == RetireDiscarded(v, b, held) IN
         /\ w \in ViewType
         /\ w.queue = v.queue /\ w.update = v.update
         /\ w.fault = v.fault /\ w.disposed = v.disposed
         /\ w.ledger.unpaced = v.ledger.unpaced
         /\ w.ledger.repeated = v.ledger.repeated
         /\ \/ /\ w.fences.quarantine = v.fences.quarantine
               /\ w.ledger.lent = v.ledger.lent \ {b}
            \/ /\ w.fences.quarantine = v.fences.quarantine \cup {b}
               /\ w.ledger.lent = v.ledger.lent
<1> DEFINE x == IF held THEN v ELSE [v EXCEPT !.fences.held = @ \ {b}]
           k == [x EXCEPT !.fences.quarantine = @ \cup {b}]
<1>1. /\ x \in ViewType
      /\ x.queue = v.queue /\ x.update = v.update /\ x.ledger = v.ledger
      /\ x.fault = v.fault /\ x.disposed = v.disposed
      /\ x.fences.quarantine = v.fences.quarantine
  BY DEF ViewType, FencesType
<1> HIDE DEF x
<1>2. /\ k \in ViewType
      /\ k.queue = x.queue /\ k.update = x.update /\ k.ledger = x.ledger
      /\ k.fault = x.fault /\ k.disposed = x.disposed
      /\ k.fences.quarantine = x.fences.quarantine \cup {b}
  BY <1>1 DEF ViewType, FencesType
<1>3. ~(Cardinality(x.fences.quarantine) >= MaxRetained)
  <2> DEFINE q == x.fences.quarantine
  <2>1. q \subseteq Buffers \ {b}
    BY <1>1 DEF ViewType, FencesType
  <2>2. /\ IsFiniteSet(Buffers) /\ MaxRetained \in Nat
        /\ Cardinality(Buffers) <= MaxRetained
    BY QueueAssumption
  <2>3. /\ IsFiniteSet(Buffers \ {b})
        /\ Cardinality(Buffers \ {b}) = Cardinality(Buffers) - 1
    BY <2>2, FS_RemoveElement
  <2>4. Cardinality(q) <= Cardinality(Buffers \ {b}) /\ IsFiniteSet(q)
    BY <2>1, <2>3, FS_Subset
  <2>5. Cardinality(q) \in Nat /\ Cardinality(Buffers) \in Nat
    BY <2>2, <2>4, FS_CardinalityType
  <2> QED BY <2>2, <2>3, <2>4, <2>5
<1>4. RetireDiscarded(v, b, held) \in {BufferReleased(x, b), k}
  BY <1>3 DEF RetireDiscarded, QuarantineFull, x
<1> HIDE DEF k
<1>5. CASE RetireDiscarded(v, b, held) = BufferReleased(x, b)
  <2> DEFINE y == BufferReleased(x, b)
  <2>1. /\ y \in ViewType
        /\ y.queue = x.queue /\ y.update = x.update
        /\ y.fault = x.fault /\ y.disposed = x.disposed
        /\ y.fences.quarantine = x.fences.quarantine
        /\ y.ledger.lent = x.ledger.lent \ {b}
        /\ y.ledger.unpaced = x.ledger.unpaced
        /\ y.ledger.repeated = x.ledger.repeated \cup ({b} \ x.ledger.lent)
    BY <1>1, ReleasedEffect
  <2> HIDE DEF y
  <2>2. y.ledger.repeated = v.ledger.repeated
    BY <1>1, <2>1
  <2>3. RetireDiscarded(v, b, held) = y
    BY <1>5 DEF y
  <2> QED BY <1>1, <2>1, <2>2, <2>3
<1>6. CASE RetireDiscarded(v, b, held) = k
  BY <1>1, <1>2, <1>6
<1> QED BY <1>4, <1>5, <1>6

(* The end of the pending frame is reported at most once.                   *)
LEMMA CompleteEffect ==
  ASSUME NEW v \in ViewType, v.queue.pendingBuffer # None,
         v.queue.pendingTicket.rendered \/ v.queue.pendingBuffer \in v.ledger.unpaced
  PROVE  LET w == CompletePending(v) IN
         /\ w \in ViewType
         /\ SameBuffers(v, w)
         /\ w.update = v.update /\ w.fences = v.fences
         /\ w.fault = v.fault /\ w.disposed = v.disposed
         /\ w.ledger.lent = v.ledger.lent
         /\ w.ledger.repeated = v.ledger.repeated
         /\ v.ledger.unpaced \ {v.queue.pendingBuffer} \subseteq w.ledger.unpaced
<1> DEFINE b == v.queue.pendingBuffer
           r == BufferRendered(v, b)
           s == [r EXCEPT !.queue.pendingTicket.rendered = TRUE]
<1>1. b \in Buffers
  BY DEF ViewType, QueueType
<1>2. /\ r \in ViewType
      /\ r.queue = v.queue /\ r.update = v.update /\ r.fences = v.fences
      /\ r.fault = v.fault /\ r.disposed = v.disposed
      /\ r.ledger.lent = v.ledger.lent
      /\ r.ledger.unpaced = v.ledger.unpaced \ {b}
      /\ r.ledger.repeated = v.ledger.repeated \cup ({b} \ v.ledger.unpaced)
  BY <1>1 DEF BufferRendered, ViewType, LedgerType
<1> HIDE DEF b, r
<1>3. /\ s \in ViewType /\ SameBuffers(r, s)
      /\ s.update = r.update /\ s.fences = r.fences /\ s.fault = r.fault
      /\ s.disposed = r.disposed /\ s.ledger = r.ledger
  BY <1>2 DEF ViewType, QueueType, Ticket, SameBuffers
<1>4. CASE CanComplete(v.queue.pendingTicket)
  <2>1. CompletePending(v) = s /\ b \in v.ledger.unpaced
    BY <1>4 DEF CompletePending, CanComplete, b, r
  <2> HIDE DEF s
  <2> QED BY <2>1, <1>2, <1>3 DEF b, SameBuffers
<1>5. CASE ~CanComplete(v.queue.pendingTicket)
  BY <1>5 DEF CompletePending, SameBuffers
<1> QED BY <1>4, <1>5

(* A phase change touches the pending ticket, or trips its assertion.       *)
LEMMA AdvanceEffect ==
  ASSUME NEW v \in ViewType, NEW phase \in FramePhase
  PROVE  LET w == AdvancePending(v, phase) IN
         /\ w \in ViewType
         /\ SameBuffers(v, w)
         /\ w.queue.pendingTicket.rendered = v.queue.pendingTicket.rendered
         /\ w.update = v.update /\ w.fences = v.fences /\ w.ledger = v.ledger
         /\ w.disposed = v.disposed /\ w.fault \in {v.fault, "assert"}
  BY DEF AdvancePending, ViewType, QueueType, Ticket, SameBuffers

(* A phase change keeps the books.                                          *)
LEMMA AdvanceConsistent ==
  ASSUME NEW v, Consistent(v), NEW phase \in FramePhase
  PROVE  LET w == AdvancePending(v, phase) IN
         /\ Consistent(w) /\ SameBuffers(v, w)
         /\ w.update = v.update /\ w.disposed = v.disposed
<1> DEFINE w == AdvancePending(v, phase)
<1>1. v \in ViewType
  BY DEF Consistent
<1>2. /\ w \in ViewType
         /\ SameBuffers(v, w)
         /\ w.queue.pendingTicket.rendered = v.queue.pendingTicket.rendered
         /\ w.update = v.update /\ w.fences = v.fences /\ w.ledger = v.ledger
         /\ w.disposed = v.disposed /\ w.fault \in {v.fault, "assert"}
  BY <1>1, AdvanceEffect
<1> HIDE DEF w
<1>3. Consistent(w)
  BY <1>2 DEF Consistent, Owned, ReportsDue, Held, SameBuffers
<1> QED BY <1>2, <1>3 DEF w

(* abortPendingCommit leaves no pending frame and keeps the books.          *)
LEMMA AbortConsistent ==
  ASSUME NEW v, Consistent(v)
  PROVE  LET w == AbortPending(v) IN
         /\ Consistent(w)
         /\ w.queue.pendingBuffer = None
         /\ w.update.flags = v.update.flags
         /\ w.update.dropped = (v.queue.pendingBuffer # None)
         /\ w.disposed = v.disposed
<1> DEFINE b == v.queue.pendingBuffer
           web == b # None
           others == {v.queue.queuedBuffer, v.queue.committedBuffer} \ {None}
           c == CompletePending(v)
           r == RetireDiscarded(c, b, v.fences.pending)
           w == IF web THEN r ELSE v
           q == [w.queue EXCEPT !.pendingBuffer = None, !.pendingTicket = NoTicket]
           u == [w.update EXCEPT !.fenceWait = FALSE, !.dropped = web]
           f == [w.fences EXCEPT !.taken = FALSE, !.pending = FALSE]
           h == [w.chrome EXCEPT !.preparedGeneration = 0, !.preparedPage = 0]
           a == [w EXCEPT !.queue = q, !.update = u, !.fences = f, !.chrome = h,
                          !.scanout.pending = None]
<1>0. v \in ViewType /\ v.fences.pending \in BOOLEAN /\ web \in BOOLEAN
  BY DEF Consistent, ViewType, FencesType
<1>1. /\ w \in ViewType
      /\ SameBuffers(v, w) /\ w.update.flags = v.update.flags
      /\ w.fault = v.fault /\ w.disposed = v.disposed
      /\ w.ledger.repeated = {}
      /\ v.ledger.unpaced \ {b} \subseteq w.ledger.unpaced
      /\ w.ledger.lent = others \cup w.fences.quarantine
      /\ others \cap w.fences.quarantine = {}
  <2>1. CASE web
    <3>1. /\ c \in ViewType /\ SameBuffers(v, c)
          /\ c.update = v.update /\ c.fences = v.fences
          /\ c.fault = v.fault /\ c.disposed = v.disposed
          /\ c.ledger.lent = v.ledger.lent
          /\ c.ledger.repeated = {}
          /\ v.ledger.unpaced \ {b} \subseteq c.ledger.unpaced
      BY <2>1, <1>0, CompleteEffect DEF Consistent, Owned, ReportsDue
    <3>2. b \in Buffers /\ b \in v.ledger.lent /\ b \notin v.fences.quarantine
      BY <2>1, <1>0 DEF Consistent, Owned, Held, ViewType, QueueType
    <3>3. /\ v.ledger.lent \ {b} = others \cup v.fences.quarantine
          /\ others \cap (v.fences.quarantine \cup {b}) = {}
      BY <2>1, <3>2 DEF Consistent, Owned, Held
    <3> HIDE DEF c, others
    <3>4. /\ r \in ViewType
          /\ SameBuffers(v, r) /\ r.update = v.update
          /\ r.fault = v.fault /\ r.disposed = v.disposed
          /\ r.ledger.unpaced = c.ledger.unpaced
          /\ r.ledger.repeated = {}
      BY <3>1, <3>2, <1>0, RetireEffect DEF SameBuffers
    <3>5. \/ /\ r.fences.quarantine = v.fences.quarantine
             /\ r.ledger.lent = v.ledger.lent \ {b}
          \/ /\ r.fences.quarantine = v.fences.quarantine \cup {b}
             /\ r.ledger.lent = v.ledger.lent
      BY <3>1, <3>2, <1>0, RetireEffect
    <3> HIDE DEF r
    <3>6. /\ r.ledger.lent = others \cup r.fences.quarantine
          /\ others \cap r.fences.quarantine = {}
      BY <3>2, <3>3, <3>5 DEF Consistent, Owned
    <3>7. w = r
      BY <2>1
    <3> HIDE DEF w, b
    <3> QED BY <3>1, <3>4, <3>6, <3>7
  <2>2. CASE ~web
    BY <2>2, <1>0 DEF SameBuffers, Consistent, Owned, Held
  <2> QED BY <2>1, <2>2
<1>2. AbortPending(v) = a
  BY DEF AbortPending
<1> HIDE DEF w
<1>3. /\ q \in QueueType 
      /\ q.pendingBuffer = None
      /\ q.queuedBuffer = v.queue.queuedBuffer
      /\ q.committedBuffer = v.queue.committedBuffer
  BY <1>1 DEF ViewType, QueueType, Ticket, NoTicket, FramePhase, SameBuffers
<1>4. u \in UpdateType /\ u.flags = v.update.flags /\ u.dropped = web
  BY <1>1, <1>0 DEF ViewType, UpdateType
<1>5. f \in FencesType /\ f.quarantine = w.fences.quarantine
  BY <1>1 DEF ViewType, FencesType
<1>6. h \in ChromeType
  BY <1>1 DEF ViewType, ChromeType
<1> HIDE DEF q, u, f, h
<1>7. /\ a \in ViewType /\ a.queue = q /\ a.update = u /\ a.fences = f
      /\ a.ledger = w.ledger /\ a.fault = w.fault /\ a.disposed = w.disposed
  BY <1>1, <1>3, <1>4, <1>5, <1>6 DEF ViewType, ScanoutType
<1> HIDE DEF a
<1>8. Owned(a)
  BY <1>1, <1>3, <1>5, <1>7 DEF Consistent, Owned, Held
<1>9. ReportsDue(a)
  BY <1>1, <1>3, <1>7 DEF Consistent, Owned, ReportsDue
<1> QED BY <1>0, <1>1, <1>2, <1>3, <1>4, <1>7, <1>8, <1>9 DEF Consistent

(* A page that becomes the committed one releases the one before it.        *)
LEMMA PageConsistent ==
  ASSUME NEW v, Consistent(v), v.queue.pendingBuffer # None
  PROVE  LET w == CommitPage(v) IN
         /\ Consistent(w) /\ w.queue.pendingBuffer = None
         /\ w.update = v.update /\ w.disposed = v.disposed
<1> DEFINE b == v.queue.pendingBuffer
           old == v.queue.committedBuffer
           p == AdvancePending(v, "Presented")
           r == IF old = None THEN p ELSE BufferReleased(p, old)
           c == CompletePending(r)
           q == [c.queue EXCEPT !.committedBuffer = b, !.committedTicket = c.queue.pendingTicket,
                                !.pendingBuffer = None, !.pendingTicket = NoTicket]
           w == [c EXCEPT !.queue = q]
<1>1. /\ v \in ViewType /\ "Presented" \in FramePhase /\ b \in Buffers
      /\ old \in Buffers \cup {None}
  BY DEF Consistent, ViewType, QueueType, FramePhase
<1>2. /\ p \in ViewType /\ SameBuffers(v, p)
      /\ p.queue.pendingTicket.rendered = v.queue.pendingTicket.rendered
      /\ p.update = v.update /\ p.fences = v.fences /\ p.ledger = v.ledger
      /\ p.disposed = v.disposed /\ p.fault # "quarantine"
  BY <1>1, AdvanceEffect DEF Consistent
<1> HIDE DEF p
<1>3. /\ r \in ViewType /\ r.queue = p.queue
      /\ r.update = v.update /\ r.fences.quarantine = v.fences.quarantine
      /\ r.disposed = v.disposed /\ r.fault # "quarantine"
      /\ r.ledger.lent = v.ledger.lent \ ({old} \ {None})
      /\ r.ledger.unpaced = v.ledger.unpaced
      /\ r.ledger.repeated = {}
  <2>1. CASE old = None
    BY <1>2, <2>1 DEF Consistent, Owned
  <2>2. CASE old # None
    <3> DEFINE y == BufferReleased(p, old)
    <3>1. /\ y \in ViewType
          /\ y.queue = p.queue /\ y.update = p.update
          /\ y.fault = p.fault /\ y.disposed = p.disposed
          /\ y.fences.quarantine = p.fences.quarantine
          /\ y.ledger.lent = p.ledger.lent \ {old}
          /\ y.ledger.unpaced = p.ledger.unpaced
          /\ y.ledger.repeated = p.ledger.repeated \cup ({old} \ p.ledger.lent)
      BY <1>1, <1>2, <2>2, ReleasedEffect
    <3>2. old \in v.ledger.lent /\ v.ledger.repeated = {}
      BY <2>2 DEF Consistent, Owned, Held
    <3>3. r = y
      BY <2>2
    <3> HIDE DEF y, r
    <3> QED BY <1>2, <2>2, <3>1, <3>2, <3>3
  <2> QED BY <2>1, <2>2
<1> HIDE DEF r
<1>4. /\ c \in ViewType /\ SameBuffers(v, c)
      /\ c.update = v.update /\ c.fences.quarantine = v.fences.quarantine
      /\ c.disposed = v.disposed /\ c.fault # "quarantine"
      /\ c.ledger.lent = v.ledger.lent \ ({old} \ {None})
      /\ v.ledger.unpaced \ {b} \subseteq c.ledger.unpaced
      /\ c.ledger.repeated = {}
  <2>1. r.queue.pendingBuffer = b /\ r.queue.pendingBuffer # None
    BY <1>2, <1>3 DEF SameBuffers
  <2>2. r.queue.pendingTicket.rendered \/ r.queue.pendingBuffer \in r.ledger.unpaced
    BY <1>2, <1>3, <2>1 DEF Consistent, ReportsDue
  <2>3. /\ c \in ViewType
        /\ SameBuffers(r, c)
        /\ c.update = r.update /\ c.fences = r.fences
        /\ c.fault = r.fault /\ c.disposed = r.disposed
        /\ c.ledger.lent = r.ledger.lent
        /\ c.ledger.repeated = r.ledger.repeated
        /\ r.ledger.unpaced \ {r.queue.pendingBuffer} \subseteq c.ledger.unpaced
    BY <1>3, <2>1, <2>2, CompleteEffect
  <2> HIDE DEF c, b, old
  <2> QED BY <1>2, <1>3, <2>1, <2>3 DEF SameBuffers
<1>5. CommitPage(v) = w
  BY DEF CommitPage, c, r, p
<1> HIDE DEF c
<1>6. /\ q \in QueueType
      /\ q.committedBuffer = b /\ q.pendingBuffer = None
      /\ q.queuedBuffer = v.queue.queuedBuffer
  BY <1>1, <1>4 DEF ViewType, QueueType, Ticket, NoTicket, FramePhase, SameBuffers
<1> HIDE DEF q
<1>7. /\ w \in ViewType /\ w.queue = q /\ w.update = c.update /\ w.fences = c.fences
      /\ w.fault = c.fault /\ w.disposed = c.disposed /\ w.ledger = c.ledger
  BY <1>4, <1>6 DEF ViewType
<1> HIDE DEF w
<1>8. Owned(w)
  BY <1>1, <1>4, <1>6, <1>7 DEF Consistent, Owned, Held
<1>9. ReportsDue(w)
  BY <1>1, <1>4, <1>6, <1>7 DEF Consistent, Owned, ReportsDue
<1> QED BY <1>4, <1>5, <1>6, <1>7, <1>8, <1>9 DEF Consistent

(* The books do not depend on what SameCore leaves free.                    *)
LEMMA CoreConsistent ==
  ASSUME NEW v, Consistent(v), NEW w \in ViewType, SameCore(v, w)
  PROVE  Consistent(w)
  BY DEF Consistent, SameCore, Owned, Held, ReportsDue

(* Chrome generations stay numbers.                                         *)
LEMMA AdvanceGenerationType ==
  ASSUME NEW chrome \in ChromeType
  PROVE  AdvanceGeneration(chrome) \in ChromeType
<1>1. CASE chrome.preparedGeneration = 0
  BY <1>1 DEF ChromeType, AdvanceGeneration
<1>2. CASE chrome.preparedGeneration # 0
  <2> DEFINE g == chrome.generation + 1
             p == chrome.preparedPage
             z == [chrome EXCEPT !.generation = g, !.baseGeneration = g, !.basePage = p]
  <2>1. AdvanceGeneration(chrome) = [z EXCEPT !.preparedGeneration = 0, !.preparedPage = 0]
    BY <1>2 DEF AdvanceGeneration
  <2>2. g \in Nat /\ p \in Nat
    BY DEF ChromeType
  <2> HIDE DEF g, p
  <2>3. z \in ChromeType
    BY <2>2 DEF ChromeType
  <2> HIDE DEF z
  <2>4. [z EXCEPT !.preparedGeneration = 0, !.preparedPage = 0] \in ChromeType
    BY <2>3 DEF ChromeType
  <2> QED BY <2>1, <2>4
<1> QED BY <1>1, <1>2

(* wpeViewDRMFinishBufferCommit leaves no pending frame and keeps the books. *)
LEMMA FinishConsistent ==
  ASSUME NEW v, Consistent(v)
  PROVE  LET w == FinishBufferCommit(v) IN
         /\ Consistent(w) /\ w.queue.pendingBuffer = None
         /\ w.update.flags = v.update.flags /\ w.update.dropped = v.update.dropped
         /\ w.disposed = v.disposed
<1> DEFINE web == v.queue.pendingBuffer # None
           w == IF web THEN CommitPage(v) ELSE v
           x == IF v.scanout.pending # None THEN CommitScanout(w) ELSE w
           h == IF web THEN AdvanceGeneration(v.chrome) ELSE v.chrome
           y == [x EXCEPT !.chrome = [h EXCEPT !.pending = h.stale]]
<1>1. /\ Consistent(w) /\ w.queue.pendingBuffer = None
      /\ w.update = v.update /\ w.disposed = v.disposed
  BY PageConsistent
<1> HIDE DEF w
<1>2. w \in ViewType
  BY <1>1 DEF Consistent
<1>3. CommitScanout(w) \in ViewType /\ SameCore(w, CommitScanout(w))
  BY <1>2 DEF CommitScanout, ViewType, ScanoutType, Targets, SameCore
<1>4. x \in ViewType /\ SameCore(w, x)
  BY <1>2, <1>3 DEF SameCore
<1> HIDE DEF x
<1>5. v.chrome \in ChromeType
  BY DEF Consistent, ViewType
<1>6. h \in ChromeType
  BY <1>5, AdvanceGenerationType
<1> HIDE DEF h
<1>7. [h EXCEPT !.pending = h.stale] \in ChromeType
  BY <1>6 DEF ChromeType
<1>8. y \in ViewType /\ SameCore(x, y)
  BY <1>4, <1>7 DEF ViewType, SameCore
<1>9. FinishBufferCommit(v) \in {v, y}
  BY DEF FinishBufferCommit, w, x, h
<1>10. CASE FinishBufferCommit(v) = y
  <2>1. SameCore(w, y)
    BY <1>4, <1>8 DEF SameCore
  <2> HIDE DEF y
  <2>2. Consistent(y)
    BY <1>1, <1>8, <2>1, CoreConsistent
  <2> QED BY <1>1, <1>10, <2>1, <2>2 DEF SameCore
<1>11. CASE FinishBufferCommit(v) = v /\ ~web
  BY <1>11
<1>12. CASE FinishBufferCommit(v) # y
  <2>1. ~web
    BY <1>12 DEF FinishBufferCommit, w, x, h
  <2> QED BY <1>9, <1>12, <2>1, <1>11
<1> QED BY <1>10, <1>12

(* A synchronous commit finishes, any other is left as it is.               *)
LEMMA SynchronousConsistent ==
  ASSUME NEW v, Consistent(v)
  PROVE  LET w == CompleteSynchronous(v) IN
         /\ Consistent(w) /\ w.disposed = v.disposed /\ w.update.dropped = v.update.dropped
         /\ \/ w.queue.pendingBuffer = None
            \/ w.queue.pendingBuffer = v.queue.pendingBuffer /\ w.update.flags = v.update.flags
<1> DEFINE u == [v.update EXCEPT !.lastCommitSync = FALSE, !.flags = @ \ {"BufferUpdateRequested"}]
           x == [v EXCEPT !.update = u]
<1>1. CASE v.update.lastCommitSync
  <2>1. u \in UpdateType /\ u.dropped = v.update.dropped
    BY DEF Consistent, ViewType, UpdateType
  <2> HIDE DEF u
  <2>2. /\ x \in ViewType /\ x.update = u
        /\ x.queue = v.queue /\ x.fences = v.fences /\ x.ledger = v.ledger
        /\ x.fault = v.fault /\ x.disposed = v.disposed
    BY <2>1 DEF Consistent, ViewType
  <2>3. CompleteSynchronous(v) = FinishBufferCommit(x)
    BY <1>1 DEF CompleteSynchronous, u
  <2> HIDE DEF x
  <2>4. Consistent(x)
    BY <2>2 DEF Consistent, Owned, Held, ReportsDue
  <2> QED BY <2>1, <2>2, <2>3, <2>4, FinishConsistent
<1>2. CASE ~v.update.lastCommitSync
  BY <1>2 DEF CompleteSynchronous
<1> QED BY <1>1, <1>2

(* Only slots of the pool are written.                                      *)
LEMMA SpareSlotsAreTargets ==
  ASSUME NEW v PROVE WritableSlots(v) \subseteq Slots
  BY DEF WritableSlots, SpareSlots

(* Drawing a page changes one slot and the chrome base.                     *)
LEMMA DrawPageType ==
  ASSUME NEW v \in ViewType, NEW s \in Slots, NEW drawn \in Nat, NEW page \in Nat,
         NEW g \in Nat
  PROVE  LET w == DrawPage(v, s, drawn, page, g) IN
         w \in ViewType /\ SameCore(v, w) /\ w.kms = v.kms
<1> DEFINE p == IF g = 0 THEN 0 ELSE page
           h == [v.chrome EXCEPT !.preparedGeneration = g, !.stale = FALSE, !.preparedPage = p]
           c == [v.scanout EXCEPT !.frame[s] = drawn]
<1>1. p \in Nat
  OBVIOUS
<1>2. PrepareBase(v.chrome, g, page) = h
  BY DEF PrepareBase
<1> HIDE DEF p
<1>3. h \in ChromeType
  BY <1>1 DEF ViewType, ChromeType
<1>4. c \in ScanoutType
  BY DEF ViewType, ScanoutType, Targets
<1>5. DrawPage(v, s, drawn, page, g) = [v EXCEPT !.scanout = c, !.chrome = h]
  BY <1>2 DEF DrawPage
<1> HIDE DEF h, c
<1>6. [v EXCEPT !.scanout = c, !.chrome = h] \in ViewType
  BY <1>3, <1>4 DEF ViewType
<1> QED BY <1>5, <1>6 DEF ViewType, SameCore

(* drmScanoutBufferForRender yields a target, or none.                      *)
LEMMA RenderTargetsType ==
  ASSUME NEW v \in ViewType, NEW source \in Buffers, NEW page \in Nat, NEW capture \in BOOLEAN,
         NEW t \in RenderTargets(v, source, page, capture)
  PROVE  TargetOf(v, t)
<1> DEFINE direct == [v EXCEPT !.scanout.frame[source] = page]
<1>1. direct \in ViewType /\ SameCore(v, direct) /\ direct.kms = v.kms /\ source \in Targets
  BY DEF ViewType, ScanoutType, SameCore, Targets
<1>2. BaseGenerations(v, capture) \subseteq Nat
  BY DEF BaseGenerations, ViewType, ChromeType
<1>3. \/ t = [v |-> v, fb |-> None]
      \/ t = [v |-> direct, fb |-> source]
      \/ \E s \in WritableSlots(v), g \in BaseGenerations(v, capture) :
           t \in {[v |-> DrawPage(v, s, page, page, g), fb |-> s],
                  [v |-> DrawPage(v, s, 0, page, g), fb |-> None]}
  BY DEF RenderTargets, NoTarget
<1>4. CASE t = [v |-> v, fb |-> None]
  BY <1>4 DEF TargetOf, SameCore
<1>5. CASE t = [v |-> direct, fb |-> source]
  <2> HIDE DEF direct
  <2> QED BY <1>1, <1>5 DEF TargetOf
<1>6. ASSUME NEW s \in WritableSlots(v), NEW g \in BaseGenerations(v, capture),
             t \in {[v |-> DrawPage(v, s, page, page, g), fb |-> s],
                    [v |-> DrawPage(v, s, 0, page, g), fb |-> None]}
      PROVE  TargetOf(v, t)
  <2> DEFINE full == DrawPage(v, s, page, page, g)
             half == DrawPage(v, s, 0, page, g)
  <2>1. s \in Slots /\ g \in Nat /\ 0 \in Nat
    BY <1>2, SpareSlotsAreTargets
  <2>2. full \in ViewType /\ SameCore(v, full) /\ full.kms = v.kms
    BY <2>1, DrawPageType
  <2>3. half \in ViewType /\ SameCore(v, half) /\ half.kms = v.kms
    BY <2>1, DrawPageType
  <2> HIDE DEF full, half
  <2>4. t \in {[v |-> full, fb |-> s], [v |-> half, fb |-> None]}
    BY <1>6 DEF full, half
  <2> QED BY <2>1, <2>2, <2>3, <2>4 DEF TargetOf, Targets
<1> QED BY <1>3, <1>4, <1>5, <1>6

(* nextChromeOverlayBuffer yields a target, or none.                        *)
LEMMA OverlayTargetsType ==
  ASSUME NEW v \in ViewType, NEW t \in OverlayTargets(v)
  PROVE  TargetOf(v, t)
<1> DEFINE Drawn(s) == [v EXCEPT !.scanout.frame[s] = v.chrome.basePage, !.chrome.stale = FALSE]
<1>1. \/ t = [v |-> v, fb |-> None]
      \/ \E s \in WritableSlots(v) : t = [v |-> Drawn(s), fb |-> s]
  BY DEF OverlayTargets, NoTarget
<1>2. CASE t = [v |-> v, fb |-> None]
  BY <1>2 DEF TargetOf, SameCore
<1>3. CASE \E s \in WritableSlots(v) : t = [v |-> Drawn(s), fb |-> s]
  <2>1. PICK s \in Slots : t = [v |-> Drawn(s), fb |-> s]
    BY <1>3, SpareSlotsAreTargets
  <2>2. Drawn(s) \in ViewType /\ SameCore(v, Drawn(s)) /\ Drawn(s).kms = v.kms
    <3>1. v.chrome.basePage \in Nat
      BY DEF ViewType, ChromeType
    <3> QED BY <3>1 DEF ViewType, ScanoutType, ChromeType, SameCore, Targets
  <2> HIDE DEF Drawn
  <2> QED BY <2>1, <2>2 DEF TargetOf, Targets
<1> QED BY <1>1, <1>2, <1>3

(* captureCommittedChromeBase leaves the queue alone.                       *)
LEMMA CaptureBaseConsistent ==
  ASSUME NEW v, Consistent(v), NEW r \in CaptureBase(v)
  PROVE  Consistent(r.v) /\ SameCore(v, r.v)
<1> DEFINE b == v.queue.committedBuffer
           page == v.queue.committedTicket.serial
           Captured(t) == [t.v EXCEPT
                           !.chrome = [t.v.chrome EXCEPT
                                         !.basePage = t.v.chrome.preparedPage,
                                         !.baseGeneration = v.chrome.generation,
                                         !.preparedGeneration = 0, !.preparedPage = 0]]
<1>1. v \in ViewType
  BY DEF Consistent
<1>2. \/ r = [v |-> v, ok |-> FALSE]
      \/ /\ b # None
         /\ \E t \in RenderTargets(v, b, page, TRUE) :
              r \in {[v |-> t.v, ok |-> FALSE], [v |-> Captured(t), ok |-> TRUE]}
  BY DEF CaptureBase
<1>3. CASE r = [v |-> v, ok |-> FALSE]
  BY <1>3 DEF SameCore
<1>4. ASSUME b # None, NEW t \in RenderTargets(v, b, page, TRUE),
             r \in {[v |-> t.v, ok |-> FALSE], [v |-> Captured(t), ok |-> TRUE]}
      PROVE  Consistent(r.v) /\ SameCore(v, r.v)
  <2>1. b \in Buffers /\ page \in Nat /\ TRUE \in BOOLEAN
    BY <1>1, <1>4 DEF ViewType, QueueType, Ticket
  <2>2. TargetOf(v, t)
    BY <1>1, <1>4, <2>1, RenderTargetsType
  <2>3. t.v \in ViewType /\ SameCore(v, t.v)
    BY <2>2 DEF TargetOf
  <2>4. t.v.chrome.preparedPage \in Nat /\ v.chrome.generation \in Nat
    BY <1>1, <2>3 DEF ViewType, ChromeType
  <2> DEFINE g == v.chrome.generation
             p == t.v.chrome.preparedPage
             h == [t.v.chrome EXCEPT !.basePage = p, !.baseGeneration = g,
                                     !.preparedGeneration = 0, !.preparedPage = 0]
  <2>5. h \in ChromeType
    <3> HIDE DEF g, p
    <3> QED BY <2>3, <2>4 DEF ViewType, ChromeType, g, p
  <2>6. Captured(t) = [t.v EXCEPT !.chrome = h]
    OBVIOUS
  <2> HIDE DEF h
  <2>7. [t.v EXCEPT !.chrome = h] \in ViewType /\ SameCore(t.v, [t.v EXCEPT !.chrome = h])
    BY <2>3, <2>5 DEF ViewType, SameCore
  <2> HIDE DEF Captured
  <2>8. Captured(t) \in ViewType /\ SameCore(v, Captured(t))
    BY <2>3, <2>6, <2>7 DEF SameCore
  <2>9. r.v \in ViewType /\ SameCore(v, r.v)
    BY <2>3, <2>8, <1>4
  <2> QED BY <2>9, CoreConsistent
<1> QED BY <1>2, <1>3, <1>4

(* A commit, accepted or refused, answers as RequestUpdate must.            *)
LEMMA CommitTargetsAnswer ==
  ASSUME NEW v, Consistent(v), NEW fb \in Targets \cup {None}, NEW r \in CommitTargets(v, fb)
  PROVE  Answer(v, r)
<1> DEFINE sync == Atomic /\ SyncCommit /\ CopyPath /\ fb # None
           web == v.queue.pendingBuffer # None
           a == AbortPending(v)
           aborted == [a EXCEPT !.update.lastCommitSync = @ /\ ~Atomic]
           kms == IF sync THEN [busy |-> FALSE, next |-> None, screen |-> fb]
                  ELSE [busy |-> TRUE, next |-> fb, screen |-> v.kms.screen]
           c == [v.scanout EXCEPT !.owned = @ \cup ({fb} \ {None}),
                                  !.atomicInFlight = IF Atomic THEN ~sync ELSE @]
           owned == [v EXCEPT !.scanout = c,
                              !.update.lastCommitSync = IF Atomic THEN sync ELSE @,
                              !.kms = kms]
           taken == IF web THEN AdvancePending(owned, "Submitted") ELSE owned
<1>1. v \in ViewType /\ {Atomic, SyncCommit, CopyPath} \subseteq BOOLEAN
  BY QueueAssumption DEF Consistent
<1>2. \/ r = [v |-> v, ok |-> FALSE] /\ ~web
      \/ r = [v |-> aborted, ok |-> web]
      \/ r = [v |-> taken, ok |-> TRUE]
  <2> HIDE DEF aborted, taken
  <2>1. CommitTargets(v, fb) \subseteq
          {IF v.queue.pendingBuffer = None /\ ~Atomic /\ fb = None
             THEN [v |-> v, ok |-> FALSE] ELSE [v |-> aborted, ok |-> web],
           [v |-> taken, ok |-> TRUE]}
    BY DEF CommitTargets, aborted, taken
  <2> QED BY <2>1
<1>3. CASE r = [v |-> v, ok |-> FALSE] /\ ~web
  BY <1>3 DEF Answer
<1>4. CASE r = [v |-> aborted, ok |-> web]
  <2>1. /\ Consistent(a) /\ a.queue.pendingBuffer = None
        /\ a.update.flags = v.update.flags /\ a.disposed = v.disposed
    BY AbortConsistent
  <2> HIDE DEF a
  <2>2. aborted \in ViewType /\ SameCore(a, aborted)
    BY <1>1, <2>1 DEF Consistent, ViewType, UpdateType, SameCore
  <2> HIDE DEF aborted
  <2>3. Consistent(aborted)
    BY <2>1, <2>2, CoreConsistent
  <2> QED BY <1>4, <2>1, <2>2, <2>3 DEF Answer, SameCore
<1>5. CASE r = [v |-> taken, ok |-> TRUE]
  <2>1. c \in ScanoutType
    BY <1>1 DEF ViewType, ScanoutType
  <2>2. kms \in KMSType
    BY <1>1 DEF ViewType, KMSType
  <2> HIDE DEF c, kms
  <2>3. owned \in ViewType /\ SameCore(v, owned)
    BY <1>1, <2>1, <2>2 DEF ViewType, UpdateType, SameCore
  <2> HIDE DEF owned
  <2>4. Consistent(owned)
    BY <2>3, CoreConsistent
  <2>5. Consistent(taken) /\ taken.disposed = v.disposed /\ SameBuffers(v, taken)
        /\ taken.update.flags = v.update.flags /\ taken.update.dropped = v.update.dropped
    BY <2>3, <2>4, AdvanceConsistent DEF SameCore, SameBuffers, FramePhase
  <2> HIDE DEF taken
  <2> QED BY <1>5, <2>5 DEF Answer, SameBuffers
<1> QED BY <1>2, <1>3, <1>4, <1>5

(* So does a target that was, or was not, obtained.                         *)
LEMMA SubmitTargetAnswer ==
  ASSUME NEW v, Consistent(v), NEW t, TargetOf(v, t), NEW r \in SubmitTarget(t)
  PROVE  Answer(v, r)
<1> DEFINE web == t.v.queue.pendingBuffer # None
           a == AbortPending(t.v)
           ready == IF web THEN AdvancePending(t.v, "Ready") ELSE t.v
           w == [ready EXCEPT !.scanout.pending = t.fb]
<1>1. t.v \in ViewType /\ SameCore(v, t.v) /\ t.fb \in Targets \cup {None} /\ Consistent(t.v)
  BY CoreConsistent DEF TargetOf
<1>2. CASE t.fb = None
  <2>1. r = [v |-> a, ok |-> web]
    BY <1>2 DEF SubmitTarget
  <2>2. /\ Consistent(a) /\ a.queue.pendingBuffer = None
        /\ a.update.flags = t.v.update.flags /\ a.disposed = t.v.disposed
    BY <1>1, AbortConsistent
  <2> HIDE DEF a, web
  <2> QED BY <1>1, <2>1, <2>2 DEF Answer, SameCore
<1>3. CASE t.fb # None
  <2>1. r \in CommitTargets(w, t.fb)
    BY <1>3 DEF SubmitTarget
  <2>2. Consistent(ready) /\ SameBuffers(t.v, ready) /\ ready.update = t.v.update
        /\ ready.disposed = t.v.disposed
    BY <1>1, AdvanceConsistent DEF SameBuffers, FramePhase
  <2> HIDE DEF ready
  <2>3. w \in ViewType /\ SameCore(ready, w)
    BY <1>1, <2>2 DEF Consistent, ViewType, ScanoutType, SameCore
  <2> HIDE DEF w
  <2>4. Consistent(w)
    BY <2>2, <2>3, CoreConsistent
  <2>5. Answer(w, r)
    BY <1>1, <2>1, <2>4, CommitTargetsAnswer
  <2> QED BY <1>1, <2>2, <2>3, <2>5 DEF Answer, SameCore, SameBuffers
<1> QED BY <1>2, <1>3

(* A chrome or cursor update answers as RequestUpdate must.                 *)
LEMMA UpdateChromeAnswer ==
  ASSUME NEW v, Consistent(v), NEW r \in UpdateChrome(v)
  PROVE  Answer(v, r)
<1> DEFINE b == v.queue.committedBuffer
           page == v.queue.committedTicket.serial
<1>1. v \in ViewType /\ v.scanout.committed \in Targets \cup {None} /\ page \in Nat
      /\ FALSE \in BOOLEAN /\ b \in Buffers \cup {None}
  BY DEF Consistent, ViewType, ScanoutType, QueueType, Ticket
<1>2. \/ r \in CommitTargets(v, v.scanout.committed)
      \/ \E t \in OverlayTargets(v) : r \in SubmitTarget(t)
      \/ b # None /\ \E t \in RenderTargets(v, b, page, FALSE) : r \in SubmitTarget(t)
  BY DEF UpdateChrome
<1>3. CASE r \in CommitTargets(v, v.scanout.committed)
  BY <1>1, <1>3, CommitTargetsAnswer
<1>4. CASE \E t \in OverlayTargets(v) : r \in SubmitTarget(t)
  BY <1>1, <1>4, OverlayTargetsType, SubmitTargetAnswer
<1>5. CASE b # None /\ \E t \in RenderTargets(v, b, page, FALSE) : r \in SubmitTarget(t)
  <2>1. PICK t \in RenderTargets(v, b, page, FALSE) : r \in SubmitTarget(t)
    BY <1>5
  <2>2. TargetOf(v, t)
    BY <1>1, <1>5, <2>1, RenderTargetsType
  <2> QED BY <2>1, <2>2, SubmitTargetAnswer
<1> QED BY <1>2, <1>3, <1>4, <1>5

(* A web frame that waits, fails or is submitted does too.                  *)
LEMMA UpdateWebFrameAnswer ==
  ASSUME NEW v, Consistent(v), v.queue.pendingBuffer # None, NEW r \in UpdateWebFrame(v)
  PROVE  Answer(v, r)
<1> DEFINE b == v.queue.pendingBuffer
           f == [v.fences EXCEPT !.pending = b \in v.fences.held, !.held = @ \ {b}, !.taken = TRUE]
           w == IF v.fences.taken THEN v ELSE [v EXCEPT !.fences = f]
           g == [w.fences EXCEPT !.pending = FALSE, !.taken = FALSE]
           x == [w EXCEPT !.fences = g]
           prepared == AdvancePending(x, "Preparing")
           y == IF w.update.fenceWait THEN w ELSE AdvancePending(w, "WaitingFence")
           u == [w.update EXCEPT !.fenceWait = TRUE, !.lastCommitSync = FALSE]
           waits == [y EXCEPT !.update = u]
           page == w.queue.pendingTicket.serial
<1>1. v \in ViewType /\ b \in Buffers /\ "Preparing" \in FramePhase /\ "WaitingFence" \in FramePhase
  BY DEF Consistent, ViewType, QueueType, FramePhase
<1>2. Consistent(w) /\ SameBuffers(v, w) /\ w.update = v.update /\ w.disposed = v.disposed
  <2>1. f \in FencesType /\ f.quarantine = v.fences.quarantine
    <3>1. (b \in v.fences.held) \in BOOLEAN
      OBVIOUS
    <3> QED BY <1>1, <3>1 DEF ViewType, FencesType
  <2> HIDE DEF f
  <2>2. /\ w \in ViewType /\ w.queue = v.queue /\ w.update = v.update /\ w.ledger = v.ledger
        /\ w.fault = v.fault /\ w.disposed = v.disposed
        /\ w.fences.quarantine = v.fences.quarantine
    BY <1>1, <2>1 DEF ViewType
  <2> HIDE DEF w
  <2> QED BY <2>2 DEF Consistent, Owned, Held, ReportsDue, SameBuffers
<1> HIDE DEF w
<1>3. Consistent(x) /\ SameBuffers(w, x) /\ x.update = w.update /\ x.disposed = w.disposed
  <2>1. g \in FencesType /\ g.quarantine = w.fences.quarantine
    BY <1>2 DEF Consistent, ViewType, FencesType
  <2> HIDE DEF g
  <2>2. /\ x \in ViewType /\ x.queue = w.queue /\ x.update = w.update /\ x.ledger = w.ledger
        /\ x.fault = w.fault /\ x.disposed = w.disposed
        /\ x.fences.quarantine = w.fences.quarantine
    BY <1>2, <2>1 DEF Consistent, ViewType
  <2> HIDE DEF x
  <2> QED BY <1>2, <2>2 DEF Consistent, Owned, Held, ReportsDue, SameBuffers
<1> HIDE DEF x
<1>4. Consistent(prepared) /\ SameBuffers(x, prepared) /\ prepared.update = x.update
      /\ prepared.disposed = x.disposed
  BY <1>1, <1>3, AdvanceConsistent
<1>5. Consistent(y) /\ SameBuffers(w, y) /\ y.update = w.update /\ y.disposed = w.disposed
  BY <1>1, <1>2, AdvanceConsistent DEF SameBuffers
<1> HIDE DEF prepared, y
<1>6. Consistent(waits) /\ SameBuffers(y, waits) /\ waits.disposed = y.disposed
      /\ waits.update.flags = w.update.flags /\ waits.update.dropped = w.update.dropped
  <2>1. u \in UpdateType /\ u.flags = w.update.flags /\ u.dropped = w.update.dropped
    BY <1>2 DEF Consistent, ViewType, UpdateType
  <2> HIDE DEF u
  <2>2. /\ waits \in ViewType /\ waits.queue = y.queue /\ waits.fences = y.fences
        /\ waits.ledger = y.ledger /\ waits.fault = y.fault /\ waits.disposed = y.disposed
        /\ waits.update = u
    BY <1>5, <2>1 DEF Consistent, ViewType
  <2> HIDE DEF waits
  <2> QED BY <1>5, <2>1, <2>2 DEF Consistent, Owned, Held, ReportsDue, SameBuffers
<1> HIDE DEF waits
<1>7. \/ r = [v |-> waits, ok |-> TRUE]
      \/ r = [v |-> AbortPending(w), ok |-> TRUE]
      \/ \E t \in RenderTargets(prepared, b, page, FALSE) : r \in SubmitTarget(t)
  <2> DEFINE state == IF FenceNeeded
                        THEN ProbeFence(w, w.fences.pending, b) ELSE "Ready"
  <2>1. UpdateWebFrame(v) =
          CASE state = "Pending" -> {[v |-> waits, ok |-> TRUE]}
            [] state = "Failed" -> {[v |-> AbortPending(w), ok |-> TRUE]}
            [] state = "Ready" ->
                 UNION {SubmitTarget(t) : t \in RenderTargets(prepared, b, page, FALSE)}
    BY DEF UpdateWebFrame, waits, w, prepared, x, y
  <2>2. state \in {"Pending", "Failed", "Ready"}
    BY <1>1, <1>2 DEF ProbeFence, Consistent, ViewType, FencesType
  <2> HIDE DEF state
  <2> QED BY <2>1, <2>2
<1>8. CASE r = [v |-> waits, ok |-> TRUE]
  BY <1>2, <1>5, <1>6, <1>8 DEF Answer, SameBuffers
<1>9. CASE r = [v |-> AbortPending(w), ok |-> TRUE]
  <2> DEFINE a == AbortPending(w)
  <2>1. /\ Consistent(a) /\ a.queue.pendingBuffer = None
        /\ a.update.flags = w.update.flags /\ a.disposed = w.disposed
    BY <1>2, AbortConsistent
  <2> HIDE DEF a
  <2> QED BY <1>2, <1>9, <2>1 DEF Answer, a
<1>10. CASE \E t \in RenderTargets(prepared, b, page, FALSE) : r \in SubmitTarget(t)
  <2>1. PICK t \in RenderTargets(prepared, b, page, FALSE) : r \in SubmitTarget(t)
    BY <1>10
  <2>2. page \in Nat /\ FALSE \in BOOLEAN /\ prepared \in ViewType
    BY <1>2, <1>4 DEF Consistent, ViewType, QueueType, Ticket
  <2>3. Answer(prepared, r)
    BY <1>1, <1>4, <2>1, <2>2, RenderTargetsType, SubmitTargetAnswer
  <2> QED BY <1>2, <1>3, <1>4, <2>3 DEF Answer, SameBuffers
<1> QED BY <1>7, <1>8, <1>9, <1>10

(* wpeViewDRMRequestUpdate, all cases.                                      *)
LEMMA RequestUpdateAnswer ==
  ASSUME NEW v, Consistent(v), NEW r \in RequestUpdate(v)
  PROVE  Answer(v, r)
<1>1. CASE v.queue.pendingBuffer = None
  BY <1>1, UpdateChromeAnswer DEF RequestUpdate
<1>2. CASE v.queue.pendingBuffer # None /\ v.queue.pendingTicket.epoch # v.queue.geometryEpoch
  <2>1. r = [v |-> AbortPending(v), ok |-> TRUE]
    BY <1>2 DEF RequestUpdate
  <2> DEFINE a == AbortPending(v)
  <2>2. /\ Consistent(a) /\ a.queue.pendingBuffer = None
        /\ a.update.flags = v.update.flags /\ a.disposed = v.disposed
    BY AbortConsistent
  <2> HIDE DEF a
  <2> QED BY <2>1, <2>2 DEF Answer, a
<1>3. CASE v.queue.pendingBuffer # None /\ v.queue.pendingTicket.epoch = v.queue.geometryEpoch
  BY <1>3, UpdateWebFrameAnswer DEF RequestUpdate
<1> QED BY <1>1, <1>2, <1>3

(* A fresh frame is requested, dropped or shown at once.                    *)
LEMMA SubmitFreshSettled ==
  ASSUME NEW v, Consistent(v), NEW w \in SubmitFresh(v)
  PROVE  Settled(w) /\ w.disposed = v.disposed
<1> DEFINE x == [v EXCEPT !.update.dropped = FALSE]
           Shown(r) == [r.v EXCEPT !.update.flags = @ \cup {"BufferUpdateRequested"}]
           Dropped(r) == [r.v EXCEPT !.update.dropped = FALSE]
<1>1. x \in ViewType /\ Consistent(x) /\ ~x.update.dropped /\ x.disposed = v.disposed
  <2>1. /\ x \in ViewType /\ x.queue = v.queue /\ x.fences = v.fences
        /\ x.ledger = v.ledger /\ x.fault = v.fault /\ x.disposed = v.disposed
        /\ ~x.update.dropped
    BY DEF Consistent, ViewType, UpdateType
  <2> HIDE DEF x
  <2> QED BY <2>1 DEF Consistent, Owned, Held, ReportsDue
<1> HIDE DEF x
<1>2. PICK r \in RequestUpdate(x) :
        w = IF ~r.ok THEN r.v
            ELSE IF r.v.update.dropped THEN Dropped(r) ELSE CompleteSynchronous(Shown(r))
  BY DEF SubmitFresh, x
<1>3. Answer(x, r)
  BY <1>1, RequestUpdateAnswer
<1>4. Consistent(r.v) /\ r.v \in ViewType /\ r.v.disposed = v.disposed
  BY <1>1, <1>3 DEF Answer, Consistent
<1>5. CASE ~r.ok
  <2>1. w = r.v /\ r.v.queue.pendingBuffer = None
    BY <1>2, <1>3, <1>5 DEF Answer
  <2> QED BY <1>4, <2>1 DEF Settled, Pends
<1>6. CASE r.ok /\ r.v.update.dropped
  <2>1. r.v.queue.pendingBuffer = None
    BY <1>1, <1>3, <1>6 DEF Answer
  <2>2. w = Dropped(r)
    BY <1>2, <1>6
  <2>3. /\ Dropped(r) \in ViewType /\ Dropped(r).queue = r.v.queue
        /\ Dropped(r).fences = r.v.fences /\ Dropped(r).ledger = r.v.ledger
        /\ Dropped(r).fault = r.v.fault /\ Dropped(r).disposed = r.v.disposed
    BY <1>4 DEF ViewType, UpdateType
  <2> HIDE DEF Dropped
  <2>4. Consistent(Dropped(r))
    BY <1>4, <2>3 DEF Consistent, Owned, Held, ReportsDue
  <2> QED BY <1>4, <2>1, <2>2, <2>3, <2>4 DEF Settled, Pends
<1>7. CASE r.ok /\ ~r.v.update.dropped
  <2>1. w = CompleteSynchronous(Shown(r))
    BY <1>2, <1>7
  <2>2. /\ Shown(r) \in ViewType /\ Shown(r).queue = r.v.queue
        /\ Shown(r).fences = r.v.fences /\ Shown(r).ledger = r.v.ledger
        /\ Shown(r).fault = r.v.fault /\ Shown(r).disposed = r.v.disposed
        /\ "BufferUpdateRequested" \in Shown(r).update.flags
        /\ Shown(r).update.dropped = r.v.update.dropped
    BY <1>4 DEF ViewType, UpdateType, UpdateFlags
  <2> HIDE DEF Shown
  <2>3. Consistent(Shown(r))
    BY <1>4, <2>2 DEF Consistent, Owned, Held, ReportsDue
  <2> DEFINE z == CompleteSynchronous(Shown(r))
  <2>4. /\ Consistent(z) /\ z.disposed = Shown(r).disposed
        /\ z.update.dropped = Shown(r).update.dropped
        /\ \/ z.queue.pendingBuffer = None
           \/ z.queue.pendingBuffer = Shown(r).queue.pendingBuffer
              /\ z.update.flags = Shown(r).update.flags
    BY <2>3, SynchronousConsistent
  <2> HIDE DEF z
  <2> QED BY <1>4, <1>7, <2>1, <2>2, <2>4 DEF Settled, Pends, z
<1> QED BY <1>5, <1>6, <1>7

(* Accepting a frame gives it a proper ticket.                              *)
LEMMA TicketTypes ==
  ASSUME NEW queue \in QueueType
  PROVE  NewTicket(queue) \in Ticket /\ ~NewTicket(queue).rendered
         /\ NoTicket \in Ticket /\ AcceptFrame(queue) \in QueueType
  BY DEF NewTicket, Accepted, AcceptFrame, NoTicket, QueueType, Ticket, FramePhase

(* wpeViewDRMQueueBuffer retires the frame it replaces and takes b.         *)
LEMMA QueueBufferConsistent ==
  ASSUME NEW v, NEW b, Given(v, b)
  PROVE  LET w == QueueBuffer(v, b) IN
         /\ Consistent(w) /\ w.disposed = v.disposed
         /\ w.queue.pendingBuffer = v.queue.pendingBuffer
         /\ w.update.dropped = v.update.dropped /\ v.update.flags \subseteq w.update.flags
<1> DEFINE old == v.queue.queuedBuffer
           replaces == old # None /\ old # b
           fresh == v.queue.queuedTicket.serial = 0 \/ replaces
           w == IF replaces THEN RetireDiscarded(v, old, FALSE) ELSE v
           others == {v.queue.pendingBuffer, v.queue.committedBuffer} \ {None}
           accepted == IF fresh THEN AcceptFrame(w.queue) ELSE w.queue
           ticket == IF fresh THEN NewTicket(w.queue) ELSE accepted.queuedTicket
           q == [accepted EXCEPT !.queuedBuffer = b, !.queuedTicket = ticket]
           x == [w EXCEPT !.queue = q, !.update.flags = @ \cup {"BufferUpdatePending"}]
<1>1. /\ v \in ViewType /\ b \in Buffers /\ FALSE \in BOOLEAN /\ old \in Buffers \cup {None}
  BY DEF Given, ViewType, QueueType
<1>2. /\ w \in ViewType /\ w.queue = v.queue /\ w.update = v.update
      /\ w.fault = v.fault /\ w.disposed = v.disposed
      /\ w.ledger.unpaced = v.ledger.unpaced /\ w.ledger.repeated = {}
      /\ w.ledger.lent = others \cup {b} \cup w.fences.quarantine
      /\ (others \cup {b}) \cap w.fences.quarantine = {}
  <2>1. CASE replaces
    <3> DEFINE r == RetireDiscarded(v, old, FALSE)
    <3>1. old \in v.ledger.lent /\ old \notin v.fences.quarantine
      BY <2>1 DEF Given, Held
    <3>2. v.ledger.lent \ {old} = others \cup {b} \cup v.fences.quarantine
      BY <2>1, <1>1 DEF Given, Held
    <3>3. (others \cup {b}) \cap (v.fences.quarantine \cup {old}) = {}
      BY <2>1, <1>1 DEF Given, Held
    <3> HIDE DEF others
    <3>4. /\ r \in ViewType /\ r.queue = v.queue /\ r.update = v.update
          /\ r.fault = v.fault /\ r.disposed = v.disposed
          /\ r.ledger.unpaced = v.ledger.unpaced /\ r.ledger.repeated = v.ledger.repeated
          /\ \/ /\ r.fences.quarantine = v.fences.quarantine
                /\ r.ledger.lent = v.ledger.lent \ {old}
             \/ /\ r.fences.quarantine = v.fences.quarantine \cup {old}
                /\ r.ledger.lent = v.ledger.lent
      BY <1>1, <2>1, <3>1, RetireEffect
    <3> HIDE DEF r, old
    <3>5. /\ r.ledger.lent = others \cup {b} \cup r.fences.quarantine
          /\ (others \cup {b}) \cap r.fences.quarantine = {}
      BY <3>1, <3>2, <3>3, <3>4
    <3>6. w = r
      BY <2>1 DEF r
    <3> HIDE DEF w
    <3> QED BY <3>4, <3>5, <3>6 DEF Given
  <2>2. CASE ~replaces
    BY <2>2, <1>1 DEF Given, Held
  <2> QED BY <2>1, <2>2
<1> HIDE DEF w
<1>3. /\ accepted \in QueueType /\ ticket \in Ticket
      /\ accepted.pendingBuffer = v.queue.pendingBuffer
      /\ accepted.pendingTicket = v.queue.pendingTicket
      /\ accepted.committedBuffer = v.queue.committedBuffer
  <2>1. w.queue \in QueueType
    BY <1>2 DEF ViewType
  <2>2. /\ AcceptFrame(w.queue).pendingBuffer = v.queue.pendingBuffer
        /\ AcceptFrame(w.queue).pendingTicket = v.queue.pendingTicket
        /\ AcceptFrame(w.queue).committedBuffer = v.queue.committedBuffer
    BY <1>2, <2>1 DEF AcceptFrame, QueueType
  <2> QED BY <1>2, <2>1, <2>2, TicketTypes DEF QueueType
<1>4. QueueBuffer(v, b) = x
  BY DEF QueueBuffer, w
<1> HIDE DEF accepted, ticket
<1>5. /\ q \in QueueType /\ q.queuedBuffer = b
      /\ q.pendingBuffer = v.queue.pendingBuffer
      /\ q.pendingTicket = v.queue.pendingTicket
      /\ q.committedBuffer = v.queue.committedBuffer
  BY <1>1, <1>3 DEF QueueType
<1> HIDE DEF q
<1>6. /\ x \in ViewType /\ x.queue = q /\ x.fences = w.fences /\ x.ledger = w.ledger
      /\ x.fault = w.fault /\ x.disposed = w.disposed
      /\ x.update.dropped = w.update.dropped
      /\ x.update.flags = w.update.flags \cup {"BufferUpdatePending"}
  BY <1>2, <1>5 DEF ViewType, UpdateType, UpdateFlags
<1> HIDE DEF x
<1>7. Owned(x)
  <2>1. b # None
    BY <1>1, QueueAssumption
  <2>2. Held(x) = others \cup {b}
    BY <1>5, <1>6, <2>1 DEF Held
  <2>3. b \notin {v.queue.pendingBuffer, v.queue.committedBuffer}
    BY <2>1 DEF Given, Held
  <2> HIDE DEF others
  <2> QED BY <1>2, <1>5, <1>6, <2>1, <2>2, <2>3 DEF Given, Owned
<1>8. ReportsDue(x)
  BY <1>1, <1>2, <1>5, <1>6 DEF Given, ReportsDue
<1>9. Consistent(x)
  BY <1>2, <1>6, <1>7, <1>8 DEF Given, Consistent
<1> QED BY <1>2, <1>4, <1>5, <1>6, <1>9

(* wpeViewDRMCommitQueuedBuffer moves the queued frame on.                  *)
LEMMA CommitQueuedSettled ==
  ASSUME NEW v, Settled(v), NEW w \in CommitQueuedBuffer(v)
  PROVE  Settled(w) /\ w.disposed = v.disposed
<1> DEFINE q == [v.queue EXCEPT !.pendingBuffer = v.queue.queuedBuffer,
                                !.pendingTicket = v.queue.queuedTicket,
                                !.queuedBuffer = None, !.queuedTicket = NoTicket]
           x == [v EXCEPT !.update.flags = @ \ {"BufferUpdatePending"}, !.queue = q]
<1>1. CASE v.queue.queuedBuffer = None \/ v.update.flags \cap Requested # {}
  BY <1>1 DEF CommitQueuedBuffer
<1>2. CASE ~(v.queue.queuedBuffer = None \/ v.update.flags \cap Requested # {})
  <2>1. w \in SubmitFresh(x)
    BY <1>2 DEF CommitQueuedBuffer, SubmitQueued
  <2>2. v \in ViewType /\ v.queue.pendingBuffer = None
    BY <1>2 DEF Settled, Consistent, Pends, Requested
  <2>3. /\ q \in QueueType /\ q.pendingBuffer = v.queue.queuedBuffer
        /\ q.queuedBuffer = None /\ q.committedBuffer = v.queue.committedBuffer
    <3>1. v.queue.queuedBuffer \in Buffers \cup {None} /\ v.queue.queuedTicket \in Ticket
          /\ NoTicket \in Ticket
      BY <2>2, TicketTypes DEF ViewType, QueueType
    <3> QED BY <2>2, <3>1 DEF ViewType, QueueType
  <2> HIDE DEF q
  <2>4. /\ x \in ViewType /\ x.queue = q /\ x.fences = v.fences /\ x.ledger = v.ledger
        /\ x.fault = v.fault /\ x.disposed = v.disposed
    BY <2>2, <2>3 DEF ViewType, UpdateType
  <2> HIDE DEF x
  <2>5. Consistent(x)
    BY <1>2, <2>2, <2>3, <2>4 DEF Settled, Consistent, Owned, Held, ReportsDue
  <2> QED BY <2>1, <2>4, <2>5, SubmitFreshSettled
<1> QED BY <1>1, <1>2

(* refreshContentGeometry changes the epoch and the bases only.             *)
LEMMA RefreshEffect ==
  ASSUME NEW v \in ViewType
  PROVE  LET w == RefreshGeometry(v) IN
         /\ w \in ViewType /\ w.fences = v.fences /\ w.ledger = v.ledger
         /\ SameBuffers(v, w) /\ w.queue.pendingTicket = v.queue.pendingTicket
         /\ w.update.flags = v.update.flags /\ w.update.dropped = v.update.dropped
         /\ w.fault = v.fault /\ w.disposed = v.disposed
<1> DEFINE h == [v.chrome EXCEPT !.baseGeneration = 0, !.preparedGeneration = 0, !.preparedPage = 0]
           w == [v EXCEPT !.queue.geometryEpoch = @ + 1, !.update.resized = FALSE, !.chrome = h]
<1>1. h \in ChromeType
  BY DEF ViewType, ChromeType
<1> HIDE DEF h
<1>2. w \in ViewType
  <2> DEFINE q == [v.queue EXCEPT !.geometryEpoch = @ + 1]
             u == [v.update EXCEPT !.resized = FALSE]
  <2>1. q \in QueueType /\ u \in UpdateType
    <3>1. q \in QueueType
      BY DEF ViewType, QueueType
    <3>2. u \in UpdateType
      BY DEF ViewType, UpdateType
    <3> QED BY <3>1, <3>2
  <2>2. w = [v EXCEPT !.queue = q, !.update = u, !.chrome = h]
    OBVIOUS
  <2> HIDE DEF q, u, w
  <2>3. [v EXCEPT !.queue = q, !.update = u, !.chrome = h] \in ViewType
    BY <1>1, <2>1 DEF ViewType
  <2> QED BY <2>2, <2>3
<1>3. /\ w.fences = v.fences /\ w.ledger = v.ledger
      /\ SameBuffers(v, w) /\ w.queue.pendingTicket = v.queue.pendingTicket
      /\ w.update.flags = v.update.flags /\ w.update.dropped = v.update.dropped
      /\ w.fault = v.fault /\ w.disposed = v.disposed
  BY DEF ViewType, QueueType, UpdateType, SameBuffers
<1>4. RefreshGeometry(v) \in {v, w}
  BY DEF RefreshGeometry, h
<1> HIDE DEF w
<1>5. CASE RefreshGeometry(v) = w
  BY <1>2, <1>3, <1>5
<1>6. CASE RefreshGeometry(v) = v
  BY <1>6 DEF SameBuffers
<1> QED BY <1>4, <1>5, <1>6

(* A buffer that is handed over is in no other place.                       *)
LEMMA HandOverGiven ==
  ASSUME NEW v, Settled(v), NEW b \in Buffers, b \notin v.ledger.lent, NEW work \in FencesGiven
  PROVE  LET w == ForgetCursor(HandOver(v, b, work)) IN
         Given(w, b) /\ Pends(w) /\ w.disposed = v.disposed
<1> DEFINE g == RefreshGeometry(v)
           f == [v.fences EXCEPT !.work[b] = work, !.held = @ \cup {b}]
           l == [v.ledger EXCEPT !.lent = @ \cup {b}, !.unpaced = @ \cup {b}]
           h == [g EXCEPT !.fences = f, !.ledger = l]
           w == ForgetCursor(h)
<1>1. v \in ViewType /\ work \in {"Ready", "Pending", "Failed"}
  BY QueueAssumption DEF Settled, Consistent
<1>2. /\ g \in ViewType /\ SameBuffers(v, g) /\ g.queue.pendingTicket = v.queue.pendingTicket
      /\ g.update.flags = v.update.flags /\ g.update.dropped = v.update.dropped
      /\ g.fault = v.fault /\ g.disposed = v.disposed
  BY <1>1, RefreshEffect
<1> HIDE DEF g
<1>3. f \in FencesType /\ f.quarantine = v.fences.quarantine
  BY <1>1 DEF ViewType, FencesType
<1>4. /\ l \in LedgerType /\ l.lent = v.ledger.lent \cup {b}
      /\ l.unpaced = v.ledger.unpaced \cup {b} /\ l.repeated = v.ledger.repeated
  BY <1>1 DEF ViewType, LedgerType
<1> HIDE DEF f, l
<1>5. /\ h \in ViewType /\ h.fences = f /\ h.ledger = l /\ h.queue = g.queue
      /\ h.update = g.update /\ h.fault = g.fault /\ h.disposed = g.disposed
  BY <1>2, <1>3, <1>4 DEF ViewType
<1>6. HandOver(v, b, work) = h
  BY DEF HandOver, g, f, l
<1> HIDE DEF h
<1>7. /\ w \in ViewType /\ w.fences = f /\ w.ledger = l /\ w.queue = g.queue
      /\ w.update.dropped = g.update.dropped /\ w.fault = g.fault /\ w.disposed = g.disposed
      /\ "BufferUpdateRequested" \in g.update.flags => "BufferUpdateRequested" \in w.update.flags
  BY <1>5 DEF ForgetCursor, ViewType, UpdateType
<1> HIDE DEF w
<1>8. ReportsDue(w)
  BY <1>2, <1>4, <1>7 DEF Settled, Consistent, ReportsDue, SameBuffers
<1>9. Given(w, b)
  <2>1. Held(w) = Held(v)
    BY <1>2, <1>7 DEF Held, SameBuffers
  <2>2. b \notin Held(v) \cup v.fences.quarantine
    BY DEF Settled, Consistent, Owned
  <2>3. w.ledger.lent \ {b} = Held(w) \cup w.fences.quarantine
    BY <1>3, <1>4, <1>7, <2>1, <2>2 DEF Settled, Consistent, Owned
  <2> QED BY <1>2, <1>3, <1>4, <1>7, <1>8, <2>1, <2>2, <2>3
         DEF Given, Settled, Consistent, Owned, SameBuffers
<1>10. Pends(w)
  BY <1>2, <1>7 DEF Settled, Pends, SameBuffers
<1> QED BY <1>2, <1>6, <1>7, <1>9, <1>10 DEF w

(* An idle view takes the buffer as its pending frame.                      *)
LEMMA TakeFrameConsistent ==
  ASSUME NEW v, NEW b, Given(v, b), v.queue.pendingBuffer = None
  PROVE  Consistent(TakeFrame(v, b)) /\ TakeFrame(v, b).disposed = v.disposed
<1> DEFINE a == AcceptFrame(v.queue)
           n == NewTicket(v.queue)
           q == [a EXCEPT !.pendingBuffer = b, !.pendingTicket = n]
           w == [v EXCEPT !.queue = q, !.update.cursorTimer = FALSE]
<1>1. v \in ViewType /\ v.queue \in QueueType /\ b \in Buffers /\ b # None
  BY QueueAssumption DEF Given, ViewType
<1>2. /\ a \in QueueType /\ n \in Ticket
      /\ a.queuedBuffer = v.queue.queuedBuffer /\ a.committedBuffer = v.queue.committedBuffer
  BY <1>1, TicketTypes DEF AcceptFrame, QueueType
<1> HIDE DEF a, n
<1>3. /\ q \in QueueType /\ q.pendingBuffer = b
      /\ q.queuedBuffer = v.queue.queuedBuffer /\ q.committedBuffer = v.queue.committedBuffer
  BY <1>1, <1>2 DEF QueueType
<1>4. TakeFrame(v, b) = w
  BY DEF TakeFrame, a, n
<1> HIDE DEF q
<1>5. /\ w \in ViewType /\ w.queue = q /\ w.fences = v.fences /\ w.ledger = v.ledger
      /\ w.fault = v.fault /\ w.disposed = v.disposed
  BY <1>1, <1>3 DEF ViewType, UpdateType
<1> HIDE DEF w
<1>6. Held(w) = Held(v) \cup {b}
  BY <1>1, <1>3, <1>5 DEF Held
<1>7. Owned(w)
  BY <1>1, <1>3, <1>5, <1>6 DEF Given, Owned, Held
<1>8. ReportsDue(w)
  BY <1>1, <1>3, <1>5 DEF Given, ReportsDue
<1> QED BY <1>4, <1>5, <1>7, <1>8 DEF Given, Consistent

(* A handler that requested an update ends between handlers.                *)
LEMMA ShownSettled ==
  ASSUME NEW v, NEW r, Answer(v, r), ~v.update.dropped \/ v.queue.pendingBuffer = None,
         NEW w, w = [r.v EXCEPT !.update.flags = @ \cup {"BufferUpdateRequested"}]
  PROVE  Settled(w) /\ Settled(CompleteSynchronous(w))
         /\ w.disposed = v.disposed /\ CompleteSynchronous(w).disposed = v.disposed
<1>1. r.v \in ViewType /\ Consistent(r.v) /\ r.v.disposed = v.disposed
  BY DEF Answer, Consistent
<1>2. /\ w \in ViewType /\ w.queue = r.v.queue /\ w.fences = r.v.fences
      /\ w.ledger = r.v.ledger /\ w.fault = r.v.fault /\ w.disposed = r.v.disposed
      /\ "BufferUpdateRequested" \in w.update.flags /\ w.update.dropped = r.v.update.dropped
  BY <1>1 DEF ViewType, UpdateType, UpdateFlags
<1>3. Consistent(w)
  BY <1>1, <1>2 DEF Consistent, Owned, Held, ReportsDue
<1>4. w.queue.pendingBuffer # None => ~w.update.dropped
  BY <1>2 DEF Answer
<1> DEFINE z == CompleteSynchronous(w)
<1>5. /\ Consistent(z) /\ z.disposed = w.disposed /\ z.update.dropped = w.update.dropped
      /\ \/ z.queue.pendingBuffer = None
         \/ z.queue.pendingBuffer = w.queue.pendingBuffer /\ z.update.flags = w.update.flags
  BY <1>3, SynchronousConsistent
<1> HIDE DEF z
<1> QED BY <1>1, <1>2, <1>3, <1>4, <1>5 DEF Settled, Pends, z

(* The fields the invariant does not depend on.                             *)
LEMMA SettledStep ==
  ASSUME NEW v, Settled(v), NEW w \in ViewType, w.queue = v.queue,
         w.fences.quarantine = v.fences.quarantine, w.ledger = v.ledger,
         v.update.flags \cap {"BufferUpdateRequested"} \subseteq w.update.flags,
         w.update.dropped = v.update.dropped,
         w.fault = v.fault
  PROVE  Settled(w)
  BY DEF Settled, Pends, Consistent, Owned, Held, ReportsDue

(* While the view runs the invariant gives Settled.                         *)
LEMMA RunningSettled == IInv /\ Running => Settled(view) /\ view \in ViewType /\ ~view.disposed
  BY DEF IInv, Running

(* A settled view satisfies the invariant.                                  *)
LEMMA SettledIInv == ASSUME Settled(view') PROVE IInv'
  BY DEF IInv, Settled, Consistent

-----------------------------------------------------------------------------
(* The initial view is settled.                                             *)
LEMMA InitIInv == Init => IInv
<1> SUFFICES ASSUME Init PROVE IInv
  OBVIOUS
<1> DEFINE q == view.queue
<1>1. view \in ViewType
  BY DEF Init, ViewType, QueueType, UpdateType, ScanoutType, FencesType, ChromeType, KMSType,
         LedgerType, NoTicket, Ticket, FramePhase
<1>2. Owned(view) /\ ReportsDue(view) /\ Pends(view) /\ view.fault = "none"
  BY DEF Init, Owned, ReportsDue, Pends, Held
<1> QED BY <1>1, <1>2 DEF IInv, Settled, Consistent

(* One lemma per action.  GPU work that settles changes no owner.           *)
LEMMA GPUSettlesIInv ==
  ASSUME IInv, NEW b \in Buffers, GPUSettles(b) PROVE IInv'
<1>1. PICK state \in {"Ready", "Failed"} : view' = [view EXCEPT !.fences.work[b] = state]
  BY DEF GPUSettles
<1>2. view \in ViewType
  BY DEF IInv
<1>3. /\ view' \in ViewType /\ view'.queue = view.queue /\ view'.update = view.update
      /\ view'.ledger = view.ledger /\ view'.fences.quarantine = view.fences.quarantine
      /\ view'.fault = view.fault /\ view'.disposed = view.disposed
  BY <1>1, <1>2 DEF ViewType, FencesType
<1>4. Settled(view) => Settled(view')
  BY <1>3, SettledStep
<1> QED BY <1>3, <1>4 DEF IInv

(* A buffer is handed over and queued or submitted.                         *)
LEMMA RenderBufferIInv ==
  ASSUME IInv, NEW b \in Buffers, RenderBuffer(b) PROVE IInv'
<1>1. Settled(view) /\ ~view.disposed /\ b \notin view.ledger.lent
  BY RunningSettled DEF RenderBuffer
<1>2. PICK work \in FencesGiven, delay \in ThrottleAnswers :
        LET v == ForgetCursor(HandOver(view, b, work)) IN
        view' \in
           IF v.update.flags \cap Requested # {}
             THEN {QueueBuffer(v, b)}
           ELSE IF v.update.throttleSource \/ (v.queue.committedBuffer # None /\ delay)
             THEN {[QueueBuffer(v, b) EXCEPT !.update.throttleSource = TRUE]}
           ELSE SubmitFresh(TakeFrame(v, b))
  BY DEF RenderBuffer
<1> DEFINE v == ForgetCursor(HandOver(view, b, work))
           w == QueueBuffer(v, b)
           x == [w EXCEPT !.update.throttleSource = TRUE]
<1>3. Given(v, b) /\ Pends(v)
  BY <1>1, HandOverGiven
<1>4. \/ view' \in {w, x}
      \/ v.update.flags \cap Requested = {} /\ view' \in SubmitFresh(TakeFrame(v, b))
  BY <1>2
<1> HIDE DEF v
<1>5. CASE view' \in {w, x}
  <2>1. /\ Consistent(w) /\ w.queue.pendingBuffer = v.queue.pendingBuffer
        /\ w.update.dropped = v.update.dropped /\ v.update.flags \subseteq w.update.flags
    BY <1>3, QueueBufferConsistent
  <2> HIDE DEF w
  <2>2. Settled(w) /\ w \in ViewType
    BY <1>3, <2>1 DEF Settled, Pends, Consistent
  <2>3. /\ x \in ViewType /\ x.queue = w.queue /\ x.fences = w.fences /\ x.ledger = w.ledger
        /\ x.update.flags = w.update.flags /\ x.update.dropped = w.update.dropped
        /\ x.fault = w.fault
    BY <2>2 DEF ViewType, UpdateType
  <2> HIDE DEF x
  <2>4. Settled(x)
    BY <2>2, <2>3, SettledStep
  <2> QED BY <1>5, <2>2, <2>4, SettledIInv
<1>6. CASE v.update.flags \cap Requested = {} /\ view' \in SubmitFresh(TakeFrame(v, b))
  <2>1. v.queue.pendingBuffer = None
    BY <1>3, <1>6 DEF Pends, Requested
  <2>2. Consistent(TakeFrame(v, b))
    BY <1>3, <2>1, TakeFrameConsistent
  <2> QED BY <1>6, <2>2, SubmitFreshSettled, SettledIInv
<1> QED BY <1>4, <1>5, <1>6

(* The fence of the pending frame is decided.                               *)
LEMMA FenceWaitEndsIInv ==
  ASSUME IInv, FenceWaitEnds PROVE IInv'
<1> DEFINE v == [view EXCEPT !.update = [view.update EXCEPT !.fenceWait = FALSE,
                                              !.flags = @ \ {"BufferUpdateRequested"}]]
<1>1. Settled(view) /\ view \in ViewType
  BY RunningSettled DEF FenceWaitEnds, FenceWaitReady
<1>2. PICK w : /\ view' = DrainQueue(w)
               /\ w = AbortPending(v) \/ \E r \in RequestUpdate(v) : w = SubmitFinished(r)
  BY DEF FenceWaitEnds
<1>3. Consistent(v) /\ (v.queue.pendingBuffer # None => ~v.update.dropped)
  <2>1. /\ v \in ViewType /\ v.queue = view.queue /\ v.fences = view.fences
        /\ v.ledger = view.ledger /\ v.fault = view.fault /\ v.disposed = view.disposed
        /\ v.update.dropped = view.update.dropped
    BY <1>1 DEF ViewType, UpdateType
  <2> HIDE DEF v
  <2> QED BY <1>1, <2>1 DEF Settled, Consistent, Owned, Held, ReportsDue, Pends
<1> HIDE DEF v
<1>4. Settled(w)
  <2>1. CASE w = AbortPending(v)
    <3> DEFINE a == AbortPending(v)
    <3>1. Consistent(a) /\ a.queue.pendingBuffer = None
      BY <1>3, AbortConsistent
    <3> HIDE DEF a
    <3> QED BY <2>1, <3>1 DEF Settled, Pends, a
  <2>2. ASSUME NEW r \in RequestUpdate(v), w = SubmitFinished(r) PROVE Settled(w)
    <3>1. Answer(v, r)
      BY <1>3, RequestUpdateAnswer
    <3>2. CASE r.ok /\ ~r.v.update.dropped
      BY <1>3, <2>2, <3>1, <3>2, ShownSettled DEF SubmitFinished
    <3>3. CASE ~(r.ok /\ ~r.v.update.dropped)
      <4>1. r.v.queue.pendingBuffer = None
        BY <1>3, <3>1, <3>3 DEF Answer
      <4> QED BY <2>2, <3>1, <3>3, <4>1 DEF SubmitFinished, Answer, Settled, Pends
    <3> QED BY <3>2, <3>3
  <2> QED BY <1>2, <2>1, <2>2
<1>5. Settled(DrainQueue(w))
  <2> DEFINE x == [w EXCEPT !.update.throttleSource = TRUE]
  <2>1. /\ x \in ViewType /\ x.queue = w.queue /\ x.fences = w.fences /\ x.ledger = w.ledger
        /\ x.update.flags = w.update.flags /\ x.update.dropped = w.update.dropped
        /\ x.fault = w.fault
    BY <1>4 DEF Settled, Consistent, ViewType, UpdateType
  <2>2. DrainQueue(w) \in {w, x}
    BY DEF DrainQueue
  <2> HIDE DEF x
  <2>3. Settled(x)
    BY <1>4, <2>1, SettledStep
  <2> QED BY <1>4, <2>2, <2>3
<1> QED BY <1>2, <1>5, SettledIInv

(* A quarantined buffer is released.                                        *)
LEMMA QuarantineSettlesIInv ==
  ASSUME IInv, NEW b \in Buffers, QuarantineSettles(b) PROVE IInv'
<1> DEFINE v == [view EXCEPT !.fences.quarantine = @ \ {b}]
           w == BufferReleased(v, b)
<1>1. Settled(view) /\ view \in ViewType /\ b \in view.fences.quarantine /\ view' = w
  BY RunningSettled DEF QuarantineSettles
<1>2. /\ v \in ViewType /\ v.queue = view.queue /\ v.update = view.update
      /\ v.ledger = view.ledger /\ v.fault = view.fault
      /\ v.fences.quarantine = view.fences.quarantine \ {b}
  BY <1>1 DEF ViewType, FencesType
<1> HIDE DEF v
<1>3. /\ w \in ViewType
      /\ w.queue = v.queue /\ w.update = v.update /\ w.fault = v.fault
      /\ w.fences.quarantine = v.fences.quarantine
      /\ w.ledger.lent = v.ledger.lent \ {b}
      /\ w.ledger.unpaced = v.ledger.unpaced
      /\ w.ledger.repeated = v.ledger.repeated \cup ({b} \ v.ledger.lent)
  BY <1>2, ReleasedEffect
<1> HIDE DEF w
<1>4. Owned(w)
  BY <1>1, <1>2, <1>3 DEF Settled, Consistent, Owned, Held
<1>5. ReportsDue(w)
  BY <1>1, <1>2, <1>3 DEF Settled, Consistent, ReportsDue
<1>6. Settled(w)
  BY <1>1, <1>2, <1>3, <1>4, <1>5 DEF Settled, Consistent, Pends
<1> QED BY <1>1, <1>6, SettledIInv

(* The throttle delay is over.                                              *)
LEMMA ThrottleFiresIInv ==
  ASSUME IInv, ThrottleFires PROVE IInv'
<1> DEFINE v == [view EXCEPT !.update.throttleSource = FALSE]
<1>1. Settled(view) /\ view \in ViewType /\ view' \in CommitQueuedBuffer(v)
  BY RunningSettled DEF ThrottleFires, ThrottleReady
<1>2. /\ v \in ViewType /\ v.queue = view.queue /\ v.fences = view.fences
      /\ v.ledger = view.ledger /\ v.update.flags = view.update.flags
      /\ v.update.dropped = view.update.dropped /\ v.fault = view.fault
  BY <1>1 DEF ViewType, UpdateType
<1> HIDE DEF v
<1>3. Settled(v)
  BY <1>1, <1>2, SettledStep
<1> QED BY <1>1, <1>3, CommitQueuedSettled, SettledIInv

(* A page flip leaves no pending frame.                                     *)
LEMMA AfterFlipSettled ==
  ASSUME NEW v, Settled(v)
  PROVE  LET w == AfterFlip(v) IN Settled(w) /\ w.queue.pendingBuffer = None
<1> DEFINE f == Flipped(v)
<1>1. v \in ViewType
  BY DEF Settled, Consistent
<1>2. /\ f \in ViewType /\ f.queue = v.queue /\ f.fences = v.fences /\ f.ledger = v.ledger
      /\ f.fault = v.fault
  <2>1. [busy |-> FALSE, next |-> None, screen |-> v.kms.next] \in KMSType
    BY <1>1 DEF ViewType, KMSType
  <2> DEFINE k == [busy |-> FALSE, next |-> None, screen |-> v.kms.next]
  <2>2. k \in KMSType /\ f = [v EXCEPT !.kms = k, !.scanout.atomicInFlight = FALSE, !.update.flags = {}]
    BY <2>1 DEF Flipped
  <2> HIDE DEF k, f
  <2> QED BY <1>1, <2>2 DEF ViewType, ScanoutType, UpdateType
<1> HIDE DEF f
<1>3. Consistent(f)
  BY <1>2 DEF Settled, Consistent, Owned, Held, ReportsDue
<1>4. CASE "BufferUpdateRequested" \in v.update.flags
  <2> DEFINE w == FinishBufferCommit(f)
  <2>1. Consistent(w) /\ w.queue.pendingBuffer = None
    BY <1>3, FinishConsistent
  <2> HIDE DEF w
  <2> QED BY <1>4, <2>1 DEF AfterFlip, Settled, Pends, w, f
<1>5. CASE "BufferUpdateRequested" \notin v.update.flags
  BY <1>2, <1>3, <1>5 DEF AfterFlip, Settled, Pends, f
<1> QED BY <1>4, <1>5

(* A page flip, and the queued frame it lets in.                            *)
LEMMA PageFlipIInv ==
  ASSUME IInv, PageFlip PROVE IInv'
<1> DEFINE v == AfterFlip(view)
           x == [v EXCEPT !.update.flags = {"BufferUpdatePending"}, !.update.throttleSource = TRUE]
           y == [v EXCEPT !.update.cursorTimer = TRUE]
<1>1. Settled(view) /\ view' \in {x, y, v} \cup CommitQueuedBuffer(v)
  BY RunningSettled DEF PageFlip, FlipReady
<1>2. Settled(v) /\ v.queue.pendingBuffer = None
  BY <1>1, AfterFlipSettled
<1> HIDE DEF v
<1>3. /\ x \in ViewType /\ x.queue = v.queue /\ x.fences = v.fences /\ x.ledger = v.ledger
      /\ x.fault = v.fault
  BY <1>2 DEF Settled, Consistent, ViewType, UpdateType, UpdateFlags
<1>4. /\ y \in ViewType /\ y.queue = v.queue /\ y.fences = v.fences /\ y.ledger = v.ledger
      /\ y.fault = v.fault
  BY <1>2 DEF Settled, Consistent, ViewType, UpdateType
<1> HIDE DEF x, y
<1>5. Settled(x) /\ Settled(y)
  BY <1>2, <1>3, <1>4 DEF Settled, Consistent, Owned, Held, ReportsDue, Pends
<1>6. \A w \in CommitQueuedBuffer(v) : Settled(w)
  BY <1>2, CommitQueuedSettled
<1> QED BY <1>1, <1>2, <1>5, <1>6, SettledIInv

(* The pointer moved.                                                       *)
LEMMA UpdateCursorIInv ==
  ASSUME IInv, UpdateCursor PROVE IInv'
<1> DEFINE x == [view EXCEPT !.update.flags = @ \cup {"CursorUpdatePending"}]
           y == [view EXCEPT !.update.cursorTimer = TRUE]
<1>1. Settled(view) /\ view \in ViewType /\ view' \in {x, y}
  BY RunningSettled DEF UpdateCursor
<1>2. /\ x \in ViewType /\ x.queue = view.queue /\ x.fences = view.fences
      /\ x.ledger = view.ledger /\ x.fault = view.fault
      /\ view.update.flags \subseteq x.update.flags /\ x.update.dropped = view.update.dropped
  BY <1>1 DEF ViewType, UpdateType, UpdateFlags
<1>3. /\ y \in ViewType /\ y.queue = view.queue /\ y.fences = view.fences
      /\ y.ledger = view.ledger /\ y.fault = view.fault
      /\ y.update.flags = view.update.flags /\ y.update.dropped = view.update.dropped
  BY <1>1 DEF ViewType, UpdateType
<1> HIDE DEF x, y
<1>4. Settled(x) /\ Settled(y)
  BY <1>1, <1>2, <1>3, SettledStep
<1> QED BY <1>1, <1>4, SettledIInv

(* A cursor update that was put off.                                        *)
LEMMA CursorTimerIInv ==
  ASSUME IInv, CursorTimer PROVE IInv'
<1> DEFINE v == [view EXCEPT !.update.cursorTimer = FALSE]
           x == [v EXCEPT !.update.flags = @ \cup {"CursorUpdatePending"}]
           Asked(r) == [r.v EXCEPT !.update.flags = @ \cup {"CursorUpdateRequested"}]
<1>1. Settled(view) /\ view \in ViewType
  BY RunningSettled DEF CursorTimer
<1>2. \/ view' = x
      \/ /\ v.update.flags \cap Requested = {}
         /\ \E r \in RequestUpdate(v) : view' \in {r.v, Asked(r)}
  BY DEF CursorTimer
<1>3. /\ v \in ViewType /\ v.queue = view.queue /\ v.fences = view.fences
      /\ v.ledger = view.ledger /\ v.fault = view.fault
      /\ v.update.flags = view.update.flags /\ v.update.dropped = view.update.dropped
  BY <1>1 DEF ViewType, UpdateType
<1> HIDE DEF v
<1>4. Settled(v)
  BY <1>1, <1>3, SettledStep
<1>5. CASE view' = x
  <2>1. /\ x \in ViewType /\ x.queue = v.queue /\ x.fences = v.fences
        /\ x.ledger = v.ledger /\ x.fault = v.fault
        /\ v.update.flags \subseteq x.update.flags /\ x.update.dropped = v.update.dropped
    BY <1>3 DEF ViewType, UpdateType, UpdateFlags
  <2> HIDE DEF x
  <2> QED BY <1>4, <1>5, <2>1, SettledStep, SettledIInv
<1>6. ASSUME v.update.flags \cap Requested = {}, NEW r \in RequestUpdate(v), view' \in {r.v, Asked(r)}
      PROVE  IInv'
  <2>1. v.queue.pendingBuffer = None /\ Consistent(v)
    BY <1>4, <1>6 DEF Settled, Pends, Requested
  <2>2. Consistent(r.v) /\ r.v.queue.pendingBuffer = None
    BY <2>1, RequestUpdateAnswer DEF Answer
  <2>3. Settled(r.v)
    BY <2>2 DEF Settled, Pends
  <2>4. /\ Asked(r) \in ViewType /\ Asked(r).queue = r.v.queue /\ Asked(r).fences = r.v.fences
        /\ Asked(r).ledger = r.v.ledger /\ Asked(r).fault = r.v.fault
        /\ r.v.update.flags \subseteq Asked(r).update.flags
        /\ Asked(r).update.dropped = r.v.update.dropped
    BY <2>2 DEF Consistent, ViewType, UpdateType, UpdateFlags
  <2> HIDE DEF Asked
  <2>5. Settled(Asked(r))
    BY <2>3, <2>4, SettledStep
  <2> QED BY <1>6, <2>3, <2>5, SettledIInv
<1> QED BY <1>2, <1>5, <1>6

(* A chrome redraw is asked for.                                            *)
LEMMA RequestChromeRedrawIInv ==
  ASSUME IInv, RequestChromeRedraw PROVE IInv'
<1> DEFINE g == RefreshGeometry(view)
<1>1. Settled(view) /\ view \in ViewType
  BY RunningSettled DEF RequestChromeRedraw
<1>2. PICK open \in BOOLEAN :
        view' = [g EXCEPT !.chrome = [g.chrome EXCEPT !.panelOpen = open, !.stale = TRUE,
                                                      !.pending = TRUE, !.source = TRUE]]
  BY DEF RequestChromeRedraw
<1>3. /\ g \in ViewType /\ g.fences = view.fences /\ g.ledger = view.ledger
      /\ SameBuffers(view, g) /\ g.queue.pendingTicket = view.queue.pendingTicket
      /\ g.update.flags = view.update.flags /\ g.update.dropped = view.update.dropped
      /\ g.fault = view.fault
  BY <1>1, RefreshEffect
<1> DEFINE h == [g.chrome EXCEPT !.panelOpen = open, !.stale = TRUE, !.pending = TRUE,
                                 !.source = TRUE]
           w == [g EXCEPT !.chrome = h]
<1> HIDE DEF g
<1>4. h \in ChromeType
  BY <1>3 DEF ViewType, ChromeType
<1>5. view' = w
  BY <1>2
<1> HIDE DEF h
<1>6. /\ w \in ViewType /\ w.queue = g.queue /\ w.fences = g.fences /\ w.ledger = g.ledger
      /\ w.update = g.update /\ w.fault = g.fault
  BY <1>3, <1>4 DEF ViewType
<1> HIDE DEF w
<1>7. Settled(w)
  BY <1>1, <1>3, <1>6 DEF Settled, Pends, Consistent, Owned, Held, ReportsDue, SameBuffers
<1> QED BY <1>5, <1>7, SettledIInv

(* The chrome redrawn over a current base page.                             *)
LEMMA RedrawChromeSettled ==
  ASSUME NEW v, Settled(v), v.queue.pendingBuffer = None, NEW w \in RedrawChrome(v)
  PROVE  Settled(w)
<1> DEFINE Bases == IF v.chrome.baseGeneration = v.chrome.generation
                      THEN {[v |-> v, ok |-> TRUE]} ELSE CaptureBase(v)
<1>1. PICK base \in Bases :
        w \in (IF base.ok THEN {ChromeRedrawn(r) : r \in RequestUpdate(base.v)} ELSE {base.v})
  BY DEF RedrawChrome
<1>2. Consistent(base.v) /\ SameCore(v, base.v)
  BY CaptureBaseConsistent DEF Settled, SameCore
<1> HIDE DEF Bases
<1>3. base.v.queue.pendingBuffer = None
  BY <1>2 DEF SameCore
<1>4. CASE ~base.ok
  BY <1>1, <1>2, <1>3, <1>4 DEF Settled, Pends
<1>5. CASE base.ok
  <2>1. PICK r \in RequestUpdate(base.v) : w = ChromeRedrawn(r)
    BY <1>1, <1>5
  <2>2. Answer(base.v, r)
    BY <1>2, RequestUpdateAnswer
  <2>3. Consistent(r.v) /\ r.v.queue.pendingBuffer = None
    BY <1>3, <2>2 DEF Answer
  <2>4. CASE ~r.ok
    BY <2>1, <2>3, <2>4 DEF ChromeRedrawn, Settled, Pends
  <2>5. CASE r.ok
    <3> DEFINE s == [r.v EXCEPT !.update.flags = @ \cup {"BufferUpdateRequested"}]
               c == CompleteSynchronous(s)
               x == [c EXCEPT !.chrome.pending = FALSE]
    <3>1. Settled(c)
      BY <1>3, <2>2, ShownSettled
    <3>2. w = x
      BY <2>1, <2>5 DEF ChromeRedrawn
    <3> HIDE DEF c
    <3>3. /\ x \in ViewType /\ x.queue = c.queue /\ x.fences = c.fences /\ x.ledger = c.ledger
          /\ x.update = c.update /\ x.fault = c.fault
      BY <3>1 DEF Settled, Consistent, ViewType, ChromeType
    <3> HIDE DEF x
    <3> QED BY <3>1, <3>2, <3>3, SettledStep
  <2> QED BY <2>4, <2>5
<1> QED BY <1>4, <1>5

(* The chrome tick.                                                         *)
LEMMA ChromeTickIInv ==
  ASSUME IInv, ChromeTick PROVE IInv'
<1> DEFINE g == RefreshGeometry(view)
           V(animating) == [g EXCEPT !.chrome.pending = @ \/ animating \/ view.update.resized]
           W(w, source) == [w EXCEPT !.chrome.source = source]
<1>1. Settled(view) /\ view \in ViewType
  BY RunningSettled DEF ChromeTick
<1>2. PICK animating \in {FALSE, view.chrome.panelOpen} :
        LET v == V(animating)
            waiting == WebFrameWaiting(v) \/ v.update.flags \cap Requested # {}
        IN  \E w \in IF v.chrome.pending /\ v.queue.committedBuffer # None /\ ~waiting
                       THEN RedrawChrome(v) ELSE {v} :
              view' = W(w, animating \/ (w.chrome.pending /\ waiting))
  BY DEF ChromeTick
<1> DEFINE v == V(animating)
           waiting == WebFrameWaiting(v) \/ v.update.flags \cap Requested # {}
<1>3. /\ g \in ViewType /\ g.fences = view.fences /\ g.ledger = view.ledger
      /\ SameBuffers(view, g) /\ g.queue.pendingTicket = view.queue.pendingTicket
      /\ g.update.flags = view.update.flags /\ g.update.dropped = view.update.dropped
      /\ g.fault = view.fault
  BY <1>1, RefreshEffect
<1>4. animating \in BOOLEAN
  BY <1>1 DEF ViewType, ChromeType
<1> HIDE DEF g
<1>5. /\ v \in ViewType /\ v.queue = g.queue /\ v.fences = g.fences /\ v.ledger = g.ledger
      /\ v.update = g.update /\ v.fault = g.fault
  <2> DEFINE p == g.chrome.pending \/ animating \/ view.update.resized
  <2>1. p \in BOOLEAN
    OBVIOUS
  <2>2. v = [g EXCEPT !.chrome.pending = p]
    OBVIOUS
  <2> HIDE DEF p
  <2>3. LET z == [g EXCEPT !.chrome.pending = p] IN
        /\ z \in ViewType /\ z.queue = g.queue /\ z.fences = g.fences /\ z.ledger = g.ledger
        /\ z.update = g.update /\ z.fault = g.fault
    BY <1>3, <2>1 DEF ViewType, ChromeType
  <2> HIDE DEF v
  <2> QED BY <2>2, <2>3
<1>6. PICK w \in IF v.chrome.pending /\ v.queue.committedBuffer # None /\ ~waiting
                   THEN RedrawChrome(v) ELSE {v} :
        view' = W(w, animating \/ (w.chrome.pending /\ waiting))
  BY <1>2
<1> HIDE DEF V
<1>7. Settled(v)
  BY <1>1, <1>3, <1>5 DEF Settled, Pends, Consistent, Owned, Held, ReportsDue, SameBuffers
<1>8. Settled(w)
  <2>1. CASE waiting
    BY <1>6, <1>7, <2>1
  <2>2. CASE ~waiting
    <3>1. v.queue.pendingBuffer = None
      BY <2>2 DEF WebFrameWaiting
    <3> QED BY <1>6, <1>7, <3>1, RedrawChromeSettled
  <2> QED BY <2>1, <2>2
<1> DEFINE source == animating \/ (w.chrome.pending /\ waiting)
<1>9. source \in BOOLEAN
  OBVIOUS
<1> HIDE DEF source, v, waiting
<1>10. LET z == W(w, source) IN
      /\ z \in ViewType /\ z.queue = w.queue /\ z.fences = w.fences /\ z.ledger = w.ledger
      /\ z.update = w.update /\ z.fault = w.fault
  BY <1>8, <1>9 DEF Settled, Consistent, ViewType, ChromeType
<1> HIDE DEF W
<1>11. view' = W(w, source)
  BY <1>6 DEF source
<1> QED BY <1>8, <1>10, <1>11, SettledStep, SettledIInv

(* Memory pressure drops base pages.                                        *)
LEMMA TrimCachesIInv ==
  ASSUME IInv, TrimCaches PROVE IInv'
<1> DEFINE p == [view.chrome EXCEPT !.preparedGeneration = 0, !.preparedPage = 0]
           h == [p EXCEPT !.basePage = 0, !.baseGeneration = 0]
<1>1. Settled(view) /\ view \in ViewType
  BY RunningSettled DEF TrimCaches
<1>2. PICK c \in {p, h} : view' = [view EXCEPT !.chrome = c]
  BY DEF TrimCaches
<1>3. p \in ChromeType
  BY <1>1 DEF ViewType, ChromeType
<1> HIDE DEF p
<1>4. h \in ChromeType
  BY <1>3 DEF ChromeType
<1> HIDE DEF h
<1>5. c \in ChromeType
  BY <1>3, <1>4
<1>6. LET z == [view EXCEPT !.chrome = c] IN
      /\ z \in ViewType /\ z.queue = view.queue /\ z.fences = view.fences
      /\ z.ledger = view.ledger /\ z.update = view.update /\ z.fault = view.fault
  BY <1>1, <1>5 DEF ViewType
<1>7. Settled(view')
  BY <1>1, <1>2, <1>6, SettledStep
<1> QED BY <1>7, SettledIInv

(* The geometry changes.                                                    *)
LEMMA ResizeIInv ==
  ASSUME IInv, Resize PROVE IInv'
<1>1. Settled(view) /\ view \in ViewType
  BY RunningSettled DEF Resize
<1> DEFINE z == [view EXCEPT !.update.resized = TRUE]
<1>2. /\ z \in ViewType /\ z.queue = view.queue /\ z.fences = view.fences
      /\ z.ledger = view.ledger /\ z.update.flags = view.update.flags
      /\ z.update.dropped = view.update.dropped /\ z.fault = view.fault
  BY <1>1 DEF ViewType, UpdateType
<1>3. view' = z
  BY DEF Resize
<1> HIDE DEF z
<1> QED BY <1>1, <1>2, <1>3, SettledStep, SettledIInv

(* A disposed view keeps its type.                                          *)
LEMMA DisposeIInv ==
  ASSUME IInv, Dispose PROVE IInv'
<1>1. view \in ViewType /\ view.fault = "none"
  BY DEF Dispose, IInv, Running
<1>2. PICK released \in SUBSET Buffers, screen \in Targets \cup {None} :
        view' = Disposed(view, released, screen)
  <2>1. Held(view) \subseteq Buffers
    BY <1>1 DEF Held, ViewType, QueueType
  <2>2. /\ {b \in Held(view) : RenderingComplete(view, b)} \in SUBSET Buffers
        /\ {} \in SUBSET Buffers
    BY <2>1
  <2>3. /\ None \in Targets \cup {None}
        /\ (IF view.kms.busy THEN view.kms.next ELSE view.kms.screen) \in Targets \cup {None}
    BY <1>1 DEF ViewType, KMSType
  <2> QED BY <2>2, <2>3 DEF Dispose
<1> DEFINE l == [view.ledger EXCEPT
                   !.lent = @ \ released, !.repeated = @ \cup (released \ view.ledger.lent),
                   !.early = @ \cup {b \in released : view.fences.work[b] = "Pending"}]
           f == [view.fences EXCEPT !.held = @ \ Held(view), !.quarantine = {},
                                    !.pending = FALSE, !.taken = FALSE]
           q == [view.queue EXCEPT !.queuedBuffer = None, !.pendingBuffer = None,
                                   !.committedBuffer = None]
           c == [view.scanout EXCEPT !.pending = None, !.committed = None]
           u == [view.update EXCEPT !.flags = {}, !.fenceWait = FALSE,
                                    !.throttleSource = FALSE, !.cursorTimer = FALSE]
           h == [view.chrome EXCEPT !.source = FALSE]
           k == [busy |-> FALSE, next |-> None, screen |-> screen]
           w == [view EXCEPT !.ledger = l, !.fences = f, !.queue = q]
           x == [w EXCEPT !.scanout = c, !.update = u, !.chrome = h]
           y == [x EXCEPT !.kms = k, !.disposed = TRUE]
<1>3. l \in LedgerType
  <2>1. {b \in released : view.fences.work[b] = "Pending"} \subseteq Buffers
    OBVIOUS
  <2> QED BY <1>1, <2>1 DEF ViewType, LedgerType
<1>4. f \in FencesType
  BY <1>1 DEF ViewType, FencesType
<1>5. q \in QueueType
  BY <1>1 DEF ViewType, QueueType
<1>6. c \in ScanoutType
  BY <1>1 DEF ViewType, ScanoutType
<1>7. u \in UpdateType
  BY <1>1 DEF ViewType, UpdateType
<1>8. h \in ChromeType
  BY <1>1 DEF ViewType, ChromeType
<1>9. k \in KMSType
  BY DEF KMSType
<1>10. view' = y
  BY <1>2 DEF Disposed
<1> HIDE DEF l, f, q, c, u, h, k
<1>11. w \in ViewType /\ w.fault = "none"
  BY <1>1, <1>3, <1>4, <1>5 DEF ViewType
<1> HIDE DEF w
<1>12. x \in ViewType /\ x.fault = "none"
  BY <1>6, <1>7, <1>8, <1>11 DEF ViewType
<1> HIDE DEF x
<1>13. y \in ViewType /\ y.fault = "none" /\ y.disposed
  BY <1>9, <1>12 DEF ViewType
<1> QED BY <1>10, <1>13 DEF IInv

(* Every step keeps the invariant.                                          *)
LEMMA NextIInv == IInv /\ [Next]_view => IInv'
<1> SUFFICES ASSUME IInv, [Next]_view PROVE IInv'
  OBVIOUS
<1>1. ASSUME NEW b \in Buffers, GPUSettles(b) \/ RenderBuffer(b) \/ QuarantineSettles(b)
      PROVE  IInv'
  BY <1>1, GPUSettlesIInv, RenderBufferIInv, QuarantineSettlesIInv
<1>2. CASE UNCHANGED view
  BY <1>2 DEF IInv
<1> QED BY <1>1, <1>2, FenceWaitEndsIInv, ThrottleFiresIInv, PageFlipIInv, UpdateCursorIInv,
           CursorTimerIInv, RequestChromeRedrawIInv, ChromeTickIInv, TrimCachesIInv,
           ResizeIInv, DisposeIInv DEF Next, PageNext

(* IInv is an invariant of the queue.                                       *)
THEOREM Invariance == Spec => []IInv
  BY InitIInv, NextIInv, PTL DEF Spec

(* The view always has its type: no handler leaves a field undefined, a     *)
(* serial or generation that is not a number, or a buffer that is not one.  *)
THEOREM TypeCorrect == Spec => []TypeOK
<1>1. IInv => TypeOK
  BY DEF IInv, TypeOK
<1> QED BY <1>1, Invariance, PTL

(* Every buffer accepted from the producer is queued, pending, committed or *)
(* quarantined, in one place only, until it is released, and neither its    *)
(* release nor the end of its frame is reported twice (wpeViewDRMQueueBuffer, *)
(* wpeViewDRMCommitQueuedBuffer, wpeViewDRMFinishBufferCommit,              *)
(* abortPendingCommit, retireDiscardedBuffer).                              *)
THEOREM OwnershipKept == Spec => []BufferOwnership
<1>1. IInv => BufferOwnership
  BY DEF IInv, Settled, Consistent, Owned, BufferOwnership
<1> QED BY <1>1, Invariance, PTL

(* The g_error of retireDiscardedBuffer is out of reach, however many fences *)
(* never signal: a buffer that is discarded is not in quarantine yet, and the *)
(* swapchain has no more buffers than the quarantine has places.            *)
THEOREM QuarantineNeverOverflows == Spec => []QuarantineSuffices
<1>1. IInv => QuarantineSuffices
  BY DEF IInv, QuarantineSuffices
<1> QED BY <1>1, Invariance, PTL
-----------------------------------------------------------------------------
FrameFlags == {"BufferUpdateRequested", "BufferUpdatePending"}

(* While the GPU draws b the view still has its fence. *)
Fenced(v, b) == v.fences.work[b] = "Pending" => b \in v.fences.held

(* The frames that are not pending: the queued one has a fresh ticket, and   *)
(* the GPU is done with the committed one.                                  *)
Books(v) ==
  /\ v.fault = "none" /\ v.update.flags \subseteq FrameFlags /\ ~v.update.cursorTimer
  /\ v.queue.queuedBuffer = None => v.queue.queuedTicket = NoTicket
  /\ v.queue.queuedBuffer # None => v.queue.queuedTicket.phase = "Queued"
  /\ FenceNeeded =>
       /\ v.ledger.early = {}
       /\ v.queue.committedBuffer # None => v.fences.work[v.queue.committedBuffer] # "Pending"
       /\ v.queue.queuedBuffer # None => Fenced(v, v.queue.queuedBuffer)

(* The target an accepted commit brings to the screen. *)
Shows(v) == IF v.scanout.pending # None THEN v.scanout.pending ELSE v.scanout.committed

(* The display shows the committed target until its flip comes, and owns    *)
(* what it reads.                                                           *)
Owns(v) == v.scanout.owned = {v.kms.screen, v.kms.next} \ {None}
Screened(v) ==
  /\ v.kms.screen = v.scanout.committed /\ Owns(v)
  /\ v.kms.busy => v.kms.next = Shows(v)
  /\ ~v.kms.busy => v.kms.next = None /\ v.scanout.pending = None

(* The display already shows what the view is about to mark as committed. *)
Due(v) ==
  /\ ~v.kms.busy /\ v.kms.next = None
  /\ v.kms.screen = Shows(v)
  /\ v.scanout.owned = {v.scanout.committed, v.kms.screen} \ {None}

(* No fence was taken for a pending frame, none is waited for. *)
NoFence(v) == ~v.fences.taken /\ ~v.fences.pending /\ ~v.update.fenceWait
NoFrame(v) == v.queue.pendingBuffer = None /\ v.queue.pendingTicket = NoTicket /\ NoFence(v)

(* The handler leaves the queued frame, the geometry and the timers alone.  *)
Kept(v, w) ==
  /\ w.queue.queuedBuffer = v.queue.queuedBuffer
  /\ w.queue.queuedTicket = v.queue.queuedTicket
  /\ w.queue.geometryEpoch = v.queue.geometryEpoch
  /\ w.update.throttleSource = v.update.throttleSource
  /\ w.update.cursorTimer = v.update.cursorTimer
  /\ w.disposed = v.disposed

(* The pending frame waits for its fence, which the view holds. *)
FenceWaits(v) ==
  /\ v.queue.pendingBuffer # None /\ v.queue.pendingTicket.phase = "WaitingFence"
  /\ v.fences.taken /\ v.update.fenceWait
  /\ ~v.kms.busy
  /\ FenceNeeded /\ v.fences.work[v.queue.pendingBuffer] = "Pending" => v.fences.pending

(* The pending frame is on its way to the display, its fence done. *)
OnItsWay(v, phase) ==
  /\ v.queue.pendingBuffer # None /\ v.queue.pendingTicket.phase = phase /\ NoFence(v)
  /\ FenceNeeded => v.fences.work[v.queue.pendingBuffer] # "Pending"

(* It was drawn for the geometry of now. *)
Current(v) ==
  v.queue.pendingBuffer # None => v.queue.pendingTicket.epoch = v.queue.geometryEpoch

(* The pending frame was submitted. *)
Flips(v) == OnItsWay(v, "Submitted") /\ v.scanout.pending # None

(* RequestUpdate may run: no commit is under way, and a pending frame has    *)
(* not been looked at yet, or has waited for its fence.                     *)
Idle(v) ==
  /\ ~v.kms.busy /\ v.kms.next = None /\ v.kms.screen = v.scanout.committed
  /\ v.scanout.owned = {v.scanout.committed} \ {None}

Asked(v) ==
  /\ Consistent(v) /\ Books(v) /\ Idle(v) /\ v.scanout.pending = None
  /\ ~v.update.lastCommitSync /\ ~v.update.fenceWait
  /\ \/ NoFrame(v)
     \/ /\ v.queue.pendingBuffer # None /\ v.queue.pendingTicket.phase = "Queued"
        /\ NoFence(v)
        /\ FenceNeeded => Fenced(v, v.queue.pendingBuffer)
     \/ /\ v.queue.pendingBuffer # None /\ v.queue.pendingTicket.phase = "WaitingFence"
        /\ v.fences.taken
        /\ FenceNeeded => v.fences.work[v.queue.pendingBuffer] # "Pending"

(* RequestUpdate has run: nothing is pending, and if the answer was yes a    *)
(* frame was dropped; or the pending frame waits for its fence; or a commit *)
(* was accepted, synchronously or for a flip to come.                       *)
Nothing(v, ok) ==
  NoFrame(v) /\ ~v.kms.busy /\ Screened(v) /\ ~v.update.lastCommitSync
    /\ (ok => v.update.dropped)
Waits(v) == FenceWaits(v) /\ Screened(v) /\ ~v.update.lastCommitSync
Committed(v) ==
  /\ NoFrame(v) \/ Flips(v)
  /\ Current(v)
  /\ \/ v.kms.busy /\ ~v.update.lastCommitSync /\ Screened(v)
     \/ v.update.lastCommitSync /\ Due(v)

Decided(v, r) ==
  /\ Books(r.v) /\ Kept(v, r.v)
  /\ r.v.queue.committedBuffer = v.queue.committedBuffer
  /\ \/ Nothing(r.v, r.ok) /\ (r.ok => v.queue.pendingBuffer # None)
     \/ r.ok /\ r.v.update.dropped = v.update.dropped /\ (Waits(r.v) \/ Committed(r.v))

(* Between two handlers, but for the wake-up of the queued frame: nothing is *)
(* pending, or a fence is waited for, or a flip.                            *)
Calm(v) ==
  /\ Books(v) /\ Screened(v) /\ ~v.update.lastCommitSync
  /\ NoFrame(v) \/ FenceWaits(v) \/ (Flips(v) /\ v.kms.busy)
  /\ "BufferUpdateRequested" \in v.update.flags <=> v.kms.busy \/ v.update.fenceWait

(* Whatever is submitted now was drawn for the geometry of now. *)
Fresh(v) ==
  v.queue.pendingTicket.phase = "Submitted" =>
    v.queue.pendingTicket.epoch = v.queue.geometryEpoch

(* The queued frame, if any, has its wake-up. *)
Armed(v) ==
  v.queue.queuedBuffer # None =>
    /\ "BufferUpdatePending" \in v.update.flags
    /\ v.update.throttleSource \/ v.update.fenceWait \/ v.kms.busy

Quiet(v) == Calm(v) /\ Armed(v)

(* The invariant, next to IInv. *)
PInv ==
  /\ view.fault = "none"
  /\ FenceNeeded => view.ledger.early = {}
  /\ ScanoutOwned
  /\ ~view.disposed => Quiet(view)

(* A target operator draws into slots the display engine does not read, and *)
(* hands out only such a slot.                                              *)
DrawnOf(v, t) ==
  /\ t.v.update = v.update
  /\ t.v.scanout.pending = v.scanout.pending /\ t.v.scanout.committed = v.scanout.committed
  /\ t.v.scanout.owned = v.scanout.owned
  /\ CopyPath => /\ t.fb \in WritableSlots(v) \cup {None}
                 /\ \A x \in Targets \ WritableSlots(v) :
                      t.v.scanout.frame[x] = v.scanout.frame[x]

-----------------------------------------------------------------------------
(* wpe_view_buffer_released touches the fences and the books of b only.     *)
LEMMA ReleasedFences ==
  ASSUME NEW v \in ViewType, NEW b \in Buffers
  PROVE  LET w == BufferReleased(v, b) IN
         /\ w.scanout = v.scanout /\ w.kms = v.kms /\ w.chrome = v.chrome
         /\ w.fences.held = v.fences.held /\ w.fences.taken = v.fences.taken
         /\ w.fences.pending = v.fences.pending
         /\ \A x \in Buffers \ {b} : w.fences.work[x] = v.fences.work[x]
         /\ v.fences.work[b] # "Pending" => w.ledger.early = v.ledger.early
  BY DEF BufferReleased, ViewType, LedgerType, FencesType

(* A discarded buffer whose fence the view has is not released early.       *)
LEMMA RetireFences ==
  ASSUME NEW v \in ViewType, NEW b \in Buffers, NEW held \in BOOLEAN
  PROVE  LET w == RetireDiscarded(v, b, held) IN
         /\ w.scanout = v.scanout /\ w.kms = v.kms /\ w.chrome = v.chrome
         /\ w.fences.taken = v.fences.taken /\ w.fences.pending = v.fences.pending
         /\ \A x \in Buffers \ {b} : /\ w.fences.work[x] = v.fences.work[x]
                                     /\ x \in w.fences.held <=> x \in v.fences.held
         /\ (v.fences.work[b] = "Pending" => held \/ b \in v.fences.held) =>
              w.ledger.early = v.ledger.early
<1> DEFINE x == IF held THEN v ELSE [v EXCEPT !.fences.held = @ \ {b}]
           k == [x EXCEPT !.fences.quarantine = @ \cup {b}]
           g == [x EXCEPT !.fault = "quarantine"]
           y == BufferReleased(x, b)
<1>1. /\ x \in ViewType /\ x.scanout = v.scanout /\ x.kms = v.kms /\ x.chrome = v.chrome
      /\ x.fences.taken = v.fences.taken /\ x.fences.pending = v.fences.pending
      /\ x.fences.work = v.fences.work /\ x.ledger = v.ledger
      /\ \A z \in Buffers \ {b} : z \in x.fences.held <=> z \in v.fences.held
  BY DEF ViewType, FencesType
<1>2. /\ RetireDiscarded(v, b, held) \in {y, k, g}
      /\ \/ RetireDiscarded(v, b, held) \in {k, g}
         \/ v.fences.work[b] # "Pending" \/ ~(held \/ b \in v.fences.held)
  BY DEF RetireDiscarded, ProbeFence
<1> HIDE DEF x
<1>3. /\ y.scanout = x.scanout /\ y.kms = x.kms /\ y.chrome = x.chrome
      /\ y.fences.held = x.fences.held /\ y.fences.taken = x.fences.taken
      /\ y.fences.pending = x.fences.pending
      /\ \A z \in Buffers \ {b} : y.fences.work[z] = x.fences.work[z]
      /\ x.fences.work[b] # "Pending" => y.ledger.early = x.ledger.early
  BY <1>1, ReleasedFences
<1>4. /\ k.scanout = x.scanout /\ k.kms = x.kms /\ k.chrome = x.chrome
      /\ k.fences.held = x.fences.held /\ k.fences.taken = x.fences.taken
      /\ k.fences.pending = x.fences.pending /\ k.fences.work = x.fences.work
      /\ k.ledger = x.ledger
  BY <1>1 DEF ViewType, FencesType
<1>5. /\ g.scanout = x.scanout /\ g.kms = x.kms /\ g.chrome = x.chrome
      /\ g.fences = x.fences /\ g.ledger = x.ledger
  BY <1>1 DEF ViewType
<1> HIDE DEF y, k, g
<1> QED BY <1>1, <1>2, <1>3, <1>4, <1>5

(* The end of a frame is reported without touching anything else.           *)
LEMMA CompleteFences ==
  ASSUME NEW v \in ViewType
  PROVE  LET w == CompletePending(v) IN
         /\ v.queue.pendingBuffer # None => w \in ViewType
         /\ w.scanout = v.scanout /\ w.kms = v.kms /\ w.chrome = v.chrome
         /\ w.fences = v.fences /\ w.update = v.update /\ w.fault = v.fault
         /\ w.disposed = v.disposed
         /\ w.ledger.early = v.ledger.early
         /\ w.queue = [v.queue EXCEPT !.pendingTicket = w.queue.pendingTicket]
         /\ w.queue.pendingTicket.serial = v.queue.pendingTicket.serial
         /\ w.queue.pendingTicket.epoch = v.queue.pendingTicket.epoch
         /\ w.queue.pendingTicket.phase = v.queue.pendingTicket.phase
<1> DEFINE b == v.queue.pendingBuffer
           l == [v.ledger EXCEPT !.unpaced = @ \ {b}, !.repeated = @ \cup ({b} \ v.ledger.unpaced)]
           n == [v.queue.pendingTicket EXCEPT !.rendered = TRUE]
           q == [v.queue EXCEPT !.pendingTicket = n]
           r == [v EXCEPT !.ledger = l]
           s == [r EXCEPT !.queue.pendingTicket.rendered = TRUE]
<1>1. l.early = v.ledger.early /\ (b # None => l \in LedgerType)
  BY DEF ViewType, LedgerType, QueueType
<1>2. v.queue.pendingTicket \in Ticket /\ v.queue \in QueueType
  BY DEF ViewType, QueueType
<1>3. n.serial = v.queue.pendingTicket.serial /\ n.epoch = v.queue.pendingTicket.epoch
      /\ n.phase = v.queue.pendingTicket.phase /\ n \in Ticket
  BY <1>2 DEF Ticket
<1> HIDE DEF l, n
<1>4. /\ q.pendingTicket = n /\ q \in QueueType
      /\ v.queue = [v.queue EXCEPT !.pendingTicket = v.queue.pendingTicket]
  BY <1>2, <1>3 DEF QueueType
<1>5. s = [v EXCEPT !.ledger = l, !.queue = q]
  BY DEF ViewType, n
<1> HIDE DEF q
<1>6. LET w == [v EXCEPT !.ledger = l, !.queue = q] IN
      /\ w.scanout = v.scanout /\ w.kms = v.kms /\ w.chrome = v.chrome
      /\ w.fences = v.fences /\ w.update = v.update /\ w.fault = v.fault
      /\ w.disposed = v.disposed /\ w.ledger = l /\ w.queue = q
      /\ b # None => w \in ViewType
  BY <1>1, <1>4 DEF ViewType
<1>7. CompletePending(v) \in {v, s}
  BY DEF CompletePending, BufferRendered, l
<1> HIDE DEF s
<1>8. CASE CompletePending(v) = s
  <2> DEFINE w == [v EXCEPT !.ledger = l, !.queue = q]
  <2>1. CompletePending(v) = w
    BY <1>5, <1>8
  <2> HIDE DEF w
  <2>2. /\ w.scanout = v.scanout /\ w.kms = v.kms /\ w.chrome = v.chrome
        /\ w.fences = v.fences /\ w.update = v.update /\ w.fault = v.fault
        /\ w.disposed = v.disposed /\ w.ledger = l /\ w.queue = q
        /\ b # None => w \in ViewType
    BY <1>6 DEF w
  <2>3. q = [v.queue EXCEPT !.pendingTicket = q.pendingTicket]
    BY <1>4 DEF q
  <2> QED BY <1>1, <1>3, <1>4, <2>1, <2>2, <2>3
<1>9. CASE CompletePending(v) = v
  BY <1>4, <1>9
<1> QED BY <1>7, <1>8, <1>9

(* What becomes of the pending ticket when its phase may change.            *)
LEMMA AdvanceFences ==
  ASSUME NEW v \in ViewType, NEW phase \in FramePhase,
         CanAdvance(v.queue.pendingTicket.phase, phase)
  PROVE  LET w == AdvancePending(v, phase) IN
         /\ w \in ViewType
         /\ w.scanout = v.scanout /\ w.kms = v.kms /\ w.chrome = v.chrome
         /\ w.fences = v.fences /\ w.update = v.update /\ w.fault = v.fault
         /\ w.disposed = v.disposed /\ w.ledger = v.ledger
         /\ w.queue.queuedBuffer = v.queue.queuedBuffer
         /\ w.queue.queuedTicket = v.queue.queuedTicket
         /\ w.queue.geometryEpoch = v.queue.geometryEpoch
         /\ w.queue.pendingBuffer = v.queue.pendingBuffer
         /\ w.queue.committedBuffer = v.queue.committedBuffer
         /\ w.queue.committedTicket = v.queue.committedTicket
         /\ w.queue.pendingTicket.serial = v.queue.pendingTicket.serial
         /\ w.queue.pendingTicket.epoch = v.queue.pendingTicket.epoch
         /\ w.queue.pendingTicket.phase = phase
  BY DEF AdvancePending, ViewType, QueueType, Ticket

(* The books outlive what concerns other buffers only.                      *)
LEMMA BooksKept ==
  ASSUME NEW v, NEW w, Books(v), Kept(v, w), w.update.flags \subseteq FrameFlags,
         w.fault = v.fault,
         w.queue.committedBuffer = v.queue.committedBuffer,
         FenceNeeded => w.ledger.early = v.ledger.early,
         \A b \in {v.queue.queuedBuffer, v.queue.committedBuffer} \ {None} :
           /\ w.fences.work[b] = v.fences.work[b]
           /\ b \in w.fences.held <=> b \in v.fences.held
  PROVE  Books(w)
  BY DEF Books, Kept, Fenced

(* abortPendingCommit: whatever the pending frame was, no assertion fails   *)
(* and its buffer is not released before its fence.                         *)
LEMMA AbortPhase ==
  ASSUME NEW v, Consistent(v), Books(v),
         FenceNeeded /\ v.queue.pendingBuffer # None
           /\ v.fences.work[v.queue.pendingBuffer] = "Pending"
         => v.fences.pending \/ v.queue.pendingBuffer \in v.fences.held
  PROVE  LET w == AbortPending(v) IN
         /\ Books(w) /\ Kept(v, w) /\ NoFrame(w)
         /\ w.queue.committedBuffer = v.queue.committedBuffer
         /\ w.update.lastCommitSync = v.update.lastCommitSync
         /\ w.kms = v.kms
         /\ w.scanout.pending = None /\ w.scanout.committed = v.scanout.committed
         /\ w.scanout.owned = v.scanout.owned /\ w.scanout.frame = v.scanout.frame
<1> DEFINE b == v.queue.pendingBuffer
           web == b # None
           c == CompletePending(v)
           r == RetireDiscarded(c, b, v.fences.pending)
           w == IF web THEN r ELSE v
           q == [w.queue EXCEPT !.pendingBuffer = None, !.pendingTicket = NoTicket]
           u == [w.update EXCEPT !.fenceWait = FALSE, !.dropped = web]
           f == [w.fences EXCEPT !.taken = FALSE, !.pending = FALSE]
           h == [w.chrome EXCEPT !.preparedGeneration = 0, !.preparedPage = 0]
           s == [w.scanout EXCEPT !.pending = None]
           a == [w EXCEPT !.queue = q, !.update = u, !.fences = f, !.chrome = h,
                          !.scanout = s]
<1>1. /\ v \in ViewType /\ v.fences.pending \in BOOLEAN /\ web \in BOOLEAN
      /\ v.queue \in QueueType /\ v.scanout \in ScanoutType /\ v.update \in UpdateType
      /\ v.fences \in FencesType
  BY DEF Consistent, ViewType, FencesType
<1>2. /\ w \in ViewType
      /\ w.scanout = v.scanout /\ w.kms = v.kms /\ w.update = v.update
      /\ w.fault = v.fault /\ w.disposed = v.disposed
      /\ w.queue.queuedBuffer = v.queue.queuedBuffer
      /\ w.queue.queuedTicket = v.queue.queuedTicket
      /\ w.queue.geometryEpoch = v.queue.geometryEpoch
      /\ w.queue.committedBuffer = v.queue.committedBuffer
      /\ FenceNeeded => w.ledger.early = v.ledger.early
      /\ \A x \in Buffers \ {b} : /\ w.fences.work[x] = v.fences.work[x]
                                  /\ x \in w.fences.held <=> x \in v.fences.held
  <2>1. CASE web
    <3>1. b \in Buffers /\ b \in v.ledger.lent /\ b \notin v.fences.quarantine
      BY <2>1, <1>1 DEF Consistent, Owned, Held, QueueType
    <3>2. /\ c \in ViewType /\ c.fences = v.fences /\ c.ledger.lent = v.ledger.lent
          /\ c.fault = v.fault
      BY <2>1, <1>1, CompleteEffect DEF Consistent, ReportsDue
    <3>3. /\ c.scanout = v.scanout /\ c.kms = v.kms /\ c.update = v.update
          /\ c.disposed = v.disposed /\ c.ledger.early = v.ledger.early
          /\ c.queue = [v.queue EXCEPT !.pendingTicket = c.queue.pendingTicket]
      BY <1>1, CompleteFences
    <3> HIDE DEF c
    <3>4. /\ c.queue.queuedBuffer = v.queue.queuedBuffer
          /\ c.queue.queuedTicket = v.queue.queuedTicket
          /\ c.queue.geometryEpoch = v.queue.geometryEpoch
          /\ c.queue.committedBuffer = v.queue.committedBuffer
      <4> DEFINE n == c.queue.pendingTicket
      <4>1. c.queue = [v.queue EXCEPT !.pendingTicket = n]
        BY <3>3
      <4> HIDE DEF n
      <4> QED BY <4>1, <1>1 DEF QueueType
    <3>5. /\ r \in ViewType /\ r.queue = c.queue /\ r.update = c.update
          /\ r.fault = c.fault /\ r.disposed = c.disposed
      BY <3>1, <3>2, <1>1, RetireEffect
    <3>6. /\ r.scanout = c.scanout /\ r.kms = c.kms
          /\ \A x \in Buffers \ {b} : /\ r.fences.work[x] = c.fences.work[x]
                                      /\ x \in r.fences.held <=> x \in c.fences.held
          /\ (c.fences.work[b] = "Pending" => v.fences.pending \/ b \in c.fences.held) =>
               r.ledger.early = c.ledger.early
      BY <3>1, <3>2, <1>1, RetireFences
    <3>7. FenceNeeded => r.ledger.early = v.ledger.early
      BY <2>1, <3>2, <3>3, <3>6
    <3> HIDE DEF r
    <3>8. w = r
      BY <2>1
    <3> HIDE DEF w, b
    <3> QED BY <3>2, <3>3, <3>4, <3>5, <3>6, <3>7, <3>8
  <2>2. CASE ~web
    BY <2>2, <1>1
  <2> QED BY <2>1, <2>2
<1>3. AbortPending(v) = a
  BY DEF AbortPending
<1> HIDE DEF w
<1>4. w.queue \in QueueType /\ w.fences \in FencesType
  BY <1>2 DEF ViewType
<1>5. /\ q.pendingBuffer = None /\ q.pendingTicket = NoTicket
      /\ q.queuedBuffer = v.queue.queuedBuffer /\ q.queuedTicket = v.queue.queuedTicket
      /\ q.geometryEpoch = v.queue.geometryEpoch
      /\ q.committedBuffer = v.queue.committedBuffer
  BY <1>2, <1>4 DEF QueueType
<1>6. /\ u.flags = v.update.flags /\ ~u.fenceWait /\ u.lastCommitSync = v.update.lastCommitSync
      /\ u.throttleSource = v.update.throttleSource /\ u.cursorTimer = v.update.cursorTimer
  BY <1>2, <1>1 DEF UpdateType
<1>7. /\ ~f.taken /\ ~f.pending /\ f.work = w.fences.work /\ f.held = w.fences.held
  BY <1>4 DEF FencesType
<1>8. /\ s.pending = None /\ s.committed = v.scanout.committed
      /\ s.owned = v.scanout.owned /\ s.frame = v.scanout.frame
  BY <1>2, <1>1 DEF ScanoutType
<1> HIDE DEF q, u, f, h, s
<1>9. /\ a.queue = q /\ a.update = u /\ a.fences = f /\ a.scanout = s
      /\ a.ledger = w.ledger /\ a.fault = w.fault /\ a.disposed = w.disposed /\ a.kms = w.kms
  BY <1>2 DEF ViewType
<1> HIDE DEF a
<1>10. Kept(v, a)
  BY <1>2, <1>5, <1>6, <1>9 DEF Kept
<1>11. \A x \in {v.queue.queuedBuffer, v.queue.committedBuffer} \ {None} : x \in Buffers \ {b}
  BY <1>1 DEF Consistent, Owned, QueueType
<1>12. Books(a)
  <2>1. \A x \in {v.queue.queuedBuffer, v.queue.committedBuffer} \ {None} :
           /\ a.fences.work[x] = v.fences.work[x]
           /\ x \in a.fences.held <=> x \in v.fences.held
    BY <1>2, <1>7, <1>9, <1>11
  <2>2. a.update.flags \subseteq FrameFlags
    BY <1>6, <1>9 DEF Books
  <2> QED BY <1>2, <1>5, <1>9, <1>10, <2>1, <2>2, BooksKept
<1> QED BY <1>2, <1>3, <1>5, <1>6, <1>7, <1>8, <1>9, <1>10, <1>12 DEF NoFrame, NoFence

(* A frame that becomes the committed one: its ticket was submitted, and the *)
(* buffer before it is released when the GPU has long been done with it.    *)
LEMMA CommitPagePhase ==
  ASSUME NEW v, Consistent(v), Books(v),
         v.queue.pendingBuffer # None, v.queue.pendingTicket.phase = "Submitted",
         FenceNeeded => v.fences.work[v.queue.pendingBuffer] # "Pending"
  PROVE  LET w == CommitPage(v) IN
         /\ w \in ViewType /\ Books(w) /\ Kept(v, w)
         /\ w.queue.pendingBuffer = None /\ w.queue.pendingTicket = NoTicket
         /\ w.update = v.update /\ w.kms = v.kms /\ w.scanout = v.scanout
         /\ w.fences.taken = v.fences.taken /\ w.fences.pending = v.fences.pending
<1> DEFINE b == v.queue.pendingBuffer
           old == v.queue.committedBuffer
           p == AdvancePending(v, "Presented")
           r == IF old = None THEN p ELSE BufferReleased(p, old)
           c == CompletePending(r)
           q == [c.queue EXCEPT !.committedBuffer = b, !.committedTicket = c.queue.pendingTicket,
                                !.pendingBuffer = None, !.pendingTicket = NoTicket]
           w == [c EXCEPT !.queue = q]
<1>1. /\ v \in ViewType /\ b \in Buffers /\ old \in Buffers \cup {None} /\ b # old
      /\ v.queue \in QueueType /\ v.queue.queuedBuffer \in Buffers \cup {None}
      /\ v.queue.queuedBuffer # None => v.queue.queuedBuffer # old
  BY DEF Consistent, ViewType, QueueType, Owned
<1>2. "Presented" \in FramePhase /\ CanAdvance(v.queue.pendingTicket.phase, "Presented")
  BY DEF CanAdvance, FramePhase
<1>3. /\ p \in ViewType
      /\ p.scanout = v.scanout /\ p.kms = v.kms
      /\ p.fences = v.fences /\ p.update = v.update /\ p.fault = v.fault
      /\ p.disposed = v.disposed /\ p.ledger = v.ledger
      /\ p.queue.queuedBuffer = v.queue.queuedBuffer
      /\ p.queue.queuedTicket = v.queue.queuedTicket
      /\ p.queue.geometryEpoch = v.queue.geometryEpoch
      /\ p.queue.pendingBuffer = b
  BY <1>1, <1>2, AdvanceFences
<1> HIDE DEF p
<1>4. /\ r \in ViewType /\ r.queue = p.queue
      /\ r.scanout = v.scanout /\ r.kms = v.kms
      /\ r.update = v.update /\ r.fault = v.fault /\ r.disposed = v.disposed
      /\ r.fences.held = v.fences.held /\ r.fences.taken = v.fences.taken
      /\ r.fences.pending = v.fences.pending
      /\ \A x \in Buffers \ {old} : r.fences.work[x] = v.fences.work[x]
      /\ FenceNeeded => r.ledger.early = v.ledger.early
  <2>1. CASE old = None
    BY <1>3, <2>1
  <2>2. CASE old # None
    <3> DEFINE y == BufferReleased(p, old)
    <3>1. old \in Buffers /\ FenceNeeded => v.fences.work[old] # "Pending"
      BY <1>1, <2>2 DEF Books
    <3>2. /\ y \in ViewType /\ y.queue = p.queue /\ y.update = p.update
          /\ y.fault = p.fault /\ y.disposed = p.disposed
      BY <1>1, <1>3, <2>2, ReleasedEffect
    <3>3. /\ y.scanout = p.scanout /\ y.kms = p.kms
          /\ y.fences.held = p.fences.held /\ y.fences.taken = p.fences.taken
          /\ y.fences.pending = p.fences.pending
          /\ \A x \in Buffers \ {old} : y.fences.work[x] = p.fences.work[x]
          /\ p.fences.work[old] # "Pending" => y.ledger.early = p.ledger.early
      BY <1>1, <1>3, <2>2, ReleasedFences
    <3>4. r = y
      BY <2>2
    <3> HIDE DEF y, r
    <3> QED BY <1>1, <2>2, <1>3, <3>1, <3>2, <3>3, <3>4
  <2> QED BY <2>1, <2>2
<1> HIDE DEF r
<1>5. c \in ViewType
  BY <1>1, <1>3, <1>4, CompleteFences, QueueAssumption
<1>6. /\ c.scanout = r.scanout /\ c.kms = r.kms /\ c.fences = r.fences
      /\ c.update = r.update /\ c.fault = r.fault /\ c.disposed = r.disposed
      /\ c.ledger.early = r.ledger.early
      /\ c.queue = [r.queue EXCEPT !.pendingTicket = c.queue.pendingTicket]
  BY <1>4, CompleteFences
<1> HIDE DEF c
<1>7. /\ c.queue.queuedBuffer = v.queue.queuedBuffer
      /\ c.queue.queuedTicket = v.queue.queuedTicket
      /\ c.queue.geometryEpoch = v.queue.geometryEpoch
  <2> DEFINE n == c.queue.pendingTicket
  <2>1. c.queue = [r.queue EXCEPT !.pendingTicket = n] /\ r.queue \in QueueType
    BY <1>4, <1>6 DEF ViewType
  <2> HIDE DEF n
  <2> QED BY <2>1, <1>3, <1>4 DEF QueueType
<1>8. CommitPage(v) = w
  BY DEF CommitPage, c, r, p
<1>9. /\ q \in QueueType /\ q.committedBuffer = b
      /\ q.pendingBuffer = None /\ q.pendingTicket = NoTicket
      /\ q.queuedBuffer = v.queue.queuedBuffer
      /\ q.queuedTicket = v.queue.queuedTicket
      /\ q.geometryEpoch = v.queue.geometryEpoch
  BY <1>1, <1>5, <1>7 DEF ViewType, QueueType, Ticket, NoTicket, FramePhase
<1> HIDE DEF q
<1>10. /\ w \in ViewType /\ w.queue = q /\ w.update = v.update /\ w.fences = c.fences
       /\ w.fault = v.fault /\ w.disposed = v.disposed /\ w.ledger = c.ledger
       /\ w.kms = v.kms /\ w.scanout = v.scanout
  BY <1>4, <1>5, <1>6, <1>9 DEF ViewType
<1> HIDE DEF w
<1>11. Kept(v, w)
  BY <1>9, <1>10 DEF Kept
<1>12. Books(w)
  <2>1. FenceNeeded => w.ledger.early = {}
    BY <1>4, <1>6, <1>10 DEF Books
  <2>2. FenceNeeded => w.fences.work[b] # "Pending"
    BY <1>1, <1>4, <1>6, <1>10
  <2>3. FenceNeeded /\ v.queue.queuedBuffer # None => Fenced(w, v.queue.queuedBuffer)
    BY <1>1, <1>4, <1>6, <1>10 DEF Books, Fenced
  <2>4. w.queue.committedBuffer = b /\ w.fault = "none"
        /\ w.update.flags \subseteq FrameFlags /\ ~w.update.cursorTimer
        /\ w.queue.queuedBuffer = v.queue.queuedBuffer
        /\ w.queue.queuedTicket = v.queue.queuedTicket
    BY <1>9, <1>10 DEF Books
  <2> QED BY <2>1, <2>2, <2>3, <2>4 DEF Books
<1> QED BY <1>4, <1>6, <1>8, <1>9, <1>10, <1>11, <1>12

(* wpeViewDRMFinishBufferCommit: what the display already shows becomes the *)
(* committed target, and what was shown before is no longer owned.          *)
LEMMA FinishPhase ==
  ASSUME NEW v, Consistent(v), Books(v), Due(v), NoFence(v),
         v.queue.pendingBuffer = None => v.queue.pendingTicket = NoTicket,
         v.queue.pendingBuffer # None =>
           /\ v.queue.pendingTicket.phase = "Submitted"
           /\ FenceNeeded => v.fences.work[v.queue.pendingBuffer] # "Pending"
  PROVE  LET w == FinishBufferCommit(v) IN
         /\ Books(w) /\ Kept(v, w) /\ NoFrame(w) /\ Screened(w)
         /\ w.update = v.update /\ w.kms = v.kms
<1> DEFINE web == v.queue.pendingBuffer # None
           w == IF web THEN CommitPage(v) ELSE v
           s == CommitScanout(w)
           x == IF v.scanout.pending # None THEN s ELSE w
           h == IF web THEN AdvanceGeneration(v.chrome) ELSE v.chrome
           y == [x EXCEPT !.chrome = [h EXCEPT !.pending = h.stale]]
<1>1. v \in ViewType
  BY DEF Consistent
<1>2. /\ w \in ViewType /\ Books(w) /\ Kept(v, w) /\ NoFrame(w)
      /\ w.update = v.update /\ w.kms = v.kms /\ w.scanout = v.scanout
  <2>1. CASE web
    BY <2>1, CommitPagePhase DEF NoFrame, NoFence
  <2>2. CASE ~web
    BY <1>1, <2>2 DEF NoFrame, Kept
  <2> QED BY <2>1, <2>2
<1> HIDE DEF w
<1>3. v.scanout.pending # None =>
        /\ s.scanout.committed = v.scanout.pending /\ s.scanout.pending = None
        /\ s.scanout.owned = v.scanout.owned \ ({v.scanout.committed} \ {v.scanout.pending})
        /\ s.queue = w.queue /\ s.update = w.update /\ s.kms = w.kms /\ s.fences = w.fences
        /\ s.ledger = w.ledger /\ s.fault = w.fault /\ s.disposed = w.disposed
        /\ s \in ViewType
  BY <1>2 DEF CommitScanout, ViewType, ScanoutType, Targets
<1> HIDE DEF s
<1>4. /\ x \in ViewType /\ Books(x) /\ Kept(v, x) /\ NoFrame(x) /\ Screened(x)
      /\ x.update = v.update /\ x.kms = v.kms
  <2>1. CASE v.scanout.pending # None
    <3>1. Books(s) /\ Kept(v, s) /\ NoFrame(s)
      BY <1>2, <1>3, <2>1 DEF Books, Kept, NoFrame, NoFence, Fenced
    <3>2. Screened(s)
      BY <1>2, <1>3, <2>1 DEF Due, Shows, Screened, Owns
    <3> QED BY <1>2, <1>3, <2>1, <3>1, <3>2
  <2>2. CASE v.scanout.pending = None
    BY <1>2, <2>2 DEF Due, Shows, Screened, Owns
  <2> QED BY <2>1, <2>2
<1> HIDE DEF x
<1>5. FinishBufferCommit(v) = IF ~web /\ v.scanout.pending = None THEN v ELSE y
  BY DEF FinishBufferCommit, w, x, s, h
<1> DEFINE g == [h EXCEPT !.pending = h.stale]
           z == [x EXCEPT !.chrome = g]
<1>6. y = z
  OBVIOUS
<1> HIDE DEF g
<1>7. /\ z.queue = x.queue /\ z.update = x.update /\ z.kms = x.kms /\ z.fences = x.fences
      /\ z.ledger = x.ledger /\ z.fault = x.fault /\ z.disposed = x.disposed
      /\ z.scanout = x.scanout
  BY <1>4 DEF ViewType
<1> HIDE DEF z, y
<1>8. CASE ~web /\ v.scanout.pending = None
  <2>1. NoFrame(v) /\ Kept(v, v) /\ Screened(v)
    BY <1>8 DEF NoFrame, Kept, Screened, Due, Shows, Owns
  <2> QED BY <1>5, <1>8, <2>1
<1>9. CASE ~(~web /\ v.scanout.pending = None)
  <2>1. /\ Books(z) /\ Kept(v, z) /\ NoFrame(z) /\ Screened(z)
        /\ z.update = v.update /\ z.kms = v.kms
    BY <1>4, <1>7 DEF Books, Kept, NoFrame, NoFence, Fenced, Screened, Shows, Owns
  <2> QED BY <1>5, <1>6, <1>9, <2>1
<1> QED BY <1>8, <1>9

(* Drawing a page changes the frame of one slot.                            *)
LEMMA DrawPageScanout ==
  ASSUME NEW v \in ViewType, NEW s, NEW drawn, NEW page, NEW g
  PROVE  LET w == DrawPage(v, s, drawn, page, g) IN
         /\ w.update = v.update
         /\ w.scanout.pending = v.scanout.pending /\ w.scanout.committed = v.scanout.committed
         /\ w.scanout.owned = v.scanout.owned
         /\ \A x \in Targets \ {s} : w.scanout.frame[x] = v.scanout.frame[x]
  BY DEF DrawPage, ViewType, ScanoutType

(* drmScanoutBufferForRender writes spare slots only.                       *)
LEMMA RenderTargetsDrawn ==
  ASSUME NEW v \in ViewType, NEW source \in Buffers, NEW page, NEW capture,
         NEW t \in RenderTargets(v, source, page, capture)
  PROVE  DrawnOf(v, t)
<1> DEFINE direct == [v EXCEPT !.scanout.frame[source] = page]
<1>1. /\ direct.update = v.update /\ direct.scanout.pending = v.scanout.pending
      /\ direct.scanout.committed = v.scanout.committed
      /\ direct.scanout.owned = v.scanout.owned
  BY DEF ViewType, ScanoutType
<1>2. \/ t = [v |-> v, fb |-> None]
      \/ ~CopyPath /\ t = [v |-> direct, fb |-> source]
      \/ \E s \in WritableSlots(v), g \in BaseGenerations(v, capture) :
           t \in {[v |-> DrawPage(v, s, page, page, g), fb |-> s],
                  [v |-> DrawPage(v, s, 0, page, g), fb |-> None]}
  BY DEF RenderTargets, NoTarget
<1> HIDE DEF direct
<1>3. CASE t = [v |-> v, fb |-> None]
  BY <1>3 DEF DrawnOf
<1>4. CASE ~CopyPath /\ t = [v |-> direct, fb |-> source]
  BY <1>1, <1>4 DEF DrawnOf
<1>5. ASSUME NEW s \in WritableSlots(v), NEW g \in BaseGenerations(v, capture), NEW drawn,
             t.v = DrawPage(v, s, drawn, page, g), t.fb \in {s, None}
      PROVE  DrawnOf(v, t)
  BY <1>5, DrawPageScanout DEF DrawnOf
<1> QED BY <1>2, <1>3, <1>4, <1>5

(* So does nextChromeOverlayBuffer.                                         *)
LEMMA OverlayTargetsDrawn ==
  ASSUME NEW v \in ViewType, NEW t \in OverlayTargets(v)
  PROVE  DrawnOf(v, t)
<1> DEFINE Drawn(s) == [v EXCEPT !.scanout.frame[s] = v.chrome.basePage, !.chrome.stale = FALSE]
<1>1. \/ t = [v |-> v, fb |-> None]
      \/ \E s \in WritableSlots(v) : t = [v |-> Drawn(s), fb |-> s]
  BY DEF OverlayTargets, NoTarget
<1>2. CASE t = [v |-> v, fb |-> None]
  BY <1>2 DEF DrawnOf
<1>3. ASSUME NEW s \in WritableSlots(v), t = [v |-> Drawn(s), fb |-> s]
      PROVE  DrawnOf(v, t)
  <2>1. /\ Drawn(s).update = v.update /\ Drawn(s).scanout.pending = v.scanout.pending
        /\ Drawn(s).scanout.committed = v.scanout.committed
        /\ Drawn(s).scanout.owned = v.scanout.owned
        /\ \A x \in Targets \ {s} : Drawn(s).scanout.frame[x] = v.scanout.frame[x]
    BY DEF ViewType, ScanoutType
  <2> HIDE DEF Drawn
  <2> QED BY <1>3, <2>1 DEF DrawnOf
<1> QED BY <1>1, <1>2, <1>3

(* A commit KMS refuses drops the frame, one it accepts submits it.         *)
LEMMA CommitTargetsDecided ==
  ASSUME NEW v, Consistent(v), Books(v), Idle(v), ~v.update.lastCommitSync, Current(v),
         NEW fb \in Targets \cup {None}, fb = Shows(v),
         NoFrame(v) \/ (OnItsWay(v, "Ready") /\ v.scanout.pending # None),
         NEW r \in CommitTargets(v, fb)
  PROVE  Decided(v, r)
<1> DEFINE sync == Atomic /\ SyncCommit /\ CopyPath /\ fb # None
           web == v.queue.pendingBuffer # None
           a == AbortPending(v)
           aborted == [a EXCEPT !.update.lastCommitSync = @ /\ ~Atomic]
           kms == IF sync THEN [busy |-> FALSE, next |-> None, screen |-> fb]
                  ELSE [busy |-> TRUE, next |-> fb, screen |-> v.kms.screen]
           c == [v.scanout EXCEPT !.owned = @ \cup ({fb} \ {None}),
                                  !.atomicInFlight = IF Atomic THEN ~sync ELSE @]
           u == [v.update EXCEPT !.lastCommitSync = IF Atomic THEN sync ELSE @]
           owned == [v EXCEPT !.scanout = c, !.update = u, !.kms = kms]
           taken == IF web THEN AdvancePending(owned, "Submitted") ELSE owned
<1>1. /\ v \in ViewType /\ {Atomic, SyncCommit, CopyPath} \subseteq BOOLEAN
      /\ v.scanout \in ScanoutType /\ v.update \in UpdateType /\ v.kms \in KMSType
  BY QueueAssumption DEF Consistent, ViewType
<1>2. \/ r = [v |-> v, ok |-> FALSE] /\ ~web /\ fb = None
      \/ r = [v |-> aborted, ok |-> web]
      \/ r = [v |-> taken, ok |-> TRUE]
  <2>1. owned = [v EXCEPT !.scanout = c,
                          !.update.lastCommitSync = IF Atomic THEN sync ELSE @, !.kms = kms]
    BY <1>1 DEF ViewType
  <2> DEFINE t == [v EXCEPT !.scanout = c,
                          !.update.lastCommitSync = IF Atomic THEN sync ELSE @, !.kms = kms]
             tt == IF web THEN AdvancePending(t, "Submitted") ELSE t
  <2>2. CommitTargets(v, fb) \subseteq
          {IF v.queue.pendingBuffer = None /\ ~Atomic /\ fb = None
             THEN [v |-> v, ok |-> FALSE] ELSE [v |-> aborted, ok |-> web],
           [v |-> tt, ok |-> TRUE]}
    <3> HIDE DEF aborted, tt
    <3> QED BY DEF CommitTargets, aborted, tt
  <2>3. tt = taken
    BY <2>1
  <2> HIDE DEF aborted, tt, taken, web
  <2> QED BY <2>2, <2>3 DEF web
<1>3. CASE r = [v |-> v, ok |-> FALSE] /\ ~web /\ fb = None
  <2>1. NoFrame(v) /\ Kept(v, v)
    BY <1>3 DEF NoFrame, Kept, OnItsWay
  <2>2. Screened(v)
    BY <1>3 DEF Idle, Screened, Owns, Shows
  <2> QED BY <1>3, <2>1, <2>2 DEF Decided, Nothing, Idle
<1>4. CASE r = [v |-> aborted, ok |-> web]
  <2>1. Consistent(a) /\ a.update.dropped = web
    BY AbortConsistent
  <2>2. /\ Books(a) /\ Kept(v, a) /\ NoFrame(a)
        /\ a.queue.committedBuffer = v.queue.committedBuffer
        /\ a.update.lastCommitSync = v.update.lastCommitSync
        /\ a.kms = v.kms
        /\ a.scanout.pending = None /\ a.scanout.committed = v.scanout.committed
        /\ a.scanout.owned = v.scanout.owned
    BY AbortPhase DEF NoFrame, OnItsWay
  <2> HIDE DEF a
  <2>3. /\ SameCore(a, aborted) /\ aborted.scanout = a.scanout /\ aborted.kms = a.kms
        /\ ~aborted.update.lastCommitSync
        /\ aborted.update.fenceWait = a.update.fenceWait
        /\ aborted.update.throttleSource = a.update.throttleSource
        /\ aborted.update.cursorTimer = a.update.cursorTimer
    BY <1>1, <2>1, <2>2 DEF Consistent, ViewType, UpdateType, SameCore
  <2> HIDE DEF aborted
  <2>4. Books(aborted) /\ Kept(v, aborted) /\ NoFrame(aborted)
    BY <2>2, <2>3 DEF Books, Kept, NoFrame, NoFence, SameCore, Fenced
  <2>5. ~aborted.kms.busy /\ Screened(aborted)
    BY <2>2, <2>3 DEF Idle, Screened, Owns, Shows
  <2>6. Nothing(aborted, web)
    BY <2>1, <2>3, <2>4, <2>5 DEF Nothing, SameCore
  <2> QED BY <1>4, <2>2, <2>3, <2>4, <2>6 DEF Decided, SameCore
<1>5. CASE r = [v |-> taken, ok |-> TRUE]
  <2>1. /\ c \in ScanoutType /\ c.pending = v.scanout.pending
        /\ c.committed = v.scanout.committed /\ c.owned = v.scanout.owned \cup ({fb} \ {None})
    BY <1>1 DEF ScanoutType
  <2>2. kms \in KMSType
    BY <1>1 DEF KMSType
  <2>3. u \in UpdateType /\ u.lastCommitSync = sync /\ u.flags = v.update.flags
        /\ u.dropped = v.update.dropped /\ u.fenceWait = v.update.fenceWait
        /\ u.throttleSource = v.update.throttleSource /\ u.cursorTimer = v.update.cursorTimer
    BY <1>1 DEF UpdateType
  <2>4. \/ sync /\ ~kms.busy /\ kms.next = None /\ kms.screen = fb
        \/ ~sync /\ kms.busy /\ kms.next = fb /\ kms.screen = v.kms.screen
    OBVIOUS
  <2>5. sync \in BOOLEAN
    BY <1>1
  <2> HIDE DEF c, kms, u, sync
  <2>6. /\ owned \in ViewType /\ owned.queue = v.queue /\ owned.fences = v.fences
        /\ owned.ledger = v.ledger /\ owned.fault = v.fault /\ owned.disposed = v.disposed
        /\ owned.scanout = c /\ owned.update = u /\ owned.kms = kms
    BY <1>1, <2>1, <2>2, <2>3 DEF ViewType
  <2> HIDE DEF owned
  <2>7. /\ taken.fences = v.fences /\ taken.ledger = v.ledger /\ taken.fault = v.fault
        /\ taken.disposed = v.disposed
        /\ taken.scanout = c /\ taken.update = u /\ taken.kms = kms
        /\ taken.queue.queuedBuffer = v.queue.queuedBuffer
        /\ taken.queue.queuedTicket = v.queue.queuedTicket
        /\ taken.queue.geometryEpoch = v.queue.geometryEpoch
        /\ taken.queue.pendingBuffer = v.queue.pendingBuffer
        /\ taken.queue.committedBuffer = v.queue.committedBuffer
        /\ ~web => taken.queue = v.queue
        /\ web => /\ taken.queue.pendingTicket.phase = "Submitted"
                  /\ taken.queue.pendingTicket.epoch = v.queue.pendingTicket.epoch
    <3>1. CASE ~web
      BY <2>6, <3>1
    <3>2. CASE web
      <4>1. "Submitted" \in FramePhase
            /\ CanAdvance(owned.queue.pendingTicket.phase, "Submitted")
        BY <2>6, <3>2 DEF FramePhase, CanAdvance, NoFrame, OnItsWay
      <4> DEFINE w == AdvancePending(owned, "Submitted")
      <4>2. /\ w.scanout = owned.scanout /\ w.kms = owned.kms /\ w.chrome = owned.chrome
         /\ w.fences = owned.fences /\ w.update = owned.update /\ w.fault = owned.fault
         /\ w.disposed = owned.disposed /\ w.ledger = owned.ledger
         /\ w.queue.queuedBuffer = owned.queue.queuedBuffer
         /\ w.queue.queuedTicket = owned.queue.queuedTicket
         /\ w.queue.geometryEpoch = owned.queue.geometryEpoch
         /\ w.queue.pendingBuffer = owned.queue.pendingBuffer
         /\ w.queue.committedBuffer = owned.queue.committedBuffer
         /\ w.queue.pendingTicket.epoch = owned.queue.pendingTicket.epoch
         /\ w.queue.pendingTicket.phase = "Submitted"
        BY <2>6, <4>1, AdvanceFences
      <4> HIDE DEF w
      <4> QED BY <2>6, <3>2, <4>2 DEF w
    <3> QED BY <3>1, <3>2
  <2> HIDE DEF taken
  <2>8. Books(taken) /\ Kept(v, taken)
    BY <2>3, <2>7 DEF Books, Kept, Fenced
  <2>9. NoFrame(taken) \/ Flips(taken)
    <3>1. CASE ~web
      BY <2>3, <2>7, <3>1 DEF NoFrame, NoFence, OnItsWay
    <3>2. CASE web
      BY <2>1, <2>3, <2>7, <3>2 DEF NoFrame, NoFence, OnItsWay, Flips
    <3> QED BY <3>1, <3>2
  <2>10. Shows(taken) = fb
    BY <2>1, <2>7 DEF Shows
  <2>11. Current(taken)
    BY <2>7 DEF Current
  <2>12. CASE sync
    <3>1. taken.kms.screen = fb /\ ~taken.kms.busy /\ taken.kms.next = None
      BY <2>4, <2>7, <2>12
    <3>2. taken.scanout.owned = {v.scanout.committed, fb} \ {None}
      BY <2>1, <2>7 DEF Idle
    <3>3. Due(taken) /\ taken.update.lastCommitSync
      BY <2>1, <2>3, <2>7, <2>10, <2>12, <3>1, <3>2 DEF Due
    <3> QED BY <1>5, <2>3, <2>7, <2>8, <2>9, <2>11, <3>3 DEF Decided, Committed
  <2>13. CASE ~sync
    <3>1. taken.kms.screen = v.kms.screen /\ taken.kms.busy /\ taken.kms.next = fb
      BY <2>4, <2>7, <2>13
    <3>2. taken.scanout.owned = {taken.kms.screen, taken.kms.next} \ {None}
      BY <2>1, <2>7, <3>1 DEF Idle
    <3>3. Screened(taken) /\ ~taken.update.lastCommitSync
      BY <2>1, <2>3, <2>7, <2>10, <2>13, <3>1, <3>2 DEF Screened, Owns, Idle
    <3> QED BY <1>5, <2>3, <2>7, <2>8, <2>9, <2>11, <3>1, <3>3 DEF Decided, Committed
  <2> QED BY <2>12, <2>13
<1> QED BY <1>2, <1>3, <1>4, <1>5

(* So does a target that was, or was not, obtained.                         *)
LEMMA SubmitTargetDecided ==
  ASSUME NEW v, Consistent(v), Books(v), Idle(v), v.scanout.pending = None,
         ~v.update.lastCommitSync, Current(v), NoFrame(v) \/ OnItsWay(v, "Preparing"),
         NEW t, TargetOf(v, t), DrawnOf(v, t), NEW r \in SubmitTarget(t)
  PROVE  Decided(v, r)
<1> DEFINE web == t.v.queue.pendingBuffer # None
           a == AbortPending(t.v)
           ready == IF web THEN AdvancePending(t.v, "Ready") ELSE t.v
           w == [ready EXCEPT !.scanout.pending = t.fb]
<1>1. t.v \in ViewType /\ SameCore(v, t.v) /\ t.fb \in Targets \cup {None}
      /\ Consistent(t.v) /\ t.v.kms = v.kms
  BY CoreConsistent DEF TargetOf
<1>2. Books(t.v) /\ Kept(v, t.v) /\ Idle(t.v) /\ ~t.v.update.lastCommitSync
      /\ t.v.scanout.pending = None
  BY <1>1 DEF SameCore, DrawnOf, Books, Kept, Idle, Fenced
<1>3. NoFrame(t.v) \/ OnItsWay(t.v, "Preparing")
  BY <1>1 DEF SameCore, DrawnOf, NoFrame, OnItsWay, NoFence
<1>6. Current(t.v) /\ t.v.queue = v.queue
  BY <1>1 DEF SameCore, Current
<1>4. CASE t.fb = None
  <2>1. r = [v |-> a, ok |-> web]
    BY <1>4 DEF SubmitTarget
  <2>2. a.update.dropped = web
    BY <1>1, AbortConsistent
  <2>3. /\ Books(a) /\ Kept(t.v, a) /\ NoFrame(a)
        /\ a.queue.committedBuffer = t.v.queue.committedBuffer
        /\ a.update.lastCommitSync = t.v.update.lastCommitSync
        /\ a.kms = t.v.kms
        /\ a.scanout.pending = None /\ a.scanout.committed = t.v.scanout.committed
        /\ a.scanout.owned = t.v.scanout.owned
    BY <1>1, <1>2, <1>3, AbortPhase DEF NoFrame, OnItsWay
  <2> HIDE DEF a, web
  <2>4. Nothing(a, web)
    BY <1>2, <2>2, <2>3 DEF Nothing, Screened, Idle, Owns
  <2> QED BY <1>1, <1>2, <1>6, <2>1, <2>3, <2>4 DEF Decided, Kept, SameCore, web
<1>5. CASE t.fb # None
  <2>1. r \in CommitTargets(w, t.fb)
    BY <1>5 DEF SubmitTarget
  <2>2. /\ ready \in ViewType /\ ready.kms = t.v.kms /\ ready.scanout = t.v.scanout
        /\ ready.fences = t.v.fences /\ ready.update = t.v.update /\ ready.fault = t.v.fault
        /\ ready.disposed = t.v.disposed /\ ready.ledger = t.v.ledger
        /\ ready.queue.queuedBuffer = t.v.queue.queuedBuffer
        /\ ready.queue.queuedTicket = t.v.queue.queuedTicket
        /\ ready.queue.geometryEpoch = t.v.queue.geometryEpoch
        /\ ready.queue.pendingBuffer = t.v.queue.pendingBuffer
        /\ ready.queue.committedBuffer = t.v.queue.committedBuffer
        /\ ~web => ready = t.v
        /\ web => /\ ready.queue.pendingTicket.phase = "Ready"
                  /\ ready.queue.pendingTicket.epoch = t.v.queue.pendingTicket.epoch
    <3>1. CASE ~web
      BY <1>1, <3>1
    <3>2. CASE web
      <4>1. "Ready" \in FramePhase /\ CanAdvance(t.v.queue.pendingTicket.phase, "Ready")
        BY <1>3, <3>2 DEF FramePhase, CanAdvance, NoFrame, OnItsWay
      <4> QED BY <1>1, <3>2, <4>1, AdvanceFences
    <3> QED BY <3>1, <3>2
  <2>3. Consistent(ready)
    BY <1>1, AdvanceConsistent DEF FramePhase
  <2> HIDE DEF ready
  <2>4. /\ w \in ViewType /\ SameCore(ready, w) /\ w.update = ready.update /\ w.kms = ready.kms
        /\ w.scanout.pending = t.fb /\ w.scanout.committed = ready.scanout.committed
        /\ w.scanout.owned = ready.scanout.owned
    BY <1>1, <2>2 DEF ViewType, ScanoutType, SameCore
  <2> HIDE DEF w
  <2>5. Consistent(w)
    BY <2>3, <2>4, CoreConsistent
  <2>6. Books(w) /\ Kept(t.v, w) /\ Idle(w) /\ ~w.update.lastCommitSync /\ Shows(w) = t.fb
    BY <1>2, <1>5, <2>2, <2>4 DEF SameCore, Books, Kept, Idle, Fenced, Shows
  <2>7. NoFrame(w) \/ (OnItsWay(w, "Ready") /\ w.scanout.pending # None)
    BY <1>3, <1>5, <2>2, <2>4 DEF SameCore, NoFrame, OnItsWay, NoFence
  <2>10. Current(w) /\ w.queue.pendingBuffer = t.v.queue.pendingBuffer
    BY <1>6, <2>2, <2>4 DEF SameCore, Current
  <2>8. Decided(w, r)
    BY <1>1, <2>1, <2>5, <2>6, <2>7, <2>10, CommitTargetsDecided
  <2>9. Kept(v, w) /\ w.queue.committedBuffer = v.queue.committedBuffer
        /\ w.update.dropped = v.update.dropped
    BY <1>1, <1>2, <2>2, <2>4, <2>6 DEF SameCore, Kept
  <2> QED BY <1>6, <2>8, <2>9, <2>10 DEF Decided, Kept
<1> QED BY <1>4, <1>5

(* A chrome redraw, or the screen committed again.                          *)
LEMMA UpdateChromeDecided ==
  ASSUME NEW v, Asked(v), v.queue.pendingBuffer = None, NEW r \in UpdateChrome(v)
  PROVE  Decided(v, r)
<1> DEFINE b == v.queue.committedBuffer
           page == v.queue.committedTicket.serial
<1>1. v \in ViewType /\ v.scanout.committed \in Targets \cup {None} /\ page \in Nat
      /\ FALSE \in BOOLEAN /\ b \in Buffers \cup {None}
  BY DEF Asked, Consistent, ViewType, ScanoutType, QueueType, Ticket
<1>2. NoFrame(v) /\ Shows(v) = v.scanout.committed /\ Current(v)
  BY DEF Asked, Shows, Current
<1>3. \/ r \in CommitTargets(v, v.scanout.committed)
      \/ \E t \in OverlayTargets(v) : r \in SubmitTarget(t)
      \/ b # None /\ \E t \in RenderTargets(v, b, page, FALSE) : r \in SubmitTarget(t)
  BY DEF UpdateChrome
<1>4. CASE r \in CommitTargets(v, v.scanout.committed)
  BY <1>1, <1>2, <1>4, CommitTargetsDecided DEF Asked
<1>5. CASE \E t \in OverlayTargets(v) : r \in SubmitTarget(t)
  BY <1>1, <1>2, <1>5, OverlayTargetsType, OverlayTargetsDrawn, SubmitTargetDecided DEF Asked
<1>6. CASE b # None /\ \E t \in RenderTargets(v, b, page, FALSE) : r \in SubmitTarget(t)
  <2>1. PICK t \in RenderTargets(v, b, page, FALSE) : r \in SubmitTarget(t)
    BY <1>6
  <2>2. TargetOf(v, t) /\ DrawnOf(v, t)
    BY <1>1, <1>6, <2>1, RenderTargetsType, RenderTargetsDrawn
  <2> QED BY <1>2, <2>1, <2>2, SubmitTargetDecided DEF Asked
<1> QED BY <1>3, <1>4, <1>5, <1>6

(* A web frame waits for its fence, is dropped, or is rendered and submitted *)
(* once the GPU is done with it.                                            *)
LEMMA UpdateWebFrameDecided ==
  ASSUME NEW v, Asked(v), v.queue.pendingBuffer # None,
         v.queue.pendingTicket.epoch = v.queue.geometryEpoch, NEW r \in UpdateWebFrame(v)
  PROVE  Decided(v, r)
<1> DEFINE b == v.queue.pendingBuffer
           f == [v.fences EXCEPT !.pending = b \in v.fences.held, !.held = @ \ {b}, !.taken = TRUE]
           w == IF v.fences.taken THEN v ELSE [v EXCEPT !.fences = f]
           g == [w.fences EXCEPT !.pending = FALSE, !.taken = FALSE]
           x == [w EXCEPT !.fences = g]
           prepared == AdvancePending(x, "Preparing")
           y == IF w.update.fenceWait THEN w ELSE AdvancePending(w, "WaitingFence")
           u == [w.update EXCEPT !.fenceWait = TRUE, !.lastCommitSync = FALSE]
           waits == [y EXCEPT !.update = u]
           page == w.queue.pendingTicket.serial
           state == IF FenceNeeded THEN ProbeFence(w, w.fences.pending, b) ELSE "Ready"
<1>1. /\ v \in ViewType /\ b \in Buffers
      /\ "Preparing" \in FramePhase /\ "WaitingFence" \in FramePhase
      /\ v.fences \in FencesType
      /\ \A z \in {v.queue.queuedBuffer, v.queue.committedBuffer} \ {None} : z # b
  BY DEF Asked, Consistent, ViewType, QueueType, FramePhase, Owned
<1>2. /\ w \in ViewType /\ w.queue = v.queue /\ w.update = v.update /\ w.ledger = v.ledger
      /\ w.fault = v.fault /\ w.disposed = v.disposed /\ w.kms = v.kms /\ w.scanout = v.scanout
      /\ w.fences.quarantine = v.fences.quarantine /\ w.fences.work = v.fences.work
      /\ w.fences.taken
      /\ \A z \in Buffers \ {b} : z \in w.fences.held <=> z \in v.fences.held
      /\ ~v.fences.taken => w.fences.pending = (b \in v.fences.held)
  <2>1. f \in FencesType /\ f.quarantine = v.fences.quarantine /\ f.work = v.fences.work
        /\ f.taken /\ f.held = v.fences.held \ {b} /\ f.pending = (b \in v.fences.held)
    <3>1. (b \in v.fences.held) \in BOOLEAN
      OBVIOUS
    <3> QED BY <1>1, <3>1 DEF FencesType
  <2> HIDE DEF f
  <2> QED BY <1>1, <2>1 DEF ViewType
<1> HIDE DEF w
<1>3. Consistent(w) /\ Books(w) /\ Kept(v, w)
  <2>1. Consistent(w)
    BY <1>2 DEF Asked, Consistent, Owned, Held, ReportsDue
  <2>2. \A z \in {v.queue.queuedBuffer, v.queue.committedBuffer} \ {None} : z \in Buffers \ {b}
    BY <1>1 DEF ViewType, QueueType
  <2>3. Books(w)
    BY <1>2, <2>2 DEF Asked, Books, Fenced
  <2> QED BY <1>2, <2>1, <2>3 DEF Kept
<1>4. state \in {"Pending", "Failed", "Ready"}
  BY <1>1, <1>2 DEF ProbeFence, ViewType, FencesType
<1>5. UpdateWebFrame(v) =
          CASE state = "Pending" -> {[v |-> waits, ok |-> TRUE]}
            [] state = "Failed" -> {[v |-> AbortPending(w), ok |-> TRUE]}
            [] state = "Ready" ->
                 UNION {SubmitTarget(t) : t \in RenderTargets(prepared, b, page, FALSE)}
  BY DEF UpdateWebFrame, waits, w, prepared, x, y, state
<1>6. CASE state = "Pending"
  <2>1. FenceNeeded /\ w.fences.pending /\ w.fences.work[b] = "Pending"
    BY <1>6 DEF ProbeFence
  <2>2. v.queue.pendingTicket.phase = "Queued" /\ ~w.update.fenceWait
    BY <1>2, <2>1 DEF Asked, NoFrame
  <2>3. CanAdvance(w.queue.pendingTicket.phase, "WaitingFence")
    BY <1>2, <2>2 DEF CanAdvance
  <2>4. /\ y \in ViewType
        /\ y.scanout = w.scanout /\ y.kms = w.kms
        /\ y.fences = w.fences /\ y.update = w.update /\ y.fault = w.fault
        /\ y.disposed = w.disposed /\ y.ledger = w.ledger
        /\ y.queue.queuedBuffer = w.queue.queuedBuffer
        /\ y.queue.queuedTicket = w.queue.queuedTicket
        /\ y.queue.geometryEpoch = w.queue.geometryEpoch
        /\ y.queue.pendingBuffer = w.queue.pendingBuffer
        /\ y.queue.committedBuffer = w.queue.committedBuffer
        /\ y.queue.pendingTicket.phase = "WaitingFence"
    BY <1>1, <1>2, <2>2, <2>3, AdvanceFences
  <2> HIDE DEF y
  <2>5. /\ u.fenceWait /\ ~u.lastCommitSync /\ u.flags = w.update.flags
        /\ u.throttleSource = w.update.throttleSource /\ u.cursorTimer = w.update.cursorTimer
        /\ u.dropped = w.update.dropped
    BY <1>2 DEF ViewType, UpdateType
  <2> HIDE DEF u
  <2>6. /\ waits.update = u /\ waits.queue = y.queue /\ waits.fences = y.fences
        /\ waits.scanout = y.scanout /\ waits.kms = y.kms /\ waits.ledger = y.ledger
        /\ waits.fault = y.fault /\ waits.disposed = y.disposed
    BY <2>4 DEF ViewType
  <2>7. r = [v |-> waits, ok |-> TRUE]
    BY <1>5, <1>6
  <2> HIDE DEF waits
  <2>8. Books(waits) /\ Kept(v, waits)
    BY <1>2, <1>3, <2>4, <2>5, <2>6 DEF Books, Kept, Fenced
  <2>9. Screened(waits)
    BY <1>2, <2>4, <2>6 DEF Asked, Idle, Screened, Owns, Shows
  <2>10. FenceWaits(waits)
    BY <1>2, <2>1, <2>4, <2>5, <2>6 DEF FenceWaits, Asked, Idle
  <2> QED BY <1>2, <2>4, <2>5, <2>6, <2>7, <2>8, <2>9, <2>10 DEF Decided, Waits
<1>7. CASE state = "Failed"
  <2> DEFINE a == AbortPending(w)
  <2>1. r = [v |-> a, ok |-> TRUE]
    BY <1>5, <1>7
  <2>2. w.fences.work[b] = "Failed" /\ w.queue.pendingBuffer = b
    BY <1>2, <1>7 DEF ProbeFence
  <2>3. a.update.dropped = (w.queue.pendingBuffer # None)
    BY <1>3, AbortConsistent
  <2>4. /\ Books(a) /\ Kept(w, a) /\ NoFrame(a)
        /\ a.queue.committedBuffer = w.queue.committedBuffer
        /\ a.update.lastCommitSync = w.update.lastCommitSync
        /\ a.kms = w.kms
        /\ a.scanout.pending = None /\ a.scanout.committed = w.scanout.committed
        /\ a.scanout.owned = w.scanout.owned
    BY <1>3, <2>2, AbortPhase
  <2> HIDE DEF a
  <2>5. Nothing(a, TRUE)
    <3>1. a.update.dropped /\ ~a.update.lastCommitSync /\ ~a.kms.busy
      BY <1>2, <2>3, <2>4 DEF Asked, Idle
    <3>2. Screened(a)
      BY <1>2, <2>4 DEF Asked, Idle, Screened, Owns
    <3> QED BY <2>4, <3>1, <3>2 DEF Nothing
  <2>6. Kept(v, a)
    BY <1>3, <2>4 DEF Kept
  <2> QED BY <1>2, <2>1, <2>4, <2>5, <2>6 DEF Decided
<1>8. CASE state = "Ready"
  <2>1. PICK t \in RenderTargets(prepared, b, page, FALSE) : r \in SubmitTarget(t)
    <3> HIDE DEF state, prepared, waits, page
    <3> QED BY <1>5, <1>8
  <2>2. FenceNeeded => w.fences.work[b] # "Pending"
    BY <1>2, <1>8 DEF ProbeFence, Asked, NoFrame, NoFence, Fenced
  <2> HIDE DEF state
  <2>3. g \in FencesType /\ g.quarantine = w.fences.quarantine /\ g.work = w.fences.work
        /\ ~g.pending /\ ~g.taken /\ g.held = w.fences.held
    BY <1>2 DEF ViewType, FencesType
  <2> HIDE DEF g
  <2>4. /\ x \in ViewType /\ x.queue = w.queue /\ x.update = w.update /\ x.ledger = w.ledger
        /\ x.fault = w.fault /\ x.disposed = w.disposed /\ x.fences = g
        /\ x.kms = w.kms /\ x.scanout = w.scanout
    BY <1>2, <2>3 DEF ViewType
  <2> HIDE DEF x
  <2>5. Consistent(x)
    BY <1>3, <2>3, <2>4 DEF Consistent, Owned, Held, ReportsDue
  <2>6. Consistent(prepared)
    BY <1>1, <2>5, AdvanceConsistent
  <2>7. CanAdvance(x.queue.pendingTicket.phase, "Preparing")
    BY <1>2, <2>4 DEF Asked, NoFrame, CanAdvance
  <2>8. /\ prepared \in ViewType
        /\ prepared.scanout = x.scanout /\ prepared.kms = x.kms
        /\ prepared.fences = x.fences /\ prepared.update = x.update /\ prepared.fault = x.fault
        /\ prepared.disposed = x.disposed /\ prepared.ledger = x.ledger
        /\ prepared.queue.queuedBuffer = x.queue.queuedBuffer
        /\ prepared.queue.queuedTicket = x.queue.queuedTicket
        /\ prepared.queue.geometryEpoch = x.queue.geometryEpoch
        /\ prepared.queue.pendingBuffer = x.queue.pendingBuffer
        /\ prepared.queue.committedBuffer = x.queue.committedBuffer
        /\ prepared.queue.pendingTicket.epoch = x.queue.pendingTicket.epoch
        /\ prepared.queue.pendingTicket.phase = "Preparing"
    BY <1>1, <2>4, <2>7, AdvanceFences
  <2> HIDE DEF prepared
  <2>9. page \in Nat /\ FALSE \in BOOLEAN
    BY <1>2 DEF ViewType, QueueType, Ticket
  <2> HIDE DEF page
  <2>10. TargetOf(prepared, t) /\ DrawnOf(prepared, t)
    BY <1>1, <2>1, <2>8, <2>9, RenderTargetsType, RenderTargetsDrawn
  <2>11. Books(prepared) /\ Kept(v, prepared)
    BY <1>2, <1>3, <2>3, <2>4, <2>8 DEF Books, Kept, Fenced
  <2>12. Idle(prepared) /\ prepared.scanout.pending = None /\ ~prepared.update.lastCommitSync
    BY <1>2, <2>4, <2>8 DEF Asked, Idle
  <2>13. OnItsWay(prepared, "Preparing") /\ Current(prepared)
    BY <1>2, <2>2, <2>3, <2>4, <2>8 DEF OnItsWay, NoFence, Asked, Current
  <2>14. Decided(prepared, r)
    BY <2>1, <2>6, <2>10, <2>11, <2>12, <2>13, SubmitTargetDecided
  <2>15. prepared.queue.committedBuffer = v.queue.committedBuffer
         /\ prepared.update.dropped = v.update.dropped
         /\ prepared.queue.pendingBuffer = v.queue.pendingBuffer
    BY <1>2, <2>4, <2>8
  <2> QED BY <2>11, <2>14, <2>15 DEF Decided, Kept
<1> QED BY <1>4, <1>6, <1>7, <1>8

(* wpeViewDRMRequestUpdate, all cases: no assertion fails, nothing that the  *)
(* GPU still draws is submitted or given back, and a frame of an older      *)
(* geometry is dropped.                                                     *)
LEMMA RequestUpdateDecided ==
  ASSUME NEW v, Asked(v), NEW r \in RequestUpdate(v)
  PROVE  Decided(v, r)
<1>1. CASE v.queue.pendingBuffer = None
  BY <1>1, UpdateChromeDecided DEF RequestUpdate
<1>2. CASE v.queue.pendingBuffer # None /\ v.queue.pendingTicket.epoch # v.queue.geometryEpoch
  <2> DEFINE a == AbortPending(v)
  <2>1. r = [v |-> a, ok |-> TRUE]
    BY <1>2 DEF RequestUpdate
  <2>2. a.update.dropped = (v.queue.pendingBuffer # None)
    BY AbortConsistent DEF Asked
  <2>3. /\ Books(a) /\ Kept(v, a) /\ NoFrame(a)
        /\ a.queue.committedBuffer = v.queue.committedBuffer
        /\ a.update.lastCommitSync = v.update.lastCommitSync
        /\ a.kms = v.kms
        /\ a.scanout.pending = None /\ a.scanout.committed = v.scanout.committed
        /\ a.scanout.owned = v.scanout.owned
    BY <1>2, AbortPhase DEF Asked, NoFrame, Fenced
  <2> HIDE DEF a
  <2>4. Nothing(a, TRUE)
    BY <1>2, <2>2, <2>3 DEF Nothing, Asked, Idle, Screened, Owns
  <2> QED BY <1>2, <2>1, <2>3, <2>4 DEF Decided
<1>3. CASE v.queue.pendingBuffer # None /\ v.queue.pendingTicket.epoch = v.queue.geometryEpoch
  BY <1>3, UpdateWebFrameDecided DEF RequestUpdate
<1> QED BY <1>1, <1>2, <1>3

(* A commit that was accepted, or a fence that is waited for, is accounted   *)
(* for by the flag; a synchronous commit finishes at once.                  *)
LEMMA ShownCalm ==
  ASSUME NEW v, Consistent(v), Books(v), Waits(v) \/ Committed(v),
         NEW w, w = CompleteSynchronous([v EXCEPT !.update.flags = @ \cup {"BufferUpdateRequested"}])
  PROVE  /\ Calm(w) /\ Fresh(w) /\ Kept(v, w)
         /\ v.update.flags \ {"BufferUpdateRequested"} \subseteq w.update.flags
<1> DEFINE s == [v EXCEPT !.update.flags = @ \cup {"BufferUpdateRequested"}]
           u == [s.update EXCEPT !.lastCommitSync = FALSE, !.flags = @ \ {"BufferUpdateRequested"}]
           x == [s EXCEPT !.update = u]
<1>1. v \in ViewType
  BY DEF Consistent
<1>2. /\ s \in ViewType /\ s.queue = v.queue /\ s.fences = v.fences /\ s.ledger = v.ledger
      /\ s.fault = v.fault /\ s.disposed = v.disposed /\ s.scanout = v.scanout /\ s.kms = v.kms
      /\ s.update.flags = v.update.flags \cup {"BufferUpdateRequested"}
      /\ s.update.fenceWait = v.update.fenceWait
      /\ s.update.lastCommitSync = v.update.lastCommitSync
      /\ s.update.throttleSource = v.update.throttleSource
      /\ s.update.cursorTimer = v.update.cursorTimer
  BY <1>1 DEF ViewType, UpdateType, UpdateFlags
<1>3. w = CompleteSynchronous(s)
  OBVIOUS
<1> HIDE DEF s
<1>4. Books(s) /\ Kept(v, s)
  BY <1>2 DEF Books, Kept, Fenced, FrameFlags
<1>5. CASE ~v.update.lastCommitSync
  <2>1. w = s
    BY <1>2, <1>3, <1>5 DEF CompleteSynchronous
  <2>2. Screened(s)
    BY <1>2, <1>5 DEF Waits, Committed, Screened, Owns, Shows
  <2>3. CASE Waits(v)
    <3>1. FenceWaits(s)
      BY <1>2, <2>3 DEF Waits, FenceWaits
    <3>2. Calm(s)
      BY <1>2, <1>4, <1>5, <2>2, <3>1 DEF Calm, FenceWaits
    <3> QED BY <1>2, <1>4, <2>1, <3>1, <3>2 DEF Fresh, FenceWaits
  <2>4. CASE Committed(v)
    <3>1. NoFrame(s) \/ Flips(s)
      BY <1>2, <2>4 DEF Committed, NoFrame, Flips, OnItsWay, NoFence
    <3>2. s.kms.busy
      BY <1>2, <1>5, <2>4 DEF Committed
    <3>3. Calm(s)
      BY <1>2, <1>4, <1>5, <2>2, <3>1, <3>2 DEF Calm
    <3>4. Fresh(s)
      BY <1>2, <2>4, <3>1 DEF Committed, Current, Fresh, NoFrame, NoTicket, Flips, OnItsWay
    <3> QED BY <1>2, <1>4, <2>1, <3>3, <3>4
  <2> QED BY <2>3, <2>4
<1>6. CASE v.update.lastCommitSync
  <2>1. Committed(v) /\ Due(v)
    BY <1>6 DEF Waits, Committed
  <2>2. w = FinishBufferCommit(x)
    BY <1>2, <1>3, <1>6 DEF CompleteSynchronous
  <2>3. /\ u \in UpdateType /\ ~u.lastCommitSync
        /\ u.flags = s.update.flags \ {"BufferUpdateRequested"}
        /\ u.fenceWait = s.update.fenceWait
        /\ u.throttleSource = s.update.throttleSource /\ u.cursorTimer = s.update.cursorTimer
    BY <1>2 DEF ViewType, UpdateType
  <2> HIDE DEF u
  <2>4. /\ x \in ViewType /\ x.queue = v.queue /\ x.fences = v.fences /\ x.ledger = v.ledger
        /\ x.fault = v.fault /\ x.disposed = v.disposed /\ x.scanout = v.scanout
        /\ x.kms = v.kms /\ x.update = u
    BY <1>2, <2>3 DEF ViewType
  <2> HIDE DEF x
  <2>5. Consistent(x)
    BY <2>4 DEF Consistent, Owned, Held, ReportsDue
  <2>6. Books(x) /\ Kept(v, x)
    BY <1>2, <1>4, <2>3, <2>4 DEF Books, Kept, Fenced
  <2>7. Due(x) /\ NoFence(x)
    BY <1>2, <2>1, <2>3, <2>4 DEF Due, Shows, NoFence, Committed, NoFrame, Flips, OnItsWay
  <2>8. /\ x.queue.pendingBuffer = None => x.queue.pendingTicket = NoTicket
        /\ x.queue.pendingBuffer # None =>
             /\ x.queue.pendingTicket.phase = "Submitted"
             /\ FenceNeeded => x.fences.work[x.queue.pendingBuffer] # "Pending"
    BY <2>1, <2>4 DEF Committed, NoFrame, Flips, OnItsWay
  <2>9. /\ Books(w) /\ Kept(x, w) /\ NoFrame(w) /\ Screened(w)
        /\ w.update = x.update /\ w.kms = x.kms
    BY <2>2, <2>5, <2>6, <2>7, <2>8, FinishPhase
  <2>10. ~w.kms.busy /\ "BufferUpdateRequested" \notin w.update.flags /\ ~w.update.fenceWait
    BY <2>3, <2>4, <2>7, <2>9 DEF Due, NoFrame, NoFence
  <2>11. Calm(w)
    BY <2>3, <2>4, <2>9, <2>10 DEF Calm
  <2>12. Fresh(w)
    BY <2>9 DEF Fresh, NoFrame, NoTicket
  <2>13. Kept(v, w)
    BY <2>6, <2>9 DEF Kept
  <2>14. v.update.flags \ {"BufferUpdateRequested"} \subseteq w.update.flags
    BY <1>2, <2>3, <2>4, <2>9
  <2> QED BY <2>11, <2>12, <2>13, <2>14
<1> QED BY <1>5, <1>6

(* When nothing is under way the flag is clear.                             *)
LEMMA NothingCalm ==
  ASSUME NEW v, NEW ok, Books(v), Nothing(v, ok),
         "BufferUpdateRequested" \notin v.update.flags
  PROVE  Calm(v) /\ Fresh(v)
  BY DEF Nothing, Calm, Fresh, NoFrame, NoFence, NoTicket

(* A fresh frame is waited for, submitted, shown or dropped.                *)
LEMMA SubmitFreshCalm ==
  ASSUME NEW v, Asked(v), "BufferUpdateRequested" \notin v.update.flags,
         NEW w \in SubmitFresh(v)
  PROVE  /\ Calm(w) /\ Fresh(w) /\ Kept(v, w)
         /\ v.update.flags \subseteq w.update.flags
<1> DEFINE x == [v EXCEPT !.update.dropped = FALSE]
           Shown(r) == [r.v EXCEPT !.update.flags = @ \cup {"BufferUpdateRequested"}]
           Dropped(r) == [r.v EXCEPT !.update.dropped = FALSE]
<1>1. Consistent(v) /\ v \in ViewType
  BY DEF Asked, Consistent
<1>2. /\ x \in ViewType /\ x.queue = v.queue /\ x.fences = v.fences
      /\ x.ledger = v.ledger /\ x.fault = v.fault /\ x.disposed = v.disposed
      /\ x.scanout = v.scanout /\ x.kms = v.kms /\ ~x.update.dropped
      /\ x.update.flags = v.update.flags /\ x.update.fenceWait = v.update.fenceWait
      /\ x.update.lastCommitSync = v.update.lastCommitSync
      /\ x.update.throttleSource = v.update.throttleSource
      /\ x.update.cursorTimer = v.update.cursorTimer
  BY <1>1 DEF ViewType, UpdateType
<1>3. PICK r \in RequestUpdate(x) :
        w = IF ~r.ok THEN r.v
            ELSE IF r.v.update.dropped THEN Dropped(r) ELSE CompleteSynchronous(Shown(r))
  BY DEF SubmitFresh, x
<1> HIDE DEF x
<1>4. Consistent(x)
  BY <1>1, <1>2 DEF Consistent, Owned, Held, ReportsDue
<1>5. Asked(x) /\ Kept(v, x)
  <2>1. Books(x) /\ Idle(x)
    BY <1>2 DEF Asked, Books, Idle, Fenced
  <2> QED BY <1>2, <1>4, <2>1 DEF Asked, NoFrame, NoFence, Fenced, Kept
<1>6. Decided(x, r) /\ Answer(x, r)
  BY <1>4, <1>5, RequestUpdateDecided, RequestUpdateAnswer
<1>7. /\ Consistent(r.v) /\ r.v \in ViewType /\ Books(r.v) /\ Kept(v, r.v)
      /\ r.v.update.flags = v.update.flags
  BY <1>2, <1>5, <1>6 DEF Answer, Decided, Consistent, Kept
<1>8. CASE ~r.ok
  <2>1. Nothing(r.v, r.ok) /\ w = r.v
    BY <1>3, <1>6, <1>8 DEF Decided
  <2> QED BY <1>7, <2>1, NothingCalm
<1>9. CASE r.ok /\ r.v.update.dropped
  <2>1. Nothing(r.v, r.ok) /\ w = Dropped(r)
    BY <1>2, <1>3, <1>6, <1>9 DEF Decided
  <2> DEFINE d == Dropped(r)
  <2>2. /\ d.queue = r.v.queue /\ d.fences = r.v.fences
        /\ d.ledger = r.v.ledger /\ d.fault = r.v.fault /\ d.disposed = r.v.disposed
        /\ d.scanout = r.v.scanout /\ d.kms = r.v.kms
        /\ d.update.flags = r.v.update.flags /\ d.update.fenceWait = r.v.update.fenceWait
        /\ d.update.lastCommitSync = r.v.update.lastCommitSync
        /\ d.update.throttleSource = r.v.update.throttleSource
        /\ d.update.cursorTimer = r.v.update.cursorTimer
    BY <1>7 DEF ViewType, UpdateType
  <2> HIDE DEF d
  <2>3. Calm(r.v) /\ Fresh(r.v)
    BY <1>7, <2>1, NothingCalm
  <2>4. Calm(d) /\ Fresh(d)
    BY <2>2, <2>3 DEF Calm, Fresh, Books, Fenced, Screened, Owns, Shows, NoFrame, NoFence,
                      FenceWaits, Flips, OnItsWay
  <2>5. Kept(v, d)
    BY <1>7, <2>2 DEF Kept
  <2> QED BY <1>7, <2>1, <2>2, <2>4, <2>5 DEF d
<1>10. CASE r.ok /\ ~r.v.update.dropped
  <2>1. w = CompleteSynchronous(Shown(r)) /\ (Waits(r.v) \/ Committed(r.v))
    BY <1>3, <1>6, <1>10 DEF Decided, Nothing
  <2>2. /\ Calm(w) /\ Fresh(w) /\ Kept(r.v, w)
        /\ r.v.update.flags \ {"BufferUpdateRequested"} \subseteq w.update.flags
    BY <1>7, <2>1, ShownCalm
  <2>3. Kept(v, w)
    BY <1>7, <2>2 DEF Kept
  <2> QED BY <1>7, <2>2, <2>3
<1> QED BY <1>8, <1>9, <1>10

(* A view is calm whatever becomes of the fields Calm does not mention.     *)
LEMMA CalmStep ==
  ASSUME NEW v, Calm(v), NEW w,
         w.queue.pendingBuffer = v.queue.pendingBuffer,
         w.queue.pendingTicket = v.queue.pendingTicket,
         w.queue.queuedBuffer = v.queue.queuedBuffer,
         w.queue.queuedTicket = v.queue.queuedTicket,
         w.queue.committedBuffer = v.queue.committedBuffer,
         w.fences = v.fences, w.ledger = v.ledger, w.fault = v.fault,
         w.scanout = v.scanout, w.kms = v.kms,
         w.update.flags \subseteq FrameFlags,
         "BufferUpdateRequested" \in w.update.flags <=> "BufferUpdateRequested" \in v.update.flags,
         w.update.fenceWait = v.update.fenceWait,
         w.update.lastCommitSync = v.update.lastCommitSync,
         w.update.cursorTimer = v.update.cursorTimer
  PROVE  Calm(w)
<1>1. Books(w)
  BY DEF Calm, Books, Fenced
<1>2. Screened(w)
  BY DEF Calm, Screened, Owns, Shows
<1>3. NoFrame(v) => NoFrame(w)
  BY DEF NoFrame, NoFence
<1>4. FenceWaits(v) => FenceWaits(w)
  BY DEF FenceWaits
<1>5. Flips(v) => Flips(w)
  BY DEF Flips, OnItsWay, NoFence
<1> QED BY <1>1, <1>2, <1>3, <1>4, <1>5 DEF Calm

(* The flags of an idle view are clear, of a busy one set.                  *)
LEMMA FlagsClear ==
  ASSUME NEW v, Calm(v)
  PROVE  /\ v.update.flags \cap Requested = {} <=> "BufferUpdateRequested" \notin v.update.flags
         /\ v.update.flags \cap Requested = {} =>
              /\ NoFrame(v) /\ Idle(v) /\ v.scanout.pending = None
              /\ ~v.update.lastCommitSync /\ ~v.update.fenceWait
  BY DEF Calm, Books, FrameFlags, Requested, FenceWaits, NoFrame, NoFence, Screened, Idle, Owns

(* What an action must show: the invariant, and NoObsoleteSubmit's step.    *)
Good == PInv' /\ (Submits(view, view') =>
                    view'.queue.pendingTicket.epoch = view'.queue.geometryEpoch)

(* A quiet view satisfies the invariant.                                    *)
LEMMA QuietPInv ==
  ASSUME IInv', Quiet(view'), Fresh(view') \/ view'.queue.pendingTicket = view.queue.pendingTicket
  PROVE  Good
<1>1. view'.fault = "none" /\ (FenceNeeded => view'.ledger.early = {})
  BY DEF Quiet, Calm, Books
<1>2. ScanoutOwned'
  BY DEF Quiet, Calm, Screened, Owns, ScanoutOwned
<1>3. PInv'
  BY <1>1, <1>2 DEF PInv
<1> QED BY <1>3 DEF Good, Submits, Fresh

(* wpeViewDRMCommitQueuedBuffer, called when nothing is under way or left   *)
(* alone.                                                                   *)
LEMMA CommitQueuedCalm ==
  ASSUME NEW v, Calm(v), Settled(v),
         NEW w \in CommitQueuedBuffer(v)
  PROVE  \/ w = v /\ (v.queue.queuedBuffer = None \/ "BufferUpdateRequested" \in v.update.flags)
         \/ Calm(w) /\ Fresh(w) /\ w.queue.queuedBuffer = None
<1> DEFINE q == [v.queue EXCEPT !.pendingBuffer = v.queue.queuedBuffer,
                                !.pendingTicket = v.queue.queuedTicket,
                                !.queuedBuffer = None, !.queuedTicket = NoTicket]
           x == [v EXCEPT !.update.flags = @ \ {"BufferUpdatePending"}, !.queue = q]
<1>1. CASE v.queue.queuedBuffer = None \/ v.update.flags \cap Requested # {}
  BY <1>1, FlagsClear DEF CommitQueuedBuffer
<1>2. CASE ~(v.queue.queuedBuffer = None \/ v.update.flags \cap Requested # {})
  <2>1. w \in SubmitFresh(x)
    BY <1>2 DEF CommitQueuedBuffer, SubmitQueued
  <2>2. /\ v \in ViewType /\ NoFrame(v) /\ Idle(v) /\ v.scanout.pending = None
        /\ ~v.update.lastCommitSync /\ ~v.update.fenceWait
    BY <1>2, FlagsClear DEF Settled, Consistent
  <2>3. /\ q \in QueueType /\ q.pendingBuffer = v.queue.queuedBuffer
        /\ q.pendingTicket = v.queue.queuedTicket
        /\ q.queuedBuffer = None /\ q.queuedTicket = NoTicket
        /\ q.committedBuffer = v.queue.committedBuffer
    <3>1. v.queue.queuedBuffer \in Buffers \cup {None} /\ v.queue.queuedTicket \in Ticket
          /\ NoTicket \in Ticket
      BY <2>2, TicketTypes DEF ViewType, QueueType
    <3> QED BY <2>2, <3>1 DEF ViewType, QueueType
  <2> HIDE DEF q
  <2>4. /\ x \in ViewType /\ x.queue = q /\ x.fences = v.fences /\ x.ledger = v.ledger
        /\ x.fault = v.fault /\ x.disposed = v.disposed /\ x.scanout = v.scanout
        /\ x.kms = v.kms /\ x.update.flags = v.update.flags \ {"BufferUpdatePending"}
        /\ x.update.lastCommitSync = v.update.lastCommitSync
        /\ x.update.fenceWait = v.update.fenceWait
        /\ x.update.cursorTimer = v.update.cursorTimer
    BY <2>2, <2>3 DEF ViewType, UpdateType
  <2> HIDE DEF x
  <2>5. Consistent(x)
    BY <1>2, <2>2, <2>3, <2>4 DEF Settled, Consistent, Owned, Held, ReportsDue, NoFrame
  <2>6. Books(x) /\ Idle(x)
    BY <1>2, <2>2, <2>3, <2>4 DEF Calm, Books, Idle, Fenced
  <2>7. Asked(x)
    <3>1. x.queue.pendingBuffer # None /\ x.queue.pendingTicket.phase = "Queued"
      BY <1>2, <2>3, <2>4 DEF Calm, Books
    <3>2. NoFence(x)
      BY <2>2, <2>4 DEF NoFrame, NoFence
    <3>3. FenceNeeded => Fenced(x, x.queue.pendingBuffer)
      BY <1>2, <2>3, <2>4 DEF Calm, Books, Fenced
    <3> QED BY <2>2, <2>4, <2>5, <2>6, <3>1, <3>2, <3>3 DEF Asked
  <2>8. "BufferUpdateRequested" \notin x.update.flags
    BY <1>2, <2>4, FlagsClear
  <2>9. Calm(w) /\ Fresh(w) /\ Kept(x, w)
    BY <2>1, <2>7, <2>8, SubmitFreshCalm
  <2> QED BY <2>3, <2>4, <2>9 DEF Kept
<1> QED BY <1>1, <1>2

(* refreshContentGeometry leaves the queue, the display and the timers.     *)
LEMMA RefreshQuiet ==
  ASSUME NEW v \in ViewType
  PROVE  LET w == RefreshGeometry(v) IN
         /\ w.queue.queuedTicket = v.queue.queuedTicket
         /\ w.scanout = v.scanout /\ w.kms = v.kms
         /\ w.update.flags = v.update.flags /\ w.update.fenceWait = v.update.fenceWait
         /\ w.update.lastCommitSync = v.update.lastCommitSync
         /\ w.update.cursorTimer = v.update.cursorTimer
         /\ w.update.throttleSource = v.update.throttleSource
  BY DEF RefreshGeometry, ViewType, QueueType, UpdateType

-----------------------------------------------------------------------------
(* While the view runs it is quiet.                                         *)
LEMMA RunningQuiet ==
  ASSUME IInv, PInv, Running
  PROVE  Quiet(view) /\ Settled(view) /\ view \in ViewType
  BY RunningSettled DEF PInv, Running

(* The initial view is quiet.                                               *)
LEMMA InitPInv == Init => PInv
<1> SUFFICES ASSUME Init PROVE PInv
  OBVIOUS
<1>1. Books(view)
  BY DEF Init, Books
<1>2. Screened(view) /\ NoFrame(view)
  BY DEF Init, Screened, Owns, NoFrame, NoFence
<1>3. Quiet(view)
  BY <1>1, <1>2 DEF Init, Quiet, Calm, Armed
<1> QED BY <1>3 DEF Init, PInv, ScanoutOwned

(* GPU work that settles makes every promise about fences easier to keep.   *)
LEMMA GPUSettlesPInv ==
  ASSUME IInv, PInv, NEW b \in Buffers, GPUSettles(b) PROVE Good
<1>1. PICK state \in {"Ready", "Failed"} : view' = [view EXCEPT !.fences.work[b] = state]
  BY DEF GPUSettles
<1>2. view \in ViewType
  BY DEF IInv
<1>3. /\ view'.queue = view.queue /\ view'.update = view.update
      /\ view'.ledger = view.ledger /\ view'.scanout = view.scanout /\ view'.kms = view.kms
      /\ view'.fault = view.fault /\ view'.disposed = view.disposed
      /\ view'.fences.held = view.fences.held /\ view'.fences.taken = view.fences.taken
      /\ view'.fences.pending = view.fences.pending
      /\ \A x \in Buffers : view'.fences.work[x] = "Pending" => view.fences.work[x] = "Pending"
  BY <1>1, <1>2 DEF ViewType, FencesType
<1>4. /\ view.queue.queuedBuffer \in Buffers \cup {None}
      /\ view.queue.pendingBuffer \in Buffers \cup {None}
      /\ view.queue.committedBuffer \in Buffers \cup {None}
  BY <1>2 DEF ViewType, QueueType
<1>5. Books(view) => Books(view')
  BY <1>3, <1>4 DEF Books, Fenced
<1>6. Screened(view) => Screened(view')
  BY <1>3 DEF Screened, Owns, Shows
<1>7. /\ NoFrame(view) => NoFrame(view')
      /\ FenceWaits(view) => FenceWaits(view')
      /\ Flips(view) => Flips(view')
  BY <1>3, <1>4 DEF NoFrame, NoFence, FenceWaits, Flips, OnItsWay
<1>8. Quiet(view) => Quiet(view')
  BY <1>3, <1>5, <1>6, <1>7 DEF Quiet, Calm, Armed
<1>9. PInv'
  BY <1>3, <1>8 DEF PInv, ScanoutOwned
<1> QED BY <1>3, <1>9 DEF Good, Submits

(* A quarantined buffer is released once its fence is done.                 *)
LEMMA QuarantineSettlesPInv ==
  ASSUME IInv, PInv, NEW b \in Buffers, QuarantineSettles(b) PROVE Good
<1> DEFINE x == [view EXCEPT !.fences.quarantine = @ \ {b}]
           w == BufferReleased(x, b)
<1>1. Quiet(view) /\ Settled(view) /\ view \in ViewType
  BY RunningQuiet DEF QuarantineSettles
<1>2. b \notin Held(view) /\ view.fences.work[b] = "Ready" /\ view' = w
  BY <1>1 DEF QuarantineSettles, Settled, Consistent, Owned
<1>3. /\ x \in ViewType /\ x.queue = view.queue /\ x.update = view.update
      /\ x.ledger = view.ledger /\ x.scanout = view.scanout /\ x.kms = view.kms
      /\ x.fault = view.fault /\ x.disposed = view.disposed
      /\ x.fences.held = view.fences.held /\ x.fences.taken = view.fences.taken
      /\ x.fences.pending = view.fences.pending /\ x.fences.work = view.fences.work
  BY <1>1 DEF ViewType, FencesType
<1> HIDE DEF x
<1>4. /\ w.queue = x.queue /\ w.update = x.update /\ w.fault = x.fault
      /\ w.disposed = x.disposed
  BY <1>3, ReleasedEffect
<1>5. /\ w.scanout = x.scanout /\ w.kms = x.kms
      /\ w.fences.held = x.fences.held /\ w.fences.taken = x.fences.taken
      /\ w.fences.pending = x.fences.pending
      /\ \A z \in Buffers \ {b} : w.fences.work[z] = x.fences.work[z]
      /\ w.ledger.early = x.ledger.early
  BY <1>2, <1>3, ReleasedFences
<1> HIDE DEF w
<1>6. \A z \in {view.queue.queuedBuffer, view.queue.pendingBuffer, view.queue.committedBuffer} :
        z # None => z \in Buffers \ {b}
  BY <1>1, <1>2 DEF Held, ViewType, QueueType
<1>7. Books(w)
  BY <1>1, <1>3, <1>4, <1>5, <1>6 DEF Quiet, Calm, Books, Fenced
<1>8. Screened(w)
  BY <1>1, <1>3, <1>5 DEF Quiet, Calm, Screened, Owns, Shows
<1>9. /\ NoFrame(view) => NoFrame(w)
      /\ FenceWaits(view) => FenceWaits(w)
      /\ Flips(view) => Flips(w)
  BY <1>3, <1>4, <1>5, <1>6 DEF NoFrame, NoFence, FenceWaits, Flips, OnItsWay
<1>10. Quiet(w)
  BY <1>1, <1>3, <1>4, <1>5, <1>7, <1>8, <1>9 DEF Quiet, Calm, Armed
<1>11. IInv'
  BY QuarantineSettlesIInv
<1> QED BY <1>2, <1>3, <1>4, <1>10, <1>11, QuietPInv

(* The throttle delay is over.                                              *)
LEMMA ThrottleFiresPInv ==
  ASSUME IInv, PInv, ThrottleFires PROVE Good
<1> DEFINE v == [view EXCEPT !.update.throttleSource = FALSE]
<1>1. Quiet(view) /\ Settled(view) /\ view \in ViewType /\ view' \in CommitQueuedBuffer(v)
  BY RunningQuiet DEF ThrottleFires, ThrottleReady
<1>2. /\ v \in ViewType /\ v.queue = view.queue /\ v.fences = view.fences
      /\ v.ledger = view.ledger /\ v.fault = view.fault /\ v.scanout = view.scanout
      /\ v.kms = view.kms /\ v.update.flags = view.update.flags
      /\ v.update.dropped = view.update.dropped
      /\ v.update.fenceWait = view.update.fenceWait
      /\ v.update.lastCommitSync = view.update.lastCommitSync
      /\ v.update.cursorTimer = view.update.cursorTimer
  BY <1>1 DEF ViewType, UpdateType
<1> HIDE DEF v
<1>3. Settled(v)
  BY <1>1, <1>2, SettledStep
<1>4. Calm(v)
  BY <1>1, <1>2, CalmStep DEF Quiet, Calm, Books
<1>5. IInv'
  BY ThrottleFiresIInv
<1>6. CASE view' = v /\ (v.queue.queuedBuffer = None \/ "BufferUpdateRequested" \in v.update.flags)
  <2>1. Armed(v)
    BY <1>1, <1>2, <1>4, <1>6 DEF Armed, Quiet, Calm
  <2> QED BY <1>2, <1>4, <1>5, <1>6, <2>1, QuietPInv DEF Quiet
<1>7. CASE Calm(view') /\ Fresh(view') /\ view'.queue.queuedBuffer = None
  BY <1>5, <1>7, QuietPInv DEF Quiet, Armed
<1> QED BY <1>1, <1>3, <1>4, <1>6, <1>7, CommitQueuedCalm

(* The flip brings to the screen what the view is about to mark committed.  *)
LEMMA AfterFlipCalm ==
  ASSUME NEW v, Settled(v), Quiet(v), v.kms.busy
  PROVE  LET w == AfterFlip(v) IN
         /\ Calm(w) /\ NoFrame(w) /\ w.update.flags = {}
         /\ w.queue.queuedBuffer = v.queue.queuedBuffer
<1> DEFINE f == Flipped(v)
           w == FinishBufferCommit(f)
           k == [busy |-> FALSE, next |-> None, screen |-> v.kms.next]
<1>1. v \in ViewType /\ "BufferUpdateRequested" \in v.update.flags
  BY DEF Settled, Consistent, Quiet, Calm
<1>2. /\ f \in ViewType /\ f.queue = v.queue /\ f.fences = v.fences /\ f.ledger = v.ledger
      /\ f.fault = v.fault /\ f.disposed = v.disposed /\ f.kms = k
      /\ f.update.flags = {} /\ f.update.fenceWait = v.update.fenceWait
      /\ f.update.lastCommitSync = v.update.lastCommitSync
      /\ f.update.cursorTimer = v.update.cursorTimer
      /\ f.scanout.pending = v.scanout.pending /\ f.scanout.committed = v.scanout.committed
      /\ f.scanout.owned = v.scanout.owned
  <2>1. k \in KMSType
    BY <1>1 DEF ViewType, KMSType
  <2>2. f = [v EXCEPT !.kms = k, !.scanout.atomicInFlight = FALSE, !.update.flags = {}]
    BY DEF Flipped
  <2> HIDE DEF k, f
  <2> QED BY <1>1, <2>1, <2>2 DEF ViewType, ScanoutType, UpdateType
<1>3. AfterFlip(v) = w
  BY <1>1 DEF AfterFlip
<1> HIDE DEF f
<1>4. Consistent(f)
  BY <1>2 DEF Settled, Consistent, Owned, Held, ReportsDue
<1>5. Books(f)
  BY <1>2 DEF Quiet, Calm, Books, Fenced
<1>6. NoFrame(v) \/ Flips(v)
  BY DEF Quiet, Calm, FenceWaits
<1>7. Due(f) /\ NoFence(f)
  <2>1. Due(f)
    BY <1>2 DEF Quiet, Calm, Screened, Owns, Shows, Due
  <2> QED BY <1>2, <1>6, <2>1 DEF NoFrame, Flips, OnItsWay, NoFence
<1>8. /\ f.queue.pendingBuffer = None => f.queue.pendingTicket = NoTicket
      /\ f.queue.pendingBuffer # None =>
           /\ f.queue.pendingTicket.phase = "Submitted"
           /\ FenceNeeded => f.fences.work[f.queue.pendingBuffer] # "Pending"
  BY <1>2, <1>6 DEF NoFrame, Flips, OnItsWay
<1>9. /\ Books(w) /\ Kept(f, w) /\ NoFrame(w) /\ Screened(w)
      /\ w.update = f.update /\ w.kms = f.kms
  BY <1>4, <1>5, <1>7, <1>8, FinishPhase
<1> HIDE DEF w
<1>10. Calm(w)
  BY <1>2, <1>9 DEF Calm, NoFrame, NoFence, Quiet
<1> QED BY <1>2, <1>3, <1>9, <1>10 DEF Kept

(* A page flip, and the queued frame it lets in.                            *)
LEMMA PageFlipPInv ==
  ASSUME IInv, PInv, PageFlip PROVE Good
<1> DEFINE v == AfterFlip(view)
           x == [v EXCEPT !.update.flags = {"BufferUpdatePending"}, !.update.throttleSource = TRUE]
           flags == view.update.flags
<1>1. Quiet(view) /\ Settled(view) /\ view \in ViewType /\ view.kms.busy
  BY RunningQuiet DEF PageFlip, FlipReady
<1>2. \/ "BufferUpdatePending" \in flags /\ view' \in {x} \cup CommitQueuedBuffer(v)
      \/ "BufferUpdatePending" \notin flags /\ view' = v
  <2>1. "CursorUpdatePending" \notin flags
    BY <1>1 DEF Quiet, Calm, Books, FrameFlags
  <2> QED BY <2>1 DEF PageFlip
<1>3. /\ Calm(v) /\ NoFrame(v) /\ v.update.flags = {}
      /\ v.queue.queuedBuffer = view.queue.queuedBuffer
  BY <1>1, AfterFlipCalm
<1>4. Settled(v) /\ v \in ViewType
  BY <1>1, AfterFlipSettled DEF Settled, Consistent
<1> HIDE DEF v
<1>5. IInv'
  BY PageFlipIInv
<1>6. Fresh(v)
  BY <1>3 DEF Fresh, NoFrame, NoTicket
<1>7. CASE view' = x
  <2>1. /\ x.queue = v.queue /\ x.fences = v.fences /\ x.ledger = v.ledger
        /\ x.fault = v.fault /\ x.scanout = v.scanout /\ x.kms = v.kms
        /\ x.update.flags = {"BufferUpdatePending"} /\ x.update.throttleSource
        /\ x.update.fenceWait = v.update.fenceWait
        /\ x.update.lastCommitSync = v.update.lastCommitSync
        /\ x.update.cursorTimer = v.update.cursorTimer
    BY <1>4 DEF ViewType, UpdateType
  <2> HIDE DEF x
  <2>2. Calm(x)
    BY <1>3, <2>1, CalmStep DEF FrameFlags
  <2>3. Armed(x) /\ Fresh(x)
    BY <1>6, <2>1 DEF Armed, Fresh
  <2> QED BY <1>5, <1>7, <2>2, <2>3, QuietPInv DEF Quiet
<1>8. CASE view' = v /\ v.queue.queuedBuffer = None
  BY <1>3, <1>5, <1>6, <1>8, QuietPInv DEF Quiet, Armed
<1>9. CASE Calm(view') /\ Fresh(view') /\ view'.queue.queuedBuffer = None
  BY <1>5, <1>9, QuietPInv DEF Quiet, Armed
<1>10. CASE view' \in CommitQueuedBuffer(v)
  BY <1>3, <1>4, <1>8, <1>9, <1>10, CommitQueuedCalm
<1>11. CASE "BufferUpdatePending" \notin flags /\ view' = v
  BY <1>1, <1>3, <1>8, <1>11 DEF Quiet, Armed
<1> QED BY <1>2, <1>7, <1>10, <1>11

(* Memory pressure drops base pages.                                        *)
LEMMA TrimCachesPInv ==
  ASSUME IInv, PInv, TrimCaches PROVE Good
<1>1. Quiet(view) /\ view \in ViewType
  BY RunningQuiet DEF TrimCaches
<1>2. PICK c : view' = [view EXCEPT !.chrome = c]
  BY DEF TrimCaches
<1>3. /\ view'.queue = view.queue /\ view'.fences = view.fences /\ view'.ledger = view.ledger
      /\ view'.update = view.update /\ view'.fault = view.fault
      /\ view'.scanout = view.scanout /\ view'.kms = view.kms
  BY <1>1, <1>2 DEF ViewType
<1>4. Calm(view')
  BY <1>1, <1>3, CalmStep DEF Quiet, Calm, Books
<1>5. Armed(view')
  BY <1>1, <1>3 DEF Quiet, Armed
<1>6. IInv'
  BY TrimCachesIInv
<1> QED BY <1>3, <1>4, <1>5, <1>6, QuietPInv DEF Quiet

(* The geometry is going to change.                                         *)
LEMMA ResizePInv ==
  ASSUME IInv, PInv, Resize PROVE Good
<1>1. Quiet(view) /\ view \in ViewType
  BY RunningQuiet DEF Resize
<1>2. /\ view'.queue = view.queue /\ view'.fences = view.fences /\ view'.ledger = view.ledger
      /\ view'.fault = view.fault /\ view'.scanout = view.scanout /\ view'.kms = view.kms
      /\ view'.update.flags = view.update.flags
      /\ view'.update.fenceWait = view.update.fenceWait
      /\ view'.update.lastCommitSync = view.update.lastCommitSync
      /\ view'.update.throttleSource = view.update.throttleSource
      /\ view'.update.cursorTimer = view.update.cursorTimer
  BY <1>1 DEF Resize, ViewType, UpdateType
<1>3. Calm(view')
  BY <1>1, <1>2, CalmStep DEF Quiet, Calm, Books
<1>4. Armed(view')
  BY <1>1, <1>2 DEF Quiet, Armed
<1>5. IInv'
  BY ResizeIInv
<1> QED BY <1>2, <1>3, <1>4, <1>5, QuietPInv DEF Quiet

(* A chrome redraw is asked for.                                            *)
LEMMA RequestChromeRedrawPInv ==
  ASSUME IInv, PInv, RequestChromeRedraw PROVE Good
<1> DEFINE g == RefreshGeometry(view)
<1>1. Quiet(view) /\ view \in ViewType
  BY RunningQuiet DEF RequestChromeRedraw
<1>2. PICK c : view' = [g EXCEPT !.chrome = c]
  BY DEF RequestChromeRedraw
<1>3. /\ g \in ViewType /\ g.fences = view.fences /\ g.ledger = view.ledger
      /\ SameBuffers(view, g) /\ g.queue.pendingTicket = view.queue.pendingTicket
      /\ g.fault = view.fault
  BY <1>1, RefreshEffect
<1>4. /\ g.queue.queuedTicket = view.queue.queuedTicket
      /\ g.scanout = view.scanout /\ g.kms = view.kms
      /\ g.update.flags = view.update.flags /\ g.update.fenceWait = view.update.fenceWait
      /\ g.update.lastCommitSync = view.update.lastCommitSync
      /\ g.update.cursorTimer = view.update.cursorTimer
      /\ g.update.throttleSource = view.update.throttleSource
  BY <1>1, RefreshQuiet
<1> HIDE DEF g
<1>5. /\ view'.queue = g.queue /\ view'.fences = g.fences /\ view'.ledger = g.ledger
      /\ view'.update = g.update /\ view'.fault = g.fault
      /\ view'.scanout = g.scanout /\ view'.kms = g.kms
  BY <1>2, <1>3 DEF ViewType
<1>6. Calm(view')
  BY <1>1, <1>3, <1>4, <1>5, CalmStep DEF Quiet, Calm, Books, SameBuffers
<1>7. Armed(view')
  BY <1>1, <1>3, <1>4, <1>5 DEF Quiet, Armed, SameBuffers
<1>8. IInv'
  BY RequestChromeRedrawIInv
<1> QED BY <1>3, <1>5, <1>6, <1>7, <1>8, QuietPInv DEF Quiet

(* A frame that stayed in the queue while nothing is under way gets the      *)
(* throttle as its wake-up.                                                 *)
LEMMA DrainQuiet ==
  ASSUME NEW v \in ViewType, Calm(v),
         v.queue.queuedBuffer # None => "BufferUpdatePending" \in v.update.flags
  PROVE  Quiet(DrainQueue(v)) /\ (Fresh(v) => Fresh(DrainQueue(v)))
<1> DEFINE x == [v EXCEPT !.update.throttleSource = TRUE]
<1>1. CASE DrainQueue(v) = v /\ ~("BufferUpdateRequested" \notin v.update.flags
                                   /\ v.queue.queuedBuffer # None)
  BY <1>1 DEF Quiet, Armed, Calm
<1>2. CASE DrainQueue(v) = x
  <2>1. /\ x.queue = v.queue /\ x.fences = v.fences /\ x.ledger = v.ledger
        /\ x.fault = v.fault /\ x.scanout = v.scanout /\ x.kms = v.kms
        /\ x.update.flags = v.update.flags /\ x.update.throttleSource
        /\ x.update.fenceWait = v.update.fenceWait
        /\ x.update.lastCommitSync = v.update.lastCommitSync
        /\ x.update.cursorTimer = v.update.cursorTimer
    BY DEF ViewType, UpdateType
  <2> HIDE DEF x
  <2>2. v.update.flags \subseteq FrameFlags
    BY DEF Calm, Books
  <2>3. Calm(x)
    BY <2>1, <2>2, CalmStep
  <2> QED BY <1>2, <2>1, <2>3 DEF Quiet, Armed, Fresh
<1> QED BY <1>1, <1>2 DEF DrainQueue

(* What becomes of a frame once its fence has signalled.                    *)
LEMMA SubmitFinishedCalm ==
  ASSUME NEW v, Asked(v), "BufferUpdateRequested" \notin v.update.flags,
         ~v.update.dropped, NEW r \in RequestUpdate(v)
  PROVE  LET w == SubmitFinished(r) IN
         /\ Calm(w) /\ Fresh(w) /\ Kept(v, w)
         /\ v.update.flags \subseteq w.update.flags
<1> DEFINE Shown == [r.v EXCEPT !.update.flags = @ \cup {"BufferUpdateRequested"}]
           w == SubmitFinished(r)
<1>1. Consistent(v)
  BY DEF Asked
<1>2. Decided(v, r) /\ Answer(v, r)
  BY <1>1, RequestUpdateDecided, RequestUpdateAnswer
<1>3. /\ Consistent(r.v) /\ Books(r.v) /\ Kept(v, r.v)
      /\ r.v.update.flags = v.update.flags
  BY <1>2 DEF Answer, Decided
<1>4. CASE r.ok /\ ~r.v.update.dropped
  <2>1. w = CompleteSynchronous(Shown) /\ (Waits(r.v) \/ Committed(r.v))
    BY <1>2, <1>4 DEF Decided, Nothing, SubmitFinished
  <2>2. /\ Calm(w) /\ Fresh(w) /\ Kept(r.v, w)
        /\ r.v.update.flags \ {"BufferUpdateRequested"} \subseteq w.update.flags
    BY <1>3, <2>1, ShownCalm
  <2>3. Kept(v, w)
    BY <1>3, <2>2 DEF Kept
  <2> QED BY <1>3, <2>2, <2>3
<1>5. CASE ~(r.ok /\ ~r.v.update.dropped)
  <2>1. Nothing(r.v, r.ok) /\ w = r.v
    BY <1>2, <1>5 DEF Decided, SubmitFinished
  <2>2. Calm(w) /\ Fresh(w)
    BY <1>3, <2>1, NothingCalm
  <2> QED BY <1>3, <2>1, <2>2
<1> QED BY <1>4, <1>5

(* The fence of the pending frame is decided, or its deadline passes.       *)
LEMMA FenceWaitEndsPInv ==
  ASSUME IInv, PInv, FenceWaitEnds PROVE Good
<1> DEFINE u == [view.update EXCEPT !.fenceWait = FALSE, !.flags = @ \ {"BufferUpdateRequested"}]
           v == [view EXCEPT !.update = u]
           b == view.queue.pendingBuffer
           a == AbortPending(v)
<1>1. Quiet(view) /\ Settled(view) /\ view \in ViewType /\ view.update.fenceWait
  BY RunningQuiet DEF FenceWaitEnds, FenceWaitReady
<1>2. PICK w : /\ view' = DrainQueue(w)
               /\ \/ w = a
                  \/ view.fences.work[b] = "Ready" /\ \E r \in RequestUpdate(v) : w = SubmitFinished(r)
  BY DEF FenceWaitEnds
<1>3. /\ u \in UpdateType /\ ~u.fenceWait /\ u.flags = view.update.flags \ {"BufferUpdateRequested"}
      /\ u.lastCommitSync = view.update.lastCommitSync /\ u.dropped = view.update.dropped
      /\ u.throttleSource = view.update.throttleSource
      /\ u.cursorTimer = view.update.cursorTimer
  BY <1>1 DEF ViewType, UpdateType
<1> HIDE DEF u
<1>4. /\ v \in ViewType /\ v.queue = view.queue /\ v.fences = view.fences
      /\ v.ledger = view.ledger /\ v.fault = view.fault /\ v.disposed = view.disposed
      /\ v.scanout = view.scanout /\ v.kms = view.kms /\ v.update = u
  BY <1>1, <1>3 DEF ViewType
<1> HIDE DEF v
<1>5. FenceWaits(view) /\ Screened(view) /\ Books(view) /\ ~view.update.lastCommitSync
  BY <1>1 DEF Quiet, Calm, NoFrame, NoFence, Flips, OnItsWay
<1>6. Consistent(v)
  BY <1>1, <1>4 DEF Settled, Consistent, Owned, Held, ReportsDue
<1>7. Books(v)
  BY <1>3, <1>4, <1>5 DEF Books, Fenced
<1>8. Idle(v) /\ v.scanout.pending = None
  BY <1>4, <1>5 DEF FenceWaits, Screened, Owns, Idle
<1>9. b # None /\ v.queue.pendingBuffer = b /\ ~v.update.dropped
  BY <1>1, <1>3, <1>4, <1>5 DEF FenceWaits, Settled, Pends
<1>10. v.queue.queuedBuffer # None => "BufferUpdatePending" \in v.update.flags
  BY <1>1, <1>3, <1>4 DEF Quiet, Armed
<1>11. "BufferUpdateRequested" \notin v.update.flags
  BY <1>3, <1>4
<1>12. /\ Calm(w) /\ Fresh(w) /\ w \in ViewType
       /\ w.queue.queuedBuffer # None => "BufferUpdatePending" \in w.update.flags
  <2>1. CASE w = a
    <3>1. /\ Books(a) /\ Kept(v, a) /\ NoFrame(a)
          /\ a.update.lastCommitSync = v.update.lastCommitSync
          /\ a.kms = v.kms
          /\ a.scanout.pending = None /\ a.scanout.committed = v.scanout.committed
          /\ a.scanout.owned = v.scanout.owned
      <4>1. FenceNeeded /\ v.queue.pendingBuffer # None
             /\ v.fences.work[v.queue.pendingBuffer] = "Pending"
              => v.fences.pending \/ v.queue.pendingBuffer \in v.fences.held
        BY <1>4, <1>5 DEF FenceWaits
      <4> QED BY <1>6, <1>7, <4>1, AbortPhase
    <3>2. a.update.flags = v.update.flags /\ a \in ViewType
      BY <1>6, AbortConsistent DEF Consistent
    <3> HIDE DEF a
    <3>3. Screened(a)
      BY <1>8, <3>1 DEF Idle, Screened, Owns
    <3>4. Calm(a)
      BY <1>3, <1>4, <1>5, <1>8, <1>11, <3>1, <3>2, <3>3 DEF Calm, Idle, NoFrame, NoFence
    <3>5. Fresh(a)
      BY <3>1 DEF Fresh, NoFrame, NoTicket
    <3> QED BY <1>10, <2>1, <3>1, <3>2, <3>4, <3>5 DEF Kept
  <2>2. ASSUME NEW r \in RequestUpdate(v), w = SubmitFinished(r), view.fences.work[b] = "Ready"
        PROVE  /\ Calm(w) /\ Fresh(w) /\ w \in ViewType
               /\ w.queue.queuedBuffer # None => "BufferUpdatePending" \in w.update.flags
    <3>1. Asked(v)
      <4>1. /\ v.queue.pendingBuffer # None /\ v.queue.pendingTicket.phase = "WaitingFence"
            /\ v.fences.taken /\ v.fences.work[v.queue.pendingBuffer] # "Pending"
        BY <1>4, <1>5, <2>2 DEF FenceWaits
      <4> QED BY <1>3, <1>4, <1>5, <1>6, <1>7, <1>8, <4>1 DEF Asked
    <3> DEFINE s == SubmitFinished(r)
    <3>2. Calm(s) /\ Fresh(s) /\ Kept(v, s) /\ v.update.flags \subseteq s.update.flags
      BY <1>9, <1>11, <3>1, SubmitFinishedCalm
    <3>3. s \in ViewType
      <4>1. Answer(v, r)
        BY <1>6, RequestUpdateAnswer
      <4>2. CASE r.ok /\ ~r.v.update.dropped
        BY <1>9, <4>1, <4>2, ShownSettled DEF SubmitFinished, Settled, Consistent
      <4>3. CASE ~(r.ok /\ ~r.v.update.dropped)
        BY <4>1, <4>3 DEF SubmitFinished, Answer, Consistent
      <4> QED BY <4>2, <4>3
    <3> HIDE DEF s
    <3>4. w = s
      BY <2>2 DEF s
    <3> QED BY <1>10, <3>2, <3>3, <3>4 DEF Kept
  <2> QED BY <1>2, <2>1, <2>2
<1>13. Quiet(view') /\ Fresh(view')
  BY <1>2, <1>12, DrainQuiet
<1> QED BY <1>13, FenceWaitEndsIInv, QuietPInv

(* A buffer is handed over with its fence; nothing else becomes of the view. *)
LEMMA HandOverQuiet ==
  ASSUME NEW v, Settled(v), Quiet(v), NEW b \in Buffers, b \notin v.ledger.lent,
         NEW work \in FencesGiven
  PROVE  LET w == ForgetCursor(HandOver(v, b, work)) IN
         /\ Quiet(w) /\ b \in w.fences.held /\ b \notin Held(w)
         /\ w.queue.pendingTicket = v.queue.pendingTicket
<1> DEFINE g == RefreshGeometry(v)
           f == [v.fences EXCEPT !.work[b] = work, !.held = @ \cup {b}]
           l == [v.ledger EXCEPT !.lent = @ \cup {b}, !.unpaced = @ \cup {b}]
           h == [g EXCEPT !.fences = f, !.ledger = l]
<1>1. v \in ViewType /\ b \notin Held(v)
  BY DEF Settled, Consistent, Owned
<1>2. /\ g \in ViewType /\ SameBuffers(v, g) /\ g.queue.pendingTicket = v.queue.pendingTicket
      /\ g.update.flags = v.update.flags
      /\ g.fault = v.fault /\ g.disposed = v.disposed
  BY <1>1, RefreshEffect
<1>3. /\ g.queue.queuedTicket = v.queue.queuedTicket
      /\ g.scanout = v.scanout /\ g.kms = v.kms
      /\ g.update.fenceWait = v.update.fenceWait
      /\ g.update.lastCommitSync = v.update.lastCommitSync
      /\ g.update.cursorTimer = v.update.cursorTimer
      /\ g.update.throttleSource = v.update.throttleSource
  BY <1>1, RefreshQuiet
<1> HIDE DEF g
<1>4. /\ f.held = v.fences.held \cup {b} /\ f.taken = v.fences.taken
      /\ f.pending = v.fences.pending
      /\ \A x \in Buffers \ {b} : f.work[x] = v.fences.work[x]
  BY <1>1 DEF ViewType, FencesType
<1>5. l.early = v.ledger.early
  BY <1>1 DEF ViewType, LedgerType
<1> HIDE DEF f, l
<1>6. /\ h.fences = f /\ h.ledger = l /\ h.queue = g.queue /\ h.scanout = g.scanout
      /\ h.update = g.update /\ h.fault = g.fault /\ h.kms = g.kms
  BY <1>2 DEF ViewType
<1>7. HandOver(v, b, work) = h
  BY DEF HandOver, g, f, l
<1> HIDE DEF h
<1>8. ForgetCursor(HandOver(v, b, work)) = h
  <2>1. "CursorUpdateRequested" \notin h.update.flags
    BY <1>2, <1>6 DEF Quiet, Calm, Books, FrameFlags
  <2> QED BY <1>7, <2>1 DEF ForgetCursor
<1>9. \A z \in {v.queue.queuedBuffer, v.queue.pendingBuffer, v.queue.committedBuffer} :
        z # None => z \in Buffers \ {b}
  BY <1>1 DEF Held, ViewType, QueueType
<1>10. Books(h)
  BY <1>2, <1>3, <1>4, <1>5, <1>6, <1>9 DEF Quiet, Calm, Books, Fenced, SameBuffers
<1>11. Screened(h)
  BY <1>3, <1>6 DEF Quiet, Calm, Screened, Owns, Shows
<1>12. /\ NoFrame(v) => NoFrame(h)
       /\ FenceWaits(v) => FenceWaits(h)
       /\ Flips(v) => Flips(h)
  BY <1>2, <1>3, <1>4, <1>6, <1>9 DEF NoFrame, NoFence, FenceWaits, Flips, OnItsWay, SameBuffers
<1>13. Quiet(h)
  BY <1>2, <1>3, <1>6, <1>10, <1>11, <1>12 DEF Quiet, Calm, Armed, SameBuffers
<1>14. b \notin Held(h)
  BY <1>1, <1>2, <1>6 DEF Held, SameBuffers
<1> QED BY <1>2, <1>4, <1>6, <1>8, <1>13, <1>14

(* wpeViewDRMQueueBuffer: the frame it replaces is retired with the fence    *)
(* the view has, and b waits with a fresh ticket.                           *)
LEMMA QueueBufferCalm ==
  ASSUME NEW v, NEW b, Given(v, b), Calm(v), b \in v.fences.held
  PROVE  LET w == QueueBuffer(v, b) IN
         /\ Calm(w) /\ "BufferUpdatePending" \in w.update.flags
         /\ w.queue.pendingTicket = v.queue.pendingTicket
         /\ w.update.throttleSource = v.update.throttleSource
         /\ "BufferUpdateRequested" \in w.update.flags <=> "BufferUpdateRequested" \in v.update.flags
<1> DEFINE old == v.queue.queuedBuffer
           replaces == old # None /\ old # b
           fresh == v.queue.queuedTicket.serial = 0 \/ replaces
           w == IF replaces THEN RetireDiscarded(v, old, FALSE) ELSE v
           accepted == IF fresh THEN AcceptFrame(w.queue) ELSE w.queue
           ticket == IF fresh THEN NewTicket(w.queue) ELSE accepted.queuedTicket
           q == [accepted EXCEPT !.queuedBuffer = b, !.queuedTicket = ticket]
           u == [w.update EXCEPT !.flags = @ \cup {"BufferUpdatePending"}]
           x == [w EXCEPT !.queue = q, !.update = u]
<1>1. /\ v \in ViewType /\ b \in Buffers /\ b # None /\ FALSE \in BOOLEAN
      /\ old \in Buffers \cup {None} /\ old # b
      /\ v.queue.pendingBuffer \in Buffers \cup {None}
      /\ v.queue.committedBuffer \in Buffers \cup {None}
      /\ b \notin {v.queue.pendingBuffer, v.queue.committedBuffer}
      /\ old # None => old \notin {v.queue.pendingBuffer, v.queue.committedBuffer}
  BY QueueAssumption DEF Given, ViewType, QueueType, Held
<1>2. fresh
  BY <1>1 DEF Calm, Books, NoTicket
<1>3. /\ w \in ViewType /\ w.queue = v.queue /\ w.update = v.update /\ w.fault = v.fault
      /\ w.scanout = v.scanout /\ w.kms = v.kms
      /\ w.fences.taken = v.fences.taken /\ w.fences.pending = v.fences.pending
      /\ \A z \in Buffers \ {old} : /\ w.fences.work[z] = v.fences.work[z]
                                    /\ z \in w.fences.held <=> z \in v.fences.held
      /\ FenceNeeded => w.ledger.early = v.ledger.early
  <2>1. CASE replaces
    <3> DEFINE r == RetireDiscarded(v, old, FALSE)
    <3>1. old \in Buffers /\ old \in v.ledger.lent /\ old \notin v.fences.quarantine
      BY <1>1, <2>1 DEF Given, Held
    <3>2. /\ r \in ViewType /\ r.queue = v.queue /\ r.update = v.update /\ r.fault = v.fault
      BY <1>1, <3>1, RetireEffect
    <3>3. /\ r.scanout = v.scanout /\ r.kms = v.kms
          /\ r.fences.taken = v.fences.taken /\ r.fences.pending = v.fences.pending
          /\ \A z \in Buffers \ {old} : /\ r.fences.work[z] = v.fences.work[z]
                                        /\ z \in r.fences.held <=> z \in v.fences.held
          /\ (v.fences.work[old] = "Pending" => FALSE \/ old \in v.fences.held) =>
               r.ledger.early = v.ledger.early
      BY <1>1, <3>1, RetireFences
    <3>4. FenceNeeded => (v.fences.work[old] = "Pending" => old \in v.fences.held)
      BY <2>1 DEF Calm, Books, Fenced
    <3> HIDE DEF r
    <3>5. w = r
      BY <2>1 DEF r
    <3> HIDE DEF w
    <3> QED BY <3>2, <3>3, <3>4, <3>5
  <2>2. CASE ~replaces
    BY <1>1, <2>2
  <2> QED BY <2>1, <2>2
<1> HIDE DEF w
<1>4. /\ accepted \in QueueType /\ ticket \in Ticket /\ ticket.phase = "Queued"
      /\ accepted.pendingBuffer = v.queue.pendingBuffer
      /\ accepted.pendingTicket = v.queue.pendingTicket
      /\ accepted.committedBuffer = v.queue.committedBuffer
  <2>1. w.queue \in QueueType /\ v.queue \in QueueType
    BY <1>1, <1>3 DEF ViewType
  <2>2. /\ AcceptFrame(w.queue).pendingBuffer = v.queue.pendingBuffer
        /\ AcceptFrame(w.queue).pendingTicket = v.queue.pendingTicket
        /\ AcceptFrame(w.queue).committedBuffer = v.queue.committedBuffer
    BY <1>3, <2>1 DEF AcceptFrame, QueueType
  <2>3. NewTicket(w.queue).phase = "Queued"
    BY DEF NewTicket, Accepted
  <2> QED BY <1>2, <2>1, <2>2, <2>3, TicketTypes
<1>5. QueueBuffer(v, b) = x
  BY DEF QueueBuffer, w
<1> HIDE DEF accepted, ticket
<1>6. /\ q.queuedBuffer = b /\ q.queuedTicket = ticket
      /\ q.pendingBuffer = v.queue.pendingBuffer
      /\ q.pendingTicket = v.queue.pendingTicket
      /\ q.committedBuffer = v.queue.committedBuffer
  BY <1>1, <1>4 DEF QueueType
<1> HIDE DEF q
<1>7. /\ u.flags = v.update.flags \cup {"BufferUpdatePending"}
      /\ u.fenceWait = v.update.fenceWait /\ u.lastCommitSync = v.update.lastCommitSync
      /\ u.throttleSource = v.update.throttleSource /\ u.cursorTimer = v.update.cursorTimer
  BY <1>1, <1>3 DEF ViewType, UpdateType
<1> HIDE DEF u
<1>8. /\ x.queue = q /\ x.update = u /\ x.fences = w.fences /\ x.ledger = w.ledger
      /\ x.fault = w.fault /\ x.scanout = w.scanout /\ x.kms = w.kms
  BY <1>3 DEF ViewType
<1> HIDE DEF x
<1>9. /\ b \in Buffers \ {old} /\ b \in w.fences.held
      /\ v.queue.pendingBuffer # None => v.queue.pendingBuffer \in Buffers \ {old}
      /\ v.queue.committedBuffer # None => v.queue.committedBuffer \in Buffers \ {old}
  BY <1>1, <1>3
<1>10. Books(x)
  <2>1. Fenced(x, b)
    BY <1>8, <1>9 DEF Fenced
  <2>2. x.update.flags \subseteq FrameFlags /\ ~x.update.cursorTimer
    BY <1>7, <1>8 DEF Calm, Books, FrameFlags
  <2>3. FenceNeeded => /\ x.ledger.early = {}
                       /\ x.queue.committedBuffer # None =>
                            x.fences.work[x.queue.committedBuffer] # "Pending"
    BY <1>3, <1>6, <1>8, <1>9 DEF Calm, Books
  <2> QED BY <1>1, <1>3, <1>4, <1>6, <1>8, <2>1, <2>2, <2>3 DEF Calm, Books
<1>11. Screened(x)
  BY <1>3, <1>8 DEF Calm, Screened, Owns, Shows
<1>12. /\ NoFrame(v) => NoFrame(x)
       /\ FenceWaits(v) => FenceWaits(x)
       /\ Flips(v) => Flips(x)
  BY <1>3, <1>6, <1>7, <1>8, <1>9 DEF NoFrame, NoFence, FenceWaits, Flips, OnItsWay
<1>13. "BufferUpdateRequested" \in x.update.flags <=> "BufferUpdateRequested" \in v.update.flags
  BY <1>7, <1>8
<1>14. Calm(x)
  BY <1>3, <1>7, <1>8, <1>10, <1>11, <1>12, <1>13 DEF Calm
<1> QED BY <1>5, <1>6, <1>7, <1>8, <1>13, <1>14

(* An idle view asks for an update with the frame it took.                  *)
LEMMA TakeFrameAsked ==
  ASSUME NEW v, NEW b, Given(v, b), Quiet(v), b \in v.fences.held,
         v.update.flags \cap Requested = {}, ~v.update.throttleSource
  PROVE  LET w == TakeFrame(v, b) IN
         /\ Asked(w) /\ w.queue.queuedBuffer = None
         /\ "BufferUpdateRequested" \notin w.update.flags
<1> DEFINE a == AcceptFrame(v.queue)
           n == NewTicket(v.queue)
           q == [a EXCEPT !.pendingBuffer = b, !.pendingTicket = n]
           u == [v.update EXCEPT !.cursorTimer = FALSE]
           w == [v EXCEPT !.queue = q, !.update = u]
<1>1. v \in ViewType /\ v.queue \in QueueType /\ b \in Buffers /\ b # None
  BY QueueAssumption DEF Given, ViewType
<1>2. /\ NoFrame(v) /\ Idle(v) /\ v.scanout.pending = None
      /\ ~v.update.lastCommitSync /\ ~v.update.fenceWait
      /\ "BufferUpdateRequested" \notin v.update.flags
  BY FlagsClear DEF Quiet
<1>3. v.queue.queuedBuffer = None
  BY <1>2 DEF Quiet, Armed, Idle
<1>4. /\ a \in QueueType /\ n \in Ticket /\ n.phase = "Queued"
      /\ a.queuedBuffer = v.queue.queuedBuffer /\ a.queuedTicket = v.queue.queuedTicket
      /\ a.committedBuffer = v.queue.committedBuffer
  BY <1>1, TicketTypes DEF AcceptFrame, QueueType, NewTicket, Accepted
<1> HIDE DEF a, n
<1>5. /\ q.pendingBuffer = b /\ q.pendingTicket = n
      /\ q.queuedBuffer = v.queue.queuedBuffer /\ q.queuedTicket = v.queue.queuedTicket
      /\ q.committedBuffer = v.queue.committedBuffer
  BY <1>1, <1>4 DEF QueueType
<1>6. TakeFrame(v, b) = w
  BY DEF TakeFrame, a, n
<1> HIDE DEF q
<1>7. /\ u.flags = v.update.flags /\ u.fenceWait = v.update.fenceWait
      /\ u.lastCommitSync = v.update.lastCommitSync /\ ~u.cursorTimer
  BY <1>1 DEF ViewType, UpdateType
<1> HIDE DEF u
<1>8. /\ w.queue = q /\ w.update = u /\ w.fences = v.fences /\ w.ledger = v.ledger
      /\ w.fault = v.fault /\ w.scanout = v.scanout /\ w.kms = v.kms
  BY <1>1 DEF ViewType
<1>9. Consistent(w)
  BY <1>2, <1>6, TakeFrameConsistent DEF NoFrame
<1> HIDE DEF w
<1>10. Books(w)
  BY <1>3, <1>5, <1>7, <1>8 DEF Quiet, Calm, Books, Fenced
<1>11. Idle(w)
  BY <1>2, <1>8 DEF Idle
<1>12. /\ w.queue.pendingBuffer # None /\ w.queue.pendingTicket.phase = "Queued"
       /\ NoFence(w) /\ Fenced(w, w.queue.pendingBuffer)
  BY <1>1, <1>2, <1>4, <1>5, <1>7, <1>8 DEF NoFrame, NoFence, Fenced
<1>13. Asked(w)
  BY <1>2, <1>7, <1>8, <1>9, <1>10, <1>11, <1>12 DEF Asked
<1> QED BY <1>2, <1>3, <1>5, <1>6, <1>7, <1>8, <1>13

(* A buffer is handed over and queued or submitted.                         *)
LEMMA RenderBufferPInv ==
  ASSUME IInv, PInv, NEW b \in Buffers, RenderBuffer(b) PROVE Good
<1>1. Quiet(view) /\ Settled(view) /\ view \in ViewType /\ b \notin view.ledger.lent
  BY RunningQuiet DEF RenderBuffer
<1>2. PICK work \in FencesGiven, delay \in ThrottleAnswers :
        LET v == ForgetCursor(HandOver(view, b, work)) IN
        view' \in
           IF v.update.flags \cap Requested # {}
             THEN {QueueBuffer(v, b)}
           ELSE IF v.update.throttleSource \/ (v.queue.committedBuffer # None /\ delay)
             THEN {[QueueBuffer(v, b) EXCEPT !.update.throttleSource = TRUE]}
           ELSE SubmitFresh(TakeFrame(v, b))
  BY DEF RenderBuffer
<1> DEFINE v == ForgetCursor(HandOver(view, b, work))
           w == QueueBuffer(v, b)
           x == [w EXCEPT !.update.throttleSource = TRUE]
<1>3. Given(v, b)
  BY <1>1, HandOverGiven
<1>4. /\ Quiet(v) /\ b \in v.fences.held
      /\ v.queue.pendingTicket = view.queue.pendingTicket
  BY <1>1, HandOverQuiet
<1>5. \/ v.update.flags \cap Requested # {} /\ view' = w
      \/ view' = x
      \/ v.update.flags \cap Requested = {} /\ ~v.update.throttleSource
           /\ view' \in SubmitFresh(TakeFrame(v, b))
  BY <1>2
<1> HIDE DEF v
<1>6. IInv'
  BY RenderBufferIInv
<1>7. /\ Calm(w) /\ "BufferUpdatePending" \in w.update.flags
      /\ w.queue.pendingTicket = v.queue.pendingTicket
      /\ "BufferUpdateRequested" \in w.update.flags <=> "BufferUpdateRequested" \in v.update.flags
  BY <1>3, <1>4, QueueBufferCalm DEF Quiet
<1>8. w \in ViewType
  BY <1>3, QueueBufferConsistent DEF Consistent
<1> HIDE DEF w
<1>9. CASE v.update.flags \cap Requested # {} /\ view' = w
  <2>1. "BufferUpdateRequested" \in v.update.flags
    BY <1>4, <1>9, FlagsClear DEF Quiet
  <2>2. Armed(w)
    BY <1>7, <2>1 DEF Armed, Calm
  <2> QED BY <1>4, <1>6, <1>7, <1>9, <2>2, QuietPInv DEF Quiet
<1>10. CASE view' = x
  <2>1. /\ x.queue = w.queue /\ x.fences = w.fences /\ x.ledger = w.ledger
        /\ x.fault = w.fault /\ x.scanout = w.scanout /\ x.kms = w.kms
        /\ x.update.flags = w.update.flags /\ x.update.throttleSource
        /\ x.update.fenceWait = w.update.fenceWait
        /\ x.update.lastCommitSync = w.update.lastCommitSync
        /\ x.update.cursorTimer = w.update.cursorTimer
    BY <1>8 DEF ViewType, UpdateType
  <2> HIDE DEF x
  <2>2. Calm(x)
    BY <1>7, <2>1, CalmStep DEF Calm, Books
  <2>3. Armed(x)
    BY <1>7, <2>1 DEF Armed
  <2> QED BY <1>4, <1>6, <1>7, <1>10, <2>1, <2>2, <2>3, QuietPInv DEF Quiet
<1>11. CASE v.update.flags \cap Requested = {} /\ ~v.update.throttleSource
              /\ view' \in SubmitFresh(TakeFrame(v, b))
  <2> DEFINE t == TakeFrame(v, b)
  <2>1. /\ Asked(t) /\ t.queue.queuedBuffer = None
        /\ "BufferUpdateRequested" \notin t.update.flags
    BY <1>3, <1>4, <1>11, TakeFrameAsked
  <2>2. Calm(view') /\ Fresh(view') /\ Kept(t, view')
    BY <1>11, <2>1, SubmitFreshCalm
  <2> HIDE DEF t
  <2> QED BY <1>6, <2>1, <2>2, QuietPInv DEF Quiet, Armed, Kept
<1> QED BY <1>5, <1>9, <1>10, <1>11

(* captureCommittedChromeBase draws and prepares a base, nothing else.      *)
LEMMA CaptureBaseDrawn ==
  ASSUME NEW v, Consistent(v), NEW r \in CaptureBase(v)
  PROVE  /\ Consistent(r.v) /\ SameCore(v, r.v)
         /\ r.v.kms = v.kms /\ r.v.update = v.update
         /\ r.v.scanout.pending = v.scanout.pending
         /\ r.v.scanout.committed = v.scanout.committed
         /\ r.v.scanout.owned = v.scanout.owned
<1> DEFINE b == v.queue.committedBuffer
           page == v.queue.committedTicket.serial
           Captured(t) == [t.v EXCEPT
                           !.chrome = [t.v.chrome EXCEPT
                                         !.basePage = t.v.chrome.preparedPage,
                                         !.baseGeneration = v.chrome.generation,
                                         !.preparedGeneration = 0, !.preparedPage = 0]]
<1>1. /\ v \in ViewType /\ page \in Nat /\ TRUE \in BOOLEAN
      /\ Consistent(r.v) /\ SameCore(v, r.v)
  BY CaptureBaseConsistent DEF Consistent, ViewType, QueueType, Ticket
<1>2. \/ r = [v |-> v, ok |-> FALSE]
      \/ /\ b # None
         /\ \E t \in RenderTargets(v, b, page, TRUE) :
              r \in {[v |-> t.v, ok |-> FALSE], [v |-> Captured(t), ok |-> TRUE]}
  BY DEF CaptureBase
<1>3. CASE r = [v |-> v, ok |-> FALSE]
  BY <1>1, <1>3
<1>4. ASSUME b # None, NEW t \in RenderTargets(v, b, page, TRUE),
             r \in {[v |-> t.v, ok |-> FALSE], [v |-> Captured(t), ok |-> TRUE]}
      PROVE  /\ r.v.kms = v.kms /\ r.v.update = v.update
             /\ r.v.scanout.pending = v.scanout.pending
             /\ r.v.scanout.committed = v.scanout.committed
             /\ r.v.scanout.owned = v.scanout.owned
  <2>1. b \in Buffers
    BY <1>1, <1>4 DEF ViewType, QueueType
  <2>2. TargetOf(v, t) /\ DrawnOf(v, t)
    BY <1>1, <1>4, <2>1, RenderTargetsType, RenderTargetsDrawn
  <2>3. t.v \in ViewType
    BY <2>2 DEF TargetOf
  <2>4. Captured(t).kms = t.v.kms /\ Captured(t).update = t.v.update
        /\ Captured(t).scanout = t.v.scanout
    BY <2>3 DEF ViewType
  <2> HIDE DEF Captured
  <2>5. r.v = t.v \/ r.v = Captured(t)
    BY <1>4
  <2> QED BY <2>2, <2>4, <2>5 DEF TargetOf, DrawnOf
<1> QED BY <1>1, <1>2, <1>3, <1>4

(* The chrome redrawn over a current base page is committed like a frame.   *)
LEMMA RedrawChromeQuiet ==
  ASSUME NEW v, Settled(v), Quiet(v), ~WebFrameWaiting(v), v.update.flags \cap Requested = {},
         NEW w \in RedrawChrome(v)
  PROVE  Quiet(w) /\ Fresh(w)
<1> DEFINE Bases == IF v.chrome.baseGeneration = v.chrome.generation
                      THEN {[v |-> v, ok |-> TRUE]} ELSE CaptureBase(v)
<1>1. PICK base \in Bases :
        w \in (IF base.ok THEN {ChromeRedrawn(r) : r \in RequestUpdate(base.v)} ELSE {base.v})
  BY DEF RedrawChrome
<1>2. /\ Consistent(base.v) /\ SameCore(v, base.v)
      /\ base.v.kms = v.kms /\ base.v.update = v.update
      /\ base.v.scanout.pending = v.scanout.pending
      /\ base.v.scanout.committed = v.scanout.committed
      /\ base.v.scanout.owned = v.scanout.owned
  BY CaptureBaseDrawn DEF Settled, SameCore
<1> HIDE DEF Bases
<1>3. /\ NoFrame(v) /\ Idle(v) /\ v.scanout.pending = None
      /\ ~v.update.lastCommitSync /\ ~v.update.fenceWait
      /\ "BufferUpdateRequested" \notin v.update.flags
      /\ v.queue.queuedBuffer = None
  BY FlagsClear DEF Quiet, WebFrameWaiting
<1> DEFINE y == base.v
<1>4. Books(y) /\ Idle(y) /\ NoFrame(y) /\ y.queue.queuedBuffer = None
      /\ "BufferUpdateRequested" \notin y.update.flags
  BY <1>2, <1>3 DEF Quiet, Calm, Books, Fenced, Idle, NoFrame, NoFence, SameCore
<1>5. Asked(y)
  BY <1>2, <1>3, <1>4 DEF Asked
<1>6. CASE ~base.ok
  <2>1. Calm(y)
    BY <1>2, <1>3, <1>4 DEF Calm, Screened, Owns, Idle, NoFrame, NoFence
  <2> QED BY <1>1, <1>4, <1>6, <2>1 DEF Quiet, Armed, Fresh, NoFrame, NoTicket
<1>7. CASE base.ok
  <2>1. PICK r \in RequestUpdate(y) : w = ChromeRedrawn(r)
    BY <1>1, <1>7
  <2>2. Answer(y, r) /\ Decided(y, r)
    BY <1>2, <1>5, RequestUpdateAnswer, RequestUpdateDecided
  <2> HIDE DEF y
  <2>3. /\ Consistent(r.v) /\ Books(r.v) /\ Kept(y, r.v)
        /\ r.v.update.flags = y.update.flags /\ r.v.queue.queuedBuffer = None
    BY <1>4, <2>2 DEF Answer, Decided, Kept
  <2>4. CASE ~r.ok
    <3>1. Nothing(r.v, r.ok) /\ w = r.v
      BY <2>1, <2>2, <2>4 DEF Decided, ChromeRedrawn
    <3> QED BY <1>4, <2>3, <3>1, NothingCalm DEF Quiet, Armed
  <2>5. CASE r.ok
    <3> DEFINE s == [r.v EXCEPT !.update.flags = @ \cup {"BufferUpdateRequested"}]
               c == CompleteSynchronous(s)
               x == [c EXCEPT !.chrome.pending = FALSE]
    <3>1. Waits(r.v) \/ Committed(r.v)
      BY <1>4, <2>2, <2>5 DEF Decided, NoFrame
    <3>2. Calm(c) /\ Fresh(c) /\ Kept(r.v, c)
      BY <2>3, <3>1, ShownCalm
    <3>3. Settled(c) /\ c \in ViewType
      BY <1>4, <2>2, ShownSettled DEF NoFrame, Settled, Consistent
    <3>4. w = x
      BY <2>1, <2>5 DEF ChromeRedrawn
    <3> HIDE DEF c
    <3>5. /\ x.queue = c.queue /\ x.fences = c.fences /\ x.ledger = c.ledger
          /\ x.update = c.update /\ x.fault = c.fault
          /\ x.scanout = c.scanout /\ x.kms = c.kms
      BY <3>3 DEF ViewType
    <3> HIDE DEF x
    <3>6. Calm(x)
      BY <3>2, <3>5, CalmStep DEF Calm, Books
    <3> QED BY <2>3, <3>2, <3>4, <3>5, <3>6 DEF Quiet, Armed, Fresh, Kept
  <2> QED BY <2>4, <2>5
<1> QED BY <1>6, <1>7

(* The chrome tick.                                                         *)
LEMMA ChromeTickPInv ==
  ASSUME IInv, PInv, ChromeTick PROVE Good
<1> DEFINE g == RefreshGeometry(view)
           V(animating) == [g EXCEPT !.chrome.pending = @ \/ animating \/ view.update.resized]
           W(w, source) == [w EXCEPT !.chrome.source = source]
<1>1. Quiet(view) /\ Settled(view) /\ view \in ViewType
  BY RunningQuiet DEF ChromeTick
<1>2. PICK animating \in {FALSE, view.chrome.panelOpen} :
        LET v == V(animating)
            waiting == WebFrameWaiting(v) \/ v.update.flags \cap Requested # {}
        IN  \E w \in IF v.chrome.pending /\ v.queue.committedBuffer # None /\ ~waiting
                       THEN RedrawChrome(v) ELSE {v} :
              view' = W(w, animating \/ (w.chrome.pending /\ waiting))
  BY DEF ChromeTick
<1> DEFINE v == V(animating)
           waiting == WebFrameWaiting(v) \/ v.update.flags \cap Requested # {}
<1>3. /\ g \in ViewType /\ g.fences = view.fences /\ g.ledger = view.ledger
      /\ SameBuffers(view, g) /\ g.queue.pendingTicket = view.queue.pendingTicket
      /\ g.update.flags = view.update.flags /\ g.update.dropped = view.update.dropped
      /\ g.fault = view.fault
  BY <1>1, RefreshEffect
<1>4. /\ g.queue.queuedTicket = view.queue.queuedTicket
      /\ g.scanout = view.scanout /\ g.kms = view.kms
      /\ g.update.fenceWait = view.update.fenceWait
      /\ g.update.lastCommitSync = view.update.lastCommitSync
      /\ g.update.cursorTimer = view.update.cursorTimer
      /\ g.update.throttleSource = view.update.throttleSource
  BY <1>1, RefreshQuiet
<1>5. animating \in BOOLEAN
  BY <1>1 DEF ViewType, ChromeType
<1> HIDE DEF g
<1>6. /\ v \in ViewType /\ v.queue = g.queue /\ v.fences = g.fences /\ v.ledger = g.ledger
      /\ v.update = g.update /\ v.fault = g.fault /\ v.scanout = g.scanout /\ v.kms = g.kms
  <2> DEFINE p == g.chrome.pending \/ animating \/ view.update.resized
  <2>1. p \in BOOLEAN
    OBVIOUS
  <2>2. v = [g EXCEPT !.chrome.pending = p]
    OBVIOUS
  <2> HIDE DEF p
  <2>3. LET z == [g EXCEPT !.chrome.pending = p] IN
        /\ z \in ViewType /\ z.queue = g.queue /\ z.fences = g.fences /\ z.ledger = g.ledger
        /\ z.update = g.update /\ z.fault = g.fault
        /\ z.scanout = g.scanout /\ z.kms = g.kms
    BY <1>3, <2>1 DEF ViewType, ChromeType
  <2> HIDE DEF v
  <2> QED BY <2>2, <2>3
<1>7. PICK w \in IF v.chrome.pending /\ v.queue.committedBuffer # None /\ ~waiting
                   THEN RedrawChrome(v) ELSE {v} :
        view' = W(w, animating \/ (w.chrome.pending /\ waiting))
  BY <1>2
<1> HIDE DEF V
<1>8. Settled(v)
  BY <1>1, <1>3, <1>6 DEF Settled, Pends, Consistent, Owned, Held, ReportsDue, SameBuffers
<1>9. Calm(v)
  BY <1>1, <1>3, <1>4, <1>6, CalmStep DEF Quiet, Calm, Books, SameBuffers
<1>10. Quiet(v)
  BY <1>1, <1>3, <1>4, <1>6, <1>9 DEF Quiet, Armed, SameBuffers
<1>11. /\ Quiet(w) /\ w \in ViewType
       /\ Fresh(w) \/ w.queue.pendingTicket = view.queue.pendingTicket
  <2>1. CASE w = v
    BY <1>3, <1>6, <1>10, <2>1
  <2>2. CASE ~waiting /\ w \in RedrawChrome(v)
    <3>1. ~WebFrameWaiting(v) /\ v.update.flags \cap Requested = {}
          /\ v.queue.pendingBuffer = None
      BY <2>2 DEF WebFrameWaiting
    <3>2. Settled(w)
      BY <1>8, <2>2, <3>1, RedrawChromeSettled
    <3>3. Quiet(w) /\ Fresh(w)
      BY <1>8, <1>10, <2>2, <3>1, RedrawChromeQuiet
    <3> QED BY <3>2, <3>3 DEF Settled, Consistent
  <2> QED BY <1>7, <2>1, <2>2
<1> DEFINE source == animating \/ (w.chrome.pending /\ waiting)
           z == W(w, source)
<1>12. view' = z
  BY <1>7
<1>13. /\ z.queue = w.queue /\ z.fences = w.fences /\ z.ledger = w.ledger
       /\ z.update = w.update /\ z.fault = w.fault /\ z.scanout = w.scanout /\ z.kms = w.kms
  BY <1>11 DEF ViewType, W
<1> HIDE DEF z, v, W, waiting
<1>14. Calm(z) /\ Armed(z)
  BY <1>11, <1>13, CalmStep DEF Quiet, Calm, Books, Armed
<1>15. Fresh(z) \/ z.queue.pendingTicket = view.queue.pendingTicket
  BY <1>11, <1>13 DEF Fresh
<1> QED BY <1>12, <1>14, <1>15, ChromeTickIInv, QuietPInv DEF Quiet

(* A view that is disposed releases what the GPU and the plane are done     *)
(* with, and what the display still reads stays owned.                      *)
LEMMA DisposePInv ==
  ASSUME IInv, PInv, Dispose PROVE Good
<1>1. Quiet(view) /\ Settled(view) /\ view \in ViewType
  BY RunningQuiet DEF Dispose
<1>2. PICK released \in {{}, {b \in Held(view) : RenderingComplete(view, b)}},
           screen \in {None, view.kms.next, view.kms.screen} :
        view' = Disposed(view, released, screen)
  BY DEF Dispose
<1> DEFINE l == [view.ledger EXCEPT
                   !.lent = @ \ released, !.repeated = @ \cup (released \ view.ledger.lent),
                   !.early = @ \cup {b \in released : view.fences.work[b] = "Pending"}]
           q == [view.queue EXCEPT !.queuedBuffer = None, !.pendingBuffer = None,
                                   !.committedBuffer = None]
           c == [view.scanout EXCEPT !.pending = None, !.committed = None]
           k == [busy |-> FALSE, next |-> None, screen |-> screen]
<1>3. /\ view'.ledger = l /\ view'.queue = q /\ view'.scanout = c /\ view'.kms = k
      /\ view'.fault = view.fault /\ view'.disposed
  BY <1>1, <1>2 DEF Disposed, ViewType
<1>4. /\ l.early = view.ledger.early \cup {b \in released : view.fences.work[b] = "Pending"}
      /\ q.pendingTicket = view.queue.pendingTicket
      /\ c.owned = view.scanout.owned
      /\ k.next = None /\ k.screen = screen
  BY <1>1 DEF ViewType, LedgerType, QueueType, ScanoutType
<1> HIDE DEF l, q, c, k
<1>5. ASSUME FenceNeeded, NEW b \in Held(view), RenderingComplete(view, b)
      PROVE  view.fences.work[b] # "Pending"
  <2>1. CASE b = view.queue.pendingBuffer
    <3>1. FenceWaits(view) \/ Flips(view)
      BY <1>1, <1>5, <2>1 DEF Held, Quiet, Calm, NoFrame
    <3> QED BY <1>5, <2>1, <3>1 DEF FenceWaits, Flips, OnItsWay, RenderingComplete, ProbeFence
  <2>2. CASE b # view.queue.pendingBuffer /\ b = view.queue.queuedBuffer
    BY <1>1, <1>5, <2>2 DEF Held, Quiet, Calm, Books, Fenced, RenderingComplete, ProbeFence
  <2>3. CASE b = view.queue.committedBuffer
    BY <1>1, <1>5, <2>3 DEF Held, Quiet, Calm, Books
  <2> QED BY <1>5, <2>1, <2>2, <2>3 DEF Held
<1>6. FenceNeeded => view'.ledger.early = {}
  BY <1>1, <1>2, <1>3, <1>4, <1>5 DEF Quiet, Calm, Books
<1>7. ScanoutOwned'
  BY <1>1, <1>2, <1>3, <1>4 DEF Quiet, Calm, Screened, Owns, ScanoutOwned
<1>8. PInv'
  BY <1>3, <1>6, <1>7 DEF PInv
<1> QED BY <1>3, <1>4, <1>8 DEF Good, Submits

-----------------------------------------------------------------------------
(* Every step keeps the invariant and submits for the current geometry only. *)
LEMMA NextPInv ==
  ASSUME ~HasCursor, IInv, PInv, [Next]_view PROVE Good
<1>1. CASE UNCHANGED view
  BY <1>1 DEF Good, PInv, ScanoutOwned, Submits
<1>2. ASSUME NEW b \in Buffers, GPUSettles(b) \/ RenderBuffer(b) \/ QuarantineSettles(b)
      PROVE  Good
  BY <1>2, GPUSettlesPInv, RenderBufferPInv, QuarantineSettlesPInv
<1>3. ~UpdateCursor
  BY DEF UpdateCursor
<1>4. ~CursorTimer
  BY RunningQuiet DEF CursorTimer, Quiet, Calm, Books
<1> QED BY <1>1, <1>2, <1>3, <1>4, FenceWaitEndsPInv, ThrottleFiresPInv, PageFlipPInv,
           RequestChromeRedrawPInv, ChromeTickPInv, TrimCachesPInv, ResizePInv, DisposePInv
           DEF Next, PageNext

(* On a display without a cursor plane every reachable view is quiet: this   *)
(* is the invariant all of the following rests on.                          *)
THEOREM PhaseInvariance ==
  ASSUME ~HasCursor PROVE Spec => [](IInv /\ PInv)
<1>1. IInv /\ PInv /\ [Next]_view => (IInv /\ PInv)'
  BY NextIInv, NextPInv DEF Good
<1> QED BY <1>1, InitIInv, InitPInv, PTL DEF Spec

(* The RELEASE_ASSERTs on the phase of the pending ticket hold, on a display *)
(* without a cursor plane (with one they do not: a cursor commit may look at *)
(* the same pending frame again).                                           *)
THEOREM PhasesAgree ==
  ASSUME ~HasCursor PROVE Spec => []TicketPhasesAgree
<1>1. IInv /\ PInv => TicketPhasesAgree
  BY DEF PInv, TicketPhasesAgree
<1> QED BY <1>1, PhaseInvariance, PTL

(* No handler returns with a frame left behind and nothing armed that will   *)
(* look at it: wpeViewDRMRenderBuffer, wpeViewDRMDidPageFlip,               *)
(* renderingFenceFinished, the throttle and the chrome tick.                *)
THEOREM WakeupsArmed ==
  ASSUME ~HasCursor PROVE Spec => []WakeupArmed
<1>1. IInv /\ PInv => WakeupArmed
  <2>1. ASSUME Quiet(view) PROVE WakeupArmed
    BY <2>1 DEF Quiet, Calm, Armed, WakeupArmed, Requested, NoFrame, FenceWaits, Flips, OnItsWay
  <2> QED BY <2>1 DEF PInv, WakeupArmed, Running
<1> QED BY <1>1, PhaseInvariance, PTL

(* No buffer returns to the producer while the GPU still draws into it, if   *)
(* the view waits for fences itself (FenceNeeded: frames are copied, or the *)
(* plane takes no fence).                                                   *)
THEOREM NoneReleasedEarly ==
  ASSUME ~HasCursor, FenceNeeded PROVE Spec => []NoEarlyRelease
<1>1. IInv /\ PInv => NoEarlyRelease
  BY DEF PInv, NoEarlyRelease
<1> QED BY <1>1, PhaseInvariance, PTL

(* Nor is a frame shown before the GPU finished it.                         *)
THEOREM ShownFinished ==
  ASSUME ~HasCursor, FenceNeeded PROVE Spec => []ShownFramesFinished
<1>1. IInv /\ PInv => ShownFramesFinished
  BY DEF PInv, Quiet, Calm, Books, ShownFramesFinished, Running
<1> QED BY <1>1, PhaseInvariance, PTL

(* What the display engine scans out is never free for a copy, and with the  *)
(* two slots of a scanout pool a copy that may start finds one.             *)
THEOREM SlotsOwned ==
  ASSUME ~HasCursor, Cardinality(Slots) >= 2 PROVE Spec => []TargetsOwned
<1>1. ASSUME NEW x PROVE Slots \ {x} # {}
  <2>1. SUFFICES ASSUME Slots \subseteq {x} PROVE FALSE
    OBVIOUS
  <2>2. IsFiniteSet({x}) /\ Cardinality({x}) = 1
    BY FS_Singleton
  <2>3. Cardinality(Slots) <= Cardinality({x}) /\ Cardinality(Slots) \in Nat
    BY <2>1, <2>2, FS_Subset, FS_CardinalityType
  <2> QED BY <2>2, <2>3
<1>2. IInv /\ PInv => TargetsOwned
  <2>1. ASSUME Quiet(view), ~view.kms.busy PROVE WritableSlots(view) # {}
    <3>1. WritableSlots(view) = Slots \ {view.scanout.committed, None}
      BY <2>1 DEF Quiet, Calm, Screened, Owns, WritableSlots, SpareSlots
    <3>2. None \notin Slots
      BY QueueAssumption
    <3> QED BY <1>1, <3>1, <3>2
  <2> QED BY <2>1 DEF PInv, TargetsOwned, SpareTarget, Running
<1> QED BY <1>2, PhaseInvariance, PTL

(* A frame drawn for an older geometry is discarded, never submitted, however *)
(* long it was queued or waited for its fence (RequestUpdate).              *)
THEOREM ObsoleteDiscarded ==
  ASSUME ~HasCursor PROVE Spec => NoObsoleteSubmit
<1>1. IInv /\ PInv /\ [Next]_view =>
        [Submits(view, view') =>
           view'.queue.pendingTicket.epoch = view'.queue.geometryEpoch]_view
  BY NextPInv DEF Good
<1> QED BY <1>1, PhaseInvariance, PTL DEF Spec, NoObsoleteSubmit
-----------------------------------------------------------------------------
(* The page a target holds, 0 for none.                                     *)
FrameAt(v, t) == IF t = None THEN 0 ELSE v.scanout.frame[t]

(* The frame the display shows once what is under way has finished.         *)
Coming(v) ==
  IF v.queue.pendingBuffer # None THEN v.queue.pendingTicket.serial
  ELSE v.queue.committedTicket.serial

(* Frames were accepted in the order committed, pending, queued.            *)
Ordered(q) ==
  /\ q.committedTicket.serial <= q.nextFrameSerial
  /\ q.pendingBuffer # None =>
       /\ q.committedTicket.serial < q.pendingTicket.serial
       /\ q.pendingTicket.serial <= q.nextFrameSerial
  /\ q.queuedBuffer # None =>
       /\ q.committedTicket.serial < q.queuedTicket.serial
       /\ q.queuedTicket.serial <= q.nextFrameSerial
  /\ q.pendingBuffer # None /\ q.queuedBuffer # None =>
       q.pendingTicket.serial < q.queuedTicket.serial

(* The committed target holds the committed page, the submitted one the     *)
(* page that is coming.                                                     *)
Drawn(v) ==
  /\ FrameAt(v, v.scanout.committed) = v.queue.committedTicket.serial
  /\ v.scanout.pending # None => FrameAt(v, v.scanout.pending) = Coming(v)

(* A base page of the generation of now is the committed page, one that was *)
(* prepared with a submitted frame is that frame's.                         *)
Based(v) ==
  /\ v.chrome.baseGeneration <= v.chrome.generation
  /\ v.queue.committedBuffer # None => v.chrome.generation # 0
  /\ v.chrome.baseGeneration # 0 /\ v.chrome.baseGeneration = v.chrome.generation =>
       v.chrome.basePage = v.queue.committedTicket.serial
  /\ v.chrome.preparedGeneration # 0 /\ v.queue.pendingBuffer # None
       /\ v.scanout.pending # None =>
       v.chrome.preparedPage = v.queue.pendingTicket.serial

(* Pages are copied into slots, or scanned out where they are.              *)
InPlace(v) ==
  IF CopyPath THEN {v.scanout.committed, v.scanout.pending} \subseteq Slots \cup {None}
  ELSE /\ v.scanout.committed = v.queue.committedBuffer
       /\ v.scanout.pending \in {None, v.queue.pendingBuffer}
       /\ v.chrome.preparedGeneration = 0

Pages(v) == Ordered(v.queue) /\ Drawn(v) /\ Based(v) /\ InPlace(v)

(* With synchronous commits only a commit that shows nothing awaits a flip. *)
Immediate == Atomic /\ SyncCommit /\ CopyPath
Blank(v) == Immediate /\ v.kms.busy => v.kms.next = None

(* What Pages speaks of is the same.                                        *)
SamePages(v, w) ==
  /\ w.scanout.frame = v.scanout.frame
  /\ w.scanout.committed = v.scanout.committed /\ w.scanout.pending = v.scanout.pending
  /\ w.chrome.generation = v.chrome.generation
  /\ w.chrome.baseGeneration = v.chrome.baseGeneration
  /\ w.chrome.basePage = v.chrome.basePage
  /\ w.chrome.preparedGeneration = v.chrome.preparedGeneration
  /\ w.chrome.preparedPage = v.chrome.preparedPage
  /\ SameBuffers(v, w)
  /\ w.queue.pendingTicket.serial = v.queue.pendingTicket.serial
  /\ w.queue.queuedTicket.serial = v.queue.queuedTicket.serial
  /\ w.queue.committedTicket.serial = v.queue.committedTicket.serial
  /\ w.queue.nextFrameSerial = v.queue.nextFrameSerial

LEMMA SamePagesKept ==
  ASSUME NEW v, NEW w, Pages(v), SamePages(v, w)
  PROVE  Pages(w)
  BY DEF Pages, SamePages, SameBuffers, Ordered, Drawn, FrameAt, Coming, Based, InPlace

(* The queued and the committed frame stay, what the display shows is not   *)
(* written, and of the pending frame nothing changes or it is dropped.      *)
Steady(v, w) ==
  /\ w.queue.committedBuffer = v.queue.committedBuffer
  /\ w.queue.committedTicket = v.queue.committedTicket
  /\ w.queue.queuedBuffer = v.queue.queuedBuffer
  /\ w.queue.queuedTicket = v.queue.queuedTicket
  /\ w.queue.nextFrameSerial = v.queue.nextFrameSerial
  /\ w.scanout.committed = v.scanout.committed
  /\ FrameAt(w, v.scanout.committed) = FrameAt(v, v.scanout.committed)
  /\ \/ /\ w.queue.pendingBuffer = v.queue.pendingBuffer
        /\ w.queue.pendingTicket.serial = v.queue.pendingTicket.serial
        /\ w.fences.quarantine = v.fences.quarantine
     \/ /\ w.queue.pendingBuffer = None
        /\ v.fences.quarantine \subseteq w.fences.quarantine
        /\ w.fences.quarantine \subseteq
             v.fences.quarantine \cup ({v.queue.pendingBuffer} \ {None})

LEMMA SteadyTwice ==
  ASSUME NEW u, NEW v, NEW w, Steady(u, v), Steady(v, w)
  PROVE  Steady(u, w)
<1>1. /\ w.queue.committedBuffer = u.queue.committedBuffer
      /\ w.queue.committedTicket = u.queue.committedTicket
      /\ w.queue.queuedBuffer = u.queue.queuedBuffer
      /\ w.queue.queuedTicket = u.queue.queuedTicket
      /\ w.queue.nextFrameSerial = u.queue.nextFrameSerial
      /\ w.scanout.committed = u.scanout.committed
      /\ FrameAt(w, u.scanout.committed) = FrameAt(u, u.scanout.committed)
  BY Zenon DEF Steady
<1>2. \/ /\ w.queue.pendingBuffer = u.queue.pendingBuffer
         /\ w.queue.pendingTicket.serial = u.queue.pendingTicket.serial
         /\ w.fences.quarantine = u.fences.quarantine
      \/ /\ w.queue.pendingBuffer = None
         /\ u.fences.quarantine \subseteq w.fences.quarantine
         /\ w.fences.quarantine \subseteq
              u.fences.quarantine \cup ({u.queue.pendingBuffer} \ {None})
  BY DEF Steady
<1> QED BY Zenon, <1>1, <1>2 DEF Steady

(* abortPendingCommit drops the pending frame and what was prepared with it. *)
LEMMA AbortPages ==
  ASSUME NEW v, Consistent(v), Pages(v)
  PROVE  LET w == AbortPending(v) IN
         /\ Pages(w) /\ Steady(v, w) /\ w.kms = v.kms
         /\ w.queue.pendingBuffer = None /\ w.scanout.pending = None
         /\ w.scanout.frame = v.scanout.frame
         /\ w.update.lastCommitSync = v.update.lastCommitSync
<1> DEFINE b == v.queue.pendingBuffer
           web == b # None
           c == CompletePending(v)
           r == RetireDiscarded(c, b, v.fences.pending)
           w == IF web THEN r ELSE v
           q == [w.queue EXCEPT !.pendingBuffer = None, !.pendingTicket = NoTicket]
           u == [w.update EXCEPT !.fenceWait = FALSE, !.dropped = web]
           f == [w.fences EXCEPT !.taken = FALSE, !.pending = FALSE]
           h == [w.chrome EXCEPT !.preparedGeneration = 0, !.preparedPage = 0]
           s == [w.scanout EXCEPT !.pending = None]
           a == [w EXCEPT !.queue = q, !.update = u, !.fences = f, !.chrome = h,
                          !.scanout = s]
<1>1. /\ v \in ViewType /\ v.fences.pending \in BOOLEAN /\ web \in BOOLEAN
      /\ v.queue \in QueueType /\ v.scanout \in ScanoutType /\ v.chrome \in ChromeType
      /\ v.fences \in FencesType
  BY DEF Consistent, ViewType, FencesType
<1>2. /\ w \in ViewType /\ w.update = v.update
      /\ w.scanout = v.scanout /\ w.kms = v.kms /\ w.chrome = v.chrome
      /\ w.queue.queuedBuffer = v.queue.queuedBuffer
      /\ w.queue.queuedTicket = v.queue.queuedTicket
      /\ w.queue.committedBuffer = v.queue.committedBuffer
      /\ w.queue.committedTicket = v.queue.committedTicket
      /\ w.queue.nextFrameSerial = v.queue.nextFrameSerial
      /\ v.fences.quarantine \subseteq w.fences.quarantine
      /\ w.fences.quarantine \subseteq v.fences.quarantine \cup ({b} \ {None})
  <2>1. CASE web
    <3>1. b \in Buffers /\ b \in v.ledger.lent /\ b \notin v.fences.quarantine
      BY <2>1, <1>1 DEF Consistent, Owned, Held, QueueType
    <3>2. /\ c \in ViewType /\ c.update = v.update /\ c.fences = v.fences /\ c.ledger.lent = v.ledger.lent
      BY <2>1, <1>1, CompleteEffect DEF Consistent, ReportsDue
    <3>3. /\ c.scanout = v.scanout /\ c.kms = v.kms /\ c.chrome = v.chrome
          /\ c.queue = [v.queue EXCEPT !.pendingTicket = c.queue.pendingTicket]
      BY <1>1, CompleteFences
    <3> HIDE DEF c
    <3>4. /\ c.queue.queuedBuffer = v.queue.queuedBuffer
          /\ c.queue.queuedTicket = v.queue.queuedTicket
          /\ c.queue.committedBuffer = v.queue.committedBuffer
          /\ c.queue.committedTicket = v.queue.committedTicket
          /\ c.queue.nextFrameSerial = v.queue.nextFrameSerial
      <4> DEFINE n == c.queue.pendingTicket
      <4>1. c.queue = [v.queue EXCEPT !.pendingTicket = n]
        BY <3>3
      <4> HIDE DEF n
      <4> QED BY <4>1, <1>1 DEF QueueType
    <3>5. /\ r \in ViewType /\ r.update = c.update /\ r.queue = c.queue
          /\ r.fences.quarantine \in {c.fences.quarantine, c.fences.quarantine \cup {b}}
      BY <3>1, <3>2, <1>1, RetireEffect
    <3>6. r.scanout = c.scanout /\ r.kms = c.kms /\ r.chrome = c.chrome
      BY <3>1, <3>2, <1>1, RetireFences
    <3> HIDE DEF r
    <3>7. w = r
      BY <2>1
    <3> HIDE DEF w
    <3> QED BY <2>1, <3>2, <3>3, <3>4, <3>5, <3>6, <3>7
  <2>2. CASE ~web
    BY <2>2, <1>1
  <2> QED BY <2>1, <2>2
<1>3. AbortPending(v) = a
  BY DEF AbortPending
<1> HIDE DEF w
<1>4. w.queue \in QueueType /\ w.fences \in FencesType
  BY <1>2 DEF ViewType
<1>5. /\ q.pendingBuffer = None /\ q.queuedBuffer = v.queue.queuedBuffer
      /\ q.queuedTicket = v.queue.queuedTicket
      /\ q.committedBuffer = v.queue.committedBuffer
      /\ q.committedTicket = v.queue.committedTicket
      /\ q.nextFrameSerial = v.queue.nextFrameSerial
  BY <1>2, <1>4 DEF QueueType
<1>6. f.quarantine = w.fences.quarantine
  BY <1>4 DEF FencesType
<1>7. /\ h.preparedGeneration = 0 /\ h.generation = v.chrome.generation
      /\ h.baseGeneration = v.chrome.baseGeneration /\ h.basePage = v.chrome.basePage
  BY <1>1, <1>2 DEF ChromeType
<1>8. /\ s.pending = None /\ s.committed = v.scanout.committed /\ s.frame = v.scanout.frame
  BY <1>2, <1>1 DEF ScanoutType
<1>12. u.lastCommitSync = v.update.lastCommitSync
  BY <1>2 DEF ViewType, UpdateType
<1> HIDE DEF q, u, f, h, s
<1>9. /\ a.update = u /\ a.queue = q /\ a.fences = f /\ a.scanout = s /\ a.chrome = h /\ a.kms = w.kms
  BY <1>2 DEF ViewType
<1> HIDE DEF a
<1>10. Pages(a)
  BY <1>5, <1>7, <1>8, <1>9 DEF Pages, Ordered, Drawn, FrameAt, Coming, Based, InPlace
<1>11. Steady(v, a)
  BY <1>2, <1>5, <1>6, <1>8, <1>9 DEF Steady, FrameAt
<1> QED BY <1>2, <1>3, <1>5, <1>8, <1>9, <1>10, <1>11, <1>12

(* advance changes the phase alone, if anything.                            *)
LEMMA AdvancePages ==
  ASSUME NEW v \in ViewType, NEW phase \in FramePhase
  PROVE  LET w == AdvancePending(v, phase) IN
         /\ w \in ViewType /\ w.scanout = v.scanout /\ w.chrome = v.chrome /\ w.kms = v.kms
         /\ w.fences = v.fences /\ w.update = v.update
         /\ SameBuffers(v, w)
         /\ w.queue.pendingTicket.serial = v.queue.pendingTicket.serial
         /\ w.queue.queuedTicket = v.queue.queuedTicket
         /\ w.queue.committedTicket = v.queue.committedTicket
         /\ w.queue.nextFrameSerial = v.queue.nextFrameSerial
<1> DEFINE t == [v.queue.pendingTicket EXCEPT !.phase = phase]
           q == [v.queue EXCEPT !.pendingTicket = t]
           w == [v EXCEPT !.queue = q]
<1>1. v.queue \in QueueType /\ v.queue.pendingTicket \in Ticket
  BY DEF ViewType, QueueType
<1>2. t \in Ticket /\ t.serial = v.queue.pendingTicket.serial
  BY <1>1 DEF Ticket
<1> HIDE DEF t
<1>3. /\ q \in QueueType /\ q.pendingTicket = t
      /\ q.pendingBuffer = v.queue.pendingBuffer /\ q.queuedBuffer = v.queue.queuedBuffer
      /\ q.committedBuffer = v.queue.committedBuffer
      /\ q.queuedTicket = v.queue.queuedTicket /\ q.committedTicket = v.queue.committedTicket
      /\ q.nextFrameSerial = v.queue.nextFrameSerial
  BY <1>1, <1>2 DEF QueueType
<1> HIDE DEF q
<1>4. /\ w \in ViewType /\ w.queue = q /\ w.scanout = v.scanout /\ w.chrome = v.chrome
      /\ w.kms = v.kms /\ w.fences = v.fences /\ w.update = v.update
  BY <1>3 DEF ViewType
<1>5. w = [v EXCEPT !.queue.pendingTicket.phase = phase]
  BY DEF t, q
<1> HIDE DEF w
<1>6. CASE CanAdvance(v.queue.pendingTicket.phase, phase)
  <2>1. AdvancePending(v, phase) = w
    BY <1>5, <1>6 DEF AdvancePending
  <2> QED BY <1>2, <1>3, <1>4, <2>1 DEF SameBuffers
<1>7. CASE ~CanAdvance(v.queue.pendingTicket.phase, phase)
  BY <1>7 DEF AdvancePending, ViewType, SameBuffers
<1> QED BY <1>6, <1>7

LEMMA AdvanceSamePages ==
  ASSUME NEW v \in ViewType, NEW phase \in FramePhase, Pages(v)
  PROVE  LET w == AdvancePending(v, phase) IN Pages(w) /\ Steady(v, w)
<1> DEFINE w == AdvancePending(v, phase)
<1>1. /\ w \in ViewType /\ w.scanout = v.scanout /\ w.chrome = v.chrome /\ w.kms = v.kms
      /\ w.fences = v.fences /\ w.update = v.update
      /\ SameBuffers(v, w)
      /\ w.queue.pendingTicket.serial = v.queue.pendingTicket.serial
      /\ w.queue.queuedTicket = v.queue.queuedTicket
      /\ w.queue.committedTicket = v.queue.committedTicket
      /\ w.queue.nextFrameSerial = v.queue.nextFrameSerial
  BY AdvancePages
<1> HIDE DEF w
<1>2. SamePages(v, w)
  BY <1>1 DEF SamePages
<1>3. Steady(v, w)
  BY <1>1 DEF Steady, SameBuffers, FrameAt
<1> QED BY <1>2, <1>3, SamePagesKept DEF w

(* A web frame becomes the committed one.                                   *)
LEMMA CommitPagePages ==
  ASSUME NEW v, Consistent(v), v.queue.pendingBuffer # None
  PROVE  LET w == CommitPage(v) IN
         /\ w \in ViewType /\ w.scanout = v.scanout /\ w.chrome = v.chrome /\ w.kms = v.kms
         /\ w.fences.quarantine = v.fences.quarantine
         /\ w.queue.pendingBuffer = None
         /\ w.queue.committedBuffer = v.queue.pendingBuffer
         /\ w.queue.committedTicket.serial = v.queue.pendingTicket.serial
         /\ w.queue.queuedBuffer = v.queue.queuedBuffer
         /\ w.queue.queuedTicket = v.queue.queuedTicket
         /\ w.queue.nextFrameSerial = v.queue.nextFrameSerial
<1> DEFINE b == v.queue.pendingBuffer
           old == v.queue.committedBuffer
           p == AdvancePending(v, "Presented")
           r == IF old = None THEN p ELSE BufferReleased(p, old)
           c == CompletePending(r)
           q == [c.queue EXCEPT !.committedBuffer = b, !.committedTicket = c.queue.pendingTicket,
                                !.pendingBuffer = None, !.pendingTicket = NoTicket]
           w == [c EXCEPT !.queue = q]
<1>1. /\ v \in ViewType /\ b \in Buffers /\ old \in Buffers \cup {None}
      /\ "Presented" \in FramePhase
  BY DEF Consistent, ViewType, QueueType, FramePhase
<1>2. /\ p \in ViewType /\ p.scanout = v.scanout /\ p.chrome = v.chrome /\ p.kms = v.kms
      /\ p.fences = v.fences /\ SameBuffers(v, p)
      /\ p.queue.pendingTicket.serial = v.queue.pendingTicket.serial
      /\ p.queue.queuedTicket = v.queue.queuedTicket
      /\ p.queue.nextFrameSerial = v.queue.nextFrameSerial
  BY <1>1, AdvancePages
<1> HIDE DEF p
<1>3. /\ r \in ViewType /\ r.scanout = p.scanout /\ r.chrome = p.chrome /\ r.kms = p.kms
      /\ r.fences.quarantine = p.fences.quarantine /\ r.queue = p.queue
  <2>1. CASE old = None
    BY <1>2, <2>1
  <2>2. CASE old # None
    BY <1>1, <1>2, <2>2, ReleasedEffect, ReleasedFences
  <2> QED BY <2>1, <2>2
<1> HIDE DEF r
<1>4. /\ c \in ViewType /\ c.scanout = r.scanout /\ c.kms = r.kms /\ c.chrome = r.chrome
      /\ c.fences = r.fences
      /\ c.queue = [r.queue EXCEPT !.pendingTicket = c.queue.pendingTicket]
      /\ c.queue.pendingTicket.serial = r.queue.pendingTicket.serial
  BY <1>2, <1>3, CompleteFences DEF SameBuffers
<1> HIDE DEF c
<1>5. /\ c.queue.queuedBuffer = v.queue.queuedBuffer
      /\ c.queue.queuedTicket = v.queue.queuedTicket
      /\ c.queue.nextFrameSerial = v.queue.nextFrameSerial
  <2> DEFINE n == c.queue.pendingTicket
  <2>1. c.queue = [r.queue EXCEPT !.pendingTicket = n] /\ r.queue \in QueueType
    BY <1>3, <1>4 DEF ViewType
  <2> HIDE DEF n
  <2> QED BY <2>1, <1>2, <1>3 DEF QueueType, SameBuffers
<1>6. c.queue \in QueueType
  BY <1>4 DEF ViewType
<1>7. /\ q.pendingBuffer = None /\ q.committedBuffer = b /\ q.committedTicket = c.queue.pendingTicket
      /\ q.queuedBuffer = c.queue.queuedBuffer /\ q.queuedTicket = c.queue.queuedTicket
      /\ q.nextFrameSerial = c.queue.nextFrameSerial
  BY <1>6 DEF QueueType
<1>8. CommitPage(v) = w
  BY DEF CommitPage, p, r, c
<1>9. CommitPage(v) \in ViewType
  BY PageConsistent DEF Consistent
<1> HIDE DEF q
<1>10. /\ w.queue = q /\ w.scanout = c.scanout /\ w.chrome = c.chrome /\ w.kms = c.kms
       /\ w.fences = c.fences
  BY <1>4 DEF ViewType
<1> HIDE DEF w
<1> QED BY <1>2, <1>3, <1>4, <1>5, <1>7, <1>8, <1>9, <1>10

(* What a finished commit does to the frames and to what is shown.          *)
Finished(v, w) ==
  /\ w.queue.pendingBuffer = None /\ w.scanout.pending = None
  /\ w.scanout.frame = v.scanout.frame /\ w.scanout.committed = Shows(v) /\ w.kms = v.kms
  /\ w.fences.quarantine = v.fences.quarantine
  /\ w.queue.queuedBuffer = v.queue.queuedBuffer
  /\ w.queue.queuedTicket = v.queue.queuedTicket
  /\ w.queue.nextFrameSerial = v.queue.nextFrameSerial
  /\ IF v.queue.pendingBuffer # None
       THEN /\ w.queue.committedBuffer = v.queue.pendingBuffer
            /\ w.queue.committedTicket.serial = v.queue.pendingTicket.serial
       ELSE /\ w.queue.committedBuffer = v.queue.committedBuffer
            /\ w.queue.committedTicket = v.queue.committedTicket

(* A new page begins a new generation, with the base prepared for it or     *)
(* with none.                                                               *)
LEMMA AdvanceGenerationBased ==
  ASSUME NEW chrome \in ChromeType, chrome.baseGeneration <= chrome.generation
  PROVE  LET h == AdvanceGeneration(chrome) IN
         /\ h.generation # 0 /\ h.baseGeneration <= h.generation
         /\ h.baseGeneration = h.generation =>
              chrome.preparedGeneration # 0 /\ h.basePage = chrome.preparedPage
         /\ chrome.preparedGeneration = 0 \/ h.preparedGeneration = 0
         /\ chrome.preparedGeneration = 0 => h.preparedGeneration = 0
<1>1. CASE chrome.preparedGeneration = 0
  BY <1>1 DEF ChromeType, AdvanceGeneration
<1>2. CASE chrome.preparedGeneration # 0
  <2> DEFINE g == chrome.generation + 1
             p == chrome.preparedPage
             z == [chrome EXCEPT !.generation = g, !.baseGeneration = g, !.basePage = p]
             y == [z EXCEPT !.preparedGeneration = 0, !.preparedPage = 0]
  <2>1. AdvanceGeneration(chrome) = y
    BY <1>2 DEF AdvanceGeneration
  <2>2. g \in Nat /\ p \in Nat /\ g # 0
    BY DEF ChromeType
  <2> HIDE DEF g, p
  <2>3. z \in ChromeType /\ z.generation = g /\ z.baseGeneration = g /\ z.basePage = p
    BY <2>2 DEF ChromeType
  <2> HIDE DEF z
  <2>4. y.generation = g /\ y.baseGeneration = g /\ y.basePage = p /\ y.preparedGeneration = 0
    BY <2>3 DEF ChromeType
  <2> HIDE DEF y
  <2> QED BY <1>2, <2>1, <2>2, <2>4 DEF p
<1> QED BY <1>1, <1>2

LEMMA FinishPages ==
  ASSUME NEW v, Consistent(v), Pages(v),
         v.queue.pendingBuffer # None => v.scanout.pending # None
  PROVE  LET w == FinishBufferCommit(v) IN
         Pages(w) /\ Finished(v, w) /\ w.update = v.update
<1> DEFINE web == v.queue.pendingBuffer # None
           w == IF web THEN CommitPage(v) ELSE v
           c == CommitScanout(w)
           x == IF v.scanout.pending # None THEN c ELSE w
           h == IF web THEN AdvanceGeneration(v.chrome) ELSE v.chrome
           k == [h EXCEPT !.pending = h.stale]
           y == [x EXCEPT !.chrome = k]
<1>1. /\ v \in ViewType /\ v.chrome \in ChromeType /\ v.chrome.preparedGeneration \in Nat
      /\ v.chrome.baseGeneration <= v.chrome.generation
  BY DEF Consistent, ViewType, ChromeType, Pages, Based
<1>2. CASE ~web /\ v.scanout.pending = None
  <2>1. FinishBufferCommit(v) = v
    BY <1>2 DEF FinishBufferCommit
  <2> QED BY <1>2, <2>1 DEF Finished, Shows
<1>3. CASE web \/ v.scanout.pending # None
  <2>1. /\ w \in ViewType /\ w.update = v.update /\ w.scanout = v.scanout /\ w.chrome = v.chrome /\ w.kms = v.kms
        /\ w.fences.quarantine = v.fences.quarantine
        /\ w.queue.pendingBuffer = None
        /\ w.queue.queuedBuffer = v.queue.queuedBuffer
        /\ w.queue.queuedTicket = v.queue.queuedTicket
        /\ w.queue.nextFrameSerial = v.queue.nextFrameSerial
        /\ IF web
             THEN /\ w.queue.committedBuffer = v.queue.pendingBuffer
                  /\ w.queue.committedTicket.serial = v.queue.pendingTicket.serial
             ELSE /\ w.queue.committedBuffer = v.queue.committedBuffer
                  /\ w.queue.committedTicket = v.queue.committedTicket
    BY <1>1, CommitPagePages, PageConsistent
  <2> HIDE DEF w
  <2>2. v.scanout.pending # None
    BY <1>3
  <2>3. /\ c \in ViewType /\ c.update = w.update /\ c.queue = w.queue /\ c.chrome = w.chrome /\ c.kms = w.kms
        /\ c.fences = w.fences
        /\ c.scanout.pending = None /\ c.scanout.committed = w.scanout.pending
        /\ c.scanout.frame = w.scanout.frame
    BY <2>1 DEF CommitScanout, ViewType, ScanoutType, Targets
  <2>4. x = c
    BY <2>2
  <2> HIDE DEF c, x
  <2>5. h \in ChromeType
    BY <1>1, AdvanceGenerationType
  <2>6. /\ h.baseGeneration <= h.generation
        /\ v.chrome.preparedGeneration = 0 => h.preparedGeneration = 0
        /\ web => /\ h.generation # 0
                  /\ h.baseGeneration = h.generation =>
                       v.chrome.preparedGeneration # 0 /\ h.basePage = v.chrome.preparedPage
        /\ ~web => h = v.chrome
    BY <1>1, AdvanceGenerationBased
  <2> HIDE DEF h
  <2>7. /\ k.generation = h.generation /\ k.baseGeneration = h.baseGeneration
        /\ k.basePage = h.basePage /\ k.preparedGeneration = h.preparedGeneration
    BY <2>5 DEF ChromeType
  <2> HIDE DEF k
  <2>8. /\ y.queue = c.queue /\ y.scanout = c.scanout /\ y.kms = c.kms /\ y.fences = c.fences
        /\ y.chrome = k /\ y.update = c.update
    BY <2>3, <2>4 DEF ViewType
  <2>9. FinishBufferCommit(v) = y
    BY <1>3 DEF FinishBufferCommit, w, x, c, h, k
  <2> HIDE DEF y
  <2>10. Finished(v, y)
    BY <2>1, <2>2, <2>3, <2>8 DEF Finished, Shows
  <2>11. Ordered(y.queue)
    BY <2>10 DEF Finished, Pages, Ordered
  <2>12. Drawn(y)
    BY <2>2, <2>10 DEF Finished, Pages, Drawn, FrameAt, Coming, Shows
  <2>13. Based(y)
    BY <2>2, <2>6, <2>7, <2>8, <2>10 DEF Finished, Pages, Based
  <2>14. InPlace(y)
    BY <2>2, <2>6, <2>7, <2>8, <2>10 DEF Finished, Pages, InPlace, Shows
  <2> QED BY <2>1, <2>3, <2>8, <2>9, <2>10, <2>11, <2>12, <2>13, <2>14 DEF Pages
<1> QED BY <1>2, <1>3

(* A synchronous commit finishes at once, nothing else does.                *)
LEMMA SynchronousPages ==
  ASSUME NEW v, Consistent(v), Pages(v),
         v.queue.pendingBuffer # None /\ v.update.lastCommitSync => v.scanout.pending # None
  PROVE  LET w == CompleteSynchronous(v) IN
         /\ Pages(w)
         /\ IF v.update.lastCommitSync
              THEN Finished(v, w) /\ ~w.update.lastCommitSync ELSE w = v
<1> DEFINE u == [v.update EXCEPT !.lastCommitSync = FALSE, !.flags = @ \ {"BufferUpdateRequested"}]
           x == [v EXCEPT !.update = u]
<1>1. CASE v.update.lastCommitSync
  <2>1. u \in UpdateType /\ ~u.lastCommitSync
    BY DEF Consistent, ViewType, UpdateType
  <2> HIDE DEF u
  <2>2. /\ x \in ViewType /\ x.update = u
        /\ x.queue = v.queue /\ x.fences = v.fences /\ x.ledger = v.ledger
        /\ x.scanout = v.scanout /\ x.chrome = v.chrome /\ x.kms = v.kms
        /\ x.fault = v.fault /\ x.disposed = v.disposed
    BY <2>1 DEF Consistent, ViewType
  <2>3. CompleteSynchronous(v) = FinishBufferCommit(x)
    BY <1>1 DEF CompleteSynchronous, u
  <2> HIDE DEF x
  <2>4. Consistent(x)
    BY <2>2 DEF Consistent, Owned, Held, ReportsDue
  <2>5. Pages(x)
    BY <2>2, SamePagesKept DEF SamePages, SameBuffers
  <2> DEFINE w == FinishBufferCommit(x)
  <2>6. Pages(w) /\ Finished(x, w) /\ w.update = x.update
    BY <1>1, <2>2, <2>4, <2>5, FinishPages
  <2> HIDE DEF w
  <2>8. Finished(v, w)
    BY <2>2, <2>6 DEF Finished, Shows
  <2> QED BY <1>1, <2>1, <2>2, <2>3, <2>6, <2>8 DEF w
<1>2. CASE ~v.update.lastCommitSync
  BY <1>2 DEF CompleteSynchronous
<1> QED BY <1>1, <1>2

(* A target that may be submitted holds the page asked for, and the base    *)
(* prepared on the way, if any, is of that page too.                        *)
Painted(v, t, source, page) ==
  /\ TargetOf(v, t) /\ DrawnOf(v, t) /\ Pages(t.v)
  /\ FrameAt(t.v, v.scanout.committed) = FrameAt(v, v.scanout.committed)
  /\ t.v.chrome.generation = v.chrome.generation
  /\ t.v.chrome.baseGeneration = v.chrome.baseGeneration
  /\ t.v.chrome.basePage = v.chrome.basePage
  /\ t.fb # None =>
       /\ t.fb \in IF CopyPath THEN Slots ELSE {source}
       /\ FrameAt(t.v, t.fb) = page
       /\ t.v.chrome.preparedGeneration # 0 =>
            t.v.chrome.preparedPage = page \/ v.queue.pendingBuffer = None

(* What drawing into slot s leaves of the pages.                            *)
LEMMA DrawPagePages ==
  ASSUME NEW v, Consistent(v), Pages(v), v.scanout.pending = None, CopyPath,
         NEW s \in WritableSlots(v), NEW drawn, NEW w,
         w.queue = v.queue, w.scanout.committed = v.scanout.committed,
         w.scanout.pending = v.scanout.pending,
         \A x \in Targets \ {s} : w.scanout.frame[x] = v.scanout.frame[x],
         w.chrome.generation = v.chrome.generation,
         w.chrome.baseGeneration = v.chrome.baseGeneration,
         w.chrome.basePage = v.chrome.basePage
  PROVE  Pages(w) /\ FrameAt(w, v.scanout.committed) = FrameAt(v, v.scanout.committed)
<1>1. v.scanout.committed \in Targets \cup {None} /\ v.scanout.committed # s
  BY DEF Consistent, ViewType, ScanoutType, WritableSlots, SpareSlots
<1>2. FrameAt(w, v.scanout.committed) = FrameAt(v, v.scanout.committed)
  BY <1>1 DEF FrameAt
<1>3. Ordered(w.queue) /\ Drawn(w)
  BY <1>2 DEF Pages, Drawn
<1>4. Based(w) /\ InPlace(w)
  BY DEF Pages, Based, InPlace
<1> QED BY <1>2, <1>3, <1>4 DEF Pages

(* drmScanoutBufferForRender, of the pending frame or the committed one.    *)
LEMMA RenderPages ==
  ASSUME NEW v, Consistent(v), Pages(v), v.scanout.pending = None,
         NEW source \in Buffers, NEW page \in Nat, NEW capture \in BOOLEAN,
         NEW t \in RenderTargets(v, source, page, capture),
         \/ source = v.queue.pendingBuffer
         \/ source = v.queue.committedBuffer /\ page = v.queue.committedTicket.serial
  PROVE  /\ Painted(v, t, source, page)
         /\ t.fb # None /\ t.v.chrome.preparedGeneration # 0 => t.v.chrome.preparedPage = page
<1> DEFINE direct == [v EXCEPT !.scanout.frame[source] = page]
           D(s, drawn, g) == DrawPage(v, s, drawn, page, g)
<1>1. /\ v \in ViewType /\ TargetOf(v, t) /\ DrawnOf(v, t) /\ source # None /\ source \in Targets
      /\ v.scanout \in ScanoutType
  BY RenderTargetsType, RenderTargetsDrawn, QueueAssumption DEF Consistent, Targets, ViewType
<1>2. \/ t = [v |-> v, fb |-> None]
      \/ ~CopyPath /\ t = [v |-> direct, fb |-> source]
      \/ CopyPath /\ \E s \in WritableSlots(v), g \in BaseGenerations(v, capture) :
           t \in {[v |-> D(s, page, g), fb |-> s], [v |-> D(s, 0, g), fb |-> None]}
  BY DEF RenderTargets, NoTarget
<1>3. CASE t = [v |-> v, fb |-> None]
  BY <1>1, <1>3 DEF Painted
<1>4. CASE ~CopyPath /\ t = [v |-> direct, fb |-> source]
  <2>1. /\ direct.queue = v.queue /\ direct.chrome = v.chrome
        /\ direct.scanout.pending = None /\ direct.scanout.committed = v.scanout.committed
        /\ direct.scanout.frame[source] = page
        /\ \A x \in Targets \ {source} : direct.scanout.frame[x] = v.scanout.frame[x]
    BY <1>1 DEF ViewType, ScanoutType
  <2> HIDE DEF direct
  <2>2. v.scanout.committed = v.queue.committedBuffer /\ v.chrome.preparedGeneration = 0
    BY <1>4 DEF Pages, InPlace
  <2>3. v.scanout.committed = source => page = v.queue.committedTicket.serial
    BY <1>1, <2>2 DEF Consistent, Owned
  <2>4. v.scanout.committed \in Targets \cup {None}
    BY <1>1 DEF ScanoutType
  <2>5. FrameAt(direct, v.scanout.committed) = FrameAt(v, v.scanout.committed)
    BY <1>1, <2>1, <2>3, <2>4 DEF FrameAt, Pages, Drawn
  <2>6. Ordered(direct.queue) /\ Drawn(direct) /\ Based(direct) /\ InPlace(direct)
    BY <1>4, <2>1, <2>5 DEF Pages, Drawn, Based, InPlace
  <2>7. FrameAt(direct, source) = page
    BY <1>1, <2>1 DEF FrameAt
  <2> QED BY <1>1, <1>4, <2>1, <2>2, <2>5, <2>6, <2>7 DEF Painted, Pages
<1>5. ASSUME CopyPath, NEW s \in WritableSlots(v), NEW g \in BaseGenerations(v, capture),
             NEW drawn, t.v = D(s, drawn, g), t.fb \in {s, None}, t.fb = s => drawn = page
      PROVE  /\ Painted(v, t, source, page)
             /\ t.fb # None /\ t.v.chrome.preparedGeneration # 0 => t.v.chrome.preparedPage = page
  <2> DEFINE h == PrepareBase(v.chrome, g, page)
  <2>1. /\ t.v.queue = v.queue /\ t.v.scanout.committed = v.scanout.committed
        /\ t.v.scanout.pending = v.scanout.pending
        /\ \A x \in Targets \ {s} : t.v.scanout.frame[x] = v.scanout.frame[x]
        /\ s \in Targets => t.v.scanout.frame[s] = drawn
        /\ t.v.chrome = h
    BY <1>1, <1>5 DEF DrawPage, ViewType, ScanoutType
  <2>2. /\ h.generation = v.chrome.generation /\ h.baseGeneration = v.chrome.baseGeneration
        /\ h.basePage = v.chrome.basePage
        /\ h.preparedGeneration # 0 => h.preparedPage = page
    BY <1>1 DEF PrepareBase, ViewType, ChromeType
  <2> HIDE DEF h, D
  <2>3. Pages(t.v) /\ FrameAt(t.v, v.scanout.committed) = FrameAt(v, v.scanout.committed)
    BY <1>5, <2>1, <2>2, DrawPagePages
  <2>4. s \in Slots /\ s \in Targets /\ s # None
    BY SpareSlotsAreTargets, QueueAssumption DEF Targets
  <2>5. t.fb # None => t.fb \in Slots /\ FrameAt(t.v, t.fb) = page
    BY <1>5, <2>1, <2>4 DEF FrameAt
  <2> QED BY <1>1, <1>5, <2>1, <2>2, <2>3, <2>5 DEF Painted
<1>6. CASE CopyPath /\ \E s \in WritableSlots(v), g \in BaseGenerations(v, capture) :
           t \in {[v |-> D(s, page, g), fb |-> s], [v |-> D(s, 0, g), fb |-> None]}
  <2>1. PICK s \in WritableSlots(v), g \in BaseGenerations(v, capture) :
          t \in {[v |-> D(s, page, g), fb |-> s], [v |-> D(s, 0, g), fb |-> None]}
    BY <1>6
  <2>2. s # None
    BY SpareSlotsAreTargets, QueueAssumption
  <2> HIDE DEF D
  <2>3. \/ t.v = D(s, page, g) /\ t.fb = s
        \/ t.v = D(s, 0, g) /\ t.fb = None
    BY <2>1
  <2> QED BY <1>5, <1>6, <2>2, <2>3
<1> QED BY <1>2, <1>3, <1>4, <1>6

(* nextChromeOverlayBuffer, over the base page of the committed frame.      *)
LEMMA OverlayPages ==
  ASSUME NEW v, Consistent(v), Pages(v), v.scanout.pending = None, CopyPath,
         v.queue.pendingBuffer = None,
         v.chrome.basePage = v.queue.committedTicket.serial,
         NEW t \in OverlayTargets(v)
  PROVE  Painted(v, t, None, v.queue.committedTicket.serial)
<1> DEFINE D(s) == [v EXCEPT !.scanout.frame[s] = v.chrome.basePage, !.chrome.stale = FALSE]
<1>1. v \in ViewType /\ TargetOf(v, t) /\ DrawnOf(v, t)
  BY OverlayTargetsType, OverlayTargetsDrawn DEF Consistent
<1>2. \/ t = [v |-> v, fb |-> None]
      \/ \E s \in WritableSlots(v) : t = [v |-> D(s), fb |-> s]
  BY DEF OverlayTargets, NoTarget
<1>3. CASE t = [v |-> v, fb |-> None]
  BY <1>1, <1>3 DEF Painted
<1>4. ASSUME NEW s \in WritableSlots(v), t = [v |-> D(s), fb |-> s]
      PROVE  Painted(v, t, None, v.queue.committedTicket.serial)
  <2>1. s \in Slots /\ s \in Targets /\ s # None
    BY SpareSlotsAreTargets, QueueAssumption DEF Targets
  <2>2. /\ D(s).queue = v.queue /\ D(s).scanout.pending = v.scanout.pending
        /\ D(s).scanout.committed = v.scanout.committed
        /\ \A x \in Targets \ {s} : D(s).scanout.frame[x] = v.scanout.frame[x]
        /\ D(s).scanout.frame[s] = v.chrome.basePage
        /\ D(s).chrome.generation = v.chrome.generation
        /\ D(s).chrome.baseGeneration = v.chrome.baseGeneration
        /\ D(s).chrome.basePage = v.chrome.basePage
    BY <1>1, <2>1 DEF ViewType, ScanoutType, ChromeType
  <2> HIDE DEF D
  <2>3. Pages(D(s)) /\ FrameAt(D(s), v.scanout.committed) = FrameAt(v, v.scanout.committed)
    BY <2>2, DrawPagePages
  <2> QED BY <1>1, <1>4, <2>1, <2>2, <2>3 DEF Painted, FrameAt
<1> QED BY <1>2, <1>3, <1>4

(* captureCommittedChromeBase: what is captured is the committed page.      *)
LEMMA CaptureBasePages ==
  ASSUME NEW v, Consistent(v), Pages(v), v.scanout.pending = None, NEW r \in CaptureBase(v)
  PROVE  /\ Pages(r.v)
         /\ FrameAt(r.v, v.scanout.committed) = FrameAt(v, v.scanout.committed)
         /\ r.ok => r.v.chrome.basePage = v.queue.committedTicket.serial
<1> DEFINE b == v.queue.committedBuffer
           page == v.queue.committedTicket.serial
           Captured(t) == [t.v EXCEPT
                           !.chrome = [t.v.chrome EXCEPT
                                         !.basePage = t.v.chrome.preparedPage,
                                         !.baseGeneration = v.chrome.generation,
                                         !.preparedGeneration = 0, !.preparedPage = 0]]
<1>1. v \in ViewType /\ page \in Nat /\ TRUE \in BOOLEAN /\ v.chrome.generation \in Nat
  BY DEF Consistent, ViewType, QueueType, Ticket, ChromeType
<1>2. \/ r = [v |-> v, ok |-> FALSE]
      \/ /\ b # None
         /\ \E t \in RenderTargets(v, b, page, TRUE) :
              \/ r = [v |-> t.v, ok |-> FALSE]
              \/ /\ t.fb # None /\ t.v.chrome.preparedGeneration # 0
                 /\ r = [v |-> Captured(t), ok |-> TRUE]
  BY DEF CaptureBase
<1>3. CASE r = [v |-> v, ok |-> FALSE]
  BY <1>3
<1>4. ASSUME b # None, NEW t \in RenderTargets(v, b, page, TRUE),
             \/ r = [v |-> t.v, ok |-> FALSE]
             \/ /\ t.fb # None /\ t.v.chrome.preparedGeneration # 0
                /\ r = [v |-> Captured(t), ok |-> TRUE]
      PROVE  /\ Pages(r.v)
             /\ FrameAt(r.v, v.scanout.committed) = FrameAt(v, v.scanout.committed)
             /\ r.ok => r.v.chrome.basePage = page
  <2>1. b \in Buffers
    BY <1>1, <1>4 DEF ViewType, QueueType
  <2>2. /\ Painted(v, t, b, page)
        /\ t.fb # None /\ t.v.chrome.preparedGeneration # 0 => t.v.chrome.preparedPage = page
    BY <1>1, <1>4, <2>1, RenderPages
  <2>3. t.v \in ViewType /\ Pages(t.v) /\ t.v.queue = v.queue
        /\ t.v.scanout.pending = None /\ t.v.scanout.committed = v.scanout.committed
        /\ t.v.chrome.generation = v.chrome.generation
        /\ FrameAt(t.v, v.scanout.committed) = FrameAt(v, v.scanout.committed)
    BY <2>2 DEF Painted, TargetOf, DrawnOf, SameCore
  <2>4. CASE r = [v |-> t.v, ok |-> FALSE]
    BY <2>3, <2>4
  <2>5. CASE /\ t.fb # None /\ t.v.chrome.preparedGeneration # 0
             /\ r = [v |-> Captured(t), ok |-> TRUE]
    <3> DEFINE p == t.v.chrome.preparedPage
               g == v.chrome.generation
               h == [t.v.chrome EXCEPT !.basePage = p, !.baseGeneration = g,
                                       !.preparedGeneration = 0, !.preparedPage = 0]
               w == [t.v EXCEPT !.chrome = h]
    <3>1. /\ h.basePage = p /\ h.baseGeneration = g /\ h.preparedGeneration = 0
          /\ h.generation = g
      BY <2>3 DEF ViewType, ChromeType
    <3>2. p = page
      BY <2>2, <2>5
    <3>3. r = [v |-> w, ok |-> TRUE]
      BY <2>5
    <3> HIDE DEF h
    <3>4. w.queue = t.v.queue /\ w.scanout = t.v.scanout /\ w.chrome = h
      BY <2>3 DEF ViewType
    <3> HIDE DEF w
    <3>5. Ordered(w.queue) /\ Drawn(w) /\ InPlace(w)
      BY <2>3, <3>1, <3>4 DEF Pages, Drawn, FrameAt, Coming, InPlace
    <3>6. Based(w)
      BY <1>1, <2>3, <3>1, <3>2, <3>4 DEF Pages, Based
    <3> QED BY <2>3, <3>1, <3>2, <3>3, <3>4, <3>5, <3>6 DEF Pages, FrameAt
  <2> QED BY <1>4, <2>4, <2>5
<1> QED BY <1>2, <1>3, <1>4

(* What holds of the pages while a handler runs. *)
Sound(v) == Pages(v) /\ Blank(v) /\ (v.update.lastCommitSync => Immediate)

(* A commit, accepted or refused, of the target that is coming.             *)
LEMMA CommitTargetsPages ==
  ASSUME NEW v, Consistent(v), Sound(v), NEW fb \in Targets \cup {None},
         NEW r \in CommitTargets(v, fb)
  PROVE  Sound(r.v) /\ Steady(v, r.v)
<1> DEFINE sync == Atomic /\ SyncCommit /\ CopyPath /\ fb # None
           a == AbortPending(v)
           au == [a.update EXCEPT !.lastCommitSync = @ /\ ~Atomic]
           refused == [a EXCEPT !.update = au]
           kms == IF sync THEN [busy |-> FALSE, next |-> None, screen |-> fb]
                  ELSE [busy |-> TRUE, next |-> fb, screen |-> v.kms.screen]
           s == [v.scanout EXCEPT !.owned = @ \cup ({fb} \ {None}),
                                  !.atomicInFlight = IF Atomic THEN ~sync ELSE @]
           u == [v.update EXCEPT !.lastCommitSync = IF Atomic THEN sync ELSE @]
           owned == [v EXCEPT !.scanout = s, !.update = u, !.kms = kms]
           taken == IF v.queue.pendingBuffer # None
                      THEN AdvancePending(owned, "Submitted") ELSE owned
<1>1. /\ v \in ViewType /\ v.scanout \in ScanoutType /\ v.update \in UpdateType
      /\ v.kms.screen \in Targets \cup {None} /\ "Submitted" \in FramePhase
      /\ v.update.lastCommitSync \in BOOLEAN
      /\ {Atomic, SyncCommit, CopyPath} \subseteq BOOLEAN
  BY QueueAssumption DEF Consistent, ViewType, KMSType, UpdateType, FramePhase
<1>2. r.v \in {v, refused, taken}
  BY DEF CommitTargets
<1>3. CASE r.v = v
  BY <1>3 DEF Steady
<1>4. CASE r.v = refused
  <2>1. /\ a \in ViewType /\ Pages(a) /\ Steady(v, a) /\ a.kms = v.kms
        /\ a.update.lastCommitSync = v.update.lastCommitSync
    BY AbortPages, AbortConsistent DEF Sound, Consistent
  <2> HIDE DEF a
  <2>2. au.lastCommitSync => v.update.lastCommitSync
    BY <1>1, <2>1 DEF ViewType, UpdateType
  <2> HIDE DEF au
  <2>3. /\ refused.queue = a.queue /\ refused.scanout = a.scanout /\ refused.chrome = a.chrome
        /\ refused.kms = a.kms /\ refused.fences = a.fences /\ refused.update = au
    BY <2>1 DEF ViewType
  <2> HIDE DEF refused
  <2>4. Pages(refused) /\ Steady(v, refused)
    BY <2>1, <2>3, SamePagesKept DEF SamePages, SameBuffers, Steady, FrameAt
  <2> QED BY <1>4, <2>1, <2>2, <2>3, <2>4 DEF Sound, Blank
<1>5. CASE r.v = taken
  <2>1. /\ s \in ScanoutType /\ s.frame = v.scanout.frame /\ s.committed = v.scanout.committed
        /\ s.pending = v.scanout.pending
    BY <1>1 DEF ScanoutType
  <2>2. u \in UpdateType /\ (u.lastCommitSync => sync \/ v.update.lastCommitSync)
    BY <1>1 DEF UpdateType
  <2>3. kms \in KMSType /\ (kms.busy => ~sync /\ kms.next = fb)
    BY <1>1 DEF KMSType
  <2> HIDE DEF s, u, kms
  <2>4. /\ owned \in ViewType /\ owned.queue = v.queue /\ owned.chrome = v.chrome
        /\ owned.fences = v.fences /\ owned.scanout = s /\ owned.update = u /\ owned.kms = kms
    BY <1>1, <2>1, <2>2, <2>3 DEF ViewType
  <2> HIDE DEF owned
  <2>5. Pages(owned) /\ Steady(v, owned)
    BY <2>1, <2>4, SamePagesKept DEF SamePages, SameBuffers, Steady, FrameAt, Sound
  <2>6. /\ Pages(taken) /\ Steady(owned, taken)
        /\ taken.update = u /\ taken.kms = kms
    <3>1. CASE v.queue.pendingBuffer = None
      BY <2>4, <2>5, <3>1 DEF Steady
    <3>2. CASE v.queue.pendingBuffer # None
      BY <1>1, <2>4, <2>5, <3>2, AdvancePages, AdvanceSamePages
    <3> QED BY <3>1, <3>2
  <2> HIDE DEF taken
  <2>7. Steady(v, taken)
    BY <2>5, <2>6, SteadyTwice
  <2>8. Blank(taken)
    BY <2>3, <2>6 DEF Blank, Immediate
  <2>9. taken.update.lastCommitSync => Immediate
    BY <2>2, <2>6 DEF Sound, Immediate
  <2> QED BY <1>5, <2>6, <2>7, <2>8, <2>9 DEF Sound
<1> QED BY <1>2, <1>3, <1>4, <1>5

(* The end of RequestUpdate.                                                *)
LEMMA SubmitTargetPages ==
  ASSUME NEW v, Consistent(v), Sound(v), v.scanout.pending = None,
         NEW source, NEW t, Painted(v, t, source, Coming(v)),
         CopyPath \/ source = v.queue.pendingBuffer, NEW r \in SubmitTarget(t)
  PROVE  Sound(r.v) /\ Steady(v, r.v)
<1> DEFINE web == t.v.queue.pendingBuffer # None
           a == AbortPending(t.v)
           ready == IF web THEN AdvancePending(t.v, "Ready") ELSE t.v
           s == [ready.scanout EXCEPT !.pending = t.fb]
           w == [ready EXCEPT !.scanout = s]
<1>1. /\ t.v \in ViewType /\ SameCore(v, t.v) /\ t.fb \in Targets \cup {None}
      /\ Consistent(t.v) /\ t.v.kms = v.kms /\ t.v.update = v.update
      /\ t.v.scanout.pending = None /\ t.v.scanout.committed = v.scanout.committed
      /\ "Ready" \in FramePhase
  BY CoreConsistent DEF TargetOf, DrawnOf, Painted, FramePhase
<1>2. Sound(t.v) /\ Steady(v, t.v)
  BY <1>1 DEF Sound, Blank, Steady, SameCore, Painted
<1>3. CASE t.fb = None
  <2>1. r.v = a
    BY <1>3 DEF SubmitTarget
  <2>2. /\ Pages(a) /\ Steady(t.v, a) /\ a.kms = t.v.kms
        /\ a.update.lastCommitSync = t.v.update.lastCommitSync
    BY <1>1, <1>2, AbortPages DEF Sound
  <2> HIDE DEF a
  <2>3. Steady(v, a)
    BY <1>2, <2>2, SteadyTwice
  <2> QED BY <1>2, <2>1, <2>2, <2>3 DEF Sound, Blank
<1>4. CASE t.fb # None
  <2>1. r \in CommitTargets(w, t.fb)
    BY <1>4 DEF SubmitTarget
  <2>2. /\ Consistent(ready) /\ ready \in ViewType
        /\ Pages(ready) /\ Steady(t.v, ready) /\ ready.kms = t.v.kms
        /\ ready.update = t.v.update /\ ready.scanout = t.v.scanout /\ ready.chrome = t.v.chrome
        /\ ready.queue.pendingBuffer = t.v.queue.pendingBuffer
        /\ ready.queue.committedBuffer = t.v.queue.committedBuffer
        /\ ready.queue.pendingTicket.serial = t.v.queue.pendingTicket.serial
        /\ ready.queue.committedTicket = t.v.queue.committedTicket
    <3>1. CASE ~web
      BY <1>1, <1>2, <3>1 DEF Sound, Steady
    <3>2. CASE web
      <4>1. Pages(ready) /\ Steady(t.v, ready)
        BY <1>1, <1>2, <3>2, AdvanceSamePages DEF Sound
      <4>2. Consistent(ready) /\ ready \in ViewType
        BY <1>1, <3>2, AdvanceConsistent DEF Consistent
      <4> QED BY <1>1, <3>2, <4>1, <4>2, AdvancePages DEF SameBuffers
    <3> QED BY <3>1, <3>2
  <2> HIDE DEF ready
  <2>3. /\ s \in ScanoutType /\ s.pending = t.fb /\ s.committed = v.scanout.committed
        /\ s.frame = t.v.scanout.frame
    BY <1>1, <2>2 DEF ViewType, ScanoutType
  <2> HIDE DEF s
  <2>4. /\ w \in ViewType /\ SameCore(ready, w) /\ w.update = ready.update /\ w.kms = ready.kms
        /\ w.queue = ready.queue /\ w.fences = ready.fences /\ w.chrome = ready.chrome
        /\ w.scanout = s
    BY <2>2, <2>3 DEF ViewType, SameCore
  <2>5. r \in CommitTargets(w, t.fb)
    BY <2>1 DEF s
  <2> HIDE DEF w
  <2>6. Consistent(w)
    BY <2>2, <2>4, CoreConsistent
  <2>7. Ordered(w.queue)
    BY <2>2, <2>4 DEF Pages
  <2>8. Drawn(w)
    <3>1. FrameAt(w, w.scanout.committed) = w.queue.committedTicket.serial
      BY <1>1, <1>2, <2>2, <2>3, <2>4 DEF Sound, Pages, Drawn, FrameAt
    <3>2. FrameAt(w, t.fb) = Coming(v)
      BY <1>4, <2>3, <2>4 DEF Painted, FrameAt
    <3>3. Coming(w) = Coming(v)
      BY <1>1, <2>2, <2>4 DEF Coming, SameCore
    <3> QED BY <2>3, <2>4, <3>1, <3>2, <3>3 DEF Drawn
  <2>9. Based(w)
    <3>1. w.chrome.preparedGeneration # 0 /\ w.queue.pendingBuffer # None =>
            w.chrome.preparedPage = w.queue.pendingTicket.serial
      BY <1>1, <1>4, <2>2, <2>4 DEF Painted, Coming, SameCore
    <3> QED BY <1>2, <2>2, <2>4, <3>1 DEF Sound, Pages, Based
  <2>10. InPlace(w)
    BY <1>1, <1>2, <1>4, <2>2, <2>3, <2>4 DEF Painted, Sound, Pages, InPlace, SameCore
  <2>11. Steady(t.v, w)
    BY <1>1, <2>2, <2>3, <2>4 DEF Steady, FrameAt
  <2>12. Sound(w)
    BY <1>2, <2>2, <2>4, <2>7, <2>8, <2>9, <2>10 DEF Sound, Pages, Blank
  <2>13. Sound(r.v) /\ Steady(w, r.v)
    BY <1>1, <2>5, <2>6, <2>12, CommitTargetsPages
  <2> QED BY <1>2, <2>11, <2>13, SteadyTwice
<1> QED BY <1>3, <1>4

(* A base page that a chrome redraw starts from is the committed page.      *)
Rebuilt(v) == v.chrome.basePage # 0 => v.chrome.basePage = v.queue.committedTicket.serial

(* A chrome redraw, or the screen committed again.                          *)
LEMMA UpdateChromePages ==
  ASSUME NEW v, Consistent(v), Sound(v), v.scanout.pending = None,
         v.queue.pendingBuffer = None, Rebuilt(v), NEW r \in UpdateChrome(v)
  PROVE  Sound(r.v) /\ Steady(v, r.v)
<1> DEFINE b == v.queue.committedBuffer
           page == v.queue.committedTicket.serial
<1>1. /\ v \in ViewType /\ v.scanout.committed \in Targets \cup {None} /\ page \in Nat
      /\ FALSE \in BOOLEAN /\ b \in Buffers \cup {None} /\ Pages(v) /\ Coming(v) = page
  BY DEF Consistent, ViewType, ScanoutType, QueueType, Ticket, Sound, Coming
<1>2. \/ r \in CommitTargets(v, v.scanout.committed)
      \/ CopyPath /\ v.chrome.basePage # 0 /\ \E t \in OverlayTargets(v) : r \in SubmitTarget(t)
      \/ CopyPath /\ b # None /\ \E t \in RenderTargets(v, b, page, FALSE) : r \in SubmitTarget(t)
  BY DEF UpdateChrome
<1>3. CASE r \in CommitTargets(v, v.scanout.committed)
  BY <1>1, <1>3, CommitTargetsPages
<1>4. CASE CopyPath /\ v.chrome.basePage # 0 /\ \E t \in OverlayTargets(v) : r \in SubmitTarget(t)
  <2>1. PICK t \in OverlayTargets(v) : r \in SubmitTarget(t)
    BY <1>4
  <2>2. Painted(v, t, None, Coming(v))
    BY <1>1, <1>4, OverlayPages DEF Rebuilt
  <2> QED BY <1>4, <2>1, <2>2, SubmitTargetPages
<1>5. CASE CopyPath /\ b # None /\ \E t \in RenderTargets(v, b, page, FALSE) : r \in SubmitTarget(t)
  <2>1. PICK t \in RenderTargets(v, b, page, FALSE) : r \in SubmitTarget(t)
    BY <1>5
  <2>2. Painted(v, t, b, Coming(v))
    BY <1>1, <1>5, RenderPages
  <2> QED BY <1>5, <2>1, <2>2, SubmitTargetPages
<1> QED BY <1>2, <1>3, <1>4, <1>5

(* A web frame waits for its fence, is dropped, or is drawn and submitted.   *)
LEMMA UpdateWebFramePages ==
  ASSUME NEW v, Consistent(v), Sound(v), v.scanout.pending = None,
         v.queue.pendingBuffer # None, NEW r \in UpdateWebFrame(v)
  PROVE  Sound(r.v) /\ Steady(v, r.v)
<1> DEFINE b == v.queue.pendingBuffer
           f == [v.fences EXCEPT !.pending = b \in v.fences.held, !.held = @ \ {b}, !.taken = TRUE]
           w == IF v.fences.taken THEN v ELSE [v EXCEPT !.fences = f]
           g == [w.fences EXCEPT !.pending = FALSE, !.taken = FALSE]
           x == [w EXCEPT !.fences = g]
           prepared == AdvancePending(x, "Preparing")
           y == IF w.update.fenceWait THEN w ELSE AdvancePending(w, "WaitingFence")
           u == [y.update EXCEPT !.fenceWait = TRUE, !.lastCommitSync = FALSE]
           waits == [y EXCEPT !.update = [w.update EXCEPT !.fenceWait = TRUE,
                                                         !.lastCommitSync = FALSE]]
           page == w.queue.pendingTicket.serial
           state == IF FenceNeeded THEN ProbeFence(w, w.fences.pending, b) ELSE "Ready"
<1>1. /\ v \in ViewType /\ b \in Buffers
      /\ "Preparing" \in FramePhase /\ "WaitingFence" \in FramePhase
      /\ v.fences \in FencesType
  BY DEF Consistent, ViewType, QueueType, FramePhase
<1>2. /\ w \in ViewType /\ w.queue = v.queue /\ w.update = v.update /\ w.ledger = v.ledger
      /\ w.fault = v.fault /\ w.disposed = v.disposed /\ w.kms = v.kms /\ w.scanout = v.scanout
      /\ w.chrome = v.chrome
      /\ w.fences.quarantine = v.fences.quarantine /\ w.fences.work = v.fences.work
  <2>1. f \in FencesType /\ f.quarantine = v.fences.quarantine /\ f.work = v.fences.work
    <3>1. (b \in v.fences.held) \in BOOLEAN
      OBVIOUS
    <3> QED BY <1>1, <3>1 DEF FencesType
  <2> HIDE DEF f
  <2> QED BY <1>1, <2>1 DEF ViewType
<1> HIDE DEF w
<1>3. Consistent(w) /\ Sound(w) /\ Steady(v, w)
  <2>1. Consistent(w)
    BY <1>2 DEF Consistent, Owned, Held, ReportsDue
  <2>2. Pages(w)
    BY <1>2, SamePagesKept DEF SamePages, SameBuffers, Sound
  <2> QED BY <1>2, <2>1, <2>2 DEF Sound, Blank, Steady, FrameAt
<1>4. state \in {"Pending", "Failed", "Ready"}
  BY <1>1, <1>2 DEF ProbeFence, ViewType, FencesType
<1>5. UpdateWebFrame(v) =
          CASE state = "Pending" -> {[v |-> waits, ok |-> TRUE]}
            [] state = "Failed" -> {[v |-> AbortPending(w), ok |-> TRUE]}
            [] state = "Ready" ->
                 UNION {SubmitTarget(t) : t \in RenderTargets(prepared, b, page, FALSE)}
  BY DEF UpdateWebFrame, waits, w, prepared, x, y, state
<1>6. CASE state = "Pending"
  <2>1. r.v = waits
    <3> HIDE DEF state, prepared, waits, page
    <3>1. r = [v |-> waits, ok |-> TRUE]
      BY <1>5, <1>6
    <3> QED BY <3>1
  <2>2. /\ y \in ViewType /\ Pages(y) /\ Steady(w, y) /\ y.kms = w.kms /\ y.update = w.update
    <3>1. CASE w.update.fenceWait
      BY <1>2, <1>3, <3>1 DEF Sound, Steady
    <3>2. CASE ~w.update.fenceWait
      BY <1>1, <1>2, <1>3, <3>2, AdvancePages, AdvanceSamePages DEF Sound
    <3> QED BY <3>1, <3>2
  <2>3. waits = [y EXCEPT !.update = u]
    BY <2>2
  <2> HIDE DEF y, waits
  <2>4. ~u.lastCommitSync
    BY <2>2 DEF ViewType, UpdateType
  <2> HIDE DEF u
  <2>5. /\ waits.queue = y.queue /\ waits.scanout = y.scanout /\ waits.chrome = y.chrome
        /\ waits.kms = y.kms /\ waits.fences = y.fences /\ waits.update = u
    BY <2>2, <2>3 DEF ViewType
  <2>6. Pages(waits) /\ Steady(y, waits)
    BY <2>2, <2>5, SamePagesKept DEF SamePages, SameBuffers, Steady, FrameAt
  <2>7. Steady(v, waits)
    BY <1>3, <2>2, <2>6, SteadyTwice
  <2> QED BY <1>3, <2>1, <2>2, <2>4, <2>5, <2>6, <2>7 DEF Sound, Blank
<1>7. CASE state = "Failed"
  <2> DEFINE a == AbortPending(w)
  <2>1. r.v = a
    <3> HIDE DEF state, prepared, waits, page
    <3>1. r = [v |-> a, ok |-> TRUE]
      BY <1>5, <1>7
    <3> QED BY <3>1
  <2>2. /\ Pages(a) /\ Steady(w, a) /\ a.kms = w.kms
        /\ a.update.lastCommitSync = w.update.lastCommitSync
    BY <1>3, AbortPages DEF Sound
  <2> HIDE DEF a
  <2>3. Steady(v, a)
    BY <1>3, <2>2, SteadyTwice
  <2> QED BY <1>3, <2>1, <2>2, <2>3 DEF Sound, Blank
<1>8. CASE state = "Ready"
  <2>1. PICK t \in RenderTargets(prepared, b, page, FALSE) : r \in SubmitTarget(t)
    <3> HIDE DEF state, prepared, waits, page
    <3> QED BY <1>5, <1>8
  <2> HIDE DEF state
  <2>3. g \in FencesType /\ g.quarantine = w.fences.quarantine /\ g.work = w.fences.work
    BY <1>2 DEF ViewType, FencesType
  <2> HIDE DEF g
  <2>4. /\ x \in ViewType /\ x.queue = w.queue /\ x.update = w.update /\ x.ledger = w.ledger
        /\ x.fault = w.fault /\ x.disposed = w.disposed /\ x.fences = g
        /\ x.kms = w.kms /\ x.scanout = w.scanout /\ x.chrome = w.chrome
    BY <1>2, <2>3 DEF ViewType
  <2> HIDE DEF x
  <2>5. Consistent(x)
    BY <1>3, <2>3, <2>4 DEF Consistent, Owned, Held, ReportsDue
  <2>6. Pages(x) /\ Steady(w, x)
    BY <1>3, <2>3, <2>4, SamePagesKept DEF SamePages, SameBuffers, Steady, FrameAt, Sound
  <2>7. Consistent(prepared) /\ Pages(prepared) /\ Steady(x, prepared)
    BY <1>1, <2>4, <2>5, <2>6, AdvanceConsistent, AdvanceSamePages
  <2>8. /\ prepared.scanout = x.scanout /\ prepared.kms = x.kms /\ prepared.update = x.update
        /\ prepared.queue.pendingBuffer = b
        /\ prepared.queue.pendingTicket.serial = page
    BY <1>1, <1>2, <2>4, AdvancePages DEF SameBuffers
  <2> HIDE DEF prepared
  <2>9. page \in Nat /\ FALSE \in BOOLEAN
    BY <1>2 DEF ViewType, QueueType, Ticket
  <2> HIDE DEF page
  <2>10. Coming(prepared) = page
    BY <2>8 DEF Coming
  <2>11. prepared.scanout.pending = None
    BY <1>2, <2>4, <2>8
  <2>12. Painted(prepared, t, b, Coming(prepared))
    BY <1>1, <2>1, <2>7, <2>8, <2>9, <2>10, <2>11, RenderPages
  <2>13. Sound(prepared)
    BY <1>3, <2>4, <2>7, <2>8 DEF Sound, Blank
  <2>14. Sound(r.v) /\ Steady(prepared, r.v)
    BY <2>1, <2>7, <2>8, <2>11, <2>12, <2>13, SubmitTargetPages
  <2>15. Steady(v, x)
    BY <1>3, <2>6, SteadyTwice
  <2>16. Steady(v, prepared)
    BY <2>7, <2>15, SteadyTwice
  <2> QED BY <2>14, <2>16, SteadyTwice
<1> QED BY <1>4, <1>6, <1>7, <1>8

(* wpeViewDRMRequestUpdate, all cases.                                      *)
LEMMA RequestUpdatePages ==
  ASSUME NEW v, Consistent(v), Sound(v), v.scanout.pending = None,
         v.queue.pendingBuffer # None \/ Rebuilt(v), NEW r \in RequestUpdate(v)
  PROVE  Sound(r.v) /\ Steady(v, r.v)
<1>1. CASE v.queue.pendingBuffer = None
  BY <1>1, UpdateChromePages DEF RequestUpdate
<1>2. CASE v.queue.pendingBuffer # None /\ v.queue.pendingTicket.epoch # v.queue.geometryEpoch
  <2>1. r.v = AbortPending(v)
    BY <1>2 DEF RequestUpdate
  <2>2. LET a == AbortPending(v) IN
        /\ Pages(a) /\ Steady(v, a) /\ a.kms = v.kms
        /\ a.update.lastCommitSync = v.update.lastCommitSync
    BY AbortPages DEF Sound
  <2> QED BY <2>1, <2>2 DEF Sound, Blank
<1>3. CASE v.queue.pendingBuffer # None /\ v.queue.pendingTicket.epoch = v.queue.geometryEpoch
  BY <1>3, UpdateWebFramePages DEF RequestUpdate
<1> QED BY <1>1, <1>2, <1>3

(* What a handler does with the frames: nothing happens to the queued one,  *)
(* and the pending one stays, is dropped, or is shown.                      *)
Passes(v, w) ==
  /\ w.queue.queuedBuffer = v.queue.queuedBuffer
  /\ w.queue.queuedTicket = v.queue.queuedTicket
  /\ w.queue.nextFrameSerial = v.queue.nextFrameSerial
  /\ \/ /\ w.queue.committedBuffer = v.queue.committedBuffer
        /\ w.queue.committedTicket.serial = v.queue.committedTicket.serial
        /\ \/ /\ w.queue.pendingBuffer = v.queue.pendingBuffer
              /\ w.queue.pendingTicket.serial = v.queue.pendingTicket.serial
              /\ w.fences.quarantine = v.fences.quarantine
           \/ /\ w.queue.pendingBuffer = None
              /\ v.fences.quarantine \subseteq w.fences.quarantine
              /\ w.fences.quarantine \subseteq
                   v.fences.quarantine \cup ({v.queue.pendingBuffer} \ {None})
     \/ /\ v.queue.pendingBuffer # None /\ w.queue.pendingBuffer = None
        /\ w.queue.committedBuffer = v.queue.pendingBuffer
        /\ w.queue.committedTicket.serial = v.queue.pendingTicket.serial
        /\ w.fences.quarantine = v.fences.quarantine

(* The page on the screen is not drawn over, and only a synchronous commit   *)
(* replaces it.                                                             *)
Moves(v, w) ==
  /\ Passes(v, w)
  /\ FrameAt(w, v.scanout.committed) = FrameAt(v, v.scanout.committed)
  /\ w.scanout.committed = v.scanout.committed \/ Immediate

LEMMA SteadyMoves ==
  ASSUME NEW v, NEW w, Steady(v, w)
  PROVE  Moves(v, w)
  BY DEF Steady, Moves, Passes

LEMMA MovesOn ==
  ASSUME NEW u, NEW v, NEW w, Steady(u, v), Moves(v, w)
  PROVE  Moves(u, w)
<1>1. /\ w.queue.queuedBuffer = u.queue.queuedBuffer
      /\ w.queue.queuedTicket = u.queue.queuedTicket
      /\ w.queue.nextFrameSerial = u.queue.nextFrameSerial
      /\ FrameAt(w, u.scanout.committed) = FrameAt(u, u.scanout.committed)
      /\ w.scanout.committed = u.scanout.committed \/ Immediate
  BY Zenon DEF Steady, Moves, Passes
<1>2. CASE /\ w.queue.committedBuffer = v.queue.committedBuffer
           /\ w.queue.committedTicket.serial = v.queue.committedTicket.serial
           /\ w.queue.pendingBuffer = v.queue.pendingBuffer
           /\ w.queue.pendingTicket.serial = v.queue.pendingTicket.serial
           /\ w.fences.quarantine = v.fences.quarantine
  BY <1>1, <1>2 DEF Steady, Moves, Passes
<1>3. CASE /\ w.queue.committedBuffer = v.queue.committedBuffer
           /\ w.queue.committedTicket.serial = v.queue.committedTicket.serial
           /\ w.queue.pendingBuffer = None
           /\ v.fences.quarantine \subseteq w.fences.quarantine
           /\ w.fences.quarantine \subseteq
                v.fences.quarantine \cup ({v.queue.pendingBuffer} \ {None})
  BY <1>1, <1>3 DEF Steady, Moves, Passes
<1>4. CASE /\ v.queue.pendingBuffer # None /\ w.queue.pendingBuffer = None
           /\ w.queue.committedBuffer = v.queue.pendingBuffer
           /\ w.queue.committedTicket.serial = v.queue.pendingTicket.serial
           /\ w.fences.quarantine = v.fences.quarantine
  BY <1>1, <1>4 DEF Steady, Moves, Passes
<1> QED BY <1>2, <1>3, <1>4 DEF Moves, Passes

(* What the view asks for is on its way, or was shown synchronously.        *)
LEMMA ShownPages ==
  ASSUME NEW v, Consistent(v), Sound(v), Waits(v) \/ Committed(v),
         NEW w, w = CompleteSynchronous([v EXCEPT !.update.flags = @ \cup {"BufferUpdateRequested"}])
  PROVE  Sound(w) /\ Moves(v, w)
<1> DEFINE s == [v EXCEPT !.update.flags = @ \cup {"BufferUpdateRequested"}]
<1>1. v \in ViewType
  BY DEF Consistent
<1>2. /\ s \in ViewType /\ s.queue = v.queue /\ s.fences = v.fences /\ s.ledger = v.ledger
      /\ s.fault = v.fault /\ s.disposed = v.disposed /\ s.scanout = v.scanout /\ s.kms = v.kms
      /\ s.chrome = v.chrome
      /\ s.update.lastCommitSync = v.update.lastCommitSync
  BY <1>1 DEF ViewType, UpdateType, UpdateFlags
<1>3. w = CompleteSynchronous(s)
  OBVIOUS
<1> HIDE DEF s
<1>4. Consistent(s)
  BY <1>1, <1>2 DEF Consistent, Owned, Held, ReportsDue
<1>5. Pages(s)
  BY <1>2, SamePagesKept DEF SamePages, SameBuffers, Sound
<1>6. s.queue.pendingBuffer # None /\ s.update.lastCommitSync => s.scanout.pending # None
  BY <1>2 DEF Waits, Committed, NoFrame, Flips
<1>7. /\ Pages(w)
      /\ IF s.update.lastCommitSync
           THEN Finished(s, w) /\ ~w.update.lastCommitSync ELSE w = s
  BY <1>3, <1>4, <1>5, <1>6, SynchronousPages
<1>8. CASE ~v.update.lastCommitSync
  <2>1. w = s
    BY <1>2, <1>7, <1>8
  <2>2. Steady(v, w)
    BY <1>2, <2>1 DEF Steady, FrameAt
  <2> QED BY <1>2, <1>7, <1>8, <2>1, <2>2, SteadyMoves DEF Sound, Blank
<1>9. CASE v.update.lastCommitSync
  <2>1. Finished(s, w) /\ ~w.update.lastCommitSync /\ Immediate
    BY <1>2, <1>7, <1>9 DEF Sound
  <2>2. Moves(v, w)
    BY <1>2, <2>1 DEF Finished, Moves, Passes, FrameAt
  <2>3. Blank(w)
    BY <1>2, <2>1 DEF Sound, Blank, Finished
  <2> QED BY <1>7, <2>1, <2>2, <2>3 DEF Sound
<1> QED BY <1>8, <1>9

(* A fresh frame is submitted.                                              *)
LEMMA SubmitFreshPages ==
  ASSUME NEW v, Asked(v), Sound(v), v.queue.pendingBuffer # None, NEW w \in SubmitFresh(v)
  PROVE  Sound(w) /\ Moves(v, w)
<1> DEFINE x == [v EXCEPT !.update.dropped = FALSE]
           Shown(r) == [r.v EXCEPT !.update.flags = @ \cup {"BufferUpdateRequested"}]
           Dropped(r) == [r.v EXCEPT !.update.dropped = FALSE]
<1>1. Consistent(v) /\ v \in ViewType
  BY DEF Asked, Consistent
<1>2. /\ x \in ViewType /\ x.queue = v.queue /\ x.fences = v.fences
      /\ x.ledger = v.ledger /\ x.fault = v.fault /\ x.disposed = v.disposed
      /\ x.scanout = v.scanout /\ x.kms = v.kms /\ x.chrome = v.chrome
      /\ x.update.flags = v.update.flags /\ x.update.fenceWait = v.update.fenceWait
      /\ x.update.lastCommitSync = v.update.lastCommitSync
      /\ x.update.cursorTimer = v.update.cursorTimer
  BY <1>1 DEF ViewType, UpdateType
<1>3. PICK r \in RequestUpdate(x) :
        w = IF ~r.ok THEN r.v
            ELSE IF r.v.update.dropped THEN Dropped(r) ELSE CompleteSynchronous(Shown(r))
  BY DEF SubmitFresh, x
<1> HIDE DEF x
<1>4. Consistent(x)
  BY <1>1, <1>2 DEF Consistent, Owned, Held, ReportsDue
<1>5. Asked(x)
  <2>1. Books(x) /\ Idle(x)
    BY <1>2 DEF Asked, Books, Idle, Fenced
  <2> QED BY <1>2, <1>4, <2>1 DEF Asked, NoFrame, NoFence, Fenced
<1>6. Sound(x) /\ Steady(v, x)
  <2>1. Pages(x)
    BY <1>2, SamePagesKept DEF SamePages, SameBuffers, Sound
  <2> QED BY <1>2, <2>1 DEF Sound, Blank, Steady, FrameAt
<1>7. Decided(x, r) /\ Answer(x, r)
  BY <1>4, <1>5, RequestUpdateDecided, RequestUpdateAnswer
<1>8. /\ Consistent(r.v) /\ r.v \in ViewType
  BY <1>7 DEF Answer, Consistent
<1>9. x.scanout.pending = None /\ x.queue.pendingBuffer # None
  BY <1>2 DEF Asked
<1>10. Sound(r.v) /\ Steady(x, r.v)
  BY <1>4, <1>6, <1>9, RequestUpdatePages
<1>11. Sound(w) /\ Moves(r.v, w)
  <2>1. CASE ~r.ok
    <3>1. w = r.v
      BY <1>3, <2>1
    <3> QED BY <1>10, <3>1, SteadyMoves DEF Steady
  <2>2. CASE r.ok /\ r.v.update.dropped
    <3> DEFINE d == Dropped(r)
    <3>1. w = d
      BY <1>3, <2>2
    <3>2. /\ d.queue = r.v.queue /\ d.fences = r.v.fences /\ d.scanout = r.v.scanout
          /\ d.kms = r.v.kms /\ d.chrome = r.v.chrome
          /\ d.update.lastCommitSync = r.v.update.lastCommitSync
      BY <1>8 DEF ViewType, UpdateType
    <3> HIDE DEF d
    <3>3. Pages(d)
      BY <1>10, <3>2, SamePagesKept DEF SamePages, SameBuffers, Sound
    <3>4. Steady(r.v, d)
      BY <3>2 DEF Steady, FrameAt
    <3> QED BY <1>10, <3>1, <3>2, <3>3, <3>4, SteadyMoves DEF Sound, Blank
  <2>3. CASE r.ok /\ ~r.v.update.dropped
    <3>1. w = CompleteSynchronous(Shown(r)) /\ (Waits(r.v) \/ Committed(r.v))
      BY <1>3, <1>7, <2>3 DEF Decided, Nothing
    <3> QED BY <1>8, <1>10, <3>1, ShownPages
  <2> QED BY <2>1, <2>2, <2>3
<1>12. Moves(x, w)
  BY <1>10, <1>11, MovesOn
<1> QED BY <1>6, <1>11, <1>12, MovesOn

(* A frame whose fence is done is submitted.                                *)
LEMMA SubmitFinishedPages ==
  ASSUME NEW v, Asked(v), Sound(v), v.queue.pendingBuffer # None, NEW r \in RequestUpdate(v)
  PROVE  LET w == SubmitFinished(r) IN Sound(w) /\ Moves(v, w)
<1> DEFINE Shown == [r.v EXCEPT !.update.flags = @ \cup {"BufferUpdateRequested"}]
           w == SubmitFinished(r)
<1>1. Consistent(v) /\ v.scanout.pending = None
  BY DEF Asked
<1>2. Decided(v, r) /\ Answer(v, r)
  BY <1>1, RequestUpdateDecided, RequestUpdateAnswer
<1>3. Consistent(r.v)
  BY <1>2 DEF Answer
<1>4. Sound(r.v) /\ Steady(v, r.v)
  BY <1>1, RequestUpdatePages
<1>5. Sound(w) /\ Moves(r.v, w)
  <2>1. CASE r.ok /\ ~r.v.update.dropped
    <3>1. w = CompleteSynchronous(Shown) /\ (Waits(r.v) \/ Committed(r.v))
      BY <1>2, <2>1 DEF Decided, Nothing, SubmitFinished
    <3> QED BY <1>3, <1>4, <3>1, ShownPages
  <2>2. CASE ~(r.ok /\ ~r.v.update.dropped)
    <3>1. w = r.v
      BY <2>2 DEF SubmitFinished
    <3> QED BY <1>4, <3>1, SteadyMoves DEF Steady
  <2> QED BY <2>1, <2>2
<1> QED BY <1>4, <1>5, MovesOn

(* The queued frame becomes the pending one first.                          *)
Promoted(v, x) ==
  /\ v.queue.pendingBuffer = None /\ v.queue.queuedBuffer # None
  /\ x.queue.pendingBuffer = v.queue.queuedBuffer
  /\ x.queue.pendingTicket = v.queue.queuedTicket
  /\ x.queue.queuedBuffer = None
  /\ x.queue.committedBuffer = v.queue.committedBuffer
  /\ x.queue.committedTicket = v.queue.committedTicket
  /\ x.queue.nextFrameSerial = v.queue.nextFrameSerial
  /\ x.scanout = v.scanout /\ x.fences = v.fences /\ x.kms = v.kms

LEMMA CommitQueuedPages ==
  ASSUME NEW v, Calm(v), Settled(v), Sound(v), NEW w \in CommitQueuedBuffer(v)
  PROVE  /\ Sound(w)
         /\ w = v \/ (~v.kms.busy /\ \E x : Promoted(v, x) /\ Moves(x, w))
<1> DEFINE q == [v.queue EXCEPT !.pendingBuffer = v.queue.queuedBuffer,
                                !.pendingTicket = v.queue.queuedTicket,
                                !.queuedBuffer = None, !.queuedTicket = NoTicket]
           x == [v EXCEPT !.update.flags = @ \ {"BufferUpdatePending"}, !.queue = q]
<1>1. CASE v.queue.queuedBuffer = None \/ v.update.flags \cap Requested # {}
  BY <1>1 DEF CommitQueuedBuffer
<1>2. CASE ~(v.queue.queuedBuffer = None \/ v.update.flags \cap Requested # {})
  <2>1. w \in SubmitFresh(x)
    BY <1>2 DEF CommitQueuedBuffer, SubmitQueued
  <2>2. /\ v \in ViewType /\ NoFrame(v) /\ Idle(v) /\ v.scanout.pending = None
        /\ ~v.update.lastCommitSync /\ ~v.update.fenceWait
    BY <1>2, FlagsClear DEF Settled, Consistent
  <2>3. /\ q \in QueueType /\ q.pendingBuffer = v.queue.queuedBuffer
        /\ q.pendingTicket = v.queue.queuedTicket
        /\ q.queuedBuffer = None /\ q.queuedTicket = NoTicket
        /\ q.committedBuffer = v.queue.committedBuffer
        /\ q.committedTicket = v.queue.committedTicket
        /\ q.nextFrameSerial = v.queue.nextFrameSerial
    <3>1. v.queue.queuedBuffer \in Buffers \cup {None} /\ v.queue.queuedTicket \in Ticket
          /\ NoTicket \in Ticket
      BY <2>2, TicketTypes DEF ViewType, QueueType
    <3> QED BY <2>2, <3>1 DEF ViewType, QueueType
  <2> HIDE DEF q
  <2>4. /\ x \in ViewType /\ x.queue = q /\ x.fences = v.fences /\ x.ledger = v.ledger
        /\ x.fault = v.fault /\ x.disposed = v.disposed /\ x.scanout = v.scanout
        /\ x.chrome = v.chrome
        /\ x.kms = v.kms /\ x.update.flags = v.update.flags \ {"BufferUpdatePending"}
        /\ x.update.lastCommitSync = v.update.lastCommitSync
        /\ x.update.fenceWait = v.update.fenceWait
        /\ x.update.cursorTimer = v.update.cursorTimer
    BY <2>2, <2>3 DEF ViewType, UpdateType
  <2> HIDE DEF x
  <2>5. Consistent(x)
    BY <1>2, <2>2, <2>3, <2>4 DEF Settled, Consistent, Owned, Held, ReportsDue, NoFrame
  <2>6. Books(x) /\ Idle(x)
    BY <1>2, <2>2, <2>3, <2>4 DEF Calm, Books, Idle, Fenced
  <2>7. Asked(x)
    <3>1. x.queue.pendingBuffer # None /\ x.queue.pendingTicket.phase = "Queued"
      BY <1>2, <2>3, <2>4 DEF Calm, Books
    <3>2. NoFence(x)
      BY <2>2, <2>4 DEF NoFrame, NoFence
    <3>3. FenceNeeded => Fenced(x, x.queue.pendingBuffer)
      BY <1>2, <2>3, <2>4 DEF Calm, Books, Fenced
    <3> QED BY <2>2, <2>4, <2>5, <2>6, <3>1, <3>2, <3>3 DEF Asked
  <2>8. Promoted(v, x)
    BY <1>2, <2>2, <2>3, <2>4 DEF Promoted, NoFrame
  <2>9. Ordered(x.queue) /\ Drawn(x) /\ Based(x) /\ InPlace(x)
    <3>1. Pages(v) /\ v.queue.pendingBuffer = None
      BY <2>2 DEF Sound, NoFrame
    <3>2. Ordered(x.queue)
      BY <2>8, <3>1 DEF Promoted, Pages, Ordered
    <3>3. Drawn(x) /\ Based(x) /\ InPlace(x)
      BY <2>2, <2>4, <2>8, <3>1 DEF Promoted, Pages, Drawn, FrameAt, Based, InPlace
    <3> QED BY <3>2, <3>3
  <2>10. Sound(x)
    BY <2>4, <2>9 DEF Sound, Pages, Blank
  <2>11. Sound(w) /\ Moves(x, w)
    BY <2>1, <2>7, <2>8, <2>10, SubmitFreshPages DEF Promoted
  <2> QED BY <2>2, <2>8, <2>11 DEF Idle
<1> QED BY <1>1, <1>2

(* The frames, the targets and the display stay as they are; base pages may *)
(* be forgotten.                                                            *)
Rests(v, w) ==
  /\ SameBuffers(v, w)
  /\ w.queue.pendingTicket.serial = v.queue.pendingTicket.serial
  /\ w.queue.queuedTicket = v.queue.queuedTicket
  /\ w.queue.committedTicket.serial = v.queue.committedTicket.serial
  /\ w.queue.nextFrameSerial = v.queue.nextFrameSerial
  /\ w.scanout.frame = v.scanout.frame
  /\ w.scanout.committed = v.scanout.committed /\ w.scanout.pending = v.scanout.pending
  /\ w.fences.quarantine = v.fences.quarantine /\ w.kms = v.kms
  /\ w.chrome.generation = v.chrome.generation
  /\ w.chrome.baseGeneration = 0 \/
       (w.chrome.baseGeneration = v.chrome.baseGeneration /\ w.chrome.basePage = v.chrome.basePage)
  /\ w.chrome.preparedGeneration = 0 \/
       (w.chrome.preparedGeneration = v.chrome.preparedGeneration
          /\ w.chrome.preparedPage = v.chrome.preparedPage)

LEMMA RestsKept ==
  ASSUME NEW v \in ViewType, Pages(v), NEW w, Rests(v, w)
  PROVE  Pages(w) /\ (Blank(v) => Blank(w)) /\ Moves(v, w)
<1>1. v.chrome.generation \in Nat
  BY DEF ViewType, ChromeType
<1>2. Ordered(w.queue) /\ Drawn(w) /\ InPlace(w)
  BY DEF Rests, SameBuffers, Pages, Ordered, Drawn, FrameAt, Coming, InPlace
<1>3. Based(w)
  BY <1>1 DEF Rests, SameBuffers, Pages, Based
<1> QED BY <1>2, <1>3 DEF Pages, Rests, SameBuffers, Blank, Moves, Passes, FrameAt

(* refreshContentGeometry forgets base pages of the geometry before.        *)
LEMMA RefreshRests ==
  ASSUME NEW v \in ViewType
  PROVE  Rests(v, RefreshGeometry(v))
<1> DEFINE h == [v.chrome EXCEPT !.baseGeneration = 0, !.preparedGeneration = 0,
                                 !.preparedPage = 0]
           q == [v.queue EXCEPT !.geometryEpoch = @ + 1]
           u == [v.update EXCEPT !.resized = FALSE]
           w == [v EXCEPT !.queue = q, !.update = u, !.chrome = h]
<1>1. CASE ~v.update.resized
  <2>1. RefreshGeometry(v) = v
    BY <1>1 DEF RefreshGeometry
  <2> QED BY <2>1 DEF Rests, SameBuffers
<1>2. CASE v.update.resized
  <2>1. RefreshGeometry(v) = w
    BY <1>2 DEF RefreshGeometry, ViewType
  <2>2. /\ h.generation = v.chrome.generation /\ h.baseGeneration = 0
        /\ h.preparedGeneration = 0
    BY DEF ViewType, ChromeType
  <2>3. /\ q.pendingBuffer = v.queue.pendingBuffer /\ q.queuedBuffer = v.queue.queuedBuffer
        /\ q.committedBuffer = v.queue.committedBuffer
        /\ q.pendingTicket = v.queue.pendingTicket /\ q.queuedTicket = v.queue.queuedTicket
        /\ q.committedTicket = v.queue.committedTicket
        /\ q.nextFrameSerial = v.queue.nextFrameSerial
    BY DEF ViewType, QueueType
  <2> HIDE DEF h, q, u
  <2>4. /\ w.queue = q /\ w.chrome = h /\ w.scanout = v.scanout /\ w.fences = v.fences
        /\ w.kms = v.kms
    BY DEF ViewType
  <2> HIDE DEF w
  <2> QED BY <2>1, <2>2, <2>3, <2>4 DEF Rests, SameBuffers
<1> QED BY <1>1, <1>2

(* So does a buffer that is handed over.                                    *)
LEMMA HandOverRests ==
  ASSUME NEW v, Settled(v), Quiet(v), NEW b \in Buffers, NEW work \in FencesGiven
  PROVE  Rests(v, ForgetCursor(HandOver(v, b, work)))
<1> DEFINE g == RefreshGeometry(v)
           f == [v.fences EXCEPT !.work[b] = work, !.held = @ \cup {b}]
           l == [v.ledger EXCEPT !.lent = @ \cup {b}, !.unpaced = @ \cup {b}]
           h == [g EXCEPT !.fences = f, !.ledger = l]
<1>1. v \in ViewType
  BY DEF Settled, Consistent
<1>2. g \in ViewType /\ g.update.flags = v.update.flags /\ g.fences = v.fences
  BY <1>1, RefreshEffect
<1>3. Rests(v, g)
  BY <1>1, RefreshRests
<1>4. HandOver(v, b, work) = h
  BY DEF HandOver
<1> HIDE DEF g
<1>5. f.quarantine = v.fences.quarantine
  BY <1>1 DEF ViewType, FencesType
<1> HIDE DEF f, l
<1>6. /\ h.queue = g.queue /\ h.scanout = g.scanout /\ h.chrome = g.chrome /\ h.kms = g.kms
      /\ h.update = g.update /\ h.fences = f
  BY <1>2 DEF ViewType
<1> HIDE DEF h
<1>7. "CursorUpdateRequested" \notin h.update.flags
  BY <1>2, <1>6 DEF Quiet, Calm, Books, FrameFlags
<1>8. ForgetCursor(HandOver(v, b, work)) = h
  BY <1>4, <1>7 DEF ForgetCursor
<1>9. Rests(v, h)
  BY <1>2, <1>3, <1>5, <1>6 DEF Rests, SameBuffers
<1> QED BY <1>8, <1>9

(* A frame is accepted, as the pending or as the queued one.  The frame it  *)
(* replaces in the queue is released or kept behind its fence.              *)
TakenIn(v, w, b) ==
  /\ w.queue.committedBuffer = v.queue.committedBuffer
  /\ w.queue.committedTicket = v.queue.committedTicket
  /\ w.queue.nextFrameSerial = v.queue.nextFrameSerial + 1
  /\ w.scanout = v.scanout /\ w.kms = v.kms /\ w.chrome = v.chrome
  /\ \/ /\ v.queue.pendingBuffer = None /\ v.queue.queuedBuffer = None
        /\ w.queue.pendingBuffer = b /\ w.queue.queuedBuffer = None
        /\ w.queue.pendingTicket.serial = v.queue.nextFrameSerial + 1
        /\ w.fences.quarantine = v.fences.quarantine
     \/ /\ w.queue.pendingBuffer = v.queue.pendingBuffer
        /\ w.queue.pendingTicket = v.queue.pendingTicket
        /\ w.queue.queuedBuffer = b
        /\ w.queue.queuedTicket.serial = v.queue.nextFrameSerial + 1
        /\ v.fences.quarantine \subseteq w.fences.quarantine
        /\ w.fences.quarantine \subseteq
             v.fences.quarantine \cup ({v.queue.queuedBuffer} \ {None})

LEMMA TakenInPages ==
  ASSUME NEW v \in ViewType, Pages(v), NEW b \in Buffers, NEW w, TakenIn(v, w, b),
         v.scanout.pending = None \/ w.queue.pendingBuffer = v.queue.pendingBuffer
  PROVE  Pages(w) /\ (Blank(v) => Blank(w))
<1>1. /\ v.queue.nextFrameSerial \in Nat /\ v.queue.committedTicket.serial \in Nat
      /\ v.queue.pendingTicket.serial \in Nat /\ b # None
  BY QueueAssumption DEF ViewType, QueueType, Ticket
<1>2. CASE /\ v.queue.pendingBuffer = None /\ v.queue.queuedBuffer = None
           /\ w.queue.pendingBuffer = b /\ w.queue.queuedBuffer = None
           /\ w.queue.pendingTicket.serial = v.queue.nextFrameSerial + 1
  <2>1. v.scanout.pending = None /\ w.scanout = v.scanout /\ w.chrome = v.chrome /\ w.kms = v.kms
    BY <1>1, <1>2 DEF TakenIn
  <2>2. /\ w.queue.committedTicket = v.queue.committedTicket
        /\ w.queue.committedBuffer = v.queue.committedBuffer
        /\ w.queue.nextFrameSerial = v.queue.nextFrameSerial + 1
    BY DEF TakenIn
  <2>3. Ordered(w.queue)
    BY <1>1, <1>2, <2>2 DEF Pages, Ordered
  <2>4. Drawn(w) /\ Based(w) /\ InPlace(w)
    BY <2>1, <2>2 DEF Pages, Drawn, FrameAt, Based, InPlace
  <2> QED BY <2>1, <2>3, <2>4 DEF Pages, Blank
<1>3. CASE /\ w.queue.pendingBuffer = v.queue.pendingBuffer
           /\ w.queue.pendingTicket = v.queue.pendingTicket
           /\ w.queue.queuedBuffer = b
           /\ w.queue.queuedTicket.serial = v.queue.nextFrameSerial + 1
  <2>1. /\ w.queue.committedTicket = v.queue.committedTicket
        /\ w.queue.committedBuffer = v.queue.committedBuffer
        /\ w.queue.nextFrameSerial = v.queue.nextFrameSerial + 1
        /\ w.scanout = v.scanout /\ w.chrome = v.chrome /\ w.kms = v.kms
    BY DEF TakenIn
  <2>2. Ordered(w.queue)
    BY <1>1, <1>3, <2>1 DEF Pages, Ordered
  <2>3. Drawn(w) /\ Based(w) /\ InPlace(w)
    BY <1>3, <2>1 DEF Pages, Drawn, FrameAt, Coming, Based, InPlace
  <2> QED BY <2>1, <2>2, <2>3 DEF Pages, Blank
<1> QED BY <1>2, <1>3 DEF TakenIn

(* wpeViewDRMQueueBuffer.                                                   *)
LEMMA QueueBufferTakesIn ==
  ASSUME NEW v, NEW b, Given(v, b), Calm(v)
  PROVE  TakenIn(v, QueueBuffer(v, b), b)
<1> DEFINE old == v.queue.queuedBuffer
           replaces == old # None /\ old # b
           fresh == v.queue.queuedTicket.serial = 0 \/ replaces
           w == IF replaces THEN RetireDiscarded(v, old, FALSE) ELSE v
           accepted == IF fresh THEN AcceptFrame(w.queue) ELSE w.queue
           ticket == IF fresh THEN NewTicket(w.queue) ELSE accepted.queuedTicket
           q == [accepted EXCEPT !.queuedBuffer = b, !.queuedTicket = ticket]
           u == [w.update EXCEPT !.flags = @ \cup {"BufferUpdatePending"}]
           x == [w EXCEPT !.queue = q, !.update = u]
<1>1. /\ v \in ViewType /\ b \in Buffers /\ b # None /\ FALSE \in BOOLEAN
      /\ old \in Buffers \cup {None} /\ old # b
  BY QueueAssumption DEF Given, ViewType, QueueType, Held
<1>2. fresh
  BY <1>1 DEF Calm, Books, NoTicket
<1>3. /\ w \in ViewType /\ w.queue = v.queue
      /\ w.scanout = v.scanout /\ w.kms = v.kms /\ w.chrome = v.chrome
      /\ v.fences.quarantine \subseteq w.fences.quarantine
      /\ w.fences.quarantine \subseteq v.fences.quarantine \cup ({old} \ {None})
  <2>1. CASE replaces
    <3> DEFINE r == RetireDiscarded(v, old, FALSE)
    <3>1. old \in Buffers /\ old \in v.ledger.lent /\ old \notin v.fences.quarantine
      BY <1>1, <2>1 DEF Given, Held
    <3>2. /\ r \in ViewType /\ r.queue = v.queue
          /\ r.fences.quarantine \in {v.fences.quarantine, v.fences.quarantine \cup {old}}
      BY <1>1, <3>1, RetireEffect
    <3>3. r.scanout = v.scanout /\ r.kms = v.kms /\ r.chrome = v.chrome
      BY <1>1, <3>1, RetireFences
    <3> HIDE DEF r
    <3>4. w = r
      BY <2>1 DEF r
    <3> HIDE DEF w
    <3> QED BY <2>1, <3>2, <3>3, <3>4
  <2>2. CASE ~replaces
    BY <1>1, <2>2
  <2> QED BY <2>1, <2>2
<1>4. QueueBuffer(v, b) = x
  BY DEF QueueBuffer, w
<1> HIDE DEF w
<1>5. /\ accepted \in QueueType /\ ticket \in Ticket
      /\ ticket.serial = v.queue.nextFrameSerial + 1
      /\ accepted.pendingBuffer = v.queue.pendingBuffer
      /\ accepted.pendingTicket = v.queue.pendingTicket
      /\ accepted.committedBuffer = v.queue.committedBuffer
      /\ accepted.committedTicket = v.queue.committedTicket
      /\ accepted.nextFrameSerial = v.queue.nextFrameSerial + 1
  <2>1. w.queue \in QueueType /\ v.queue \in QueueType
    BY <1>1, <1>3 DEF ViewType
  <2>2. /\ AcceptFrame(w.queue).pendingBuffer = v.queue.pendingBuffer
        /\ AcceptFrame(w.queue).pendingTicket = v.queue.pendingTicket
        /\ AcceptFrame(w.queue).committedBuffer = v.queue.committedBuffer
        /\ AcceptFrame(w.queue).committedTicket = v.queue.committedTicket
        /\ AcceptFrame(w.queue).nextFrameSerial = v.queue.nextFrameSerial + 1
    BY <1>3, <2>1 DEF AcceptFrame, QueueType
  <2>3. NewTicket(w.queue).serial = v.queue.nextFrameSerial + 1
    BY <1>3 DEF NewTicket, Accepted
  <2> QED BY <1>2, <2>1, <2>2, <2>3, TicketTypes
<1> HIDE DEF accepted, ticket
<1>6. /\ q.queuedBuffer = b /\ q.queuedTicket = ticket
      /\ q.pendingBuffer = v.queue.pendingBuffer
      /\ q.pendingTicket = v.queue.pendingTicket
      /\ q.committedBuffer = v.queue.committedBuffer
      /\ q.committedTicket = v.queue.committedTicket
      /\ q.nextFrameSerial = v.queue.nextFrameSerial + 1
  BY <1>1, <1>5 DEF QueueType
<1> HIDE DEF q, u
<1>7. /\ x.queue = q /\ x.fences = w.fences /\ x.chrome = w.chrome
      /\ x.scanout = w.scanout /\ x.kms = w.kms
  BY <1>3 DEF ViewType
<1> HIDE DEF x
<1> QED BY <1>3, <1>4, <1>5, <1>6, <1>7 DEF TakenIn

(* An idle view takes the frame at once.                                    *)
LEMMA TakeFrameTakesIn ==
  ASSUME NEW v \in ViewType, NEW b, v.queue.pendingBuffer = None, v.queue.queuedBuffer = None,
         b \in Buffers
  PROVE  TakenIn(v, TakeFrame(v, b), b) /\ TakeFrame(v, b).update.lastCommitSync = v.update.lastCommitSync
<1> DEFINE a == AcceptFrame(v.queue)
           n == NewTicket(v.queue)
           q == [a EXCEPT !.pendingBuffer = b, !.pendingTicket = n]
           u == [v.update EXCEPT !.cursorTimer = FALSE]
           w == [v EXCEPT !.queue = q, !.update = u]
<1>1. v.queue \in QueueType
  BY DEF ViewType
<1>2. /\ a \in QueueType /\ n \in Ticket /\ n.serial = v.queue.nextFrameSerial + 1
      /\ a.queuedBuffer = v.queue.queuedBuffer
      /\ a.committedBuffer = v.queue.committedBuffer
      /\ a.committedTicket = v.queue.committedTicket
      /\ a.nextFrameSerial = v.queue.nextFrameSerial + 1
  BY <1>1, TicketTypes DEF AcceptFrame, QueueType, NewTicket, Accepted
<1> HIDE DEF a, n
<1>3. /\ q.pendingBuffer = b /\ q.pendingTicket = n
      /\ q.queuedBuffer = v.queue.queuedBuffer
      /\ q.committedBuffer = v.queue.committedBuffer
      /\ q.committedTicket = v.queue.committedTicket
      /\ q.nextFrameSerial = v.queue.nextFrameSerial + 1
  BY <1>1, <1>2 DEF QueueType
<1>4. TakeFrame(v, b) = w
  BY DEF TakeFrame, a, n
<1>5. u.lastCommitSync = v.update.lastCommitSync
  BY DEF ViewType, UpdateType
<1> HIDE DEF q, u
<1>6. /\ w.queue = q /\ w.fences = v.fences /\ w.chrome = v.chrome /\ w.update = u
      /\ w.scanout = v.scanout /\ w.kms = v.kms
  BY DEF ViewType
<1> HIDE DEF w
<1> QED BY <1>2, <1>3, <1>4, <1>5, <1>6 DEF TakenIn

(* The chrome is redrawn over a base page of the committed frame only.      *)
LEMMA RedrawChromePages ==
  ASSUME NEW v, Settled(v), Quiet(v), Sound(v), ~WebFrameWaiting(v),
         v.update.flags \cap Requested = {}, v.queue.committedBuffer # None,
         NEW w \in RedrawChrome(v)
  PROVE  Sound(w) /\ Moves(v, w)
<1> DEFINE Bases == IF v.chrome.baseGeneration = v.chrome.generation
                      THEN {[v |-> v, ok |-> TRUE]} ELSE CaptureBase(v)
<1>1. PICK base \in Bases :
        w \in (IF base.ok THEN {ChromeRedrawn(r) : r \in RequestUpdate(base.v)} ELSE {base.v})
  BY DEF RedrawChrome
<1>2. /\ NoFrame(v) /\ Idle(v) /\ v.scanout.pending = None
      /\ ~v.update.lastCommitSync /\ ~v.update.fenceWait
      /\ v.queue.queuedBuffer = None
  BY FlagsClear DEF Quiet, WebFrameWaiting
<1>3. Consistent(v) /\ Pages(v) /\ Blank(v)
  BY DEF Settled, Sound
<1> DEFINE y == base.v
<1>4. /\ Consistent(y) /\ SameCore(v, y)
      /\ y.kms = v.kms /\ y.update = v.update
      /\ y.scanout.pending = v.scanout.pending
      /\ y.scanout.committed = v.scanout.committed
      /\ y.scanout.owned = v.scanout.owned
      /\ Pages(y) /\ FrameAt(y, v.scanout.committed) = FrameAt(v, v.scanout.committed)
      /\ base.ok => Rebuilt(y)
  <2>1. CASE v.chrome.baseGeneration = v.chrome.generation
    <3>1. base = [v |-> v, ok |-> TRUE]
      BY <2>1
    <3>2. Rebuilt(v)
      BY <1>3, <2>1 DEF Pages, Based, Rebuilt
    <3> QED BY <1>3, <3>1, <3>2 DEF SameCore
  <2>2. CASE base \in CaptureBase(v)
    <3>1. /\ Consistent(y) /\ SameCore(v, y)
          /\ y.kms = v.kms /\ y.update = v.update
          /\ y.scanout.pending = v.scanout.pending
          /\ y.scanout.committed = v.scanout.committed
          /\ y.scanout.owned = v.scanout.owned
      BY <1>3, <2>2, CaptureBaseDrawn
    <3>2. /\ Pages(y) /\ FrameAt(y, v.scanout.committed) = FrameAt(v, v.scanout.committed)
          /\ base.ok => y.chrome.basePage = v.queue.committedTicket.serial
      BY <1>2, <1>3, <2>2, CaptureBasePages
    <3> QED BY <3>1, <3>2 DEF Rebuilt, SameCore
  <2> QED BY <2>1, <2>2
<1> HIDE DEF Bases
<1>5. Books(y) /\ Idle(y) /\ NoFrame(y)
  BY <1>2, <1>4 DEF Quiet, Calm, Books, Fenced, Idle, NoFrame, NoFence, SameCore
<1>6. Asked(y)
  BY <1>2, <1>4, <1>5 DEF Asked
<1>7. Sound(y) /\ Steady(v, y)
  BY <1>2, <1>3, <1>4 DEF Sound, Blank, Steady, SameCore
<1>8. CASE ~base.ok
  BY <1>1, <1>7, <1>8, SteadyMoves
<1>9. CASE base.ok
  <2>1. PICK r \in RequestUpdate(y) : w = ChromeRedrawn(r)
    BY <1>1, <1>9
  <2> DEFINE s == [r.v EXCEPT !.update.flags = @ \cup {"BufferUpdateRequested"}]
             c == CompleteSynchronous(s)
             x == [c EXCEPT !.chrome.pending = FALSE]
  <2>2. Answer(y, r) /\ Decided(y, r)
    BY <1>4, <1>6, RequestUpdateAnswer, RequestUpdateDecided
  <2>3. Sound(r.v) /\ Steady(y, r.v)
    BY <1>2, <1>4, <1>7, <1>9, RequestUpdatePages
  <2>4. Steady(v, r.v)
    BY <1>7, <2>3, SteadyTwice
  <2> HIDE DEF y
  <2>5. CASE ~r.ok
    <3>1. w = r.v
      BY <2>1, <2>5 DEF ChromeRedrawn
    <3> QED BY <2>3, <2>4, <3>1, SteadyMoves
  <2>6. CASE r.ok
    <3>1. Consistent(r.v) /\ (Waits(r.v) \/ Committed(r.v))
      BY <1>5, <2>2, <2>6 DEF Answer, Decided, NoFrame
    <3>2. Sound(c) /\ Moves(r.v, c)
      BY <2>3, <3>1, ShownPages
    <3>3. c \in ViewType
      BY <1>5, <2>2, ShownSettled DEF NoFrame, Settled, Consistent
    <3>4. w = x
      BY <2>1, <2>6 DEF ChromeRedrawn
    <3> HIDE DEF c
    <3>5. Rests(c, x) /\ x.update = c.update
      <4>1. /\ x.queue = c.queue /\ x.fences = c.fences /\ x.scanout = c.scanout
            /\ x.kms = c.kms /\ x.update = c.update
            /\ x.chrome = [c.chrome EXCEPT !.pending = FALSE]
        BY <3>3 DEF ViewType
      <4>2. /\ x.chrome.generation = c.chrome.generation
            /\ x.chrome.baseGeneration = c.chrome.baseGeneration
            /\ x.chrome.basePage = c.chrome.basePage
            /\ x.chrome.preparedGeneration = c.chrome.preparedGeneration
            /\ x.chrome.preparedPage = c.chrome.preparedPage
        BY <3>3, <4>1 DEF ViewType, ChromeType
      <4> HIDE DEF x
      <4> QED BY <4>1, <4>2 DEF Rests, SameBuffers
    <3> HIDE DEF x
    <3>6. Sound(x)
      BY <3>2, <3>3, <3>5, RestsKept DEF Sound
    <3>7. Moves(r.v, x)
      BY <3>2, <3>5 DEF Moves, Passes, Rests, SameBuffers, FrameAt
    <3> QED BY <2>4, <3>4, <3>6, <3>7, MovesOn
  <2> QED BY <2>5, <2>6
<1> QED BY <1>8, <1>9

(* The page flip finishes the commit it was the flip of.                    *)
LEMMA AfterFlipPages ==
  ASSUME NEW v, Settled(v), Quiet(v), v.kms.busy, Pages(v), Blank(v)
  PROVE  LET w == AfterFlip(v) IN
         /\ Sound(w) /\ w.queue.pendingBuffer = None /\ ~w.kms.busy
         /\ w.scanout.frame = v.scanout.frame /\ w.scanout.committed = Shows(v)
         /\ w.fences.quarantine = v.fences.quarantine
         /\ w.queue.queuedBuffer = v.queue.queuedBuffer
         /\ w.queue.queuedTicket = v.queue.queuedTicket
         /\ w.queue.nextFrameSerial = v.queue.nextFrameSerial
         /\ IF v.queue.pendingBuffer # None
              THEN /\ w.queue.committedBuffer = v.queue.pendingBuffer
                   /\ w.queue.committedTicket.serial = v.queue.pendingTicket.serial
              ELSE /\ w.queue.committedBuffer = v.queue.committedBuffer
                   /\ w.queue.committedTicket = v.queue.committedTicket
         /\ Immediate => v.queue.pendingBuffer = None /\ Shows(v) = None
<1> DEFINE f == Flipped(v)
           w == FinishBufferCommit(f)
           k == [busy |-> FALSE, next |-> None, screen |-> v.kms.next]
           s == [v.scanout EXCEPT !.atomicInFlight = FALSE]
           u == [v.update EXCEPT !.flags = {}]
<1>1. v \in ViewType /\ "BufferUpdateRequested" \in v.update.flags /\ ~v.update.lastCommitSync
  BY DEF Settled, Consistent, Quiet, Calm
<1>2. /\ f \in ViewType /\ f.queue = v.queue /\ f.fences = v.fences /\ f.ledger = v.ledger
      /\ f.fault = v.fault /\ f.kms = k /\ f.chrome = v.chrome
      /\ f.scanout = s /\ f.update = u
  <2>1. k \in KMSType /\ s \in ScanoutType /\ u \in UpdateType
    BY <1>1 DEF ViewType, KMSType, ScanoutType, UpdateType
  <2>2. f = [v EXCEPT !.kms = k, !.scanout = s, !.update = u]
    <3> HIDE DEF k
    <3> QED BY <1>1 DEF Flipped, k, ViewType
  <2> HIDE DEF k, f, s, u
  <2> QED BY <1>1, <2>1, <2>2 DEF ViewType
<1>3. /\ s.frame = v.scanout.frame /\ s.pending = v.scanout.pending
      /\ s.committed = v.scanout.committed /\ ~u.lastCommitSync /\ ~k.busy
  BY <1>1 DEF ViewType, ScanoutType, UpdateType
<1>4. AfterFlip(v) = w
  BY <1>1 DEF AfterFlip
<1> HIDE DEF f, s, u, k
<1>5. Consistent(f)
  BY <1>2 DEF Settled, Consistent, Owned, Held, ReportsDue
<1>6. NoFrame(v) \/ Flips(v)
  BY DEF Quiet, Calm, FenceWaits
<1>7. Pages(f)
  BY <1>2, <1>3 DEF Pages, Ordered, Drawn, FrameAt, Coming, Based, InPlace
<1>8. f.queue.pendingBuffer # None => f.scanout.pending # None
  BY <1>2, <1>3, <1>6 DEF NoFrame, Flips
<1>9. Pages(w) /\ Finished(f, w) /\ w.update = f.update
  BY <1>5, <1>7, <1>8, FinishPages
<1> HIDE DEF w
<1>10. Shows(f) = Shows(v)
  BY <1>2, <1>3 DEF Shows
<1>11. Sound(w) /\ ~w.kms.busy
  BY <1>2, <1>3, <1>9 DEF Sound, Blank, Finished
<1>12. Immediate => v.queue.pendingBuffer = None /\ Shows(v) = None
  BY <1>1, <1>6 DEF Quiet, Calm, Screened, Blank, Shows, Flips, NoFrame
<1> QED BY <1>2, <1>3, <1>4, <1>9, <1>10, <1>11, <1>12 DEF Finished

(* The frames of a view in the terms of FrameLending, and one of its steps   *)
(* of Progress: v becomes w, and line is what waited, with what is new.     *)
Line(v) == FrameOf(v.queue.pendingBuffer, v.queue.pendingTicket)
             \cup FrameOf(v.queue.queuedBuffer, v.queue.queuedTicket)
OnShow(v) == FrameOf(v.queue.committedBuffer, v.queue.committedTicket)

FrameStep(v, w, line) ==
  /\ \/ OnShow(w) = OnShow(v)
     \/ \E f \in line : (\A g \in line : f.serial <= g.serial) /\ OnShow(w) = {f}
  /\ Line(w) \subseteq line \ OnShow(w)
  /\ v.fences.quarantine \subseteq w.fences.quarantine
  /\ w.fences.quarantine \subseteq
       v.fences.quarantine \cup {f.buffer : f \in line \ (Line(w) \cup OnShow(w))}

Newer(v, w) == v.queue.committedTicket.serial <= w.queue.committedTicket.serial

LEMMA FrameOfIs ==
  ASSUME NEW b, NEW t
  PROVE  FrameOf(b, t) = IF b = None THEN {} ELSE {[buffer |-> b, serial |-> t.serial]}
  BY DEF FrameOf

(* What the frames of a view are, one by one.                               *)
LEMMA FramesAre ==
  ASSUME NEW v
  PROVE  /\ \A f : f \in Line(v) <=>
              \/ /\ v.queue.pendingBuffer # None
                 /\ f = [buffer |-> v.queue.pendingBuffer, serial |-> v.queue.pendingTicket.serial]
              \/ /\ v.queue.queuedBuffer # None
                 /\ f = [buffer |-> v.queue.queuedBuffer, serial |-> v.queue.queuedTicket.serial]
         /\ \A f : f \in OnShow(v) <=>
              /\ v.queue.committedBuffer # None
              /\ f = [buffer |-> v.queue.committedBuffer, serial |-> v.queue.committedTicket.serial]
  BY FrameOfIs DEF Line, OnShow

(* A frame that waits is not the one shown: they have buffers of their own.  *)
LEMMA FramesApart ==
  ASSUME NEW v, Consistent(v)
  PROVE  Line(v) \cap OnShow(v) = {}
<1>1. ASSUME NEW f \in Line(v), f \in OnShow(v) PROVE FALSE
  <2>1. f.buffer \in {v.queue.pendingBuffer, v.queue.queuedBuffer} \ {None}
        /\ f.buffer = v.queue.committedBuffer
    BY <1>1, FramesAre
  <2> QED BY <2>1 DEF Consistent, Owned
<1> QED BY <1>1

(* Frames are told apart by their buffers, and have serials.                *)
Apart(v) ==
  /\ v.queue.committedTicket.serial \in Nat
  /\ v.queue.pendingBuffer # None =>
       /\ v.queue.pendingTicket.serial \in Nat
       /\ v.queue.pendingBuffer \notin {v.queue.queuedBuffer, v.queue.committedBuffer}
  /\ v.queue.queuedBuffer # None =>
       /\ v.queue.queuedTicket.serial \in Nat
       /\ v.queue.queuedBuffer # v.queue.committedBuffer

LEMMA ConsistentApart ==
  ASSUME NEW v, Consistent(v)
  PROVE  Apart(v)
  BY DEF Consistent, Owned, ViewType, QueueType, Ticket, Apart

(* A handler makes a step of Progress.                                      *)
LEMMA PassesFrames ==
  ASSUME NEW v, NEW w, Passes(v, w), Apart(v), Consistent(w), Ordered(v.queue)
  PROVE  FrameStep(v, w, Line(v)) /\ Newer(v, w)
<1> DEFINE p == v.queue.pendingBuffer
           P == [buffer |-> p, serial |-> v.queue.pendingTicket.serial]
           q == v.queue.queuedBuffer
           Q == [buffer |-> q, serial |-> v.queue.queuedTicket.serial]
           gone == Line(v) \ (Line(w) \cup OnShow(w))
<1>1. /\ v.queue.committedTicket.serial \in Nat
      /\ p # None => v.queue.pendingTicket.serial \in Nat
      /\ q # None => v.queue.queuedTicket.serial \in Nat
  BY DEF Apart
<1>2. /\ \A f : f \in Line(v) <=> (p # None /\ f = P) \/ (q # None /\ f = Q)
      /\ p # None => p # q /\ p # v.queue.committedBuffer
      /\ q # None => q # v.queue.committedBuffer
  BY FramesAre DEF Apart
<1>3. /\ w.queue.queuedBuffer = q /\ w.queue.queuedTicket = v.queue.queuedTicket
      /\ Line(w) \cap OnShow(w) = {}
  BY FramesApart DEF Passes
<1>4. CASE /\ w.queue.committedBuffer = v.queue.committedBuffer
           /\ w.queue.committedTicket.serial = v.queue.committedTicket.serial
           /\ w.queue.pendingBuffer = p
           /\ w.queue.pendingTicket.serial = v.queue.pendingTicket.serial
           /\ w.fences.quarantine = v.fences.quarantine
  <2>1. Line(w) = Line(v) /\ OnShow(w) = OnShow(v)
    BY <1>3, <1>4, FrameOfIs DEF Line, OnShow
  <2> QED BY <1>1, <1>3, <1>4, <2>1 DEF FrameStep, Newer
<1>5. CASE /\ w.queue.committedBuffer = v.queue.committedBuffer
           /\ w.queue.committedTicket.serial = v.queue.committedTicket.serial
           /\ w.queue.pendingBuffer = None
           /\ v.fences.quarantine \subseteq w.fences.quarantine
           /\ w.fences.quarantine \subseteq v.fences.quarantine \cup ({p} \ {None})
  <2>1. OnShow(w) = OnShow(v)
    BY <1>5, FrameOfIs DEF OnShow
  <2>2. \A f : f \in Line(w) <=> q # None /\ f = Q
    BY <1>3, <1>5, FramesAre
  <2>3. p # None => P \in gone /\ P.buffer = p
    <3>1. SUFFICES ASSUME p # None PROVE P \in gone
      OBVIOUS
    <3>2. P \in Line(v)
      BY <1>2, <3>1
    <3>3. P \notin OnShow(v)
      BY <1>2, <3>1, FramesAre
    <3>4. P \notin Line(w)
      BY <1>2, <2>2, <3>1
    <3> QED BY <2>1, <3>2, <3>3, <3>4
  <2>4. {p} \ {None} \subseteq {f.buffer : f \in gone}
    BY <2>3
  <2>5. Line(w) \subseteq Line(v)
    BY <1>2, <2>2
  <2> QED BY <1>1, <1>3, <1>5, <2>1, <2>4, <2>5 DEF FrameStep, Newer
<1>6. CASE /\ p # None /\ w.queue.pendingBuffer = None
           /\ w.queue.committedBuffer = p
           /\ w.queue.committedTicket.serial = v.queue.pendingTicket.serial
           /\ w.fences.quarantine = v.fences.quarantine
  <2>1. OnShow(w) = {P}
    BY <1>6, FrameOfIs DEF OnShow
  <2>2. \A f : f \in Line(w) <=> q # None /\ f = Q
    BY <1>3, <1>6, FramesAre
  <2>3. P \in Line(v) /\ \A g \in Line(v) : P.serial <= g.serial
    BY <1>1, <1>2, <1>6 DEF Ordered
  <2>4. Line(w) \subseteq Line(v)
    BY <1>2, <2>2
  <2>5. v.queue.committedTicket.serial <= v.queue.pendingTicket.serial
    BY <1>1, <1>6 DEF Ordered
  <2> QED BY <1>3, <1>6, <2>1, <2>3, <2>4, <2>5 DEF FrameStep, Newer
<1> QED BY <1>4, <1>5, <1>6 DEF Passes

(* Two steps make one if only one of them shows a frame, and the first if it *)
(* is the second that does leaves the line as it was.                       *)
LEMMA FrameStepTwice ==
  ASSUME NEW u, NEW v, NEW w, NEW line, FrameStep(u, v, line), FrameStep(v, w, Line(v)),
         OnShow(w) = OnShow(v) \/ (OnShow(v) = OnShow(u) /\ Line(v) = line)
  PROVE  FrameStep(u, w, line)
<1> DEFINE Gone(x, l) == l \ (Line(x) \cup OnShow(x))
           B(fs) == {f.buffer : f \in fs}
<1>1. /\ u.fences.quarantine \subseteq v.fences.quarantine
      /\ v.fences.quarantine \subseteq w.fences.quarantine
      /\ v.fences.quarantine \subseteq u.fences.quarantine \cup B(Gone(v, line))
      /\ w.fences.quarantine \subseteq v.fences.quarantine \cup B(Gone(w, Line(v)))
      /\ Line(v) \subseteq line \ OnShow(v) /\ Line(w) \subseteq Line(v) \ OnShow(w)
  BY DEF FrameStep
<1>2. Gone(v, line) \subseteq Gone(w, line) /\ Gone(w, Line(v)) \subseteq Gone(w, line)
  BY <1>1
<1>3. w.fences.quarantine \subseteq u.fences.quarantine \cup B(Gone(w, line))
  BY <1>1, <1>2
<1>4. \/ OnShow(w) = OnShow(u)
      \/ \E f \in line : (\A g \in line : f.serial <= g.serial) /\ OnShow(w) = {f}
  BY DEF FrameStep
<1> QED BY <1>1, <1>3, <1>4 DEF FrameStep

(* A frame that is promoted waits on; Promoted changes no frame.            *)
LEMMA PromotedFrames ==
  ASSUME NEW v, NEW x, Promoted(v, x)
  PROVE  /\ Line(x) = Line(v) /\ OnShow(x) = OnShow(v)
         /\ Apart(v) => Apart(x)
         /\ Ordered(v.queue) => Ordered(x.queue)
<1>1. Line(x) = Line(v) /\ OnShow(x) = OnShow(v)
  BY FrameOfIs DEF Promoted, Line, OnShow
<1>2. Apart(v) => Apart(x)
  BY DEF Promoted, Apart
<1>3. Ordered(v.queue) => Ordered(x.queue)
  BY DEF Promoted, Ordered
<1> QED BY <1>1, <1>2, <1>3

(* The step of wpeViewDRMCommitQueuedBuffer, which begins with a promotion. *)
LEMMA PromotedStep ==
  ASSUME NEW v, NEW x, NEW w, Promoted(v, x), Passes(x, w), Apart(v), Consistent(w),
         Ordered(v.queue)
  PROVE  FrameStep(v, w, Line(v)) /\ Newer(v, w)
         /\ w.queue.nextFrameSerial = v.queue.nextFrameSerial
<1>1. FrameStep(x, w, Line(x)) /\ Newer(x, w)
  BY PromotedFrames, PassesFrames
<1>2. Line(x) = Line(v) /\ OnShow(x) = OnShow(v)
  BY PromotedFrames
<1> QED BY <1>1, <1>2 DEF Promoted, Passes, FrameStep, Newer

(* Accepting a frame adds it to the line; one that it replaces is dropped.   *)
LEMMA TakenInFrames ==
  ASSUME NEW v \in ViewType, NEW b \in Buffers, NEW w, TakenIn(v, w, b),
         v.queue.pendingBuffer # None =>
           v.queue.pendingBuffer \notin {v.queue.queuedBuffer, v.queue.committedBuffer},
         v.queue.queuedBuffer # None => v.queue.queuedBuffer # v.queue.committedBuffer,
         b \notin Held(v)
  PROVE  LET new == [buffer |-> b, serial |-> v.queue.nextFrameSerial + 1] IN
         FrameStep(v, w, Line(v) \cup {new}) /\ Newer(v, w) /\ OnShow(w) = OnShow(v)
<1> DEFINE new == [buffer |-> b, serial |-> v.queue.nextFrameSerial + 1]
           p == v.queue.pendingBuffer
           P == [buffer |-> p, serial |-> v.queue.pendingTicket.serial]
           q == v.queue.queuedBuffer
           Q == [buffer |-> q, serial |-> v.queue.queuedTicket.serial]
           line == Line(v) \cup {new}
<1>1. b # None /\ b \notin {p, q, v.queue.committedBuffer}
  BY QueueAssumption DEF Held
<1>2. OnShow(w) = OnShow(v) /\ w.queue.committedTicket = v.queue.committedTicket
  BY FrameOfIs DEF TakenIn, OnShow
<1>3. Newer(v, w)
  BY <1>2 DEF Newer, ViewType, QueueType, Ticket
<1>4. \A f : f \in Line(v) <=> (p # None /\ f = P) \/ (q # None /\ f = Q)
  BY FramesAre
<1>5. new \notin OnShow(v)
  BY <1>1, FramesAre
<1>6. CASE /\ p = None /\ q = None
           /\ w.queue.pendingBuffer = b /\ w.queue.queuedBuffer = None
           /\ w.queue.pendingTicket.serial = v.queue.nextFrameSerial + 1
           /\ w.fences.quarantine = v.fences.quarantine
  <2>1. Line(w) = {new}
    BY <1>1, <1>6, FrameOfIs DEF Line
  <2>2. Line(w) \subseteq line \ OnShow(w)
    BY <1>2, <1>5, <2>1
  <2> DEFINE gone == {f.buffer : f \in line \ (Line(w) \cup OnShow(w))}
  <2> HIDE DEF line
  <2>3. FrameStep(v, w, line)
    <3>1. /\ v.fences.quarantine \subseteq w.fences.quarantine
          /\ w.fences.quarantine \subseteq v.fences.quarantine \cup gone
      BY <1>6
    <3> QED BY <1>2, <2>2, <3>1 DEF FrameStep
  <2> QED BY <1>2, <1>3, <2>3 DEF line
<1>7. CASE /\ w.queue.pendingBuffer = p
           /\ w.queue.pendingTicket = v.queue.pendingTicket
           /\ w.queue.queuedBuffer = b
           /\ w.queue.queuedTicket.serial = v.queue.nextFrameSerial + 1
           /\ v.fences.quarantine \subseteq w.fences.quarantine
           /\ w.fences.quarantine \subseteq v.fences.quarantine \cup ({q} \ {None})
  <2>1. \A f : f \in Line(w) <=> (p # None /\ f = P) \/ f = new
    BY <1>1, <1>7, FramesAre
  <2>2. p # None => P \notin OnShow(v)
    BY <1>7, FramesAre
  <2>3. q # None => Q \in line \ (Line(w) \cup OnShow(w)) /\ Q.buffer = q
    <3>1. SUFFICES ASSUME q # None PROVE Q \in line \ (Line(w) \cup OnShow(w))
      OBVIOUS
    <3>2. Q \in line
      BY <1>4, <3>1
    <3>3. Q \notin OnShow(v)
      BY <3>1, FramesAre
    <3>4. Q \notin Line(w)
      BY <1>1, <2>1, <3>1
    <3> QED BY <1>2, <3>2, <3>3, <3>4
  <2>4. {q} \ {None} \subseteq {f.buffer : f \in line \ (Line(w) \cup OnShow(w))}
    BY <2>3
  <2>5. Line(w) \subseteq line \ OnShow(w)
    BY <1>2, <1>4, <1>5, <2>1, <2>2
  <2> QED BY <1>2, <1>3, <1>7, <2>4, <2>5 DEF FrameStep
<1> QED BY <1>2, <1>3, <1>6, <1>7 DEF TakenIn

(* The third invariant, next to IInv and PInv. *)
CInv == ~view.disposed => Pages(view) /\ Blank(view)

(* Targets the display engine reads, before and after, are not drawn over.   *)
Scans(v, w) ==
  \A t \in Targets :
    (v.kms.busy /\ t = Shows(v)) \/ (t = v.scanout.committed /\ t = w.scanout.committed)
    => w.scanout.frame[t] = v.scanout.frame[t]

(* What an action must show: the invariant, NoTearing's step and a step of   *)
(* FrameLending.                                                            *)
Follows ==
  /\ CInv'
  /\ KeepsWhatIsScanned
  /\ ~view'.disposed => PageShown(view) <= PageShown(view')
  /\ [Lending!Next]_(Lending!vars)

(* The buffers of the frames of a view.                                     *)
LEMMA BuffersHeld ==
  ASSUME NEW v
  PROVE  {f.buffer : f \in Line(v) \cup OnShow(v)} = Held(v)
<1> DEFINE B == {f.buffer : f \in Line(v) \cup OnShow(v)}
<1>1. ASSUME NEW b \in Held(v) PROVE b \in B
  <2>1. CASE b = v.queue.pendingBuffer
    <3>1. [buffer |-> b, serial |-> v.queue.pendingTicket.serial] \in Line(v)
      BY <1>1, <2>1, FramesAre DEF Held
    <3> QED BY <3>1
  <2>2. CASE b = v.queue.queuedBuffer
    <3>1. [buffer |-> b, serial |-> v.queue.queuedTicket.serial] \in Line(v)
      BY <1>1, <2>2, FramesAre DEF Held
    <3> QED BY <3>1
  <2>3. CASE b = v.queue.committedBuffer
    <3>1. [buffer |-> b, serial |-> v.queue.committedTicket.serial] \in OnShow(v)
      BY <1>1, <2>3, FramesAre DEF Held
    <3> QED BY <3>1
  <2> QED BY <1>1, <2>1, <2>2, <2>3 DEF Held
<1>2. ASSUME NEW f \in Line(v) \cup OnShow(v) PROVE f.buffer \in Held(v)
  BY <1>2, FramesAre DEF Held
<1> QED BY <1>1, <1>2

(* At most two frames wait.                                                 *)
LEMMA TwoWait ==
  ASSUME NEW v
  PROVE  Cardinality(Line(v)) <= 2
<1> DEFINE P == [buffer |-> v.queue.pendingBuffer, serial |-> v.queue.pendingTicket.serial]
           Q == [buffer |-> v.queue.queuedBuffer, serial |-> v.queue.queuedTicket.serial]
<1>1. Line(v) \subseteq {P} \cup {Q}
  BY FramesAre
<1>2. IsFiniteSet({P}) /\ Cardinality({P}) = 1 /\ IsFiniteSet({Q}) /\ Cardinality({Q}) = 1
  BY FS_Singleton
<1> HIDE DEF P, Q
<1>3. /\ IsFiniteSet({P} \cup {Q}) /\ IsFiniteSet({P} \cap {Q})
      /\ Cardinality({P} \cup {Q}) = 1 + 1 - Cardinality({P} \cap {Q})
  BY <1>2, FS_Union, FS_Intersection
<1>4. Cardinality({P} \cap {Q}) \in Nat /\ Cardinality({P} \cup {Q}) \in Nat
  BY <1>3, FS_CardinalityType
<1>5. Cardinality(Line(v)) <= Cardinality({P} \cup {Q}) /\ Cardinality(Line(v)) \in Nat
  <2>1. IsFiniteSet(Line(v))
    BY <1>1, <1>3, FS_Subset
  <2> QED BY <1>1, <1>3, <2>1, FS_Subset, FS_CardinalityType
<1> QED BY <1>3, <1>4, <1>5

(* The page on the screen is the committed one.                             *)
LEMMA PageShownIs ==
  ASSUME NEW v, Quiet(v), Pages(v)
  PROVE  PageShown(v) = v.queue.committedTicket.serial
  BY DEF Quiet, Calm, Screened, Pages, Drawn, FrameAt, PageShown

(* A step of a view that goes on running.                                   *)
LEMMA StepFollows ==
  ASSUME IInv, PInv, IInv', PInv', CInv, ~view.disposed, ~view'.disposed,
         Pages(view'), Blank(view'), Scans(view, view'), Newer(view, view'),
         NEW new, FrameStep(view, view', Line(view) \cup new),
         \/ new = {} /\ view'.queue.nextFrameSerial = view.queue.nextFrameSerial
         \/ /\ view'.queue.nextFrameSerial = view.queue.nextFrameSerial + 1
            /\ \E b \in Buffers \ view.ledger.lent :
                 new = {[buffer |-> b, serial |-> view.queue.nextFrameSerial + 1]}
  PROVE  Follows
<1>1. /\ Quiet(view) /\ Settled(view) /\ Pages(view) /\ Quiet(view') /\ Settled(view')
  BY DEF IInv, PInv, CInv
<1>2. CInv'
  BY DEF CInv
<1>3. KeepsWhatIsScanned
  <2> SUFFICES ASSUME NEW t \in Targets,
                      t = view.kms.next \/ (t = view.kms.screen /\ t = view'.kms.screen)
               PROVE  view'.scanout.frame[t] = view.scanout.frame[t]
    BY DEF KeepsWhatIsScanned
  <2>1. t # None
    BY QueueAssumption DEF Targets
  <2>2. (view.kms.busy /\ t = Shows(view))
          \/ (t = view.scanout.committed /\ t = view'.scanout.committed)
    BY <1>1, <2>1 DEF Quiet, Calm, Screened
  <2> QED BY <2>2 DEF Scans
<1>4. PageShown(view) <= PageShown(view')
  BY <1>1, PageShownIs DEF Newer
<1>5. [Lending!Next]_(Lending!vars)
  <2> DEFINE line == Line(view) \cup new
             gone == line \ (Line(view') \cup OnShow(view'))
  <2>1. /\ view'.ledger.lent = Held(view') \cup view'.fences.quarantine
        /\ Cardinality(Line(view')) <= 2
        /\ {f.buffer : f \in Line(view') \cup OnShow(view')} = Held(view')
    BY <1>1, BuffersHeld, TwoWait DEF Settled, Consistent, Owned
  <2>2. Lending!Progress(new)
    <3>1. /\ \/ OnShow(view') = OnShow(view)
             \/ \E f \in line : (\A g \in line : f.serial <= g.serial) /\ OnShow(view') = {f}
          /\ Line(view') \subseteq line \ OnShow(view')
          /\ view.fences.quarantine \subseteq view'.fences.quarantine
          /\ view'.fences.quarantine \subseteq
               view.fences.quarantine \cup {f.buffer : f \in gone}
      BY DEF FrameStep
    <3>2. view'.ledger.lent =
            {f.buffer : f \in Line(view') \cup OnShow(view')} \cup view'.fences.quarantine
      BY <2>1
    <3>3. view'.disposed = view.disposed
      BY DEF IInv, ViewType
    <3> DEFINE W(v) == FrameOf(v.queue.pendingBuffer, v.queue.pendingTicket)
                         \cup FrameOf(v.queue.queuedBuffer, v.queue.queuedTicket)
               S(v) == FrameOf(v.queue.committedBuffer, v.queue.committedTicket)
    <3>4. /\ W(view) = Line(view) /\ W(view') = Line(view')
          /\ S(view) = OnShow(view) /\ S(view') = OnShow(view')
      BY DEF Line, OnShow
    <3>5. /\ S(view') = S(view)
             \/ \E f \in W(view) \cup new :
                  (\A g \in W(view) \cup new : f.serial <= g.serial) /\ S(view') = {f}
          /\ W(view') \subseteq (W(view) \cup new) \ S(view')
          /\ Cardinality(W(view')) <= 2
          /\ view.fences.quarantine \subseteq view'.fences.quarantine
          /\ view'.fences.quarantine \subseteq view.fences.quarantine
               \cup {f.buffer : f \in (W(view) \cup new) \ (W(view') \cup S(view'))}
          /\ view'.ledger.lent = {f.buffer : f \in W(view') \cup S(view')}
               \cup view'.fences.quarantine
      <4> HIDE DEF W, S
      <4> QED BY <2>1, <3>1, <3>2, <3>4
    <3>6. \A X : Lending!Cardinality(X) = Cardinality(X)
      BY DEF Lending!Cardinality, Cardinality
    <3> QED BY <3>3, <3>5, <3>6, Zenon DEF Lending!Progress, Lending!BuffersOf, FrameOf
  <2>3. CASE new = {} /\ view'.queue.nextFrameSerial = view.queue.nextFrameSerial
    BY <2>2, <2>3 DEF Lending!Next, Lending!Move
  <2>4. ASSUME NEW b \in Buffers \ view.ledger.lent,
               new = {[buffer |-> b, serial |-> view.queue.nextFrameSerial + 1]},
               view'.queue.nextFrameSerial = view.queue.nextFrameSerial + 1
        PROVE  Lending!Next
    <3>1. Lending!Accept(b)
      BY <2>2, <2>4 DEF Lending!Accept
    <3> QED BY <3>1 DEF Lending!Next
  <2> QED BY <2>3, <2>4
<1> QED BY <1>2, <1>3, <1>4, <1>5 DEF Follows

-----------------------------------------------------------------------------
(* Nothing is drawn, or what is shown is left alone while no flip is due.   *)
LEMMA StillScans ==
  ASSUME NEW v, NEW w,
         \/ w.scanout.frame = v.scanout.frame
         \/ ~v.kms.busy /\ FrameAt(w, v.scanout.committed) = FrameAt(v, v.scanout.committed)
  PROVE  Scans(v, w)
<1> SUFFICES ASSUME NEW t \in Targets,
                    (v.kms.busy /\ t = Shows(v))
                      \/ (t = v.scanout.committed /\ t = w.scanout.committed)
             PROVE  w.scanout.frame[t] = v.scanout.frame[t]
  BY DEF Scans
<1>1. t # None
  BY QueueAssumption DEF Targets
<1> QED BY <1>1 DEF FrameAt

(* What rests before or after a move belongs to the move.                   *)
LEMMA RestsMoves ==
  ASSUME NEW u, NEW v, NEW w, Rests(u, v), Moves(v, w)
  PROVE  Moves(u, w)
<1>1. Passes(u, w)
  BY DEF Rests, SameBuffers, Moves, Passes
<1> QED BY <1>1 DEF Rests, Moves, FrameAt

LEMMA MovesRests ==
  ASSUME NEW u, NEW v, NEW w, Moves(u, v), Rests(v, w)
  PROVE  Moves(u, w)
<1>1. Passes(u, w)
  BY DEF Rests, SameBuffers, Moves, Passes
<1> QED BY <1>1 DEF Rests, Moves, FrameAt

LEMMA RestsFrames ==
  ASSUME NEW v, NEW w, Rests(v, w)
  PROVE  Line(w) = Line(v) /\ OnShow(w) = OnShow(v)
  BY FrameOfIs DEF Rests, SameBuffers, Line, OnShow

(* Both views of a step between two handlers of a view that goes on.        *)
Both == IInv /\ PInv /\ CInv /\ ~view.disposed /\ IInv' /\ PInv'
Open == Both /\ ~view'.disposed

LEMMA OpenViews ==
  ASSUME Open
  PROVE  /\ Quiet(view) /\ Settled(view) /\ Sound(view) /\ Consistent(view) /\ view \in ViewType
         /\ Quiet(view') /\ Settled(view') /\ Consistent(view')
         /\ ~view'.update.lastCommitSync /\ Ordered(view.queue) /\ Apart(view)
<1>1. /\ Quiet(view) /\ Settled(view) /\ Quiet(view') /\ Settled(view')
      /\ Pages(view) /\ Blank(view)
  BY DEF Open, Both, IInv, PInv, CInv
<1>2. Consistent(view) /\ Consistent(view')
  BY <1>1 DEF Settled
<1> QED BY <1>1, <1>2, ConsistentApart DEF Sound, Quiet, Calm, Pages, Consistent

(* An action that moves the frames of the view.                             *)
LEMMA MovesFollows ==
  ASSUME Open, Moves(view, view'), Pages(view'), Blank(view'),
         view'.scanout.frame = view.scanout.frame \/ ~view.kms.busy
  PROVE  Follows
<1>1. /\ Consistent(view') /\ Ordered(view.queue) /\ Apart(view)
  BY OpenViews
<1>2. FrameStep(view, view', Line(view)) /\ Newer(view, view')
      /\ view'.queue.nextFrameSerial = view.queue.nextFrameSerial
  BY <1>1, PassesFrames DEF Moves, Passes
<1>3. Scans(view, view')
  BY StillScans DEF Moves
<1>4. Line(view) \cup {} = Line(view)
  OBVIOUS
<1> QED BY <1>2, <1>3, <1>4, StepFollows DEF Open, Both

(* An action that leaves frames and display as they are.                    *)
LEMMA RestsFollows ==
  ASSUME Open, Rests(view, view')
  PROVE  Follows
<1>1. view \in ViewType /\ Pages(view) /\ Blank(view)
  BY OpenViews DEF Sound
<1>2. Pages(view') /\ Blank(view') /\ Moves(view, view')
  BY <1>1, RestsKept
<1> QED BY <1>2, MovesFollows DEF Rests

(* GPU work that settles is nothing to the frames.                          *)
LEMMA GPUSettlesFollows ==
  ASSUME IInv, CInv, NEW b \in Buffers, GPUSettles(b) PROVE Follows
<1>1. PICK state : view' = [view EXCEPT !.fences.work[b] = state]
  BY DEF GPUSettles
<1>2. view \in ViewType
  BY DEF IInv
<1>3. /\ view'.queue = view.queue /\ view'.ledger = view.ledger /\ view'.scanout = view.scanout
      /\ view'.kms = view.kms /\ view'.chrome = view.chrome
      /\ view'.disposed = view.disposed
      /\ view'.fences.quarantine = view.fences.quarantine
  BY <1>1, <1>2 DEF ViewType, FencesType
<1>4. CInv'
  <2>1. SamePages(view, view')
    BY <1>3 DEF SamePages, SameBuffers
  <2> QED BY <1>3, <2>1, SamePagesKept DEF CInv, Blank
<1>5. KeepsWhatIsScanned
  BY <1>3 DEF KeepsWhatIsScanned
<1>6. PageShown(view) <= PageShown(view')
  <2>1. PageShown(view') = PageShown(view)
    BY <1>3 DEF PageShown
  <2>2. PageShown(view) \in Nat
    BY <1>2 DEF PageShown, ViewType, KMSType, ScanoutType
  <2> QED BY <2>1, <2>2
<1>7. UNCHANGED Lending!vars
  BY <1>3 DEF Lending!vars, FrameOf
<1> QED BY <1>4, <1>5, <1>6, <1>7 DEF Follows

(* The geometry is going to change.                                         *)
LEMMA ResizeFollows ==
  ASSUME Open, Resize PROVE Follows
<1>1. view \in ViewType
  BY OpenViews
<1>2. /\ view'.queue = view.queue /\ view'.fences = view.fences /\ view'.chrome = view.chrome
      /\ view'.scanout = view.scanout /\ view'.kms = view.kms
  BY <1>1 DEF Resize, ViewType
<1>3. Rests(view, view')
  BY <1>2 DEF Rests, SameBuffers
<1> QED BY <1>3, RestsFollows

(* Memory pressure drops base pages.                                        *)
LEMMA TrimCachesFollows ==
  ASSUME Open, TrimCaches PROVE Follows
<1> DEFINE p == [view.chrome EXCEPT !.preparedGeneration = 0, !.preparedPage = 0]
           c == [p EXCEPT !.basePage = 0, !.baseGeneration = 0]
<1>1. view \in ViewType
  BY OpenViews
<1>2. PICK h \in {p, c} : view' = [view EXCEPT !.chrome = h]
  BY DEF TrimCaches
<1>3. /\ h.generation = view.chrome.generation /\ h.preparedGeneration = 0
      /\ h.baseGeneration = 0 \/ (h.baseGeneration = view.chrome.baseGeneration
                                    /\ h.basePage = view.chrome.basePage)
  BY <1>1, <1>2 DEF ViewType, ChromeType
<1>4. /\ view'.queue = view.queue /\ view'.fences = view.fences /\ view'.chrome = h
      /\ view'.scanout = view.scanout /\ view'.kms = view.kms
  BY <1>1, <1>2 DEF ViewType
<1>5. Rests(view, view')
  BY <1>3, <1>4 DEF Rests, SameBuffers
<1> QED BY <1>5, RestsFollows

(* A chrome redraw is asked for.                                            *)
LEMMA RequestChromeRedrawFollows ==
  ASSUME Open, RequestChromeRedraw PROVE Follows
<1> DEFINE g == RefreshGeometry(view)
           H(open) == [g.chrome EXCEPT !.panelOpen = open, !.stale = TRUE, !.pending = TRUE,
                                       !.source = TRUE]
<1>1. view \in ViewType
  BY OpenViews
<1>2. g \in ViewType /\ Rests(view, g)
  BY <1>1, RefreshEffect, RefreshRests
<1>3. PICK open \in BOOLEAN : view' = [g EXCEPT !.chrome = H(open)]
  BY DEF RequestChromeRedraw
<1> HIDE DEF g
<1> DEFINE h == H(open)
<1>4. /\ h.generation = g.chrome.generation
      /\ h.baseGeneration = g.chrome.baseGeneration /\ h.basePage = g.chrome.basePage
      /\ h.preparedGeneration = g.chrome.preparedGeneration
      /\ h.preparedPage = g.chrome.preparedPage
  BY <1>2 DEF ViewType, ChromeType
<1>5. view' = [g EXCEPT !.chrome = h]
  BY <1>3
<1> HIDE DEF h
<1>6. /\ view'.queue = g.queue /\ view'.fences = g.fences /\ view'.chrome = h
      /\ view'.scanout = g.scanout /\ view'.kms = g.kms
  BY <1>2, <1>5 DEF ViewType
<1>7. Rests(view, view')
  BY <1>2, <1>4, <1>6 DEF Rests, SameBuffers
<1> QED BY <1>7, RestsFollows

(* A retired buffer is given back: FrameLending's Retire.                   *)
LEMMA QuarantineSettlesFollows ==
  ASSUME Open, NEW b \in Buffers, QuarantineSettles(b) PROVE Follows
<1> DEFINE x == [view EXCEPT !.fences.quarantine = @ \ {b}]
           w == BufferReleased(x, b)
<1>1. view \in ViewType /\ Sound(view)
  BY OpenViews
<1>2. b \in view.fences.quarantine /\ view' = w
  BY DEF QuarantineSettles
<1>3. /\ x \in ViewType /\ x.queue = view.queue
      /\ x.ledger = view.ledger /\ x.scanout = view.scanout /\ x.kms = view.kms
      /\ x.chrome = view.chrome /\ x.disposed = view.disposed
      /\ x.fences.quarantine = view.fences.quarantine \ {b}
  BY <1>1 DEF ViewType, FencesType
<1> HIDE DEF x
<1>4. /\ w.queue = x.queue /\ w.disposed = x.disposed
      /\ w.fences.quarantine = x.fences.quarantine
      /\ w.ledger.lent = x.ledger.lent \ {b}
  BY <1>3, ReleasedEffect
<1>5. w.scanout = x.scanout /\ w.kms = x.kms /\ w.chrome = x.chrome
  BY <1>3, ReleasedFences
<1> HIDE DEF w
<1>6. CInv'
  <2>1. SamePages(view, view')
    BY <1>2, <1>3, <1>4, <1>5 DEF SamePages, SameBuffers
  <2> QED BY <1>1, <1>2, <1>3, <1>5, <2>1, SamePagesKept DEF CInv, Sound, Blank
<1>7. KeepsWhatIsScanned
  BY <1>2, <1>3, <1>5 DEF KeepsWhatIsScanned
<1>8. PageShown(view) <= PageShown(view')
  <2>1. PageShown(view') = PageShown(view)
    BY <1>2, <1>3, <1>5 DEF PageShown
  <2>2. PageShown(view) \in Nat
    BY <1>1 DEF PageShown, ViewType, KMSType, ScanoutType
  <2> QED BY <2>1, <2>2
<1>9. Lending!Retire(b)
  <2>1. /\ view'.queue = view.queue /\ view'.disposed = view.disposed /\ ~view.disposed
        /\ view'.fences.quarantine = view.fences.quarantine \ {b}
        /\ view'.ledger.lent = view.ledger.lent \ {b}
    BY <1>2, <1>3, <1>4 DEF Open, Both
  <2> QED BY <1>2, <2>1 DEF Lending!Retire, FrameOf
<1>10. Lending!Next
  BY <1>9 DEF Lending!Next
<1> QED BY <1>6, <1>7, <1>8, <1>10 DEF Follows

(* The queued frame is submitted once its throttle delay is over.           *)
LEMMA ThrottleFiresFollows ==
  ASSUME Both, ThrottleFires PROVE Follows
<1> DEFINE v == [view EXCEPT !.update.throttleSource = FALSE]
<1>1. Quiet(view) /\ Settled(view) /\ view \in ViewType /\ view' \in CommitQueuedBuffer(v)
      /\ Pages(view) /\ Blank(view) /\ ~view.disposed
  BY RunningQuiet DEF Both, CInv, ThrottleFires, ThrottleReady
<1>2. /\ v \in ViewType /\ v.queue = view.queue /\ v.fences = view.fences
      /\ v.ledger = view.ledger /\ v.fault = view.fault /\ v.scanout = view.scanout
      /\ v.kms = view.kms /\ v.chrome = view.chrome /\ v.disposed = view.disposed
      /\ v.update.flags = view.update.flags
      /\ v.update.dropped = view.update.dropped
      /\ v.update.fenceWait = view.update.fenceWait
      /\ v.update.lastCommitSync = view.update.lastCommitSync
      /\ v.update.cursorTimer = view.update.cursorTimer
  BY <1>1 DEF ViewType, UpdateType
<1> HIDE DEF v
<1>3. Settled(v)
  BY <1>1, <1>2, SettledStep
<1>4. Calm(v)
  BY <1>1, <1>2, CalmStep DEF Quiet, Calm, Books
<1>5. Rests(view, v)
  BY <1>2 DEF Rests, SameBuffers
<1>6. Sound(v)
  BY <1>1, <1>2, <1>4, <1>5, RestsKept DEF Sound, Calm
<1>7. Open
  BY <1>1, <1>2, <1>3, CommitQueuedSettled DEF Open, Both
<1>8. /\ Sound(view')
      /\ view' = v \/ (~v.kms.busy /\ \E x : Promoted(v, x) /\ Moves(x, view'))
  BY <1>1, <1>3, <1>4, <1>6, CommitQueuedPages
<1>9. CASE view' = v
  BY <1>5, <1>7, <1>9, RestsFollows
<1>10. ASSUME NEW x, Promoted(v, x), Moves(x, view'), ~v.kms.busy
       PROVE  Follows
  <2>1. Ordered(v.queue) /\ Apart(v) /\ Consistent(view')
    BY <1>3, <1>6, <1>7, ConsistentApart, OpenViews DEF Sound, Pages, Settled
  <2>2. FrameStep(v, view', Line(v)) /\ Newer(v, view')
        /\ view'.queue.nextFrameSerial = v.queue.nextFrameSerial
    BY <1>10, <2>1, PromotedStep DEF Moves
  <2>3. Line(v) = Line(view) /\ OnShow(v) = OnShow(view)
    BY <1>5, RestsFrames
  <2>4. FrameStep(view, view', Line(view) \cup {}) /\ Newer(view, view')
    BY <1>2, <2>2, <2>3 DEF FrameStep, Newer
  <2>5. Scans(view, view')
    BY <1>2, <1>10, StillScans DEF Promoted, Moves, FrameAt
  <2> QED BY <1>2, <1>7, <1>8, <2>2, <2>4, <2>5, StepFollows DEF Open, Both, Sound
<1> QED BY <1>8, <1>9, <1>10

(* The fence wait is over: the frame is submitted or dropped.               *)
LEMMA FenceWaitEndsFollows ==
  ASSUME Both, FenceWaitEnds PROVE Follows
<1> DEFINE u == [view.update EXCEPT !.fenceWait = FALSE, !.flags = @ \ {"BufferUpdateRequested"}]
           v == [view EXCEPT !.update = u]
           b == view.queue.pendingBuffer
           a == AbortPending(v)
<1>1. Quiet(view) /\ Settled(view) /\ view \in ViewType /\ view.update.fenceWait
      /\ Pages(view) /\ Blank(view) /\ ~view.disposed
  BY RunningQuiet DEF Both, CInv, FenceWaitEnds, FenceWaitReady
<1>2. PICK w : /\ view' = DrainQueue(w)
               /\ \/ w = a
                  \/ view.fences.work[b] = "Ready" /\ \E r \in RequestUpdate(v) : w = SubmitFinished(r)
  BY DEF FenceWaitEnds
<1>3. /\ u \in UpdateType /\ ~u.fenceWait /\ u.flags = view.update.flags \ {"BufferUpdateRequested"}
      /\ u.lastCommitSync = view.update.lastCommitSync /\ u.dropped = view.update.dropped
      /\ u.cursorTimer = view.update.cursorTimer
  BY <1>1 DEF ViewType, UpdateType
<1> HIDE DEF u
<1>4. /\ v \in ViewType /\ v.queue = view.queue /\ v.fences = view.fences
      /\ v.ledger = view.ledger /\ v.fault = view.fault /\ v.disposed = view.disposed
      /\ v.scanout = view.scanout /\ v.kms = view.kms /\ v.chrome = view.chrome
      /\ v.update = u
  BY <1>1, <1>3 DEF ViewType
<1> HIDE DEF v
<1>5. FenceWaits(view) /\ Screened(view) /\ Books(view) /\ ~view.update.lastCommitSync
  BY <1>1 DEF Quiet, Calm, NoFrame, NoFence, Flips, OnItsWay
<1>6. Consistent(v)
  BY <1>1, <1>4 DEF Settled, Consistent, Owned, Held, ReportsDue
<1>7. Books(v)
  BY <1>3, <1>4, <1>5 DEF Books, Fenced
<1>8. Idle(v) /\ v.scanout.pending = None
  BY <1>4, <1>5 DEF FenceWaits, Screened, Owns, Idle
<1>9. b # None /\ v.queue.pendingBuffer = b /\ ~v.update.dropped
  BY <1>1, <1>3, <1>4, <1>5 DEF FenceWaits, Settled, Pends
<1>10. Rests(view, v)
  BY <1>4 DEF Rests, SameBuffers
<1>11. Sound(v)
  BY <1>1, <1>3, <1>4, <1>5, <1>10, RestsKept DEF Sound
<1>12. Pages(w) /\ Blank(w) /\ Moves(v, w) /\ w.disposed = v.disposed /\ w \in ViewType
  <2>1. CASE w = a
    <3>1. Pages(a) /\ Steady(v, a) /\ a.kms = v.kms
      BY <1>6, <1>11, AbortPages DEF Sound
    <3>2. a.disposed = v.disposed /\ a \in ViewType
      BY <1>6, AbortConsistent DEF Consistent
    <3> QED BY <1>11, <2>1, <3>1, <3>2, SteadyMoves DEF Sound, Blank
  <2>2. ASSUME NEW r \in RequestUpdate(v), w = SubmitFinished(r), view.fences.work[b] = "Ready"
        PROVE  Pages(w) /\ Blank(w) /\ Moves(v, w) /\ w.disposed = v.disposed /\ w \in ViewType
    <3>1. Asked(v)
      <4>1. /\ v.queue.pendingBuffer # None /\ v.queue.pendingTicket.phase = "WaitingFence"
            /\ v.fences.taken /\ v.fences.work[v.queue.pendingBuffer] # "Pending"
        BY <1>4, <1>5, <2>2 DEF FenceWaits
      <4> QED BY <1>3, <1>4, <1>5, <1>6, <1>7, <1>8, <4>1 DEF Asked
    <3> DEFINE s == SubmitFinished(r)
    <3>2. Sound(s) /\ Moves(v, s)
      BY <1>9, <1>11, <3>1, SubmitFinishedPages
    <3>3. s \in ViewType /\ s.disposed = v.disposed
      <4>1. Answer(v, r)
        BY <1>6, RequestUpdateAnswer
      <4>2. CASE r.ok /\ ~r.v.update.dropped
        BY <1>9, <4>1, <4>2, ShownSettled DEF SubmitFinished, Settled, Consistent
      <4>3. CASE ~(r.ok /\ ~r.v.update.dropped)
        BY <4>1, <4>3 DEF SubmitFinished, Answer, Consistent
      <4> QED BY <4>2, <4>3
    <3> HIDE DEF s
    <3>4. w = s
      BY <2>2 DEF s
    <3> QED BY <3>2, <3>3, <3>4 DEF Sound
  <2> QED BY <1>2, <2>1, <2>2
<1>13. Rests(w, view') /\ view'.disposed = w.disposed
  <2> DEFINE x == [w EXCEPT !.update.throttleSource = TRUE]
  <2>1. /\ x.queue = w.queue /\ x.fences = w.fences /\ x.chrome = w.chrome
        /\ x.scanout = w.scanout /\ x.kms = w.kms /\ x.disposed = w.disposed
    BY <1>12 DEF ViewType
  <2>2. view' \in {w, x}
    BY <1>2 DEF DrainQueue
  <2> HIDE DEF x
  <2> QED BY <2>1, <2>2 DEF Rests, SameBuffers
<1>14. Open
  BY <1>1, <1>4, <1>12, <1>13 DEF Open, Both
<1>15. Moves(view, view')
  BY <1>10, <1>12, <1>13, RestsMoves, MovesRests
<1>16. Pages(view') /\ Blank(view')
  BY <1>12, <1>13, RestsKept
<1> QED BY <1>5, <1>14, <1>15, <1>16, MovesFollows DEF FenceWaits

(* The chrome tick.                                                         *)
LEMMA RedrawChromeOpen ==
  ASSUME NEW v, Settled(v), v.queue.pendingBuffer = None, NEW w \in RedrawChrome(v)
  PROVE  w.disposed = v.disposed
<1> DEFINE Bases == IF v.chrome.baseGeneration = v.chrome.generation
                      THEN {[v |-> v, ok |-> TRUE]} ELSE CaptureBase(v)
<1>1. PICK base \in Bases :
        w \in (IF base.ok THEN {ChromeRedrawn(r) : r \in RequestUpdate(base.v)} ELSE {base.v})
  BY DEF RedrawChrome
<1>2. Consistent(base.v) /\ SameCore(v, base.v)
  BY CaptureBaseConsistent DEF Settled, SameCore
<1> HIDE DEF Bases
<1> DEFINE y == base.v
<1>3. y.queue.pendingBuffer = None /\ y.disposed = v.disposed
  BY <1>2 DEF SameCore
<1>4. CASE base.ok
  <2>1. PICK r \in RequestUpdate(y) : w = ChromeRedrawn(r)
    BY <1>1, <1>4
  <2>2. Answer(y, r)
    BY <1>2, RequestUpdateAnswer
  <2> HIDE DEF y
  <2> DEFINE s == [r.v EXCEPT !.update.flags = @ \cup {"BufferUpdateRequested"}]
             c == CompleteSynchronous(s)
             x == [c EXCEPT !.chrome.pending = FALSE]
  <2>3. Settled(c) /\ c.disposed = y.disposed
    BY <1>3, <2>2, ShownSettled
  <2>4. w = r.v \/ w = x
    BY <2>1 DEF ChromeRedrawn
  <2> HIDE DEF c
  <2>5. x.disposed = c.disposed
    BY <2>3 DEF Settled, Consistent, ViewType
  <2> QED BY <1>3, <2>2, <2>3, <2>4, <2>5 DEF Answer
<1> QED BY <1>1, <1>3, <1>4

LEMMA ChromeTickFollows ==
  ASSUME Both, ChromeTick PROVE Follows
<1> DEFINE g == RefreshGeometry(view)
           V(animating) == [g EXCEPT !.chrome.pending = @ \/ animating \/ view.update.resized]
           W(w, source) == [w EXCEPT !.chrome.source = source]
<1>1. Quiet(view) /\ Settled(view) /\ view \in ViewType
      /\ Pages(view) /\ Blank(view) /\ ~view.disposed
  BY RunningQuiet DEF Both, CInv, ChromeTick
<1>2. PICK animating \in {FALSE, view.chrome.panelOpen} :
        LET v == V(animating)
            waiting == WebFrameWaiting(v) \/ v.update.flags \cap Requested # {}
        IN  \E w \in IF v.chrome.pending /\ v.queue.committedBuffer # None /\ ~waiting
                       THEN RedrawChrome(v) ELSE {v} :
              view' = W(w, animating \/ (w.chrome.pending /\ waiting))
  BY DEF ChromeTick
<1> DEFINE v == V(animating)
           waiting == WebFrameWaiting(v) \/ v.update.flags \cap Requested # {}
<1>3. /\ g \in ViewType /\ g.fences = view.fences /\ g.ledger = view.ledger
      /\ SameBuffers(view, g) /\ g.queue.pendingTicket = view.queue.pendingTicket
      /\ g.update.flags = view.update.flags /\ g.update.dropped = view.update.dropped
      /\ g.fault = view.fault /\ g.disposed = view.disposed
  BY <1>1, RefreshEffect
<1>4. /\ g.queue.queuedTicket = view.queue.queuedTicket
      /\ g.scanout = view.scanout /\ g.kms = view.kms
      /\ g.update.fenceWait = view.update.fenceWait
      /\ g.update.lastCommitSync = view.update.lastCommitSync
      /\ g.update.cursorTimer = view.update.cursorTimer
      /\ g.update.throttleSource = view.update.throttleSource
      /\ Rests(view, g)
  BY <1>1, RefreshQuiet, RefreshRests
<1>5. animating \in BOOLEAN
  BY <1>1 DEF ViewType, ChromeType
<1> HIDE DEF g
<1>6. /\ v \in ViewType /\ v.queue = g.queue /\ v.fences = g.fences /\ v.ledger = g.ledger
      /\ v.update = g.update /\ v.fault = g.fault /\ v.scanout = g.scanout /\ v.kms = g.kms
      /\ v.disposed = g.disposed /\ Rests(g, v)
  <2> DEFINE p == g.chrome.pending \/ animating \/ view.update.resized
  <2>1. p \in BOOLEAN
    OBVIOUS
  <2>2. v = [g EXCEPT !.chrome.pending = p]
    OBVIOUS
  <2> HIDE DEF p
  <2> DEFINE z == [g EXCEPT !.chrome.pending = p]
  <2>3. /\ z \in ViewType /\ z.queue = g.queue /\ z.fences = g.fences /\ z.ledger = g.ledger
        /\ z.update = g.update /\ z.fault = g.fault /\ z.disposed = g.disposed
        /\ z.scanout = g.scanout /\ z.kms = g.kms
        /\ z.chrome = [g.chrome EXCEPT !.pending = p]
    BY <1>3, <2>1 DEF ViewType, ChromeType
  <2>4. /\ z.chrome.generation = g.chrome.generation
        /\ z.chrome.baseGeneration = g.chrome.baseGeneration
        /\ z.chrome.basePage = g.chrome.basePage
        /\ z.chrome.preparedGeneration = g.chrome.preparedGeneration
        /\ z.chrome.preparedPage = g.chrome.preparedPage
    BY <1>3, <2>3 DEF ViewType, ChromeType
  <2>5. v = z
    BY <2>2
  <2> HIDE DEF v, z
  <2> QED BY <2>3, <2>4, <2>5 DEF Rests, SameBuffers
<1>7. PICK w \in IF v.chrome.pending /\ v.queue.committedBuffer # None /\ ~waiting
                   THEN RedrawChrome(v) ELSE {v} :
        view' = W(w, animating \/ (w.chrome.pending /\ waiting))
  BY <1>2
<1> HIDE DEF V
<1>8. Settled(v)
  BY <1>1, <1>3, <1>6 DEF Settled, Pends, Consistent, Owned, Held, ReportsDue, SameBuffers
<1>9. Calm(v)
  BY <1>1, <1>3, <1>4, <1>6, CalmStep DEF Quiet, Calm, Books, SameBuffers
<1>10. Quiet(v)
  BY <1>1, <1>3, <1>4, <1>6, <1>9 DEF Quiet, Armed, SameBuffers
<1>11. Rests(view, v)
  BY <1>4, <1>6 DEF Rests, SameBuffers
<1>12. Sound(v)
  BY <1>1, <1>9, <1>11, RestsKept DEF Sound, Calm
<1>13. /\ Sound(w) /\ w \in ViewType /\ Moves(v, w) /\ w.disposed = v.disposed
       /\ w.scanout.frame = v.scanout.frame \/ ~v.kms.busy
  <2>1. CASE w = v
    BY <1>6, <1>12, <2>1 DEF Moves, Passes
  <2>2. CASE ~waiting /\ v.queue.committedBuffer # None /\ w \in RedrawChrome(v)
    <3>1. ~WebFrameWaiting(v) /\ v.update.flags \cap Requested = {}
          /\ v.queue.pendingBuffer = None
      BY <2>2 DEF WebFrameWaiting
    <3>2. Settled(w) /\ w.disposed = v.disposed
      BY <1>8, <2>2, <3>1, RedrawChromeSettled, RedrawChromeOpen
    <3>3. Sound(w) /\ Moves(v, w)
      BY <1>8, <1>10, <1>12, <2>2, <3>1, RedrawChromePages
    <3>4. ~v.kms.busy
      BY <1>9, <3>1, FlagsClear DEF Idle
    <3> QED BY <3>2, <3>3, <3>4 DEF Settled, Consistent
  <2> QED BY <1>7, <2>1, <2>2
<1> DEFINE source == animating \/ (w.chrome.pending /\ waiting)
           z == W(w, source)
<1>14. view' = z
  BY <1>7
<1>15. Rests(w, z) /\ z.disposed = w.disposed /\ z.scanout = w.scanout
  <2>1. /\ z.queue = w.queue /\ z.fences = w.fences
        /\ z.scanout = w.scanout /\ z.kms = w.kms /\ z.disposed = w.disposed
        /\ z.chrome = [w.chrome EXCEPT !.source = source]
    BY <1>13 DEF ViewType
  <2> HIDE DEF source
  <2>2. /\ z.chrome.generation = w.chrome.generation
        /\ z.chrome.baseGeneration = w.chrome.baseGeneration
        /\ z.chrome.basePage = w.chrome.basePage
        /\ z.chrome.preparedGeneration = w.chrome.preparedGeneration
        /\ z.chrome.preparedPage = w.chrome.preparedPage
    BY <1>13, <2>1 DEF ViewType, ChromeType
  <2> HIDE DEF z
  <2> QED BY <2>1, <2>2 DEF Rests, SameBuffers
<1> HIDE DEF z, v, W, waiting
<1>16. Open
  BY <1>1, <1>3, <1>6, <1>13, <1>14, <1>15 DEF Open, Both
<1>17. Moves(view, view')
  BY <1>11, <1>13, <1>14, <1>15, RestsMoves, MovesRests
<1>18. Pages(view') /\ Blank(view')
  BY <1>13, <1>14, <1>15, RestsKept DEF Sound
<1>19. view'.scanout.frame = view.scanout.frame \/ ~view.kms.busy
  BY <1>4, <1>6, <1>13, <1>14, <1>15
<1> QED BY <1>16, <1>17, <1>18, <1>19, MovesFollows

(* Most actions leave the view running.                                     *)
LEMMA RunsOn ==
  ASSUME Both,
         \/ Resize \/ TrimCaches \/ RequestChromeRedraw
         \/ \E b \in Buffers : QuarantineSettles(b)
  PROVE  Open
<1>1. view \in ViewType /\ ~view.disposed
  BY DEF Both, IInv
<1>2. CASE Resize
  <2>1. view'.disposed = view.disposed
    BY <1>1, <1>2 DEF Resize, ViewType
  <2> QED BY <1>1, <2>1 DEF Open
<1>3. CASE TrimCaches
  <2>1. view'.disposed = view.disposed
    BY <1>1, <1>3 DEF TrimCaches, ViewType
  <2> QED BY <1>1, <2>1 DEF Open
<1>4. CASE RequestChromeRedraw
  <2> DEFINE g == RefreshGeometry(view)
             H(open) == [g.chrome EXCEPT !.panelOpen = open, !.stale = TRUE, !.pending = TRUE,
                                         !.source = TRUE]
  <2>1. PICK open \in BOOLEAN : view' = [g EXCEPT !.chrome = H(open)]
    BY <1>4 DEF RequestChromeRedraw
  <2>2. g \in ViewType /\ g.disposed = view.disposed
    BY <1>1, RefreshEffect
  <2> HIDE DEF g
  <2> DEFINE h == H(open)
  <2>3. view' = [g EXCEPT !.chrome = h]
    BY <2>1
  <2> HIDE DEF h
  <2>4. view'.disposed = g.disposed
    BY <2>2, <2>3 DEF ViewType
  <2> QED BY <1>1, <2>2, <2>4 DEF Open
<1>5. ASSUME NEW b \in Buffers, QuarantineSettles(b) PROVE Open
  <2> DEFINE x == [view EXCEPT !.fences.quarantine = @ \ {b}]
  <2>1. view' = BufferReleased(x, b)
    BY <1>5 DEF QuarantineSettles
  <2>2. x \in ViewType /\ x.disposed = view.disposed
    BY <1>1 DEF ViewType, FencesType
  <2> HIDE DEF x
  <2>3. view'.disposed = x.disposed
    BY <2>1, <2>2, ReleasedEffect
  <2> QED BY <1>1, <2>2, <2>3 DEF Open
<1> QED BY <1>2, <1>3, <1>4, <1>5

(* A frame that is accepted and at once makes one step of Progress with the  *)
(* handler's.                                                               *)
LEMMA NewFrameFollows ==
  ASSUME Open, NEW b \in Buffers, b \notin view.ledger.lent, Pages(view'), Blank(view'),
         Scans(view, view'), Newer(view, view'),
         FrameStep(view, view',
                   Line(view) \cup {[buffer |-> b, serial |-> view.queue.nextFrameSerial + 1]}),
         view'.queue.nextFrameSerial = view.queue.nextFrameSerial + 1
  PROVE  Follows
<1> DEFINE new == {[buffer |-> b, serial |-> view.queue.nextFrameSerial + 1]}
<1>1. \E c \in Buffers \ view.ledger.lent :
        new = {[buffer |-> c, serial |-> view.queue.nextFrameSerial + 1]}
  OBVIOUS
<1>2. FrameStep(view, view', Line(view) \cup new)
  OBVIOUS
<1> HIDE DEF new
<1> QED BY <1>1, <1>2, StepFollows DEF Open, Both

(* A buffer is handed over and queued or submitted.                         *)
LEMMA RenderBufferFollows ==
  ASSUME Both, NEW b \in Buffers, RenderBuffer(b) PROVE Follows
<1>1. Quiet(view) /\ Settled(view) /\ view \in ViewType /\ b \notin view.ledger.lent
      /\ Pages(view) /\ Blank(view) /\ ~view.disposed
  BY RunningQuiet DEF Both, CInv, RenderBuffer
<1>2. PICK work \in FencesGiven, delay \in ThrottleAnswers :
        LET v == ForgetCursor(HandOver(view, b, work)) IN
        view' \in
           IF v.update.flags \cap Requested # {}
             THEN {QueueBuffer(v, b)}
           ELSE IF v.update.throttleSource \/ (v.queue.committedBuffer # None /\ delay)
             THEN {[QueueBuffer(v, b) EXCEPT !.update.throttleSource = TRUE]}
           ELSE SubmitFresh(TakeFrame(v, b))
  BY DEF RenderBuffer
<1> DEFINE v == ForgetCursor(HandOver(view, b, work))
           w == QueueBuffer(v, b)
           x == [w EXCEPT !.update.throttleSource = TRUE]
           n == view.queue.nextFrameSerial
           new == [buffer |-> b, serial |-> n + 1]
<1>3. Given(v, b) /\ v.disposed = view.disposed
  BY <1>1, HandOverGiven
<1>4. Quiet(v) /\ b \in v.fences.held /\ b \notin Held(v)
  BY <1>1, HandOverQuiet
<1>5. Rests(view, v)
  BY <1>1, HandOverRests
<1>6. \/ view' \in {w, x}
      \/ v.update.flags \cap Requested = {} /\ ~v.update.throttleSource
           /\ view' \in SubmitFresh(TakeFrame(v, b))
  BY <1>2
<1> HIDE DEF v
<1>7. v \in ViewType /\ Pages(v) /\ Blank(v)
  BY <1>1, <1>3, <1>5, RestsKept DEF Given
<1>8. /\ Line(v) = Line(view) /\ OnShow(v) = OnShow(view)
      /\ v.queue.nextFrameSerial = n
      /\ v.queue.committedTicket.serial = view.queue.committedTicket.serial
      /\ v.fences.quarantine = view.fences.quarantine
      /\ v.scanout.frame = view.scanout.frame /\ v.kms = view.kms
      /\ v.scanout.committed = view.scanout.committed
  BY <1>5, RestsFrames DEF Rests
<1>9. /\ v.queue.pendingBuffer # None =>
           v.queue.pendingBuffer \notin {v.queue.queuedBuffer, v.queue.committedBuffer}
      /\ v.queue.queuedBuffer # None => v.queue.queuedBuffer # v.queue.committedBuffer
  BY <1>3 DEF Given
<1>10. CASE view' \in {w, x}
  <2>1. TakenIn(v, w, b)
    BY <1>3, <1>4, QueueBufferTakesIn DEF Quiet
  <2>2. w.disposed = v.disposed /\ w \in ViewType /\ w.queue.pendingBuffer = v.queue.pendingBuffer
    BY <1>3, QueueBufferConsistent DEF Consistent
  <2> HIDE DEF w
  <2>3. /\ x.queue = w.queue /\ x.fences = w.fences /\ x.scanout = w.scanout
        /\ x.kms = w.kms /\ x.chrome = w.chrome /\ x.disposed = w.disposed
    BY <2>2 DEF ViewType
  <2> HIDE DEF x
  <2>4. TakenIn(v, view', b) /\ view'.disposed = v.disposed
        /\ view'.queue.pendingBuffer = v.queue.pendingBuffer
    BY <1>10, <2>1, <2>2, <2>3 DEF TakenIn
  <2>5. Open
    BY <1>1, <1>3, <2>4 DEF Open
  <2>6. Pages(view') /\ Blank(view')
    BY <1>7, <2>4, TakenInPages
  <2>7. FrameStep(v, view', Line(v) \cup {[buffer |-> b, serial |-> v.queue.nextFrameSerial + 1]})
        /\ Newer(v, view')
    BY <1>4, <1>7, <1>9, <2>4, TakenInFrames
  <2>8. FrameStep(view, view', Line(view) \cup {new}) /\ Newer(view, view')
    BY <1>8, <2>7 DEF FrameStep, Newer
  <2>9. view'.scanout.frame = view.scanout.frame /\ view'.queue.nextFrameSerial = n + 1
    BY <1>8, <2>4 DEF TakenIn
  <2>10. Scans(view, view')
    BY <2>9, StillScans
  <2> QED BY <1>1, <2>5, <2>6, <2>8, <2>9, <2>10, NewFrameFollows
<1>11. CASE v.update.flags \cap Requested = {} /\ ~v.update.throttleSource
              /\ view' \in SubmitFresh(TakeFrame(v, b))
  <2> DEFINE t == TakeFrame(v, b)
  <2>1. Asked(t) /\ t.queue.queuedBuffer = None
    BY <1>3, <1>4, <1>11, TakeFrameAsked
  <2>2. /\ NoFrame(v) /\ Idle(v) /\ v.scanout.pending = None
        /\ ~v.update.lastCommitSync /\ v.queue.queuedBuffer = None
    BY <1>4, <1>11, FlagsClear DEF Quiet, Armed, Idle
  <2>3. TakenIn(v, t, b) /\ t.update.lastCommitSync = v.update.lastCommitSync
    BY <1>7, <2>2, TakeFrameTakesIn DEF NoFrame
  <2>4. Consistent(t) /\ t.disposed = v.disposed
    BY <1>3, <2>2, TakeFrameConsistent DEF NoFrame
  <2>5. Consistent(view') /\ view'.disposed = v.disposed
    BY <1>11, <2>4, SubmitFreshSettled DEF Settled
  <2> HIDE DEF t
  <2>6. t.queue.pendingBuffer = b /\ b # None
    BY <2>1, <2>3, <2>2, QueueAssumption DEF TakenIn
  <2>7. Sound(t)
    BY <1>7, <2>2, <2>3, TakenInPages DEF Sound
  <2>8. Sound(view') /\ Moves(t, view')
    BY <1>11, <2>1, <2>6, <2>7, SubmitFreshPages DEF t
  <2>9. Open
    BY <1>1, <1>3, <2>5 DEF Open
  <2>10. FrameStep(t, view', Line(t)) /\ Newer(t, view')
         /\ view'.queue.nextFrameSerial = t.queue.nextFrameSerial
    BY <2>4, <2>5, <2>7, <2>8, ConsistentApart, PassesFrames DEF Sound, Pages, Moves, Passes
  <2>11. FrameStep(v, t, Line(v) \cup {new}) /\ Newer(v, t) /\ OnShow(t) = OnShow(v)
    BY <1>4, <1>7, <1>8, <1>9, <2>3, TakenInFrames
  <2>12. Line(t) = Line(v) \cup {new}
    <3>1. Line(v) = {}
      BY <2>2, FramesAre DEF NoFrame
    <3>2. t.queue.pendingTicket.serial = n + 1
      BY <1>8, <2>1, <2>3, <2>6 DEF TakenIn
    <3>3. Line(t) = {new}
      BY <2>1, <2>6, <3>2, FrameOfIs DEF Line
    <3> QED BY <3>1, <3>3
  <2>13. FrameStep(v, view', Line(v) \cup {new})
    BY <2>10, <2>11, <2>12, FrameStepTwice
  <2>14. t.queue.committedTicket = v.queue.committedTicket
         /\ t.queue.nextFrameSerial = n + 1 /\ t.scanout = v.scanout /\ t.kms = v.kms
    BY <1>8, <2>3 DEF TakenIn
  <2>15. FrameStep(view, view', Line(view) \cup {new}) /\ Newer(view, view')
    BY <1>8, <2>10, <2>13, <2>14 DEF FrameStep, Newer
  <2>16. Scans(view, view')
    BY <1>8, <2>2, <2>8, <2>14, StillScans DEF Moves, FrameAt, Idle
  <2> QED BY <1>1, <2>8, <2>9, <2>10, <2>14, <2>15, <2>16, NewFrameFollows DEF Sound
<1> QED BY <1>6, <1>10, <1>11

(* A page flip disposes of nothing.                                         *)
LEMMA AfterFlipOpen ==
  ASSUME NEW v, Settled(v)
  PROVE  AfterFlip(v).disposed = v.disposed
<1> DEFINE f == Flipped(v)
           k == [busy |-> FALSE, next |-> None, screen |-> v.kms.next]
<1>1. v \in ViewType
  BY DEF Settled, Consistent
<1>2. /\ f \in ViewType /\ f.queue = v.queue /\ f.fences = v.fences /\ f.ledger = v.ledger
      /\ f.fault = v.fault /\ f.disposed = v.disposed
  <2>1. k \in KMSType
    BY <1>1 DEF ViewType, KMSType
  <2>2. f = [v EXCEPT !.kms = k, !.scanout.atomicInFlight = FALSE, !.update.flags = {}]
    BY DEF Flipped
  <2> HIDE DEF k, f
  <2> QED BY <1>1, <2>1, <2>2 DEF ViewType, ScanoutType, UpdateType
<1>3. AfterFlip(v) \in {f, FinishBufferCommit(f)}
  BY DEF AfterFlip
<1> HIDE DEF f
<1>4. Consistent(f)
  BY <1>2 DEF Settled, Consistent, Owned, Held, ReportsDue
<1>5. FinishBufferCommit(f).disposed = f.disposed
  BY <1>4, FinishConsistent
<1> QED BY <1>2, <1>3, <1>5

(* A page flip, and the queued frame it lets in.                            *)
LEMMA PageFlipFollows ==
  ASSUME Both, PageFlip PROVE Follows
<1> DEFINE v == AfterFlip(view)
           x == [v EXCEPT !.update.flags = {"BufferUpdatePending"}, !.update.throttleSource = TRUE]
           flags == view.update.flags
<1>1. Quiet(view) /\ Settled(view) /\ view \in ViewType /\ view.kms.busy
      /\ Pages(view) /\ Blank(view) /\ ~view.disposed
  BY RunningQuiet DEF Both, CInv, PageFlip, FlipReady
<1>2. view' \in {v, x} \cup CommitQueuedBuffer(v)
  <2>1. "CursorUpdatePending" \notin flags
    BY <1>1 DEF Quiet, Calm, Books, FrameFlags
  <2> QED BY <2>1 DEF PageFlip
<1>3. Calm(v) /\ Settled(v) /\ v \in ViewType /\ v.disposed = view.disposed
  BY <1>1, AfterFlipCalm, AfterFlipSettled, AfterFlipOpen DEF Settled, Consistent
<1>4. /\ Sound(v) /\ v.queue.pendingBuffer = None /\ ~v.kms.busy
      /\ v.scanout.frame = view.scanout.frame /\ v.scanout.committed = Shows(view)
      /\ v.fences.quarantine = view.fences.quarantine
      /\ v.queue.queuedBuffer = view.queue.queuedBuffer
      /\ v.queue.queuedTicket = view.queue.queuedTicket
      /\ v.queue.nextFrameSerial = view.queue.nextFrameSerial
      /\ IF view.queue.pendingBuffer # None
           THEN /\ v.queue.committedBuffer = view.queue.pendingBuffer
                /\ v.queue.committedTicket.serial = view.queue.pendingTicket.serial
           ELSE /\ v.queue.committedBuffer = view.queue.committedBuffer
                /\ v.queue.committedTicket = view.queue.committedTicket
      /\ Immediate => view.queue.pendingBuffer = None /\ Shows(view) = None
  BY <1>1, AfterFlipPages
<1> HIDE DEF v
<1>5. Consistent(view) /\ Consistent(v) /\ Apart(view) /\ Apart(v)
  BY <1>1, <1>3, ConsistentApart DEF Settled
<1>6. Passes(view, v)
  BY <1>4 DEF Passes
<1>7. FrameStep(view, v, Line(view)) /\ Newer(view, v)
  BY <1>1, <1>5, <1>6, PassesFrames DEF Pages
<1>8. Line(view) \cup {} = Line(view)
  OBVIOUS
<1>9. CASE view' \in {v, x}
  <2>1. /\ x.queue = v.queue /\ x.fences = v.fences /\ x.scanout = v.scanout
        /\ x.kms = v.kms /\ x.chrome = v.chrome /\ x.disposed = v.disposed
    BY <1>3 DEF ViewType
  <2> HIDE DEF x
  <2>2. Rests(v, view') /\ view'.disposed = v.disposed
    BY <1>9, <2>1 DEF Rests, SameBuffers
  <2>3. Pages(view') /\ Blank(view')
    BY <1>3, <1>4, <2>2, RestsKept DEF Sound
  <2>4. FrameStep(view, view', Line(view)) /\ Newer(view, view')
    <3>1. /\ Line(view') = Line(v) /\ OnShow(view') = OnShow(v)
          /\ view'.fences.quarantine = v.fences.quarantine
          /\ view'.queue.committedTicket.serial = v.queue.committedTicket.serial
      BY <2>2, RestsFrames DEF Rests
    <3> QED BY <1>7, <3>1 DEF FrameStep, Newer
  <2>5. Scans(view, view')
    BY <1>4, <2>2, StillScans DEF Rests
  <2>6. view'.queue.nextFrameSerial = view.queue.nextFrameSerial /\ ~view'.disposed
    BY <1>1, <1>3, <1>4, <2>2 DEF Rests
  <2> QED BY <1>1, <1>8, <2>3, <2>4, <2>5, <2>6, StepFollows DEF Both
<1>10. CASE view' \in CommitQueuedBuffer(v) /\ view' # v
  <2>1. PICK z : Promoted(v, z) /\ Moves(z, view')
    BY <1>3, <1>4, <1>10, CommitQueuedPages
  <2>2. Sound(view') /\ Consistent(view') /\ view'.disposed = v.disposed
    BY <1>3, <1>4, <1>10, CommitQueuedPages, CommitQueuedSettled DEF Settled
  <2>3. Ordered(v.queue)
    BY <1>4 DEF Sound, Pages
  <2>4. FrameStep(v, view', Line(v)) /\ Newer(v, view')
        /\ view'.queue.nextFrameSerial = v.queue.nextFrameSerial
    BY <1>5, <2>1, <2>2, <2>3, PromotedStep DEF Moves
  <2>5. /\ FrameAt(view', v.scanout.committed) = FrameAt(v, v.scanout.committed)
        /\ view'.scanout.committed = v.scanout.committed \/ Immediate
    BY <2>1 DEF Promoted, Moves, FrameAt
  <2>6. OnShow(view') = OnShow(v) \/ (OnShow(v) = OnShow(view) /\ Line(v) = Line(view))
    <3>1. CASE Immediate
      <4>1. view.queue.pendingBuffer = None /\ v.queue.committedTicket = view.queue.committedTicket
            /\ v.queue.committedBuffer = view.queue.committedBuffer
        BY <1>4, <3>1
      <4> QED BY <1>4, <4>1, FrameOfIs DEF Line, OnShow
    <3>2. CASE view'.scanout.committed = v.scanout.committed
      <4>1. view'.queue.committedTicket.serial = v.queue.committedTicket.serial
        BY <1>4, <2>2, <2>5, <3>2 DEF Sound, Pages, Drawn
      <4>2. v.queue.committedTicket.serial < v.queue.queuedTicket.serial
        BY <2>1, <2>3 DEF Promoted, Ordered
      <4>3. v.queue.committedTicket.serial # v.queue.queuedTicket.serial
        BY <4>2, <1>5, <2>1 DEF Apart, Promoted
      <4>4. view'.queue.committedBuffer = v.queue.committedBuffer
        BY <2>1, <4>1, <4>3 DEF Moves, Passes, Promoted
      <4> QED BY <4>1, <4>4, FrameOfIs DEF OnShow
    <3> QED BY <2>5, <3>1, <3>2
  <2>7. FrameStep(view, view', Line(view))
    BY <1>7, <2>4, <2>6, FrameStepTwice
  <2>8. Newer(view, view')
    <3>1. view'.queue.committedTicket.serial \in Nat
      BY <2>2, ConsistentApart DEF Apart
    <3> QED BY <1>5, <1>7, <2>4, <3>1 DEF Newer, Apart
  <2>9. Scans(view, view')
    <3> SUFFICES ASSUME NEW t \in Targets,
                        (view.kms.busy /\ t = Shows(view))
                          \/ (t = view.scanout.committed /\ t = view'.scanout.committed)
                 PROVE  view'.scanout.frame[t] = view.scanout.frame[t]
      BY DEF Scans
    <3>1. t # None
      BY QueueAssumption DEF Targets
    <3>2. t = Shows(view)
      <4>1. CASE Immediate
        <5>1. view.scanout.committed = None
          BY <1>4, <4>1 DEF Shows
        <5> QED BY <3>1, <5>1
      <4>2. CASE view'.scanout.committed = v.scanout.committed
        BY <1>4, <4>2
      <4> QED BY <2>5, <4>1, <4>2
    <3> QED BY <1>4, <2>5, <3>1, <3>2 DEF FrameAt
  <2>10. ~view'.disposed /\ view'.queue.nextFrameSerial = view.queue.nextFrameSerial
    BY <1>1, <1>3, <1>4, <2>2, <2>4
  <2> QED BY <1>1, <1>8, <2>2, <2>7, <2>8, <2>9, <2>10, StepFollows DEF Both, Sound
<1> QED BY <1>2, <1>9, <1>10

(* Disposing draws nothing and lends nothing more: FrameLending's Close.    *)
LEMMA DisposeFollows ==
  ASSUME IInv, Dispose PROVE Follows
<1>1. view \in ViewType /\ ~view.disposed
  BY RunningSettled DEF Dispose
<1>2. PICK released \in {{}, {b \in Held(view) : RenderingComplete(view, b)}},
           screen \in {None, view.kms.next, view.kms.screen} :
        view' = Disposed(view, released, screen)
  BY DEF Dispose
<1> DEFINE l == [view.ledger EXCEPT
                   !.lent = @ \ released, !.repeated = @ \cup (released \ view.ledger.lent),
                   !.early = @ \cup {b \in released : view.fences.work[b] = "Pending"}]
           q == [view.queue EXCEPT !.queuedBuffer = None, !.pendingBuffer = None,
                                   !.committedBuffer = None]
           c == [view.scanout EXCEPT !.pending = None, !.committed = None]
           f == [view.fences EXCEPT !.held = @ \ Held(view), !.quarantine = {},
                                    !.pending = FALSE, !.taken = FALSE]
<1>3. /\ view'.ledger = l /\ view'.queue = q /\ view'.scanout = c /\ view'.fences = f
      /\ view'.disposed
  BY <1>1, <1>2 DEF Disposed, ViewType
<1>4. /\ l.lent = view.ledger.lent \ released
      /\ q.queuedBuffer = None /\ q.pendingBuffer = None /\ q.committedBuffer = None
      /\ q.nextFrameSerial = view.queue.nextFrameSerial
      /\ c.frame = view.scanout.frame /\ f.quarantine = {}
  BY <1>1 DEF ViewType, LedgerType, QueueType, ScanoutType, FencesType
<1> HIDE DEF l, q, c, f
<1>5. CInv' /\ KeepsWhatIsScanned
  BY <1>3, <1>4 DEF CInv, KeepsWhatIsScanned
<1>6. Lending!Close
  <2>1. /\ view'.ledger.lent \subseteq view.ledger.lent
        /\ view'.queue.queuedBuffer = None /\ view'.queue.pendingBuffer = None
        /\ view'.queue.committedBuffer = None
        /\ view'.queue.nextFrameSerial = view.queue.nextFrameSerial
        /\ view'.fences.quarantine = {}
    BY <1>3, <1>4
  <2> QED BY <1>1, <1>3, <2>1 DEF Lending!Close, FrameOf
<1>7. Lending!Next
  BY <1>6 DEF Lending!Next
<1> QED BY <1>3, <1>5, <1>7 DEF Follows

-----------------------------------------------------------------------------
(* The initial view holds no page.                                          *)
LEMMA InitCInv == Init => CInv
<1> SUFFICES ASSUME Init PROVE CInv
  OBVIOUS
<1>1. /\ view.queue.pendingBuffer = None /\ view.queue.queuedBuffer = None
      /\ view.queue.committedBuffer = None /\ view.queue.committedTicket = NoTicket
      /\ view.queue.nextFrameSerial = 0
      /\ view.scanout.pending = None /\ view.scanout.committed = None
      /\ view.chrome.generation = 0 /\ view.chrome.baseGeneration = 0
      /\ view.chrome.preparedGeneration = 0 /\ ~view.kms.busy
  BY DEF Init
<1>2. NoTicket.serial = 0
  BY DEF NoTicket
<1>3. Pages(view)
  BY <1>1, <1>2 DEF Pages, Ordered, Drawn, FrameAt, Coming, Based, InPlace
<1> QED BY <1>1, <1>3 DEF CInv, Blank

(* Every step.                                                              *)
LEMMA NextFollows ==
  ASSUME ~HasCursor, IInv, PInv, CInv, [Next]_view PROVE IInv' /\ PInv' /\ Follows
<1>1. IInv' /\ PInv'
  BY NextIInv, NextPInv DEF Good
<1>2. CASE UNCHANGED view
  <2>1. PageShown(view) \in Nat
    BY DEF IInv, PageShown, ViewType, KMSType, ScanoutType
  <2>2. UNCHANGED Lending!vars
    BY <1>2 DEF Lending!vars, FrameOf
  <2>3. CInv' /\ KeepsWhatIsScanned /\ PageShown(view') = PageShown(view)
    BY <1>2 DEF CInv, KeepsWhatIsScanned
  <2> QED BY <1>1, <2>1, <2>2, <2>3 DEF Follows
<1>3. ~UpdateCursor
  BY DEF UpdateCursor
<1>4. ~CursorTimer
  BY RunningQuiet DEF CursorTimer, Quiet, Calm, Books
<1>5. ASSUME NEW b \in Buffers, GPUSettles(b) PROVE Follows
  BY <1>5, GPUSettlesFollows
<1>6. CASE Dispose
  BY <1>1, <1>6, DisposeFollows
<1>7. CASE ~view.disposed
  <2>1. Both
    BY <1>1, <1>7 DEF Both
  <2>2. ASSUME NEW b \in Buffers, RenderBuffer(b) PROVE Follows
    BY <2>1, <2>2, RenderBufferFollows
  <2>3. ASSUME NEW b \in Buffers, QuarantineSettles(b) PROVE Follows
    BY <2>1, <2>3, RunsOn, QuarantineSettlesFollows
  <2>4. ASSUME Resize \/ TrimCaches \/ RequestChromeRedraw PROVE Follows
    BY <2>1, <2>4, RunsOn, ResizeFollows, TrimCachesFollows, RequestChromeRedrawFollows
  <2> QED BY <1>1, <1>2, <1>3, <1>4, <1>5, <1>6, <2>1, <2>2, <2>3, <2>4, FenceWaitEndsFollows,
             ThrottleFiresFollows, PageFlipFollows, ChromeTickFollows DEF Next, PageNext
<1>8. CASE view.disposed
  BY <1>1, <1>2, <1>3, <1>4, <1>5, <1>8
     DEF Next, PageNext, Running, RenderBuffer, QuarantineSettles, FenceWaitEnds, FenceWaitReady,
         ThrottleFires, ThrottleReady, PageFlip, FlipReady, RequestChromeRedraw, ChromeTick,
         TrimCaches, Resize, Dispose
<1> QED BY <1>7, <1>8

(* On a display without a cursor plane the pages are where the queue says,  *)
(* in every reachable view: the invariant of the next three theorems.       *)
THEOREM PageInvariance ==
  ASSUME ~HasCursor PROVE Spec => [](IInv /\ PInv /\ CInv)
<1>1. IInv /\ PInv /\ CInv /\ [Next]_view => (IInv /\ PInv /\ CInv)'
  BY NextFollows DEF Follows
<1> QED BY <1>1, InitIInv, InitPInv, InitCInv, PTL DEF Spec

(* No handler draws into what the display engine reads, and the screen never *)
(* goes back to an older page: drawPage, CommitTargets and the page flip,    *)
(* over every order of frames, chrome redraws and aborted commits.          *)
THEOREM NeverTears ==
  ASSUME ~HasCursor PROVE Spec => NoTearing
<1> DEFINE Step == /\ KeepsWhatIsScanned
                   /\ ~view'.disposed => PageShown(view) <= PageShown(view')
<1>1. IInv /\ PInv /\ CInv /\ [Next]_view => [Step]_view
  BY NextFollows DEF Follows
<1>2. NoTearing <=> [][Step]_view
  BY DEF NoTearing
<1> HIDE DEF Step
<1> QED BY <1>1, <1>2, PageInvariance, PTL DEF Spec

(* Between flips the screen shows the page that is retained as committed,   *)
(* and a chrome base of the current generation is a copy of it.             *)
THEOREM ScreenAgrees ==
  ASSUME ~HasCursor PROVE Spec => []ScreenIsCurrent
<1>1. IInv /\ PInv /\ CInv => ScreenIsCurrent
  <2> SUFFICES ASSUME IInv, PInv, CInv PROVE ScreenIsCurrent
    OBVIOUS
  <2>1. ScreenIsCommitted
    BY RunningQuiet, PageShownIs DEF ScreenIsCommitted, CInv, Running
  <2>2. ChromeBaseCurrent
    BY DEF ChromeBaseCurrent, CInv, Pages, Based
  <2> QED BY <2>1, <2>2 DEF ScreenIsCurrent
<1> QED BY <1>1, PageInvariance, PTL

(* The queue keeps the promise of FrameLending: frames are shown in the     *)
(* order they were accepted, and a buffer stays lent exactly as long as its  *)
(* frame waits, is shown or is retired behind its fence.                    *)
THEOREM LendingKept ==
  ASSUME ~HasCursor PROVE Spec => LendsAsPromised
<1>1. Init => Lending!Init
  <2> SUFFICES ASSUME Init PROVE Lending!Init
    OBVIOUS
  <2>1. /\ view.queue.pendingBuffer = None /\ view.queue.queuedBuffer = None
        /\ view.queue.committedBuffer = None /\ view.queue.nextFrameSerial = 0
        /\ view.fences.quarantine = {} /\ view.ledger.lent = {} /\ ~view.disposed
    BY DEF Init
  <2>2. view.disposed = FALSE
    BY DEF Init
  <2> QED BY <2>1, <2>2 DEF Lending!Init, FrameOf
<1>2. IInv /\ PInv /\ CInv /\ [Next]_view => [Lending!Next]_(Lending!vars)
  BY NextFollows DEF Follows
<1> QED BY <1>1, <1>2, PageInvariance, PTL DEF Spec, LendsAsPromised, Lending!Spec
=============================================================================
