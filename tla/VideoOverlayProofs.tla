------------------------- MODULE VideoOverlayProofs -------------------------
(***************************************************************************)
(* Proofs about the video overlay, for any number of samples, connections  *)
(* and rectangles: no sample is given back while the display engine may    *)
(* scan it out, none is lost while the connection lasts, a close request   *)
(* is confirmed last, and nothing of one client reaches the next one.      *)
(*                                                                         *)
(* Every call a handler makes keeps the books (VideoOverlayBooks); u, v and *)
(* w are states of the UI process with its sockets, before, between and    *)
(* after calls, o and p what it keeps alone.                               *)
(***************************************************************************)
EXTENDS VideoOverlayBooks
-----------------------------------------------------------------------------
(* The fields of what the UI process keeps, and which of them a step changes. *)
UType == [o : OverlayType, s : SocketsType]
Fields ==
  {"client", "dropping", "closeAfterDisable", "writer", "acks", "current", "lastRect",
   "planeEnabled", "plane", "pending", "geometryPending", "disableRequested", "expired",
   "closing", "retry", "busy", "reading", "batch", "gone"}
Alike(o, p, F) == \A f \in Fields \ F : p[f] = o[f]

(* The fields two states of the UI process share, one by one.               *)
LEMMA AlikeAll ==
  ASSUME NEW o, NEW p, NEW F, Alike(o, p, F)
  PROVE  /\ "client" \notin F => p.client = o.client
         /\ "dropping" \notin F => p.dropping = o.dropping
         /\ "closeAfterDisable" \notin F => p.closeAfterDisable = o.closeAfterDisable
         /\ "writer" \notin F => p.writer = o.writer
         /\ "acks" \notin F => p.acks = o.acks
         /\ "current" \notin F => p.current = o.current
         /\ "lastRect" \notin F => p.lastRect = o.lastRect
         /\ "planeEnabled" \notin F => p.planeEnabled = o.planeEnabled
         /\ "plane" \notin F => p.plane = o.plane
         /\ "pending" \notin F => p.pending = o.pending
         /\ "geometryPending" \notin F => p.geometryPending = o.geometryPending
         /\ "disableRequested" \notin F => p.disableRequested = o.disableRequested
         /\ "expired" \notin F => p.expired = o.expired
         /\ "closing" \notin F => p.closing = o.closing
         /\ "retry" \notin F => p.retry = o.retry
         /\ "busy" \notin F => p.busy = o.busy
         /\ "reading" \notin F => p.reading = o.reading
         /\ "batch" \notin F => p.batch = o.batch
         /\ "gone" \notin F => p.gone = o.gone
  BY DEF Alike, Fields

(* Taking the plane down changes two fields.                                *)
LEMMA PlaneOff ==
  ASSUME NEW o \in OverlayType
  PROVE  LET p == [o EXCEPT !.planeEnabled = FALSE, !.plane = None]
         IN  /\ p \in OverlayType /\ Alike(o, p, {"planeEnabled", "plane"})
             /\ p.planeEnabled = FALSE /\ p.plane = None
<1> DEFINE p == [o EXCEPT !.planeEnabled = FALSE, !.plane = None]
<1>1. p \in OverlayType
  BY Zenon DEF OverlayType
<1>2. p.planeEnabled = FALSE /\ p.plane = None
  BY DEF OverlayType
<1>3. DOMAIN o = Fields
  BY DEF OverlayType, Fields
<1>4. \A n \in Fields \ {"planeEnabled", "plane"} : p[n] = o[n]
  BY Zenon, <1>3 DEF OverlayType
<1> QED BY <1>1, <1>2, <1>4 DEF Alike

(* Showing a frame on the plane changes two fields.                         *)
LEMMA PlaneOn ==
  ASSUME NEW o \in OverlayType, NEW f \in Frame
  PROVE  LET p == [o EXCEPT !.planeEnabled = TRUE, !.plane = f]
         IN  /\ p \in OverlayType /\ Alike(o, p, {"planeEnabled", "plane"})
             /\ p.planeEnabled = TRUE /\ p.plane = f
<1> DEFINE p == [o EXCEPT !.planeEnabled = TRUE, !.plane = f]
<1>1. p \in OverlayType
  BY Zenon DEF OverlayType
<1>2. p.planeEnabled = TRUE /\ p.plane = f
  BY DEF OverlayType
<1>3. DOMAIN o = Fields
  BY DEF OverlayType, Fields
<1>4. \A n \in Fields \ {"planeEnabled", "plane"} : p[n] = o[n]
  BY Zenon, <1>3 DEF OverlayType
<1> QED BY <1>1, <1>2, <1>4 DEF Alike

(* Forgetting the retained frame changes one field.                         *)
LEMMA Forgets ==
  ASSUME NEW o \in OverlayType
  PROVE  LET p == [o EXCEPT !.current = None]
         IN  /\ p \in OverlayType /\ Alike(o, p, {"current"})
             /\ p.current = None
<1> DEFINE p == [o EXCEPT !.current = None]
<1>1. p \in OverlayType
  BY Zenon DEF OverlayType
<1>2. p.current = None
  BY DEF OverlayType
<1>3. DOMAIN o = Fields
  BY DEF OverlayType, Fields
<1>4. \A n \in Fields \ {"current"} : p[n] = o[n]
  BY <1>3 DEF OverlayType
<1> QED BY <1>1, <1>2, <1>4 DEF Alike

(* Finishing a drop changes four fields.                                    *)
LEMMA LetsGo ==
  ASSUME NEW o \in OverlayType
  PROVE  LET p == [o EXCEPT !.client = 0, !.acks = <<>>, !.dropping = FALSE, !.closeAfterDisable = FALSE]
         IN  /\ p \in OverlayType /\ Alike(o, p, {"client", "acks", "dropping", "closeAfterDisable"})
             /\ p.client = 0 /\ p.acks = <<>> /\ p.dropping = FALSE /\ p.closeAfterDisable = FALSE
<1> DEFINE p == [o EXCEPT !.client = 0, !.acks = <<>>, !.dropping = FALSE, !.closeAfterDisable = FALSE]
<1>5. <<>> \in Seq(Reply)
  BY EmptySeq
<1>1. p \in OverlayType
  BY <1>5, Zenon DEF OverlayType
<1>2. p.client = 0 /\ p.acks = <<>> /\ p.dropping = FALSE /\ p.closeAfterDisable = FALSE
  BY DEF OverlayType
<1>3. DOMAIN o = Fields
  BY DEF OverlayType, Fields
<1>4. \A n \in Fields \ {"client", "acks", "dropping", "closeAfterDisable"} : p[n] = o[n]
  BY Zenon, <1>3 DEF OverlayType
<1> QED BY <1>1, <1>2, <1>4 DEF Alike

(* Giving up on a disable changes one field.                                *)
LEMMA Aborts ==
  ASSUME NEW o \in OverlayType
  PROVE  LET p == [o EXCEPT !.gone = "aborted"]
         IN  /\ p \in OverlayType /\ Alike(o, p, {"gone"})
             /\ p.gone = "aborted"
<1> DEFINE p == [o EXCEPT !.gone = "aborted"]
<1>1. p \in OverlayType
  BY Zenon DEF OverlayType
<1>2. p.gone = "aborted"
  BY DEF OverlayType
<1>3. DOMAIN o = Fields
  BY DEF OverlayType, Fields
<1>4. \A n \in Fields \ {"gone"} : p[n] = o[n]
  BY <1>3 DEF OverlayType
<1> QED BY <1>1, <1>2, <1>4 DEF Alike

(* Arming the retry timer changes one field.                                *)
LEMMA Retries ==
  ASSUME NEW o \in OverlayType
  PROVE  LET p == [o EXCEPT !.retry = TRUE]
         IN  /\ p \in OverlayType /\ Alike(o, p, {"retry"})
             /\ p.retry = TRUE
<1> DEFINE p == [o EXCEPT !.retry = TRUE]
<1>1. p \in OverlayType
  BY Zenon DEF OverlayType
<1>2. p.retry = TRUE
  BY DEF OverlayType
<1>3. DOMAIN o = Fields
  BY DEF OverlayType, Fields
<1>4. \A n \in Fields \ {"retry"} : p[n] = o[n]
  BY <1>3 DEF OverlayType
<1> QED BY Zenon, <1>1, <1>2, <1>4 DEF Alike

(* The retry timer fires: one field.                                        *)
LEMMA Fired ==
  ASSUME NEW o \in OverlayType
  PROVE  LET p == [o EXCEPT !.retry = FALSE]
         IN  /\ p \in OverlayType /\ Alike(o, p, {"retry"})
             /\ p.retry = FALSE
<1> DEFINE p == [o EXCEPT !.retry = FALSE]
<1>1. p \in OverlayType
  BY Zenon DEF OverlayType
<1>2. p.retry = FALSE
  BY DEF OverlayType
<1>3. DOMAIN o = Fields
  BY DEF OverlayType, Fields
<1>4. \A n \in Fields \ {"retry"} : p[n] = o[n]
  BY <1>3 DEF OverlayType
<1> QED BY Zenon, <1>1, <1>2, <1>4 DEF Alike

(* A disable that is done changes four fields.                              *)
LEMMA Disables ==
  ASSUME NEW o \in OverlayType
  PROVE  LET p == [o EXCEPT !.disableRequested = FALSE, !.expired = FALSE, !.geometryPending = FALSE, !.closing = None]
         IN  /\ p \in OverlayType /\ Alike(o, p, {"disableRequested", "expired", "geometryPending", "closing"})
             /\ p.disableRequested = FALSE /\ p.expired = FALSE /\ p.geometryPending = FALSE /\ p.closing = None
<1> DEFINE p == [o EXCEPT !.disableRequested = FALSE, !.expired = FALSE, !.geometryPending = FALSE, !.closing = None]
<1>1. p \in OverlayType
  BY Zenon DEF OverlayType
<1>2. p.disableRequested = FALSE /\ p.expired = FALSE /\ p.geometryPending = FALSE /\ p.closing = None
  BY DEF OverlayType
<1>3. DOMAIN o = Fields
  BY DEF OverlayType, Fields
<1>4. \A n \in Fields \ {"disableRequested", "expired", "geometryPending", "closing"} : p[n] = o[n]
  BY Zenon, <1>3 DEF OverlayType
<1> QED BY <1>1, <1>2, <1>4 DEF Alike

(* Beginning a drop changes five fields.                                    *)
LEMMA Drops ==
  ASSUME NEW o \in OverlayType
  PROVE  LET p == [o EXCEPT !.dropping = TRUE, !.closeAfterDisable = TRUE, !.writer = 0, !.disableRequested = TRUE, !.pending = None]
         IN  /\ p \in OverlayType /\ Alike(o, p, {"dropping", "closeAfterDisable", "writer", "disableRequested", "pending"})
             /\ p.dropping = TRUE /\ p.closeAfterDisable = TRUE /\ p.writer = 0 /\ p.disableRequested = TRUE /\ p.pending = None
<1> DEFINE p == [o EXCEPT !.dropping = TRUE, !.closeAfterDisable = TRUE, !.writer = 0, !.disableRequested = TRUE, !.pending = None]
<1>5. 0 \in 0..Spent
  BY Numbers DEF Spent
<1>1. p \in OverlayType
  BY <1>5, Zenon DEF OverlayType
<1>2. p.dropping = TRUE /\ p.closeAfterDisable = TRUE /\ p.writer = 0 /\ p.disableRequested = TRUE /\ p.pending = None
  BY DEF OverlayType
<1>3. DOMAIN o = Fields
  BY DEF OverlayType, Fields
<1>4. \A n \in Fields \ {"dropping", "closeAfterDisable", "writer", "disableRequested", "pending"} : p[n] = o[n]
  BY Zenon, <1>3 DEF OverlayType
<1> QED BY <1>1, <1>2, <1>4 DEF Alike

(* Setting the releases that are not sent changes one field.                *)
LEMMA Says ==
  ASSUME NEW o \in OverlayType, NEW a \in Seq(Reply)
  PROVE  LET p == [o EXCEPT !.acks = a]
         IN  /\ p \in OverlayType /\ Alike(o, p, {"acks"})
             /\ p.acks = a
<1> DEFINE p == [o EXCEPT !.acks = a]
<1>1. p \in OverlayType
  BY Zenon DEF OverlayType
<1>2. p.acks = a
  BY DEF OverlayType
<1>3. DOMAIN o = Fields
  BY DEF OverlayType, Fields
<1>4. \A n \in Fields \ {"acks"} : p[n] = o[n]
  BY <1>3 DEF OverlayType
<1> QED BY <1>1, <1>2, <1>4 DEF Alike

(* Setting the source that waits for room changes one field.                *)
LEMMA Polls ==
  ASSUME NEW o \in OverlayType, NEW w \in 0..Spent
  PROVE  LET p == [o EXCEPT !.writer = w]
         IN  /\ p \in OverlayType /\ Alike(o, p, {"writer"})
             /\ p.writer = w
<1> DEFINE p == [o EXCEPT !.writer = w]
<1>1. p \in OverlayType
  BY Zenon DEF OverlayType
<1>2. p.writer = w
  BY DEF OverlayType
<1>3. DOMAIN o = Fields
  BY DEF OverlayType, Fields
<1>4. \A n \in Fields \ {"writer"} : p[n] = o[n]
  BY <1>3 DEF OverlayType
<1> QED BY <1>1, <1>2, <1>4 DEF Alike

(* Retaining a frame at a rectangle changes two fields.                     *)
LEMMA Shows ==
  ASSUME NEW o \in OverlayType, NEW f \in Frame, NEW r \in Rects
  PROVE  LET p == [o EXCEPT !.current = f, !.lastRect = r]
         IN  /\ p \in OverlayType /\ Alike(o, p, {"current", "lastRect"})
             /\ p.current = f /\ p.lastRect = r
<1> DEFINE p == [o EXCEPT !.current = f, !.lastRect = r]
<1>1. p \in OverlayType
  BY Zenon DEF OverlayType
<1>2. p.current = f /\ p.lastRect = r
  BY DEF OverlayType
<1>3. DOMAIN o = Fields
  BY DEF OverlayType, Fields
<1>4. \A n \in Fields \ {"current", "lastRect"} : p[n] = o[n]
  BY Zenon, <1>3 DEF OverlayType
<1> QED BY <1>1, <1>2, <1>4 DEF Alike

(* Clearing the pending frame changes one field.                            *)
LEMMA Clears ==
  ASSUME NEW o \in OverlayType
  PROVE  LET p == [o EXCEPT !.pending = None]
         IN  /\ p \in OverlayType /\ Alike(o, p, {"pending"})
             /\ p.pending = None
<1> DEFINE p == [o EXCEPT !.pending = None]
<1>1. p \in OverlayType
  BY Zenon DEF OverlayType
<1>2. p.pending = None
  BY DEF OverlayType
<1>3. DOMAIN o = Fields
  BY DEF OverlayType, Fields
<1>4. \A n \in Fields \ {"pending"} : p[n] = o[n]
  BY <1>3 DEF OverlayType
<1> QED BY <1>1, <1>2, <1>4 DEF Alike

(* Clearing the confirmation that is owed changes one field.                *)
LEMMA Confirms ==
  ASSUME NEW o \in OverlayType
  PROVE  LET p == [o EXCEPT !.closing = None]
         IN  /\ p \in OverlayType /\ Alike(o, p, {"closing"})
             /\ p.closing = None
<1> DEFINE p == [o EXCEPT !.closing = None]
<1>1. p \in OverlayType
  BY Zenon DEF OverlayType
<1>2. p.closing = None
  BY DEF OverlayType
<1>3. DOMAIN o = Fields
  BY DEF OverlayType, Fields
<1>4. \A n \in Fields \ {"closing"} : p[n] = o[n]
  BY <1>3 DEF OverlayType
<1> QED BY <1>1, <1>2, <1>4 DEF Alike

(* Clearing the request to disable changes three fields.                    *)
LEMMA Downs ==
  ASSUME NEW o \in OverlayType
  PROVE  LET p == [o EXCEPT !.disableRequested = FALSE, !.expired = FALSE, !.geometryPending = FALSE]
         IN  /\ p \in OverlayType /\ Alike(o, p, {"disableRequested", "expired", "geometryPending"})
             /\ p.disableRequested = FALSE /\ p.expired = FALSE /\ p.geometryPending = FALSE
<1> DEFINE p == [o EXCEPT !.disableRequested = FALSE, !.expired = FALSE, !.geometryPending = FALSE]
<1>1. p \in OverlayType
  BY Zenon DEF OverlayType
<1>2. p.disableRequested = FALSE /\ p.expired = FALSE /\ p.geometryPending = FALSE
  BY DEF OverlayType
<1>3. DOMAIN o = Fields
  BY DEF OverlayType, Fields
<1>4. \A n \in Fields \ {"disableRequested", "expired", "geometryPending"} : p[n] = o[n]
  BY Zenon, <1>3 DEF OverlayType
<1> QED BY <1>1, <1>2, <1>4 DEF Alike

(* A drain that is done changes two fields.                                 *)
LEMMA Settles ==
  ASSUME NEW o \in OverlayType
  PROVE  LET p == [o EXCEPT !.geometryPending = FALSE, !.pending = None]
         IN  /\ p \in OverlayType /\ Alike(o, p, {"geometryPending", "pending"})
             /\ p.geometryPending = FALSE /\ p.pending = None
<1> DEFINE p == [o EXCEPT !.geometryPending = FALSE, !.pending = None]
<1>1. p \in OverlayType
  BY Zenon DEF OverlayType
<1>2. p.geometryPending = FALSE /\ p.pending = None
  BY DEF OverlayType
<1>3. DOMAIN o = Fields
  BY DEF OverlayType, Fields
<1>4. \A n \in Fields \ {"geometryPending", "pending"} : p[n] = o[n]
  BY Zenon, <1>3 DEF OverlayType
<1> QED BY <1>1, <1>2, <1>4 DEF Alike

(* Putting off a rectangle changes one field.                               *)
LEMMA Places ==
  ASSUME NEW o \in OverlayType, NEW b \in BOOLEAN
  PROVE  LET p == [o EXCEPT !.geometryPending = b]
         IN  /\ p \in OverlayType /\ Alike(o, p, {"geometryPending"})
             /\ p.geometryPending = b
<1> DEFINE p == [o EXCEPT !.geometryPending = b]
<1>1. p \in OverlayType
  BY Zenon DEF OverlayType
<1>2. p.geometryPending = b
  BY DEF OverlayType
<1>3. DOMAIN o = Fields
  BY DEF OverlayType, Fields
<1>4. \A n \in Fields \ {"geometryPending"} : p[n] = o[n]
  BY <1>3 DEF OverlayType
<1> QED BY <1>1, <1>2, <1>4 DEF Alike

(* Putting off a frame changes two fields.                                  *)
LEMMA Defers ==
  ASSUME NEW o \in OverlayType, NEW f \in Frame
  PROVE  LET p == [o EXCEPT !.pending = f, !.retry = TRUE]
         IN  /\ p \in OverlayType /\ Alike(o, p, {"pending", "retry"})
             /\ p.pending = f /\ p.retry = TRUE
<1> DEFINE p == [o EXCEPT !.pending = f, !.retry = TRUE]
<1>1. p \in OverlayType
  BY Zenon DEF OverlayType
<1>2. p.pending = f /\ p.retry = TRUE
  BY DEF OverlayType
<1>3. DOMAIN o = Fields
  BY DEF OverlayType, Fields
<1>4. \A n \in Fields \ {"pending", "retry"} : p[n] = o[n]
  BY Zenon, <1>3 DEF OverlayType
<1> QED BY <1>1, <1>2, <1>4 DEF Alike

(* Holding a frame back changes one field.                                  *)
LEMMA Batches ==
  ASSUME NEW o \in OverlayType, NEW f \in Frame \cup {None}
  PROVE  LET p == [o EXCEPT !.batch = f]
         IN  /\ p \in OverlayType /\ Alike(o, p, {"batch"})
             /\ p.batch = f
<1> DEFINE p == [o EXCEPT !.batch = f]
<1>1. p \in OverlayType
  BY Zenon DEF OverlayType
<1>2. p.batch = f
  BY DEF OverlayType
<1>3. DOMAIN o = Fields
  BY DEF OverlayType, Fields
<1>4. \A n \in Fields \ {"batch"} : p[n] = o[n]
  BY <1>3 DEF OverlayType
<1> QED BY <1>1, <1>2, <1>4 DEF Alike

(* Moving the plane changes one field.                                      *)
LEMMA Moves ==
  ASSUME NEW o \in OverlayType, NEW r \in Rects
  PROVE  LET p == [o EXCEPT !.lastRect = r]
         IN  /\ p \in OverlayType /\ Alike(o, p, {"lastRect"})
             /\ p.lastRect = r
<1> DEFINE p == [o EXCEPT !.lastRect = r]
<1>1. p \in OverlayType
  BY Zenon DEF OverlayType
<1>2. p.lastRect = r
  BY DEF OverlayType
<1>3. DOMAIN o = Fields
  BY DEF OverlayType, Fields
<1>4. \A n \in Fields \ {"lastRect"} : p[n] = o[n]
  BY <1>3 DEF OverlayType
<1> QED BY <1>1, <1>2, <1>4 DEF Alike

(* Noting a close request changes two fields.                               *)
LEMMA Hides ==
  ASSUME NEW o \in OverlayType, NEW r \in Reply
  PROVE  LET p == [o EXCEPT !.disableRequested = TRUE, !.closing = r]
         IN  /\ p \in OverlayType /\ Alike(o, p, {"disableRequested", "closing"})
             /\ p.disableRequested = TRUE /\ p.closing = r
<1> DEFINE p == [o EXCEPT !.disableRequested = TRUE, !.closing = r]
<1>1. p \in OverlayType
  BY Zenon DEF OverlayType
<1>2. p.disableRequested = TRUE /\ p.closing = r
  BY DEF OverlayType
<1>3. DOMAIN o = Fields
  BY DEF OverlayType, Fields
<1>4. \A n \in Fields \ {"disableRequested", "closing"} : p[n] = o[n]
  BY Zenon, <1>3 DEF OverlayType
<1> QED BY <1>1, <1>2, <1>4 DEF Alike

(* Beginning or ending to read changes one field.                           *)
LEMMA ReadsFrom ==
  ASSUME NEW o \in OverlayType, NEW c \in {0} \cup Connections
  PROVE  LET p == [o EXCEPT !.reading = c]
         IN  /\ p \in OverlayType /\ Alike(o, p, {"reading"})
             /\ p.reading = c
<1> DEFINE p == [o EXCEPT !.reading = c]
<1>1. p \in OverlayType
  BY Zenon DEF OverlayType
<1>2. p.reading = c
  BY DEF OverlayType
<1>3. DOMAIN o = Fields
  BY DEF OverlayType, Fields
<1>4. \A n \in Fields \ {"reading"} : p[n] = o[n]
  BY <1>3 DEF OverlayType
<1> QED BY <1>1, <1>2, <1>4 DEF Alike

(* The deadline of a disable passes: one field.                             *)
LEMMA Expires ==
  ASSUME NEW o \in OverlayType
  PROVE  LET p == [o EXCEPT !.expired = TRUE]
         IN  /\ p \in OverlayType /\ Alike(o, p, {"expired"})
             /\ p.expired = TRUE
<1> DEFINE p == [o EXCEPT !.expired = TRUE]
<1>1. p \in OverlayType
  BY Zenon DEF OverlayType
<1>2. p.expired = TRUE
  BY DEF OverlayType
<1>3. DOMAIN o = Fields
  BY DEF OverlayType, Fields
<1>4. \A n \in Fields \ {"expired"} : p[n] = o[n]
  BY <1>3 DEF OverlayType
<1> QED BY Zenon, <1>1, <1>2, <1>4 DEF Alike

(* A commit of the view begins or ends: one field.                          *)
LEMMA Commits ==
  ASSUME NEW o \in OverlayType, NEW b \in BOOLEAN
  PROVE  LET p == [o EXCEPT !.busy = b]
         IN  /\ p \in OverlayType /\ Alike(o, p, {"busy"})
             /\ p.busy = b
<1> DEFINE p == [o EXCEPT !.busy = b]
<1>1. p \in OverlayType
  BY Zenon DEF OverlayType
<1>2. p.busy = b
  BY DEF OverlayType
<1>3. DOMAIN o = Fields
  BY DEF OverlayType, Fields
<1>4. \A n \in Fields \ {"busy"} : p[n] = o[n]
  BY <1>3 DEF OverlayType
<1> QED BY <1>1, <1>2, <1>4 DEF Alike

(* Stopping changes four fields first.                                      *)
LEMMA Stops ==
  ASSUME NEW o \in OverlayType
  PROVE  LET p == [o EXCEPT !.pending = None, !.retry = FALSE, !.writer = 0, !.busy = FALSE]
         IN  /\ p \in OverlayType /\ Alike(o, p, {"pending", "retry", "writer", "busy"})
             /\ p.pending = None /\ p.retry = FALSE /\ p.writer = 0 /\ p.busy = FALSE
<1> DEFINE p == [o EXCEPT !.pending = None, !.retry = FALSE, !.writer = 0, !.busy = FALSE]
<1>5. 0 \in 0..Spent
  BY Numbers DEF Spent
<1>1. p \in OverlayType
  BY <1>5, Zenon DEF OverlayType
<1>2. p.pending = None /\ p.retry = FALSE /\ p.writer = 0 /\ p.busy = FALSE
  BY DEF OverlayType
<1>3. DOMAIN o = Fields
  BY DEF OverlayType, Fields
<1>4. \A n \in Fields \ {"pending", "retry", "writer", "busy"} : p[n] = o[n]
  BY Zenon, <1>3 DEF OverlayType
<1> QED BY <1>1, <1>2, <1>4 DEF Alike

(* Stopping changes two fields in the end.                                  *)
LEMMA Stopped ==
  ASSUME NEW o \in OverlayType
  PROVE  LET p == [o EXCEPT !.client = 0, !.gone = "stopped"]
         IN  /\ p \in OverlayType /\ Alike(o, p, {"client", "gone"})
             /\ p.client = 0 /\ p.gone = "stopped"
<1> DEFINE p == [o EXCEPT !.client = 0, !.gone = "stopped"]
<1>1. p \in OverlayType
  BY Zenon DEF OverlayType
<1>2. p.client = 0 /\ p.gone = "stopped"
  BY DEF OverlayType
<1>3. DOMAIN o = Fields
  BY DEF OverlayType, Fields
<1>4. \A n \in Fields \ {"client", "gone"} : p[n] = o[n]
  BY Zenon, <1>3 DEF OverlayType
<1> QED BY <1>1, <1>2, <1>4 DEF Alike


(* What holds between two calls of a handler, with frames X held and the    *)
(* confirmation g owed.                                                     *)
Good(ch, u, X, g) ==
  /\ u \in UType /\ Calm(u.o) /\ WriterOK(u.s, u.o) /\ RoomOK(u.s)
  /\ Books(ch, u.s, Link(u.o), X, g)

Loose ==
  {"pending", "retry", "geometryPending", "expired", "closing", "lastRect", "busy", "reading",
   "batch"}
Set(o) == o.gone = "no" => Armed(o)
Steady(o) == o.gone = "no" /\ o.disableRequested => o.retry

(* What a call may do to its caller: it sends, or the client is lost.       *)
Onward(u, v) ==
  /\ v.o.client \in {u.o.client, 0} /\ v.o.reading = u.o.reading /\ v.o.batch = u.o.batch
  /\ v.o.current \in {u.o.current, None} /\ v.o.pending \in {u.o.pending, None}
  /\ v.o.closing \in {u.o.closing, None} /\ (v.o.gone = "no" => u.o.gone = "no")
  /\ \A d \in Connections : /\ Accepted(u.s, d) => Accepted(v.s, d)
                            /\ v.s[d].web = u.s[d].web
  /\ Tidy(u.o) => Tidy(v.o)
  /\ Set(u.o) => Set(v.o)
  /\ Steady(u.o) => Steady(v.o)
  /\ Lost(Link(v.o)) \/ Alike(u.o, v.o, {"acks", "writer"})

(* Replacing the UI process leaves the sockets.                             *)
LEMMA Updated ==
  ASSUME NEW u \in UType, NEW p \in OverlayType
  PROVE  LET v == [u EXCEPT !.o = p] IN v \in UType /\ v.o = p /\ v.s = u.s
  BY DEF UType

(* The two halves of a state have their types.                              *)
LEMMA UTyped ==
  ASSUME NEW u \in UType
  PROVE  u.o \in OverlayType /\ u.s \in SocketsType /\ Link(u.o) \in LinkType
  BY LinkTyped DEF UType

(* Where the client and its replies are the same, so is the link.           *)
LEMMA LinkAlike ==
  ASSUME NEW o, NEW p, p.client = o.client, p.acks = o.acks, p.dropping = o.dropping,
         p.gone = o.gone
  PROVE  Link(p) = Link(o)
  BY DEF Link

(* What is put off does not matter to the books.                            *)
LEMMA GoodAlike ==
  ASSUME NEW ch, NEW u, NEW v \in UType, NEW X, NEW g, NEW F \in SUBSET Loose,
         Good(ch, u, X, g), v.s = u.s, Alike(u.o, v.o, F)
  PROVE  Good(ch, v, X, g)
<1>1. /\ v.o.client = u.o.client /\ v.o.acks = u.o.acks /\ v.o.dropping = u.o.dropping
      /\ v.o.gone = u.o.gone /\ v.o.writer = u.o.writer /\ v.o.current = u.o.current
      /\ v.o.plane = u.o.plane /\ v.o.planeEnabled = u.o.planeEnabled
      /\ v.o.closeAfterDisable = u.o.closeAfterDisable
      /\ v.o.disableRequested = u.o.disableRequested
  <2>1. /\ "client" \notin F /\ "acks" \notin F /\ "dropping" \notin F /\ "gone" \notin F
        /\ "writer" \notin F /\ "current" \notin F /\ "plane" \notin F /\ "planeEnabled" \notin F
        /\ "closeAfterDisable" \notin F /\ "disableRequested" \notin F
    BY DEF Loose
  <2> QED BY <2>1, AlikeAll
<1>2. Link(v.o) = Link(u.o)
  BY <1>1, LinkAlike
<1> QED BY <1>1, <1>2 DEF Good, Calm, WriterOK

(* A client that is lost owes nobody: frames and debts may be dropped.      *)
LEMMA LostGood ==
  ASSUME NEW ch \in ChannelType, NEW u, NEW X \in SUBSET Frame, NEW Y \in SUBSET X,
         NEW g \in Replied, NEW g2 \in {g, None}, Good(ch, u, X, g), Lost(Link(u.o))
  PROVE  Good(ch, u, Y, g2)
  BY UTyped, LostShrinks DEF Good

(* Two steps onward are one.                                                *)
LEMMA OnwardTrans ==
  ASSUME NEW u, NEW v, NEW w, Onward(u, v), Onward(v, w),
         Lost(Link(v.o)) => Lost(Link(w.o))
  PROVE  Onward(u, w)
<1>1. Alike(u.o, v.o, {"acks", "writer"}) /\ Alike(v.o, w.o, {"acks", "writer"})
         => Alike(u.o, w.o, {"acks", "writer"})
  BY DEF Alike
<1> QED BY <1>1 DEF Onward

(* Closing the end of the UI process shuts that connection alone.           *)
LEMMA CloseUIs ==
  ASSUME NEW s \in SocketsType, NEW c \in Connections, Made(s, c)
  PROVE  LET s2 == CloseUI(s, c)
         IN  /\ s2 \in SocketsType /\ Shut(s, s2) /\ s2[c].ui = "closed"
             /\ \A d \in Connections : d # c => s2[d] = s[d]
             /\ \A d \in Connections : Accepted(s, d) => Accepted(s2, d)
             /\ \A d \in Connections : Made(s, d) => Made(s2, d)
             /\ \A d \in Connections : s2[d].web = s[d].web
<1> DEFINE s2 == CloseUI(s, c)
<1>1. s[c] \in SocketType /\ DOMAIN s = Connections
  BY DEF SocketsType
<1>2. /\ s2[c].ui = "closed" /\ s2[c].toUI = <<>> /\ s2[c].web = s[c].web
      /\ s2[c].toWeb = s[c].toWeb /\ s2[c] \in SocketType
  <2>1. s2[c] = [s[c] EXCEPT !.ui = "closed", !.toUI = <<>>,
                             !.reset = s[c].web /\ s[c].toUI # <<>>]
    BY <1>1 DEF CloseUI
  <2>2. <<>> \in Seq(Packet)
    BY EmptySeq
  <2> QED BY Zenon, <1>1, <2>1, <2>2 DEF SocketType
<1>3. \A d \in Connections : d # c => s2[d] = s[d]
  BY <1>1 DEF CloseUI
<1>4. s2 \in SocketsType
  <2>1. \A d \in Connections : s2[d] \in SocketType
    BY <1>2, <1>3 DEF SocketsType
  <2>2. s2 = [d \in Connections |-> s2[d]]
    BY Zenon, <1>1 DEF CloseUI
  <2> QED BY <2>1, <2>2 DEF SocketsType
<1> HIDE DEF s2
<1> QED BY <1>2, <1>3, <1>4 DEF Shut, Accepted, Made, s2

(* Taking the plane down succeeds and clears it, or changes nothing.        *)
LEMMA PlaneDowns ==
  ASSUME NEW o \in OverlayType, o.planeEnabled <=> o.plane # None, NEW d \in PlaneDown(o)
  PROVE  /\ d.o \in OverlayType /\ Alike(o, d.o, {"planeEnabled", "plane"})
         /\ d.ok => d.o.plane = None /\ ~d.o.planeEnabled
         /\ ~d.ok => d.o = o
<1>1. CASE ~o.planeEnabled
  <2>1. d = [o |-> o, ok |-> TRUE]
    BY <1>1 DEF PlaneDown
  <2> QED BY <1>1, <2>1 DEF Alike
<1>2. CASE o.planeEnabled
  <2>1. \/ d = [o |-> o, ok |-> FALSE]
        \/ d = [o |-> [o EXCEPT !.planeEnabled = FALSE, !.plane = None], ok |-> TRUE]
    BY <1>2 DEF PlaneDown
  <2>2. CASE d = [o |-> o, ok |-> FALSE]
    BY <2>2 DEF Alike
  <2>3. CASE d = [o |-> [o EXCEPT !.planeEnabled = FALSE, !.plane = None], ok |-> TRUE]
    <3> DEFINE p == [o EXCEPT !.planeEnabled = FALSE, !.plane = None]
    <3>1. /\ p \in OverlayType /\ Alike(o, p, {"planeEnabled", "plane"})
          /\ p.planeEnabled = FALSE /\ p.plane = None
      BY Zenon, PlaneOff
    <3> HIDE DEF p
    <3>2. d.o = p /\ d.ok
      BY <2>3 DEF p
    <3> QED BY <3>1, <3>2
  <2> QED BY <2>1, <2>2, <2>3
<1> QED BY <1>1, <1>2

(* videoOverlayFinishDrop: the client is let go.                            *)
LEMMA FinishKeeps ==
  ASSUME NEW ch \in ChannelType, NEW u \in UType, NEW q \in LinkType, NEW X \in SUBSET Frame,
         NEW g \in Replied, Books(ch, u.s, q, X, g), RoomOK(u.s),
         u.o.client = q.client, u.o.gone = "no" => q.gone = "no",
         u.o.client # 0 => Made(u.s, u.o.client),
         u.o.planeEnabled <=> u.o.plane # None, u.o.plane # None => u.o.plane = u.o.current
  PROVE  LET v == FinishDrop(u)
         IN  /\ Good(ch, v, X, g) /\ v.o.client = 0 /\ ~v.o.dropping
             /\ Alike(u.o, v.o, {"client", "acks", "dropping", "closeAfterDisable"})
             /\ \A d \in Connections : /\ Accepted(u.s, d) => Accepted(v.s, d)
                                       /\ v.s[d].web = u.s[d].web
<1> DEFINE v == FinishDrop(u)
           p == [u.o EXCEPT !.client = 0, !.acks = <<>>, !.dropping = FALSE,
                            !.closeAfterDisable = FALSE]
           s2 == IF u.o.client = 0 THEN u.s ELSE CloseUI(u.s, u.o.client)
<1>1. u.o \in OverlayType /\ u.s \in SocketsType
  BY UTyped
<1>2. /\ p \in OverlayType /\ p.client = 0 /\ p.acks = <<>> /\ p.dropping = FALSE
      /\ p.closeAfterDisable = FALSE
      /\ Alike(u.o, p, {"client", "acks", "dropping", "closeAfterDisable"})
  BY Zenon, <1>1, LetsGo
<1>3. v.o = p /\ v.s = s2
  BY DEF FinishDrop
<1> HIDE DEF p
<1>4. SocketsOK(ch, u.s, q)
  BY DEF Books, Safe
<1>5. /\ s2 \in SocketsType /\ Shut(u.s, s2)
      /\ \A d \in Connections : /\ Accepted(u.s, d) => Accepted(s2, d)
                                /\ s2[d].web = u.s[d].web /\ s2[d].toWeb = u.s[d].toWeb
      /\ q.gone = "no" => \A d \in Connections : s2[d].ui # "open"
  <2>1. CASE u.o.client = 0
    BY <1>1, <1>4, <2>1, Numbers DEF Shut, SocketsOK
  <2>2. CASE u.o.client # 0
    <3>1. u.o.client \in Connections
      BY <1>1, <2>2 DEF OverlayType
    <3>2. \A d \in Connections : s2[d].toWeb = u.s[d].toWeb
      BY <1>1, <2>2, <3>1, CloseUIs DEF Shut
    <3> QED BY <1>1, <1>4, <2>2, <3>1, <3>2, CloseUIs DEF SocketsOK
  <2> QED BY <2>1, <2>2
<1>6. v \in UType
  BY <1>2, <1>5 DEF FinishDrop, UType, p
<1> HIDE DEF s2, v
<1>7. p.gone = u.o.gone /\ p.plane = u.o.plane /\ p.planeEnabled = u.o.planeEnabled
      /\ p.current = u.o.current
  BY <1>2, AlikeAll
<1>8. Link(p).client = 0 /\ Link(p).acks = <<>> /\ Link(p).gone = u.o.gone /\ ~Link(p).dropping
      /\ Link(p) \in LinkType
  BY <1>2, <1>7, LinkTyped DEF Link
<1>9. LetGo(ch, u.s, q, X, s2, Link(p))
  <2>1. \A d \in Connections : d # 0
    BY Numbers
  <2> QED BY <1>5, <1>8, <2>1 DEF LetGo, Lost
<1>10. Books(ch, s2, Link(p), X, g)
  BY <1>1, <1>5, <1>8, <1>9, LetGoKeeps
<1>11. RoomOK(s2)
  BY <1>5 DEF RoomOK
<1> QED BY <1>2, <1>3, <1>5, <1>6, <1>7, <1>10, <1>11 DEF Good, Calm, WriterOK, v

(* A state that let its client go is onward if it kept or cleared things.   *)
LEMMA LostOnward ==
  ASSUME NEW u, NEW v, Lost(Link(v.o)),
         v.o.client \in {u.o.client, 0}, v.o.reading = u.o.reading, v.o.batch = u.o.batch,
         v.o.current \in {u.o.current, None}, v.o.pending \in {u.o.pending, None},
         v.o.closing \in {u.o.closing, None}, v.o.gone = "no" => u.o.gone = "no",
         \A d \in Connections : /\ Accepted(u.s, d) => Accepted(v.s, d)
                                /\ v.s[d].web = u.s[d].web,
         Tidy(v.o), Set(v.o)
  PROVE  Onward(u, v)
  BY DEF Onward, Set, Armed, Steady

(* videoOverlayDropClient: whatever KMS says, the client gets nothing more. *)
LEMMA DropKeeps ==
  ASSUME NEW ch \in ChannelType, NEW u, NEW X \in SUBSET Frame, NEW g \in Replied,
         Good(ch, u, X, g), NEW v \in DropClient(u)
  PROVE  /\ Good(ch, v, X, g) /\ Lost(Link(v.o)) /\ Onward(u, v) /\ Tidy(v.o)
         /\ v.o.gone = u.o.gone \/ v.o.disableRequested
<1>1. /\ u \in UType /\ u.o \in OverlayType /\ u.s \in SocketsType /\ Link(u.o) \in LinkType
      /\ Calm(u.o) /\ WriterOK(u.s, u.o) /\ RoomOK(u.s) /\ Books(ch, u.s, Link(u.o), X, g)
  BY UTyped DEF Good
<1>2. CASE u.o.dropping
  <2>1. v = u
    BY <1>2 DEF DropClient
  <2>2. Lost(Link(u.o))
    BY <1>2 DEF Lost, Link
  <2>3. Tidy(u.o)
    BY <1>1, <1>2 DEF Calm, Tidy
  <2> QED BY <2>1, <2>2, <2>3 DEF Onward
<1>3. CASE ~u.o.dropping
  <2> DEFINE o == [u.o EXCEPT !.dropping = TRUE, !.closeAfterDisable = TRUE, !.writer = 0,
                              !.disableRequested = TRUE, !.pending = None]
  <2>1. /\ o \in OverlayType
        /\ Alike(u.o, o, {"dropping", "closeAfterDisable", "writer", "disableRequested", "pending"})
        /\ o.dropping = TRUE /\ o.closeAfterDisable = TRUE /\ o.writer = 0
        /\ o.disableRequested = TRUE /\ o.pending = None
    BY Zenon, <1>1, Drops
  <2>2. PICK d \in PlaneDown(o) :
          v = IF d.ok THEN FinishDrop([u EXCEPT !.o = Disabled(d.o)])
                      ELSE [u EXCEPT !.o = PutOff(d.o)]
    BY <1>3 DEF DropClient
  <2> HIDE DEF o
  <2>3. /\ o.client = u.o.client /\ o.acks = u.o.acks /\ o.current = u.o.current
        /\ o.plane = u.o.plane /\ o.planeEnabled = u.o.planeEnabled /\ o.gone = u.o.gone
        /\ o.reading = u.o.reading /\ o.batch = u.o.batch /\ o.closing = u.o.closing
        /\ o.expired = u.o.expired
    BY <2>1, AlikeAll
  <2>4. /\ d.o \in OverlayType /\ Alike(o, d.o, {"planeEnabled", "plane"})
        /\ d.ok => d.o.plane = None /\ ~d.o.planeEnabled
        /\ ~d.ok => d.o = o
    BY <1>1, <2>1, <2>3, PlaneDowns DEF Calm
  <2>5. CASE d.ok
    <3> DEFINE p == [Forget(d.o) EXCEPT !.disableRequested = FALSE, !.expired = FALSE,
                                        !.geometryPending = FALSE, !.closing = None]
               w == [u EXCEPT !.o = p]
    <3>1. /\ Forget(d.o) \in OverlayType /\ Alike(d.o, Forget(d.o), {"current"})
          /\ Forget(d.o).current = None
      BY <2>4, Forgets DEF Forget
    <3>2. /\ p \in OverlayType
          /\ Alike(Forget(d.o), p, {"disableRequested", "expired", "geometryPending", "closing"})
          /\ p.disableRequested = FALSE /\ p.closing = None
      <4> DEFINE o1 == Forget(d.o)
      <4> HIDE DEF o1
      <4>1. o1 \in OverlayType
        BY <3>1 DEF o1
      <4>2. LET r == [o1 EXCEPT !.disableRequested = FALSE, !.expired = FALSE,
                                !.geometryPending = FALSE, !.closing = None]
            IN  /\ r \in OverlayType
                /\ Alike(o1, r, {"disableRequested", "expired", "geometryPending", "closing"})
                /\ r.disableRequested = FALSE /\ r.expired = FALSE
                /\ r.geometryPending = FALSE /\ r.closing = None
        BY Zenon, <4>1, Disables
      <4> QED BY <4>2 DEF o1
    <3>3. v = FinishDrop([u EXCEPT !.o = p])
      BY <2>2, <2>5 DEF Disabled
    <3> HIDE DEF p
    <3>4. w \in UType /\ w.o = p /\ w.s = u.s
      BY <1>1, <3>2, Updated
    <3>5. v = FinishDrop(w)
      BY <3>3
    <3> HIDE DEF w
    <3>6. /\ p.client = u.o.client /\ p.gone = u.o.gone /\ p.plane = None /\ ~p.planeEnabled
          /\ p.current = None /\ p.pending = None /\ p.reading = u.o.reading
          /\ p.batch = u.o.batch
      BY <2>1, <2>3, <2>4, <2>5, <3>1, <3>2, AlikeAll
    <3>7. /\ Good(ch, v, X, g) /\ v.o.client = 0 /\ ~v.o.dropping
          /\ Alike(p, v.o, {"client", "acks", "dropping", "closeAfterDisable"})
          /\ \A e \in Connections : /\ Accepted(u.s, e) => Accepted(v.s, e)
                                    /\ v.s[e].web = u.s[e].web
      <4>1. /\ Books(ch, w.s, Link(u.o), X, g) /\ RoomOK(w.s) /\ w.o.client = Link(u.o).client
            /\ w.o.gone = "no" => Link(u.o).gone = "no"
            /\ w.o.client # 0 => Made(w.s, w.o.client)
            /\ w.o.planeEnabled <=> w.o.plane # None
            /\ w.o.plane # None => w.o.plane = w.o.current
        BY <1>1, <3>4, <3>6 DEF Link, WriterOK
      <4>2. LET x == FinishDrop(w)
            IN  /\ Good(ch, x, X, g) /\ x.o.client = 0 /\ ~x.o.dropping
                /\ Alike(w.o, x.o, {"client", "acks", "dropping", "closeAfterDisable"})
                /\ \A e \in Connections : /\ Accepted(w.s, e) => Accepted(x.s, e)
                                          /\ x.s[e].web = w.s[e].web
        BY <1>1, <3>4, <4>1, FinishKeeps
      <4> QED BY <3>4, <3>5, <4>2
    <3>8. /\ v.o.gone = u.o.gone /\ v.o.current = None /\ v.o.pending = None
          /\ v.o.reading = u.o.reading /\ v.o.batch = u.o.batch /\ v.o.closing = None
          /\ ~v.o.disableRequested
      BY <3>2, <3>6, <3>7, AlikeAll
    <3>9. Lost(Link(v.o)) /\ Tidy(v.o) /\ Set(v.o)
      BY <3>7, <3>8 DEF Lost, Link, Tidy, Set, Armed
    <3>10. Onward(u, v)
      BY <3>7, <3>8, <3>9, LostOnward
    <3> QED BY <3>7, <3>8, <3>9, <3>10
  <2>6. CASE ~d.ok
    <3>1. v = [u EXCEPT !.o = PutOff(o)]
      BY <2>2, <2>4, <2>6
    <3> DEFINE p == PutOff(o)
    <3>2. /\ p \in OverlayType /\ Alike(o, p, {"gone", "retry"})
          /\ p.gone = "aborted" \/ (p.gone = o.gone /\ p.retry)
      <4>1. CASE o.expired
        <5>1. p = [o EXCEPT !.gone = "aborted"]
          BY <4>1 DEF PutOff
        <5> QED BY <2>1, <5>1, Aborts DEF Alike
      <4>2. CASE ~o.expired
        <5>1. p = [o EXCEPT !.retry = TRUE]
          BY <4>2 DEF PutOff
        <5>2. p \in OverlayType /\ Alike(o, p, {"retry"}) /\ p.retry = TRUE
          BY <2>1, <5>1, Retries
        <5>3. p.gone = o.gone
          BY <5>2, AlikeAll
        <5> QED BY <5>2, <5>3 DEF Alike
      <4> QED BY <4>1, <4>2
    <3> HIDE DEF p
    <3>3. v \in UType /\ v.o = p /\ v.s = u.s
      <4>1. v = [u EXCEPT !.o = p]
        BY <3>1 DEF p
      <4> QED BY <1>1, <3>2, <4>1, Updated
    <3>4. /\ p.client = u.o.client /\ p.acks = u.o.acks /\ p.dropping /\ p.closeAfterDisable
          /\ p.plane = u.o.plane /\ p.planeEnabled = u.o.planeEnabled /\ p.current = u.o.current
          /\ p.writer = 0 /\ p.disableRequested /\ p.pending = None
          /\ p.reading = u.o.reading /\ p.batch = u.o.batch /\ p.closing = u.o.closing
      BY <2>1, <2>3, <3>2, AlikeAll
    <3>5. p.gone = "no" => u.o.gone = "no" /\ p.retry
      BY <2>3, <3>2
    <3>6. Calm(p) /\ WriterOK(u.s, p)
      BY <1>1, <3>4, Numbers DEF Calm, WriterOK
    <3>7. Books(ch, u.s, Link(p), X, g)
      <4>1. Link(p) \in LinkType
        BY <3>2, LinkTyped
      <4>2. /\ SocketsOK(ch, u.s, Link(u.o)) /\ RepliesOK(ch, u.s, Link(u.o), X)
            /\ NamesOK(ch, u.s, Link(u.o), g)
        BY <1>1 DEF Books, Safe
      <4>3. \A i \in 1..Len(u.o.acks) :
              /\ u.o.client # 0 => u.o.acks[i].conn = u.o.client
              /\ ReplyOK(ch, u.s, X, u.o.acks[i])
        BY <4>2 DEF RepliesOK, Link
      <4>4. \A i \in 1..Len(u.o.acks) :
              u.o.client # 0 /\ u.o.client = ch.socket /\ u.o.acks[i].type = "CloseComplete"
                => u.o.acks[i].sequence = ch.closing /\ ch.closing # 0
        BY <1>1, <4>2, QueuedLast DEF Link
      <4>5. u.o.gone = "no" => /\ u.o.client = 0 => u.o.acks = <<>>
                               /\ \A e \in Connections : u.s[e].ui = "open" <=> e = u.o.client
        BY <4>2 DEF RepliesOK, SocketsOK, Link
      <4>6. Shut(u.s, u.s)
        BY DEF Shut
      <4>7. LetGo(ch, u.s, Link(u.o), X, u.s, Link(p))
        BY <3>4, <3>5, <4>3, <4>4, <4>5, <4>6 DEF LetGo, Lost, Link
      <4> QED BY <1>1, <4>1, <4>7, LetGoKeeps
    <3>8. Lost(Link(p)) /\ Tidy(p) /\ Set(p)
      BY <3>4, <3>5 DEF Lost, Link, Tidy, Set, Armed
    <3>9. Onward(u, v)
      BY <3>3, <3>4, <3>5, <3>8, LostOnward
    <3> QED BY <1>1, <3>3, <3>4, <3>6, <3>7, <3>8, <3>9 DEF Good
  <2> QED BY <2>5, <2>6
<1> QED BY <1>2, <1>3

(* Only what waits to be sent, or who polls for room, changes.              *)
LEMMA OnwardAlike ==
  ASSUME NEW u, NEW v, Alike(u.o, v.o, {"acks", "writer"}),
         \A d \in Connections : v.s[d].ui = u.s[d].ui /\ v.s[d].web = u.s[d].web
  PROVE  Onward(u, v) /\ (Lost(Link(u.o)) <=> Lost(Link(v.o)))
<1>1. /\ v.o.client = u.o.client /\ v.o.dropping = u.o.dropping /\ v.o.gone = u.o.gone
      /\ v.o.reading = u.o.reading /\ v.o.batch = u.o.batch /\ v.o.current = u.o.current
      /\ v.o.pending = u.o.pending /\ v.o.closing = u.o.closing
      /\ v.o.disableRequested = u.o.disableRequested /\ v.o.retry = u.o.retry
  BY AlikeAll
<1> QED BY <1>1 DEF Onward, Tidy, Set, Armed, Steady, Lost, Link, Accepted

(* Likeness is transitive.                                                  *)
LEMMA AlikeTrans ==
  ASSUME NEW o, NEW p, NEW r, NEW F, Alike(o, p, F), Alike(p, r, F)
  PROVE  Alike(o, r, F)
  BY DEF Alike

(* Fields in which two states may differ can be added.                      *)
LEMMA AlikeMore ==
  ASSUME NEW o, NEW p, NEW E, NEW F, E \subseteq F, Alike(o, p, E)
  PROVE  Alike(o, p, F)
  BY DEF Alike

(* A sequence is its first n elements and the rest.                         *)
LEMMA Halves ==
  ASSUME NEW S, NEW a \in Seq(S), NEW n \in Nat, n <= Len(a)
  PROVE  /\ SubSeq(a, 1, n) \in Seq(S) /\ SubSeq(a, n + 1, Len(a)) \in Seq(S)
         /\ a = SubSeq(a, 1, n) \o SubSeq(a, n + 1, Len(a)) /\ Len(SubSeq(a, 1, n)) = n
<1>1. Len(a) \in Nat /\ \A i \in 1..Len(a) : a[i] \in S
  BY LenProperties, ElementOfSeq
<1>2. 1 \in 1..(Len(a) + 1) /\ n \in (1 - 1)..Len(a) /\ Len(a) \in n..Len(a)
  BY <1>1
<1>3. SubSeq(a, 1, n) \o SubSeq(a, n + 1, Len(a)) = SubSeq(a, 1, Len(a))
  BY Zenon, <1>2, ConcatAdjacentSubSeq
<1>4. SubSeq(a, 1, Len(a)) = a
  BY SubSeqFull
<1>5. /\ 1 \in Int /\ n \in Int /\ n + 1 \in Int /\ Len(a) \in Int
      /\ \A i \in 1..n : a[i] \in S
      /\ \A i \in (n + 1)..Len(a) : a[i] \in S
  BY <1>1
<1>6. SubSeq(a, 1, n) \in Seq(S) /\ Len(SubSeq(a, 1, n)) = IF 1 <= n THEN n - 1 + 1 ELSE 0
  BY <1>5, SubSeqProperties
<1>7. SubSeq(a, n + 1, Len(a)) \in Seq(S)
  BY <1>5, SubSeqProperties
<1>8. Len(SubSeq(a, 1, n)) = n
  <2> DEFINE k == Len(SubSeq(a, 1, n))
  <2>1. k = IF 1 <= n THEN n - 1 + 1 ELSE 0
    BY <1>6
  <2> HIDE DEF k
  <2>2. k = n
    BY <2>1
  <2> QED BY <2>2 DEF k
<1> QED BY Zenon, <1>3, <1>4, <1>6, <1>7, <1>8

Put(s, c, A) == [s EXCEPT ![c].toWeb = s[c].toWeb \o A]

(* Putting replies on a socket changes what is on it alone.                 *)
LEMMA Sending ==
  ASSUME NEW s \in SocketsType, NEW c \in Connections, NEW A \in Seq(Reply)
  PROVE  LET s2 == Put(s, c, A)
         IN  /\ s2 \in SocketsType /\ s2[c].toWeb = s[c].toWeb \o A
             /\ Len(s2[c].toWeb) = Len(s[c].toWeb) + Len(A)
             /\ \A d \in Connections : /\ s2[d].web = s[d].web /\ s2[d].ui = s[d].ui
                                       /\ s2[d].toUI = s[d].toUI /\ (d # c => s2[d] = s[d])
<1> DEFINE t == s[c].toWeb \o A
           s2 == [s EXCEPT ![c].toWeb = t]
<1>1. t \in Seq(Reply) /\ Len(t) = Len(s[c].toWeb) + Len(A)
  BY SocketTyped, Joined
<1> HIDE DEF t
<1>2. /\ s2 \in SocketsType /\ s2[c].toWeb = t
      /\ s2[c].web = s[c].web /\ s2[c].ui = s[c].ui /\ s2[c].toUI = s[c].toUI
      /\ \A d \in Connections : d # c => s2[d] = s[d]
  BY Zenon, <1>1 DEF SocketsType, SocketType
<1> HIDE DEF s2
<1>3. \A d \in Connections : /\ s2[d].web = s[d].web /\ s2[d].ui = s[d].ui
                            /\ s2[d].toUI = s[d].toUI /\ (d # c => s2[d] = s[d])
  BY <1>2
<1>4. Put(s, c, A) = s2
  BY DEF t, s2, Put
<1> QED BY Zenon, <1>1, <1>2, <1>3, <1>4 DEF t

(* A replies are sent and B wait.                                            *)
Flushed(s, q, s2, q2, c, A, B) ==
  /\ q.client = c /\ ~q.dropping /\ q.gone = "no" /\ s[c].web /\ q.acks = A \o B
  /\ q2.client = c /\ q2.dropping = q.dropping /\ q2.gone = q.gone /\ q2.acks = B
  /\ s2[c].toWeb = s[c].toWeb \o A
  /\ s2[c].web = s[c].web /\ s2[c].ui = s[c].ui /\ s2[c].toUI = s[c].toUI
  /\ \A d \in Connections : d # c => s2[d] = s[d]

FlushedWell(ch, s, q, s2, q2, X, g, c, A, B) ==
  /\ ch \in ChannelType /\ s \in SocketsType /\ q \in LinkType
  /\ s2 \in SocketsType /\ q2 \in LinkType /\ X \in SUBSET Frame
  /\ c \in Connections /\ A \in Seq(Reply) /\ B \in Seq(Reply)
  /\ Books(ch, s, q, X, g) /\ Flushed(s, q, s2, q2, c, A, B)

(* Moving replies from the queue to the socket keeps the books.             *)
LEMMA FlushedKeeps ==
  ASSUME NEW ch, NEW s, NEW q, NEW s2, NEW q2, NEW X, NEW g, NEW c, NEW A, NEW B,
         FlushedWell(ch, s, q, s2, q2, X, g, c, A, B)
  PROVE  Books(ch, s2, q2, X, g)
  BY FlushKeeps, Zenon DEF Flushed, FlushedWell

(* The first n replies that wait are sent.                                  *)
Sends1(u, n) ==
  [o |-> [u.o EXCEPT !.acks = SubSeq(u.o.acks, n + 1, Len(u.o.acks))],
   s |-> [u.s EXCEPT ![u.o.client].toWeb = u.s[u.o.client].toWeb \o SubSeq(u.o.acks, 1, n)]]

MaySend(u, c, n) ==
  /\ ~u.o.dropping /\ u.o.gone = "no" /\ c = u.o.client /\ u.s[c].web
  /\ n <= Len(u.o.acks) /\ Len(u.s[c].toWeb) + n <= RoomForReleases
Answered(ch, u, v, X, g) ==
  /\ Good(ch, v, X, g) /\ Alike(u.o, v.o, {"acks"})
  /\ \A d \in Connections : v.s[d].ui = u.s[d].ui /\ v.s[d].web = u.s[d].web

(* Sending as many releases as there is room for keeps the books.           *)
LEMMA FlushSends ==
  ASSUME NEW ch \in ChannelType, NEW u, NEW X \in SUBSET Frame, NEW g \in Replied,
         Good(ch, u, X, g), NEW c \in Connections, NEW n \in Nat, MaySend(u, c, n)
  PROVE  Answered(ch, u, Sends1(u, n), X, g)
<1> USE DEF MaySend
<1> DEFINE A == SubSeq(u.o.acks, 1, n)
           B == SubSeq(u.o.acks, n + 1, Len(u.o.acks))
           p == [u.o EXCEPT !.acks = B]
           s2 == Put(u.s, c, A)
           v == Sends1(u, n)
<1>1. /\ u \in UType /\ u.o \in OverlayType /\ u.s \in SocketsType /\ Link(u.o) \in LinkType
      /\ Calm(u.o) /\ WriterOK(u.s, u.o) /\ RoomOK(u.s) /\ Books(ch, u.s, Link(u.o), X, g)
  BY UTyped DEF Good
<1>2. u.o.acks \in Seq(Reply)
  BY <1>1 DEF OverlayType
<1>3. A \in Seq(Reply) /\ B \in Seq(Reply) /\ u.o.acks = A \o B /\ Len(A) = n
  <2>1. \A a \in Seq(Reply), m \in Nat : m <= Len(a) =>
          /\ SubSeq(a, 1, m) \in Seq(Reply) /\ SubSeq(a, m + 1, Len(a)) \in Seq(Reply)
          /\ a = SubSeq(a, 1, m) \o SubSeq(a, m + 1, Len(a)) /\ Len(SubSeq(a, 1, m)) = m
    BY Zenon, Halves
  <2> QED BY Zenon, <1>2, <2>1
<1>4. v = [o |-> p, s |-> s2]
  BY DEF Sends1, Put
<1> HIDE DEF A, B
<1>5. p \in OverlayType /\ Alike(u.o, p, {"acks"}) /\ p.acks = B
  BY <1>1, <1>3, Says
<1>6. /\ s2 \in SocketsType /\ s2[c].toWeb = u.s[c].toWeb \o A
      /\ Len(s2[c].toWeb) = Len(u.s[c].toWeb) + Len(A)
      /\ \A d \in Connections : /\ s2[d].web = u.s[d].web /\ s2[d].ui = u.s[d].ui
                                /\ s2[d].toUI = u.s[d].toUI /\ (d # c => s2[d] = u.s[d])
  <2>1. u.s \in SocketsType /\ A \in Seq(Reply)
    BY <1>1, <1>3
  <2> QED BY Zenon, <2>1, Sending
<1> HIDE DEF p, s2
<1>7. v \in UType /\ v.o = p /\ v.s = s2
  <2>1. v = [o |-> p, s |-> s2] /\ p \in OverlayType /\ s2 \in SocketsType
    BY Zenon, <1>4, <1>5, <1>6
  <2> HIDE DEF v
  <2> QED BY <2>1 DEF UType
<1> HIDE DEF v
<1>8. /\ p.client = u.o.client /\ p.dropping = u.o.dropping /\ p.gone = u.o.gone
      /\ p.writer = u.o.writer /\ p.current = u.o.current /\ p.plane = u.o.plane
      /\ p.planeEnabled = u.o.planeEnabled /\ p.closeAfterDisable = u.o.closeAfterDisable
      /\ p.disableRequested = u.o.disableRequested
  BY <1>5, AlikeAll
<1>9. Books(ch, s2, Link(p), X, g)
  <2> DEFINE q == Link(u.o)
             q2 == Link(p)
  <2>1. q \in LinkType /\ q2 \in LinkType /\ Books(ch, u.s, q, X, g) /\ u.s \in SocketsType
    BY <1>1, <1>5, LinkTyped
  <2>2. /\ q.client = c /\ ~q.dropping /\ q.gone = "no" /\ q.acks = A \o B
        /\ q2.client = c /\ q2.dropping = q.dropping /\ q2.gone = q.gone /\ q2.acks = B
    BY <1>3, <1>5, <1>8 DEF Link
  <2>3. /\ s2[c].web = u.s[c].web /\ s2[c].ui = u.s[c].ui /\ s2[c].toUI = u.s[c].toUI
        /\ \A d \in Connections : d # c => s2[d] = u.s[d]
    BY Zenon, <1>6
  <2> HIDE DEF q, q2
  <2>4. Books(ch, s2, q2, X, g)
    <3>1. A \in Seq(Reply) /\ B \in Seq(Reply) /\ s2 \in SocketsType
          /\ s2[c].toWeb = u.s[c].toWeb \o A /\ u.s[c].web /\ c \in Connections
      BY Zenon, <1>3, <1>6
    <3>2. Flushed(u.s, q, s2, q2, c, A, B)
      BY Zenon, <2>2, <2>3, <3>1 DEF Flushed
    <3>3. FlushedWell(ch, u.s, q, s2, q2, X, g, c, A, B)
      BY Zenon, <2>1, <3>1, <3>2 DEF FlushedWell
    <3> QED BY Zenon, <3>3, FlushedKeeps
  <2> QED BY <2>4 DEF q2
<1>10. Calm(p) /\ WriterOK(s2, p)
  <2>1. Calm(p)
    BY <1>1, <1>8 DEF Calm
  <2>2. u.o.client \in {0} \cup Connections
    BY <1>1 DEF OverlayType
  <2>3. /\ u.o.client # 0 => Made(s2, u.o.client)
        /\ \A d \in Connections : ~u.s[d].web /\ Made(u.s, d) => ~s2[d].web /\ Made(s2, d)
    BY <1>1, <1>6, <2>2 DEF WriterOK, Made
  <2> QED BY <1>1, <1>8, <2>1, <2>3 DEF WriterOK
<1>11. RoomOK(s2)
  BY Zenon, <1>1, <1>3, <1>6 DEF RoomOK
<1> QED BY Zenon, <1>5, <1>6, <1>7, <1>9, <1>10, <1>11 DEF Good, v, Answered

(* A flush does nothing, drops the client or sends what fits.               *)
LEMMA FlushCases ==
  ASSUME NEW u, NEW f \in Flush(u)
  PROVE  \/ f.u = u
         \/ /\ u.o.client # 0 /\ ~u.s[u.o.client].web /\ ~f.done /\ f.u \in DropClient(u)
         \/ /\ u.o.client # 0 /\ u.s[u.o.client].web
            /\ f.u = Sends1(u, LET room == RoomForReleases - Len(u.s[u.o.client].toWeb)
                               IN  IF Len(u.o.acks) < room THEN Len(u.o.acks) ELSE room)
<1>1. CASE u.o.client = 0
  BY <1>1 DEF Flush
<1>2. CASE u.o.client # 0 /\ u.o.acks = <<>>
  BY <1>2 DEF Flush
<1>3. CASE u.o.client # 0 /\ u.o.acks # <<>> /\ ~u.s[u.o.client].web
  <2>1. f \in {[u |-> d, done |-> FALSE] : d \in DropClient(u)}
    BY <1>3 DEF Flush
  <2> QED BY <1>3, <2>1
<1>4. CASE u.o.client # 0 /\ u.o.acks # <<>> /\ u.s[u.o.client].web
  <2> DEFINE room == RoomForReleases - Len(u.s[u.o.client].toWeb)
             n == IF Len(u.o.acks) < room THEN Len(u.o.acks) ELSE room
  <2>1. Flush(u) = {[u |-> Sends1(u, n), done |-> n = Len(u.o.acks)]}
    BY Zenon, <1>4 DEF Flush, Sends1
  <2> HIDE DEF n
  <2>2. f.u = Sends1(u, n)
    BY <2>1
  <2> QED BY <1>4, <2>2 DEF n
<1> QED BY <1>1, <1>2, <1>3, <1>4

(* videoOverlayFlushReleases: some replies are sent, or the client is lost. *)
LEMMA FlushStep ==
  ASSUME NEW ch \in ChannelType, NEW u, NEW X \in SUBSET Frame, NEW g \in Replied,
         Good(ch, u, X, g), ~u.o.dropping, u.o.gone = "no", NEW f \in Flush(u)
  PROVE  /\ Good(ch, f.u, X, g) /\ Onward(u, f.u)
         /\ \/ /\ Alike(u.o, f.u.o, {"acks"})
               /\ \A d \in Connections : f.u.s[d].ui = u.s[d].ui
            \/ /\ u.o.client # 0 /\ ~u.s[u.o.client].web /\ ~f.done
               /\ Lost(Link(f.u.o)) /\ Tidy(f.u.o)
<1>1. CASE f.u = u
  <2>1. Alike(u.o, u.o, {"acks"}) /\ Alike(u.o, u.o, {"acks", "writer"})
    BY DEF Alike
  <2> QED BY <1>1, <2>1, OnwardAlike
<1>2. CASE u.o.client # 0 /\ ~u.s[u.o.client].web /\ ~f.done /\ f.u \in DropClient(u)
  BY Zenon, <1>2, DropKeeps
<1>3. ASSUME u.o.client # 0, u.s[u.o.client].web, NEW n,
             n = LET room == RoomForReleases - Len(u.s[u.o.client].toWeb)
                 IN  IF Len(u.o.acks) < room THEN Len(u.o.acks) ELSE room,
             f.u = Sends1(u, n)
      PROVE  /\ Good(ch, f.u, X, g) /\ Onward(u, f.u) /\ Alike(u.o, f.u.o, {"acks"})
             /\ \A d \in Connections : f.u.s[d].ui = u.s[d].ui
  <2>1. PICK c \in Connections : c = u.o.client
    BY <1>3, UTyped DEF Good, OverlayType
  <2>2. u.o.acks \in Seq(Reply) /\ u.s \in SocketsType /\ RoomOK(u.s)
    BY UTyped DEF Good, OverlayType
  <2> DEFINE L == Len(u.o.acks)
             W == Len(u.s[c].toWeb)
  <2>3. /\ L \in Nat /\ W \in Nat /\ W <= RoomForReleases /\ RoomForReleases \in Nat
    BY <2>1, <2>2, Numbers, SocketTyped, LenProperties DEF RoomOK
  <2>4. n = IF L < RoomForReleases - W THEN L ELSE RoomForReleases - W
    BY <1>3, <2>1
  <2> HIDE DEF L, W
  <2>5. n \in Nat /\ n <= L /\ W + n <= RoomForReleases
    BY <2>3, <2>4
  <2>6. Answered(ch, u, Sends1(u, n), X, g)
    <3>1. MaySend(u, c, n)
      BY <1>3, <2>1, <2>5 DEF L, W, MaySend
    <3> QED BY <2>5, <3>1, FlushSends
  <2>7. Alike(u.o, f.u.o, {"acks", "writer"})
    BY Zenon, <1>3, <2>6 DEF Alike, Answered
  <2> QED BY Zenon, <1>3, <2>6, <2>7, OnwardAlike DEF Answered
<1> QED BY <1>1, <1>2, <1>3, FlushCases

(* What a step of the UI process keeps.                                      *)
Went(ch, u, v, X, g) == Good(ch, v, X, g) /\ Onward(u, v)

(* Nothing changes.                                                          *)
LEMMA OnwardSame == ASSUME NEW u PROVE Onward(u, u)
<1>1. Alike(u.o, u.o, {"acks", "writer"})
  BY DEF Alike
<1> QED BY <1>1 DEF Onward

(* A reply is appended; whether it is sent.                                  *)
Says1(u, r) == [u EXCEPT !.o.acks = AddRelease(u.o.acks, r)]
Fits(u, r) == u.s[u.o.client].web /\ Len(AddRelease(u.o.acks, r)) <= ReleaseLimit
Arms(w) == [w EXCEPT !.o.writer = w.o.client]

(* The reply is appended to those that wait.                                 *)
LEMMA SaysOne ==
  ASSUME NEW u \in UType, NEW r \in Reply
  PROVE  LET w == Says1(u, r)
         IN  /\ w \in UType /\ w.s = u.s /\ Alike(u.o, w.o, {"acks"})
             /\ w.o.acks = AddRelease(u.o.acks, r)
<1> DEFINE a == AddRelease(u.o.acks, r)
           p == [u.o EXCEPT !.acks = a]
           w == Says1(u, r)
<1>1. u.o \in OverlayType /\ u.s \in SocketsType /\ u.o.acks \in Seq(Reply)
  BY UTyped DEF OverlayType
<1>2. a \in Seq(Reply)
  BY <1>1, Adds
<1>3. w = [u EXCEPT !.o = p]
  BY DEF Says1
<1> HIDE DEF a, w
<1>4. p \in OverlayType /\ Alike(u.o, p, {"acks"}) /\ p.acks = a
  BY <1>1, <1>2, Says
<1> HIDE DEF p
<1>5. w \in UType /\ w.o = p /\ w.s = u.s
  BY <1>3, <1>4, Updated
<1> QED BY <1>4, <1>5 DEF a, w

(* The writer is armed for the client, which is still there.                 *)
LEMMA ArmsOne ==
  ASSUME NEW ch \in ChannelType, NEW u, NEW X \in SUBSET Frame, NEW g \in Replied,
         Good(ch, u, X, g), u.o.client # 0, u.o.dropping => ~u.s[u.o.client].web
  PROVE  LET w == Arms(u)
         IN  Good(ch, w, X, g) /\ w.s = u.s /\ Alike(u.o, w.o, {"writer"})
<1> DEFINE p == [u.o EXCEPT !.writer = u.o.client]
           w == Arms(u)
<1>1. /\ u \in UType /\ u.o \in OverlayType /\ u.s \in SocketsType /\ u.o.client \in Connections
      /\ Calm(u.o) /\ WriterOK(u.s, u.o) /\ RoomOK(u.s) /\ Books(ch, u.s, Link(u.o), X, g)
  BY UTyped DEF Good, OverlayType
<1>2. u.o.client \in 0..Spent
  BY <1>1, Numbers DEF Connections, Spent
<1>3. w = [u EXCEPT !.o = p]
  BY DEF Arms
<1> HIDE DEF w
<1>4. p \in OverlayType /\ Alike(u.o, p, {"writer"}) /\ p.writer = u.o.client
  BY <1>1, <1>2, Polls
<1> HIDE DEF p
<1>5. w \in UType /\ w.o = p /\ w.s = u.s
  BY <1>1, <1>3, <1>4, Updated
<1>6. /\ p.client = u.o.client /\ p.dropping = u.o.dropping /\ p.gone = u.o.gone
      /\ p.acks = u.o.acks /\ p.current = u.o.current /\ p.plane = u.o.plane
      /\ p.planeEnabled = u.o.planeEnabled /\ p.closeAfterDisable = u.o.closeAfterDisable
      /\ p.disableRequested = u.o.disableRequested
  BY <1>4, AlikeAll
<1>7. Link(p) = Link(u.o)
  BY <1>6 DEF Link
<1>8. Calm(p)
  BY <1>1, <1>6 DEF Calm
<1>9. WriterOK(u.s, p)
  BY <1>1, <1>4, <1>6 DEF WriterOK
<1> QED BY <1>1, <1>4, <1>5, <1>7, <1>8, <1>9 DEF Good, w

(* The ways a reply may go.                                                  *)
LEMMA SendReplyCases ==
  ASSUME NEW u, NEW r, NEW v \in SendReply(u, r)
  PROVE  \/ Lost(Link(u.o)) /\ v = u
         \/ ~Lost(Link(u.o)) /\ v \in DropClient(u)
            /\ Len(AddRelease(u.o.acks, r)) > ReleaseLimit
         \/ /\ ~Lost(Link(u.o))
            /\ \E f \in Flush(Says1(u, r)) :
                 v = f.u \/ (v = Arms(f.u) /\ f.u.o.client # 0)
<1>1. CASE u.o.dropping \/ u.o.client = 0 \/ u.o.gone # "no"
  BY <1>1 DEF SendReply, Lost, Link
<1>2. CASE ~(u.o.dropping \/ u.o.client = 0 \/ u.o.gone # "no")
  <2>1. ~Lost(Link(u.o))
    BY <1>2 DEF Lost, Link
  <2>2. CASE Len(AddRelease(u.o.acks, r)) > ReleaseLimit
    <3>1. v \in DropClient(u)
      BY <1>2, <2>2 DEF SendReply
    <3> QED BY <2>1, <2>2, <3>1
  <2>3. CASE ~(Len(AddRelease(u.o.acks, r)) > ReleaseLimit)
    <3>1. \E f \in Flush(Says1(u, r)) :
            v = IF f.done \/ f.u.o.writer # 0 \/ f.u.o.client = 0 THEN f.u ELSE Arms(f.u)
      BY <1>2, <2>3 DEF SendReply, Says1, Arms
    <3> QED BY <2>1, <3>1
  <2> QED BY <2>2, <2>3
<1> QED BY <1>1, <1>2

(* videoOverlaySendRelease: if the reply may be said, what holds after that  *)
(* holds in the end, and if it also fits the client is not lost.             *)
LEMMA SendReplyKeeps ==
  ASSUME NEW ch \in ChannelType, NEW u, NEW X \in SUBSET Frame, NEW g \in Replied,
         NEW Z \in SUBSET X, NEW h \in {g, None}, NEW r \in Reply, Good(ch, u, X, g),
         ~Lost(Link(u.o)) => Good(ch, Says1(u, r), Z, h),
         NEW v \in SendReply(u, r)
  PROVE  /\ Went(ch, u, v, Z, h)
         /\ Lost(Link(u.o)) => v = u
         /\ ~Lost(Link(u.o)) /\ Fits(u, r) => Alike(u.o, v.o, {"acks", "writer"})
<1> DEFINE w == Says1(u, r)
<1>1. /\ u \in UType /\ w \in UType /\ w.s = u.s /\ Alike(u.o, w.o, {"acks"})
      /\ WriterOK(u.s, u.o)
  BY SaysOne DEF Good
<1>2. Z \in SUBSET Frame /\ h \in Replied /\ {"acks"} \subseteq {"acks", "writer"}
  BY DEF Replied
<1> HIDE DEF w
<1>3. Onward(u, w) /\ (Lost(Link(u.o)) <=> Lost(Link(w.o)))
      /\ Alike(u.o, w.o, {"acks", "writer"})
  <2>1. Alike(u.o, w.o, {"acks", "writer"})
    BY <1>1, <1>2, AlikeMore
  <2> QED BY <1>1, <2>1, OnwardAlike
<1>4. CASE Lost(Link(u.o)) /\ v = u
  <2>1. Good(ch, u, Z, h)
    BY <1>4, LostGood
  <2> QED BY <1>4, <2>1, OnwardSame DEF Went
<1>5. CASE ~Lost(Link(u.o)) /\ v \in DropClient(u) /\ Len(AddRelease(u.o.acks, r)) > ReleaseLimit
  <2>1. Good(ch, v, X, g) /\ Lost(Link(v.o)) /\ Onward(u, v)
    BY <1>5, DropKeeps
  <2>2. Good(ch, v, Z, h)
    BY <2>1, LostGood
  <2>3. ~Fits(u, r)
    <3>1. u.o.acks \in Seq(Reply)
      BY <1>1, UTyped DEF OverlayType
    <3>2. AddRelease(u.o.acks, r) \in Seq(Reply)
      BY <3>1, Adds
    <3> QED BY <1>5, <3>2, Numbers, LenProperties DEF Fits
  <2> QED BY <1>5, <2>1, <2>2, <2>3 DEF Went
<1>6. ASSUME ~Lost(Link(u.o)), NEW f \in Flush(w), v = f.u \/ (v = Arms(f.u) /\ f.u.o.client # 0)
      PROVE  Went(ch, u, v, Z, h) /\ (Fits(u, r) => Alike(u.o, v.o, {"acks", "writer"}))
  <2>1. Good(ch, w, Z, h) /\ ~w.o.dropping /\ w.o.gone = "no" /\ w.o.client = u.o.client
        /\ w.o.client # 0
    BY <1>1, <1>3, <1>6, AlikeAll DEF w, Lost, Link
  <2>2. /\ Good(ch, f.u, Z, h) /\ Onward(w, f.u)
        /\ \/ Alike(w.o, f.u.o, {"acks"})
           \/ ~w.s[w.o.client].web
    BY <1>2, <2>1, FlushStep
  <2>3. Onward(u, f.u)
    BY <1>3, <1>6, <2>2, OnwardTrans
  <2>4. Fits(u, r) => Alike(u.o, f.u.o, {"acks", "writer"})
    <3>1. ASSUME Fits(u, r) PROVE Alike(w.o, f.u.o, {"acks"})
      BY <1>1, <2>1, <2>2, <3>1 DEF Fits
    <3>2. ASSUME Fits(u, r) PROVE Alike(w.o, f.u.o, {"acks", "writer"})
      BY <1>2, <3>1, <3>2, AlikeMore
    <3> QED BY <1>3, <3>2, AlikeTrans
  <2>5. CASE v = f.u
    BY <2>2, <2>3, <2>4, <2>5 DEF Went
  <2>6. CASE v = Arms(f.u) /\ f.u.o.client # 0
    <3>1. f.u.o.dropping => ~f.u.s[f.u.o.client].web
      <4>1. CASE Alike(w.o, f.u.o, {"acks"})
        BY <2>1, <4>1, AlikeAll
      <4>2. CASE ~w.s[w.o.client].web
        <5>1. f.u.o.client = w.o.client /\ w.o.client \in Connections
          BY <1>1, <2>1, <2>2, <2>6, UTyped DEF Onward, OverlayType
        <5> QED BY <2>2, <4>2, <5>1 DEF Onward
      <4> QED BY <2>2, <4>1, <4>2
    <3>2. Good(ch, v, Z, h) /\ v.s = f.u.s /\ Alike(f.u.o, v.o, {"writer"})
      BY Zenon, <1>2, <2>2, <2>6, <3>1, ArmsOne
    <3>3. Alike(f.u.o, v.o, {"acks", "writer"})
      <4>1. {"writer"} \subseteq {"acks", "writer"}
        OBVIOUS
      <4> QED BY <3>2, <4>1, AlikeMore
    <3>4. Onward(f.u, v) /\ (Lost(Link(f.u.o)) <=> Lost(Link(v.o)))
      BY <3>2, <3>3, OnwardAlike
    <3>5. Onward(u, v)
      BY <2>3, <3>4, OnwardTrans
    <3>6. Fits(u, r) => Alike(u.o, v.o, {"acks", "writer"})
      BY <2>4, <3>3, AlikeTrans
    <3> QED BY <3>2, <3>5, <3>6 DEF Went
  <2> QED BY <1>6, <2>5, <2>6
<1> QED BY <1>4, <1>5, <1>6, SendReplyCases DEF w

(* A reply that is appended changes nothing but the books.                   *)
LEMMA SaysGood ==
  ASSUME NEW ch \in ChannelType, NEW u, NEW X, NEW g, NEW Z, NEW h, NEW r \in Reply,
         Good(ch, u, X, g), Books(ch, u.s, Link(Says1(u, r).o), Z, h)
  PROVE  Good(ch, Says1(u, r), Z, h)
<1> DEFINE w == Says1(u, r)
<1>1. /\ u \in UType /\ w \in UType /\ w.s = u.s /\ Alike(u.o, w.o, {"acks"})
      /\ Calm(u.o) /\ WriterOK(u.s, u.o) /\ RoomOK(u.s)
  BY SaysOne DEF Good
<1> HIDE DEF w
<1>2. /\ w.o.client = u.o.client /\ w.o.dropping = u.o.dropping /\ w.o.writer = u.o.writer
      /\ w.o.current = u.o.current /\ w.o.plane = u.o.plane
      /\ w.o.planeEnabled = u.o.planeEnabled /\ w.o.closeAfterDisable = u.o.closeAfterDisable
      /\ w.o.disableRequested = u.o.disableRequested
  BY <1>1, AlikeAll
<1>3. Calm(w.o) /\ WriterOK(u.s, w.o)
  BY <1>1, <1>2 DEF Calm, WriterOK
<1> QED BY <1>1, <1>3 DEF Good, w

(* A client that is served.                                                  *)
LEMMA ServedLink ==
  ASSUME NEW ch \in ChannelType, NEW u, NEW X \in SUBSET Frame, NEW g, Good(ch, u, X, g),
         ~Lost(Link(u.o))
  PROVE  /\ u.o.client \in Connections /\ u.o.client # 0 /\ u.o.gone = "no" /\ ~u.o.dropping
         /\ u.s[u.o.client].ui = "open"
         /\ u.s[u.o.client].web => /\ ch.socket = u.o.client /\ Live(ch, u.s, Link(u.o))
                                   /\ Link(u.o).client = ch.socket
<1>1. u \in UType /\ u.o \in OverlayType /\ Books(ch, u.s, Link(u.o), X, g)
  BY UTyped DEF Good
<1>2. /\ u.o.client \in Connections /\ u.o.client # 0 /\ u.o.gone = "no" /\ ~u.o.dropping
  BY <1>1 DEF Lost, Link, OverlayType
<1>3. SocketsOK(ch, u.s, Link(u.o))
  BY <1>1 DEF Books, Safe
<1>4. Link(u.o).client = u.o.client /\ Link(u.o).gone = "no" /\ Link(u.o).dropping = u.o.dropping
  BY <1>2 DEF Link
<1>5. u.s[u.o.client].ui = "open"
  BY <1>2, <1>3, <1>4 DEF SocketsOK
<1>6. u.s[u.o.client].web => ch.socket = u.o.client
  BY <1>2, <1>3 DEF SocketsOK
<1>7. ch.socket = u.o.client => Live(ch, u.s, Link(u.o))
  BY <1>2, <1>4, <1>5 DEF Live
<1> QED BY <1>2, <1>4, <1>5, <1>6, <1>7

(* The queue of replies has room for the release of a frame that is held.    *)
LEMMA ReleaseFits ==
  ASSUME NEW ch \in ChannelType, NEW u, NEW X \in SUBSET Frame, NEW g, ChannelOK(ch),
         Good(ch, u, X, g), ~Lost(Link(u.o)), u.s[u.o.client].web, X # {}, NEW r \in Reply
  PROVE  Fits(u, r)
<1> DEFINE q == Link(u.o)
           a == u.o.acks
           b == AddRelease(a, r)
           Q == Queue(u.s, q, ch.socket)
<1>1. /\ u \in UType /\ u.s \in SocketsType /\ q \in LinkType /\ Books(ch, u.s, q, X, g)
      /\ a \in Seq(Reply) /\ q.acks = a
  BY UTyped DEF Good, OverlayType, Link
<1>2. Live(ch, u.s, q) /\ q.client = ch.socket /\ ch.socket \in Connections
  BY ServedLink
<1> HIDE DEF q
<1>3. Len(Q) \in Nat /\ Len(Q) <= MaxInFlight
  BY <1>1, <1>2, QueueFits
<1>4. Q = u.s[ch.socket].toWeb \o a /\ u.s[ch.socket].toWeb \in Seq(Reply)
  <2>1. Q = u.s[ch.socket].toWeb \o q.acks
    BY Zenon, <1>1, <1>2, QueueIs
  <2> QED BY <1>1, <1>2, <2>1, SocketTyped
<1>5. Len(Q) = Len(u.s[ch.socket].toWeb) + Len(a) /\ Len(u.s[ch.socket].toWeb) \in Nat
      /\ Len(a) \in Nat
  BY <1>1, <1>4, Joined
<1>6. b = Append(a, r) \/ b = a
  BY Zenon, <1>1, Adds
<1>7. Len(b) = Len(a) + 1 \/ Len(b) = Len(a)
  BY <1>1, <1>6, AppendProperties
<1> HIDE DEF a, Q
<1>8. Len(b) <= ReleaseLimit
  <2> DEFINE l == Len(a)
             m == Len(b)
             n == Len(Q)
             k == Len(u.s[ch.socket].toWeb)
  <2>1. l \in Nat /\ n \in Nat /\ k \in Nat /\ n = k + l /\ n <= MaxInFlight /\ (m = l + 1 \/ m = l)
    BY <1>3, <1>5, <1>7
  <2> HIDE DEF l, m, n, k
  <2>2. m <= ReleaseLimit
    BY <2>1, Numbers
  <2> QED BY <2>2 DEF m
<1> QED BY <1>8 DEF Fits, a, b

(* The release of a frame; a client that is there is not lost by it.         *)
LEMMA ReleaseKeeps ==
  ASSUME NEW ch \in ChannelType, NEW u, NEW X \in SUBSET Frame, NEW g \in Replied,
         ChannelOK(ch), Good(ch, u, X, g), NEW f \in X \cup {None}, NEW v \in SendRelease(u, f)
  PROVE  /\ Went(ch, u, v, X \ {f}, g)
         /\ Lost(Link(u.o)) => v = u
         /\ ~Lost(Link(u.o)) /\ u.s[u.o.client].web => Alike(u.o, v.o, {"acks", "writer"})
<1>1. CASE f = None
  <2>1. v = u
    BY <1>1 DEF SendRelease
  <2>2. X \ {f} = X
    BY <1>1, NullAssumption
  <2>3. Alike(u.o, v.o, {"acks", "writer"})
    BY <2>1 DEF Alike
  <2> QED BY <2>1, <2>2, <2>3, OnwardSame DEF Went
<1>2. CASE f # None
  <2> DEFINE r == Release(f)
             Z == X \ {f}
             w == Says1(u, r)
  <2>1. f \in X /\ f \in Frame /\ v \in SendReply(u, r)
    BY <1>2 DEF SendRelease
  <2>2. r \in Reply
    BY <2>1, FrameNumbers DEF Release, Reply
  <2>3. Z \in SUBSET X /\ g \in {g, None} /\ X # {}
    BY <2>1
  <2>4. /\ u \in UType /\ u.s \in SocketsType /\ Link(u.o) \in LinkType
        /\ Books(ch, u.s, Link(u.o), X, g) /\ w \in UType /\ Alike(u.o, w.o, {"acks"})
        /\ w.o.acks = AddRelease(u.o.acks, r) /\ Link(w.o) \in LinkType
    BY <2>2, UTyped, SaysOne DEF Good
  <2>5. ASSUME ~Lost(Link(u.o)) PROVE Good(ch, w, Z, g)
    <3> DEFINE q == Link(u.o)
               q2 == Link(w.o)
    <3>1. /\ q.client # 0 /\ q2.client = q.client /\ q2.dropping = q.dropping
          /\ q2.gone = q.gone /\ q2.acks = AddRelease(q.acks, Release(f))
      BY <2>4, <2>5, AlikeAll DEF Link, Lost
    <3>2. Release(f) \in Reply
      BY <2>2
    <3> HIDE DEF q, q2, w, r
    <3>3. Books(ch, u.s, q2, Z, g)
      BY <2>1, <2>4, <3>1, <3>2, SayRelease DEF q, q2
    <3> QED BY <2>2, <3>3, SaysGood DEF q2, w
  <2> HIDE DEF r, Z, w
  <2>6. /\ Went(ch, u, v, Z, g) /\ (Lost(Link(u.o)) => v = u)
        /\ ~Lost(Link(u.o)) /\ Fits(u, r) => Alike(u.o, v.o, {"acks", "writer"})
    BY Zenon, <2>1, <2>2, <2>3, <2>5, SendReplyKeeps DEF w
  <2>7. ~Lost(Link(u.o)) /\ u.s[u.o.client].web => Fits(u, r)
    BY <2>2, <2>3, ReleaseFits
  <2> QED BY <2>6, <2>7 DEF Z
<1> QED BY <1>1, <1>2

(* The confirmation of the close request that is owed.                       *)
LEMMA ConfirmKeeps ==
  ASSUME NEW ch \in ChannelType, NEW u, NEW X \in SUBSET Frame, NEW r \in Reply,
         Good(ch, u, X, r), u.o.client = ch.socket => X = {}, NEW v \in SendReply(u, r)
  PROVE  Went(ch, u, v, X, None) /\ (Lost(Link(u.o)) => v = u)
<1> DEFINE w == Says1(u, r)
<1>1. /\ u \in UType /\ u.s \in SocketsType /\ Link(u.o) \in LinkType
      /\ Books(ch, u.s, Link(u.o), X, r) /\ w \in UType /\ Alike(u.o, w.o, {"acks"})
      /\ w.o.acks = AddRelease(u.o.acks, r) /\ Link(w.o) \in LinkType
  BY UTyped, SaysOne DEF Good
<1>2. ASSUME ~Lost(Link(u.o)) PROVE Good(ch, w, X, None)
  <2> DEFINE q == Link(u.o)
             q2 == Link(w.o)
  <2>1. /\ q.client # 0 /\ q2.client = q.client /\ q2.dropping = q.dropping
        /\ q2.gone = q.gone /\ q2.acks = AddRelease(q.acks, r) /\ q.client = u.o.client
    BY <1>1, <1>2, AlikeAll DEF Link, Lost
  <2> HIDE DEF q, q2, w
  <2>2. Books(ch, u.s, q2, X, None)
    BY <1>1, <2>1, SayDone DEF q, q2
  <2> QED BY <2>2, SaysGood DEF q2, w
<1>3. X \in SUBSET X /\ None \in {r, None} /\ r \in Replied
  BY DEF Replied
<1> HIDE DEF w
<1> QED BY Zenon, <1>2, <1>3, SendReplyKeeps DEF w

(* What a handler that may also show a frame keeps.                          *)
Near(u, v) ==
  /\ v.o.client \in {u.o.client, 0} /\ v.o.reading = u.o.reading /\ v.o.batch = u.o.batch
  /\ v.o.current \in {u.o.current, u.o.pending, None} /\ v.o.pending \in {u.o.pending, None}
  /\ v.o.closing \in {u.o.closing, None} /\ (v.o.gone = "no" => u.o.gone = "no")
  /\ \A d \in Connections : /\ Accepted(u.s, d) => Accepted(v.s, d)
                            /\ v.s[d].web = u.s[d].web
  /\ Lost(Link(u.o)) => Lost(Link(v.o))
Onto(u, v) == Near(u, v) /\ (Tidy(u.o) => Tidy(v.o))

(* Two steps near are one.                                                  *)
LEMMA NearTrans ==
  ASSUME NEW u, NEW v, NEW w, Near(u, v), Near(v, w)
  PROVE  Near(u, w)
  BY DEF Near

(* A step onward keeps what the UI process promises.                        *)
LEMMA Onwards == ASSUME NEW u, NEW v, Onward(u, v) PROVE Onto(u, v)
<1>1. Lost(Link(u.o)) => Lost(Link(v.o))
  <2>1. CASE Lost(Link(v.o))
    BY <2>1
  <2>2. CASE Alike(u.o, v.o, {"acks", "writer"})
    BY <2>2, AlikeAll DEF Lost, Link
  <2> QED BY <2>1, <2>2 DEF Onward
<1> QED BY <1>1 DEF Onward, Near, Onto

(* Two steps that keep it are one.                                          *)
LEMMA OntoTrans ==
  ASSUME NEW u, NEW v, NEW w, Onto(u, v), Onto(v, w)
  PROVE  Onto(u, w)
  BY DEF Near, Onto

(* What is not in the books may change.                                      *)
Unbooked == Fields \ {"client", "acks", "dropping", "gone", "writer"}
(* Fields the books do not mention may change.                              *)
LEMMA ReGood ==
  ASSUME NEW ch, NEW u, NEW v \in UType, NEW X, NEW g, NEW F \in SUBSET Unbooked,
         Good(ch, u, X, g), v.s = u.s, Alike(u.o, v.o, F), Calm(v.o)
  PROVE  Good(ch, v, X, g)
<1>1. /\ v.o.client = u.o.client /\ v.o.acks = u.o.acks /\ v.o.dropping = u.o.dropping
      /\ v.o.gone = u.o.gone /\ v.o.writer = u.o.writer
  <2>1. {"client", "acks", "dropping", "gone", "writer"} \cap F = {}
    BY DEF Unbooked
  <2>2. "client" \notin F /\ "acks" \notin F /\ "dropping" \notin F /\ "gone" \notin F /\ "writer" \notin F
    BY <2>1
  <2> QED BY <2>2, AlikeAll
<1>2. Link(v.o) = Link(u.o)
  BY <1>1 DEF Link
<1>3. WriterOK(v.s, v.o)
  BY <1>1 DEF Good, WriterOK
<1> QED BY <1>2, <1>3 DEF Good

(* A frame is released that stays retained only if it is of an earlier WebProcess. *)
LEMMA ReleaseHeld ==
  ASSUME NEW ch \in ChannelType, NEW u, NEW X \in SUBSET Frame, NEW g \in Replied,
         ChannelOK(ch), Good(ch, u, X, g), NEW f \in X \cup {None}, NEW v \in SendRelease(u, f),
         NEW Y \in SUBSET X, X \ {f} \subseteq Y, f \in Y => ~(f.conn > ch.born)
  PROVE  /\ Went(ch, u, v, Y, g)
         /\ Lost(Link(u.o)) => v = u
         /\ ~Lost(Link(u.o)) /\ u.s[u.o.client].web => Alike(u.o, v.o, {"acks", "writer"})
<1>1. /\ Went(ch, u, v, X \ {f}, g) /\ (Lost(Link(u.o)) => v = u)
      /\ ~Lost(Link(u.o)) /\ u.s[u.o.client].web => Alike(u.o, v.o, {"acks", "writer"})
  BY ReleaseKeeps
<1>2. CASE f \notin Y
  <2>1. Y = X \ {f}
    BY <1>2
  <2> QED BY <1>1, <2>1
<1>3. CASE f \in Y
  <2> DEFINE Z == X \ {f}
  <2>1. f \in X /\ f \in Frame /\ ~(f.conn > ch.born) /\ f.conn \in Connections
    BY <1>3, FrameNumbers
  <2>2. f.conn <= ch.born
    BY <2>1, FrameNumbers, ChannelNumbers
  <2>3. FrameOK(ch, u.s, f) /\ (u.o.client # 0 => f.conn = u.o.client)
    BY <2>1 DEF Good, Books, Safe, FramesOK, Link
  <2>4. Accepted(v.s, f.conn) /\ (v.o.client # 0 => f.conn = v.o.client)
    BY <1>1, <2>1, <2>3 DEF Went, Onward, FrameOK
  <2>5. /\ v \in UType /\ v.s \in SocketsType /\ Link(v.o) \in LinkType
        /\ Books(ch, v.s, Link(v.o), Z, g) /\ Link(v.o).client = v.o.client
    BY <1>1, UTyped DEF Went, Good, Link
  <2>6. /\ Z \in SUBSET Frame /\ Y \in SUBSET Frame
        /\ \A x \in Z : x.conn > ch.born => x \in Y
        /\ \A y \in Y : y \in Z \/ y = f
    OBVIOUS
  <2> HIDE DEF Z
  <2>7. \A y \in Y : y \in Z \/ /\ y.conn <= ch.born /\ Accepted(v.s, y.conn)
                                /\ Link(v.o).client # 0 => y.conn = Link(v.o).client
    BY <2>2, <2>4, <2>5, <2>6
  <2>8. Books(ch, v.s, Link(v.o), Y, g)
    BY <2>5, <2>6, <2>7, OldOnly
  <2> QED BY <1>1, <2>8 DEF Went, Good
<1> QED BY <1>2, <1>3

(* videoOverlayCommit touches only the plane.                                *)
LEMMA CommitKeeps ==
  ASSUME NEW o \in OverlayType, o.planeEnabled <=> o.plane # None, NEW f \in Frame, NEW r \in Rects,
         NEW k \in Commit(o, f, r)
  PROVE  /\ k.o \in OverlayType /\ Alike(o, k.o, {"planeEnabled", "plane"})
         /\ k.o.planeEnabled <=> k.o.plane # None
         /\ k.ok => k.o.plane \in {f, None}
         /\ ~k.ok => k.o = o
<1> DEFINE A == [o EXCEPT !.planeEnabled = TRUE, !.plane = f]
           B == [o EXCEPT !.planeEnabled = FALSE, !.plane = None]
<1>1. /\ A \in OverlayType /\ Alike(o, A, {"planeEnabled", "plane"})
      /\ A.planeEnabled = TRUE /\ A.plane = f
  BY Zenon, PlaneOn
<1>2. /\ B \in OverlayType /\ Alike(o, B, {"planeEnabled", "plane"})
      /\ B.planeEnabled = FALSE /\ B.plane = None
  BY Zenon, PlaneOff
<1>3. Alike(o, o, {"planeEnabled", "plane"})
  BY DEF Alike
<1>4. \/ ~k.ok /\ k.o = o
      \/ k.ok = TRUE /\ k.o = A
      \/ k.ok = TRUE /\ k.o = B
  <2> HIDE DEF A, B
  <2> DEFINE N(e) == [o |-> o, ok |-> FALSE, again |-> e]
  <2>1. \/ \E e : k = [o |-> o, ok |-> FALSE, again |-> e]
        \/ k = [o |-> A, ok |-> TRUE, again |-> FALSE]
        \/ k = [o |-> B, ok |-> TRUE, again |-> FALSE]
    <3>1. CASE o.busy
      BY <3>1 DEF Commit
    <3>2. CASE ~o.busy /\ r = "empty"
      BY <3>2 DEF Commit
    <3>3. CASE ~o.busy /\ r = "clipped"
      BY <3>3 DEF Commit, B
    <3>4. CASE ~o.busy /\ r \in {"shown", "other"}
      BY <3>4 DEF Commit, A
    <3>5. r \in {"empty", "clipped", "shown", "other"}
      BY OverlayAssumption
    <3> QED BY <3>1, <3>2, <3>3, <3>4, <3>5
  <2> QED BY <2>1
<1> HIDE DEF A, B
<1>5. None # f
  BY NullAssumption
<1> QED BY <1>1, <1>2, <1>3, <1>4, <1>5

(* The frames videoOverlayDrainPending works on, and the confirmation owed:  *)
(* h is one whose request is read but not noted yet.                         *)
Pair(o) == {o.current, o.pending} \ {None}
Debt(o, h) == IF o.closing # None THEN o.closing ELSE h

(* The debt of a state after a reply was sent, or its client dropped.       *)
LEMMA Rebate ==
  ASSUME NEW ch \in ChannelType, NEW u \in UType, NEW v, NEW X \in SUBSET Frame,
         NEW h \in Replied, h = None \/ u.o.closing = None, Good(ch, v, X, Debt(u.o, h)),
         v.o.closing \in {u.o.closing, None}, v.o.closing = u.o.closing \/ Lost(Link(v.o))
  PROVE  Good(ch, v, X, Debt(v.o, h)) /\ (h = None \/ v.o.closing = None)
<1>1. u.o.closing \in Replied
  BY UTyped DEF OverlayType, Replied
<1>2. CASE v.o.closing = u.o.closing
  BY <1>2 DEF Debt
<1>3. CASE v.o.closing = None /\ u.o.closing # None /\ Lost(Link(v.o))
  <2>1. h = None /\ Debt(v.o, h) = None /\ Debt(u.o, h) \in Replied
    BY <1>1, <1>3 DEF Debt
  <2>2. X \in SUBSET X /\ None \in {Debt(u.o, h), None}
    OBVIOUS
  <2>3. Good(ch, v, X, None)
    BY <1>3, <2>1, <2>2, LostGood
  <2> QED BY <1>3, <2>1, <2>3
<1> QED BY <1>2, <1>3

(* The plane is down and its frame is forgotten.                             *)
Brought(u, w) ==
  /\ w \in UType /\ w.s = u.s /\ Alike(u.o, w.o, {"planeEnabled", "plane", "current"})
  /\ w.o.current = None /\ w.o.plane = None

(* Taking the plane down and forgetting the frame keeps the books.          *)
LEMMA BroughtKeeps ==
  ASSUME NEW ch \in ChannelType, NEW u, NEW X \in SUBSET Frame, NEW g, Good(ch, u, X, g),
         NEW e \in PlaneDown(u.o), e.ok
  PROVE  LET w == [u EXCEPT !.o = Forget(e.o)]
         IN  Brought(u, w) /\ Good(ch, w, X, g) /\ ~w.o.planeEnabled
<1> DEFINE p == [e.o EXCEPT !.current = None]
           w == [u EXCEPT !.o = Forget(e.o)]
           D == {"planeEnabled", "plane"}
           F == {"planeEnabled", "plane", "current"}
<1>1. u \in UType /\ u.o \in OverlayType /\ u.s \in SocketsType /\ Calm(u.o)
  BY UTyped DEF Good
<1>2. /\ e.o \in OverlayType /\ Alike(u.o, e.o, D) /\ e.o.plane = None /\ ~e.o.planeEnabled
  BY <1>1, PlaneDowns DEF Calm
<1>3. w = [u EXCEPT !.o = p]
  BY DEF Forget
<1> HIDE DEF w
<1>4. p \in OverlayType /\ Alike(e.o, p, {"current"}) /\ p.current = None
  BY <1>2, Forgets
<1> HIDE DEF p
<1>5. p.plane = None /\ ~p.planeEnabled
  BY <1>2, <1>4, AlikeAll
<1>6. Alike(u.o, p, F)
  <2>1. D \subseteq F /\ {"current"} \subseteq F
    OBVIOUS
  <2>2. Alike(u.o, e.o, F) /\ Alike(e.o, p, F)
    BY <1>2, <1>4, <2>1, AlikeMore
  <2> QED BY <2>2, AlikeTrans
<1>7. w \in UType /\ w.o = p /\ w.s = u.s
  BY <1>1, <1>3, <1>4, Updated
<1>8. Calm(w.o)
  <2>1. p.dropping = u.o.dropping /\ p.closeAfterDisable = u.o.closeAfterDisable
        /\ p.disableRequested = u.o.disableRequested
    BY <1>6, AlikeAll
  <2> QED BY <1>1, <1>5, <1>7, <2>1 DEF Calm
<1>9. F \in SUBSET Unbooked
  BY DEF Unbooked, Fields
<1> HIDE DEF D, F
<1>10. Good(ch, w, X, g)
  BY <1>6, <1>7, <1>8, <1>9, ReGood
<1>11. Alike(u.o, w.o, {"planeEnabled", "plane", "current"})
  BY <1>6, <1>7 DEF F
<1> QED BY <1>4, <1>5, <1>7, <1>10, <1>11 DEF Brought, w

(* And leaves what was put off, and the timer, as they were.                *)
LEMMA BroughtOnto ==
  ASSUME NEW u, NEW w, Brought(u, w)
  PROVE  /\ Onto(u, w) /\ (Set(u.o) => Set(w.o)) /\ (Steady(u.o) => Steady(w.o))
         /\ w.o.closing = u.o.closing /\ w.o.pending = u.o.pending
         /\ (Lost(Link(u.o)) <=> Lost(Link(w.o))) /\ w.o.disableRequested = u.o.disableRequested
<1>1. /\ w.o.client = u.o.client /\ w.o.dropping = u.o.dropping /\ w.o.gone = u.o.gone
      /\ w.o.reading = u.o.reading /\ w.o.batch = u.o.batch /\ w.o.pending = u.o.pending
      /\ w.o.closing = u.o.closing /\ w.o.disableRequested = u.o.disableRequested
      /\ w.o.retry = u.o.retry
  BY AlikeAll DEF Brought
<1>2. w.s = u.s /\ w.o.current = None
  BY DEF Brought
<1>3. Lost(Link(u.o)) <=> Lost(Link(w.o))
  BY <1>1 DEF Lost, Link
<1>4. (Set(u.o) => Set(w.o)) /\ (Steady(u.o) => Steady(w.o)) /\ (Tidy(u.o) => Tidy(w.o))
  BY <1>1, <1>2 DEF Set, Steady, Armed, Tidy
<1> QED BY <1>1, <1>2, <1>3, <1>4 DEF Near, Onto

(* What was put off is still there, unless the client was let go.           *)
LEMMA OnwardClosing ==
  ASSUME NEW u, NEW v, Onward(u, v)
  PROVE  /\ v.o.closing = u.o.closing \/ Lost(Link(v.o))
         /\ v.o.current = u.o.current \/ Lost(Link(v.o))
         /\ v.o.pending = u.o.pending \/ Lost(Link(v.o))
  BY AlikeAll DEF Onward

(* videoOverlayDisable.                                                      *)
LEMMA DisableKeeps ==
  ASSUME NEW ch \in ChannelType, NEW u, NEW X \in SUBSET Frame, NEW g \in Replied,
         ChannelOK(ch), Good(ch, u, X, g), u.o.current \in X \cup {None},
         NEW Y \in SUBSET X, X \ {u.o.current} \subseteq Y,
         u.o.current \in Y => ~(u.o.current.conn > ch.born),
         NEW d \in Disable(u)
  PROVE  /\ ~d.ok => d.u = u
         /\ d.ok => /\ Good(ch, d.u, Y, g) /\ Onto(u, d.u) /\ d.u.o.current = None
                    /\ (Set(u.o) => Set(d.u.o)) /\ (Steady(u.o) => Steady(d.u.o))
                    /\ d.u.o.closing = u.o.closing \/ Lost(Link(d.u.o))
<1>1. PICK e \in PlaneDown(u.o) :
        d \in IF e.ok
                THEN {[u |-> v, ok |-> TRUE] :
                        v \in SendRelease([u EXCEPT !.o = Forget(e.o)], u.o.current)}
                ELSE {[u |-> u, ok |-> FALSE]}
  BY DEF Disable
<1>2. CASE ~e.ok
  BY <1>1, <1>2
<1>3. CASE e.ok
  <2> DEFINE w == [u EXCEPT !.o = Forget(e.o)]
  <2>1. PICK v \in SendRelease(w, u.o.current) : d = [u |-> v, ok |-> TRUE]
    BY <1>1, <1>3
  <2>2. Brought(u, w) /\ Good(ch, w, X, g)
    BY <1>3, BroughtKeeps
  <2> HIDE DEF w
  <2>3. Went(ch, w, v, Y, g)
    BY <2>1, <2>2, ReleaseHeld
  <2>4. Onto(u, w) /\ (Set(u.o) => Set(w.o)) /\ (Steady(u.o) => Steady(w.o))
        /\ w.o.closing = u.o.closing
    BY <2>2, BroughtOnto
  <2>5. Onward(w, v) /\ Onto(w, v) /\ Onto(u, v)
    BY <2>3, <2>4, Onwards, OntoTrans DEF Went
  <2>6. v.o.current = None /\ (Set(w.o) => Set(v.o)) /\ (Steady(w.o) => Steady(v.o))
    BY <2>2, <2>5 DEF Onward, Brought
  <2>7. v.o.closing = u.o.closing \/ Lost(Link(v.o))
    BY <2>4, <2>5, OnwardClosing
  <2> QED BY <2>1, <2>3, <2>4, <2>5, <2>6, <2>7 DEF Went
<1> QED BY <1>2, <1>3

(* What videoOverlayDrainPending starts from and ends with.                  *)
Fit(ch, u, h) ==
  /\ Good(ch, u, Pair(u.o), Debt(u.o, h)) /\ Below(ch, u.o.current, u.o.pending)
  /\ h = None \/ u.o.closing = None

(* A field that no book mentions.                                            *)
LEMMA LooseKeeps ==
  ASSUME NEW ch, NEW u, NEW X, NEW g, Good(ch, u, X, g), NEW p \in OverlayType,
         NEW F \in SUBSET Loose, Alike(u.o, p, F)
  PROVE  LET w == [u EXCEPT !.o = p]
         IN  w \in UType /\ w.o = p /\ w.s = u.s /\ Good(ch, w, X, g)
<1> DEFINE w == [u EXCEPT !.o = p]
<1>1. w \in UType /\ w.o = p /\ w.s = u.s
  BY Updated DEF Good
<1> HIDE DEF w
<1>2. Good(ch, w, X, g)
  BY <1>1, GoodAlike
<1> QED BY <1>1, <1>2 DEF w

(* The pending frame may be cleared.                                        *)
LEMMA ClearsPending ==
  ASSUME NEW ch, NEW u, NEW X, NEW g, Good(ch, u, X, g)
  PROVE  LET w == [u EXCEPT !.o.pending = None]
         IN  /\ Good(ch, w, X, g) /\ Onto(u, w) /\ (Steady(u.o) => Set(w.o))
             /\ Alike(u.o, w.o, {"pending"}) /\ w.o.pending = None /\ w.s = u.s
<1> DEFINE p == [u.o EXCEPT !.pending = None]
           w == [u EXCEPT !.o.pending = None]
<1>1. p \in OverlayType /\ Alike(u.o, p, {"pending"}) /\ p.pending = None
  BY UTyped, Clears DEF Good
<1>2. w = [u EXCEPT !.o = p]
  OBVIOUS
<1>3. {"pending"} \in SUBSET Loose
  BY DEF Loose
<1> HIDE DEF p, w
<1>4. w.o = p /\ w.s = u.s /\ Good(ch, w, X, g)
  BY <1>1, <1>2, <1>3, LooseKeeps
<1>5. /\ p.client = u.o.client /\ p.dropping = u.o.dropping /\ p.gone = u.o.gone
      /\ p.reading = u.o.reading /\ p.batch = u.o.batch /\ p.current = u.o.current
      /\ p.closing = u.o.closing /\ p.disableRequested = u.o.disableRequested
      /\ p.retry = u.o.retry
  BY <1>1, AlikeAll
<1>6. Onto(u, w) /\ (Steady(u.o) => Set(w.o))
  BY <1>1, <1>4, <1>5 DEF Near, Onto, Tidy, Lost, Link, Steady, Set, Armed
<1> QED BY <1>1, <1>4, <1>6 DEF w

(* A confirmation that was sent may be cleared.                             *)
LEMMA ClearsClosing ==
  ASSUME NEW ch, NEW u, NEW X, NEW g, Good(ch, u, X, g)
  PROVE  LET w == [u EXCEPT !.o.closing = None]
         IN  /\ Good(ch, w, X, g) /\ Onto(u, w) /\ (Set(u.o) => Set(w.o))
             /\ Alike(u.o, w.o, {"closing"}) /\ w.o.closing = None /\ w.s = u.s
<1> DEFINE p == [u.o EXCEPT !.closing = None]
           w == [u EXCEPT !.o.closing = None]
<1>1. p \in OverlayType /\ Alike(u.o, p, {"closing"}) /\ p.closing = None
  BY Zenon, UTyped, Confirms DEF Good
<1>2. w = [u EXCEPT !.o = p]
  OBVIOUS
<1>3. {"closing"} \in SUBSET Loose
  BY DEF Loose
<1> HIDE DEF p, w
<1>4. w.o = p /\ w.s = u.s /\ Good(ch, w, X, g)
  BY <1>1, <1>2, <1>3, LooseKeeps
<1>5. /\ p.client = u.o.client /\ p.dropping = u.o.dropping /\ p.gone = u.o.gone
      /\ p.reading = u.o.reading /\ p.batch = u.o.batch /\ p.current = u.o.current
      /\ p.pending = u.o.pending /\ p.disableRequested = u.o.disableRequested
      /\ p.retry = u.o.retry
  BY <1>1, AlikeAll
<1>6. Onto(u, w) /\ (Set(u.o) => Set(w.o))
  BY <1>1, <1>4, <1>5 DEF Near, Onto, Tidy, Lost, Link, Set, Armed
<1> QED BY <1>1, <1>4, <1>6 DEF w

(* A disable that is put off, or the end of the process.                     *)
LEMMA PutOffKeeps ==
  ASSUME NEW ch \in ChannelType, NEW u, NEW X \in SUBSET Frame, NEW g \in Replied,
         Good(ch, u, X, g)
  PROVE  LET w == [u EXCEPT !.o = PutOff(u.o)]
         IN  /\ Good(ch, w, X, g) /\ Onto(u, w) /\ Set(w.o)
             /\ w.o.current = u.o.current /\ w.o.pending = u.o.pending
             /\ w.o.closing = u.o.closing
<1> DEFINE p == PutOff(u.o)
           w == [u EXCEPT !.o = PutOff(u.o)]
<1>1. /\ u \in UType /\ u.o \in OverlayType /\ u.s \in SocketsType /\ Link(u.o) \in LinkType
      /\ Calm(u.o) /\ WriterOK(u.s, u.o) /\ RoomOK(u.s) /\ Books(ch, u.s, Link(u.o), X, g)
  BY UTyped DEF Good
<1>2. \/ p = [u.o EXCEPT !.gone = "aborted"]
      \/ p = [u.o EXCEPT !.retry = TRUE]
  BY DEF PutOff
<1> HIDE DEF p
<1>3. p \in OverlayType /\ Alike(u.o, p, {"gone", "retry"})
      /\ (p.gone = "aborted" \/ (p.gone = u.o.gone /\ p.retry))
  <2>1. CASE p = [u.o EXCEPT !.gone = "aborted"]
    BY <1>1, <2>1, Aborts DEF Alike
  <2>2. CASE p = [u.o EXCEPT !.retry = TRUE]
    <3>1. p \in OverlayType /\ Alike(u.o, p, {"retry"}) /\ p.retry = TRUE
      BY <1>1, <2>2, Retries
    <3>2. p.gone = u.o.gone
      BY <3>1, AlikeAll
    <3> QED BY <3>1, <3>2 DEF Alike
  <2> QED BY <1>2, <2>1, <2>2
<1>4. w \in UType /\ w.o = p /\ w.s = u.s
  <2>1. w = [u EXCEPT !.o = p]
    BY DEF p
  <2> QED BY Zenon, <1>1, <1>3, <2>1, Updated
<1> HIDE DEF w
<1>5. /\ p.client = u.o.client /\ p.acks = u.o.acks /\ p.dropping = u.o.dropping
      /\ p.closeAfterDisable = u.o.closeAfterDisable
      /\ p.plane = u.o.plane /\ p.planeEnabled = u.o.planeEnabled /\ p.current = u.o.current
      /\ p.writer = u.o.writer /\ p.disableRequested = u.o.disableRequested
      /\ p.pending = u.o.pending /\ p.reading = u.o.reading /\ p.batch = u.o.batch
      /\ p.closing = u.o.closing
  BY <1>3, AlikeAll
<1>6. Calm(p) /\ WriterOK(u.s, p)
  BY <1>1, <1>5 DEF Calm, WriterOK
<1>7. Books(ch, u.s, Link(p), X, g)
  <2>1. CASE p.gone = u.o.gone
    <3>1. Link(p) = Link(u.o)
      BY <1>5, <2>1 DEF Link
    <3> QED BY <1>1, <3>1
  <2>2. CASE p.gone = "aborted"
    <3>1. Link(p) \in LinkType
      BY <1>3, LinkTyped
    <3>2. /\ SocketsOK(ch, u.s, Link(u.o)) /\ RepliesOK(ch, u.s, Link(u.o), X)
          /\ NamesOK(ch, u.s, Link(u.o), g)
      BY <1>1 DEF Books, Safe
    <3>3. \A i \in 1..Len(u.o.acks) :
            /\ u.o.client # 0 => u.o.acks[i].conn = u.o.client
            /\ ReplyOK(ch, u.s, X, u.o.acks[i])
      BY <3>2 DEF RepliesOK, Link
    <3>4. \A i \in 1..Len(u.o.acks) :
            u.o.client # 0 /\ u.o.client = ch.socket /\ u.o.acks[i].type = "CloseComplete"
              => u.o.acks[i].sequence = ch.closing /\ ch.closing # 0
      BY <1>1, <3>2, QueuedLast DEF Link
    <3>5. Shut(u.s, u.s)
      BY DEF Shut
    <3>6. LetGo(ch, u.s, Link(u.o), X, u.s, Link(p))
      BY <1>5, <2>2, <3>3, <3>4, <3>5 DEF LetGo, Lost, Link
    <3> QED BY <1>1, <3>1, <3>6, LetGoKeeps
  <2> QED BY <1>3, <2>1, <2>2
<1>8. Good(ch, w, X, g)
  BY <1>4, <1>1, <1>6, <1>7 DEF Good
<1>9. Onto(u, w) /\ Set(w.o)
  BY <1>3, <1>4, <1>5 DEF Near, Onto, Set, Armed, Tidy, Lost, Link
<1> QED BY <1>4, <1>5, <1>8, <1>9 DEF w

(* The end of a client that had nothing on the screen.                       *)
Bare(o) == o.current = None /\ o.pending = None /\ o.closing = None
(* Finishing the drop of a client that left nothing keeps the books.        *)
LEMMA FinishBare ==
  ASSUME NEW ch \in ChannelType, NEW u \in UType, NEW q \in LinkType,
         NEW g \in Replied, Books(ch, u.s, q, {}, g), RoomOK(u.s),
         u.o.client = q.client, u.o.gone = "no" => q.gone = "no",
         u.o.client # 0 => Made(u.s, u.o.client),
         u.o.planeEnabled <=> u.o.plane # None, u.o.plane # None => u.o.plane = u.o.current,
         Bare(u.o), Set(u.o)
  PROVE  LET v == FinishDrop(u)
         IN  Good(ch, v, {}, g) /\ Onto(u, v) /\ Set(v.o) /\ Bare(v.o)
<1> DEFINE v == FinishDrop(u)
<1>1. {} \in SUBSET Frame
  OBVIOUS
<1>2. /\ Good(ch, v, {}, g) /\ v.o.client = 0 /\ ~v.o.dropping
      /\ Alike(u.o, v.o, {"client", "acks", "dropping", "closeAfterDisable"})
      /\ \A d \in Connections : /\ Accepted(u.s, d) => Accepted(v.s, d)
                                /\ v.s[d].web = u.s[d].web
  BY <1>1, FinishKeeps
<1> HIDE DEF v
<1>3. /\ v.o.gone = u.o.gone /\ v.o.reading = u.o.reading /\ v.o.batch = u.o.batch
      /\ v.o.current = u.o.current /\ v.o.pending = u.o.pending /\ v.o.closing = u.o.closing
      /\ v.o.disableRequested = u.o.disableRequested /\ v.o.retry = u.o.retry
  BY <1>2, AlikeAll
<1>4. Bare(v.o) /\ Set(v.o)
  BY <1>3 DEF Bare, Set, Armed
<1>5. Onto(u, v)
  BY <1>2, <1>3, <1>4 DEF Near, Onto, Tidy, Lost, Link, Bare
<1> QED BY <1>2, <1>4, <1>5 DEF v

FinishOf(v) == IF v.o.closeAfterDisable THEN FinishDrop(v) ELSE v
DownOf(v) == [v EXCEPT !.o = [v.o EXCEPT !.disableRequested = FALSE, !.expired = FALSE,
                                         !.geometryPending = FALSE]]
Owing(v) == IF v.o.closing = None THEN {v} ELSE SendReply(v, v.o.closing)

DrainEnds(e, d) ==
  \/ d.ok /\ e.ok /\ \E w \in Owing(DownOf(d.u)) : e.u = FinishOf([w EXCEPT !.o.closing = None])
  \/ ~d.ok /\ ~e.ok /\ e.u = [d.u EXCEPT !.o = PutOff(d.u.o)]

(* The drain that disables: release, take down, then end one of two ways.   *)
LEMMA DrainDisableCases ==
  ASSUME NEW u, NEW e \in DrainDisable(u)
  PROVE  \E v \in SendRelease(u, u.o.pending) : \E d \in Disable([v EXCEPT !.o.pending = None]) :
           DrainEnds(e, d)
<1> DEFINE Ends(d) ==
             IF d.ok
               THEN {[u |-> w, ok |-> TRUE] :
                       w \in {FinishOf([x EXCEPT !.o.closing = None]) : x \in Owing(DownOf(d.u))}}
               ELSE {[u |-> [d.u EXCEPT !.o = PutOff(d.u.o)], ok |-> FALSE]}
<1>1. DrainDisable(u) =
        UNION {UNION {Ends(d) : d \in Disable(v)} :
                 v \in {[v EXCEPT !.o.pending = None] : v \in SendRelease(u, u.o.pending)}}
  BY Zenon DEF DrainDisable, FinishOf, DownOf, Owing
<1> HIDE DEF Ends
<1>2. PICK v1 \in {[v EXCEPT !.o.pending = None] : v \in SendRelease(u, u.o.pending)} :
        e \in UNION {Ends(d) : d \in Disable(v1)}
  BY <1>1
<1>5. PICK v \in SendRelease(u, u.o.pending) : v1 = [v EXCEPT !.o.pending = None]
  BY <1>2
<1>6. PICK d \in Disable([v EXCEPT !.o.pending = None]) : e \in Ends(d)
  <2>1. \E d \in Disable(v1) : e \in Ends(d)
    BY <1>2
  <2> QED BY <1>5, <2>1
<1>3. CASE d.ok
  <2>1. PICK z \in {FinishOf([x EXCEPT !.o.closing = None]) : x \in Owing(DownOf(d.u))} :
          e = [u |-> z, ok |-> TRUE]
    BY Zenon, <1>6, <1>3 DEF Ends
  <2>2. PICK x \in Owing(DownOf(d.u)) : z = FinishOf([x EXCEPT !.o.closing = None])
    BY Zenon, <2>1
  <2>3. e.ok /\ e.u = z
    BY <2>1
  <2> QED BY Zenon, <1>3, <1>6, <2>2, <2>3 DEF DrainEnds
<1>4. CASE ~d.ok
  <2>1. e = [u |-> [d.u EXCEPT !.o = PutOff(d.u.o)], ok |-> FALSE]
    BY <1>6, <1>4 DEF Ends
  <2>2. ~e.ok /\ e.u = [d.u EXCEPT !.o = PutOff(d.u.o)]
    BY <2>1
  <2> QED BY Zenon, <1>4, <1>6, <2>2 DEF DrainEnds
<1> QED BY Zenon, <1>3, <1>4, <1>6

(* Clearing the request to disable leaves the rest.                         *)
LEMMA DownKeeps ==
  ASSUME NEW u \in UType
  PROVE  LET w == DownOf(u)
         IN  /\ w \in UType /\ w.s = u.s
             /\ Alike(u.o, w.o, {"disableRequested", "expired", "geometryPending"})
             /\ w.o.disableRequested = FALSE
<1> DEFINE p == [u.o EXCEPT !.disableRequested = FALSE, !.expired = FALSE,
                            !.geometryPending = FALSE]
           w == DownOf(u)
<1>1. /\ p \in OverlayType /\ Alike(u.o, p, {"disableRequested", "expired", "geometryPending"})
      /\ p.disableRequested = FALSE
  BY Zenon, UTyped, Downs
<1>2. w = [u EXCEPT !.o = p]
  BY DEF DownOf
<1> HIDE DEF p, w
<1>3. w \in UType /\ w.o = p /\ w.s = u.s
  BY <1>1, <1>2, Updated
<1> QED BY <1>1, <1>3 DEF w

(* A client that is being dropped gets no confirmation.                      *)
LEMMA ConfirmLost ==
  ASSUME NEW ch \in ChannelType, NEW x, NEW h \in Replied,
         Good(ch, x, {}, Debt(x.o, h)), h = None \/ x.o.closing = None,
         x.o.current = None, x.o.pending = None, x.o.dropping = TRUE,
         NEW w \in Owing(DownOf(x)), NEW z, z = FinishOf([w EXCEPT !.o.closing = None])
  PROVE  Good(ch, z, {}, h) /\ Onto(x, z) /\ Set(z.o) /\ Bare(z.o)
<1> DEFINE y == DownOf(x)
<1>1. /\ x \in UType /\ x.o \in OverlayType /\ x.s \in SocketsType /\ Link(x.o) \in LinkType
      /\ Calm(x.o) /\ WriterOK(x.s, x.o) /\ RoomOK(x.s)
  BY UTyped DEF Good
<1>2. /\ y \in UType /\ y.s = x.s /\ y.o.disableRequested = FALSE
      /\ Alike(x.o, y.o, {"disableRequested", "expired", "geometryPending"})
  BY Zenon, <1>1, DownKeeps
<1> HIDE DEF y
<1>3. /\ y.o.client = x.o.client /\ y.o.acks = x.o.acks /\ y.o.dropping = x.o.dropping
      /\ y.o.closeAfterDisable = x.o.closeAfterDisable /\ y.o.gone = x.o.gone
      /\ y.o.plane = x.o.plane /\ y.o.planeEnabled = x.o.planeEnabled
      /\ y.o.current = x.o.current /\ y.o.pending = x.o.pending /\ y.o.closing = x.o.closing
      /\ y.o.reading = x.o.reading /\ y.o.batch = x.o.batch
  <2>3. Alike(x.o, y.o, {"disableRequested", "expired", "geometryPending"})
    BY <1>2
  <2>1. y.o.client = x.o.client /\ y.o.acks = x.o.acks /\ y.o.gone = x.o.gone
    BY <2>3, AlikeAll
  <2>5. y.o.dropping = x.o.dropping
    BY <2>3, AlikeAll
  <2>6. y.o.closeAfterDisable = x.o.closeAfterDisable
    BY <2>3, AlikeAll
  <2>4. y.o.plane = x.o.plane /\ y.o.planeEnabled = x.o.planeEnabled
    BY <2>3, AlikeAll
  <2>2. /\ y.o.current = x.o.current /\ y.o.pending = x.o.pending /\ y.o.closing = x.o.closing
        /\ y.o.reading = x.o.reading /\ y.o.batch = x.o.batch
    BY <1>2, AlikeAll
  <2> QED BY <2>1, <2>2, <2>4, <2>5, <2>6
<1>4. w = y
  <2>1. w \in IF y.o.closing = None THEN {y} ELSE SendReply(y, y.o.closing)
    BY DEF y, Owing
  <2>2. SendReply(y, y.o.closing) = {y}
    BY <1>3 DEF SendReply
  <2> QED BY <2>1, <2>2
<1> DEFINE p == [y.o EXCEPT !.closing = None]
           y2 == [w EXCEPT !.o.closing = None]
<1>5. p \in OverlayType /\ Alike(y.o, p, {"closing"}) /\ p.closing = None
  BY <1>2, UTyped, Confirms
<1>6. y2 = [y EXCEPT !.o = p]
  BY <1>4
<1> HIDE DEF p, y2
<1>7. y2 \in UType /\ y2.o = p /\ y2.s = x.s
  BY <1>2, <1>5, <1>6, Updated
<1>8. /\ p.client = x.o.client /\ p.closeAfterDisable = x.o.dropping /\ p.gone = x.o.gone
      /\ p.plane = x.o.plane /\ p.planeEnabled = x.o.planeEnabled
      /\ p.current = None /\ p.pending = None /\ p.disableRequested = FALSE
      /\ p.reading = x.o.reading /\ p.batch = x.o.batch /\ p.dropping = x.o.dropping
  <2>1. /\ p.client = y.o.client /\ p.closeAfterDisable = y.o.closeAfterDisable
        /\ p.gone = y.o.gone /\ p.plane = y.o.plane /\ p.planeEnabled = y.o.planeEnabled
        /\ p.dropping = y.o.dropping
    BY <1>5, AlikeAll
  <2>2. /\ p.current = y.o.current /\ p.pending = y.o.pending /\ p.reading = y.o.reading
        /\ p.batch = y.o.batch /\ p.disableRequested = y.o.disableRequested
    BY <1>5, AlikeAll
  <2>3. x.o.closeAfterDisable = x.o.dropping
    BY <1>1 DEF Calm, OverlayType
  <2> QED BY <1>2, <1>3, <2>1, <2>2, <2>3
<1>9. z = FinishDrop(y2)
  <2>1. y2.o.closeAfterDisable
    BY <1>7, <1>8
  <2> QED BY <2>1 DEF FinishOf, y2
<1>10. Books(ch, x.s, Link(x.o), {}, h)
  <2>1. Lost(Link(x.o))
    BY DEF Lost, Link
  <2>2. Debt(x.o, h) \in Replied
    BY <1>1 DEF Debt, OverlayType, Replied
  <2>3. h \in {Debt(x.o, h), None} /\ {} \in SUBSET Frame /\ {} \in SUBSET ({})
    BY DEF Debt
  <2>4. Good(ch, x, {}, h)
    BY <2>1, <2>2, <2>3, LostGood
  <2> QED BY <2>4 DEF Good
<1>11. Bare(y2.o) /\ Set(y2.o)
  BY <1>5, <1>7, <1>8 DEF Bare, Set, Armed
<1>12. Onto(x, y2)
  BY <1>5, <1>7, <1>8, <1>11 DEF Near, Onto, Tidy, Lost, Link, Bare
<1>13. Good(ch, z, {}, h) /\ Onto(y2, z) /\ Set(z.o) /\ Bare(z.o)
  <2>1. /\ Books(ch, y2.s, Link(x.o), {}, h) /\ RoomOK(y2.s) /\ y2.o.client = Link(x.o).client
        /\ y2.o.gone = "no" => Link(x.o).gone = "no"
        /\ y2.o.client # 0 => Made(y2.s, y2.o.client)
        /\ y2.o.planeEnabled <=> y2.o.plane # None
        /\ y2.o.plane # None => y2.o.plane = y2.o.current
    BY <1>1, <1>7, <1>8, <1>10 DEF Link, WriterOK, Calm
  <2>2. LET v == FinishDrop(y2)
        IN  Good(ch, v, {}, h) /\ Onto(y2, v) /\ Set(v.o) /\ Bare(v.o)
    BY <1>1, <1>7, <1>11, <2>1, FinishBare
  <2> QED BY <1>9, <2>2
<1> QED BY <1>12, <1>13, OntoTrans

(* A client that is served gets the confirmation it is owed, unless that     *)
(* loses it.                                                                 *)
LEMMA ConfirmSaid ==
  ASSUME NEW ch \in ChannelType, NEW x, NEW h \in Replied,
         Good(ch, x, {}, Debt(x.o, h)), h = None \/ x.o.closing = None,
         x.o.current = None, x.o.pending = None, x.o.dropping = FALSE,
         NEW w \in Owing(DownOf(x)), NEW z, z = FinishOf([w EXCEPT !.o.closing = None])
  PROVE  Good(ch, z, {}, h) /\ Onto(x, z) /\ Set(z.o) /\ Bare(z.o)
<1> DEFINE y == DownOf(x)
           y2 == [w EXCEPT !.o.closing = None]
<1>0. {} \in SUBSET Frame /\ h \in Replied
  OBVIOUS
<1>1. x \in UType /\ x.o \in OverlayType /\ Calm(x.o)
  BY UTyped DEF Good
<1>2. /\ y \in UType /\ y.s = x.s /\ y.o.disableRequested = FALSE
      /\ Alike(x.o, y.o, {"disableRequested", "expired", "geometryPending"})
  BY Zenon, <1>1, DownKeeps
<1> HIDE DEF y
<1>3. /\ y.o.client = x.o.client /\ y.o.gone = x.o.gone
      /\ y.o.current = None /\ y.o.pending = None /\ y.o.closing = x.o.closing
      /\ y.o.reading = x.o.reading /\ y.o.batch = x.o.batch
  BY <1>2, AlikeAll
<1>4. /\ y.o.closeAfterDisable = x.o.closeAfterDisable /\ y.o.dropping = x.o.dropping
      /\ y.o.plane = x.o.plane /\ y.o.planeEnabled = x.o.planeEnabled
  BY <1>2, AlikeAll
<1>5. Calm(y.o)
  BY <1>1, <1>2, <1>3, <1>4 DEF Calm
<1>6. Good(ch, y, {}, Debt(x.o, h))
  <2>1. {"disableRequested", "expired", "geometryPending"} \in SUBSET Unbooked
    BY DEF Unbooked, Fields
  <2> QED BY <1>2, <1>5, <2>1, ReGood
<1>7. Near(x, y) /\ Set(y.o)
  BY <1>2, <1>3, <1>4 DEF Near, Onto, Tidy, Lost, Link, Set, Armed
<1>8. Good(ch, w, {}, h) /\ Onto(y, w) /\ Set(w.o) /\ w.o.current = None /\ w.o.pending = None
  <2>1. CASE y.o.closing = None
    <3>1. w = y
      BY <2>1 DEF Owing, y
    <3>2. Debt(x.o, h) = h
      BY <1>3, <2>1 DEF Debt
    <3> QED BY <1>3, <1>6, <1>7, <3>1, <3>2, OnwardSame, Onwards
  <2>2. CASE y.o.closing # None
    <3> DEFINE r == y.o.closing
    <3>1. w \in SendReply(y, r)
      BY <2>2 DEF Owing, y
    <3>2. r \in Reply /\ h = None /\ Debt(x.o, h) = r
      BY <1>1, <1>3, <2>2 DEF OverlayType, Debt
    <3> HIDE DEF r
    <3>3. Went(ch, y, w, {}, None)
      BY <1>0, <1>6, <3>1, <3>2, ConfirmKeeps
    <3>4. Good(ch, w, {}, h) /\ Onward(y, w)
      BY <3>2, <3>3 DEF Went
    <3>5. Onto(y, w) /\ Set(w.o)
      BY <1>7, <3>4, Onwards DEF Onward
    <3> QED BY <1>3, <3>4, <3>5 DEF Onward
  <2> QED BY <2>1, <2>2
<1>9. /\ Good(ch, y2, {}, h) /\ Onto(w, y2) /\ Set(y2.o) /\ Alike(w.o, y2.o, {"closing"})
      /\ y2.o.closing = None /\ y2.s = w.s
  BY <1>8, ClearsClosing
<1>10. z = IF y2.o.closeAfterDisable THEN FinishDrop(y2) ELSE y2
  BY DEF FinishOf
<1> HIDE DEF y2
<1>11. Bare(y2.o)
  <2>1. y2.o.current = w.o.current /\ y2.o.pending = w.o.pending
    BY <1>9, AlikeAll
  <2> QED BY <1>8, <1>9, <2>1 DEF Bare
<1>12. Good(ch, z, {}, h) /\ Onto(y2, z) /\ Set(z.o) /\ Bare(z.o)
  <2>1. CASE y2.o.closeAfterDisable
    <3>1. /\ y2 \in UType /\ Link(y2.o) \in LinkType
          /\ Books(ch, y2.s, Link(y2.o), {}, h) /\ RoomOK(y2.s) /\ y2.o.client = Link(y2.o).client
          /\ y2.o.gone = "no" => Link(y2.o).gone = "no"
          /\ y2.o.client # 0 => Made(y2.s, y2.o.client)
          /\ y2.o.planeEnabled <=> y2.o.plane # None
          /\ y2.o.plane # None => y2.o.plane = y2.o.current
      BY <1>9, UTyped DEF Link, WriterOK, Calm, Good
    <3>2. LET v == FinishDrop(y2)
          IN  Good(ch, v, {}, h) /\ Onto(y2, v) /\ Set(v.o) /\ Bare(v.o)
      BY <1>9, <1>11, <3>1, FinishBare
    <3> QED BY <1>10, <2>1, <3>2
  <2>2. CASE ~y2.o.closeAfterDisable
    BY <1>9, <1>10, <1>11, <2>2, OnwardSame, Onwards
  <2> QED BY <2>1, <2>2
<1>13. Near(x, z)
  BY <1>7, <1>8, <1>9, <1>12, NearTrans DEF Onto
<1>14. Tidy(z.o)
  BY <1>12 DEF Tidy, Bare
<1> QED BY <1>12, <1>13, <1>14 DEF Onto

(* The pending frame is released, never shown.                               *)
LEMMA ReleasesPending ==
  ASSUME NEW ch \in ChannelType, NEW u, NEW h \in Replied, ChannelOK(ch), Fit(ch, u, h),
         NEW v \in SendRelease(u, u.o.pending), NEW v1, v1 = [v EXCEPT !.o.pending = None]
  PROVE  /\ Fit(ch, v1, h) /\ Onto(u, v1) /\ v1.o.pending = None
         /\ (Steady(u.o) => Set(v1.o))
<1> DEFINE g == Debt(u.o, h)
           X == Pair(u.o)
           Y == {u.o.current} \ {None}
<1>1. /\ u \in UType /\ u.o \in OverlayType /\ Good(ch, u, X, g)
      /\ Below(ch, u.o.current, u.o.pending) /\ (h = None \/ u.o.closing = None)
  BY UTyped DEF Fit, Good
<1>2. /\ u.o.current \in Frame \cup {None} /\ u.o.pending \in Frame \cup {None}
      /\ u.o.closing \in Replied /\ g \in Replied
  BY <1>1 DEF OverlayType, Replied, Debt
<1>3. /\ X \in SUBSET Frame /\ u.o.pending \in X \cup {None} /\ Y \in SUBSET X
      /\ X \ {u.o.pending} \subseteq Y
  BY <1>2 DEF Pair
<1>4. u.o.pending \in Y => ~(u.o.pending.conn > ch.born)
  <2> SUFFICES ASSUME u.o.pending \in Y, u.o.pending.conn > ch.born PROVE FALSE
    OBVIOUS
  <2>1. u.o.pending = u.o.current /\ u.o.pending # None /\ u.o.pending \in Frame
    BY <1>2
  <2>2. u.o.pending.sequence < u.o.pending.sequence
    BY <1>1, <2>1 DEF Below
  <2> QED BY <2>1, <2>2, FrameNumbers
<1> HIDE DEF g, X, Y
<1>6. Went(ch, u, v, Y, g)
  BY <1>1, <1>2, <1>3, <1>4, ReleaseHeld
<1>7. /\ Good(ch, v1, Y, g) /\ Onto(v, v1) /\ Alike(v.o, v1.o, {"pending"})
      /\ v1.o.pending = None /\ (Steady(v.o) => Set(v1.o))
  BY <1>6, ClearsPending DEF Went
<1>8. /\ Onward(u, v) /\ Onto(u, v) /\ Onto(u, v1)
  BY <1>6, <1>7, Onwards, OntoTrans DEF Went
<1>10. v1.o.current = v.o.current /\ v1.o.closing = v.o.closing
       /\ (Lost(Link(v.o)) => Lost(Link(v1.o)))
  BY <1>7, AlikeAll DEF Near, Onto
<1> DEFINE Z == {v1.o.current} \ {None}
<1>11. Good(ch, v1, Z, g)
  <2>1. CASE v1.o.current = u.o.current
    BY Zenon, <1>7, <2>1 DEF Y
  <2>2. CASE v1.o.current # u.o.current
    <3>1. v1.o.current = None /\ Lost(Link(v1.o))
      BY <1>8, <1>10, <2>2, OnwardClosing DEF Onward
    <3>2. Z \in SUBSET Y /\ Y \in SUBSET Frame
      BY <1>3, <3>1
    <3>3. g \in {g, None}
      OBVIOUS
    <3> HIDE DEF Z
    <3> QED BY Zenon, <1>2, <1>7, <3>1, <3>2, <3>3, LostGood
  <2> QED BY <2>1, <2>2
<1>12. /\ Good(ch, v1, Z, Debt(v1.o, h)) /\ (h = None \/ v1.o.closing = None)
  <2>1. v1.o.closing \in {u.o.closing, None} /\ (v1.o.closing = u.o.closing \/ Lost(Link(v1.o)))
    BY <1>8, <1>10, OnwardClosing DEF Onward
  <2>2. Z \in SUBSET Frame
    BY <1>3, <1>8, <1>2, <1>10 DEF Onward
  <2>3. Good(ch, v1, Z, Debt(u.o, h))
    BY <1>11 DEF g
  <2> HIDE DEF Z
  <2> QED BY Zenon, <1>1, <2>1, <2>2, <2>3, Rebate
<1>13. Pair(v1.o) = Z /\ Below(ch, v1.o.current, v1.o.pending)
  BY <1>7 DEF Pair, Below
<1>14. Steady(u.o) => Set(v1.o)
  BY <1>7, <1>8 DEF Onward
<1> QED BY <1>7, <1>8, <1>12, <1>13, <1>14 DEF Fit

(* The first part of videoOverlayDrainPending.                               *)
LEMMA DrainDisableKeeps ==
  ASSUME NEW ch \in ChannelType, NEW u, NEW h \in Replied, ChannelOK(ch), Fit(ch, u, h),
         NEW e \in DrainDisable(u)
  PROVE  Fit(ch, e.u, h) /\ Onto(u, e.u) /\ Set(e.u.o)
<1>50. PICK v \in SendRelease(u, u.o.pending) : \E d \in Disable([v EXCEPT !.o.pending = None]) :
        DrainEnds(e, d)
  BY Zenon, DrainDisableCases
<1>5. PICK d \in Disable([v EXCEPT !.o.pending = None]) :
        \/ d.ok /\ \E w \in Owing(DownOf(d.u)) : e.u = FinishOf([w EXCEPT !.o.closing = None])
        \/ ~d.ok /\ e.u = [d.u EXCEPT !.o = PutOff(d.u.o)]
  BY Zenon, <1>50 DEF DrainEnds
<1> DEFINE v1 == [v EXCEPT !.o.pending = None]
           Z == {v1.o.current} \ {None}
<1>9. d \in Disable(v1)
  OBVIOUS
<1>7. Fit(ch, v1, h) /\ Onto(u, v1) /\ v1.o.pending = None
  BY Zenon, ReleasesPending
<1> HIDE DEF v1
<1>12. /\ Good(ch, v1, Z, Debt(v1.o, h)) /\ (h = None \/ v1.o.closing = None)
       /\ Z \in SUBSET Frame /\ v1 \in UType
  <2>1. Pair(v1.o) = Z
    BY <1>7 DEF Pair
  <2>2. Good(ch, v1, Z, Debt(v1.o, h)) /\ (h = None \/ v1.o.closing = None)
    BY <1>7, <2>1 DEF Fit
  <2>3. v1 \in UType
    BY <2>2 DEF Good
  <2> QED BY <2>2, <2>3, UTyped DEF OverlayType
<1>13. Debt(v1.o, h) \in Replied
  BY <1>12, UTyped DEF Debt, OverlayType, Replied
<1>14. /\ ~d.ok => d.u = v1
       /\ d.ok => /\ Good(ch, d.u, {}, Debt(v1.o, h)) /\ Onto(v1, d.u) /\ d.u.o.current = None
                  /\ d.u.o.closing = v1.o.closing \/ Lost(Link(d.u.o))
  <2> DEFINE N == {}
  <2>1. /\ v1.o.current \in Z \cup {None} /\ N \in SUBSET Z /\ Z \ {v1.o.current} \subseteq N
        /\ (v1.o.current \in N => ~(v1.o.current.conn > ch.born))
    OBVIOUS
  <2> HIDE DEF Z, N
  <2>2. /\ ~d.ok => d.u = v1
        /\ d.ok => /\ Good(ch, d.u, N, Debt(v1.o, h)) /\ Onto(v1, d.u) /\ d.u.o.current = None
                   /\ d.u.o.closing = v1.o.closing \/ Lost(Link(d.u.o))
    BY <1>9, <1>12, <1>13, <2>1, DisableKeeps
  <2> QED BY <2>2 DEF N
<1>15. CASE ~d.ok
  <2>1. e.u = [v1 EXCEPT !.o = PutOff(v1.o)]
    BY <1>5, <1>14, <1>15
  <2> HIDE DEF Z
  <2>2. LET w == [v1 EXCEPT !.o = PutOff(v1.o)]
        IN  /\ Good(ch, w, Z, Debt(v1.o, h)) /\ Onto(v1, w) /\ Set(w.o)
            /\ w.o.current = v1.o.current /\ w.o.pending = v1.o.pending
            /\ w.o.closing = v1.o.closing
    BY <1>12, <1>13, PutOffKeeps
  <2>3. /\ Good(ch, e.u, Z, Debt(v1.o, h)) /\ Onto(v1, e.u) /\ Set(e.u.o)
        /\ e.u.o.current = v1.o.current /\ e.u.o.pending = None
        /\ e.u.o.closing = v1.o.closing
    BY <1>7, <2>1, <2>2
  <2>4. Pair(e.u.o) = Z /\ Debt(e.u.o, h) = Debt(v1.o, h) /\ Below(ch, e.u.o.current, e.u.o.pending)
    BY <2>3 DEF Pair, Debt, Below, Z
  <2> QED BY <1>7, <1>12, <2>3, <2>4, OntoTrans DEF Fit
<1>16. CASE d.ok
  <2> DEFINE x == d.u
  <2>1. PICK w \in Owing(DownOf(x)) : e.u = FinishOf([w EXCEPT !.o.closing = None])
    BY Zenon, <1>5, <1>16
  <2> HIDE DEF x
  <2>2. /\ Good(ch, x, {}, Debt(v1.o, h)) /\ Onto(v1, x) /\ x.o.current = None
        /\ x.o.pending = None /\ x.o.closing \in {v1.o.closing, None}
        /\ x.o.closing = v1.o.closing \/ Lost(Link(x.o))
    BY <1>7, <1>14, <1>16 DEF x, Near, Onto
  <2>3. {} \in SUBSET Frame
    OBVIOUS
  <2>4. Good(ch, x, {}, Debt(x.o, h)) /\ (h = None \/ x.o.closing = None)
    BY <1>12, <2>2, <2>3, Rebate
  <2>5. x.o.dropping \in BOOLEAN
    BY <2>4, UTyped DEF Good, OverlayType
  <2>6. Good(ch, e.u, {}, h) /\ Onto(x, e.u) /\ Set(e.u.o) /\ Bare(e.u.o)
    BY Zenon, <2>1, <2>2, <2>4, <2>5, ConfirmLost, ConfirmSaid
  <2>7. Onto(u, e.u)
    BY <1>7, <2>2, <2>6, OntoTrans
  <2>8. /\ Pair(e.u.o) = {} /\ Debt(e.u.o, h) = h /\ Below(ch, e.u.o.current, e.u.o.pending)
        /\ e.u.o.closing = None
    BY <2>6 DEF Bare, Pair, Debt, Below
  <2> QED BY <2>6, <2>7, <2>8 DEF Fit
<1> QED BY <1>15, <1>16

(* The frame that was pending is on the screen.                              *)
Settled(v) == [v EXCEPT !.o = [v.o EXCEPT !.geometryPending = FALSE, !.pending = None]]
Later(u) == [u EXCEPT !.o.retry = TRUE]

(* A drain that is done keeps the books.                                    *)
LEMMA SettlesKeeps ==
  ASSUME NEW ch, NEW v, NEW X, NEW g, Good(ch, v, X, g)
  PROVE  LET w == Settled(v)
         IN  /\ Good(ch, w, X, g) /\ Onto(v, w) /\ (Steady(v.o) => Set(w.o))
             /\ w.o.current = v.o.current /\ w.o.closing = v.o.closing /\ w.o.pending = None
<1> DEFINE p == [v.o EXCEPT !.geometryPending = FALSE, !.pending = None]
           w == Settled(v)
<1>1. p \in OverlayType /\ Alike(v.o, p, {"geometryPending", "pending"}) /\ p.pending = None
  BY Zenon, UTyped, Settles DEF Good
<1>2. w = [v EXCEPT !.o = p]
  BY DEF Settled
<1>3. {"geometryPending", "pending"} \in SUBSET Loose
  BY DEF Loose
<1> HIDE DEF p, w
<1>4. w.o = p /\ w.s = v.s /\ Good(ch, w, X, g)
  BY <1>1, <1>2, <1>3, LooseKeeps
<1>5. /\ p.client = v.o.client /\ p.dropping = v.o.dropping /\ p.gone = v.o.gone
      /\ p.reading = v.o.reading /\ p.batch = v.o.batch /\ p.current = v.o.current
      /\ p.closing = v.o.closing /\ p.disableRequested = v.o.disableRequested
      /\ p.retry = v.o.retry
  BY <1>1, AlikeAll
<1>6. Onto(v, w) /\ (Steady(v.o) => Set(w.o))
  BY <1>1, <1>4, <1>5 DEF Near, Onto, Tidy, Lost, Link, Steady, Set, Armed
<1> QED BY <1>1, <1>4, <1>5, <1>6 DEF w

(* Arming the timer for later keeps them.                                   *)
LEMMA LaterKeeps ==
  ASSUME NEW ch, NEW u, NEW h, Fit(ch, u, h)
  PROVE  Fit(ch, Later(u), h) /\ Onto(u, Later(u)) /\ Set(Later(u).o)
<1> DEFINE p == [u.o EXCEPT !.retry = TRUE]
           w == Later(u)
<1>1. p \in OverlayType /\ Alike(u.o, p, {"retry"}) /\ p.retry = TRUE
  BY UTyped, Retries DEF Good, Fit
<1>2. w = [u EXCEPT !.o = p]
  BY DEF Later
<1>3. {"retry"} \in SUBSET Loose
  BY DEF Loose
<1> HIDE DEF p, w
<1>4. w.o = p /\ w.s = u.s /\ Good(ch, w, Pair(u.o), Debt(u.o, h))
  BY <1>1, <1>2, <1>3, LooseKeeps DEF Fit
<1>5. /\ p.client = u.o.client /\ p.dropping = u.o.dropping /\ p.gone = u.o.gone
      /\ p.reading = u.o.reading /\ p.batch = u.o.batch /\ p.current = u.o.current
      /\ p.closing = u.o.closing /\ p.disableRequested = u.o.disableRequested
      /\ p.pending = u.o.pending
  BY <1>1, AlikeAll
<1>6. Onto(u, w) /\ Set(w.o)
  BY <1>1, <1>4, <1>5 DEF Near, Onto, Tidy, Lost, Link, Set, Armed
<1>7. Pair(p) = Pair(u.o) /\ Debt(p, h) = Debt(u.o, h)
  BY <1>5 DEF Pair, Debt
<1>8. Fit(ch, w, h)
  BY <1>4, <1>5, <1>7 DEF Fit
<1> QED BY <1>6, <1>8 DEF w

(* videoOverlayHandleFrame, when it works.                                   *)
HandleDone(u, v) ==
  \E k \in Commit(u.o, u.o.pending, u.o.pending.rect) :
    /\ k.ok
    /\ v \in SendRelease([u EXCEPT !.o = [k.o EXCEPT !.current = u.o.pending,
                                                     !.lastRect = u.o.pending.rect]], u.o.current)

(* Handling a frame fails or shows it.                                      *)
LEMMA HandleCases ==
  ASSUME NEW u, NEW h \in HandleFrame(u)
  PROVE  ~h.ok \/ HandleDone(u, h.u)
<1> DEFINE f == u.o.pending
           Ends(k) == IF k.ok
                        THEN {[u |-> v, ok |-> TRUE, again |-> FALSE] :
                                v \in SendRelease([u EXCEPT !.o = [k.o EXCEPT !.current = f,
                                                                     !.lastRect = f.rect]],
                                                  u.o.current)}
                        ELSE {[u |-> u, ok |-> FALSE, again |-> k.again]}
           I == IF u.o.busy THEN {} ELSE {[u |-> u, ok |-> FALSE, again |-> FALSE]}
<1>1. HandleFrame(u) = I \cup UNION {Ends(k) : k \in Commit(u.o, f, f.rect)}
  BY Zenon DEF HandleFrame
<1> HIDE DEF I, Ends
<1>2. CASE h \in I
  BY <1>2 DEF I
<1>3. CASE h \in UNION {Ends(k) : k \in Commit(u.o, f, f.rect)}
  <2>1. PICK k \in Commit(u.o, f, f.rect) : h \in Ends(k)
    BY <1>3
  <2>2. CASE ~k.ok
    BY <2>1, <2>2 DEF Ends
  <2>3. CASE k.ok
    <3>1. PICK v \in SendRelease([u EXCEPT !.o = [k.o EXCEPT !.current = f, !.lastRect = f.rect]],
                                 u.o.current) : h = [u |-> v, ok |-> TRUE, again |-> FALSE]
      BY <2>1, <2>3 DEF Ends
    <3>2. h.u = v
      BY <3>1
    <3> QED BY Zenon, <2>1, <2>3, <3>1, <3>2 DEF HandleDone
  <2> QED BY <2>2, <2>3
<1> QED BY <1>1, <1>2, <1>3

(* Showing the pending frame and releasing the one before keeps the books.  *)
LEMMA HandleKeeps ==
  ASSUME NEW ch \in ChannelType, NEW u, NEW h \in Replied, ChannelOK(ch), Fit(ch, u, h),
         u.o.pending # None, NEW v, HandleDone(u, v), NEW z, z = Settled(v)
  PROVE  Fit(ch, z, h) /\ Onto(u, z) /\ (Steady(u.o) => Set(z.o)) /\ z.o.pending = None
<1> DEFINE f == u.o.pending
           g == Debt(u.o, h)
           X == Pair(u.o)
           Y == {f}
<1>1. /\ u \in UType /\ u.o \in OverlayType /\ Good(ch, u, X, g) /\ Calm(u.o)
      /\ Below(ch, u.o.current, f) /\ (h = None \/ u.o.closing = None)
  BY UTyped DEF Fit, Good
<1>2. /\ u.o.current \in Frame \cup {None} /\ f \in Frame /\ f # None /\ f.rect \in Rects
      /\ u.o.closing \in Replied /\ g \in Replied
  <2>1. u.o.current \in Frame \cup {None} /\ f \in Frame /\ u.o.closing \in Replied
    BY <1>1 DEF OverlayType, Replied
  <2> QED BY <2>1, FrameNumbers DEF Debt, Replied
<1>3. /\ X \in SUBSET Frame /\ u.o.current \in X \cup {None} /\ Y \in SUBSET X
      /\ X \ {u.o.current} \subseteq Y
  BY <1>2 DEF Pair
<1>4. u.o.current \in Y => ~(u.o.current.conn > ch.born)
  <2> SUFFICES ASSUME u.o.current = f, f.conn > ch.born PROVE FALSE
    OBVIOUS
  <2>1. f.sequence < f.sequence
    BY <1>1, <1>2 DEF Below
  <2> QED BY <2>1, <1>2, FrameNumbers
<1>5. PICK k \in Commit(u.o, f, f.rect) :
        /\ k.ok
        /\ v \in SendRelease([u EXCEPT !.o = [k.o EXCEPT !.current = f, !.lastRect = f.rect]],
                             u.o.current)
  BY Zenon DEF HandleDone
<1> DEFINE p == [k.o EXCEPT !.current = f, !.lastRect = f.rect]
           w == [u EXCEPT !.o = p]
<1>6. /\ k.o \in OverlayType /\ Alike(u.o, k.o, {"planeEnabled", "plane"})
      /\ k.o.planeEnabled <=> k.o.plane # None
      /\ k.o.plane \in {f, None}
  BY <1>1, <1>2, <1>5, CommitKeeps DEF Calm
<1>7. p \in OverlayType /\ Alike(k.o, p, {"current", "lastRect"}) /\ p.current = f
  BY Zenon, <1>2, <1>6, Shows
<1>8. v \in SendRelease(w, u.o.current)
  BY <1>5
<1> HIDE DEF p, f
<1> DEFINE F == {"planeEnabled", "plane", "current", "lastRect"}
<1>9. Alike(u.o, p, F)
  <2>1. {"planeEnabled", "plane"} \subseteq F /\ {"current", "lastRect"} \subseteq F
    OBVIOUS
  <2>2. Alike(u.o, k.o, F) /\ Alike(k.o, p, F)
    BY <1>6, <1>7, <2>1, AlikeMore
  <2> QED BY <2>2, AlikeTrans
<1>10. w \in UType /\ w.o = p /\ w.s = u.s
  BY <1>1, <1>7, Updated
<1>11. /\ p.client = u.o.client /\ p.dropping = u.o.dropping /\ p.gone = u.o.gone
       /\ p.reading = u.o.reading /\ p.batch = u.o.batch /\ p.closing = u.o.closing
       /\ p.disableRequested = u.o.disableRequested /\ p.retry = u.o.retry
       /\ p.pending = f /\ p.closeAfterDisable = u.o.closeAfterDisable
  BY <1>9, AlikeAll DEF f
<1>12. p.plane = k.o.plane /\ p.planeEnabled = k.o.planeEnabled
  BY <1>7, AlikeAll
<1>13. Calm(p)
  BY <1>1, <1>6, <1>7, <1>11, <1>12 DEF Calm
<1> HIDE DEF w, g, X, Y
<1>14. Good(ch, w, X, g)
  <2>1. F \in SUBSET Unbooked
    BY DEF Unbooked, Fields
  <2> QED BY <1>1, <1>9, <1>10, <1>13, <2>1, ReGood
<1>15. Near(u, w) /\ (Steady(u.o) => Steady(w.o)) /\ (Tidy(u.o) => Tidy(w.o))
       /\ w.o.closing = u.o.closing
  <2>1. Near(u, w)
    BY <1>7, <1>10, <1>11 DEF Near, Lost, Link, f
  <2> QED BY <1>2, <1>10, <1>11, <2>1 DEF Steady, Tidy, f
<1>16. Went(ch, w, v, Y, g)
  BY <1>2, <1>3, <1>4, <1>8, <1>14, ReleaseHeld
<1>17. /\ Good(ch, z, Y, g) /\ Onto(v, z) /\ (Steady(v.o) => Set(z.o))
       /\ z.o.current = v.o.current /\ z.o.closing = v.o.closing /\ z.o.pending = None
  BY <1>16, SettlesKeeps DEF Went
<1>18. /\ Onward(w, v) /\ Onto(w, v) /\ Onto(u, z) /\ (Steady(u.o) => Set(z.o))
  <2>1. Onward(w, v) /\ Onto(w, v)
    BY <1>16, Onwards DEF Went
  <2>2. Near(u, z) /\ (Tidy(u.o) => Tidy(z.o))
    BY <1>15, <1>17, <2>1, NearTrans DEF Onto
  <2> QED BY <1>15, <1>17, <2>1, <2>2 DEF Onward, Onto
<1>19. z.o.closing \in {u.o.closing, None} /\ (z.o.closing = u.o.closing \/ Lost(Link(z.o)))
  BY <1>15, <1>17, <1>18, OnwardClosing DEF Onward, Onto, Near
<1>20. z.o.current = f \/ (z.o.current = None /\ Lost(Link(z.o)))
  BY <1>7, <1>10, <1>17, <1>18, OnwardClosing DEF Onward, Onto, Near
<1>21. /\ Good(ch, z, Y, Debt(z.o, h)) /\ (h = None \/ z.o.closing = None)
       /\ Y \in SUBSET Frame
  <2>1. Y \in SUBSET Frame /\ Good(ch, z, Y, Debt(u.o, h))
    BY <1>3, <1>17 DEF g
  <2> QED BY <1>1, <1>19, <2>1, Rebate
<1>22. Debt(z.o, h) \in Replied
  BY <1>21, UTyped DEF Debt, OverlayType, Replied, Good
<1>23. Good(ch, z, Pair(z.o), Debt(z.o, h))
  <2>1. CASE z.o.current = f
    <3>1. Pair(z.o) = Y
      BY <1>2, <1>17, <2>1 DEF Pair, Y
    <3> QED BY <1>21, <3>1
  <2>2. CASE z.o.current = None /\ Lost(Link(z.o))
    <3>1. Pair(z.o) = {} /\ Pair(z.o) \in SUBSET Y /\ Debt(z.o, h) \in {Debt(z.o, h), None}
      BY <1>17, <2>2 DEF Pair
    <3> QED BY <1>21, <1>22, <2>2, <3>1, LostGood
  <2> QED BY <1>20, <2>1, <2>2
<1>24. Below(ch, z.o.current, z.o.pending)
  BY <1>17 DEF Below
<1> QED BY <1>17, <1>18, <1>21, <1>23, <1>24 DEF Fit

(* The rectangle of the frame on the screen was applied.                     *)
Placed(u, k) == [u EXCEPT !.o = [k.o EXCEPT !.geometryPending = FALSE]]
Replaces(u, v) ==
  /\ u.o.current # None /\ u.o.pending = None
  /\ \E k \in Commit(u.o, u.o.current, u.o.lastRect) : k.ok /\ v = Placed(u, k)

(* What the drain that commits may end in.                                  *)
LEMMA DrainCommitCases ==
  ASSUME NEW u, u.o.busy \in BOOLEAN, NEW v \in DrainCommit(u)
  PROVE  \/ v = u /\ u.o.pending = None
         \/ v = Later(u)
         \/ u.o.pending # None /\ \E w : HandleDone(u, w) /\ v = Settled(w)
         \/ \E w \in SendRelease(u, u.o.pending) : v = [w EXCEPT !.o.pending = None]
         \/ Replaces(u, v)
<1>1. CASE u.o.busy
  <2>1. v = IF u.o.pending # None \/ u.o.geometryPending THEN Later(u) ELSE u
    BY <1>1 DEF DrainCommit, Later
  <2> QED BY <2>1
<1>2. CASE ~u.o.busy /\ u.o.pending # None
  <2> DEFINE Ends(h) == IF h.ok THEN {Settled(h.u)}
                        ELSE IF h.again THEN {Later(u)}
                        ELSE {[w EXCEPT !.o.pending = None] : w \in SendRelease(u, u.o.pending)}
  <2>1. DrainCommit(u) = UNION {Ends(h) : h \in HandleFrame(u)}
    BY Zenon, <1>2 DEF DrainCommit, Later, Settled
  <2> HIDE DEF Ends
  <2>2. PICK h \in HandleFrame(u) : v \in Ends(h)
    BY <2>1
  <2>3. CASE h.ok
    <3>1. v = Settled(h.u)
      BY <2>2, <2>3 DEF Ends
    <3> QED BY <1>2, <2>3, <3>1, HandleCases
  <2>4. CASE ~h.ok
    BY <2>2, <2>4 DEF Ends
  <2> QED BY <2>3, <2>4
<1>3. CASE ~u.o.busy /\ u.o.pending = None /\ u.o.geometryPending /\ u.o.current # None
  <2>1. v \in {IF k.ok THEN Placed(u, k) ELSE Later(u) : k \in Commit(u.o, u.o.current, u.o.lastRect)}
    BY <1>3 DEF DrainCommit, Later, Placed
  <2>2. PICK k \in Commit(u.o, u.o.current, u.o.lastRect) : v = IF k.ok THEN Placed(u, k) ELSE Later(u)
    BY <2>1
  <2> QED BY <1>3, <2>2 DEF Replaces
<1>4. CASE /\ ~u.o.busy /\ u.o.pending = None
           /\ ~(u.o.geometryPending /\ u.o.current # None)
  BY <1>4 DEF DrainCommit
<1> QED BY <1>1, <1>2, <1>3, <1>4

(* Showing the current frame at another rectangle keeps the books.          *)
LEMMA ReplacesKeeps ==
  ASSUME NEW ch, NEW u, NEW h, Fit(ch, u, h), NEW v, Replaces(u, v)
  PROVE  Fit(ch, v, h) /\ Onto(u, v) /\ (Steady(u.o) => Set(v.o))
<1> DEFINE f == u.o.current
<1>1. /\ u \in UType /\ u.o \in OverlayType /\ Good(ch, u, Pair(u.o), Debt(u.o, h)) /\ Calm(u.o)
      /\ f \in Frame /\ u.o.lastRect \in Rects
  BY UTyped DEF Fit, Good, OverlayType, Replaces
<1>2. PICK k \in Commit(u.o, f, u.o.lastRect) : k.ok /\ v = Placed(u, k)
  BY DEF Replaces
<1> HIDE DEF f
<1>3. /\ k.o \in OverlayType /\ Alike(u.o, k.o, {"planeEnabled", "plane"})
      /\ k.o.planeEnabled <=> k.o.plane # None
      /\ k.o.plane \in {f, None}
  BY <1>1, <1>2, CommitKeeps DEF Calm
<1> DEFINE p == [k.o EXCEPT !.geometryPending = FALSE]
           F == {"planeEnabled", "plane", "geometryPending"}
<1>4. p \in OverlayType /\ Alike(k.o, p, {"geometryPending"})
  BY Zenon, <1>3, Places
<1>5. v = [u EXCEPT !.o = p]
  BY <1>2 DEF Placed
<1> HIDE DEF p
<1>6. Alike(u.o, p, F)
  <2>1. {"planeEnabled", "plane"} \subseteq F /\ {"geometryPending"} \subseteq F
    OBVIOUS
  <2>2. Alike(u.o, k.o, F) /\ Alike(k.o, p, F)
    BY <1>3, <1>4, <2>1, AlikeMore
  <2> QED BY <2>2, AlikeTrans
<1>7. v \in UType /\ v.o = p /\ v.s = u.s
  BY <1>1, <1>4, <1>5, Updated
<1>8. /\ p.client = u.o.client /\ p.dropping = u.o.dropping /\ p.gone = u.o.gone
      /\ p.reading = u.o.reading /\ p.batch = u.o.batch /\ p.closing = u.o.closing
      /\ p.disableRequested = u.o.disableRequested /\ p.retry = u.o.retry
      /\ p.pending = u.o.pending /\ p.closeAfterDisable = u.o.closeAfterDisable
  BY <1>6, AlikeAll
<1>9. p.plane = k.o.plane /\ p.planeEnabled = k.o.planeEnabled /\ p.current = f
  <2>1. p.plane = k.o.plane /\ p.planeEnabled = k.o.planeEnabled
    BY <1>4, AlikeAll
  <2>2. p.current = u.o.current
    BY <1>6, AlikeAll
  <2> QED BY <2>1, <2>2 DEF f
<1>10. Calm(p)
  BY <1>1, <1>3, <1>8, <1>9 DEF Calm
<1>11. Good(ch, v, Pair(u.o), Debt(u.o, h))
  <2>1. F \in SUBSET Unbooked
    BY DEF Unbooked, Fields
  <2> QED BY Zenon, <1>1, <1>6, <1>7, <1>10, <2>1, ReGood
<1>12. Onto(u, v) /\ (Steady(u.o) => Set(v.o))
  BY <1>7, <1>8, <1>9 DEF Near, Onto, Tidy, Lost, Link, Steady, Set, Armed, Replaces, f
<1>13. /\ Pair(v.o) = Pair(u.o) /\ Debt(v.o, h) = Debt(u.o, h)
       /\ Below(ch, v.o.current, v.o.pending)
  BY <1>7, <1>8, <1>9 DEF Pair, Debt, Below, Fit, f
<1> QED BY <1>7, <1>8, <1>11, <1>12, <1>13 DEF Fit

(* The second part of videoOverlayDrainPending.                              *)
LEMMA DrainCommitKeeps ==
  ASSUME NEW ch \in ChannelType, NEW u, NEW h \in Replied, ChannelOK(ch), Fit(ch, u, h),
         Steady(u.o), NEW v \in DrainCommit(u)
  PROVE  Fit(ch, v, h) /\ Onto(u, v) /\ Set(v.o)
<1>1. u.o.busy \in BOOLEAN
  BY UTyped DEF Fit, Good, OverlayType
<1>2. CASE v = u /\ u.o.pending = None
  <2>1. Onto(u, u)
    BY OnwardSame, Onwards
  <2> QED BY <1>2, <2>1 DEF Steady, Set, Armed
<1>3. CASE v = Later(u)
  BY <1>3, LaterKeeps
<1>4. CASE u.o.pending # None /\ \E w : HandleDone(u, w) /\ v = Settled(w)
  BY <1>4, HandleKeeps
<1>5. CASE \E w \in SendRelease(u, u.o.pending) : v = [w EXCEPT !.o.pending = None]
  BY Zenon, <1>5, ReleasesPending
<1>6. CASE Replaces(u, v)
  BY <1>6, ReplacesKeeps
<1> QED BY <1>1, <1>2, <1>3, <1>4, <1>5, <1>6, DrainCommitCases

(* videoOverlayDrainPending: what it cannot do now it tries again later.     *)
LEMMA DrainKeeps ==
  ASSUME NEW ch \in ChannelType, NEW u, NEW h \in Replied, ChannelOK(ch), Fit(ch, u, h),
         NEW v \in DrainPending(u)
  PROVE  Fit(ch, v, h) /\ Onto(u, v) /\ Set(v.o)
<1>1. CASE u.o.disableRequested
  <2>1. PICK d \in DrainDisable(u) : v \in IF d.ok THEN DrainCommit(d.u) ELSE {d.u}
    BY <1>1 DEF DrainPending
  <2>2. Fit(ch, d.u, h) /\ Onto(u, d.u) /\ Set(d.u.o)
    BY DrainDisableKeeps
  <2>3. CASE v = d.u
    BY <2>2, <2>3
  <2>4. CASE v \in DrainCommit(d.u)
    <3>1. Steady(d.u.o)
      BY <2>2 DEF Set, Armed, Steady
    <3>2. Fit(ch, v, h) /\ Onto(d.u, v) /\ Set(v.o)
      BY <2>2, <2>4, <3>1, DrainCommitKeeps
    <3> QED BY <2>2, <3>2, OntoTrans
  <2> QED BY <2>1, <2>3, <2>4
<1>2. CASE ~u.o.disableRequested
  <2>1. v \in DrainCommit(u) /\ Steady(u.o)
    BY <1>2 DEF DrainPending, Steady
  <2> QED BY <2>1, DrainCommitKeeps
<1> QED BY <1>1, <1>2

(* videoOverlayRecommit.                                                     *)
LEMMA RecommitKeeps ==
  ASSUME NEW ch \in ChannelType, NEW u, NEW h \in Replied, ChannelOK(ch), Fit(ch, u, h),
         NEW v \in Recommit(u)
  PROVE  Fit(ch, v, h) /\ Onto(u, v) /\ (Set(u.o) => Set(v.o))
<1>1. CASE u.o.current = None
  <2>1. v = u
    BY <1>1 DEF Recommit
  <2> QED BY <2>1, OnwardSame, Onwards
<1>2. CASE u.o.current # None
  <2> DEFINE p == [u.o EXCEPT !.geometryPending = TRUE]
             w == [u EXCEPT !.o = p]
  <2>1. v \in DrainPending(w)
    <3>1. v \in DrainPending([u EXCEPT !.o.geometryPending = TRUE])
      BY <1>2 DEF Recommit
    <3> QED BY <3>1
  <2>2. p \in OverlayType /\ Alike(u.o, p, {"geometryPending"})
    BY Zenon, UTyped, Places DEF Fit, Good
  <2>3. {"geometryPending"} \in SUBSET Loose
    BY DEF Loose
  <2> HIDE DEF p
  <2>4. w.o = p /\ w.s = u.s /\ Good(ch, w, Pair(u.o), Debt(u.o, h))
    BY <2>2, <2>3, LooseKeeps DEF Fit
  <2>5. /\ p.client = u.o.client /\ p.dropping = u.o.dropping /\ p.gone = u.o.gone
        /\ p.reading = u.o.reading /\ p.batch = u.o.batch /\ p.closing = u.o.closing
        /\ p.disableRequested = u.o.disableRequested
        /\ p.pending = u.o.pending /\ p.current = u.o.current
    BY <2>2, AlikeAll
  <2> HIDE DEF w
  <2>6. Onto(u, w)
    BY <2>4, <2>5 DEF Near, Onto, Tidy, Lost, Link
  <2>7. Pair(w.o) = Pair(u.o) /\ Debt(w.o, h) = Debt(u.o, h)
    BY <2>4, <2>5 DEF Pair, Debt
  <2>8. Fit(ch, w, h)
    BY <2>4, <2>5, <2>7 DEF Fit
  <2>9. Fit(ch, v, h) /\ Onto(w, v) /\ Set(v.o)
    BY <2>1, <2>8, DrainKeeps
  <2> QED BY <2>6, <2>9, OntoTrans
<1> QED BY <1>1, <1>2

(* The books fit what the UI process keeps, or its client is lost.           *)
LEMMA Refit ==
  ASSUME NEW ch \in ChannelType, NEW u \in UType, NEW v, NEW X \in SUBSET Frame,
         NEW h \in Replied, h = None \/ u.o.closing = None, Good(ch, v, X, Debt(u.o, h)),
         v.o.closing \in {u.o.closing, None}, v.o.closing = u.o.closing \/ Lost(Link(v.o)),
         Pair(v.o) \subseteq X, Pair(v.o) = X \/ Lost(Link(v.o)),
         Below(ch, v.o.current, v.o.pending)
  PROVE  Fit(ch, v, h)
<1> DEFINE Z == Pair(v.o)
<1>1. u.o.closing \in Replied /\ Debt(u.o, h) \in Replied
  BY UTyped DEF OverlayType, Replied, Debt
<1>2. Z \in SUBSET X /\ Z \in SUBSET Frame
  OBVIOUS
<1>3. Good(ch, v, Z, Debt(u.o, h))
  <2>1. CASE Z = X
    BY <2>1
  <2>2. CASE Lost(Link(v.o))
    <3>1. Debt(u.o, h) \in {Debt(u.o, h), None}
      OBVIOUS
    <3> HIDE DEF Z
    <3> QED BY <1>1, <1>2, <2>2, <3>1, LostGood
  <2> QED BY <2>1, <2>2
<1> HIDE DEF Z
<1>4. Good(ch, v, Z, Debt(v.o, h)) /\ (h = None \/ v.o.closing = None)
  BY <1>2, <1>3, Rebate
<1> QED BY <1>4 DEF Fit, Z

(* What the client callback keeps while it works on a batch.                 *)
Rooted(u) == u.o.client # 0 /\ u.o.gone = "no" /\ (u.o.dropping = TRUE \/ u.s[u.o.client].web)
Past(u, v) ==
  /\ v.o.client \in {u.o.client, 0} /\ v.o.reading = u.o.reading
  /\ v.o.current \in {u.o.current, u.o.pending, u.o.batch, None}
  /\ v.o.pending \in {u.o.pending, u.o.batch, None}
  /\ v.o.closing \in {u.o.closing, None} /\ (v.o.gone = "no" => u.o.gone = "no")
  /\ \A d \in Connections : /\ Accepted(u.s, d) => Accepted(v.s, d)
                            /\ v.s[d].web = u.s[d].web
  /\ Lost(Link(u.o)) => Lost(Link(v.o))
  /\ Rooted(u) => Tidy(v.o)
  /\ Set(u.o) => Set(v.o)

(* videoOverlayDeferFrame: the batch takes the place of the pending frame,   *)
(* which is released, or it is released at once.                             *)
Deferred(w, f) == [w EXCEPT !.o = [w.o EXCEPT !.pending = f, !.retry = TRUE]]
Behind(u, v) ==
  /\ v.o.client \in {u.o.client, 0} /\ v.o.reading = u.o.reading
  /\ v.o.current \in {u.o.current, None} /\ v.o.pending \in {u.o.batch, None}
  /\ v.o.closing \in {u.o.closing, None} /\ (v.o.gone = "no" => u.o.gone = "no")
  /\ \A d \in Connections : /\ Accepted(u.s, d) => Accepted(v.s, d)
                            /\ v.s[d].web = u.s[d].web
  /\ Lost(Link(u.o)) => Lost(Link(v.o))
  /\ Rooted(u) => v.o.client # 0

(* Putting a frame off releases the pending one and takes its place.        *)
LEMMA DeferCases ==
  ASSUME NEW u, NEW f, NEW v \in DeferFrame(u, f)
  PROVE  \E w \in SendRelease(u, u.o.pending) :
           v = Deferred(w, f) \/ v \in SendRelease([w EXCEPT !.o.pending = None], f)
<1> DEFINE Ends(w) == {Deferred(w, f)} \cup SendRelease([w EXCEPT !.o.pending = None], f)
<1>1. DeferFrame(u, f) = UNION {Ends(w) : w \in SendRelease(u, u.o.pending)}
  BY Zenon DEF DeferFrame, Deferred
<1> HIDE DEF Ends
<1>2. PICK w \in SendRelease(u, u.o.pending) : v \in Ends(w)
  BY <1>1
<1> QED BY Zenon, <1>2 DEF Ends

(* A client that still reads does not lose its place by a release.           *)
LEMMA RootedStays ==
  ASSUME NEW u, NEW v, u.o.dropping \in BOOLEAN, Lost(Link(u.o)) => v = u,
         ~Lost(Link(u.o)) /\ u.s[u.o.client].web => Alike(u.o, v.o, {"acks", "writer"}),
         v.s[u.o.client].web = u.s[u.o.client].web \/ u.o.client = 0
  PROVE  Rooted(u) => Rooted(v) /\ v.o.client = u.o.client
<1>1. CASE Lost(Link(u.o))
  BY <1>1
<1>2. CASE ~Lost(Link(u.o)) /\ u.s[u.o.client].web
  <2>1. v.o.client = u.o.client /\ v.o.gone = u.o.gone /\ v.o.dropping = u.o.dropping
    BY <1>2, AlikeAll
  <2> QED BY Zenon, <1>2, <2>1 DEF Rooted
<1>3. CASE ~Lost(Link(u.o)) /\ ~u.s[u.o.client].web
  BY <1>3 DEF Rooted, Lost, Link
<1> QED BY <1>1, <1>2, <1>3

(* The batch may not be put in the books twice.                              *)
Batched(ch, u, h) ==
  /\ Good(ch, u, Held(u.o), Debt(u.o, h)) /\ InOrder(ch, u.o)
  /\ h = None \/ u.o.closing = None

(* A frame is not its own successor.                                        *)
LEMMA NotAgain ==
  ASSUME NEW ch, NEW x, NEW y, y \in Frame, Below(ch, x, y), x = y
  PROVE  ~(y.conn > ch.born)
<1>1. y # None /\ y.sequence \in Nat
  BY NullAssumption, FrameNumbers
<1> QED BY <1>1 DEF Below

(* The pending frame is released first.                                      *)
LEMMA ReleasesOlder ==
  ASSUME NEW ch \in ChannelType, NEW u, NEW h \in Replied, ChannelOK(ch), Batched(ch, u, h),
         u.o.batch # None, NEW v \in SendRelease(u, u.o.pending)
  PROVE  /\ Went(ch, u, v, {u.o.current, u.o.batch} \ {None}, Debt(u.o, h))
         /\ Lost(Link(u.o)) => v = u
         /\ ~Lost(Link(u.o)) /\ u.s[u.o.client].web => Alike(u.o, v.o, {"acks", "writer"})
<1> DEFINE g == Debt(u.o, h)
           X == Held(u.o)
           Y == {u.o.current, u.o.batch} \ {None}
           f == u.o.pending
<1>1. u \in UType /\ u.o \in OverlayType /\ Good(ch, u, X, g) /\ InOrder(ch, u.o)
  BY UTyped DEF Batched, Good
<1>2. /\ u.o.current \in Frame \cup {None} /\ f \in Frame \cup {None}
      /\ u.o.batch \in Frame \cup {None} /\ g \in Replied
  BY <1>1 DEF OverlayType, Replied, Debt
<1>3. X \in SUBSET Frame /\ f \in X \cup {None} /\ Y \in SUBSET X /\ X \ {f} \subseteq Y
  BY <1>2 DEF Held
<1>4. f \in Y => ~(f.conn > ch.born)
  <2> SUFFICES ASSUME f \in Y PROVE ~(f.conn > ch.born)
    OBVIOUS
  <2>1. f \in Frame /\ u.o.batch \in Frame /\ f # None
    BY <1>2
  <2>2. CASE u.o.current = f
    BY <1>1, <2>1, <2>2, NotAgain DEF InOrder
  <2>3. CASE u.o.batch = f
    BY <1>1, <2>1, <2>3, NotAgain DEF InOrder
  <2> QED BY <2>2, <2>3
<1> HIDE DEF g, X, Y, f
<1>5. v \in SendRelease(u, f)
  BY DEF f
<1>6. /\ Went(ch, u, v, Y, g) /\ (Lost(Link(u.o)) => v = u)
      /\ ~Lost(Link(u.o)) /\ u.s[u.o.client].web => Alike(u.o, v.o, {"acks", "writer"})
  BY <1>1, <1>2, <1>3, <1>4, <1>5, ReleaseHeld
<1> QED BY <1>6 DEF Y, g

(* What a reply leaves of the frames held and of the debt.                  *)
LEMMA WentNear ==
  ASSUME NEW ch, NEW u, NEW v, NEW X, NEW g, Went(ch, u, v, X, g)
  PROVE  Near(u, v) /\ v.o.current \in {u.o.current, None} /\ v.o.pending \in {u.o.pending, None}
         /\ v.o.closing \in {u.o.closing, None}
         /\ (v.o.closing = u.o.closing \/ Lost(Link(v.o)))
         /\ (v.o.current = u.o.current \/ Lost(Link(v.o)))
         /\ v.o.batch = u.o.batch
  BY Onwards, OnwardClosing DEF Went, Onto, Onward

(* It is put off: the batch is the pending frame now.                        *)
LEMMA PutsOff ==
  ASSUME NEW ch \in ChannelType, NEW u, NEW h \in Replied, ChannelOK(ch), Batched(ch, u, h),
         u.o.batch # None, NEW w \in SendRelease(u, u.o.pending), NEW v, v = Deferred(w, u.o.batch)
  PROVE  Fit(ch, v, h) /\ Behind(u, v)
<1> DEFINE g == Debt(u.o, h)
           Y == {u.o.current, u.o.batch} \ {None}
           f == u.o.batch
           p == [w.o EXCEPT !.pending = f, !.retry = TRUE]
<1>1. u \in UType /\ u.o \in OverlayType /\ InOrder(ch, u.o) /\ (h = None \/ u.o.closing = None)
  BY UTyped DEF Batched, Good
<1>2. u.o.current \in Frame \cup {None} /\ f \in Frame /\ f # None /\ u.o.dropping \in BOOLEAN
  BY <1>1, NullAssumption DEF OverlayType
<1>3. /\ Went(ch, u, w, Y, g) /\ (Lost(Link(u.o)) => w = u)
      /\ ~Lost(Link(u.o)) /\ u.s[u.o.client].web => Alike(u.o, w.o, {"acks", "writer"})
  BY Zenon, ReleasesOlder
<1>4. Y \in SUBSET Frame
  BY <1>2
<1>5. p \in OverlayType /\ Alike(w.o, p, {"pending", "retry"}) /\ p.pending = f
  BY Zenon, <1>2, <1>3, UTyped, Defers DEF Went, Good
<1>6. v = [w EXCEPT !.o = p]
  BY DEF Deferred
<1> HIDE DEF p, f
<1>7. {"pending", "retry"} \in SUBSET Loose
  BY DEF Loose
<1>8. v.o = p /\ v.s = w.s /\ Good(ch, v, Y, g)
  <2> HIDE DEF Y, g
  <2> QED BY <1>3, <1>5, <1>6, <1>7, LooseKeeps DEF Went
<1>9. /\ p.client = w.o.client /\ p.dropping = w.o.dropping /\ p.gone = w.o.gone
      /\ p.reading = w.o.reading /\ p.closing = w.o.closing /\ p.current = w.o.current
  BY <1>5, AlikeAll
<1>10. /\ Near(u, w) /\ w.o.current \in {u.o.current, None}
       /\ w.o.closing \in {u.o.closing, None}
       /\ (w.o.closing = u.o.closing \/ Lost(Link(w.o)))
       /\ (w.o.current = u.o.current \/ Lost(Link(w.o)))
  BY <1>3, WentNear
<1>11. Lost(Link(w.o)) => Lost(Link(v.o))
  BY <1>8, <1>9 DEF Lost, Link
<1>12. Rooted(u) => v.o.client # 0
  <2>1. w.s[u.o.client].web = u.s[u.o.client].web \/ u.o.client = 0
    BY <1>1, <1>10 DEF Near, OverlayType
  <2>2. Rooted(u) => Rooted(w) /\ w.o.client = u.o.client
    BY <1>2, <1>3, <2>1, RootedStays
  <2> QED BY <1>8, <1>9, <2>2 DEF Rooted
<1>13. Behind(u, v)
  BY <1>5, <1>8, <1>9, <1>10, <1>11, <1>12 DEF Behind, Near, f
<1>14. Below(ch, v.o.current, v.o.pending)
  BY <1>1, <1>5, <1>8, <1>9, <1>10 DEF Below, InOrder, f
<1>15. Pair(v.o) \subseteq Y /\ (Pair(v.o) = Y \/ Lost(Link(v.o)))
  BY <1>5, <1>8, <1>9, <1>10, <1>11 DEF Pair, f
<1>16. Fit(ch, v, h)
  <2>1. Good(ch, v, Y, Debt(u.o, h))
    BY <1>8
  <2>2. v.o.closing \in {u.o.closing, None} /\ (v.o.closing = u.o.closing \/ Lost(Link(v.o)))
    BY <1>8, <1>9, <1>10, <1>11
  <2> HIDE DEF Y, g
  <2> QED BY Zenon, <1>1, <1>4, <1>14, <1>15, <2>1, <2>2, Refit
<1> QED BY <1>13, <1>16

(* Its descriptors cannot be copied: it is released.                         *)
LEMMA GivesUp ==
  ASSUME NEW ch \in ChannelType, NEW u, NEW h \in Replied, ChannelOK(ch), Batched(ch, u, h),
         u.o.batch # None, NEW w \in SendRelease(u, u.o.pending),
         NEW v \in SendRelease([w EXCEPT !.o.pending = None], u.o.batch)
  PROVE  Fit(ch, v, h) /\ Behind(u, v)
<1> DEFINE g == Debt(u.o, h)
           Y == {u.o.current, u.o.batch} \ {None}
           Z == {u.o.current} \ {None}
           f == u.o.batch
           k == [w EXCEPT !.o.pending = None]
<1>1. u \in UType /\ u.o \in OverlayType /\ InOrder(ch, u.o) /\ (h = None \/ u.o.closing = None)
  BY UTyped DEF Batched, Good
<1>2. /\ u.o.current \in Frame \cup {None} /\ f \in Frame /\ f # None
      /\ u.o.dropping \in BOOLEAN /\ g \in Replied
  BY <1>1, NullAssumption DEF OverlayType, Replied, Debt
<1>3. /\ Went(ch, u, w, Y, g) /\ (Lost(Link(u.o)) => w = u)
      /\ ~Lost(Link(u.o)) /\ u.s[u.o.client].web => Alike(u.o, w.o, {"acks", "writer"})
  BY Zenon, ReleasesOlder
<1>4. /\ Y \in SUBSET Frame /\ f \in Y \cup {None} /\ Z \in SUBSET Y /\ Y \ {f} \subseteq Z
      /\ Z \in SUBSET Frame
  BY <1>2
<1>5. f \in Z => ~(f.conn > ch.born)
  <2>1. u.o.current = f => ~(f.conn > ch.born)
    BY <1>1, <1>2, NotAgain DEF InOrder
  <2> QED BY <2>1
<1>6. v \in SendRelease(k, f)
  OBVIOUS
<1>7. /\ Good(ch, k, Y, g) /\ Onto(w, k) /\ Alike(w.o, k.o, {"pending"}) /\ k.o.pending = None
      /\ k.s = w.s
  <2> HIDE DEF Y, g, k
  <2>1. Good(ch, w, Y, g)
    BY <1>3 DEF Went
  <2> QED BY <2>1, ClearsPending DEF k
<1> HIDE DEF Y, Z, f, k, g
<1>8. /\ Went(ch, k, v, Z, g) /\ (Lost(Link(k.o)) => v = k)
      /\ ~Lost(Link(k.o)) /\ k.s[k.o.client].web => Alike(k.o, v.o, {"acks", "writer"})
  BY <1>2, <1>4, <1>5, <1>6, <1>7, ReleaseHeld
<1>9. /\ Near(u, w) /\ w.o.current \in {u.o.current, None}
      /\ w.o.closing \in {u.o.closing, None}
      /\ (w.o.closing = u.o.closing \/ Lost(Link(w.o)))
      /\ (w.o.current = u.o.current \/ Lost(Link(w.o)))
  BY <1>3, WentNear
<1>10. /\ Near(k, v) /\ v.o.current \in {k.o.current, None} /\ v.o.pending = None
       /\ v.o.closing \in {k.o.closing, None}
       /\ (v.o.closing = k.o.closing \/ Lost(Link(v.o)))
       /\ (v.o.current = k.o.current \/ Lost(Link(v.o)))
  BY <1>7, <1>8, WentNear
<1>11. /\ k.o.client = w.o.client /\ k.o.dropping = w.o.dropping /\ k.o.gone = w.o.gone
       /\ k.o.reading = w.o.reading /\ k.o.closing = w.o.closing /\ k.o.current = w.o.current
  BY <1>7, AlikeAll
<1>12. (Lost(Link(w.o)) <=> Lost(Link(k.o))) /\ (Lost(Link(k.o)) => Lost(Link(v.o)))
  BY <1>10, <1>11 DEF Lost, Link, Near
<1>13. Near(u, v)
  BY <1>7, <1>9, <1>10, NearTrans DEF Onto
<1>14. Rooted(u) => v.o.client # 0
  <2>1. w.s[u.o.client].web = u.s[u.o.client].web \/ u.o.client = 0
    BY <1>1, <1>9 DEF Near, OverlayType
  <2>2. Rooted(u) => Rooted(w) /\ w.o.client = u.o.client
    BY <1>2, <1>3, <2>1, RootedStays
  <2>3. Rooted(w) => Rooted(k)
    BY <1>7, <1>11 DEF Rooted
  <2>4. v.s[k.o.client].web = k.s[k.o.client].web \/ k.o.client = 0
    <3>1. k \in UType
      BY <1>7 DEF Good
    <3> QED BY <3>1, <1>10, UTyped DEF Near, OverlayType
  <2>5. k.o.dropping \in BOOLEAN
    BY <1>7, UTyped DEF Good, OverlayType
  <2>6. Rooted(k) => Rooted(v)
    BY <1>8, <2>4, <2>5, RootedStays
  <2> QED BY <2>2, <2>3, <2>6 DEF Rooted
<1>15. Behind(u, v)
  BY <1>9, <1>10, <1>11, <1>13, <1>14 DEF Behind, Near
<1>16. Below(ch, v.o.current, v.o.pending)
  BY <1>10 DEF Below
<1>17. Pair(v.o) \subseteq Z /\ (Pair(v.o) = Z \/ Lost(Link(v.o)))
  BY <1>9, <1>10, <1>11, <1>12 DEF Pair, Z
<1>18. Fit(ch, v, h)
  <2>1. Good(ch, v, Z, Debt(u.o, h))
    BY <1>8 DEF g, Went
  <2>2. v.o.closing \in {u.o.closing, None} /\ (v.o.closing = u.o.closing \/ Lost(Link(v.o)))
    BY <1>9, <1>10, <1>11, <1>12
  <2> QED BY <1>1, <1>4, <1>16, <1>17, <2>1, <2>2, Refit
<1> QED BY <1>15, <1>18

(* flushPendingFrame: the batch is shown, put off, or released.              *)
LEMMA FlushBatchKeeps ==
  ASSUME NEW ch \in ChannelType, NEW u, NEW h \in Replied, ChannelOK(ch), Batched(ch, u, h),
         NEW v \in FlushBatch(u)
  PROVE  Fit(ch, v, h) /\ Past(u, v) /\ v.o.batch = None
<1>1. CASE u.o.batch = None
  <2>1. v = u
    BY <1>1 DEF FlushBatch
  <2>2. Held(u.o) = Pair(u.o)
    BY <1>1 DEF Held, Pair
  <2>3. Rooted(u) => Tidy(u.o)
    BY DEF Rooted, Tidy
  <2> QED BY <1>1, <2>1, <2>2, <2>3 DEF Fit, Past, Batched, InOrder
<1>2. CASE u.o.batch # None
  <2> DEFINE Drains(d) == DrainPending(d)
  <2>1. \E d \in DeferFrame(u, u.o.batch) : \E w \in DrainPending(d) : v = [w EXCEPT !.o.batch = None]
    BY <1>2 DEF FlushBatch
  <2>2. PICK d \in DeferFrame(u, u.o.batch) : \E w \in DrainPending(d) : v = [w EXCEPT !.o.batch = None]
    BY Zenon, <2>1
  <2>3. PICK w \in DrainPending(d) : v = [w EXCEPT !.o.batch = None]
    BY Zenon, <2>2
  <2>4. Fit(ch, d, h) /\ Behind(u, d)
    BY Zenon, <1>2, <2>2, DeferCases, PutsOff, GivesUp
  <2>5. Fit(ch, w, h) /\ Onto(d, w) /\ Set(w.o)
    BY <2>3, <2>4, DrainKeeps
  <2> DEFINE p == [w.o EXCEPT !.batch = None]
  <2>6. p \in OverlayType /\ Alike(w.o, p, {"batch"}) /\ p.batch = None
    BY <2>5, UTyped, Batches DEF Fit, Good
  <2>7. v = [w EXCEPT !.o = p]
    BY <2>3
  <2>8. {"batch"} \in SUBSET Loose
    BY DEF Loose
  <2> HIDE DEF p
  <2>9. v.o = p /\ v.s = w.s /\ Good(ch, v, Pair(w.o), Debt(w.o, h))
    BY <2>5, <2>6, <2>7, <2>8, LooseKeeps DEF Fit
  <2>10. /\ p.client = w.o.client /\ p.dropping = w.o.dropping /\ p.gone = w.o.gone
         /\ p.reading = w.o.reading /\ p.closing = w.o.closing /\ p.current = w.o.current
         /\ p.pending = w.o.pending /\ p.disableRequested = w.o.disableRequested
         /\ p.retry = w.o.retry
    BY <2>6, AlikeAll
  <2>11. Fit(ch, v, h)
    BY <2>5, <2>9, <2>10 DEF Fit, Pair, Debt
  <2>12. Rooted(u) => Tidy(v.o)
    <3>1. Rooted(u) => Tidy(w.o)
      BY <2>4, <2>5 DEF Behind, Onto, Tidy
    <3> QED BY <2>9, <2>10, <3>1 DEF Tidy
  <2>13. Set(v.o) /\ (Lost(Link(w.o)) => Lost(Link(v.o)))
    BY <2>5, <2>9, <2>10 DEF Set, Armed, Lost, Link
  <2>14. Past(u, v)
    <3>1. v.o.client \in {u.o.client, 0} /\ v.o.reading = u.o.reading
      BY <2>4, <2>5, <2>9, <2>10 DEF Behind, Onto, Near
    <3>2. /\ v.o.current \in {u.o.current, u.o.pending, u.o.batch, None}
          /\ v.o.pending \in {u.o.pending, u.o.batch, None}
          /\ v.o.closing \in {u.o.closing, None} /\ (v.o.gone = "no" => u.o.gone = "no")
      BY <2>4, <2>5, <2>9, <2>10 DEF Behind, Onto, Near
    <3>3. \A c \in Connections : /\ Accepted(u.s, c) => Accepted(v.s, c)
                                 /\ v.s[c].web = u.s[c].web
      BY <2>4, <2>5, <2>9 DEF Behind, Onto, Near
    <3>4. Lost(Link(u.o)) => Lost(Link(v.o))
      BY <2>4, <2>5, <2>13 DEF Behind, Onto, Near
    <3> QED BY <2>12, <2>13, <3>1, <3>2, <3>3, <3>4 DEF Past
  <2> QED BY <2>6, <2>9, <2>11, <2>14
<1> QED BY <1>1, <1>2

(* The invariant of the UI process, and what the screen may turn to.         *)
OInv(ch, u) == Good(ch, u, Held(u.o), u.o.closing) /\ ReadingOK(u.o) /\ InOrder(ch, u.o)
Turns(u, v) == v.o.current \in {u.o.current, u.o.pending, u.o.batch, None}
OStep(ch, u, v) == OInv(ch, v) /\ Turns(u, v)
Ready(o) == o.gone = "no" => Tidy(o)

(* The debt of a state at rest is the confirmation it owes.                 *)
LEMMA NoDebt == ASSUME NEW o PROVE Debt(o, None) = o.closing
  BY DEF Debt

(* Between two packets a state is fit, and its timer armed.                 *)
LEMMA Resting ==
  ASSUME NEW ch, NEW u, OInv(ch, u), u.o.batch = None
  PROVE  Fit(ch, u, None) /\ Set(u.o) /\ (u.o.reading = 0 => Ready(u.o))
<1>1. Held(u.o) = Pair(u.o)
  BY DEF Held, Pair
<1> QED BY <1>1, NoDebt DEF Fit, OInv, ReadingOK, InOrder, Set, Ready

(* A state that is fit and holds nothing back is in order.                  *)
LEMMA Arrives ==
  ASSUME NEW ch, NEW v, Fit(ch, v, None), v.o.batch = None, Set(v.o),
         v.o.reading = 0 => Ready(v.o)
  PROVE  OInv(ch, v)
<1>1. Held(v.o) = Pair(v.o)
  BY DEF Held, Pair
<1>2. Good(ch, v, Held(v.o), v.o.closing)
  BY <1>1, NoDebt DEF Fit
<1>3. InOrder(ch, v.o)
  BY DEF Fit, InOrder, Below
<1> QED BY <1>2, <1>3 DEF OInv, ReadingOK, Set, Ready

(* A state in order has nothing in its hands.                               *)
LEMMA BatchedInv ==
  ASSUME NEW ch, NEW u, OInv(ch, u) PROVE Batched(ch, u, None)
  BY NoDebt DEF OInv, Batched

(* A field no book mentions and no rule of the UI process either.            *)
LEMMA LooseStep ==
  ASSUME NEW ch, NEW u, OInv(ch, u), NEW p \in OverlayType,
         NEW F \in SUBSET {"expired", "busy", "lastRect", "geometryPending"}, Alike(u.o, p, F)
  PROVE  OStep(ch, u, [u EXCEPT !.o = p])
<1> DEFINE v == [u EXCEPT !.o = p]
<1>1. F \in SUBSET Loose
  BY DEF Loose
<1>2. v.o = p /\ Good(ch, v, Held(u.o), u.o.closing)
  BY <1>1, LooseKeeps DEF OInv
<1> HIDE DEF v
<1>3. /\ "current" \notin F /\ "pending" \notin F /\ "batch" \notin F /\ "closing" \notin F
      /\ "client" \notin F /\ "reading" \notin F /\ "disableRequested" \notin F
      /\ "retry" \notin F /\ "gone" \notin F
  OBVIOUS
<1>4. /\ p.current = u.o.current /\ p.pending = u.o.pending /\ p.batch = u.o.batch
      /\ p.closing = u.o.closing /\ p.client = u.o.client /\ p.reading = u.o.reading
      /\ p.disableRequested = u.o.disableRequested /\ p.retry = u.o.retry /\ p.gone = u.o.gone
  BY <1>3, AlikeAll
<1>5. Held(p) = Held(u.o) /\ InOrder(ch, p) /\ ReadingOK(p)
  BY <1>4 DEF OInv, Held, InOrder, ReadingOK, Tidy, Armed
<1> QED BY <1>2, <1>4, <1>5 DEF OStep, OInv, Turns, v

(* videoOverlayDropClient between two packets.                               *)
LEMMA DropFits ==
  ASSUME NEW ch \in ChannelType, NEW u, NEW h \in Replied, Fit(ch, u, h), NEW w \in DropClient(u)
  PROVE  /\ Fit(ch, w, h) /\ Onward(u, w) /\ Tidy(w.o) /\ Lost(Link(w.o))
         /\ w.o.gone = u.o.gone \/ w.o.disableRequested
<1> DEFINE X == Pair(u.o)
           g == Debt(u.o, h)
<1>1. /\ u \in UType /\ u.o \in OverlayType /\ Good(ch, u, X, g)
      /\ h = None \/ u.o.closing = None
  BY UTyped DEF Fit, Good
<1>2. X \in SUBSET Frame /\ g \in Replied
  BY <1>1 DEF OverlayType, Replied, Debt, Pair
<1> HIDE DEF X, g
<1>3. /\ Good(ch, w, X, g) /\ Lost(Link(w.o)) /\ Onward(u, w) /\ Tidy(w.o)
      /\ w.o.gone = u.o.gone \/ w.o.disableRequested
  BY <1>1, <1>2, DropKeeps
<1>4. /\ w.o.closing \in {u.o.closing, None} /\ Pair(w.o) \subseteq X
      /\ Below(ch, w.o.current, w.o.pending)
  BY <1>3 DEF Onward, Pair, X, Below, Fit
<1>5. Good(ch, w, X, Debt(u.o, h))
  BY <1>3 DEF g
<1> QED BY <1>1, <1>2, <1>3, <1>4, <1>5, Refit

(* Dropping the client is a step in order.                                  *)
LEMMA DropsStep ==
  ASSUME NEW ch \in ChannelType, NEW u, OInv(ch, u), u.o.batch = None, NEW w \in DropClient(u)
  PROVE  OStep(ch, u, w) /\ Tidy(w.o) /\ Lost(Link(w.o))
<1>1. None \in Replied
  BY DEF Replied
<1>2. /\ Fit(ch, w, None) /\ Onward(u, w) /\ Tidy(w.o) /\ Set(u.o) /\ Lost(Link(w.o))
  BY <1>1, Resting, DropFits
<1>3. OInv(ch, w)
  BY <1>2, Arrives DEF Onward, Ready
<1> QED BY <1>2, <1>3 DEF OStep, Turns, Onward

(* The callback returns.                                                     *)
LEMMA Returns ==
  ASSUME NEW ch, NEW u, NEW v, Fit(ch, v, None), v.o.batch = None, Set(v.o), Ready(v.o), Turns(u, v)
  PROVE  OStep(ch, u, [v EXCEPT !.o.reading = 0])
<1> DEFINE p == [v.o EXCEPT !.reading = 0]
           w == [v EXCEPT !.o.reading = 0]
<1>1. p \in OverlayType /\ Alike(v.o, p, {"reading"}) /\ p.reading = 0
  BY UTyped, ReadsFrom, Numbers DEF Fit, Good
<1>2. w = [v EXCEPT !.o = p]
  OBVIOUS
<1>3. {"reading"} \in SUBSET Loose
  BY DEF Loose
<1> HIDE DEF p, w
<1>4. w.o = p /\ Good(ch, w, Pair(v.o), Debt(v.o, None))
  BY <1>1, <1>2, <1>3, LooseKeeps DEF Fit
<1>5. /\ p.current = v.o.current /\ p.pending = v.o.pending /\ p.batch = v.o.batch
      /\ p.closing = v.o.closing /\ p.client = v.o.client
      /\ p.disableRequested = v.o.disableRequested /\ p.retry = v.o.retry /\ p.gone = v.o.gone
  BY <1>1, AlikeAll
<1>6. Pair(p) = Pair(v.o) /\ Debt(p, None) = Debt(v.o, None)
  BY <1>5 DEF Pair, Debt
<1>7. Fit(ch, w, None)
  BY <1>4, <1>5, <1>6 DEF Fit
<1>8. Set(w.o) /\ Ready(w.o)
  BY <1>4, <1>5 DEF Set, Armed, Ready, Tidy
<1>9. OInv(ch, w)
  BY <1>4, <1>5, <1>7, <1>8, Arrives
<1> QED BY <1>4, <1>5, <1>9 DEF OStep, Turns, w

(* The invariant, seen from the UI process.                                  *)
LEMMA InvUI ==
  ASSUME IInv
  PROVE  /\ web \in ChannelType /\ ChannelOK(web) /\ UI \in UType /\ OInv(web, UI)
         /\ UI.o = overlay /\ UI.s = sockets /\ None \in Replied
<1>1. UI.o = overlay /\ UI.s = sockets
  BY DEF UI
<1>2. UI \in UType /\ web \in ChannelType
  BY DEF IInv, TypeOK, UI, UType, SocketsType
<1>3. Good(web, UI, Held(UI.o), UI.o.closing)
  BY <1>1, <1>2 DEF IInv, Good
<1> QED BY <1>1, <1>2, <1>3 DEF IInv, OInv, Replied

(* A step of the UI process.                                                 *)
Moved == ~(web' # web) /\ Turns(UI, UI')
(* A handler of the UI process that ends in order keeps the invariant.      *)
LEMMA StepUI ==
  ASSUME IInv, NEW u, OStep(web, UI, u), Becomes(u)
  PROVE  IInv' /\ Moved
<1>1. overlay' = u.o /\ sockets' = u.s /\ web' = web
  BY DEF Becomes
<1>2. u \in UType /\ u.o \in OverlayType /\ u.s \in SocketsType
  BY UTyped DEF OStep, OInv, Good
<1>3. TypeOK' /\ ChannelOK(web)'
  BY <1>1, <1>2 DEF TypeOK, IInv, SocketsType
<1>4. /\ Calm(u.o) /\ WriterOK(u.s, u.o) /\ RoomOK(u.s) /\ ReadingOK(u.o) /\ InOrder(web, u.o)
      /\ Books(web, u.s, Link(u.o), Held(u.o), u.o.closing)
  BY DEF OStep, OInv, Good
<1>5. Calm(overlay)' /\ WriterOK(sockets, overlay)' /\ RoomOK(sockets)' /\ ReadingOK(overlay)'
  BY <1>1, <1>4
<1>6. InOrder(web, overlay)'
  BY <1>1, <1>4
<1>7. Books(web, sockets, Link(overlay), Held(overlay), overlay.closing)'
  BY <1>1, <1>4
<1>8. UI'.o = u.o /\ Turns(UI, UI')
  BY <1>1 DEF UI, Turns, OStep
<1> QED BY <1>1, <1>3, <1>5, <1>6, <1>7, <1>8 DEF IInv, Moved

(* The client callback has read all there is, and shows what it held back.  *)
LEMMA ReadDrainedStep == ASSUME IInv, ReadDrained PROVE IInv' /\ Moved
<1> DEFINE c == overlay.reading
<1>1. /\ c # 0 /\ overlay.gone = "no" /\ sockets[c].ui = "open" /\ sockets[c].web
  BY DEF ReadDrained
<1>2. PICK v \in FlushBatch(UI) : Becomes([v EXCEPT !.o.reading = 0])
  BY Zenon DEF ReadDrained
<1>3. c \in Connections /\ overlay.client = c
  <2>1. c \in Connections
    BY <1>1 DEF IInv, TypeOK, OverlayType
  <2> QED BY <1>1, <2>1 DEF IInv, Books, Safe, SocketsOK, Link
<1>4. Rooted(UI)
  BY <1>1, <1>3, InvUI DEF Rooted
<1>5. Batched(web, UI, None) /\ Set(UI.o)
  BY InvUI, BatchedInv DEF OInv, ReadingOK, Set
<1>6. Fit(web, v, None) /\ Past(UI, v) /\ v.o.batch = None
  BY <1>2, <1>5, InvUI, FlushBatchKeeps
<1>7. Set(v.o) /\ Ready(v.o) /\ Turns(UI, v)
  BY <1>4, <1>5, <1>6 DEF Past, Ready, Turns
<1> QED BY <1>2, <1>6, <1>7, Returns, StepUI

(* It meets the end of the stream, and drops the client.                    *)
LEMMA ReadEndsStep == ASSUME IInv, ReadEnds PROVE IInv' /\ Moved
<1>1. \E v \in FlushBatch(UI) : \E w \in DropClient(v) : Becomes([w EXCEPT !.o.reading = 0])
  BY Zenon DEF ReadEnds
<1>2. PICK v \in FlushBatch(UI) : \E w \in DropClient(v) : Becomes([w EXCEPT !.o.reading = 0])
  BY Zenon, <1>1
<1>3. PICK w \in DropClient(v) : Becomes([w EXCEPT !.o.reading = 0])
  BY Zenon, <1>2
<1>4. Batched(web, UI, None) /\ Set(UI.o)
  BY InvUI, BatchedInv DEF OInv, ReadingOK, Set
<1>5. Fit(web, v, None) /\ Past(UI, v) /\ v.o.batch = None
  BY <1>2, <1>4, InvUI, FlushBatchKeeps
<1>6. Fit(web, w, None) /\ Onward(v, w) /\ Tidy(w.o)
  BY <1>3, <1>5, InvUI, DropFits
<1>7. Set(w.o) /\ Ready(w.o) /\ w.o.batch = None
  BY <1>4, <1>5, <1>6 DEF Past, Ready, Onward
<1>8. Turns(UI, w)
  BY <1>5, <1>6 DEF Turns, Past, Onward
<1> QED BY <1>3, <1>6, <1>7, <1>8, Returns, StepUI

(* Where the main loop is free nothing is held back.                        *)
LEMMA IdleBatch ==
  ASSUME IInv, Idle
  PROVE  UI.o.batch = None /\ Fit(web, UI, None) /\ Set(UI.o) /\ Tidy(UI.o)
         /\ UI.o.reading = 0 /\ UI.o.gone = "no"
<1>1. UI.o.reading = 0 /\ UI.o.gone = "no" /\ UI.o.batch = None
  BY InvUI DEF Idle, IInv, ReadingOK
<1> QED BY <1>1, InvUI, Resting DEF Ready

(* What videoOverlayDrainPending or Recommit leaves at the end of a handler. *)
LEMMA Rests ==
  ASSUME NEW ch, NEW u, NEW v, Fit(ch, v, None), Onto(u, v), Set(v.o), u.o.batch = None, Tidy(u.o)
  PROVE  OStep(ch, u, v)
  BY Arrives DEF OStep, Turns, Onto, Near, Ready

(* Draining what was put off keeps the invariant.                           *)
LEMMA DrainsAlike ==
  ASSUME IInv, Idle, NEW p \in OverlayType, NEW F \in SUBSET {"busy", "retry"},
         Alike(overlay, p, F), NEW v \in DrainPending([UI EXCEPT !.o = p]), Becomes(v)
  PROVE  IInv' /\ Moved
<1> DEFINE w == [UI EXCEPT !.o = p]
<1>1. /\ UI.o.batch = None /\ Fit(web, UI, None) /\ Set(UI.o) /\ Tidy(UI.o) /\ UI.o = overlay
  BY IdleBatch, InvUI
<1>2. F \in SUBSET Loose
  BY DEF Loose
<1>3. w.o = p /\ w.s = UI.s /\ Good(web, w, Pair(UI.o), Debt(UI.o, None))
  BY <1>1, <1>2, LooseKeeps DEF Fit
<1> HIDE DEF w
<1>4. /\ p.client = overlay.client /\ p.dropping = overlay.dropping /\ p.gone = overlay.gone
      /\ p.reading = overlay.reading /\ p.batch = overlay.batch /\ p.closing = overlay.closing
      /\ p.disableRequested = overlay.disableRequested
      /\ p.pending = overlay.pending /\ p.current = overlay.current
  <2>1. /\ "current" \notin F /\ "pending" \notin F /\ "batch" \notin F /\ "closing" \notin F
        /\ "client" \notin F /\ "reading" \notin F /\ "disableRequested" \notin F
        /\ "dropping" \notin F /\ "gone" \notin F
    OBVIOUS
  <2> QED BY <2>1, AlikeAll
<1>5. Fit(web, w, None)
  BY <1>1, <1>3, <1>4 DEF Fit, Pair, Debt
<1>6. Fit(web, v, None) /\ Onto(w, v) /\ Set(v.o)
  BY <1>5, InvUI, DrainKeeps DEF w
<1>7. Onto(UI, w)
  BY <1>1, <1>3, <1>4 DEF Near, Onto, Tidy, Lost, Link
<1>8. OStep(web, UI, v)
  BY <1>1, <1>6, <1>7, OntoTrans, Rests
<1> QED BY <1>8, StepUI

(* The retry timer.                                                         *)
LEMMA RetryDrainStep == ASSUME IInv, RetryDrain PROVE IInv' /\ Moved
<1> DEFINE p == [overlay EXCEPT !.retry = FALSE]
<1>1. p \in OverlayType /\ Alike(overlay, p, {"retry"})
  BY InvUI, UTyped, Fired
<1>2. [UI EXCEPT !.o.retry = FALSE] = [UI EXCEPT !.o = p]
  BY DEF UI
<1>3. PICK v \in DrainPending([UI EXCEPT !.o = p]) : Becomes(v)
  BY <1>2 DEF RetryDrain
<1> QED BY Zenon, <1>1, <1>3, DrainsAlike DEF RetryDrain

(* The page flip, after which what was put off is drained.                  *)
LEMMA PageFlipStep == ASSUME IInv, PageFlip PROVE IInv' /\ Moved
<1> DEFINE p == [overlay EXCEPT !.busy = FALSE]
<1>1. p \in OverlayType /\ Alike(overlay, p, {"busy"})
  BY Zenon, InvUI, UTyped, Commits
<1>2. [UI EXCEPT !.o.busy = FALSE] = [UI EXCEPT !.o = p]
  BY DEF UI
<1>3. PICK v \in DrainPending([UI EXCEPT !.o = p]) : Becomes(v)
  BY <1>2 DEF PageFlip
<1> QED BY Zenon, <1>1, <1>3, DrainsAlike DEF PageFlip

(* The layout moves the view.                                               *)
LEMMA LayoutStep == ASSUME IInv, LayoutChanges PROVE IInv' /\ Moved
<1>1. PICK v \in Recommit(UI) : Becomes(v)
  BY DEF LayoutChanges
<1>2. UI.o.batch = None /\ Fit(web, UI, None) /\ Set(UI.o) /\ Tidy(UI.o)
  BY IdleBatch DEF LayoutChanges
<1>3. Fit(web, v, None) /\ Onto(UI, v) /\ Set(v.o)
  BY <1>1, <1>2, InvUI, RecommitKeeps
<1> QED BY <1>1, <1>2, <1>3, Rests, StepUI

(* The deadline of a disable passes.                                        *)
LEMMA ExpiresStep == ASSUME IInv, DisableExpires PROVE IInv' /\ Moved
<1> DEFINE p == [overlay EXCEPT !.expired = TRUE]
<1>1. p \in OverlayType /\ Alike(overlay, p, {"expired"})
  BY InvUI, UTyped, Expires
<1>2. [UI EXCEPT !.o.expired = TRUE] = [UI EXCEPT !.o = p]
  BY DEF UI
<1> HIDE DEF p
<1>3. OStep(web, UI, [UI EXCEPT !.o = p])
  BY <1>1, InvUI, LooseStep
<1> QED BY <1>2, <1>3, StepUI DEF DisableExpires

(* A commit of the view begins.                                             *)
LEMMA CommitStep == ASSUME IInv, PageCommit PROVE IInv' /\ Moved
<1> DEFINE p == [overlay EXCEPT !.busy = TRUE]
<1>1. p \in OverlayType /\ Alike(overlay, p, {"busy"})
  BY Zenon, InvUI, UTyped, Commits
<1>2. [UI EXCEPT !.o.busy = TRUE] = [UI EXCEPT !.o = p]
  BY DEF UI
<1> HIDE DEF p
<1>3. OStep(web, UI, [UI EXCEPT !.o = p])
  BY <1>1, InvUI, LooseStep
<1> QED BY <1>2, <1>3, StepUI DEF PageCommit

(* The client callback begins, or notices that the client has gone.         *)
LEMMA ClientEventStep == ASSUME IInv, ClientEvent PROVE IInv' /\ Moved
<1>1. /\ UI.o.batch = None /\ Fit(web, UI, None) /\ Set(UI.o) /\ Tidy(UI.o) /\ UI.o = overlay
  BY IdleBatch, InvUI DEF ClientEvent
<1>2. CASE sockets[overlay.client].web
  <2> DEFINE p == [overlay EXCEPT !.reading = overlay.client]
             v == [UI EXCEPT !.o = p]
  <2>1. Becomes([UI EXCEPT !.o.reading = overlay.client])
    BY <1>2 DEF ClientEvent
  <2>2. [UI EXCEPT !.o.reading = overlay.client] = v
    BY DEF UI
  <2>3. overlay.client \in Connections /\ overlay.client # 0
    BY DEF ClientEvent, ClientReady, Served, IInv, TypeOK, OverlayType
  <2>4. p \in OverlayType /\ Alike(overlay, p, {"reading"}) /\ p.reading = overlay.client
    BY <2>3, InvUI, UTyped, ReadsFrom
  <2>5. {"reading"} \in SUBSET Loose
    BY DEF Loose
  <2> HIDE DEF p
  <2>6. v.o = p /\ Good(web, v, Pair(UI.o), Debt(UI.o, None))
    BY <1>1, <2>4, <2>5, LooseKeeps DEF Fit
  <2> HIDE DEF v
  <2>7. /\ p.current = overlay.current /\ p.pending = overlay.pending /\ p.batch = overlay.batch
        /\ p.closing = overlay.closing /\ p.client = overlay.client
        /\ p.disableRequested = overlay.disableRequested /\ p.retry = overlay.retry
        /\ p.gone = overlay.gone
    BY <2>4, AlikeAll
  <2>8. Fit(web, v, None)
    BY <1>1, <2>6, <2>7 DEF Fit, Pair, Debt
  <2>9. Set(v.o) /\ v.o.batch = None /\ Turns(UI, v) /\ Ready(v.o)
    BY <1>1, <2>6, <2>7 DEF Set, Armed, Turns, Ready, Tidy
  <2>10. OStep(web, UI, v)
    BY <2>8, <2>9, Arrives DEF OStep
  <2> QED BY <2>1, <2>2, <2>10, StepUI
<1>3. CASE ~sockets[overlay.client].web
  <2>1. PICK u \in DropClient(UI) : Becomes(u)
    BY <1>3 DEF ClientEvent
  <2>2. OStep(web, UI, u)
    BY <1>1, <2>1, InvUI, DropsStep
  <2> QED BY <2>1, <2>2, StepUI
<1> QED BY <1>2, <1>3

(* The writer is gone, or its source is.                                     *)
LEMMA Polled ==
  ASSUME NEW ch, NEW u, NEW v, OStep(ch, u, v), NEW n \in {0, Spent}
  PROVE  OStep(ch, u, [v EXCEPT !.o.writer = n])
<1> DEFINE p == [v.o EXCEPT !.writer = n]
           w == [v EXCEPT !.o.writer = n]
<1>1. /\ v \in UType /\ v.o \in OverlayType /\ v.s \in SocketsType
      /\ Calm(v.o) /\ WriterOK(v.s, v.o) /\ RoomOK(v.s)
      /\ Books(ch, v.s, Link(v.o), Held(v.o), v.o.closing)
      /\ ReadingOK(v.o) /\ InOrder(ch, v.o) /\ Turns(u, v)
  BY UTyped DEF Good, OStep, OInv
<1>2. n \in 0..Spent /\ n \notin Connections
  BY Numbers DEF Connections, Spent
<1>3. w = [v EXCEPT !.o = p]
  OBVIOUS
<1>4. p \in OverlayType /\ Alike(v.o, p, {"writer"}) /\ p.writer = n
  BY <1>1, <1>2, Polls
<1> HIDE DEF p, w
<1>5. w \in UType /\ w.o = p /\ w.s = v.s
  BY <1>1, <1>3, <1>4, Updated
<1>6. /\ p.client = v.o.client /\ p.dropping = v.o.dropping /\ p.gone = v.o.gone
      /\ p.acks = v.o.acks /\ p.current = v.o.current /\ p.plane = v.o.plane
      /\ p.planeEnabled = v.o.planeEnabled /\ p.closeAfterDisable = v.o.closeAfterDisable
      /\ p.disableRequested = v.o.disableRequested
  BY <1>4, AlikeAll
<1>7. /\ p.pending = v.o.pending /\ p.batch = v.o.batch /\ p.closing = v.o.closing
      /\ p.reading = v.o.reading /\ p.retry = v.o.retry
  BY <1>4, AlikeAll
<1>8. Link(p) = Link(v.o) /\ Held(p) = Held(v.o)
  BY <1>6, <1>7 DEF Link, Held
<1>9. Calm(p) /\ WriterOK(v.s, p)
  BY <1>1, <1>2, <1>4, <1>6 DEF Calm, WriterOK
<1>10. ReadingOK(p) /\ InOrder(ch, p) /\ Turns(u, w)
  <2>1. Tidy(p) <=> Tidy(v.o)
    BY <1>6, <1>7 DEF Tidy
  <2>2. Armed(p) <=> Armed(v.o)
    BY <1>6, <1>7 DEF Armed
  <2> QED BY <1>1, <1>5, <1>6, <1>7, <2>1, <2>2 DEF ReadingOK, InOrder, Turns
<1>11. Good(ch, w, Held(p), p.closing)
  BY <1>1, <1>5, <1>7, <1>8, <1>9 DEF Good
<1> QED BY <1>5, <1>10, <1>11 DEF OStep, OInv, w

(* A flush between two handlers is a step in order.                         *)
LEMMA FlushesStep ==
  ASSUME NEW ch \in ChannelType, NEW u, OInv(ch, u), u.o.batch = None, ~u.o.dropping,
         u.o.gone = "no", NEW f \in Flush(u)
  PROVE  OStep(ch, u, f.u)
<1> DEFINE X == Pair(u.o)
           g == Debt(u.o, None)
           v == f.u
<1>1. /\ Fit(ch, u, None) /\ Set(u.o) /\ u \in UType /\ u.o \in OverlayType
      /\ Good(ch, u, X, g) /\ None \in Replied
  BY Resting, UTyped DEF Fit, Good, Replied
<1>2. X \in SUBSET Frame /\ g \in Replied
  BY <1>1 DEF OverlayType, Replied, Debt, Pair
<1> HIDE DEF X, g
<1>3. Good(ch, v, X, g) /\ Onward(u, v)
  BY <1>1, <1>2, FlushStep
<1> HIDE DEF v
<1>4. /\ v.o.closing = u.o.closing \/ Lost(Link(v.o))
      /\ v.o.current = u.o.current \/ Lost(Link(v.o))
      /\ v.o.pending = u.o.pending \/ Lost(Link(v.o))
      /\ v.o.closing \in {u.o.closing, None}
      /\ v.o.current \in {u.o.current, None} /\ v.o.pending \in {u.o.pending, None}
      /\ v.o.batch = u.o.batch
  BY <1>3, OnwardClosing DEF Onward
<1>5. /\ Pair(v.o) \subseteq X /\ (Pair(v.o) = X \/ Lost(Link(v.o)))
      /\ Below(ch, v.o.current, v.o.pending)
  BY <1>1, <1>4 DEF Pair, X, Below, Fit
<1>6. Fit(ch, v, None)
  <2>1. Good(ch, v, X, Debt(u.o, None))
    BY <1>3 DEF g
  <2> QED BY <1>1, <1>2, <1>4, <1>5, <2>1, Refit
<1>7. Set(v.o) /\ (v.o.reading = 0 => Ready(v.o))
  BY <1>1, <1>3, Resting DEF Onward, Ready
<1> QED BY <1>4, <1>6, <1>7, Arrives DEF OStep, Turns, v

(* There is room again for releases.                                        *)
LEMMA WritableStep == ASSUME IInv, ReleaseWritable PROVE IInv' /\ Moved
<1> DEFINE c == overlay.writer
           Spend(u) == IF u.o.writer = c THEN [u EXCEPT !.o.writer = Spent] ELSE u
<1>1. /\ UI.o.batch = None /\ UI.o = overlay /\ UI.s = sockets /\ UI.o.gone = "no"
      /\ OInv(web, UI) /\ web \in ChannelType
  BY IdleBatch, InvUI DEF ReleaseWritable
<1>2. ASSUME NEW v, OStep(web, UI, v), Becomes(Spend(v)) PROVE IInv' /\ Moved
  <2>1. OStep(web, UI, Spend(v))
    BY Zenon, <1>2, Polled
  <2> HIDE DEF Spend
  <2> QED BY <1>2, <2>1, StepUI
<1>3. CASE HungUp(c) /\ \E u \in DropClient(UI) : Becomes(Spend(u))
  <2>1. PICK u \in DropClient(UI) : Becomes(Spend(u))
    BY Zenon, <1>3
  <2>2. OStep(web, UI, u)
    BY <1>1, <2>1, DropsStep
  <2> QED BY <1>2, <2>1, <2>2
<1>4. CASE /\ ~HungUp(c)
           /\ \E f \in Flush(UI) :
                Becomes(IF f.done THEN [f.u EXCEPT !.o.writer = 0]
                        ELSE IF f.u.o.client = 0 THEN Spend(f.u) ELSE f.u)
  <2>1. PICK f \in Flush(UI) : Becomes(IF f.done THEN [f.u EXCEPT !.o.writer = 0]
                                      ELSE IF f.u.o.client = 0 THEN Spend(f.u) ELSE f.u)
    BY Zenon, <1>4
  <2>2. ~UI.o.dropping
    BY <1>1, <1>4 DEF ReleaseWritable, WriterReady, HungUp, IInv, WriterOK
  <2>3. OStep(web, UI, f.u)
    BY <1>1, <2>2, FlushesStep
  <2>4. CASE f.done
    <3>1. OStep(web, UI, [f.u EXCEPT !.o.writer = 0])
      BY Zenon, <2>3, Polled
    <3> QED BY <2>1, <2>4, <3>1, StepUI
  <2>5. CASE ~f.done /\ f.u.o.client = 0
    BY <1>2, <2>1, <2>3, <2>5
  <2>6. CASE ~f.done /\ f.u.o.client # 0
    BY <2>1, <2>3, <2>6, StepUI
  <2> QED BY <2>4, <2>5, <2>6
<1> QED BY Zenon, <1>3, <1>4 DEF ReleaseWritable

(* Connections are shut while nothing more is said to the client.            *)
Shuts(s, q, s2, q2) ==
  /\ Shut(s, s2) /\ Lost(q2) /\ q2.client \in {q.client, 0} /\ q2.acks = q.acks
  /\ q2.gone = "no" => /\ q.gone = "no" /\ q2.client = q.client
                       /\ \A d \in Connections : s2[d].ui = "open" <=> d = q2.client

(* Shutting all connections keeps the books, whoever lost a frame.          *)
LEMMA ShutsKeeps ==
  ASSUME NEW ch \in ChannelType, NEW s \in SocketsType, NEW q \in LinkType,
         NEW s2 \in SocketsType, NEW q2 \in LinkType, NEW X \in SUBSET Frame,
         NEW Y \in SUBSET X, NEW g \in Replied, NEW g2 \in {g, None},
         Books(ch, s, q, X, g), Shuts(s, q, s2, q2)
  PROVE  Books(ch, s2, q2, Y, g2)
<1>1. SocketsOK(ch, s, q) /\ RepliesOK(ch, s, q, X) /\ NamesOK(ch, s, q, g)
  BY DEF Books, Safe
<1>2. \A i \in 1..Len(q.acks) :
        /\ q.client # 0 => q.acks[i].conn = q.client
        /\ ReplyOK(ch, s, X, q.acks[i])
  BY <1>1 DEF RepliesOK
<1>3. \A i \in 1..Len(q.acks) : ReplyOK(ch, s, Y, q.acks[i])
  BY <1>2 DEF ReplyOK
<1>4. \A i \in 1..Len(q.acks) :
        q.client # 0 /\ q.client = ch.socket /\ q.acks[i].type = "CloseComplete"
          => q.acks[i].sequence = ch.closing /\ ch.closing # 0
  BY <1>1, QueuedLast
<1>5. q.gone = "no" /\ q.client = 0 => q.acks = <<>>
  BY <1>1 DEF RepliesOK
<1>6. LetGo(ch, s, q, Y, s2, q2)
  BY <1>2, <1>3, <1>4, <1>5 DEF LetGo, Shuts
<1> QED BY <1>6, LetGoKeeps

(* Closing every end of the UI process.                                     *)
LEMMA AllCloseds ==
  ASSUME NEW s \in SocketsType, NEW s2, s2 = AllClosed(s)
  PROVE  s2 \in SocketsType /\ Shut(s, s2)
         /\ \A d \in Connections : s2[d].ui # "open" /\ s2[d].toWeb = s[d].toWeb
                                   /\ s2[d].web = s[d].web /\ (Made(s, d) => Made(s2, d))
<1>1. ASSUME NEW d \in Connections
      PROVE  /\ s2[d] \in SocketType /\ s2[d].ui # "open"
             /\ \/ s2[d] = s[d]
                \/ /\ s2[d].web = s[d].web /\ s2[d].toWeb = s[d].toWeb /\ s2[d].toUI = <<>>
                   /\ s2[d].ui = "closed" /\ Made(s, d)
  <2>1. s[d] \in SocketType
    BY DEF SocketsType
  <2>2. CASE s[d].ui \in {"open", "backlog"}
    <3>1. s2[d] = CloseUI(s, d)[d]
      BY <2>2 DEF AllClosed
    <3>2. Made(s, d)
      BY <2>2 DEF Made
    <3>3. CloseUI(s, d) \in SocketsType /\ Shut(s, CloseUI(s, d)) /\ CloseUI(s, d)[d].ui = "closed"
      BY <3>2, CloseUIs
    <3> QED BY <3>1, <3>3 DEF SocketsType, Shut
  <2>3. CASE s[d].ui \notin {"open", "backlog"}
    BY <2>1, <2>3 DEF AllClosed
  <2> QED BY <2>2, <2>3
<1>2. s2 = [d \in Connections |-> s2[d]]
  BY DEF AllClosed
<1>3. s2 \in SocketsType
  BY <1>1, <1>2 DEF SocketsType
<1> QED BY <1>1, <1>3 DEF Shut, Made

(* The UI process has given up: its connections break.                      *)
LEMMA AbortedStep == ASSUME IInv, Aborted PROVE IInv' /\ Moved
<1> DEFINE p == [overlay EXCEPT !.planeEnabled = FALSE, !.plane = None]
           s2 == AllClosed(sockets)
           v == [o |-> p, s |-> s2]
<1>1. /\ OInv(web, UI) /\ UI.o = overlay /\ UI.s = sockets /\ overlay.gone = "aborted"
      /\ web \in ChannelType /\ overlay \in OverlayType /\ sockets \in SocketsType
      /\ Link(overlay) \in LinkType
  BY InvUI, UTyped DEF Aborted
<1>2. /\ p \in OverlayType /\ Alike(overlay, p, {"planeEnabled", "plane"})
      /\ p.planeEnabled = FALSE /\ p.plane = None
  BY Zenon, <1>1, PlaneOff
<1>3. Becomes(v)
  BY DEF Aborted
<1>4. s2 \in SocketsType /\ Shut(sockets, s2)
      /\ \A d \in Connections : s2[d].ui # "open" /\ s2[d].toWeb = sockets[d].toWeb
                                /\ s2[d].web = sockets[d].web /\ (Made(sockets, d) => Made(s2, d))
  BY <1>1, AllCloseds
<1> HIDE DEF p, s2
<1>5. v \in UType /\ v.o = p /\ v.s = s2
  BY <1>2, <1>4 DEF UType
<1> HIDE DEF v
<1>6. /\ p.client = overlay.client /\ p.dropping = overlay.dropping /\ p.gone = overlay.gone
      /\ p.acks = overlay.acks /\ p.current = overlay.current /\ p.writer = overlay.writer
      /\ p.closeAfterDisable = overlay.closeAfterDisable
      /\ p.disableRequested = overlay.disableRequested
  BY <1>2, AlikeAll
<1>7. /\ p.pending = overlay.pending /\ p.batch = overlay.batch /\ p.closing = overlay.closing
      /\ p.reading = overlay.reading /\ p.retry = overlay.retry
  BY <1>2, AlikeAll
<1>8. Link(p) = Link(overlay) /\ Held(p) = Held(overlay)
  BY <1>6, <1>7 DEF Link, Held
<1>9. Books(web, s2, Link(p), Held(p), p.closing)
  <2> DEFINE q == Link(overlay)
             X == Held(overlay)
             g == overlay.closing
  <2>1. Books(web, sockets, q, X, g) /\ X \in SUBSET Frame /\ g \in Replied
    BY <1>1 DEF OInv, Good, OverlayType, Held, Replied
  <2>2. Shuts(sockets, q, s2, q)
    BY <1>1, <1>4 DEF Shuts, Lost, Link
  <2>3. X \in SUBSET X /\ g \in {g, None} /\ q \in LinkType
    BY <1>1
  <2> HIDE DEF q, X, g
  <2>4. Books(web, s2, q, X, g)
    BY <1>1, <1>4, <2>1, <2>2, <2>3, ShutsKeeps
  <2> QED BY <1>7, <1>8, <2>4 DEF q, X, g
<1>10. Calm(p) /\ WriterOK(s2, p) /\ RoomOK(s2)
  <2>1. Calm(overlay) /\ WriterOK(sockets, overlay) /\ RoomOK(sockets)
    BY <1>1 DEF OInv, Good
  <2> QED BY <1>1, <1>2, <1>4, <1>6, <2>1 DEF Calm, WriterOK, RoomOK, OverlayType
<1>11. ReadingOK(p) /\ InOrder(web, p) /\ Turns(UI, v)
  BY <1>1, <1>5, <1>6, <1>7 DEF OInv, ReadingOK, InOrder, Turns
<1>12. OStep(web, UI, v)
  BY <1>5, <1>9, <1>10, <1>11 DEF OStep, OInv, Good
<1> QED BY <1>3, <1>12, StepUI

(* What videoOverlayStop starts with.                                        *)
LEMMA StopsFirst ==
  ASSUME IInv, Idle
  PROVE  LET o == [overlay EXCEPT !.pending = None, !.retry = FALSE, !.writer = 0, !.busy = FALSE]
             u == [UI EXCEPT !.o = o]
         IN  /\ Good(web, u, Held(overlay), overlay.closing) /\ u.s = sockets
             /\ u.o.pending = None /\ u.o.current = overlay.current /\ u.o.batch = None
             /\ u.o.closing = overlay.closing /\ u.o.reading = 0
<1> DEFINE p == [overlay EXCEPT !.pending = None, !.retry = FALSE, !.writer = 0, !.busy = FALSE]
           u == [UI EXCEPT !.o = p]
<1>1. /\ UI \in UType /\ OInv(web, UI) /\ UI.o = overlay /\ UI.s = sockets
      /\ overlay \in OverlayType /\ overlay.batch = None /\ overlay.reading = 0
  BY InvUI, IdleBatch, UTyped
<1>2. /\ p \in OverlayType /\ Alike(overlay, p, {"pending", "retry", "writer", "busy"})
      /\ p.pending = None /\ p.writer = 0
  BY Zenon, <1>1, Stops
<1> HIDE DEF p
<1>3. u \in UType /\ u.o = p /\ u.s = sockets
  BY <1>1, <1>2, Updated
<1> HIDE DEF u
<1>4. /\ p.client = overlay.client /\ p.dropping = overlay.dropping /\ p.gone = overlay.gone
      /\ p.acks = overlay.acks /\ p.current = overlay.current /\ p.plane = overlay.plane
      /\ p.planeEnabled = overlay.planeEnabled
      /\ p.closeAfterDisable = overlay.closeAfterDisable
      /\ p.disableRequested = overlay.disableRequested
  BY <1>2, AlikeAll
<1>5. p.batch = overlay.batch /\ p.closing = overlay.closing /\ p.reading = overlay.reading
  BY <1>2, AlikeAll
<1>6. Link(p) = Link(overlay)
  BY <1>4 DEF Link
<1>7. /\ Calm(overlay) /\ WriterOK(sockets, overlay) /\ RoomOK(sockets)
      /\ Books(web, sockets, Link(overlay), Held(overlay), overlay.closing)
  BY <1>1 DEF OInv, Good
<1>8. 0 \notin Connections
  BY Numbers
<1>9. Calm(p) /\ WriterOK(sockets, p)
  BY <1>2, <1>4, <1>7, <1>8 DEF Calm, WriterOK
<1>10. Good(web, u, Held(overlay), overlay.closing)
  BY <1>3, <1>6, <1>7, <1>9 DEF Good
<1> QED BY Zenon, <1>1, <1>2, <1>3, <1>4, <1>5, <1>10 DEF u, p

(* What it ends with, whether the plane could be taken down or not.          *)
LEMMA StopsLast ==
  ASSUME NEW ch \in ChannelType, NEW u, NEW X \in SUBSET Frame, NEW g \in Replied,
         Good(ch, u, X, g), u.o.pending = None, u.o.batch = None, u.o.closing \in {g, None},
         u.o.current \in X \cup {None}, u.o.reading = 0
  PROVE  LET v == [o |-> [u.o EXCEPT !.client = 0, !.gone = "stopped"], s |-> AllClosed(u.s)]
         IN  OInv(ch, v) /\ v.o.current = u.o.current
<1> DEFINE p == [u.o EXCEPT !.client = 0, !.gone = "stopped"]
           s2 == AllClosed(u.s)
           v == [o |-> p, s |-> s2]
           q == Link(u.o)
           q2 == Link(p)
           Y == Held(p)
<1>1. /\ u \in UType /\ u.o \in OverlayType /\ u.s \in SocketsType /\ q \in LinkType
      /\ Calm(u.o) /\ WriterOK(u.s, u.o) /\ RoomOK(u.s) /\ Books(ch, u.s, q, X, g)
  BY UTyped DEF Good
<1>2. /\ p \in OverlayType /\ Alike(u.o, p, {"client", "gone"}) /\ p.client = 0
      /\ p.gone = "stopped"
  BY Zenon, <1>1, Stopped
<1>3. s2 \in SocketsType /\ Shut(u.s, s2)
      /\ \A d \in Connections : s2[d].ui # "open" /\ s2[d].toWeb = u.s[d].toWeb
                                /\ s2[d].web = u.s[d].web /\ (Made(u.s, d) => Made(s2, d))
  BY <1>1, AllCloseds
<1> HIDE DEF p, s2
<1>4. v \in UType /\ v.o = p /\ v.s = s2
  BY <1>2, <1>3 DEF UType
<1> HIDE DEF v
<1>5. /\ p.dropping = u.o.dropping /\ p.acks = u.o.acks /\ p.current = u.o.current
      /\ p.plane = u.o.plane /\ p.planeEnabled = u.o.planeEnabled /\ p.writer = u.o.writer
      /\ p.closeAfterDisable = u.o.closeAfterDisable
      /\ p.disableRequested = u.o.disableRequested
  BY <1>2, AlikeAll
<1>6. /\ p.pending = u.o.pending /\ p.batch = u.o.batch /\ p.closing = u.o.closing
      /\ p.reading = u.o.reading
  BY <1>2, AlikeAll
<1>7. Shuts(u.s, q, s2, q2) /\ q2 \in LinkType
  BY <1>2, <1>3, <1>5, LinkTyped DEF Shuts, Lost, Link
<1>8. Y \in SUBSET X /\ p.closing \in {g, None}
  BY <1>5, <1>6 DEF Held
<1> HIDE DEF q, q2, Y
<1>9. Books(ch, s2, q2, Y, p.closing)
  BY Zenon, <1>1, <1>3, <1>7, <1>8, ShutsKeeps
<1>10. Calm(p) /\ WriterOK(s2, p) /\ RoomOK(s2)
  BY <1>1, <1>2, <1>3, <1>5 DEF Calm, WriterOK, RoomOK, OverlayType
<1>11. ReadingOK(p) /\ InOrder(ch, p)
  BY <1>2, <1>6 DEF ReadingOK, InOrder, Below
<1>12. OInv(ch, v)
  BY <1>4, <1>9, <1>10, <1>11 DEF OInv, Good, q2, Y
<1> QED BY Zenon, <1>4, <1>5, <1>12 DEF v, p, s2

(* The UI process stops.                                                    *)
LEMMA StopStep == ASSUME IInv, Stop PROVE IInv' /\ Moved
<1> DEFINE o == [overlay EXCEPT !.pending = None, !.retry = FALSE, !.writer = 0, !.busy = FALSE]
           u == [UI EXCEPT !.o = o]
           X == Held(overlay)
           Y == X \ {overlay.current}
           g == overlay.closing
           Ended(d) == [o |-> [d.u.o EXCEPT !.client = 0, !.gone = "stopped"],
                        s |-> AllClosed(d.u.s)]
<1>1. PICK d \in Disable(u) : Becomes(Ended(d))
  BY Zenon DEF Stop
<1>2. /\ Good(web, u, X, g) /\ u.o.pending = None /\ u.o.current = overlay.current
      /\ u.o.batch = None /\ u.o.closing = g /\ u.o.reading = 0
  BY StopsFirst DEF Stop
<1>3. /\ web \in ChannelType /\ ChannelOK(web) /\ overlay \in OverlayType /\ UI.o = overlay
  BY InvUI, UTyped
<1> HIDE DEF u
<1>4. /\ X \in SUBSET Frame /\ g \in Replied /\ overlay.current \in X \cup {None}
  BY <1>3 DEF Held, OverlayType, Replied
<1> HIDE DEF X, g
<1>5. Y \in SUBSET X /\ X \ {overlay.current} \subseteq Y /\ overlay.current \notin Y
      /\ Y \in SUBSET Frame
  BY <1>4
<1> HIDE DEF Y
<1>6. /\ ~d.ok => d.u = u
      /\ d.ok => Good(web, d.u, Y, g) /\ Onto(u, d.u) /\ d.u.o.current = None
  BY <1>1, <1>2, <1>3, <1>4, <1>5, DisableKeeps
<1> DEFINE v == Ended(d)
<1>7. OInv(web, v) /\ v.o.current \in {overlay.current, None}
  <2>1. CASE ~d.ok
    BY Zenon, <1>2, <1>3, <1>4, <1>6, <2>1, StopsLast
  <2>2. CASE d.ok
    <3>1. /\ d.u.o.pending = None /\ d.u.o.batch = None /\ d.u.o.closing \in {g, None}
          /\ d.u.o.current \in Y \cup {None} /\ d.u.o.reading = 0
      BY <1>2, <1>6, <2>2 DEF Onto, Near
    <3> QED BY Zenon, <1>3, <1>4, <1>5, <1>6, <2>2, <3>1, StopsLast
  <2> QED BY <2>1, <2>2
<1>8. Becomes(v)
  BY <1>1
<1> HIDE DEF v
<1>9. OStep(web, UI, v)
  BY <1>3, <1>7 DEF OStep, Turns
<1> QED BY <1>8, <1>9, StepUI

(* Only the connection of the client is shut.                                *)
LEMMA DropOnly ==
  ASSUME NEW ch, NEW u, NEW X, NEW g, Good(ch, u, X, g), NEW v \in DropClient(u),
         NEW c \in Connections, c # u.o.client
  PROVE  v.s[c] = u.s[c]
<1>1. u \in UType /\ u.o \in OverlayType /\ u.s \in SocketsType /\ Calm(u.o) /\ WriterOK(u.s, u.o)
  BY UTyped DEF Good
<1>2. CASE u.o.dropping
  BY <1>2 DEF DropClient
<1>3. CASE ~u.o.dropping
  <2> DEFINE o == [u.o EXCEPT !.dropping = TRUE, !.closeAfterDisable = TRUE, !.writer = 0,
                              !.disableRequested = TRUE, !.pending = None]
  <2>1. /\ o \in OverlayType
        /\ Alike(u.o, o, {"dropping", "closeAfterDisable", "writer", "disableRequested", "pending"})
    BY Zenon, <1>1, Drops
  <2>2. PICK d \in PlaneDown(o) :
          v = IF d.ok THEN FinishDrop([u EXCEPT !.o = Disabled(d.o)])
                      ELSE [u EXCEPT !.o = PutOff(d.o)]
    BY <1>3 DEF DropClient
  <2> HIDE DEF o
  <2>3. o.client = u.o.client /\ o.plane = u.o.plane /\ o.planeEnabled = u.o.planeEnabled
    BY <2>1, AlikeAll
  <2>4. d.o \in OverlayType /\ Alike(o, d.o, {"planeEnabled", "plane"})
    BY <1>1, <2>1, <2>3, PlaneDowns DEF Calm
  <2>5. CASE ~d.ok
    BY <1>1, <2>2, <2>5 DEF UType
  <2>6. CASE d.ok
    <3> DEFINE o1 == Forget(d.o)
               p == [o1 EXCEPT !.disableRequested = FALSE, !.expired = FALSE,
                               !.geometryPending = FALSE, !.closing = None]
               w == [u EXCEPT !.o = p]
    <3>1. o1 \in OverlayType /\ Alike(d.o, o1, {"current"})
      BY <2>4, Forgets DEF Forget
    <3>2. v = FinishDrop(w)
      BY <2>2, <2>6 DEF Disabled
    <3> HIDE DEF o1
    <3>3. /\ p \in OverlayType
          /\ Alike(o1, p, {"disableRequested", "expired", "geometryPending", "closing"})
      BY Zenon, <3>1, Disables
    <3> HIDE DEF p
    <3>4. w.o = p /\ w.s = u.s
      BY <1>1, <3>3, Updated
    <3> HIDE DEF w
    <3>5. p.client = u.o.client
      BY <2>3, <2>4, <3>1, <3>3, AlikeAll
    <3>6. v.s = IF u.o.client = 0 THEN u.s ELSE CloseUI(u.s, u.o.client)
      BY <3>2, <3>4, <3>5 DEF FinishDrop
    <3>7. CASE u.o.client # 0
      <4>1. u.o.client \in Connections /\ Made(u.s, u.o.client)
        BY <1>1, <3>7 DEF OverlayType, WriterOK
      <4> QED BY <1>1, <3>6, <3>7, <4>1, CloseUIs
    <3> QED BY <3>6, <3>7
  <2> QED BY <2>5, <2>6
<1> QED BY <1>2, <1>3

(* videoOverlayAccept refuses: a client is still being let go.               *)
LEMMA RefusesStep ==
  ASSUME NEW ch \in ChannelType, NEW u, NEW v, OStep(ch, u, v), Lost(Link(v.o)),
         NEW c \in Connections, v.s[c].ui = "backlog"
  PROVE  OStep(ch, u, [v EXCEPT !.s = CloseUI(v.s, c)])
<1> DEFINE s2 == CloseUI(v.s, c)
           w == [v EXCEPT !.s = s2]
           q == Link(v.o)
           X == Held(v.o)
           g == v.o.closing
<1>1. /\ v \in UType /\ v.o \in OverlayType /\ v.s \in SocketsType /\ q \in LinkType
      /\ Calm(v.o) /\ WriterOK(v.s, v.o) /\ RoomOK(v.s) /\ Books(ch, v.s, q, X, g)
      /\ ReadingOK(v.o) /\ InOrder(ch, v.o) /\ Turns(u, v)
  BY UTyped DEF OStep, OInv, Good
<1>2. /\ s2 \in SocketsType /\ Shut(v.s, s2) /\ s2[c].ui = "closed"
      /\ \A d \in Connections : d # c => s2[d] = v.s[d]
      /\ \A d \in Connections : Made(v.s, d) => Made(s2, d)
      /\ \A d \in Connections : s2[d].web = v.s[d].web /\ s2[d].toWeb = v.s[d].toWeb
  <2>1. Made(v.s, c)
    BY DEF Made
  <2>2. /\ s2 \in SocketsType /\ Shut(v.s, s2) /\ s2[c].ui = "closed"
        /\ \A d \in Connections : d # c => s2[d] = v.s[d]
        /\ \A d \in Connections : Made(v.s, d) => Made(s2, d)
        /\ \A d \in Connections : s2[d].web = v.s[d].web
    BY <1>1, <2>1, CloseUIs
  <2> HIDE DEF s2
  <2> QED BY <2>2 DEF Shut
<1> HIDE DEF s2
<1>3. w \in UType /\ w.o = v.o /\ w.s = s2
  BY <1>1, <1>2 DEF UType
<1>4. Shuts(v.s, q, s2, q)
  <2>1. q.gone = "no" => \A d \in Connections : v.s[d].ui = "open" <=> d = q.client
    BY <1>1 DEF Books, Safe, SocketsOK
  <2>2. q.gone = "no" => \A d \in Connections : s2[d].ui = "open" <=> d = q.client
    <3> SUFFICES ASSUME q.gone = "no", NEW d \in Connections PROVE s2[d].ui = "open" <=> d = q.client
      OBVIOUS
    <3>1. CASE d = c
      <4>1. v.s[c].ui # "open"
        OBVIOUS
      <4> QED BY <1>2, <2>1, <3>1, <4>1
    <3>2. CASE d # c
      BY <1>2, <2>1, <3>2
    <3> QED BY <3>1, <3>2
  <2> QED BY <1>2, <2>2 DEF Shuts
<1>5. X \in SUBSET Frame /\ X \in SUBSET X /\ g \in Replied /\ g \in {g, None}
  BY <1>1 DEF OverlayType, Held, Replied
<1> HIDE DEF q, X, g
<1>6. Books(ch, s2, q, X, g)
  BY <1>1, <1>2, <1>4, <1>5, ShutsKeeps
<1>7. WriterOK(s2, v.o) /\ RoomOK(s2)
  BY <1>1, <1>2 DEF WriterOK, RoomOK, OverlayType
<1> HIDE DEF w
<1>8. OInv(ch, w)
  BY <1>1, <1>3, <1>6, <1>7 DEF OInv, Good, q, X, g
<1> QED BY <1>1, <1>3, <1>8 DEF OStep, Turns, w, s2

(* A client and a writer are noted.                                           *)
Chosen(o, p, c, n) == p = [o EXCEPT !.client = c, !.writer = n]
(* Serving a client changes two fields.                                     *)
LEMMA ServesTyped ==
  ASSUME NEW o, o \in OverlayType, NEW c, c \in Connections, NEW n, n \in 0..Spent,
         NEW p, Chosen(o, p, c, n)
  PROVE  p \in OverlayType /\ Alike(o, p, {"client", "writer"}) /\ p.client = c /\ p.writer = n
<1>1. p \in OverlayType
  BY Zenon DEF OverlayType, Chosen
<1>2. p.client = c /\ p.writer = n
  BY DEF OverlayType, Chosen
<1>3. DOMAIN o = Fields
  BY DEF OverlayType, Chosen, Fields
<1>4. \A f \in Fields \ {"client", "writer"} : p[f] = o[f]
  BY Zenon, <1>3 DEF OverlayType, Chosen
<1> QED BY <1>1, <1>2, <1>4 DEF Alike

(* It serves the next client, of whose predecessor nothing is left.          *)
LEMMA ServesStep ==
  ASSUME NEW ch \in ChannelType, NEW u, NEW v, OStep(ch, u, v), v.o.batch = None, v.o.reading = 0,
         v.o.client = 0, ~v.o.disableRequested, v.o.gone = "no",
         NEW c \in Connections, v.s[c].ui = "backlog", NEW n \in 0..Spent
  PROVE  OStep(ch, u, [o |-> [v.o EXCEPT !.client = c, !.writer = n],
                       s |-> [v.s EXCEPT ![c].ui = "open"]])
<1> DEFINE p == [v.o EXCEPT !.client = c, !.writer = n]
           s2 == [v.s EXCEPT ![c].ui = "open"]
           w == [o |-> p, s |-> s2]
           q == Link(v.o)
           q2 == Link(p)
<1>1. /\ v \in UType /\ v.o \in OverlayType /\ v.s \in SocketsType /\ q \in LinkType
      /\ Calm(v.o) /\ WriterOK(v.s, v.o) /\ RoomOK(v.s)
      /\ Books(ch, v.s, q, Held(v.o), v.o.closing) /\ ReadingOK(v.o) /\ InOrder(ch, v.o)
      /\ Turns(u, v)
  BY UTyped DEF OStep, OInv, Good
<1>2. v.o.current = None /\ v.o.pending = None /\ v.o.closing = None /\ ~v.o.dropping
  BY <1>1 DEF ReadingOK, Tidy, Calm
<1>3. p \in OverlayType /\ Alike(v.o, p, {"client", "writer"}) /\ p.client = c /\ p.writer = n
  <2>1. v.o \in OverlayType
    BY <1>1
  <2> HIDE DEF w, q, q2, s2
  <2>2. Chosen(v.o, p, c, n)
    BY DEF Chosen
  <2> HIDE DEF p
  <2> QED BY <2>1, <2>2, ServesTyped
<1>4. /\ s2 \in SocketsType /\ s2[c].ui = "open" /\ s2[c].toUI = v.s[c].toUI
      /\ s2[c].web = v.s[c].web /\ s2[c].toWeb = v.s[c].toWeb
      /\ \A d \in Connections : d # c => s2[d] = v.s[d]
  <2>1. v.s[c] \in SocketType /\ DOMAIN v.s = Connections
    BY <1>1 DEF SocketsType
  <2>2. s2[c] = [v.s[c] EXCEPT !.ui = "open"]
    BY <2>1
  <2>3. /\ s2[c] \in SocketType /\ s2[c].ui = "open" /\ s2[c].toUI = v.s[c].toUI
        /\ s2[c].web = v.s[c].web /\ s2[c].toWeb = v.s[c].toWeb
    BY Zenon, <2>1, <2>2 DEF SocketType
  <2>4. \A d \in Connections : d # c => s2[d] = v.s[d]
    BY <2>1
  <2>5. s2 = [d \in Connections |-> s2[d]]
    BY <2>1
  <2>6. \A d \in Connections : s2[d] \in SocketType
    BY <1>1, <2>3, <2>4 DEF SocketsType
  <2> QED BY Zenon, <2>3, <2>4, <2>5, <2>6 DEF SocketsType
<1> HIDE DEF p, s2
<1>5. w \in UType /\ w.o = p /\ w.s = s2
  BY <1>3, <1>4 DEF UType
<1> HIDE DEF w
<1>6. /\ p.dropping = v.o.dropping /\ p.gone = v.o.gone /\ p.acks = v.o.acks
      /\ p.current = None /\ p.plane = v.o.plane /\ p.planeEnabled = v.o.planeEnabled
      /\ p.closeAfterDisable = v.o.closeAfterDisable
      /\ p.disableRequested = v.o.disableRequested /\ p.pending = None
  BY <1>2, <1>3, AlikeAll
<1>7. p.batch = None /\ p.closing = None /\ p.reading = 0
  BY <1>2, <1>3, AlikeAll
<1>8. Held(v.o) = {} /\ Held(p) = {}
  BY <1>2, <1>6, <1>7 DEF Held
<1>9. Books(ch, s2, q2, {}, None)
  <2>1. Books(ch, v.s, q, {}, None)
    BY <1>1, <1>2, <1>8
  <2>2. /\ q.client = 0 /\ q.gone = "no" /\ ~q.dropping /\ q2.client = c /\ q2.acks = q.acks
        /\ q2.dropping = q.dropping /\ q2.gone = q.gone
    BY <1>2, <1>3, <1>6 DEF Link
  <2>3. q2 \in LinkType
    BY <1>3, LinkTyped
  <2> HIDE DEF q, q2
  <2> QED BY <1>1, <1>4, <2>1, <2>2, <2>3, ServeKeeps
<1>10. Calm(p)
  BY <1>1, <1>2, <1>6 DEF Calm
<1>11. WriterOK(s2, p) /\ RoomOK(s2)
  BY <1>1, <1>2, <1>3, <1>4, <1>6 DEF WriterOK, RoomOK, Made
<1>12. ReadingOK(p) /\ InOrder(ch, p)
  <2>1. c # 0
    BY Numbers
  <2> QED BY <1>3, <1>6, <1>7, <2>1 DEF ReadingOK, InOrder, Below, Tidy, Armed
<1>13. OInv(ch, w)
  BY <1>5, <1>7, <1>8, <1>9, <1>10, <1>11, <1>12 DEF OInv, Good, q2
<1> QED BY Zenon, <1>5, <1>6, <1>13 DEF OStep, Turns, w, p, s2

(* A connection is accepted, or refused while the last client is let go.    *)
LEMMA AcceptStep == ASSUME IInv, NEW c \in Connections, Accept(c) PROVE IInv' /\ Moved
<1>1. /\ UI.o.batch = None /\ UI.o.reading = 0 /\ UI.o.gone = "no" /\ OInv(web, UI)
      /\ UI.o = overlay /\ UI.s = sockets /\ web \in ChannelType
      /\ UI.s[c].ui = "backlog" /\ UI.o.dropping \in BOOLEAN
  BY Zenon, IdleBatch, InvUI, UTyped DEF Accept, OverlayType, Good
<1>2. PICK v \in IF overlay.client # 0 THEN DropClient(UI) ELSE {UI} :
        IF v.o.client # 0 \/ v.o.disableRequested
          THEN Becomes([v EXCEPT !.s = CloseUI(v.s, c)])
          ELSE \E n \in IF v.o.writer \in Connections THEN {v.o.writer, c} ELSE {v.o.writer} :
                 Becomes([o |-> [v.o EXCEPT !.client = c, !.writer = n],
                          s |-> [v.s EXCEPT ![c].ui = "open"]])
  BY Zenon DEF Accept
<1>3. /\ OStep(web, UI, v) /\ Lost(Link(v.o)) /\ v.s[c].ui = "backlog"
      /\ v.o.batch = None /\ v.o.reading = 0
      /\ v.o.gone = "no" \/ v.o.disableRequested
  <2>1. CASE overlay.client # 0
    <3>1. v \in DropClient(UI)
      BY Zenon, <1>2, <2>1
    <3>2. OStep(web, UI, v) /\ Lost(Link(v.o))
      BY <1>1, <3>1, DropsStep
    <3>3. Fit(web, UI, None) /\ None \in Replied
      BY <1>1, Resting DEF Replied
    <3>4. Onward(UI, v) /\ (v.o.gone = "no" \/ v.o.disableRequested)
      BY <1>1, <3>1, <3>3, DropFits
    <3>5. c # UI.o.client
      BY <1>1 DEF OInv, Good, Books, Safe, SocketsOK, Link
    <3>6. v.s[c] = UI.s[c]
      BY <1>1, <3>1, <3>5, DropOnly DEF OInv
    <3> QED BY <1>1, <3>2, <3>4, <3>6 DEF Onward
  <2>2. CASE overlay.client = 0
    <3>1. v = UI
      BY Zenon, <1>2, <2>2
    <3> QED BY <1>1, <2>2, <3>1 DEF OStep, Turns, Lost, Link
  <2> QED BY <2>1, <2>2
<1>4. CASE v.o.client # 0 \/ v.o.disableRequested
  <2>1. Becomes([v EXCEPT !.s = CloseUI(v.s, c)])
    BY Zenon, <1>2, <1>4
  <2> QED BY <1>1, <1>3, <2>1, RefusesStep, StepUI
<1>5. CASE v.o.client = 0 /\ ~v.o.disableRequested
  <2>1. PICK n \in IF v.o.writer \in Connections THEN {v.o.writer, c} ELSE {v.o.writer} :
          Becomes([o |-> [v.o EXCEPT !.client = c, !.writer = n],
                   s |-> [v.s EXCEPT ![c].ui = "open"]])
    BY Zenon, <1>2, <1>5
  <2>2. n \in 0..Spent
    <3>1. v.o.writer \in 0..Spent
      BY <1>3, UTyped DEF OStep, OInv, Good, OverlayType
    <3>2. c \in 0..Spent
      BY Numbers DEF Connections, Spent
    <3> QED BY <2>1, <3>1, <3>2
  <2> QED BY Zenon, <1>1, <1>3, <1>5, <2>1, <2>2, ServesStep, StepUI
<1> QED BY <1>4, <1>5

(* The socket is read: its first packet is taken.                            *)
Taken(s, c) == [s EXCEPT ![c].toUI = Tail(s[c].toUI)]
(* Taking a packet from a socket.                                           *)
LEMMA TakenPops ==
  ASSUME NEW s \in SocketsType, NEW c \in Connections, s[c].toUI # <<>>
  PROVE  LET p == Head(s[c].toUI)
         IN  /\ Taken(s, c) \in SocketsType /\ Popped(s, c, Taken(s, c))
             /\ p \in Packet /\ 1 \in 1..Len(s[c].toUI) /\ p = s[c].toUI[1]
<1> DEFINE s2 == Taken(s, c)
           a == s[c].toUI
<1>1. s[c] \in SocketType /\ DOMAIN s = Connections /\ a \in Seq(Packet)
  BY DEF SocketsType, SocketType
<1>2. Tail(a) \in Seq(Packet) /\ Head(a) \in Packet /\ Head(a) = a[1] /\ 1 \in 1..Len(a)
  <2>1. \A x \in Seq(Packet) : x # <<>> =>
          Tail(x) \in Seq(Packet) /\ Head(x) \in Packet /\ Head(x) = x[1] /\ 1 \in 1..Len(x)
    BY EmptySeq, LenProperties, HeadTailProperties, ElementOfSeq
  <2> QED BY <1>1, <2>1
<1>3. s2[c] = [s[c] EXCEPT !.toUI = Tail(a)]
  BY <1>1 DEF Taken
<1> HIDE DEF a
<1>4. /\ s2[c] \in SocketType /\ s2[c].toUI = Tail(a) /\ s2[c].web = s[c].web
      /\ s2[c].ui = s[c].ui /\ s2[c].toWeb = s[c].toWeb
  BY Zenon, <1>1, <1>2, <1>3 DEF SocketType
<1>5. \A d \in Connections : d # c => s2[d] = s[d]
  BY <1>1 DEF Taken
<1>6. s2 \in SocketsType
  <2>1. s2 = [d \in Connections |-> s2[d]]
    BY Zenon, <1>1 DEF Taken
  <2>2. \A d \in Connections : s2[d] \in SocketType
    BY <1>4, <1>5 DEF SocketsType
  <2> QED BY <2>1, <2>2 DEF SocketsType
<1> QED BY <1>2, <1>4, <1>5, <1>6 DEF Popped, a

(* What is known when a packet was read from connection c.                   *)
Reading(ch, u, c, p) ==
  /\ OInv(ch, u) /\ u.o.client = c /\ u.o.reading = c /\ u.o.gone = "no"
  /\ u.s[c].ui = "open" /\ u.s[c].toUI # <<>> /\ p = Head(u.s[c].toUI)
TakenUI(u, c) == [o |-> u.o, s |-> Taken(u.s, c)]

(* What the client callback is about to do.                                 *)
LEMMA ReadingIs ==
  ASSUME IInv, ReadPacket
  PROVE  /\ overlay.reading \in Connections
         /\ Reading(web, UI, overlay.reading, Head(sockets[overlay.reading].toUI))
         /\ \E v \in TakePacket(TakenUI(UI, overlay.reading),
                                Head(sockets[overlay.reading].toUI), overlay.reading) : Becomes(v)
<1> DEFINE c == overlay.reading
<1>1. /\ c # 0 /\ overlay.gone = "no" /\ sockets[c].ui = "open" /\ sockets[c].toUI # <<>>
      /\ \E v \in TakePacket([UI EXCEPT !.s[c].toUI = Tail(@)], Head(sockets[c].toUI), c) : Becomes(v)
  BY DEF ReadPacket
<1>2. c \in Connections /\ overlay.client = c
  <2>1. c \in Connections
    BY <1>1 DEF IInv, TypeOK, OverlayType
  <2> QED BY <1>1, <2>1 DEF IInv, Books, Safe, SocketsOK, Link
<1>3. [UI EXCEPT !.s[c].toUI = Tail(@)] = TakenUI(UI, c)
  BY DEF UI, TakenUI, Taken
<1> QED BY <1>1, <1>2, <1>3, InvUI DEF Reading

(* The packet it reads, and what it makes of it.                            *)
LEMMA PacketIs ==
  ASSUME NEW ch \in ChannelType, NEW u, NEW c \in Connections, NEW p, Reading(ch, u, c, p)
  PROVE  /\ p \in Packet /\ u \in UType /\ TakenUI(u, c) \in UType
         /\ u.o \in OverlayType /\ u.s \in SocketsType /\ Link(u.o) \in LinkType
         /\ Popped(u.s, c, Taken(u.s, c)) /\ 1 \in 1..Len(u.s[c].toUI) /\ p = u.s[c].toUI[1]
         /\ p.type = "Frame" => FrameOf(p, c) \in Frame
         /\ p.type = "Hide" => HideOf(p, c) \in Reply
<1>1. u \in UType /\ u.o \in OverlayType /\ u.s \in SocketsType /\ Link(u.o) \in LinkType
  BY UTyped DEF Reading, OInv, Good
<1>2. /\ p \in Packet /\ Popped(u.s, c, Taken(u.s, c)) /\ 1 \in 1..Len(u.s[c].toUI)
      /\ p = u.s[c].toUI[1] /\ Taken(u.s, c) \in SocketsType
  BY <1>1, TakenPops DEF Reading
<1>3. TakenUI(u, c) \in UType
  BY <1>1, <1>2 DEF TakenUI, UType
<1>4. p.type # "Rect" => p.sequence # 0
  BY <1>2 DEF Reading, OInv, Good, Books, Safe, SocketsOK
<1>5. p.type \in {"Frame", "Hide"} => p.sequence \in 1..MaxSequence
  <2>1. p.sequence \in 0..MaxSequence
    BY <1>2 DEF Packet
  <2>2. p.type \in {"Frame", "Hide"} => p.sequence # 0
    BY <1>4
  <2>3. MaxSequence \in Nat
    BY Numbers
  <2> QED BY <2>1, <2>2, <2>3
<1>6. p.rect \in Rects
  BY <1>2 DEF Packet
<1>7. p.type = "Frame" => FrameOf(p, c) \in Frame
  BY <1>5, <1>6 DEF FrameOf, Frame
<1>8. p.type = "Hide" => HideOf(p, c) \in Reply
  BY <1>5 DEF HideOf, Reply
<1> QED BY <1>1, <1>2, <1>3, <1>7, <1>8

(* The packet leaves the books.                                              *)
LEMMA TakesGood ==
  ASSUME NEW ch \in ChannelType, NEW u, NEW c \in Connections, NEW p, Reading(ch, u, c, p),
         NEW Y \in SUBSET Frame, NEW g \in Replied,
         p.type = "Frame" => Y = Held(u.o) \cup {FrameOf(p, c)},
         p.type # "Frame" => Y = Held(u.o),
         p.type = "Hide" /\ c = ch.socket /\ Live(ch, u.s, Link(u.o)) => g = HideOf(p, c),
         ~(p.type = "Hide" /\ c = ch.socket /\ Live(ch, u.s, Link(u.o))) => g = u.o.closing
  PROVE  Good(ch, TakenUI(u, c), Y, g)
<1> DEFINE s == u.s
           s2 == Taken(u.s, c)
           q == Link(u.o)
           X == Held(u.o)
           g1 == u.o.closing
<1>1. /\ u \in UType /\ TakenUI(u, c) \in UType /\ u.o \in OverlayType /\ s \in SocketsType
      /\ q \in LinkType /\ Popped(s, c, s2)
  BY PacketIs
<1>2. /\ Calm(u.o) /\ WriterOK(s, u.o) /\ RoomOK(s) /\ Books(ch, s, q, X, g1)
      /\ q.client = c /\ q.gone = "no" /\ s[c].toUI # <<>> /\ p = Head(s[c].toUI)
  BY DEF Reading, OInv, Good, Link
<1>3. X \in SUBSET Frame /\ g1 \in Replied /\ s2 \in SocketsType
  BY <1>1 DEF OverlayType, Held, Replied, TakenUI, UType
<1>4. Books(ch, s2, q, Y, g)
  <2> HIDE DEF X, g1, q, s, s2
  <2>1. LET x == Head(s[c].toUI)
        IN  /\ x.type = "Frame" => Y = X \cup {FrameOf(x, c)}
            /\ x.type # "Frame" => Y = X
            /\ x.type = "Hide" /\ c = ch.socket /\ Live(ch, s, q) => g = HideOf(x, c)
            /\ ~(x.type = "Hide" /\ c = ch.socket /\ Live(ch, s, q)) => g = g1
    BY <1>2 DEF X, g1, q, s
  <2> QED BY <1>1, <1>2, <1>3, <2>1, PopKeeps
<1>5. \A d \in Connections : /\ s2[d].web = s[d].web /\ s2[d].toWeb = s[d].toWeb
                             /\ s2[d].ui = s[d].ui
  BY <1>1 DEF Popped
<1>6. WriterOK(s2, u.o) /\ RoomOK(s2)
  BY <1>1, <1>2, <1>5 DEF WriterOK, RoomOK, Made, OverlayType
<1> QED BY <1>1, <1>2, <1>4, <1>6 DEF Good, TakenUI

(* A frame that is held was sent before the one that is read.                *)
LEMMA HeldOlder ==
  ASSUME NEW ch \in ChannelType, NEW u, NEW c \in Connections, NEW p, Reading(ch, u, c, p),
         p.type = "Frame", NEW x \in Held(u.o)
  PROVE  Below(ch, x, FrameOf(p, c))
<1> SUFFICES ASSUME x.conn > ch.born, c > ch.born PROVE x.sequence < p.sequence
  BY DEF Below, FrameOf
<1>1. FrameOK(ch, u.s, x)
  BY DEF Reading, OInv, Good, Books, Safe, FramesOK
<1>2. Unread(u.s, c, "Frame", 1) /\ u.s[c].toUI[1] = p
  BY PacketIs DEF Unread
<1> QED BY <1>1, <1>2 DEF FrameOK

(* A frame: the one held back before it is released.                         *)
LEMMA TakesFrame ==
  ASSUME NEW ch \in ChannelType, NEW u, NEW c \in Connections, NEW p, ChannelOK(ch),
         Reading(ch, u, c, p), p.type = "Frame", NEW v \in TakePacket(TakenUI(u, c), p, c)
  PROVE  OStep(ch, u, v)
<1> DEFINE n == FrameOf(p, c)
           X == Held(u.o) \cup {n}
           Y == {u.o.current, u.o.pending, n} \ {None}
           g == u.o.closing
           f == u.o.batch
           u0 == TakenUI(u, c)
<1>1. PICK w \in SendRelease(u0, u0.o.batch) : v = [w EXCEPT !.o.batch = n]
  BY DEF TakePacket
<1>2. /\ n \in Frame /\ n # None /\ u.o \in OverlayType /\ u0.o = u.o
      /\ Reading(ch, u, c, p) /\ OInv(ch, u)
  BY PacketIs, NullAssumption DEF TakenUI, Reading
<1>3. /\ u.o.current \in Frame \cup {None} /\ u.o.pending \in Frame \cup {None}
      /\ f \in Frame \cup {None} /\ g \in Replied
  BY <1>2 DEF OverlayType, Replied
<1>4. X \in SUBSET Frame /\ Y \in SUBSET Frame /\ Y \in SUBSET X /\ X \ {f} \subseteq Y
      /\ f \in X \cup {None}
  BY <1>2, <1>3 DEF Held
<1>5. Good(ch, u0, X, g)
  <2> HIDE DEF u0
  <2>1. p.type = "Frame" => X = Held(u.o) \cup {FrameOf(p, c)}
    OBVIOUS
  <2>2. ~(p.type = "Hide" /\ c = ch.socket /\ Live(ch, u.s, Link(u.o)))
    OBVIOUS
  <2> HIDE DEF X, g
  <2> QED BY <1>3, <1>4, <2>1, <2>2, TakesGood DEF u0, g
<1>6. f \in Y => ~(f.conn > ch.born)
  <2> SUFFICES ASSUME f \in Y PROVE ~(f.conn > ch.born)
    OBVIOUS
  <2>1. f \in Frame /\ f # None /\ f \in Held(u.o)
    BY <1>3 DEF Held
  <2>2. CASE f = u.o.current
    BY <1>2, <2>1, <2>2, NotAgain DEF OInv, InOrder
  <2>3. CASE f = u.o.pending
    BY <1>2, <2>1, <2>3, NotAgain DEF OInv, InOrder
  <2>4. CASE f = n
    <3>1. Below(ch, f, n)
      BY <2>1, HeldOlder
    <3> QED BY <2>1, <2>4, <3>1, NotAgain
  <2> QED BY <2>2, <2>3, <2>4
<1>7. Below(ch, u.o.current, n) /\ Below(ch, u.o.pending, n)
  <2>1. ASSUME NEW x \in {u.o.current, u.o.pending} PROVE Below(ch, x, n)
    <3>1. CASE x = None
      BY <3>1 DEF Below
    <3>2. CASE x # None
      BY <3>2, HeldOlder DEF Held
    <3> QED BY <3>1, <3>2
  <2> QED BY <2>1
<1> HIDE DEF X, Y, n, g, f
<1>8. Went(ch, u0, w, Y, g)
  <2>1. w \in SendRelease(u0, f)
    BY <1>1, <1>2 DEF f
  <2> HIDE DEF u0
  <2> QED BY <1>3, <1>4, <1>5, <1>6, <2>1, ReleaseHeld
<1> DEFINE b == [w.o EXCEPT !.batch = n]
<1>9. b \in OverlayType /\ Alike(w.o, b, {"batch"}) /\ b.batch = n
  <2>1. w.o \in OverlayType /\ n \in Frame \cup {None}
    BY <1>2, <1>8, UTyped DEF Went, Good
  <2> QED BY <2>1, Batches
<1>10. v = [w EXCEPT !.o = b]
  BY <1>1
<1>11. {"batch"} \in SUBSET Loose
  BY DEF Loose
<1> HIDE DEF b, u0
<1>12. v.o = b /\ v.s = w.s /\ Good(ch, v, Y, g)
  BY <1>8, <1>9, <1>10, <1>11, LooseKeeps DEF Went
<1>13. /\ b.current = w.o.current /\ b.pending = w.o.pending /\ b.closing = w.o.closing
       /\ b.client = w.o.client /\ b.dropping = w.o.dropping /\ b.gone = w.o.gone
       /\ b.reading = w.o.reading /\ b.retry = w.o.retry
       /\ b.disableRequested = w.o.disableRequested
  BY <1>9, AlikeAll
<1>14. /\ Near(u0, w) /\ w.o.current \in {u.o.current, None} /\ w.o.pending \in {u.o.pending, None}
       /\ w.o.closing \in {g, None}
       /\ (w.o.closing = g \/ Lost(Link(w.o)))
       /\ (w.o.current = u.o.current \/ Lost(Link(w.o)))
       /\ (w.o.pending = u.o.pending \/ Lost(Link(w.o)))
       /\ (Set(u.o) => Set(w.o)) /\ w.o.reading = c
  BY <1>2, <1>8, WentNear, OnwardClosing DEF g, Went, Onward, Reading
<1>15. Good(ch, v, Held(b), b.closing)
  <2>1. Held(b) \subseteq Y /\ b.closing \in {g, None}
    BY <1>9, <1>13, <1>14 DEF Held, Y
  <2>2. CASE Lost(Link(w.o))
    <3>1. Lost(Link(v.o))
      BY <1>12, <1>13, <2>2 DEF Lost, Link
    <3>2. Held(b) \in SUBSET Y
      BY <2>1
    <3> QED BY <1>3, <1>4, <1>12, <2>1, <3>1, <3>2, LostGood
  <2>3. CASE ~Lost(Link(w.o))
    <3>1. Held(b) = Y /\ b.closing = g
      BY <1>9, <1>13, <1>14, <2>3 DEF Held, Y
    <3> QED BY <1>12, <3>1
  <2> QED BY <2>2, <2>3
<1>16. InOrder(ch, b)
  <2>1. Below(ch, u.o.current, u.o.pending)
    BY <1>2 DEF OInv, InOrder
  <2>2. Below(ch, b.current, b.pending)
    BY <1>13, <1>14, <2>1 DEF Below
  <2>3. Below(ch, b.current, n) /\ Below(ch, b.pending, n)
    BY <1>7, <1>13, <1>14 DEF Below
  <2> QED BY <1>9, <2>2, <2>3 DEF InOrder
<1>17. ReadingOK(b)
  <2>1. b.reading # 0
    BY <1>13, <1>14, Numbers
  <2>2. Set(u.o)
    BY <1>2 DEF OInv, ReadingOK, Set
  <2>3. b.gone = "no" => Armed(b)
    BY <1>13, <1>14, <2>2 DEF Set, Armed
  <2> QED BY <2>1, <2>3 DEF ReadingOK
<1> QED BY <1>12, <1>13, <1>14, <1>15, <1>16, <1>17 DEF OStep, OInv, Turns

(* The batch is flushed before the packet is looked at.                      *)
LEMMA FlushesFirst ==
  ASSUME NEW ch \in ChannelType, NEW u, NEW c \in Connections, NEW p, ChannelOK(ch),
         Reading(ch, u, c, p), p.type # "Frame", NEW h \in Replied,
         p.type = "Hide" /\ c = ch.socket /\ Live(ch, u.s, Link(u.o)) =>
           h = HideOf(p, c) /\ u.o.closing = None,
         ~(p.type = "Hide" /\ c = ch.socket /\ Live(ch, u.s, Link(u.o))) => h = None,
         NEW v \in FlushBatch(TakenUI(u, c))
  PROVE  Fit(ch, v, h) /\ Past(TakenUI(u, c), v) /\ v.o.batch = None /\ Set(v.o)
<1> DEFINE u0 == TakenUI(u, c)
           X == Held(u.o)
           g == Debt(u.o, h)
<1>1. u0.o = u.o /\ OInv(ch, u) /\ u.o \in OverlayType /\ u.o.closing \in Replied
  BY PacketIs DEF TakenUI, Reading, OverlayType, Replied
<1>2. X \in SUBSET Frame /\ g \in Replied
  BY <1>1 DEF OverlayType, Held, Debt
<1>3. /\ p.type = "Hide" /\ c = ch.socket /\ Live(ch, u.s, Link(u.o)) => g = HideOf(p, c)
      /\ ~(p.type = "Hide" /\ c = ch.socket /\ Live(ch, u.s, Link(u.o))) => g = u.o.closing
  BY DEF Debt
<1>4. Good(ch, u0, X, g)
  <2>1. p.type # "Frame" => X = Held(u.o)
    OBVIOUS
  <2> HIDE DEF X, g, u0
  <2> QED BY <1>2, <1>3, <2>1, TakesGood DEF u0
<1>5. h = None \/ u.o.closing = None
  OBVIOUS
<1> HIDE DEF u0
<1>6. Batched(ch, u0, h)
  BY <1>1, <1>4, <1>5 DEF Batched, OInv, X, g
<1>7. Fit(ch, v, h) /\ Past(u0, v) /\ v.o.batch = None
  BY <1>6, FlushBatchKeeps DEF u0
<1>8. Set(u0.o)
  BY <1>1 DEF OInv, ReadingOK, Set
<1>9. Set(v.o)
  BY <1>7, <1>8 DEF Past
<1> QED BY <1>7, <1>9 DEF u0

(* What the callback leaves when it goes on reading.                         *)
LEMMA ReadsOn ==
  ASSUME NEW ch, NEW u, NEW c \in Connections, NEW p, Reading(ch, u, c, p), NEW v, NEW w,
         Past(TakenUI(u, c), v), v.o.batch = None, Onto(v, w), Fit(ch, w, None), Set(w.o)
  PROVE  OStep(ch, u, w)
<1>1. TakenUI(u, c).o = u.o /\ u.o.reading = c /\ c # 0
  BY Numbers DEF TakenUI, Reading
<1>2. w.o.batch = None /\ w.o.reading # 0
  BY <1>1 DEF Past, Onto, Near
<1>3. Turns(u, w)
  <2>1. w.o.current \in {v.o.current, v.o.pending, None}
    BY DEF Onto, Near
  <2>2. /\ v.o.current \in {u.o.current, u.o.pending, u.o.batch, None}
        /\ v.o.pending \in {u.o.pending, u.o.batch, None}
    BY <1>1 DEF Past
  <2> QED BY <2>1, <2>2 DEF Turns
<1> QED BY <1>2, <1>3, Arrives DEF OStep

(* A rectangle.                                                              *)
LEMMA TakesRect ==
  ASSUME NEW ch \in ChannelType, NEW u, NEW c \in Connections, NEW p, ChannelOK(ch),
         Reading(ch, u, c, p), p.type = "Rect", NEW w \in TakePacket(TakenUI(u, c), p, c)
  PROVE  OStep(ch, u, w)
<1> DEFINE Ends(v) == IF v.o.current = None THEN {v}
                      ELSE Recommit([v EXCEPT !.o.lastRect = p.rect])
<1>1. TakePacket(TakenUI(u, c), p, c) = UNION {Ends(v) : v \in FlushBatch(TakenUI(u, c))}
  BY DEF TakePacket
<1> HIDE DEF Ends
<1>2. PICK v \in FlushBatch(TakenUI(u, c)) : w \in Ends(v)
  BY <1>1
<1>3. None \in Replied
  BY DEF Replied
<1>4. Fit(ch, v, None) /\ Past(TakenUI(u, c), v) /\ v.o.batch = None /\ Set(v.o)
  BY <1>2, <1>3, FlushesFirst
<1>5. CASE v.o.current = None
  <2>1. w = v
    BY <1>2, <1>5 DEF Ends
  <2> QED BY <1>4, <2>1, OnwardSame, Onwards, ReadsOn
<1>6. CASE v.o.current # None
  <2> DEFINE b == [v.o EXCEPT !.lastRect = p.rect]
             k == [v EXCEPT !.o = b]
  <2>1. w \in Recommit(k)
    <3>1. w \in Recommit([v EXCEPT !.o.lastRect = p.rect])
      BY <1>2, <1>6 DEF Ends
    <3> QED BY <3>1
  <2>2. b \in OverlayType /\ Alike(v.o, b, {"lastRect"})
    <3>1. p.rect \in Rects
      BY PacketIs DEF Packet
    <3>2. v.o \in OverlayType
      BY <1>4, UTyped DEF Fit, Good
    <3> QED BY <3>1, <3>2, Moves
  <2>3. {"lastRect"} \in SUBSET Loose
    BY DEF Loose
  <2> HIDE DEF b
  <2>4. k.o = b /\ k.s = v.s /\ Good(ch, k, Pair(v.o), Debt(v.o, None))
    BY <1>4, <2>2, <2>3, LooseKeeps DEF Fit
  <2> HIDE DEF k
  <2>5. /\ b.client = v.o.client /\ b.dropping = v.o.dropping /\ b.gone = v.o.gone
        /\ b.reading = v.o.reading /\ b.batch = v.o.batch /\ b.closing = v.o.closing
        /\ b.disableRequested = v.o.disableRequested /\ b.retry = v.o.retry
        /\ b.pending = v.o.pending /\ b.current = v.o.current
    BY <2>2, AlikeAll
  <2>6. Fit(ch, k, None)
    BY <1>4, <2>4, <2>5 DEF Fit, Pair, Debt
  <2>7. Onto(v, k) /\ Set(k.o)
    BY <1>4, <2>4, <2>5 DEF Near, Onto, Tidy, Lost, Link, Set, Armed
  <2>8. Fit(ch, w, None) /\ Onto(k, w) /\ Set(w.o)
    BY <1>3, <2>1, <2>6, <2>7, RecommitKeeps
  <2>9. Onto(v, w)
    BY <2>7, <2>8, OntoTrans
  <2> QED BY <1>4, <2>8, <2>9, ReadsOn
<1> QED BY <1>5, <1>6

(* A close request is noted, once the batch is flushed: when it is that of   *)
(* the channel it is in the books already, otherwise nobody waits for it.    *)
LEMMA NotesClose ==
  ASSUME NEW ch \in ChannelType, NEW u, NEW c \in Connections, NEW p, ChannelOK(ch),
         Reading(ch, u, c, p), p.type = "Hide", NEW v \in FlushBatch(TakenUI(u, c))
  PROVE  /\ Good(ch, v, Pair(v.o), HideOf(p, c)) /\ Past(TakenUI(u, c), v) /\ v.o.batch = None
         /\ Below(ch, v.o.current, v.o.pending) /\ Set(v.o)
<1> DEFINE h == HideOf(p, c)
           q == Link(u.o)
           g == u.o.closing
<1>1. /\ u.o \in OverlayType /\ u.s \in SocketsType /\ q \in LinkType /\ h \in Reply
      /\ Books(ch, u.s, q, Held(u.o), g) /\ g \in Replied /\ h \in Replied /\ None \in Replied
      /\ TakenUI(u, c).o = u.o
  BY PacketIs DEF Reading, OInv, Good, OverlayType, Replied, TakenUI
<1>2. /\ u.o.client = c /\ c # 0 /\ q.client = c /\ q.gone = "no" /\ u.s[c].ui = "open"
  BY Numbers DEF Reading, Link
<1>3. NamesOK(ch, u.s, q, g) /\ OnceOK(ch, u.s, q, Held(u.o), g)
  BY <1>1 DEF Books
<1>4. Unread(u.s, c, "Hide", 1) /\ u.s[c].toUI[1] = p
  BY PacketIs DEF Unread
<1>5. g # None => g.conn = c
  BY <1>2, <1>3 DEF NamesOK
<1>6. h.type = "CloseComplete" /\ h.conn = c /\ h.sequence = p.sequence /\ h # None
  BY <1>1, NullAssumption DEF HideOf
<1>7. CASE c = ch.socket /\ Live(ch, u.s, q)
  <2>1. Asked(ch, u.s)
    BY <1>4, <1>7 DEF Asked
  <2>2. g = None
    BY <1>3, <1>5, <1>7, <2>1 DEF OnceOK, Owed
  <2>3. Fit(ch, v, h) /\ Past(TakenUI(u, c), v) /\ v.o.batch = None /\ Set(v.o)
    <3> HIDE DEF h
    <3> QED BY <1>1, <1>7, <2>2, FlushesFirst DEF h
  <2>4. Debt(v.o, h) = h
    BY <1>6, <2>3 DEF Fit, Debt
  <2> QED BY <2>3, <2>4 DEF Fit
<1>8. CASE ~(c = ch.socket /\ Live(ch, u.s, q))
  <2>1. Fit(ch, v, None) /\ Past(TakenUI(u, c), v) /\ v.o.batch = None /\ Set(v.o)
    BY <1>1, <1>8, FlushesFirst
  <2> DEFINE g1 == v.o.closing
             q1 == Link(v.o)
             X == Pair(v.o)
  <2>2. /\ v \in UType /\ v.o \in OverlayType /\ v.s \in SocketsType /\ q1 \in LinkType
        /\ Good(ch, v, X, g1) /\ Books(ch, v.s, q1, X, g1)
    BY <2>1, UTyped, NoDebt DEF Fit, Good
  <2>3. X \in SUBSET Frame /\ g1 \in Replied
    BY <2>2 DEF Pair, OverlayType, Replied
  <2>4. /\ v.o.client \in {c, 0} /\ g1 \in {g, None}
        /\ Accepted(v.s, c) /\ (Lost(q) => Lost(q1)) /\ q1.client = v.o.client
    <3>1. Accepted(TakenUI(u, c).s, c)
      BY Zenon, <1>2, PacketIs DEF Accepted, TakenUI, Popped
    <3> QED BY <1>1, <1>2, <2>1, <3>1 DEF Past, Link
  <2>5. Live(ch, v.s, q1) => c # ch.socket
    <3> SUFFICES ASSUME Live(ch, v.s, q1), c = ch.socket PROVE FALSE
      OBVIOUS
    <3>1. ~Live(ch, u.s, q)
      BY <1>8
    <3>2. q.dropping
      BY <1>2, <3>1 DEF Live
    <3>3. Lost(q1)
      BY <2>4, <3>2 DEF Lost
    <3>4. q1.gone = "no" /\ q1.client # c
      BY <2>4, <3>3 DEF Live, Lost
    <3>5. v.s[c].ui # "open"
      BY <2>2, <3>4 DEF Books, Safe, SocketsOK
    <3> QED BY <2>4, <3>5 DEF Live, Accepted
  <2>6. /\ Live(ch, v.s, q1) => ~Owed(ch, g1) /\ ~Owed(ch, h)
        /\ Owed(ch, h) => h.sequence = ch.closing /\ ch.closing # 0
        /\ Accepted(v.s, h.conn) /\ (q1.client # 0 => h.conn = q1.client)
    <3>1. Live(ch, v.s, q1) => ~Owed(ch, g1) /\ ~Owed(ch, h)
      BY <1>5, <1>6, <2>4, <2>5 DEF Owed
    <3>2. Owed(ch, h) => h.sequence = ch.closing /\ ch.closing # 0
      <4>1. c = ch.socket => p.sequence = ch.closing /\ ch.closing # 0
        BY <1>2, <1>3, <1>4 DEF NamesOK
      <4> QED BY <1>6, <4>1 DEF Owed
    <3> QED BY <1>6, <2>4, <3>1, <3>2
  <2>7. Books(ch, v.s, q1, X, h)
    <3> HIDE DEF X, q1, g1, h
    <3>1. \A x \in X : x.conn > ch.born => x \in X
      OBVIOUS
    <3> QED BY <1>1, <1>6, <2>2, <2>3, <2>6, <3>1, OldOnly
  <2>8. Good(ch, v, X, h)
    BY <2>2, <2>7 DEF Good
  <2> QED BY <2>1, <2>8 DEF Fit
<1> QED BY <1>7, <1>8

(* Reading a close request is a step in order.                              *)
LEMMA TakesHide ==
  ASSUME NEW ch \in ChannelType, NEW u, NEW c \in Connections, NEW p, ChannelOK(ch),
         Reading(ch, u, c, p), p.type = "Hide", NEW w \in TakePacket(TakenUI(u, c), p, c)
  PROVE  OStep(ch, u, w)
<1> DEFINE h == HideOf(p, c)
           Asks(v) == [v EXCEPT !.o = [v.o EXCEPT !.disableRequested = TRUE, !.closing = h]]
<1>1. TakePacket(TakenUI(u, c), p, c) = UNION {DrainPending(Asks(v)) : v \in FlushBatch(TakenUI(u, c))}
  BY Zenon DEF TakePacket, HideOf
<1>2. PICK v \in FlushBatch(TakenUI(u, c)) : w \in DrainPending(Asks(v))
  <2> HIDE DEF Asks
  <2> QED BY <1>1
<1>3. /\ Good(ch, v, Pair(v.o), h) /\ Past(TakenUI(u, c), v) /\ v.o.batch = None
      /\ Below(ch, v.o.current, v.o.pending) /\ Set(v.o)
  BY <1>2, NotesClose
<1>4. h \in Reply /\ h # None /\ None \in Replied /\ v.o \in OverlayType /\ v \in UType
  BY <1>3, PacketIs, NullAssumption, UTyped DEF Replied, Good
<1> DEFINE b == [v.o EXCEPT !.disableRequested = TRUE, !.closing = h]
           k == Asks(v)
<1> HIDE DEF h
<1>5. /\ b \in OverlayType /\ Alike(v.o, b, {"disableRequested", "closing"})
      /\ b.disableRequested = TRUE /\ b.closing = h
  BY Zenon, <1>4, Hides
<1>6. k = [v EXCEPT !.o = b]
  OBVIOUS
<1>7. w \in DrainPending(k)
  BY <1>2
<1> HIDE DEF b, k, Asks
<1>8. k \in UType /\ k.o = b /\ k.s = v.s
  BY <1>4, <1>5, <1>6, Updated
<1>9. /\ b.client = v.o.client /\ b.dropping = v.o.dropping /\ b.gone = v.o.gone
      /\ b.reading = v.o.reading /\ b.batch = v.o.batch /\ b.pending = v.o.pending
      /\ b.current = v.o.current
  BY <1>5, AlikeAll
<1>10. Calm(b)
  <2>1. /\ b.plane = v.o.plane /\ b.planeEnabled = v.o.planeEnabled
        /\ b.closeAfterDisable = v.o.closeAfterDisable
    BY <1>5, AlikeAll
  <2> QED BY <1>3, <1>5, <1>9, <2>1 DEF Good, Calm
<1>11. {"disableRequested", "closing"} \in SUBSET Unbooked
  BY DEF Unbooked, Fields
<1>12. Good(ch, k, Pair(v.o), h)
  BY Zenon, <1>3, <1>5, <1>8, <1>10, <1>11, ReGood
<1>13. Fit(ch, k, None)
  <2>1. Pair(k.o) = Pair(v.o) /\ Debt(k.o, None) = h
    BY <1>4, <1>5, <1>8, <1>9 DEF Pair, Debt
  <2> QED BY <1>3, <1>8, <1>9, <1>12, <2>1 DEF Fit
<1>14. Fit(ch, w, None) /\ Onto(k, w) /\ Set(w.o)
  BY <1>4, <1>7, <1>13, DrainKeeps
<1>15. TakenUI(u, c).o = u.o /\ u.o.reading = c /\ c # 0
  BY Numbers DEF TakenUI, Reading
<1>16. w.o.batch = None /\ w.o.reading # 0
  BY <1>3, <1>8, <1>9, <1>14, <1>15 DEF Past, Onto, Near
<1>17. Turns(u, w)
  <2>1. w.o.current \in {v.o.current, v.o.pending, None}
    BY <1>8, <1>9, <1>14 DEF Onto, Near
  <2>2. /\ v.o.current \in {u.o.current, u.o.pending, u.o.batch, None}
        /\ v.o.pending \in {u.o.pending, u.o.batch, None}
    BY <1>3, <1>15 DEF Past
  <2> QED BY <2>1, <2>2 DEF Turns
<1> QED BY <1>14, <1>16, <1>17, Arrives DEF OStep

(* The client callback reads a packet.                                      *)
LEMMA ReadPacketStep == ASSUME IInv, ReadPacket PROVE IInv' /\ Moved
<1> DEFINE c == overlay.reading
           p == Head(sockets[c].toUI)
<1>1. c \in Connections /\ Reading(web, UI, c, p)
      /\ \E v \in TakePacket(TakenUI(UI, c), p, c) : Becomes(v)
  BY ReadingIs
<1> HIDE DEF c, p
<1>2. PICK v \in TakePacket(TakenUI(UI, c), p, c) : Becomes(v)
  BY <1>1
<1>3. web \in ChannelType /\ ChannelOK(web)
  BY InvUI
<1>4. p.type \in {"Frame", "Rect", "Hide"}
  BY <1>1, <1>3, PacketIs DEF Packet
<1>5. OStep(web, UI, v)
  BY <1>1, <1>2, <1>3, <1>4, TakesFrame, TakesRect, TakesHide
<1> QED BY <1>2, <1>5, StepUI

(* The channel and its connections.                                          *)
WType == [ch : ChannelType, s : SocketsType]
Fine(w) == ChannelOK(w.ch) /\ RoomOK(w.s) /\ WriterOK(w.s, overlay) /\ InOrder(w.ch, overlay)
Kept(w) ==
  /\ w \in WType /\ Fine(w)
  /\ Books(w.ch, w.s, Link(overlay), Held(overlay), overlay.closing)
Apart(a, b, F) ==
  \A f \in {"socket", "closing", "owner", "rect", "inFlight", "next", "control", "backoff",
            "early", "born"} \ F : b[f] = a[f]

(* The fields two channels share, one by one.                               *)
LEMMA ApartAll ==
  ASSUME NEW a, NEW b, NEW F, Apart(a, b, F)
  PROVE  /\ "socket" \notin F => b.socket = a.socket
         /\ "closing" \notin F => b.closing = a.closing
         /\ "owner" \notin F => b.owner = a.owner
         /\ "rect" \notin F => b.rect = a.rect
         /\ "inFlight" \notin F => b.inFlight = a.inFlight
         /\ "next" \notin F => b.next = a.next
         /\ "control" \notin F => b.control = a.control
         /\ "early" \notin F => b.early = a.early
         /\ "born" \notin F => b.born = a.born
  BY DEF Apart

(* The two halves of a channel and its sockets have their types.            *)
LEMMA WTyped ==
  ASSUME NEW w \in WType
  PROVE  w.ch \in ChannelType /\ w.s \in SocketsType /\ w = [ch |-> w.ch, s |-> w.s]
  BY DEF WType

(* A channel and its sockets, put together.                                 *)
LEMMA WMade ==
  ASSUME NEW ch \in ChannelType, NEW s \in SocketsType
  PROVE  LET w == [ch |-> ch, s |-> s] IN w \in WType /\ w.ch = ch /\ w.s = s
  BY DEF WType

(* Replacing one socket leaves the others.                                  *)
LEMMA Puts ==
  ASSUME NEW s \in SocketsType, NEW c \in Connections, NEW z \in SocketType
  PROVE  LET t == [s EXCEPT ![c] = z]
         IN  t \in SocketsType /\ t[c] = z /\ \A d \in Connections : d # c => t[d] = s[d]
  BY DEF SocketsType

(* Closing the channel changes two fields.                                  *)
LEMMA ChannelCloses ==
  ASSUME NEW ch \in ChannelType
  PROVE  LET p == [ch EXCEPT !.socket = 0, !.control = None]
         IN  p \in ChannelType /\ p.socket = 0 /\ p.control = None
             /\ Apart(ch, p, {"socket", "control"})
<1> DEFINE p == [ch EXCEPT !.socket = 0, !.control = None]
<1>1. p \in ChannelType
  BY Zenon DEF ChannelType
<1>2. p.socket = 0 /\ p.control = None
  BY DEF ChannelType
<1>3. Apart(ch, p, {"socket", "control"})
  BY Zenon DEF ChannelType, Apart
<1> QED BY <1>1, <1>2, <1>3

(* Closing the end of the WebProcess changes three fields.                  *)
LEMMA SocketCloses ==
  ASSUME NEW z \in SocketType, NEW b \in BOOLEAN
  PROVE  LET y == [z EXCEPT !.web = FALSE, !.toWeb = <<>>, !.reset = b]
         IN  /\ y \in SocketType /\ y.web = FALSE /\ y.toWeb = <<>>
             /\ y.ui = z.ui /\ y.toUI = z.toUI
<1> DEFINE y == [z EXCEPT !.web = FALSE, !.toWeb = <<>>, !.reset = b]
<1>1. <<>> \in Seq(Reply)
  OBVIOUS
<1>2. y \in SocketType
  BY <1>1, Zenon DEF SocketType
<1>3. y.web = FALSE /\ y.toWeb = <<>> /\ y.ui = z.ui /\ y.toUI = z.toUI
  BY DEF SocketType
<1> QED BY <1>2, <1>3

(* Closing shuts this end of the connection and keeps the samples.           *)
Shuttered(w, v) ==
  /\ v \in WType /\ v.ch.socket = 0 /\ v.ch.control = None
  /\ Apart(w.ch, v.ch, {"socket", "control"})
  /\ \A d \in Connections : /\ v.s[d].toUI = w.s[d].toUI /\ v.s[d].ui = w.s[d].ui
                            /\ d # w.ch.socket => v.s[d].web = w.s[d].web
                                                  /\ v.s[d].toWeb = w.s[d].toWeb
                            /\ d = w.ch.socket => v.s[d].web = FALSE /\ v.s[d].toWeb = <<>>
(* Closing a channel shuts its connection alone.                            *)
LEMMA ChannelShuts ==
  ASSUME NEW w \in WType, w.ch.socket # 0
  PROVE  Shuttered(w, CloseChannel(w))
<1> DEFINE c == w.ch.socket
           b == w.s[c].ui # "closed" /\ w.s[c].toWeb # <<>>
           p == [w.ch EXCEPT !.socket = 0, !.control = None]
           z == [w.s[c] EXCEPT !.web = FALSE, !.toWeb = <<>>, !.reset = b]
           t == [w.s EXCEPT ![c] = z]
<1>1. CloseChannel(w) = [ch |-> p, s |-> t]
  BY DEF CloseChannel
<1>2. w.ch \in ChannelType /\ w.s \in SocketsType /\ c \in Connections /\ b \in BOOLEAN
  BY WTyped, ChannelNumbers
<1>3. w.s[c] \in SocketType
  BY <1>2 DEF SocketsType
<1>4. /\ p \in ChannelType /\ p.socket = 0 /\ p.control = None
      /\ Apart(w.ch, p, {"socket", "control"})
  BY Zenon, <1>2, ChannelCloses
<1> HIDE DEF p, b
<1>5. /\ z \in SocketType /\ z.web = FALSE /\ z.toWeb = <<>>
      /\ z.ui = w.s[c].ui /\ z.toUI = w.s[c].toUI
  BY Zenon, <1>2, <1>3, SocketCloses
<1> HIDE DEF z
<1>6. t \in SocketsType /\ t[c] = z /\ \A d \in Connections : d # c => t[d] = w.s[d]
  BY <1>2, <1>5, Puts
<1> HIDE DEF t
<1>7. CloseChannel(w) \in WType /\ CloseChannel(w).ch = p /\ CloseChannel(w).s = t
  BY <1>1, <1>4, <1>6, WMade
<1> QED BY <1>4, <1>5, <1>6, <1>7 DEF Shuttered

(* What the UI process asks of the connections outlives a call of the channel. *)
LEMMA StaysFine ==
  ASSUME NEW w \in WType, NEW v \in WType, Fine(w), overlay \in OverlayType, ChannelOK(v.ch),
         v.ch.born = w.ch.born,
         \A d \in Connections : /\ Made(w.s, d) => Made(v.s, d)
                                /\ v.s[d].web => w.s[d].web \/ ~Made(w.s, d)
                                /\ v.s[d].toWeb = w.s[d].toWeb \/ v.s[d].toWeb = <<>>
  PROVE  Fine(v)
<1>1. ChannelOK(w.ch) /\ RoomOK(w.s) /\ WriterOK(w.s, overlay) /\ InOrder(w.ch, overlay)
  BY DEF Fine
<1>2. RoomOK(v.s)
  <2> SUFFICES ASSUME NEW d \in Connections PROVE Len(v.s[d].toWeb) <= RoomForReleases
    BY DEF RoomOK
  <2>1. Len(w.s[d].toWeb) <= RoomForReleases /\ RoomForReleases \in Nat
    BY <1>1, Numbers DEF RoomOK
  <2>2. CASE v.s[d].toWeb = <<>>
    <3>1. Len(v.s[d].toWeb) = 0
      BY <2>2
    <3> QED BY <2>1, <3>1
  <2> QED BY <2>1, <2>2
<1>3. WriterOK(v.s, overlay)
  <2>1. overlay.client \in {0} \cup Connections
    BY DEF OverlayType
  <2> QED BY <1>1, <2>1 DEF WriterOK
<1>4. InOrder(v.ch, overlay)
  BY <1>1 DEF InOrder, Below
<1> QED BY <1>2, <1>3, <1>4 DEF Fine

(* No connection is unmade.                                                 *)
LEMMA SameMade ==
  ASSUME NEW s, NEW s2, \A d \in Connections : s2[d].ui = s[d].ui
  PROVE  \A d \in Connections : Made(s, d) => Made(s2, d)
  BY DEF Made

(* A connection may be closed whenever the samples are safe: u is how it was *)
(* found, ch what the channel knows of its samples by now.                   *)
Closable(u, ch, w) ==
  /\ ch \in ChannelType /\ u \in WType /\ w \in WType /\ overlay \in OverlayType
  /\ Fine(u) /\ Safe(ch, u.s, Link(overlay), Held(overlay)) /\ ChannelOK(w.ch)
  /\ \A d \in Connections : /\ w.s[d].toUI = u.s[d].toUI /\ w.s[d].ui = u.s[d].ui
                            /\ d # ch.socket => w.s[d].web = u.s[d].web
                                                /\ w.s[d].toWeb = u.s[d].toWeb
  /\ w.ch.socket # 0 /\ w.ch.socket = ch.socket /\ w.ch.born = ch.born /\ u.ch.born = ch.born
  /\ w.ch.inFlight = ch.inFlight /\ ch.next <= w.ch.next
  /\ ~w.ch.early /\ (w.ch.closing # 0 => w.ch.owner = None)
Granted(s) ==
  overlay.closing # None =>
    /\ overlay.closing.type = "CloseComplete" /\ Accepted(s, overlay.closing.conn)
    /\ Link(overlay).client # 0 => overlay.closing.conn = Link(overlay).client

(* The parts of the UI process have their types.                            *)
LEMMA OverlayParts ==
  ASSUME overlay \in OverlayType
  PROVE  Held(overlay) \in SUBSET Frame /\ overlay.closing \in Replied
         /\ Link(overlay) \in LinkType
<1>1. /\ overlay.current \in Frame \cup {None} /\ overlay.pending \in Frame \cup {None}
      /\ overlay.batch \in Frame \cup {None} /\ overlay.closing \in Reply \cup {None}
  BY DEF OverlayType
<1> QED BY <1>1, LinkTyped DEF Held, Replied

(* Closing the channel keeps the invariant, and the samples.                *)
LEMMA ClosesChannel ==
  ASSUME NEW u, NEW ch, NEW w, Closable(u, ch, w), Granted(u.s)
  PROVE  Kept(CloseChannel(w)) /\ CloseChannel(w).ch.inFlight = w.ch.inFlight
         /\ CloseChannel(w).ch.born = w.ch.born
<1> DEFINE v == CloseChannel(w)
           q == Link(overlay)
           X == Held(overlay)
           g == overlay.closing
<1>1. /\ w \in WType /\ ch \in ChannelType /\ overlay \in OverlayType /\ w.ch.socket # 0
      /\ w.ch \in ChannelType /\ w.s \in SocketsType /\ u \in WType /\ u.s \in SocketsType
  BY WTyped DEF Closable
<1>2. Shuttered(w, v)
  BY <1>1, ChannelShuts
<1> HIDE DEF v
<1>3. /\ v \in WType /\ v.ch \in ChannelType /\ v.s \in SocketsType
      /\ v.ch.socket = 0 /\ v.ch.control = None
      /\ v.ch.closing = w.ch.closing /\ v.ch.owner = w.ch.owner /\ v.ch.inFlight = w.ch.inFlight
      /\ v.ch.next = w.ch.next /\ v.ch.early = w.ch.early /\ v.ch.born = w.ch.born
  BY <1>2, WTyped, ApartAll DEF Shuttered
<1>4. \A d \in Connections : /\ v.s[d].toUI = u.s[d].toUI /\ v.s[d].ui = u.s[d].ui
                             /\ d # ch.socket => v.s[d].web = u.s[d].web
                                                   /\ v.s[d].toWeb = u.s[d].toWeb
                             /\ d = ch.socket => v.s[d].web = FALSE /\ v.s[d].toWeb = <<>>
  BY <1>2 DEF Shuttered, Closable
<1>5. X \in SUBSET Frame /\ g \in Replied /\ q \in LinkType
  BY <1>1, OverlayParts
<1> HIDE DEF X, g, q
<1>6. g # None => /\ g.type = "CloseComplete" /\ Accepted(u.s, g.conn)
                  /\ q.client # 0 => g.conn = q.client
  BY DEF Granted, g, q
<1>7. Safe(ch, u.s, q, X)
  BY DEF Closable, q, X
<1>8. /\ ~v.ch.early /\ (v.ch.closing # 0 => v.ch.owner = None)
      /\ v.ch.inFlight = ch.inFlight /\ ch.next <= v.ch.next /\ v.ch.born = ch.born
  BY <1>3 DEF Closable
<1>9. Books(v.ch, v.s, q, X, g)
  BY Zenon, <1>1, <1>3, <1>4, <1>5, <1>6, <1>7, <1>8, CloseKeeps
<1>10. Fine(v)
  <2>1. Fine(u) /\ ChannelOK(w.ch) /\ u.ch.born = v.ch.born
    BY <1>3 DEF Closable
  <2>2. ChannelOK(v.ch)
    BY <1>3, <2>1 DEF ChannelOK
  <2>3. \A d \in Connections : Made(u.s, d) => Made(v.s, d)
    BY <1>4, SameMade
  <2> QED BY <1>1, <1>3, <1>4, <2>1, <2>2, <2>3, StaysFine
<1> QED BY <1>3, <1>9, <1>10 DEF Kept, X, g, q, v

(* The first ones of a sequence, as far as something goes on.                *)
LEMMA FirstOnes ==
  ASSUME NEW L \in Nat, NEW M \in SUBSET (1..L), \A d \in M : 1..d \subseteq M
  PROVE  LET n == Cardinality(M) IN n \in 0..L /\ M = 1..n
<1> DEFINE n == Cardinality(M)
<1>1. IsFiniteSet(1..L) /\ Cardinality(1..L) = L
  BY FS_Interval
<1>2. IsFiniteSet(M) /\ n \in Nat /\ n <= L
  BY Zenon, <1>1, FS_Subset, FS_CardinalityType
<1>3. ASSUME NEW d \in M PROVE d <= n
  <2>1. IsFiniteSet(1..d) /\ Cardinality(1..d) = d
    BY FS_Interval
  <2>2. 1..d \in SUBSET M
    OBVIOUS
  <2>3. Cardinality(1..d) <= Cardinality(M)
    BY <1>2, <2>2, FS_Subset
  <2> QED BY <2>1, <2>3
<1>4. IsFiniteSet(1..n) /\ Cardinality(1..n) = n
  BY <1>2, FS_Interval
<1>5. M \subseteq 1..n
  BY <1>2, <1>3
<1>6. M = 1..n
  BY Zenon, <1>2, <1>4, <1>5, FS_Subset
<1> QED BY <1>2, <1>6

(* What drainReleaseAcksLocked reads, and what is in flight after it.        *)
Answers(w) == w.s[w.ch.socket].toWeb
ConfirmsAt(w, i) == Answers(w)[i].type = "CloseComplete" /\ Answers(w)[i].sequence = w.ch.closing
Told(w) == {i \in 1..Len(Answers(w)) : \A j \in 1..(i - 1) : ~ConfirmsAt(w, j)}
Left(w) ==
  w.ch.inFlight \
    {Answers(w)[i].sequence : i \in {j \in Told(w) : Answers(w)[j].type = "Release"}}
Emptied(w) ==
  [w EXCEPT !.ch.inFlight = Left(w),
            !.s[w.ch.socket].toWeb = SubSeq(@, Cardinality(Told(w)) + 1, Len(@))]

(* Reading replies, spelled out.                                            *)
LEMMA DrainIs ==
  ASSUME NEW w, w.ch.socket # 0
  PROVE  Drain(w) =
           IF w.s[w.ch.socket].reset THEN [w EXCEPT !.s[w.ch.socket].reset = FALSE]
           ELSE IF \E i \in Told(w) : ConfirmsAt(w, i)
             THEN CloseChannel([Emptied(w) EXCEPT
                    !.ch = [Emptied(w).ch EXCEPT !.closing = 0, !.early = Left(w) # {}]])
           ELSE IF PeerGone(w) THEN CloseChannel(Emptied(w)) ELSE Emptied(w)
  BY Zenon DEF Drain, Told, Left, Emptied, ConfirmsAt, Answers

(* Taking samples back changes one field.                                   *)
LEMMA ChannelReads ==
  ASSUME NEW ch \in ChannelType, NEW L \in SUBSET ch.inFlight
  PROVE  LET p == [ch EXCEPT !.inFlight = L]
         IN  p \in ChannelType /\ p.inFlight = L /\ Apart(ch, p, {"inFlight"})
<1> DEFINE p == [ch EXCEPT !.inFlight = L]
<1>1. L \in SUBSET (1..MaxSequence)
  BY ChannelNumbers
<1>2. p \in ChannelType
  BY <1>1, Zenon DEF ChannelType
<1>3. p.inFlight = L
  BY DEF ChannelType
<1>4. Apart(ch, p, {"inFlight"})
  BY DEF ChannelType, Apart
<1> QED BY <1>2, <1>3, <1>4

(* A confirmed close changes two fields.                                    *)
LEMMA ChannelConfirms ==
  ASSUME NEW ch \in ChannelType, NEW b \in BOOLEAN
  PROVE  LET p == [ch EXCEPT !.closing = 0, !.early = b]
         IN  p \in ChannelType /\ p.closing = 0 /\ p.early = b /\ Apart(ch, p, {"closing", "early"})
<1> DEFINE p == [ch EXCEPT !.closing = 0, !.early = b]
<1>1. 0 \in 0..MaxSequence
  BY Numbers
<1>2. p \in ChannelType
  BY <1>1, Zenon DEF ChannelType
<1>3. p.closing = 0 /\ p.early = b
  BY DEF ChannelType
<1>4. Apart(ch, p, {"closing", "early"})
  BY Zenon DEF ChannelType, Apart
<1> QED BY <1>2, <1>3, <1>4

(* Reading replies changes one field of a socket.                           *)
LEMMA SocketReads ==
  ASSUME NEW z \in SocketType, NEW a \in Seq(Reply)
  PROVE  LET y == [z EXCEPT !.toWeb = a]
         IN  /\ y \in SocketType /\ y.toWeb = a
             /\ y.web = z.web /\ y.ui = z.ui /\ y.toUI = z.toUI
<1> DEFINE y == [z EXCEPT !.toWeb = a]
<1>1. y \in SocketType
  BY Zenon DEF SocketType
<1> QED BY <1>1 DEF SocketType

With(w, p, t) == [w EXCEPT !.ch = p, !.s = t]
(* A channel and its sockets, both replaced.                                *)
LEMMA Both ==
  ASSUME NEW w \in WType, NEW p \in ChannelType, NEW t \in SocketsType
  PROVE  With(w, p, t) = [ch |-> p, s |-> t]
<1> DEFINE v == With(w, p, t)
<1>1. v \in WType
  BY Zenon DEF WType, With
<1>2. v.ch = p /\ v.s = t
  BY DEF WType, With
<1> HIDE DEF v
<1>3. v = [ch |-> v.ch, s |-> v.s]
  BY <1>1, WTyped
<1> QED BY <1>2, <1>3 DEF v

(* The replies from n + 1 on are left.                                       *)
Emptying(w, v, n) ==
  /\ v \in WType /\ Apart(w.ch, v.ch, {"inFlight"}) /\ v.ch.inFlight = Left(w)
  /\ \A d \in Connections : /\ v.s[d].toUI = w.s[d].toUI /\ v.s[d].ui = w.s[d].ui
                            /\ v.s[d].web = w.s[d].web
                            /\ d # w.ch.socket => v.s[d].toWeb = w.s[d].toWeb
  /\ v.s[w.ch.socket].toWeb = SubSeq(Answers(w), n + 1, Len(Answers(w)))
(* The replies that are read are the first ones.                            *)
LEMMA EmptiedIs ==
  ASSUME NEW w \in WType, w.ch.socket # 0
  PROVE  /\ Emptying(w, Emptied(w), Cardinality(Told(w)))
         /\ Told(w) = 1..Cardinality(Told(w)) /\ Cardinality(Told(w)) \in 0..Len(Answers(w))
<1> DEFINE c == w.ch.socket
           a == Answers(w)
           n == Cardinality(Told(w))
           y == [w.s[c] EXCEPT !.toWeb = SubSeq(a, n + 1, Len(a))]
           t == [w.s EXCEPT ![c] = y]
           p == [w.ch EXCEPT !.inFlight = Left(w)]
<1>1. w.ch \in ChannelType /\ w.s \in SocketsType /\ c \in Connections
  BY WTyped, ChannelNumbers
<1>2. w.s[c] \in SocketType
  BY <1>1 DEF SocketsType
<1>3. a \in Seq(Reply) /\ Len(a) \in Nat
  BY <1>1, SocketTyped DEF Answers
<1>4. Told(w) \in SUBSET (1..Len(a)) /\ \A d \in Told(w) : 1..d \subseteq Told(w)
  <2>1. ASSUME NEW d \in Told(w), NEW e \in 1..d PROVE e \in Told(w)
    BY <1>3, <2>1 DEF Told
  <2> QED BY <2>1 DEF Told
<1>5. n \in 0..Len(a) /\ Told(w) = 1..n
  BY <1>3, <1>4, FirstOnes
<1>6. SubSeq(a, n + 1, Len(a)) \in Seq(Reply)
  <2> HIDE DEF a, n
  <2>1. n \in Nat /\ n <= Len(a)
    BY <1>3, <1>5
  <2> QED BY <1>3, <2>1, Halves
<1>7. /\ y \in SocketType /\ y.toWeb = SubSeq(a, n + 1, Len(a))
      /\ y.web = w.s[c].web /\ y.ui = w.s[c].ui /\ y.toUI = w.s[c].toUI
  BY Zenon, <1>2, <1>6, SocketReads
<1>8. t \in SocketsType /\ t[c] = y /\ \A d \in Connections : d # c => t[d] = w.s[d]
  <2> HIDE DEF y
  <2> QED BY <1>1, <1>7, Puts
<1>9. Left(w) \in SUBSET w.ch.inFlight
  BY DEF Left
<1>10. p \in ChannelType /\ p.inFlight = Left(w) /\ Apart(w.ch, p, {"inFlight"})
  BY <1>1, <1>9, ChannelReads
<1>11. Emptied(w) = [ch |-> p, s |-> t]
  <2>1. Emptied(w) = With(w, p, t)
    BY DEF Emptied, Answers, With
  <2> HIDE DEF p, t
  <2>2. With(w, p, t) = [ch |-> p, s |-> t]
    BY <1>8, <1>10, Both
  <2> QED BY <2>1, <2>2
<1> HIDE DEF p, t, y
<1>12. Emptied(w) \in WType /\ Emptied(w).ch = p /\ Emptied(w).s = t
  BY <1>8, <1>10, <1>11, WMade
<1> QED BY Zenon, <1>5, <1>7, <1>8, <1>10, <1>12 DEF Emptying

(* What a call leaves to the channel.                                        *)
Less(w, v) ==
  /\ v.ch.inFlight \subseteq w.ch.inFlight /\ v.ch.born = w.ch.born /\ v.ch.next = w.ch.next
  /\ v.ch.closing \in {w.ch.closing, 0} /\ v.ch.owner = w.ch.owner

(* The invariant of a channel, in parts.                                    *)
LEMMA KeptParts ==
  ASSUME NEW w, Kept(w), overlay \in OverlayType
  PROVE  /\ w \in WType /\ w.ch \in ChannelType /\ w.s \in SocketsType /\ ChannelOK(w.ch) /\ Fine(w)
         /\ Books(w.ch, w.s, Link(overlay), Held(overlay), overlay.closing)
         /\ Safe(w.ch, w.s, Link(overlay), Held(overlay)) /\ Granted(w.s)
         /\ Held(overlay) \in SUBSET Frame /\ overlay.closing \in Replied
         /\ Link(overlay) \in LinkType
         /\ ~w.ch.early /\ (w.ch.closing # 0 => w.ch.owner = None)
         /\ (w.ch.control # None => w.ch.socket # 0 /\ w.ch.control \in Packet)
<1>1. w \in WType /\ Fine(w) /\ w.ch \in ChannelType /\ w.s \in SocketsType
  BY WTyped DEF Kept
<1>2. /\ Books(w.ch, w.s, Link(overlay), Held(overlay), overlay.closing)
      /\ NamesOK(w.ch, w.s, Link(overlay), overlay.closing)
  BY DEF Kept, Books
<1>3. Granted(w.s)
  BY <1>2 DEF Granted, NamesOK
<1>4. w.ch.control \in Packet \cup {None}
  BY <1>1 DEF ChannelType
<1> QED BY <1>1, <1>2, <1>3, <1>4, OverlayParts DEF Fine, Books, NamesOK

(* The samples whose releases were read come back, and no other.             *)
LEMMA LeftSafe ==
  ASSUME NEW w, Kept(w), overlay \in OverlayType, w.ch.socket # 0, NEW v,
         NEW n, Emptying(w, v, n)
  PROVE  /\ Safe(v.ch, w.s, Link(overlay), Held(overlay)) /\ v.ch \in ChannelType
         /\ v.s \in SocketsType /\ v \in WType /\ ChannelOK(v.ch) /\ Less(w, v)
         /\ v.ch.socket = w.ch.socket /\ v.ch.early = w.ch.early /\ v.ch.closing = w.ch.closing
         /\ v.ch.control = w.ch.control /\ v.ch.owner = w.ch.owner
         /\ Reads(w.ch, w.s, Link(overlay), v.ch, w.s)
<1>1. /\ w.ch \in ChannelType /\ w.s \in SocketsType /\ ChannelOK(w.ch)
      /\ Safe(w.ch, w.s, Link(overlay), Held(overlay))
      /\ Held(overlay) \in SUBSET Frame /\ Link(overlay) \in LinkType
  BY KeptParts
<1>2. /\ v \in WType /\ Apart(w.ch, v.ch, {"inFlight"}) /\ v.ch.inFlight = Left(w)
      /\ v.ch \in ChannelType /\ v.s \in SocketsType
  BY WTyped DEF Emptying
<1>3. /\ v.ch.socket = w.ch.socket /\ v.ch.born = w.ch.born /\ v.ch.next = w.ch.next
      /\ v.ch.closing = w.ch.closing /\ v.ch.owner = w.ch.owner /\ v.ch.early = w.ch.early
      /\ v.ch.control = w.ch.control
  BY <1>2, ApartAll
<1>4. Left(w) \subseteq w.ch.inFlight
  BY DEF Left
<1>5. \A m \in w.ch.inFlight \ Left(w) :
        \E i \in 1..Len(Answers(w)) : Answers(w)[i].type = "Release" /\ Answers(w)[i].sequence = m
  <2>1. Told(w) \subseteq 1..Len(Answers(w))
    BY DEF Told
  <2> QED BY <2>1 DEF Left
<1>6. w.ch.next <= v.ch.next
  BY <1>1, <1>3, ChannelNumbers
<1>7. Reads(w.ch, w.s, Link(overlay), v.ch, w.s)
  BY <1>2, <1>3, <1>4, <1>5, <1>6 DEF Reads, Answers
<1>8. Safe(v.ch, w.s, Link(overlay), Held(overlay))
  BY <1>1, <1>2, <1>7, ReadsSafe
<1>9. ChannelOK(v.ch)
  <2>1. IsFiniteSet(w.ch.inFlight) /\ w.ch.inFlight \subseteq 1..(w.ch.next - 1)
        /\ Cardinality(w.ch.inFlight) <= MaxInFlight /\ w.ch.closing < w.ch.next
    <3>1. w.ch.next \in Nat
      BY <1>1, ChannelNumbers
    <3>2. w.ch.next - 1 \in Int
      BY <3>1
    <3>3. IsFiniteSet(1..(w.ch.next - 1))
      BY <3>2, FS_Interval
    <3> QED BY Zenon, <1>1, <3>3, FS_Subset DEF ChannelOK
  <2>2. Left(w) \in SUBSET w.ch.inFlight
    BY <1>4
  <2>3. Cardinality(Left(w)) <= Cardinality(w.ch.inFlight) /\ IsFiniteSet(Left(w))
    BY <2>1, <2>2, FS_Subset
  <2>4. Cardinality(Left(w)) \in Nat /\ Cardinality(w.ch.inFlight) \in Nat /\ MaxInFlight \in Nat
    BY <2>1, <2>3, FS_CardinalityType, Numbers
  <2>5. Cardinality(Left(w)) <= MaxInFlight
    BY <2>1, <2>3, <2>4
  <2> QED BY <1>2, <1>3, <2>1, <2>2, <2>5 DEF ChannelOK
<1> QED BY <1>2, <1>3, <1>4, <1>7, <1>8, <1>9 DEF Less

(* When no reply confirms the close request all of them are read.            *)
LEMMA ReadToEnd ==
  ASSUME NEW w \in WType, w.ch.socket # 0, \A i \in Told(w) : ~ConfirmsAt(w, i)
  PROVE  /\ Cardinality(Told(w)) = Len(Answers(w)) /\ Told(w) = 1..Len(Answers(w))
         /\ SubSeq(Answers(w), Cardinality(Told(w)) + 1, Len(Answers(w))) = <<>>
<1> DEFINE n == Cardinality(Told(w))
           a == Answers(w)
<1>1. Told(w) = 1..n /\ n \in 0..Len(a)
  BY EmptiedIs
<1>2. a \in Seq(Reply) /\ Len(a) \in Nat
  BY WTyped, ChannelNumbers, SocketTyped DEF Answers
<1>3. n = Len(a)
  <2> SUFFICES ASSUME n # Len(a) PROVE FALSE
    OBVIOUS
  <2>1. n \in Nat /\ n + 1 \in 1..Len(a) /\ 1..((n + 1) - 1) = 1..n
    BY <1>1, <1>2
  <2>2. n + 1 \in Told(w)
    <3>1. \A j \in 1..((n + 1) - 1) : ~ConfirmsAt(w, j)
      BY <1>1, <2>1
    <3> HIDE DEF n
    <3> QED BY <2>1, <3>1 DEF Told
  <2>3. n + 1 \in 1..n
    BY <1>1, <2>2
  <2> HIDE DEF n
  <2> QED BY <2>1, <2>3
<1>4. SubSeq(a, n + 1, Len(a)) = <<>>
  <2> HIDE DEF n, a
  <2>1. SubSeq(a, n + 1, Len(a)) = SubSeq(a, Len(a) + 1, Len(a))
    BY <1>3
  <2>2. Len(a) + 1 \in Int /\ Len(a) \in Int /\ Len(a) < Len(a) + 1
    BY <1>2
  <2> QED BY Zenon, <2>1, <2>2, SubSeqEmpty
<1> QED BY <1>1, <1>3, <1>4

(* ECONNRESET is read once: one field.                                      *)
LEMMA SocketReset ==
  ASSUME NEW z \in SocketType
  PROVE  LET y == [z EXCEPT !.reset = FALSE]
         IN  /\ y \in SocketType /\ y.toWeb = z.toWeb
             /\ y.web = z.web /\ y.ui = z.ui /\ y.toUI = z.toUI
<1> DEFINE y == [z EXCEPT !.reset = FALSE]
<1>1. y \in SocketType
  BY Zenon DEF SocketType
<1> QED BY <1>1 DEF SocketType

(* An error that was waiting is read first, and once.                        *)
ResetOf(w, v) == v = [w EXCEPT !.s[w.ch.socket].reset = FALSE]
(* Reading ECONNRESET keeps the invariant.                                  *)
LEMMA DrainResets ==
  ASSUME NEW w, Kept(w), overlay \in OverlayType, w.ch.socket # 0,
         NEW v, ResetOf(w, v)
  PROVE  Kept(v) /\ v.ch = w.ch
<1> DEFINE c == w.ch.socket
           y == [w.s[c] EXCEPT !.reset = FALSE]
           t == [w.s EXCEPT ![c] = y]
           ch == w.ch
           q == Link(overlay)
           X == Held(overlay)
           g == overlay.closing
<1>1. /\ w \in WType /\ w.ch \in ChannelType /\ w.s \in SocketsType /\ c \in Connections
      /\ Fine(w) /\ ChannelOK(ch)
      /\ Books(ch, w.s, q, X, g) /\ X \in SUBSET Frame /\ g \in Replied /\ q \in LinkType
  BY KeptParts, ChannelNumbers
<1>2. w.s[c] \in SocketType
  BY <1>1 DEF SocketsType
<1>3. /\ y \in SocketType /\ y.toWeb = w.s[c].toWeb
      /\ y.web = w.s[c].web /\ y.ui = w.s[c].ui /\ y.toUI = w.s[c].toUI
  BY <1>2, SocketReset
<1>4. t \in SocketsType /\ t[c] = y /\ \A d \in Connections : d # c => t[d] = w.s[d]
  <2> HIDE DEF y
  <2> QED BY <1>1, <1>3, Puts
<1>5. v = [ch |-> ch, s |-> t]
  <2>1. v = With(w, ch, t)
    BY Zenon, <1>1 DEF With, WType, ResetOf
  <2> HIDE DEF t, ch
  <2>2. ch \in ChannelType
    BY <1>1 DEF ch
  <2> QED BY <1>1, <1>4, <2>1, <2>2, Both
<1> HIDE DEF t, y
<1>6. v \in WType /\ v.ch = ch /\ v.s = t
  <2>1. ch \in ChannelType
    BY <1>1
  <2> HIDE DEF ch
  <2> QED BY <1>4, <1>5, <2>1, WMade
<1>7. \A d \in Connections : /\ t[d].toUI = w.s[d].toUI /\ t[d].ui = w.s[d].ui
                             /\ t[d].web = w.s[d].web /\ t[d].toWeb = w.s[d].toWeb
  BY <1>3, <1>4
<1>8. ch.next <= ch.next /\ (ch.closing # 0 => ch.owner = None)
      /\ (ch.control = ch.control) /\ ch \in ChannelType
  BY <1>1, KeptParts, ChannelNumbers
<1>9. Books(ch, t, q, X, g)
  <2> HIDE DEF ch, q, X, g
  <2> QED BY <1>1, <1>4, <1>7, <1>8, NotesKeeps
<1>10. Fine(v)
  <2>1. \A d \in Connections : Made(w.s, d) => Made(v.s, d)
    BY Zenon, <1>6, <1>7, SameMade
  <2>2. \A d \in Connections : /\ v.s[d].web => w.s[d].web \/ ~Made(w.s, d)
                               /\ v.s[d].toWeb = w.s[d].toWeb \/ v.s[d].toWeb = <<>>
    BY <1>6, <1>7
  <2>3. ChannelOK(v.ch) /\ v.ch.born = w.ch.born
    BY <1>1, <1>6
  <2> QED BY <1>1, <1>6, <2>1, <2>2, <2>3, StaysFine
<1> QED BY <1>6, <1>9, <1>10 DEF Kept

(* The close request is confirmed when every sample is back.                 *)
LEMMA DrainConfirms ==
  ASSUME NEW w, Kept(w), overlay \in OverlayType, w.ch.socket # 0,
         NEW i \in Told(w), ConfirmsAt(w, i)
  PROVE  Left(w) = {}
<1> DEFINE c == w.ch.socket
           a == Answers(w)
<1>1. ConfirmedLast(w.ch, w.s)
  BY KeptParts DEF Books
<1>2. i \in 1..Len(a) /\ a[i].type = "CloseComplete" /\ a = w.s[c].toWeb
  BY DEF Told, ConfirmsAt, Answers
<1>3. Len(a) \in Nat
  BY KeptParts, ChannelNumbers, SocketTyped DEF Answers
<1>4. \A m \in w.ch.inFlight : \E j \in 1..Len(a) : /\ j < i /\ a[j].type = "Release"
                                                    /\ a[j].sequence = m
  BY <1>1, <1>2 DEF ConfirmedLast
<1>5. ASSUME NEW j \in 1..Len(a), j < i PROVE j \in Told(w)
  <2>1. 1..(j - 1) \subseteq 1..(i - 1)
    BY <1>2, <1>3, <1>5
  <2> QED BY <2>1 DEF Told
<1> QED BY <1>4, <1>5 DEF Left

(* Closing(w): the channel of w is closed after its replies were read.       *)
LEMMA DrainEmpties ==
  ASSUME NEW w, Kept(w), overlay \in OverlayType, w.ch.socket # 0, NEW n, NEW e,
         Emptying(w, e, n)
  PROVE  Kept(CloseChannel(e)) /\ Less(w, CloseChannel(e))
<1>1. /\ Safe(e.ch, w.s, Link(overlay), Held(overlay)) /\ e.ch \in ChannelType
      /\ e.s \in SocketsType /\ e \in WType /\ ChannelOK(e.ch) /\ Less(w, e)
      /\ e.ch.socket = w.ch.socket /\ e.ch.early = w.ch.early /\ e.ch.closing = w.ch.closing
      /\ e.ch.owner = w.ch.owner
  BY LeftSafe
<1>2. /\ w \in WType /\ Fine(w) /\ Granted(w.s) /\ w.ch \in ChannelType
      /\ ~w.ch.early /\ (w.ch.closing # 0 => w.ch.owner = None)
  BY KeptParts
<1>3. e.ch.next <= e.ch.next /\ e.ch.born = w.ch.born
  BY <1>1, ChannelNumbers DEF Less
<1>4. Closable(w, e.ch, e)
  BY <1>1, <1>2, <1>3 DEF Closable, Emptying
<1>5. Kept(CloseChannel(e)) /\ Shuttered(e, CloseChannel(e))
  BY <1>1, <1>2, <1>4, ClosesChannel, ChannelShuts
<1>6. Apart(e.ch, CloseChannel(e).ch, {"socket", "control"})
  BY <1>5 DEF Shuttered
<1>7. Less(w, CloseChannel(e))
  BY <1>1, <1>6, ApartAll DEF Less
<1> QED BY <1>5, <1>7

ConfirmedOf(e, b) == [e EXCEPT !.ch = [e.ch EXCEPT !.closing = 0, !.early = b]]
(* A confirmed close leaves the sockets.                                    *)
LEMMA ConfirmedIs ==
  ASSUME NEW e \in WType, NEW b \in BOOLEAN
  PROVE  /\ ConfirmedOf(e, b) \in WType /\ ConfirmedOf(e, b).s = e.s
         /\ ConfirmedOf(e, b).ch.closing = 0 /\ ConfirmedOf(e, b).ch.early = b
         /\ Apart(e.ch, ConfirmedOf(e, b).ch, {"closing", "early"})
<1> DEFINE p == [e.ch EXCEPT !.closing = 0, !.early = b]
           v == ConfirmedOf(e, b)
<1>1. e.ch \in ChannelType /\ e.s \in SocketsType
  BY WTyped
<1>2. p \in ChannelType /\ p.closing = 0 /\ p.early = b /\ Apart(e.ch, p, {"closing", "early"})
  BY Zenon, <1>1, ChannelConfirms
<1>3. v = With(e, p, e.s)
  BY Zenon, <1>1 DEF ConfirmedOf, With, WType
<1> HIDE DEF p, v
<1>4. v = [ch |-> p, s |-> e.s]
  BY <1>1, <1>2, <1>3, Both
<1>5. v \in WType /\ v.ch = p /\ v.s = e.s
  BY <1>1, <1>2, <1>4, WMade
<1> QED BY <1>2, <1>5 DEF v

(* Reading the confirmation, then closing, keeps it: no sample is left.     *)
LEMMA DrainAnswered ==
  ASSUME NEW w, Kept(w), overlay \in OverlayType, w.ch.socket # 0, NEW n, NEW e,
         Emptying(w, e, n), \E i \in Told(w) : ConfirmsAt(w, i), NEW v, v = ConfirmedOf(e, Left(w) # {})
  PROVE  Kept(CloseChannel(v)) /\ Less(w, CloseChannel(v))
<1>1. /\ Safe(e.ch, w.s, Link(overlay), Held(overlay)) /\ e.ch \in ChannelType
      /\ e.s \in SocketsType /\ e \in WType /\ ChannelOK(e.ch) /\ Less(w, e)
      /\ e.ch.socket = w.ch.socket /\ e.ch.owner = w.ch.owner
  BY LeftSafe
<1>2. /\ w \in WType /\ Fine(w) /\ Granted(w.s) /\ w.ch \in ChannelType
  BY KeptParts
<1>3. Left(w) = {}
  BY DrainConfirms
<1>4. /\ v \in WType /\ v.s = e.s /\ v.ch.closing = 0 /\ v.ch.early = FALSE
      /\ Apart(e.ch, v.ch, {"closing", "early"}) /\ v.ch \in ChannelType
  BY Zenon, <1>1, <1>3, ConfirmedIs, WTyped
<1>5. /\ v.ch.socket = e.ch.socket /\ v.ch.born = e.ch.born /\ v.ch.inFlight = e.ch.inFlight
      /\ v.ch.next = e.ch.next /\ v.ch.owner = e.ch.owner
  BY <1>4, ApartAll
<1>6. ChannelOK(v.ch) /\ e.ch.next <= v.ch.next
  <2>1. e.ch.next \in Nat /\ e.ch.closing \in Nat /\ v.ch.closing = 0
    BY <1>1, <1>4, ChannelNumbers
  <2>2. 0 < v.ch.next /\ e.ch.next <= v.ch.next
    BY <1>1, <1>5, <2>1 DEF ChannelOK
  <2> QED BY <1>1, <1>4, <1>5, <2>2 DEF ChannelOK
<1>7. Closable(w, e.ch, v)
  <2>1. e.ch.born = w.ch.born
    BY <1>1 DEF Less
  <2>2. \A d \in Connections : /\ v.s[d].toUI = w.s[d].toUI /\ v.s[d].ui = w.s[d].ui
                               /\ d # e.ch.socket => v.s[d].web = w.s[d].web
                                                     /\ v.s[d].toWeb = w.s[d].toWeb
    BY <1>1, <1>4 DEF Emptying
  <2>3. v.ch.socket # 0 /\ v.ch.socket = e.ch.socket
    BY <1>1, <1>5
  <2> QED BY <1>1, <1>2, <1>4, <1>5, <1>6, <2>1, <2>2, <2>3 DEF Closable
<1>8. v.ch.socket # 0
  BY <1>1, <1>5
<1>9. Kept(CloseChannel(v)) /\ Shuttered(v, CloseChannel(v))
  BY <1>2, <1>4, <1>7, <1>8, ClosesChannel, ChannelShuts
<1>10. Apart(v.ch, CloseChannel(v).ch, {"socket", "control"})
  BY <1>9 DEF Shuttered
<1>11. Less(w, CloseChannel(v))
  <2> DEFINE x == CloseChannel(v)
  <2>1. /\ x.ch.inFlight = v.ch.inFlight /\ x.ch.born = v.ch.born /\ x.ch.next = v.ch.next
        /\ x.ch.closing = 0 /\ x.ch.owner = v.ch.owner
    BY <1>4, <1>10, ApartAll
  <2> HIDE DEF x
  <2>2. Less(w, x)
    BY <1>1, <1>5, <2>1 DEF Less
  <2> QED BY <2>2 DEF x
<1> QED BY <1>9, <1>11

(* Reading releases alone keeps it.                                         *)
LEMMA DrainReads ==
  ASSUME NEW w, Kept(w), overlay \in OverlayType, w.ch.socket # 0, NEW e,
         Emptying(w, e, Cardinality(Told(w))), \A i \in Told(w) : ~ConfirmsAt(w, i)
  PROVE  Kept(e) /\ Less(w, e)
<1> DEFINE c == w.ch.socket
           ch == w.ch
           q == Link(overlay)
           X == Held(overlay)
           g == overlay.closing
           a == Answers(w)
<1>1. /\ Safe(e.ch, w.s, q, X) /\ e.ch \in ChannelType
      /\ e.s \in SocketsType /\ e \in WType /\ ChannelOK(e.ch) /\ Less(w, e)
      /\ e.ch.socket = ch.socket /\ e.ch.early = ch.early /\ e.ch.closing = ch.closing
      /\ e.ch.control = ch.control /\ e.ch.owner = ch.owner /\ Reads(ch, w.s, q, e.ch, w.s)
  BY LeftSafe
<1>2. /\ w \in WType /\ Fine(w) /\ ch \in ChannelType /\ w.s \in SocketsType /\ c \in Connections
      /\ Books(ch, w.s, q, X, g) /\ X \in SUBSET Frame /\ g \in Replied /\ q \in LinkType
  BY KeptParts, ChannelNumbers
<1>3. /\ Told(w) = 1..Len(a) /\ e.s[c].toWeb = <<>> /\ a = w.s[c].toWeb
  BY <1>2, ReadToEnd DEF Emptying, Answers
<1>4. \A d \in Connections : /\ e.s[d].toUI = w.s[d].toUI /\ e.s[d].ui = w.s[d].ui
                             /\ e.s[d].web = w.s[d].web
                             /\ e.s[d].toWeb = w.s[d].toWeb \/ e.s[d].toWeb = <<>>
  BY Zenon, <1>3 DEF Emptying
<1>5. Reads(ch, w.s, q, e.ch, e.s)
  BY Zenon, <1>1, <1>4 DEF Reads
<1>6. \A i \in 1..Len(a) : a[i].type # "CloseComplete"
  <2> SUFFICES ASSUME NEW i \in 1..Len(a), a[i].type = "CloseComplete" PROVE FALSE
    OBVIOUS
  <2>1. ~ConfirmsAt(w, i)
    BY <1>3
  <2>2. i \in 1..Len(Queue(w.s, q, c)) /\ Queue(w.s, q, c)[i] = a[i]
    <3> HIDE DEF c, q, a
    <3>1. i \in 1..Len(w.s[c].toWeb)
      BY <1>3
    <3> QED BY <1>2, <1>3, <3>1, QueuedFirst
  <2>3. NamesOK(ch, w.s, q, g) /\ i \in Nat
    BY <1>2 DEF Books
  <2>4. Queue(w.s, q, c)[i].sequence = ch.closing
    BY <2>2, <2>3 DEF NamesOK, Queued
  <2> QED BY <2>1, <2>2, <2>4 DEF ConfirmsAt
<1>7. \A i \in 1..Len(a) : a[i].sequence \notin e.ch.inFlight
  <2> SUFFICES ASSUME NEW i \in 1..Len(a) PROVE a[i].sequence \notin e.ch.inFlight
    OBVIOUS
  <2>1. a[i] \in Reply
    <3> HIDE DEF c
    <3> QED BY <1>2, <1>3, SocketTyped
  <2>2. a[i].type = "Release" /\ i \in Told(w)
    BY Zenon, <1>3, <1>6, <2>1 DEF Reply
  <2>3. e.ch.inFlight = Left(w)
    BY DEF Emptying
  <2> QED BY <2>2, <2>3 DEF Left
<1>8. Books(e.ch, e.s, q, X, g)
  <2>1. \A i \in 1..Len(w.s[ch.socket].toWeb) :
          /\ w.s[ch.socket].toWeb[i].type # "CloseComplete"
          /\ w.s[ch.socket].toWeb[i].sequence \notin e.ch.inFlight
    BY Zenon, <1>3, <1>6, <1>7
  <2>2. e.s[ch.socket].toWeb = <<>> /\ ch.socket # 0
    BY <1>3
  <2> HIDE DEF ch, q, X, g
  <2> QED BY Zenon, <1>1, <1>2, <1>5, <2>1, <2>2, ReadsAll
<1>9. Fine(e)
  <2>1. \A d \in Connections : Made(w.s, d) => Made(e.s, d)
    BY Zenon, <1>4, SameMade
  <2>2. e.ch.born = w.ch.born
    BY <1>1 DEF Less
  <2> QED BY <1>1, <1>2, <1>4, <2>1, <2>2, StaysFine
<1> QED BY <1>1, <1>8, <1>9 DEF Kept

(* Reading replies keeps it, and takes back samples only.                   *)
LEMMA DrainOpen ==
  ASSUME NEW w, Kept(w), overlay \in OverlayType, w.ch.socket # 0
  PROVE  Kept(Drain(w)) /\ Less(w, Drain(w))
<1> DEFINE e == Emptied(w)
           v == ConfirmedOf(e, Left(w) # {})
<1>1. w \in WType
  BY DEF Kept
<1>2. Emptying(w, e, Cardinality(Told(w)))
  BY <1>1, EmptiedIs
<1>3. Drain(w) =
         IF w.s[w.ch.socket].reset THEN [w EXCEPT !.s[w.ch.socket].reset = FALSE]
         ELSE IF \E i \in Told(w) : ConfirmsAt(w, i) THEN CloseChannel(v)
         ELSE IF PeerGone(w) THEN CloseChannel(e) ELSE e
  BY Zenon, DrainIs DEF ConfirmedOf
<1> HIDE DEF e
<1>4. CASE w.s[w.ch.socket].reset
  <2>1. ResetOf(w, Drain(w))
    BY <1>3, <1>4 DEF ResetOf
  <2>2. Kept(Drain(w)) /\ Drain(w).ch = w.ch
    BY <2>1, DrainResets
  <2> QED BY <2>2 DEF Less
<1>5. CASE ~w.s[w.ch.socket].reset /\ \E i \in Told(w) : ConfirmsAt(w, i)
  <2>1. Drain(w) = CloseChannel(v)
    BY <1>3, <1>5
  <2> HIDE DEF v
  <2>2. v = ConfirmedOf(e, Left(w) # {})
    BY DEF v
  <2> QED BY <1>2, <1>5, <2>1, <2>2, DrainAnswered
<1>6. CASE ~w.s[w.ch.socket].reset /\ ~(\E i \in Told(w) : ConfirmsAt(w, i)) /\ PeerGone(w)
  <2>1. Drain(w) = CloseChannel(e)
    BY <1>3, <1>6
  <2> QED BY <1>2, <2>1, DrainEmpties
<1>7. CASE ~w.s[w.ch.socket].reset /\ ~(\E i \in Told(w) : ConfirmsAt(w, i)) /\ ~PeerGone(w)
  <2>1. Drain(w) = e
    BY <1>3, <1>7
  <2> QED BY <1>2, <1>7, <2>1, DrainReads
<1> QED BY <1>4, <1>5, <1>6, <1>7

(* Reading the replies keeps the books.                                      *)
LEMMA ReadsReplies ==
  ASSUME NEW w, Kept(w), overlay \in OverlayType
  PROVE  Kept(Drain(w)) /\ Less(w, Drain(w))
<1>1. w.ch.socket = 0 => Drain(w) = w
  BY DEF Drain
<1>2. Less(w, w)
  BY DEF Less
<1> QED BY <1>1, <1>2, DrainOpen

(* What a call changes of the channel.                                       *)
LEMMA ChannelOwned ==
  ASSUME NEW ch \in ChannelType, NEW k \in Sinks, NEW r \in Rects
  PROVE  LET p == [ch EXCEPT !.owner = k, !.rect = r]
         IN  p \in ChannelType /\ p.owner = k /\ p.rect = r /\ Apart(ch, p, {"owner", "rect"})
<1> DEFINE p == [ch EXCEPT !.owner = k, !.rect = r]
<1>1. p \in ChannelType
  BY Zenon DEF ChannelType
<1>2. p.owner = k /\ p.rect = r
  BY DEF ChannelType
<1>3. Apart(ch, p, {"owner", "rect"})
  BY Zenon DEF ChannelType, Apart
<1> QED BY <1>1, <1>2, <1>3

(* Setting the rectangle changes one field.                                 *)
LEMMA ChannelRect ==
  ASSUME NEW ch \in ChannelType, NEW r \in Rects
  PROVE  LET p == [ch EXCEPT !.rect = r]
         IN  p \in ChannelType /\ p.rect = r /\ Apart(ch, p, {"rect"})
<1> DEFINE p == [ch EXCEPT !.rect = r]
<1>1. p \in ChannelType
  BY Zenon DEF ChannelType
<1>2. p.rect = r
  BY DEF ChannelType
<1>3. Apart(ch, p, {"rect"})
  BY DEF ChannelType, Apart
<1> QED BY <1>1, <1>2, <1>3

(* Losing the owner changes one field.                                      *)
LEMMA ChannelFree ==
  ASSUME NEW ch \in ChannelType
  PROVE  LET p == [ch EXCEPT !.owner = None]
         IN  p \in ChannelType /\ p.owner = None /\ Apart(ch, p, {"owner"})
<1> DEFINE p == [ch EXCEPT !.owner = None]
<1>1. p \in ChannelType
  BY Zenon DEF ChannelType
<1>2. p.owner = None
  BY DEF ChannelType
<1>3. Apart(ch, p, {"owner"})
  BY DEF ChannelType, Apart
<1> QED BY <1>1, <1>2, <1>3

(* Counting a sample changes one field.                                     *)
LEMMA ChannelNext ==
  ASSUME NEW ch \in ChannelType, NEW m \in 1..(MaxSequence + 1)
  PROVE  LET p == [ch EXCEPT !.next = m]
         IN  p \in ChannelType /\ p.next = m /\ Apart(ch, p, {"next"})
<1> DEFINE p == [ch EXCEPT !.next = m]
<1>1. p \in ChannelType
  BY Zenon DEF ChannelType
<1>2. p.next = m
  BY DEF ChannelType
<1>3. Apart(ch, p, {"next"})
  BY DEF ChannelType, Apart
<1> QED BY <1>1, <1>2, <1>3

(* Asking to close changes two fields.                                      *)
LEMMA ChannelAsks ==
  ASSUME NEW ch \in ChannelType, NEW n \in 0..MaxSequence, NEW m \in 1..(MaxSequence + 1)
  PROVE  LET p == [ch EXCEPT !.closing = n, !.next = m]
         IN  p \in ChannelType /\ p.closing = n /\ p.next = m /\ Apart(ch, p, {"closing", "next"})
<1> DEFINE p == [ch EXCEPT !.closing = n, !.next = m]
<1>1. p \in ChannelType
  BY Zenon DEF ChannelType
<1>2. p.closing = n /\ p.next = m
  BY DEF ChannelType
<1>3. Apart(ch, p, {"closing", "next"})
  BY Zenon DEF ChannelType, Apart
<1> QED BY <1>1, <1>2, <1>3

(* Keeping a control packet for later changes one field.                    *)
LEMMA ChannelHolds ==
  ASSUME NEW ch \in ChannelType, NEW x \in Packet \cup {None}
  PROVE  LET p == [ch EXCEPT !.control = x]
         IN  p \in ChannelType /\ p.control = x /\ Apart(ch, p, {"control"})
<1> DEFINE p == [ch EXCEPT !.control = x]
<1>1. p \in ChannelType
  BY Zenon DEF ChannelType
<1>2. p.control = x
  BY DEF ChannelType
<1>3. Apart(ch, p, {"control"})
  BY DEF ChannelType, Apart
<1> QED BY <1>1, <1>2, <1>3

(* Backing off changes one field.                                           *)
LEMMA ChannelWaits ==
  ASSUME NEW ch \in ChannelType, NEW b \in BOOLEAN
  PROVE  LET p == [ch EXCEPT !.backoff = b]
         IN  p \in ChannelType /\ p.backoff = b /\ Apart(ch, p, {"backoff"})
<1> DEFINE p == [ch EXCEPT !.backoff = b]
<1>1. p \in ChannelType
  BY Zenon DEF ChannelType
<1>2. p.backoff = b
  BY DEF ChannelType
<1>3. Apart(ch, p, {"backoff"})
  BY DEF ChannelType, Apart
<1> QED BY <1>1, <1>2, <1>3

(* Connecting changes one field.                                            *)
LEMMA ChannelOpens ==
  ASSUME NEW ch \in ChannelType, NEW c \in Connections
  PROVE  LET p == [ch EXCEPT !.socket = c]
         IN  p \in ChannelType /\ p.socket = c /\ Apart(ch, p, {"socket"})
<1> DEFINE p == [ch EXCEPT !.socket = c]
<1>1. p \in ChannelType
  BY Zenon DEF ChannelType
<1>2. p.socket = c
  BY DEF ChannelType
<1>3. Apart(ch, p, {"socket"})
  BY DEF ChannelType, Apart
<1> QED BY <1>1, <1>2, <1>3

(* Lending a sample changes one field.                                      *)
LEMMA ChannelLends ==
  ASSUME NEW ch \in ChannelType, NEW L \in SUBSET (1..MaxSequence)
  PROVE  LET p == [ch EXCEPT !.inFlight = L]
         IN  p \in ChannelType /\ p.inFlight = L /\ Apart(ch, p, {"inFlight"})
<1> DEFINE p == [ch EXCEPT !.inFlight = L]
<1>1. p \in ChannelType
  BY Zenon DEF ChannelType
<1>2. p.inFlight = L
  BY DEF ChannelType
<1>3. Apart(ch, p, {"inFlight"})
  BY DEF ChannelType, Apart
<1> QED BY <1>1, <1>2, <1>3

(* Sending a packet changes one field of a socket.                          *)
LEMMA SocketTakes ==
  ASSUME NEW z \in SocketType, NEW a \in Seq(Packet)
  PROVE  LET y == [z EXCEPT !.toUI = a]
         IN  /\ y \in SocketType /\ y.toUI = a
             /\ y.web = z.web /\ y.ui = z.ui /\ y.toWeb = z.toWeb
<1> DEFINE y == [z EXCEPT !.toUI = a]
<1>1. y \in SocketType
  BY Zenon DEF SocketType
<1> QED BY <1>1 DEF SocketType

(* Connecting changes two fields of a socket.                               *)
LEMMA SocketConnects ==
  ASSUME NEW z \in SocketType
  PROVE  LET y == [z EXCEPT !.web = TRUE, !.ui = "backlog"]
         IN  /\ y \in SocketType /\ y.toUI = z.toUI
             /\ y.web = TRUE /\ y.ui = "backlog" /\ y.toWeb = z.toWeb
<1> DEFINE y == [z EXCEPT !.web = TRUE, !.ui = "backlog"]
<1>1. y \in SocketType
  BY Zenon DEF SocketType
<1> QED BY <1>1 DEF SocketType

(* What sendPacketLocked does with a packet.                                 *)
LEMMA SendsTyped ==
  ASSUME NEW w \in WType, NEW p \in Packet, w.ch.socket # 0, ~PeerGone(w),
         NEW t, t = [w.s EXCEPT ![w.ch.socket] =
                       [w.s[w.ch.socket] EXCEPT !.toUI = Append(w.s[w.ch.socket].toUI, p)]]
  PROVE  t \in SocketsType /\ Sends(w.ch, w.s, t, p)
<1> DEFINE c == w.ch.socket
           y == [w.s[c] EXCEPT !.toUI = Append(w.s[c].toUI, p)]
<1>1. w.ch \in ChannelType /\ w.s \in SocketsType /\ c \in Connections
  BY WTyped, ChannelNumbers
<1>2. w.s[c] \in SocketType /\ w.s[c].toUI \in Seq(Packet)
  BY <1>1, SocketTyped DEF SocketsType
<1>3. Append(w.s[c].toUI, p) \in Seq(Packet)
  BY <1>2, AppendProperties
<1>4. /\ y \in SocketType /\ y.toUI = Append(w.s[c].toUI, p)
      /\ y.web = w.s[c].web /\ y.ui = w.s[c].ui /\ y.toWeb = w.s[c].toWeb
  BY Zenon, <1>2, <1>3, SocketTakes
<1>5. t = [w.s EXCEPT ![c] = y]
  OBVIOUS
<1> HIDE DEF y
<1>6. t \in SocketsType /\ t[c] = y /\ \A d \in Connections : d # c => t[d] = w.s[d]
  <2>1. [w.s EXCEPT ![c] = y] \in SocketsType /\ [w.s EXCEPT ![c] = y][c] = y
        /\ \A d \in Connections : d # c => [w.s EXCEPT ![c] = y][d] = w.s[d]
    <3> HIDE DEF c
    <3> QED BY <1>1, <1>4, Puts
  <2> QED BY <1>5, <2>1
<1> QED BY Zenon, <1>4, <1>6 DEF Sends, PeerGone

SentBy(w, v, p) ==
  \/ PeerGone(w) /\ v = CloseChannel(w)
  \/ ~PeerGone(w) /\ v \in WType /\ v.ch = w.ch /\ Sends(w.ch, w.s, v.s, p)
  \/ ~PeerGone(w) /\ p.type = "Frame" /\ v = w
  \/ /\ ~PeerGone(w) /\ p.type # "Frame" /\ v \in WType /\ v.s = w.s /\ v.ch.control = p
     /\ Apart(w.ch, v.ch, {"control"}) /\ Len(w.s[w.ch.socket].toUI) >= RoomForFrames
Appended(w, p) == [w EXCEPT !.s[w.ch.socket].toUI = Append(@, p)]
Delayed(w, p) == [w EXCEPT !.ch.control = p]
(* Sending a packet, spelled out.                                           *)
LEMMA SendPacketIs ==
  ASSUME NEW w, NEW p, w.ch.socket # 0
  PROVE  SendPacket(w, p) =
           IF PeerGone(w) THEN CloseChannel(w)
           ELSE IF ~(Len(w.s[w.ch.socket].toUI) >= RoomForFrames) THEN Appended(w, p)
           ELSE IF p.type = "Frame" THEN w ELSE Delayed(w, p)
  BY DEF SendPacket, Appended, Delayed
(* What sending a packet may end in.                                        *)
LEMMA SendCases ==
  ASSUME NEW w \in WType, NEW p \in Packet, w.ch.socket # 0
  PROVE  SentBy(w, SendPacket(w, p), p)
<1> DEFINE v == SendPacket(w, p)
<1>1. w.ch \in ChannelType /\ w.s \in SocketsType
  BY WTyped
<1>2. v = IF PeerGone(w) THEN CloseChannel(w)
           ELSE IF ~(Len(w.s[w.ch.socket].toUI) >= RoomForFrames) THEN Appended(w, p)
           ELSE IF p.type = "Frame" THEN w ELSE Delayed(w, p)
  BY SendPacketIs
<1> HIDE DEF v
<1>3. CASE PeerGone(w)
  BY <1>2, <1>3 DEF SentBy, v
<1>4. CASE ~PeerGone(w) /\ ~(Len(w.s[w.ch.socket].toUI) >= RoomForFrames)
  <2> DEFINE t == [w.s EXCEPT ![w.ch.socket] =
                     [w.s[w.ch.socket] EXCEPT !.toUI = Append(w.s[w.ch.socket].toUI, p)]]
  <2>1. v = Appended(w, p)
    BY <1>2, <1>4
  <2>2. Appended(w, p) = With(w, w.ch, t)
    BY Zenon DEF Appended, With, WType
  <2>3. t \in SocketsType /\ Sends(w.ch, w.s, t, p)
    BY Zenon, <1>4, SendsTyped
  <2> HIDE DEF t
  <2>4. v = [ch |-> w.ch, s |-> t]
    BY <1>1, <2>1, <2>2, <2>3, Both
  <2>5. v \in WType /\ v.ch = w.ch /\ v.s = t
    BY <1>1, <2>3, <2>4, WMade
  <2> QED BY <1>4, <2>3, <2>5 DEF SentBy, v
<1>5. CASE ~PeerGone(w) /\ Len(w.s[w.ch.socket].toUI) >= RoomForFrames /\ p.type = "Frame"
  BY <1>2, <1>5 DEF SentBy, v
<1>6. CASE ~PeerGone(w) /\ Len(w.s[w.ch.socket].toUI) >= RoomForFrames /\ p.type # "Frame"
  <2> DEFINE x == [w.ch EXCEPT !.control = p]
  <2>1. v = Delayed(w, p)
    BY <1>2, <1>6
  <2>2. Delayed(w, p) = With(w, x, w.s)
    BY Zenon DEF Delayed, With, WType
  <2>3. x \in ChannelType /\ x.control = p /\ Apart(w.ch, x, {"control"})
    BY <1>1, ChannelHolds
  <2> HIDE DEF x
  <2>4. v = [ch |-> x, s |-> w.s]
    BY <1>1, <2>1, <2>2, <2>3, Both
  <2>5. v \in WType /\ v.ch = x /\ v.s = w.s
    BY <1>1, <2>3, <2>4, WMade
  <2> QED BY <1>6, <2>3, <2>5 DEF SentBy, v
<1> QED BY <1>3, <1>4, <1>5, <1>6 DEF v

(* What a call does to the samples in flight: some come back, or the next is *)
(* lent.                                                                     *)
Wrote(u, v) ==
  /\ v.ch.born = u.ch.born
  /\ \/ v.ch.inFlight \subseteq u.ch.inFlight
     \/ u.ch.next \in v.ch.inFlight /\ v.ch.inFlight \ {u.ch.next} \subseteq u.ch.inFlight

Noted(a, b) ==
  /\ b.socket = a.socket /\ b.born = a.born /\ b.early = a.early /\ b.inFlight = a.inFlight
  /\ a.next <= b.next /\ (b.closing # 0 => b.owner = None)
  /\ \/ /\ b.closing = a.closing /\ (InControl(b) <=> InControl(a))
        /\ \/ b.control = a.control
           \/ ~InControl(a) /\ (b.control # None => a.socket # 0 /\ b.control.type = "Rect")
     \/ /\ a.closing = 0 /\ b.closing # 0 /\ a.socket # 0
        /\ b.control # None /\ b.control.type = "Hide" /\ b.control.sequence = b.closing

(* Counting on keeps the channel in order.                                  *)
LEMMA ChannelGrows ==
  ASSUME NEW a \in ChannelType, NEW b \in ChannelType, ChannelOK(a), b.inFlight = a.inFlight,
         a.next <= b.next, b.closing < b.next
  PROVE  ChannelOK(b)
<1>1. a.next \in Nat /\ b.next \in Nat
  BY ChannelNumbers
<1>2. 1..(a.next - 1) \subseteq 1..(b.next - 1)
  BY <1>1
<1> QED BY <1>2 DEF ChannelOK

(* A note in the channel keeps the invariant.                               *)
LEMMA NotesFine ==
  ASSUME NEW u, Kept(u), overlay \in OverlayType, NEW v \in WType, v.s = u.s,
         Noted(u.ch, v.ch), ChannelOK(v.ch)
  PROVE  Kept(v) /\ Wrote(u, v)
<1> DEFINE q == Link(overlay)
           X == Held(overlay)
           g == overlay.closing
           a == u.ch
           b == v.ch
           s == u.s
<1>1. /\ u \in WType /\ a \in ChannelType /\ s \in SocketsType /\ Fine(u) /\ q \in LinkType
      /\ Books(a, s, q, X, g) /\ X \in SUBSET Frame /\ g \in Replied
  BY KeptParts
<1>2. b \in ChannelType
  BY WTyped
<1>3. Noted(a, b)
  OBVIOUS
<1>4. Books(b, s, q, X, g)
  <2> HIDE DEF q, X, g, a, b, s
  <2> QED BY <1>1, <1>2, <1>3, NotesKeeps DEF Noted
<1>5. Fine(v)
  <2>1. \A d \in Connections : Made(u.s, d) => Made(v.s, d)
    OBVIOUS
  <2>2. v.ch.born = u.ch.born
    BY DEF Noted
  <2> QED BY <1>1, <2>1, <2>2, StaysFine
<1> QED BY <1>4, <1>5 DEF Kept, Noted, Wrote

(* A packet that was sent keeps it.                                         *)
LEMMA PostsFine ==
  ASSUME NEW u, Kept(u), overlay \in OverlayType, NEW v \in WType, NEW p \in Packet,
         Sends(u.ch, u.s, v.s, p), Posts(u.ch, v.ch, p), ChannelOK(v.ch)
  PROVE  Kept(v) /\ Wrote(u, v)
<1> DEFINE q == Link(overlay)
           X == Held(overlay)
           g == overlay.closing
           a == u.ch
           b == v.ch
           s == u.s
           t == v.s
<1>1. /\ u \in WType /\ a \in ChannelType /\ s \in SocketsType /\ Fine(u) /\ q \in LinkType
      /\ Books(a, s, q, X, g) /\ X \in SUBSET Frame /\ g \in Replied /\ ChannelOK(a)
  BY KeptParts
<1>2. b \in ChannelType /\ t \in SocketsType
  BY WTyped
<1>3. Sends(a, s, t, p) /\ Posts(a, b, p)
  OBVIOUS
<1>4. Books(b, t, q, X, g)
  <2> HIDE DEF q, X, g, a, b, s, t
  <2> QED BY <1>1, <1>2, <1>3, SendKeeps
<1>5. Fine(v)
  <2>1. \A d \in Connections : /\ Made(s, d) => Made(t, d)
                               /\ t[d].web = s[d].web /\ t[d].toWeb = s[d].toWeb
    <3> HIDE DEF s, t
    <3> QED BY Zenon, <1>3 DEF Sends, Made
  <2>2. v.ch.born = u.ch.born
    BY DEF Posts
  <2> QED BY <1>1, <2>1, <2>2, StaysFine
<1>6. Wrote(u, v)
  BY DEF Posts, Wrote
<1> QED BY <1>4, <1>5, <1>6 DEF Kept

(* The channel closes, after it noted something.                             *)
Nears(a, b) ==
  /\ b.socket = a.socket /\ b.born = a.born /\ b.early = a.early /\ b.inFlight = a.inFlight
  /\ a.next <= b.next /\ (b.closing # 0 => b.owner = None)
(* Finding the connection broken keeps it.                                  *)
LEMMA ShutsFine ==
  ASSUME NEW u, Kept(u), overlay \in OverlayType, NEW w \in WType, w.s = u.s, w.ch.socket # 0,
         Nears(u.ch, w.ch), ChannelOK(w.ch)
  PROVE  Kept(CloseChannel(w)) /\ Wrote(u, CloseChannel(w)) /\ CloseChannel(w).ch.socket = 0
<1>1. /\ u \in WType /\ u.ch \in ChannelType /\ Fine(u) /\ Granted(u.s) /\ ~u.ch.early
      /\ Safe(u.ch, u.s, Link(overlay), Held(overlay))
  BY KeptParts
<1>2. Closable(u, u.ch, w)
  BY <1>1 DEF Closable, Nears
<1>3. Kept(CloseChannel(w)) /\ CloseChannel(w).ch.inFlight = w.ch.inFlight
      /\ CloseChannel(w).ch.born = w.ch.born
  BY <1>1, <1>2, ClosesChannel
<1>4. CloseChannel(w).ch.socket = 0
  BY Zenon, ChannelShuts DEF Shuttered
<1> QED BY <1>3, <1>4 DEF Nears, Wrote

(* A rectangle or a close request is sent, kept for later, or lost with the  *)
(* connection.                                                               *)
LEMMA SendsControl ==
  ASSUME NEW u, Kept(u), overlay \in OverlayType, NEW w \in WType, w.s = u.s, w.ch.socket # 0,
         NEW p \in Packet, p.type # "Frame", Posts(u.ch, w.ch, p), ChannelOK(w.ch),
         p.type = "Hide" => u.ch.closing = 0 \/ Len(w.s[w.ch.socket].toUI) < RoomForFrames
                            \/ PeerGone(w)
  PROVE  Kept(SendPacket(w, p)) /\ Wrote(u, SendPacket(w, p))
<1> DEFINE v == SendPacket(w, p)
<1>1. SentBy(w, v, p)
  BY SendCases
<1> HIDE DEF v
<1>2. Nears(u.ch, w.ch)
  BY DEF Posts, Nears
<1>3. CASE PeerGone(w) /\ v = CloseChannel(w)
  BY <1>2, <1>3, ShutsFine DEF v
<1>4. CASE v \in WType /\ v.ch = w.ch /\ Sends(w.ch, w.s, v.s, p)
  <2>1. Sends(u.ch, u.s, v.s, p)
    <3>1. w.ch.socket = u.ch.socket
      BY <1>2 DEF Nears
    <3> QED BY Zenon, <1>4, <3>1 DEF Sends
  <2>2. Kept(v) /\ Wrote(u, v)
    BY <1>4, <2>1, PostsFine
  <2> QED BY <2>2 DEF v
<1>5. CASE /\ ~PeerGone(w) /\ p.type # "Frame" /\ v \in WType /\ v.s = w.s /\ v.ch.control = p
           /\ Apart(w.ch, v.ch, {"control"}) /\ Len(w.s[w.ch.socket].toUI) >= RoomForFrames
  <2>1. /\ v.ch.socket = w.ch.socket /\ v.ch.born = w.ch.born /\ v.ch.early = w.ch.early
        /\ v.ch.inFlight = w.ch.inFlight /\ v.ch.next = w.ch.next
        /\ v.ch.closing = w.ch.closing /\ v.ch.owner = w.ch.owner
    BY <1>5, ApartAll
  <2>2. Nears(u.ch, v.ch) /\ ChannelOK(v.ch)
    BY <1>2, <2>1 DEF Nears, ChannelOK
  <2>3. p.type = "Hide" => u.ch.closing = 0
    <3>1. Len(w.s[w.ch.socket].toUI) \in Nat /\ RoomForFrames \in Nat
      BY Zenon, WTyped, ChannelNumbers, SocketTyped, Numbers
    <3> QED BY <1>5, <3>1
  <2>4. p # None /\ p.type \in {"Rect", "Hide"} /\ u.ch.socket # 0
    <3>1. p # None /\ p.type \in {"Frame", "Rect", "Hide"}
      BY NullAssumption DEF Packet
    <3> QED BY <1>2, <3>1 DEF Nears
  <2>5. Noted(u.ch, v.ch)
    <3>1. CASE p.type = "Rect"
      BY <1>5, <2>1, <2>2, <2>4, <3>1 DEF Noted, Nears, Posts, InControl
    <3>2. CASE p.type = "Hide"
      BY <1>5, <2>1, <2>2, <2>3, <2>4, <3>2 DEF Noted, Nears, Posts, InControl
    <3> QED BY <2>4, <3>1, <3>2
  <2>6. Kept(v) /\ Wrote(u, v)
    BY <1>5, <2>2, <2>5, NotesFine
  <2> QED BY <2>6 DEF v
<1> QED BY <1>1, <1>3, <1>4, <1>5 DEF SentBy

(* The invariant, seen from the channel.                                     *)
LEMMA InvWeb ==
  ASSUME IInv
  PROVE  /\ Kept(Channel) /\ Channel.ch = web /\ Channel.s = sockets /\ Channel \in WType
         /\ web \in ChannelType /\ sockets \in SocketsType /\ overlay \in OverlayType
<1>1. web \in ChannelType /\ sockets \in SocketsType /\ overlay \in OverlayType
  BY DEF IInv, TypeOK, SocketsType
<1>2. Channel.ch = web /\ Channel.s = sockets /\ Channel \in WType
  BY <1>1, WMade DEF Channel
<1>3. ChannelOK(web) /\ RoomOK(sockets) /\ WriterOK(sockets, overlay) /\ InOrder(web, overlay)
      /\ Books(web, sockets, Link(overlay), Held(overlay), overlay.closing)
  BY DEF IInv
<1> QED BY <1>1, <1>2, <1>3 DEF Kept, Fine

(* A step of the WebProcess.                                                 *)
WebStep == overlay' = overlay /\ Wrote(Channel, Channel')
(* A call of the WebProcess keeps the invariant if its result does.         *)
LEMMA KeptStep ==
  ASSUME IInv, NEW w, Kept(w), Does(w)
  PROVE  IInv' /\ overlay' = overlay /\ Channel'.ch = w.ch /\ Channel'.s = w.s
<1>1. web' = w.ch /\ sockets' = w.s /\ overlay' = overlay
  BY DEF Does
<1>2. w.ch \in ChannelType /\ w.s \in SocketsType /\ overlay \in OverlayType
  BY InvWeb, WTyped DEF Kept
<1>3. ChannelOK(w.ch) /\ RoomOK(w.s) /\ WriterOK(w.s, overlay) /\ InOrder(w.ch, overlay)
      /\ Books(w.ch, w.s, Link(overlay), Held(overlay), overlay.closing)
  BY DEF Kept, Fine
<1>4. TypeOK'
  BY <1>1, <1>2 DEF TypeOK, SocketsType
<1>5. ChannelOK(web)' /\ RoomOK(sockets)' /\ WriterOK(sockets, overlay)' /\ InOrder(web, overlay)'
  BY <1>1, <1>3
<1>6. Books(web, sockets, Link(overlay), Held(overlay), overlay.closing)'
  BY <1>1, <1>3
<1>7. Calm(overlay)' /\ ReadingOK(overlay)'
  BY <1>1 DEF IInv
<1>8. Channel'.ch = w.ch /\ Channel'.s = w.s
  BY <1>1 DEF Channel
<1> QED BY <1>1, <1>4, <1>5, <1>6, <1>7, <1>8 DEF IInv
(* And lends or takes back samples.                                         *)
LEMMA StepWeb ==
  ASSUME IInv, NEW w, Kept(w), Wrote(Channel, w), Does(w)
  PROVE  IInv' /\ WebStep
<1>1. IInv' /\ overlay' = overlay /\ Channel'.ch = w.ch
  BY KeptStep
<1> QED BY <1>1 DEF WebStep, Wrote

(* What an operator does to the channel alone.                               *)
Having(p) == [Channel EXCEPT !.ch = p]
(* The channel with another state, over the same sockets.                   *)
LEMMA HavingIs ==
  ASSUME IInv, NEW p \in ChannelType
  PROVE  Having(p) \in WType /\ Having(p).ch = p /\ Having(p).s = sockets
<1>1. Channel \in WType /\ Channel.s = sockets /\ sockets \in SocketsType
  BY InvWeb
<1>2. Having(p) = With(Channel, p, sockets)
  BY Zenon, <1>1 DEF Having, With, WType
<1>3. Having(p) = [ch |-> p, s |-> sockets]
  BY <1>1, <1>2, Both
<1> QED BY <1>1, <1>3, WMade

(* There are replies to read.                                               *)
LEMMA RepliesReadyStep == ASSUME IInv, RepliesReady PROVE IInv' /\ WebStep
<1>1. Does(Drain(Channel))
  BY DEF RepliesReady
<1>2. Kept(Drain(Channel)) /\ Less(Channel, Drain(Channel))
  BY InvWeb, ReadsReplies
<1>3. Wrote(Channel, Drain(Channel))
  BY <1>2 DEF Less, Wrote
<1> QED BY <1>1, <1>2, <1>3, StepWeb

(* The time to back off is over.                                            *)
LEMMA BackoffStep == ASSUME IInv, BackoffEnds PROVE IInv' /\ WebStep
<1> DEFINE p == [web EXCEPT !.backoff = FALSE]
<1>1. web \in ChannelType
  BY InvWeb
<1>2. p \in ChannelType /\ Apart(web, p, {"backoff"})
  BY Zenon, <1>1, ChannelWaits
<1>3. Does(Having(p))
  BY DEF BackoffEnds, Having, Channel
<1> HIDE DEF p
<1>4. Having(p) \in WType /\ Having(p).ch = p /\ Having(p).s = sockets
  BY <1>2, HavingIs
<1>5. /\ p.socket = web.socket /\ p.born = web.born /\ p.early = web.early
      /\ p.inFlight = web.inFlight /\ p.next = web.next
      /\ p.closing = web.closing /\ p.owner = web.owner /\ p.control = web.control
  BY <1>2, ApartAll
<1>6. /\ Kept(Channel) /\ Channel.ch = web /\ Channel.s = sockets /\ overlay \in OverlayType
      /\ (web.closing # 0 => web.owner = None) /\ web.next \in Nat /\ ChannelOK(web)
  BY <1>1, InvWeb, KeptParts, ChannelNumbers
<1>7. Noted(web, p) /\ ChannelOK(p)
  BY <1>5, <1>6 DEF Noted, InControl, ChannelOK
<1>8. Kept(Having(p)) /\ Wrote(Channel, Having(p))
  BY <1>4, <1>6, <1>7, NotesFine
<1> QED BY <1>3, <1>8, StepWeb

(* There is room again for a control packet.                                *)
LEMMA ControlStep == ASSUME IInv, ControlReady PROVE IInv' /\ WebStep
<1> DEFINE p == [web EXCEPT !.control = None]
           x == web.control
<1>1. /\ web \in ChannelType /\ Kept(Channel) /\ Channel.ch = web /\ Channel.s = sockets
      /\ overlay \in OverlayType /\ x # None
  BY InvWeb DEF ControlReady
<1>2. None \in Packet \cup {None}
  OBVIOUS
<1>3. p \in ChannelType /\ p.control = None /\ Apart(web, p, {"control"})
  BY <1>1, <1>2, ChannelHolds
<1>4. Does(SendPacket(Having(p), x))
  BY DEF ControlReady, Having, Channel
<1> HIDE DEF p
<1>5. Having(p) \in WType /\ Having(p).ch = p /\ Having(p).s = sockets
  BY <1>3, HavingIs
<1>6. /\ p.socket = web.socket /\ p.born = web.born /\ p.early = web.early
      /\ p.inFlight = web.inFlight /\ p.next = web.next
      /\ p.closing = web.closing /\ p.owner = web.owner
  BY <1>3, ApartAll
<1>7. /\ (web.closing # 0 => web.owner = None) /\ web.next \in Nat /\ ChannelOK(web)
      /\ web.socket # 0 /\ x \in Packet
      /\ NamesOK(web, sockets, Link(overlay), overlay.closing)
  BY <1>1, KeptParts, ChannelNumbers DEF Books
<1>8. /\ x.type \in {"Rect", "Hide"}
      /\ x.type = "Hide" => InControl(web) /\ x.sequence = web.closing /\ web.closing # 0
      /\ x.type = "Rect" => ~InControl(web)
  BY <1>1, <1>7 DEF NamesOK, InControl, Packet
<1>9. Posts(web, p, x) /\ ChannelOK(p)
  BY <1>3, <1>6, <1>7, <1>8 DEF Posts, ChannelOK
<1>10. PeerGone(Having(p)) \/ Len(sockets[p.socket].toUI) < RoomForFrames
  <2>1. PeerGone(Channel) \/ Len(sockets[web.socket].toUI) < RoomForFrames
    BY DEF ControlReady
  <2> QED BY <1>1, <1>5, <1>6, <2>1 DEF PeerGone
<1> HIDE DEF x
<1>11. x.type # "Frame" /\ Posts(Channel.ch, Having(p).ch, x) /\ ChannelOK(Having(p).ch)
       /\ Having(p).ch.socket # 0 /\ Having(p).s = Channel.s
  BY <1>1, <1>5, <1>6, <1>7, <1>8, <1>9
<1>12. \/ PeerGone(Having(p))
       \/ Len(Having(p).s[Having(p).ch.socket].toUI) < RoomForFrames
  BY <1>5, <1>10
<1>13. Kept(SendPacket(Having(p), x)) /\ Wrote(Channel, SendPacket(Having(p), x))
  BY <1>1, <1>5, <1>7, <1>11, <1>12, SendsControl
<1> QED BY <1>4, <1>13, StepWeb

(* The element was laid out again.                                          *)
LEMMA RectangleStep ==
  ASSUME IInv, NEW k \in Sinks, NEW r \in Rects, SetRectangle(k, r) PROVE IInv' /\ WebStep
<1> DEFINE p == [web EXCEPT !.rect = r]
           x == [type |-> "Rect", sequence |-> 0, rect |-> r]
<1>1. /\ web \in ChannelType /\ Kept(Channel) /\ Channel.ch = web /\ Channel.s = sockets
      /\ overlay \in OverlayType /\ web.owner = k /\ k # None
  BY InvWeb, OverlayAssumption DEF SetRectangle
<1>2. p \in ChannelType /\ Apart(web, p, {"rect"})
  BY <1>1, ChannelRect
<1>3. Does(SendPacket(Having(p), x))
  BY <1>1 DEF SetRectangle, Having, Channel
<1>4. x \in Packet /\ x.type = "Rect"
  BY Numbers DEF Packet
<1> HIDE DEF p, x
<1>5. Having(p) \in WType /\ Having(p).ch = p /\ Having(p).s = sockets
  BY <1>2, HavingIs
<1>6. /\ p.socket = web.socket /\ p.born = web.born /\ p.early = web.early
      /\ p.inFlight = web.inFlight /\ p.next = web.next
      /\ p.closing = web.closing /\ p.owner = web.owner /\ p.control = web.control
  BY <1>2, ApartAll
<1>7. /\ (web.closing # 0 => web.owner = None) /\ web.next \in Nat /\ ChannelOK(web)
      /\ NamesOK(web, sockets, Link(overlay), overlay.closing)
  BY <1>1, KeptParts, ChannelNumbers DEF Books
<1>8. web.closing = 0 /\ ~InControl(web)
  BY <1>1, <1>7 DEF NamesOK, InControl
<1>9. Posts(web, p, x) /\ ChannelOK(p) /\ Noted(web, p)
  BY <1>4, <1>6, <1>7, <1>8 DEF Posts, ChannelOK, Noted, InControl
<1>10. Kept(SendPacket(Having(p), x)) /\ Wrote(Channel, SendPacket(Having(p), x))
  <2>1. CASE p.socket # 0
    <3>1. x.type # "Frame" /\ Posts(Channel.ch, Having(p).ch, x) /\ ChannelOK(Having(p).ch)
          /\ Having(p).ch.socket # 0 /\ Having(p).s = Channel.s /\ x.type # "Hide"
      BY <1>1, <1>4, <1>5, <1>9, <2>1
    <3> QED BY <1>1, <1>4, <1>5, <3>1, SendsControl
  <2>2. CASE p.socket = 0
    <3>1. SendPacket(Having(p), x) = Having(p)
      BY <1>5, <2>2 DEF SendPacket
    <3>2. Kept(Having(p)) /\ Wrote(Channel, Having(p))
      BY <1>1, <1>5, <1>9, NotesFine
    <3> QED BY <3>1, <3>2
  <2> QED BY <2>1, <2>2
<1> QED BY <1>3, <1>10, StepWeb

(* A channel that is closed already asks nobody for its confirmation.        *)
LEMMA AsksNobody ==
  ASSUME IInv, NEW p \in ChannelType, web.socket = 0, ChannelOK(p), web.next <= p.next,
         p.socket = 0, p.born = web.born, p.early = web.early, p.inFlight = web.inFlight,
         p.control = web.control, p.closing # 0 => p.owner = None
  PROVE  Kept(Having(p)) /\ Wrote(Channel, Having(p))
<1> DEFINE q == Link(overlay)
           X == Held(overlay)
           g == overlay.closing
<1>1. /\ web \in ChannelType /\ sockets \in SocketsType /\ overlay \in OverlayType
      /\ Channel.ch = web /\ Channel.s = sockets /\ Kept(Channel)
  BY InvWeb
<1>2. /\ Fine(Channel) /\ q \in LinkType /\ X \in SUBSET Frame /\ g \in Replied
      /\ Safe(web, sockets, q, X) /\ Granted(sockets) /\ ~web.early
      /\ (web.control # None => web.socket # 0) /\ Channel \in WType
  BY <1>1, KeptParts
<1>3. Having(p) \in WType /\ Having(p).ch = p /\ Having(p).s = sockets
  BY HavingIs
<1>4. \A d \in Connections : d # web.socket
  BY Numbers
<1>5. g # None => /\ g.type = "CloseComplete" /\ Accepted(sockets, g.conn)
                  /\ q.client # 0 => g.conn = q.client
  BY <1>2 DEF Granted
<1>6. Books(p, sockets, q, X, g)
  <2>1. /\ p.control = None /\ ~p.early /\ p.socket = 0
        /\ \A d \in Connections : /\ sockets[d].toUI = sockets[d].toUI
                                  /\ sockets[d].ui = sockets[d].ui
    BY <1>2
  <2> HIDE DEF q, X, g
  <2> QED BY Zenon, <1>1, <1>2, <1>4, <1>5, <2>1, CloseKeeps
<1>7. Fine(Having(p))
  <2>1. \A d \in Connections : Made(Channel.s, d) => Made(Having(p).s, d)
    BY <1>1, <1>3
  <2> QED BY <1>1, <1>2, <1>3, <2>1, StaysFine
<1> QED BY <1>1, <1>3, <1>6, <1>7 DEF Kept, Wrote

(* The sink is destroyed, and asks to close.                                *)
LEMMA ReleaseStep ==
  ASSUME IInv, NEW k \in Sinks, ReleaseOwner(k) PROVE IInv' /\ WebStep
<1> DEFINE p == [web EXCEPT !.owner = None]
           z == [p EXCEPT !.closing = web.next, !.next = web.next + 1]
           x == [type |-> "Hide", sequence |-> web.next, rect |-> web.rect]
<1>1. /\ web \in ChannelType /\ Kept(Channel) /\ Channel.ch = web /\ Channel.s = sockets
      /\ overlay \in OverlayType /\ web.owner = k /\ k # None /\ web.next <= MaxSequence
  BY InvWeb, OverlayAssumption DEF ReleaseOwner
<1>2. /\ web.next \in Nat /\ web.next # 0 /\ MaxSequence \in Nat /\ web.rect \in Rects
      /\ web.closing \in Nat
  <2>1. web.next \in 1..(MaxSequence + 1) /\ web.rect \in Rects
    BY <1>1 DEF ChannelType
  <2> QED BY <1>1, <2>1, ChannelNumbers, Numbers
<1>3. web.next \in 0..MaxSequence /\ web.next + 1 \in 1..(MaxSequence + 1)
  BY <1>1, <1>2
<1>4. p \in ChannelType /\ p.owner = None /\ Apart(web, p, {"owner"})
  BY <1>1, ChannelFree
<1>5. /\ z \in ChannelType /\ z.closing = web.next /\ z.next = web.next + 1
      /\ Apart(p, z, {"closing", "next"})
  <2> HIDE DEF p
  <2> QED BY Zenon, <1>3, <1>4, ChannelAsks
<1>6. x \in Packet /\ x.type = "Hide" /\ x.sequence = web.next
  BY <1>2, <1>3 DEF Packet
<1>7. Does(IF web.inFlight = {} THEN CloseChannel(Having(p)) ELSE SendPacket(Having(z), x))
  <2>1. [Channel EXCEPT !.ch.owner = None] = Having(p)
    BY DEF Having, Channel
  <2>2. [Having(p) EXCEPT !.ch = [Having(p).ch EXCEPT !.closing = web.next, !.next = @ + 1]]
          = Having(z)
    <3>1. Having(p).ch = p
      BY <1>4, HavingIs
    <3>2. p.next = web.next
      BY <1>4, ApartAll
    <3>3. [Having(p).ch EXCEPT !.closing = web.next, !.next = @ + 1] = z
      BY Zenon, <3>1, <3>2
    <3> HIDE DEF z, p
    <3>4. Having(p) \in WType /\ Having(p).s = sockets /\ sockets \in SocketsType
      BY <1>4, HavingIs, InvWeb
    <3>5. [Having(p) EXCEPT !.ch = z] = With(Having(p), z, sockets)
      BY Zenon, <3>4 DEF With, WType
    <3>6. With(Having(p), z, sockets) = [ch |-> z, s |-> sockets]
      BY <1>5, <3>4, Both
    <3>7. With(Channel, z, sockets) = [ch |-> z, s |-> sockets]
      BY <1>1, <1>5, <3>4, InvWeb, Both
    <3>8. Having(z) = With(Channel, z, sockets)
      BY Zenon, InvWeb DEF Having, With, WType
    <3> QED BY <3>3, <3>5, <3>6, <3>7, <3>8
  <2> QED BY Zenon, <2>1, <2>2 DEF ReleaseOwner
<1> HIDE DEF p, z, x
<1>8. /\ Having(p) \in WType /\ Having(p).ch = p /\ Having(p).s = sockets
      /\ Having(z) \in WType /\ Having(z).ch = z /\ Having(z).s = sockets
  BY <1>4, <1>5, HavingIs
<1>9. /\ p.socket = web.socket /\ p.born = web.born /\ p.early = web.early
      /\ p.inFlight = web.inFlight /\ p.next = web.next
      /\ p.closing = web.closing /\ p.control = web.control
  BY <1>4, ApartAll
<1>10. /\ z.socket = web.socket /\ z.born = web.born /\ z.early = web.early
       /\ z.inFlight = web.inFlight /\ z.owner = None /\ z.control = web.control
  BY <1>4, <1>5, <1>9, ApartAll
<1>11. /\ (web.closing # 0 => web.owner = None) /\ ChannelOK(web)
       /\ NamesOK(web, sockets, Link(overlay), overlay.closing)
  BY <1>1, KeptParts, ChannelNumbers DEF Books
<1>12. web.closing = 0 /\ ~InControl(web)
  BY <1>1, <1>11 DEF NamesOK, InControl
<1>13. ChannelOK(p) /\ Noted(web, p) /\ Nears(web, p)
  BY <1>2, <1>4, <1>9, <1>11, <1>12 DEF ChannelOK, Noted, InControl, Nears
<1>14. ChannelOK(z) /\ web.next <= z.next
  <2>1. web.next <= z.next /\ z.closing < z.next
    BY <1>2, <1>5
  <2> QED BY <1>1, <1>5, <1>10, <1>11, <2>1, ChannelGrows
<1>15. CASE web.inFlight = {}
  <2>1. CASE p.socket # 0
    BY <1>1, <1>7, <1>8, <1>13, <1>15, <2>1, ShutsFine, StepWeb
  <2>2. CASE p.socket = 0
    <3>1. CloseChannel(Having(p)) = Having(p)
      BY <1>8, <2>2 DEF CloseChannel
    <3>2. Kept(Having(p)) /\ Wrote(Channel, Having(p))
      BY <1>1, <1>8, <1>13, NotesFine
    <3> QED BY <1>7, <1>15, <3>1, <3>2, StepWeb
  <2> QED BY <2>1, <2>2
<1>16. CASE web.inFlight # {}
  <2>1. CASE z.socket # 0
    <3>1. Posts(web, z, x)
      BY <1>2, <1>5, <1>6, <1>10, <1>12, <1>14 DEF Posts
    <3>2. /\ x.type # "Frame" /\ Posts(Channel.ch, Having(z).ch, x) /\ ChannelOK(Having(z).ch)
          /\ Having(z).ch.socket # 0 /\ Having(z).s = Channel.s /\ Channel.ch.closing = 0
      BY <1>1, <1>6, <1>8, <1>12, <1>14, <2>1, <3>1
    <3>3. Kept(SendPacket(Having(z), x)) /\ Wrote(Channel, SendPacket(Having(z), x))
      BY <1>1, <1>6, <1>8, <3>2, SendsControl
    <3> QED BY <1>7, <1>16, <3>3, StepWeb
  <2>2. CASE z.socket = 0
    <3>1. SendPacket(Having(z), x) = Having(z)
      BY <1>8, <2>2 DEF SendPacket
    <3>2. Kept(Having(z)) /\ Wrote(Channel, Having(z))
      BY <1>5, <1>10, <1>14, <2>2, AsksNobody
    <3> QED BY <1>7, <1>16, <3>1, <3>2, StepWeb
  <2> QED BY <2>1, <2>2
<1> QED BY <1>15, <1>16

(* The frames the UI process holds are of connections that were made.        *)
LEMMA NewTyped ==
  ASSUME NEW n \in 0..MaxConnections
  PROVE  /\ NewChannel(n) \in ChannelType /\ ChannelOK(NewChannel(n)) /\ NewChannel(n).born = n
         /\ NewChannel(n).inFlight = {}
<1>1. FirstRect \in Rects
  BY OverlayAssumption DEF FirstRect
<1>2. 0 \in 0..MaxSequence /\ 1 \in 1..(MaxSequence + 1) /\ MaxInFlight \in Nat
  BY Numbers
<1>3. NewChannel(n) \in ChannelType
  BY <1>1, <1>2 DEF NewChannel, ChannelType
<1>4. ChannelOK(NewChannel(n))
  BY <1>2, FS_EmptySet DEF NewChannel, ChannelOK
<1> QED BY <1>3, <1>4 DEF NewChannel

(* The WebProcess is replaced: nothing that is held is its own.              *)
Renewed == /\ web'.inFlight = {} /\ overlay' = overlay
           /\ \A x \in Held(overlay) : x.conn <= web'.born
(* The WebProcess crashes, and a new one starts.                            *)
LEMMA CrashStep == ASSUME IInv, Crash PROVE IInv' /\ Renewed
<1> DEFINE w == CloseChannel(Channel)
           n == Cardinality(Connections \ Unused)
           q == Link(overlay)
           X == Held(overlay)
           g == overlay.closing
<1>1. /\ web \in ChannelType /\ Kept(Channel) /\ Channel.ch = web /\ Channel.s = sockets
      /\ overlay \in OverlayType /\ Channel \in WType
  BY InvWeb
<1>2. Does([w EXCEPT !.ch = NewChannel(n)])
  BY DEF Crash
<1>3. Kept(w) /\ w.ch.socket = 0 /\ \A d \in Connections : w.s[d].ui = sockets[d].ui
  <2>1. CASE web.socket = 0
    <3>1. w = Channel
      BY <1>1, <2>1 DEF CloseChannel
    <3> QED BY <1>1, <2>1, <3>1
  <2>2. CASE web.socket # 0
    <3>1. Nears(web, web) /\ ChannelOK(web)
      BY <1>1, KeptParts, ChannelNumbers DEF Nears
    <3>2. Kept(w) /\ w.ch.socket = 0
      BY <1>1, <2>2, <3>1, ShutsFine
    <3>3. Shuttered(Channel, w)
      BY <1>1, <2>2, ChannelShuts
    <3> QED BY <1>1, <3>2, <3>3 DEF Shuttered
  <2> QED BY <2>1, <2>2
<1> HIDE DEF w
<1>4. /\ w \in WType /\ w.ch \in ChannelType /\ w.s \in SocketsType /\ q \in LinkType
      /\ X \in SUBSET Frame /\ g \in Replied /\ Books(w.ch, w.s, q, X, g) /\ Fine(w)
  BY <1>1, <1>3, KeptParts
<1>5. SocketsOK(w.ch, w.s, q) /\ FramesOK(w.ch, w.s, q, X)
  BY <1>4 DEF Books, Safe
<1>6. Connections \ Unused = {d \in Connections : Made(w.s, d)}
  BY <1>3 DEF Unused, Made
<1>7. \A d \in Connections : ~Made(w.s, d) => Last(w.s, d)
  BY <1>5 DEF SocketsOK, Made
<1>8. n \in 0..MaxConnections /\ \A d \in Connections : Made(w.s, d) <=> d <= n
  BY <1>6, <1>7, MadeFirst
<1> HIDE DEF n
<1>9. Books(NewChannel(n), w.s, q, X, g)
  <2> HIDE DEF q, X, g
  <2> QED BY <1>3, <1>4, <1>8, RebornKeeps
<1>10. \A x \in X : x.conn <= n
  <2> SUFFICES ASSUME NEW x \in X PROVE x.conn <= n
    OBVIOUS
  <2>1. Accepted(w.s, x.conn) /\ x.conn \in Connections
    BY <1>4, <1>5, FrameNumbers DEF FramesOK, FrameOK
  <2>2. Made(w.s, x.conn)
    BY <2>1 DEF Accepted, Made
  <2> QED BY <1>8, <2>1, <2>2
<1> DEFINE N == NewChannel(n)
<1>11. N \in ChannelType /\ ChannelOK(N) /\ N.born = n /\ N.inFlight = {}
  BY <1>8, NewTyped
<1>12. Books(N, w.s, q, X, g) /\ Does([w EXCEPT !.ch = N])
  BY <1>2, <1>9
<1> HIDE DEF N
<1> DEFINE v == With(w, N, w.s)
<1>13. [w EXCEPT !.ch = N] = v
  BY Zenon, <1>4 DEF With, WType
<1>14. v \in WType /\ v.ch = N /\ v.s = w.s
  <2>1. v = [ch |-> N, s |-> w.s]
    BY <1>4, <1>11, Both
  <2> HIDE DEF v
  <2> QED BY <1>4, <1>11, <2>1, WMade
<1>15. InOrder(N, overlay)
  <2>1. \A x \in {overlay.current, overlay.pending, overlay.batch} : x # None => ~(x.conn > n)
    <3>1. SUFFICES ASSUME NEW x \in {overlay.current, overlay.pending, overlay.batch}, x # None
                   PROVE ~(x.conn > n)
      OBVIOUS
    <3>2. x \in X
      BY <3>1 DEF Held
    <3>3. x.conn <= n /\ x.conn \in Nat /\ n \in Nat
      BY <1>4, <1>8, <1>10, <3>2, FrameNumbers, Numbers
    <3> QED BY <3>3
  <2> QED BY <1>11, <2>1 DEF InOrder, Below
<1>16. Kept(v)
  BY <1>4, <1>11, <1>12, <1>14, <1>15 DEF Kept, Fine
<1> HIDE DEF v
<1>17. IInv' /\ overlay' = overlay /\ Channel'.ch = v.ch
  BY <1>12, <1>13, <1>16, KeptStep
<1>18. web' = N
  BY <1>14, <1>17 DEF Channel
<1> QED BY <1>10, <1>11, <1>17, <1>18 DEF Renewed

(* What sendFrame finds when it is connected.                                *)
Same(u, w) ==
  /\ w.ch.inFlight = u.ch.inFlight /\ w.ch.next = u.ch.next /\ w.ch.closing = u.ch.closing
  /\ w.ch.owner = u.ch.owner /\ w.ch.born = u.ch.born
Tried(u) == [u EXCEPT !.ch = [u.ch EXCEPT !.backoff = TRUE]]
Opened(u, c) ==
  [ch |-> [Tried(u).ch EXCEPT !.socket = c],
   s |-> [u.s EXCEPT ![c] = [u.s[c] EXCEPT !.web = TRUE, !.ui = "backlog"]]]
(* An attempt to connect changes one field.                                 *)
LEMMA TriedIs ==
  ASSUME NEW u \in WType
  PROVE  Tried(u) \in WType /\ Tried(u).s = u.s /\ Apart(u.ch, Tried(u).ch, {"backoff"})
<1> DEFINE p == [u.ch EXCEPT !.backoff = TRUE]
<1>1. u.ch \in ChannelType /\ u.s \in SocketsType
  BY WTyped
<1>2. p \in ChannelType /\ Apart(u.ch, p, {"backoff"})
  BY Zenon, <1>1, ChannelWaits
<1>3. Tried(u) = With(u, p, u.s)
  BY Zenon DEF Tried, With, WType
<1> HIDE DEF p
<1>4. Tried(u) = [ch |-> p, s |-> u.s]
  BY <1>1, <1>2, <1>3, Both
<1>5. Tried(u) \in WType /\ Tried(u).ch = p /\ Tried(u).s = u.s
  BY <1>1, <1>2, <1>4, WMade
<1> QED BY <1>2, <1>5

(* An attempt to connect that failed keeps the invariant.                   *)
LEMMA TriedKeeps ==
  ASSUME NEW u, Kept(u), overlay \in OverlayType
  PROVE  Kept(Tried(u)) /\ Same(u, Tried(u)) /\ Tried(u).ch.socket = u.ch.socket
         /\ Tried(u).s = u.s /\ Tried(u) \in WType
<1> DEFINE v == Tried(u)
<1>1. u \in WType /\ u.ch \in ChannelType /\ ChannelOK(u.ch)
      /\ (u.ch.closing # 0 => u.ch.owner = None) /\ u.ch.next \in Nat
  BY KeptParts, ChannelNumbers
<1>2. v \in WType /\ v.s = u.s /\ Apart(u.ch, v.ch, {"backoff"})
  BY <1>1, TriedIs
<1> HIDE DEF v
<1>3. /\ v.ch.socket = u.ch.socket /\ v.ch.born = u.ch.born /\ v.ch.early = u.ch.early
      /\ v.ch.inFlight = u.ch.inFlight /\ v.ch.next = u.ch.next
      /\ v.ch.closing = u.ch.closing /\ v.ch.owner = u.ch.owner /\ v.ch.control = u.ch.control
  BY <1>2, ApartAll
<1>4. Noted(u.ch, v.ch) /\ ChannelOK(v.ch)
  BY <1>1, <1>3 DEF Noted, InControl, ChannelOK
<1>5. Kept(v)
  BY <1>2, <1>4, NotesFine
<1> QED BY <1>2, <1>3, <1>5 DEF Same, v

(* One that succeeded keeps it.                                             *)
LEMMA OpenedKeeps ==
  ASSUME NEW u, Kept(u), overlay \in OverlayType, u.ch.socket = 0, MayConnect(u.ch),
         overlay.gone = "no", NEW c \in Connections, u.s[c].ui = "unused",
         \A d \in Connections : d < c => Made(u.s, d), NEW v, v = Opened(u, c)
  PROVE  Kept(v) /\ Same(u, v)
<1> DEFINE t == Tried(u)
           p == [t.ch EXCEPT !.socket = c]
           y == [u.s[c] EXCEPT !.web = TRUE, !.ui = "backlog"]
           z == [u.s EXCEPT ![c] = y]
           q == Link(overlay)
           X == Held(overlay)
           g == overlay.closing
<1>1. Kept(t) /\ Same(u, t) /\ t.ch.socket = 0 /\ t.s = u.s /\ t \in WType
  BY TriedKeeps
<1> HIDE DEF t
<1>2. /\ t.ch \in ChannelType /\ u.s \in SocketsType /\ q \in LinkType /\ X \in SUBSET Frame
      /\ g \in Replied /\ Books(t.ch, u.s, q, X, g) /\ Fine(t) /\ ChannelOK(t.ch)
  BY <1>1, KeptParts
<1>3. p \in ChannelType /\ p.socket = c /\ Apart(t.ch, p, {"socket"})
  BY <1>2, ChannelOpens
<1>4. u.s[c] \in SocketType
  BY <1>2 DEF SocketsType
<1>5. /\ y \in SocketType /\ y.toUI = u.s[c].toUI
      /\ y.web = TRUE /\ y.ui = "backlog" /\ y.toWeb = u.s[c].toWeb
  BY Zenon, <1>4, SocketConnects
<1>6. v = [ch |-> p, s |-> z]
  BY DEF Opened, t
<1> HIDE DEF p, y
<1>7. z \in SocketsType /\ z[c] = y /\ \A d \in Connections : d # c => z[d] = u.s[d]
  BY <1>2, <1>5, Puts
<1> HIDE DEF z
<1>8. v \in WType /\ v.ch = p /\ v.s = z
  BY <1>3, <1>6, <1>7, WMade
<1>9. /\ p.closing = t.ch.closing /\ p.owner = t.ch.owner /\ p.inFlight = t.ch.inFlight
      /\ p.next = t.ch.next /\ p.control = t.ch.control /\ p.early = t.ch.early
      /\ p.born = t.ch.born
  BY <1>3, ApartAll
<1>10. t.ch.inFlight = {} /\ t.ch.closing = 0 /\ q.gone = "no"
  BY <1>1 DEF MayConnect, Same, Link
<1>11. Books(p, z, q, X, g)
  <2>1. /\ p.socket = c /\ p.inFlight = {} /\ p.closing = 0
        /\ z[c].web /\ z[c].ui = "backlog" /\ z[c].toUI = u.s[c].toUI /\ z[c].toWeb = u.s[c].toWeb
    BY <1>3, <1>5, <1>7, <1>9, <1>10
  <2> HIDE DEF q, X, g
  <2> QED BY <1>1, <1>2, <1>3, <1>7, <1>9, <1>10, <2>1, ConnectKeeps
<1>12. Fine(v)
  <2>1. \A d \in Connections : /\ Made(t.s, d) => Made(v.s, d)
                               /\ v.s[d].web => t.s[d].web \/ ~Made(t.s, d)
                               /\ v.s[d].toWeb = t.s[d].toWeb
    BY <1>1, <1>5, <1>7, <1>8 DEF Made
  <2>2. ChannelOK(v.ch) /\ v.ch.born = t.ch.born
    BY <1>2, <1>8, <1>9 DEF ChannelOK
  <2> QED BY <1>1, <1>2, <1>8, <2>1, <2>2, StaysFine
<1>13. Same(u, v)
  BY <1>1, <1>8, <1>9 DEF Same
<1> QED BY <1>8, <1>11, <1>12, <1>13 DEF Kept

(* Either way.                                                              *)
LEMMA EnsureKeeps ==
  ASSUME NEW u, Kept(u), overlay \in OverlayType, u.s = sockets, NEW w \in EnsureConnected(u)
  PROVE  Kept(w) /\ Same(u, w)
<1>1. CASE w = u
  BY <1>1 DEF Same
<1>2. CASE w # u
  <2>1. u.ch.socket = 0 /\ MayConnect(u.ch) /\ w \in Connect(u)
    BY <1>2 DEF EnsureConnected
  <2>2. CASE w = Tried(u)
    BY <2>2, TriedKeeps
  <2>3. CASE w # Tried(u)
    <3>1. \E c \in {d \in Unused : overlay.gone = "no" /\ \A e \in Unused : d <= e} :
            w = Opened(u, c)
      BY <2>1, <2>3, Zenon DEF Connect, Tried, Opened
    <3>2. PICK c \in Unused : /\ overlay.gone = "no" /\ \A e \in Unused : c <= e
                              /\ w = Opened(u, c)
      BY <3>1
    <3>3. c \in Connections /\ u.s[c].ui = "unused"
      BY <3>2 DEF Unused
    <3>4. \A d \in Connections : d < c => Made(u.s, d)
      <4> SUFFICES ASSUME NEW d \in Connections, d < c, ~Made(u.s, d) PROVE FALSE
        OBVIOUS
      <4>1. d \in Unused
        BY DEF Unused, Made
      <4>2. c <= d /\ c \in Nat /\ d \in Nat
        BY <3>2, <3>3, <4>1, Numbers
      <4> QED BY <4>2
    <3> QED BY <2>1, <3>2, <3>3, <3>4, OpenedKeeps
  <2> QED BY <2>2, <2>3
<1> QED BY <1>1, <1>2

Framed(w) == [type |-> "Frame", sequence |-> w.ch.next, rect |-> w.ch.rect]
Counted(w) == [w EXCEPT !.ch.next = @ + 1]
Lent(v, n) == [v EXCEPT !.ch.inFlight = @ \cup {n}]
(* Sending a sample, spelled out.                                           *)
LEMMA SendSampleIs ==
  ASSUME NEW w
  PROVE  SendSample(w) =
           IF Cardinality(w.ch.inFlight) >= MaxInFlight THEN w
           ELSE IF \/ SendPacket(Counted(w), Framed(w)).s = w.s
                   \/ SendPacket(Counted(w), Framed(w)).ch.socket = 0
             THEN SendPacket(Counted(w), Framed(w))
           ELSE Lent(SendPacket(Counted(w), Framed(w)), w.ch.next)
  BY DEF SendSample, Framed, Counted, Lent

(* The next sample has its number, and its packet.                          *)
LEMMA CountedIs ==
  ASSUME NEW w \in WType, w.ch.next <= MaxSequence
  PROVE  /\ Counted(w) \in WType /\ Counted(w).s = w.s /\ Counted(w).ch.next = w.ch.next + 1
         /\ Apart(w.ch, Counted(w).ch, {"next"}) /\ Framed(w) \in Packet
<1> DEFINE p == [w.ch EXCEPT !.next = w.ch.next + 1]
<1>1. w.ch \in ChannelType /\ w.s \in SocketsType
  BY WTyped
<1>2. w.ch.next \in 1..(MaxSequence + 1) /\ w.ch.rect \in Rects /\ MaxSequence \in Nat
  BY <1>1, Numbers DEF ChannelType
<1>3. w.ch.next + 1 \in 1..(MaxSequence + 1) /\ w.ch.next \in 0..MaxSequence
  BY <1>2
<1>4. p \in ChannelType /\ p.next = w.ch.next + 1 /\ Apart(w.ch, p, {"next"})
  BY <1>1, <1>3, ChannelNext
<1>5. Counted(w) = With(w, p, w.s)
  BY Zenon DEF Counted, With, WType
<1> HIDE DEF p
<1>6. Counted(w) = [ch |-> p, s |-> w.s]
  BY <1>1, <1>4, <1>5, Both
<1>7. Counted(w) \in WType /\ Counted(w).ch = p /\ Counted(w).s = w.s
  BY <1>1, <1>4, <1>6, WMade
<1>8. Framed(w) \in Packet
  BY <1>2, <1>3 DEF Framed, Packet
<1> QED BY <1>4, <1>7, <1>8

(* The sample is in flight.                                                 *)
LEMMA LentIs ==
  ASSUME NEW v \in WType, NEW n \in 1..MaxSequence
  PROVE  /\ Lent(v, n) \in WType /\ Lent(v, n).s = v.s
         /\ Lent(v, n).ch.inFlight = v.ch.inFlight \cup {n}
         /\ Apart(v.ch, Lent(v, n).ch, {"inFlight"})
<1> DEFINE L == v.ch.inFlight \cup {n}
           p == [v.ch EXCEPT !.inFlight = L]
<1>1. v.ch \in ChannelType /\ v.s \in SocketsType
  BY WTyped
<1>2. L \in SUBSET (1..MaxSequence)
  BY <1>1, ChannelNumbers
<1>3. Lent(v, n) = With(v, p, v.s)
  BY Zenon DEF Lent, With, WType
<1> HIDE DEF L
<1>4. p \in ChannelType /\ p.inFlight = L /\ Apart(v.ch, p, {"inFlight"})
  BY <1>1, <1>2, ChannelLends
<1> HIDE DEF p
<1>5. Lent(v, n) = [ch |-> p, s |-> v.s]
  BY <1>1, <1>3, <1>4, Both
<1>6. Lent(v, n) \in WType /\ Lent(v, n).ch = p /\ Lent(v, n).s = v.s
  BY <1>1, <1>4, <1>5, WMade
<1> QED BY <1>4, <1>6 DEF L

(* One more sample is in flight, and not too many.                           *)
LEMMA LendsOne ==
  ASSUME NEW a \in ChannelType, NEW b \in ChannelType, ChannelOK(a),
         ~(Cardinality(a.inFlight) >= MaxInFlight), b.inFlight = a.inFlight \cup {a.next},
         b.next = a.next + 1, b.closing = a.closing
  PROVE  ChannelOK(b)
<1>1. a.next \in Nat /\ a.closing \in Nat /\ a.next # 0
  BY ChannelNumbers, Numbers DEF ChannelType
<1>2. a.inFlight \subseteq 1..(a.next - 1) /\ a.closing < a.next
  BY DEF ChannelOK
<1>3. a.next \notin a.inFlight
  BY <1>1, <1>2
<1>4. IsFiniteSet(a.inFlight)
  <2>1. a.next - 1 \in Int
    BY <1>1
  <2>2. IsFiniteSet(1..(a.next - 1))
    BY <2>1, FS_Interval
  <2> QED BY Zenon, <1>2, <2>2, FS_Subset
<1>5. Cardinality(b.inFlight) = Cardinality(a.inFlight) + 1 /\ Cardinality(a.inFlight) \in Nat
  BY <1>3, <1>4, FS_AddElement, FS_CardinalityType
<1>6. Cardinality(b.inFlight) <= MaxInFlight
  BY <1>5, Numbers
<1>7. b.inFlight \subseteq 1..(b.next - 1)
  <2>1. b.next - 1 = a.next
    BY <1>1
  <2>2. 1..(a.next - 1) \subseteq 1..a.next /\ a.next \in 1..a.next
    BY <1>1
  <2> QED BY <1>2, <2>1, <2>2
<1>8. b.closing < b.next
  BY <1>1, <1>2
<1> QED BY <1>6, <1>7, <1>8 DEF ChannelOK

(* Sending a sample keeps the invariant, and lends that one at most.        *)
LEMMA SampleKeeps ==
  ASSUME NEW w, Kept(w), overlay \in OverlayType, w.ch.closing = 0, w.ch.next <= MaxSequence
  PROVE  Kept(SendSample(w)) /\ Wrote(w, SendSample(w))
<1> DEFINE x == Framed(w)
           c == Counted(w)
           v == SendPacket(c, x)
<1>1. w \in WType /\ w.ch \in ChannelType /\ ChannelOK(w.ch) /\ w.ch.next \in Nat
      /\ (w.ch.closing # 0 => w.ch.owner = None)
  BY KeptParts, ChannelNumbers
<1>2. c \in WType /\ c.s = w.s /\ c.ch.next = w.ch.next + 1 /\ Apart(w.ch, c.ch, {"next"})
      /\ x \in Packet /\ c.ch \in ChannelType
  BY <1>1, CountedIs, WTyped
<1>3. x.type = "Frame" /\ x.sequence = w.ch.next
  BY DEF Framed
<1>4. /\ c.ch.socket = w.ch.socket /\ c.ch.born = w.ch.born /\ c.ch.early = w.ch.early
      /\ c.ch.inFlight = w.ch.inFlight /\ c.ch.closing = w.ch.closing
      /\ c.ch.owner = w.ch.owner /\ c.ch.control = w.ch.control
  BY <1>2, ApartAll
<1>5. w.ch.next <= c.ch.next /\ c.ch.closing < c.ch.next
  BY <1>1, <1>2, <1>4
<1>6. ChannelOK(c.ch)
  BY <1>1, <1>2, <1>4, <1>5, ChannelGrows
<1>7. Noted(w.ch, c.ch) /\ Nears(w.ch, c.ch)
  BY <1>1, <1>4, <1>5 DEF Noted, Nears, InControl
<1>8. SendSample(w) = IF Cardinality(w.ch.inFlight) >= MaxInFlight THEN w
                      ELSE IF v.s = w.s \/ v.ch.socket = 0 THEN v ELSE Lent(v, w.ch.next)
  BY SendSampleIs
<1> HIDE DEF x, c
<1>9. CASE Cardinality(w.ch.inFlight) >= MaxInFlight
  BY <1>8, <1>9 DEF Wrote
<1>10. CASE ~(Cardinality(w.ch.inFlight) >= MaxInFlight) /\ c.ch.socket = 0
  <2>1. v = c
    BY <1>10 DEF SendPacket
  <2>2. SendSample(w) = c
    BY <1>2, <1>8, <1>10, <2>1
  <2> QED BY <1>2, <1>6, <1>7, <2>2, NotesFine
<1>11. CASE ~(Cardinality(w.ch.inFlight) >= MaxInFlight) /\ c.ch.socket # 0
  <2>1. SentBy(c, v, x)
    BY <1>2, <1>11, SendCases
  <2> HIDE DEF v
  <2>2. CASE PeerGone(c) /\ v = CloseChannel(c)
    <3>1. Kept(v) /\ Wrote(w, v) /\ v.ch.socket = 0
      BY <1>2, <1>6, <1>7, <1>11, <2>2, ShutsFine
    <3>2. SendSample(w) = v
      BY <1>8, <1>11, <3>1
    <3> QED BY <3>1, <3>2
  <2>3. CASE v \in WType /\ v.ch = c.ch /\ Sends(c.ch, c.s, v.s, x)
    <3> DEFINE z == Lent(v, w.ch.next)
    <3>1. w.ch.next \in 1..MaxSequence
      <4>1. w.ch.next \in 1..(MaxSequence + 1)
        BY <1>1 DEF ChannelType
      <4> QED BY <4>1, Numbers
    <3>2. /\ z \in WType /\ z.s = v.s /\ z.ch.inFlight = v.ch.inFlight \cup {w.ch.next}
          /\ Apart(v.ch, z.ch, {"inFlight"}) /\ z.ch \in ChannelType
      BY <2>3, <3>1, LentIs, WTyped
    <3>3. v.s # w.s
      <4>1. Len(v.s[c.ch.socket].toUI) = Len(c.s[c.ch.socket].toUI) + 1
            /\ Len(c.s[c.ch.socket].toUI) \in Nat
        <5>1. c.s \in SocketsType /\ c.ch.socket \in Connections
          BY <1>2, <1>11, WTyped, ChannelNumbers
        <5>2. c.s[c.ch.socket].toUI \in Seq(Packet)
          BY <5>1, SocketTyped
        <5>3. v.s[c.ch.socket].toUI = Append(c.s[c.ch.socket].toUI, x)
          BY <2>3 DEF Sends
        <5> QED BY <1>2, <5>2, <5>3, AppendProperties, LenProperties
      <4> QED BY <1>2, <4>1
    <3>4. SendSample(w) = z
      BY <1>8, <1>11, <2>3, <3>3
    <3> HIDE DEF z
    <3>5. /\ z.ch.socket = w.ch.socket /\ z.ch.born = w.ch.born /\ z.ch.early = w.ch.early
          /\ z.ch.next = w.ch.next + 1 /\ z.ch.closing = w.ch.closing
          /\ z.ch.owner = w.ch.owner /\ z.ch.control = w.ch.control
          /\ z.ch.inFlight = w.ch.inFlight \cup {w.ch.next}
      BY <1>2, <1>4, <2>3, <3>2, ApartAll
    <3>6. ChannelOK(z.ch)
      BY <1>1, <1>11, <3>2, <3>5, LendsOne
    <3>7. Posts(w.ch, z.ch, x)
      BY <1>3, <3>5 DEF Posts
    <3>8. Sends(w.ch, w.s, z.s, x)
      BY Zenon, <1>2, <1>4, <2>3, <3>2 DEF Sends
    <3>9. Kept(z) /\ Wrote(w, z)
      BY <1>2, <3>2, <3>6, <3>7, <3>8, PostsFine
    <3> QED BY <3>4, <3>9
  <2>4. CASE v = c
    <3>1. SendSample(w) = c
      BY <1>2, <1>8, <1>11, <2>4
    <3> QED BY <1>2, <1>6, <1>7, <3>1, NotesFine
  <2> QED BY <1>3, <2>1, <2>2, <2>3, <2>4 DEF SentBy
<1> QED BY <1>9, <1>10, <1>11

(* The sink hands over a sample.                                            *)
LEMMA SendFrameStep ==
  ASSUME IInv, NEW k \in Sinks, NEW r \in Rects, SendFrame(k, r) PROVE IInv' /\ WebStep
<1> DEFINE p == [web EXCEPT !.owner = k, !.rect = r]
<1>1. /\ web \in ChannelType /\ Kept(Channel) /\ Channel.ch = web /\ Channel.s = sockets
      /\ overlay \in OverlayType /\ web.closing = 0 /\ web.next <= MaxSequence
  BY InvWeb DEF SendFrame
<1>2. p \in ChannelType /\ Apart(web, p, {"owner", "rect"})
  BY Zenon, <1>1, ChannelOwned
<1>3. \E w \in EnsureConnected(Having(p)) :
        Does(IF w.ch.socket = 0 THEN w ELSE SendSample(Drain(w)))
  BY DEF SendFrame, Having
<1> HIDE DEF p
<1>4. Having(p) \in WType /\ Having(p).ch = p /\ Having(p).s = sockets
  BY <1>2, HavingIs
<1>5. /\ p.socket = web.socket /\ p.born = web.born /\ p.early = web.early
      /\ p.inFlight = web.inFlight /\ p.next = web.next
      /\ p.closing = web.closing /\ p.control = web.control
  BY <1>2, ApartAll
<1>6. ChannelOK(web) /\ web.next \in Nat
  BY <1>1, KeptParts, ChannelNumbers
<1>7. Noted(web, p) /\ ChannelOK(p)
  BY <1>1, <1>5, <1>6 DEF Noted, InControl, ChannelOK
<1>8. Kept(Having(p))
  BY <1>1, <1>4, <1>7, NotesFine
<1>9. PICK w \in EnsureConnected(Having(p)) :
        Does(IF w.ch.socket = 0 THEN w ELSE SendSample(Drain(w)))
  BY <1>3
<1>10. Kept(w) /\ Same(Having(p), w)
  BY <1>1, <1>4, <1>8, EnsureKeeps
<1>11. /\ w.ch.inFlight = web.inFlight /\ w.ch.next = web.next /\ w.ch.closing = 0
       /\ w.ch.born = web.born
  BY <1>1, <1>4, <1>5, <1>10 DEF Same
<1>12. CASE w.ch.socket = 0
  <2>1. Wrote(Channel, w)
    BY <1>1, <1>11 DEF Wrote
  <2> QED BY <1>9, <1>10, <1>12, <2>1, StepWeb
<1>13. CASE w.ch.socket # 0
  <2> DEFINE d == Drain(w)
             v == SendSample(d)
  <2>1. Kept(d) /\ Less(w, d)
    BY <1>1, <1>10, ReadsReplies
  <2> HIDE DEF d
  <2>2. d.ch.closing = 0 /\ d.ch.next <= MaxSequence /\ d.ch.next = web.next
    BY <1>1, <1>11, <2>1 DEF Less
  <2>3. Kept(v) /\ Wrote(d, v)
    BY <1>1, <2>1, <2>2, SampleKeeps
  <2> HIDE DEF v
  <2>4. Wrote(Channel, v)
    BY <1>1, <1>11, <2>1, <2>2, <2>3 DEF Wrote, Less
  <2>5. Does(v)
    BY <1>9, <1>13 DEF v, d
  <2> QED BY <2>3, <2>4, <2>5, StepWeb
<1> QED BY <1>12, <1>13

(* At first there is no connection and nothing is held.                      *)
LEMMA InitInv == ASSUME Init PROVE IInv
<1> DEFINE X == Held(overlay)
           q == Link(overlay)
<1>1. /\ web = NewChannel(0)
      /\ sockets = [c \in Connections |->
                      [web |-> FALSE, ui |-> "unused", toUI |-> <<>>, toWeb |-> <<>>,
                       reset |-> FALSE]]
      /\ overlay =
           [client |-> 0, dropping |-> FALSE, closeAfterDisable |-> FALSE, writer |-> 0,
            acks |-> <<>>, current |-> None, lastRect |-> FirstRect, planeEnabled |-> FALSE,
            plane |-> None, pending |-> None, geometryPending |-> FALSE,
            disableRequested |-> FALSE, expired |-> FALSE, closing |-> None, retry |-> FALSE,
            busy |-> FALSE, reading |-> 0, batch |-> None, gone |-> "no"]
  BY DEF Init, Start
<1>2. 0 \in 0..MaxConnections /\ FirstRect \in Rects
  BY Numbers, OverlayAssumption DEF FirstRect
<1>3. web \in ChannelType /\ ChannelOK(web) /\ web.born = 0 /\ web.inFlight = {}
      /\ web.socket = 0 /\ web.early = FALSE /\ web.closing = 0 /\ web.control = None
  <2>1. NewChannel(0) \in ChannelType /\ ChannelOK(NewChannel(0)) /\ NewChannel(0).born = 0
        /\ NewChannel(0).inFlight = {}
    BY <1>2, NewTyped
  <2> QED BY <1>1, <2>1 DEF NewChannel
<1>4. \A d \in Connections : /\ sockets[d].web = FALSE /\ sockets[d].ui = "unused"
                             /\ sockets[d].toUI = <<>> /\ sockets[d].toWeb = <<>>
  BY <1>1
<1>5. sockets \in SocketsType
  <2>1. <<>> \in Seq(Packet) /\ <<>> \in Seq(Reply)
    OBVIOUS
  <2> QED BY <1>1, <2>1 DEF SocketsType, SocketType
<1>6. /\ overlay.client = 0 /\ overlay.dropping = FALSE /\ overlay.closeAfterDisable = FALSE
      /\ overlay.acks = <<>> /\ overlay.current = None /\ overlay.planeEnabled = FALSE
      /\ overlay.plane = None /\ overlay.pending = None /\ overlay.disableRequested = FALSE
      /\ overlay.closing = None /\ overlay.reading = 0 /\ overlay.batch = None
      /\ overlay.gone = "no"
  BY <1>1
<1>7. overlay \in OverlayType
  <2>1. <<>> \in Seq(Reply) /\ 0 \in 0..Spent
    BY Numbers DEF Spent
  <2> QED BY <1>1, <1>2, <2>1, Zenon DEF OverlayType
<1>8. X = {} /\ q.client = 0 /\ q.acks = <<>> /\ q.gone = "no"
  BY <1>6 DEF Held, Link
<1>9. \A d \in Connections : /\ Len(sockets[d].toUI) = 0 /\ Len(sockets[d].toWeb) = 0
                             /\ d # 0
  BY <1>4, Numbers
<1>10. SocketsOK(web, sockets, q)
  <2>1. \A d \in Connections : ~(d <= web.born)
    BY <1>3, Numbers
  <2> QED BY <1>3, <1>4, <1>8, <1>9, <2>1 DEF SocketsOK, Last
<1>11. UnreadOK(web, sockets) /\ FramesOK(web, sockets, q, X)
  BY <1>8, <1>9 DEF UnreadOK, FramesOK
<1>12. RepliesOK(web, sockets, q, X)
  BY <1>8, <1>9 DEF RepliesOK
<1>13. /\ AccountOK(web, sockets, q, X) /\ NamesOK(web, sockets, q, overlay.closing)
       /\ ConfirmedLast(web, sockets) /\ OnceOK(web, sockets, q, X, overlay.closing)
  BY <1>3, <1>6 DEF AccountOK, NamesOK, ConfirmedLast, OnceOK, Live, InControl
<1>14. Books(web, sockets, q, X, overlay.closing)
  BY <1>10, <1>11, <1>12, <1>13 DEF Books, Safe
<1>15. RoomOK(sockets)
  BY <1>9, Numbers DEF RoomOK
<1>16. /\ Calm(overlay) /\ WriterOK(sockets, overlay) /\ ReadingOK(overlay)
       /\ InOrder(web, overlay)
  BY <1>6 DEF Calm, WriterOK, ReadingOK, InOrder, Below, Tidy, Armed
<1> QED BY <1>3, <1>5, <1>7, <1>14, <1>15, <1>16 DEF IInv, TypeOK, SocketsType

(* A step of the system.                                                     *)
LEMMA NextKeeps == ASSUME IInv, Next PROVE IInv' /\ (Moved \/ WebStep \/ Renewed)
<1>1. ASSUME NEW k \in Sinks, NEW r \in Rects, SendFrame(k, r) PROVE IInv' /\ WebStep
  BY <1>1, SendFrameStep
<1>2. ASSUME NEW k \in Sinks, NEW r \in Rects, SetRectangle(k, r) PROVE IInv' /\ WebStep
  BY <1>2, RectangleStep
<1>3. ASSUME NEW k \in Sinks, ReleaseOwner(k) PROVE IInv' /\ WebStep
  BY <1>3, ReleaseStep
<1>4. CASE RepliesReady
  BY <1>4, RepliesReadyStep
<1>5. CASE ControlReady
  BY <1>5, ControlStep
<1>6. CASE BackoffEnds
  BY <1>6, BackoffStep
<1>7. CASE Crash
  BY <1>7, CrashStep
<1>8. ASSUME NEW c \in Connections, Accept(c) PROVE IInv' /\ Moved
  BY <1>8, AcceptStep
<1>9. CASE ClientEvent
  BY <1>9, ClientEventStep
<1>10. CASE ReadPacket
  BY <1>10, ReadPacketStep
<1>11. CASE ReadDrained
  BY <1>11, ReadDrainedStep
<1>12. CASE ReadEnds
  BY <1>12, ReadEndsStep
<1>13. CASE ReleaseWritable
  BY <1>13, WritableStep
<1>14. CASE RetryDrain
  BY <1>14, RetryDrainStep
<1>15. CASE DisableExpires
  BY <1>15, ExpiresStep
<1>16. CASE PageCommit
  BY <1>16, CommitStep
<1>17. CASE PageFlip
  BY <1>17, PageFlipStep
<1>18. CASE LayoutChanges
  BY <1>18, LayoutStep
<1>19. CASE Stop
  BY <1>19, StopStep
<1>20. CASE Aborted
  BY <1>20, AbortedStep
<1> QED BY <1>1, <1>2, <1>3, <1>4, <1>5, <1>6, <1>7, <1>8, <1>9, <1>10, <1>11, <1>12, <1>13,
           <1>14, <1>15, <1>16, <1>17, <1>18, <1>19, <1>20 DEF Next

(* Nothing happens.                                                         *)
LEMMA Stutters == ASSUME IInv, UNCHANGED vars PROVE IInv'
  BY DEF vars, IInv, TypeOK, Calm, WriterOK, RoomOK, ReadingOK, Tidy, Armed

(* Every state satisfies the invariant, which speaks of every function the   *)
(* handlers call: the proof carries it through each of them, though the      *)
(* state half way through a handler is none of the system.                   *)
THEOREM OverlayInvariance == Spec => []IInv
<1>1. Init => IInv
  BY InitInv
<1>2. IInv /\ [Next]_vars => IInv'
  BY NextKeeps, Stutters
<1> QED BY <1>1, <1>2, PTL DEF Spec

(* The invariant, in parts.                                                  *)
LEMMA InvParts ==
  ASSUME IInv
  PROVE  /\ web \in ChannelType /\ sockets \in SocketsType /\ overlay \in OverlayType
         /\ Link(overlay) \in LinkType /\ Held(overlay) \in SUBSET Frame
         /\ overlay.closing \in Replied /\ ChannelOK(web) /\ Calm(overlay)
         /\ ReadingOK(overlay) /\ InOrder(web, overlay)
         /\ Safe(web, sockets, Link(overlay), Held(overlay))
         /\ AccountOK(web, sockets, Link(overlay), Held(overlay))
         /\ NamesOK(web, sockets, Link(overlay), overlay.closing)
         /\ OnceOK(web, sockets, Link(overlay), Held(overlay), overlay.closing)
         /\ Books(web, sockets, Link(overlay), Held(overlay), overlay.closing)
  BY InvWeb, OverlayParts DEF IInv, Books

(* A frame that is held or scanned out.                                      *)
LEMMA HeldLent ==
  ASSUME IInv, NEW x \in {overlay.current, overlay.plane, overlay.pending, overlay.batch},
         x # None
  PROVE  x \in Frame /\ (x.conn > web.born => x.sequence \in web.inFlight)
         /\ Made(sockets, x.conn) /\ x \in Held(overlay)
<1>1. overlay.plane # None => overlay.plane = overlay.current
  BY InvParts DEF Calm
<1>2. x \in Held(overlay) /\ x \in Frame
  BY <1>1, InvParts DEF Held
<1>3. FrameOK(web, sockets, x)
  BY <1>2, InvParts DEF Safe, FramesOK
<1> QED BY <1>2, <1>3 DEF FrameOK, Accepted, Made

(* The decoder does not get a sample back while the hardware scans its frame *)
(* out or may do so at the next commit: however connections break, clients   *)
(* are dropped half way through a batch and disables are put off.            *)
THEOREM ScanoutSafety == Spec => []ScanoutRetained
<1>1. ASSUME IInv PROVE ScanoutRetained
  <2>1. TypeOK
    BY <1>1 DEF IInv
  <2>2. ASSUME NEW x \in OnPlane \cup Waiting PROVE x.sequence \in web.inFlight
    <3>1. x \in {overlay.current, overlay.plane, overlay.pending, overlay.batch} /\ x # None
          /\ x.conn > web.born
      BY <2>2 DEF OnPlane, Waiting, Mine
    <3> QED BY <1>1, <3>1, HeldLent
  <2> QED BY <2>1, <2>2 DEF ScanoutRetained, Sequences
<1>2. IInv => ScanoutRetained
  BY <1>1
<1> QED BY <1>2, OverlayInvariance, PTL

(* No frame and no reply of one client is left when the next one is served.  *)
THEOREM HandoverSafety == Spec => []CleanHandover
<1>1. ASSUME IInv, Idle,
             NEW x \in ({overlay.current, overlay.pending, overlay.plane} \ {None})
                         \cup {overlay.acks[i] : i \in DOMAIN overlay.acks}
                         \cup ({overlay.closing} \ {None})
      PROVE  x.conn = overlay.client \/ (overlay.client = 0 /\ overlay.disableRequested)
  <2> DEFINE q == Link(overlay)
  <2>1. q.client = overlay.client /\ q.acks = overlay.acks /\ q.gone = overlay.gone
        /\ overlay.gone = "no" /\ overlay.reading = 0 /\ overlay.acks \in Seq(Reply)
        /\ (overlay.plane # None => overlay.plane = overlay.current)
    BY <1>1, InvParts DEF Idle, Link, Calm, OverlayType
  <2>2. DOMAIN overlay.acks = 1..Len(overlay.acks)
    BY <2>1
  <2>3. CASE overlay.client # 0
    <3>1. CASE x \in {overlay.current, overlay.pending, overlay.plane} \ {None}
      <4>1. x \in Held(overlay)
        BY <2>1, <3>1 DEF Held
      <4> QED BY <1>1, <2>1, <2>3, <4>1, InvParts DEF Safe, FramesOK
    <3>2. CASE x \in {overlay.closing} \ {None}
      BY <1>1, <2>1, <2>3, <3>2, InvParts DEF NamesOK
    <3>3. CASE x \in {overlay.acks[i] : i \in DOMAIN overlay.acks}
      BY <1>1, <2>1, <2>2, <2>3, <3>3, InvParts DEF Safe, RepliesOK
    <3> QED BY <1>1, <3>1, <3>2, <3>3
  <2>4. CASE overlay.client = 0 /\ ~overlay.disableRequested
    <3>1. overlay.current = None /\ overlay.pending = None /\ overlay.closing = None
      BY <1>1, <2>1, <2>4, InvParts DEF ReadingOK, Tidy
    <3>2. overlay.acks = <<>>
      BY <1>1, <2>1, <2>4, InvParts DEF Safe, RepliesOK
    <3> QED BY <1>1, <2>1, <2>2, <3>1, <3>2
  <2> QED BY <2>3, <2>4
<1>2. IInv => CleanHandover
  BY <1>1 DEF CleanHandover, Range
<1> QED BY <1>2, OverlayInvariance, PTL

-----------------------------------------------------------------------------
(* The refinement.                                                          *)
Shown == Sequences(Mine({overlay.current}))

(* The frame of this WebProcess that is retained, if there is one.           *)
LEMMA ShownIs ==
  Shown = IF overlay.current # None /\ overlay.current.conn > web.born
            THEN {overlay.current.sequence} ELSE {}
  BY DEF Shown, Sequences, Mine

(* It is lent.                                                               *)
LEMMA ShownLent == IInv => Shown \subseteq web.inFlight
<1>1. ASSUME IInv, NEW n \in Shown PROVE n \in web.inFlight
  <2>1. /\ overlay.current # None /\ overlay.current.conn > web.born
        /\ n = overlay.current.sequence
    BY <1>1, ShownIs
  <2> QED BY <1>1, <2>1, HeldLent
<1> QED BY <1>1

(* A step of the UI process shows the next frame, hides one, or does neither. *)
LEMMA MovedLends == ASSUME IInv, Moved PROVE [Lending!Next]_(Lending!vars)
<1>1. web' = web /\ overlay'.current \in {overlay.current, overlay.pending, overlay.batch, None}
  BY DEF Moved, Turns, UI
<1>2. Shown' = IF overlay'.current # None /\ overlay'.current.conn > web.born
                 THEN {overlay'.current.sequence} ELSE {}
  BY <1>1 DEF Shown, Sequences, Mine
<1>3. CASE overlay'.current = overlay.current
  BY <1>1, <1>2, <1>3, ShownIs DEF Lending!vars, Shown
<1>4. CASE overlay'.current = None \/ ~(overlay'.current.conn > web.born)
  BY <1>1, <1>2, <1>4 DEF Lending!Next, Lending!Hide, Shown
<1>5. ASSUME NEW y \in {overlay.pending, overlay.batch}, overlay'.current = y, y # None,
             y.conn > web.born
      PROVE  Lending!Next
  <2>1. y.sequence \in web.inFlight
    BY <1>5, HeldLent
  <2>2. \A m \in Shown : m < y.sequence
    BY <1>5, ShownIs, InvParts DEF InOrder, Below
  <2>3. Shown' = {y.sequence}
    BY <1>2, <1>5
  <2>4. Lending!Show(y.sequence)
    BY <1>1, <2>1, <2>2, <2>3 DEF Lending!Show, Shown
  <2> QED BY <2>1, <2>4 DEF Lending!Next
<1> QED BY <1>1, <1>3, <1>4, <1>5

(* A step of the WebProcess lends the next sample or takes some back, though *)
(* not the one that is shown.                                                *)
LEMMA WebLends == ASSUME IInv, WebStep, Shown' \subseteq web'.inFlight PROVE Lending!Next
<1>1. /\ overlay' = overlay /\ web'.born = web.born
      /\ \/ web'.inFlight \subseteq web.inFlight
         \/ /\ web.next \in web'.inFlight
            /\ web'.inFlight \ {web.next} \subseteq web.inFlight
  BY DEF WebStep, Wrote, Channel
<1>2. Shown' = Shown
  BY <1>1 DEF Shown, Sequences, Mine
<1>3. CASE web'.inFlight \subseteq web.inFlight
  BY <1>2, <1>3 DEF Lending!Next, Lending!GiveBack, Shown
<1>4. CASE web.next \in web'.inFlight /\ web'.inFlight \ {web.next} \subseteq web.inFlight
  <2>1. \A m \in web.inFlight : m < web.next
    <3>1. web.inFlight \subseteq 1..(web.next - 1) /\ web.next \in Nat
      BY InvParts DEF ChannelOK, ChannelType
    <3> QED BY <3>1
  <2> QED BY <1>2, <1>4, <2>1 DEF Lending!Next, Lending!Lend, Shown
<1> QED BY <1>1, <1>3, <1>4

(* A crash takes all samples with it.                                        *)
LEMMA CrashLends == ASSUME IInv, IInv', Renewed PROVE Lending!Next
<1>1. /\ web'.inFlight = {} /\ overlay' = overlay
      /\ \A x \in Held(overlay) : x.conn <= web'.born
  BY DEF Renewed
<1>2. Shown' = {}
  <2>1. CASE overlay.current = None
    BY <1>1, <2>1 DEF Shown, Sequences, Mine
  <2>2. CASE overlay.current # None
    <3>1. overlay.current.conn <= web'.born
      BY <1>1, <2>2 DEF Held
    <3>2. overlay.current.conn \in Nat
      BY Zenon, <2>2, HeldLent, Numbers DEF Frame
    <3>3. web'.born \in Nat
      <4>1. web' \in ChannelType
        BY DEF IInv, TypeOK
      <4> QED BY <4>1, Numbers DEF ChannelType
    <3>4. ~(overlay.current.conn > web'.born)
      BY <3>1, <3>2, <3>3
    <3> QED BY <1>1, <3>4 DEF Shown, Sequences, Mine
  <2> QED BY <2>1, <2>2
<1> QED BY <1>1, <1>2 DEF Lending!Next, Lending!Restart, Shown

(* The two processes keep the promise of SampleLending: samples are shown in *)
(* the order they were sent, and none is given back while it is shown.       *)
THEOREM SamplesLent == Spec => LendsSamples
<1>1. Init => Lending!Init
  <2> SUFFICES ASSUME Init PROVE Lending!Init
    OBVIOUS
  <2>1. web.inFlight = {} /\ overlay.current = None
    BY DEF Init, Start, NewChannel
  <2> QED BY <2>1 DEF Lending!Init, Sequences, Mine
<1>2. (Shown \subseteq web.inFlight)' <=> Shown' \subseteq web'.inFlight
  OBVIOUS
<1>3. IInv' => Shown' \subseteq web'.inFlight
  BY <1>2, ShownLent, PTL
<1>4. IInv /\ [Next]_vars => [Lending!Next]_(Lending!vars)
  <2> SUFFICES ASSUME IInv, [Next]_vars PROVE [Lending!Next]_(Lending!vars)
    OBVIOUS
  <2>1. CASE UNCHANGED vars
    BY <2>1 DEF vars, Lending!vars, Sequences, Mine
  <2>2. CASE Next
    BY <1>3, <2>2, NextKeeps, MovedLends, WebLends, CrashLends
  <2> QED BY <2>1, <2>2
<1>5. Init /\ [][Next]_vars => Lending!Spec
  BY <1>1, <1>4, OverlayInvariance, PTL DEF Spec, Lending!Spec
<1> QED BY <1>5 DEF Spec, LendsSamples

-----------------------------------------------------------------------------
(* The close request.                                                       *)

(* A set with at most one member.                                            *)
LEMMA OneAtMost ==
  ASSUME NEW S, \A x, y \in S : x = y
  PROVE  Cardinality(S) = IF S = {} THEN 0 ELSE 1
<1>1. CASE S = {}
  BY <1>1, FS_EmptySet
<1>2. CASE S # {}
  <2>1. PICK x \in S : TRUE
    BY <1>2
  <2>2. S = {x}
    BY <2>1
  <2>3. Cardinality({x}) = 1
    BY FS_Singleton
  <2> QED BY <1>2, <2>2, <2>3
<1> QED BY <1>1, <1>2

(* The properties speak of the connection the invariant speaks of.           *)
LEMMA HealthyLive ==
  ASSUME IInv
  PROVE  /\ Healthy <=> Live(web, sockets, Link(overlay))
         /\ \A c : Replies(c) = Queue(sockets, Link(overlay), c)
         /\ Healthy => /\ web.socket \in Connections /\ web.born < web.socket
                       /\ Made(sockets, web.socket) /\ Last(sockets, web.socket)
<1>1. /\ Link(overlay).client = overlay.client /\ Link(overlay).acks = overlay.acks
      /\ Link(overlay).gone = overlay.gone /\ Link(overlay).dropping = overlay.dropping
  BY DEF Link
<1>2. Healthy <=> Live(web, sockets, Link(overlay))
  BY <1>1 DEF Healthy, Live
<1>3. \A c : Replies(c) = Queue(sockets, Link(overlay), c)
  BY <1>1 DEF Replies, Queue
<1>4. Healthy => /\ web.socket \in Connections /\ web.born < web.socket
                 /\ Made(sockets, web.socket) /\ Last(sockets, web.socket)
  BY InvParts DEF Healthy, Safe, SocketsOK, ChannelType
<1> QED BY <1>2, <1>3, <1>4

(* The positions of packets and of replies are the ones the invariant counts. *)
LEMMA PlacesOfRequest ==
  ASSUME IInv, Healthy
  PROVE  LET c == web.socket
             q == Link(overlay)
             confirmed == {i \in 1..Len(Replies(c)) : Replies(c)[i].type = "CloseComplete"}
             asked == {i \in 1..Len(sockets[c].toUI) : sockets[c].toUI[i].type = "Hide"}
             owed == {r \in {overlay.closing} \ {None} : r.conn = c}
         IN  /\ Cardinality(confirmed) = IF Confirmed(web, sockets, q) THEN 1 ELSE 0
             /\ Cardinality(asked) = IF Asked(web, sockets) THEN 1 ELSE 0
             /\ Cardinality(owed) = IF Owed(web, overlay.closing) THEN 1 ELSE 0
<1> DEFINE c == web.socket
           q == Link(overlay)
           confirmed == {i \in 1..Len(Replies(c)) : Replies(c)[i].type = "CloseComplete"}
           asked == {i \in 1..Len(sockets[c].toUI) : sockets[c].toUI[i].type = "Hide"}
           owed == {r \in {overlay.closing} \ {None} : r.conn = c}
<1>1. OnceOK(web, sockets, q, Held(overlay), overlay.closing) /\ Live(web, sockets, q)
      /\ Replies(c) = Queue(sockets, q, c)
  BY InvParts, HealthyLive
<1>2. \A i : i \in confirmed <=> i \in Nat /\ Queued(sockets, q, c, "CloseComplete", i)
  <2>1. Len(Replies(c)) \in Nat
    BY <1>1, InvParts, HealthyLive, QueueIs
  <2> QED BY <1>1, <2>1 DEF Queued
<1>3. \A i : i \in asked <=> i \in Nat /\ Unread(sockets, c, "Hide", i)
  <2>1. Len(sockets[c].toUI) \in Nat
    BY InvParts, HealthyLive, SocketTyped
  <2> QED BY <2>1 DEF Unread
<1>4. /\ \A i, j \in confirmed : i = j
      /\ confirmed # {} <=> Confirmed(web, sockets, q)
  BY <1>1, <1>2 DEF OnceOK, Confirmed
<1>5. /\ \A i, j \in asked : i = j
      /\ asked # {} <=> Asked(web, sockets)
  BY <1>1, <1>3 DEF OnceOK, Asked
<1>6. /\ \A x, y \in owed : x = y
      /\ owed # {} <=> Owed(web, overlay.closing)
  BY DEF Owed
<1> HIDE DEF confirmed, asked, owed
<1>7. Cardinality(confirmed) = IF Confirmed(web, sockets, q) THEN 1 ELSE 0
  BY <1>4, OneAtMost
<1>8. Cardinality(asked) = IF Asked(web, sockets) THEN 1 ELSE 0
  BY <1>5, OneAtMost
<1>9. Cardinality(owed) = IF Owed(web, overlay.closing) THEN 1 ELSE 0
  BY <1>6, OneAtMost
<1> QED BY <1>7, <1>8, <1>9 DEF confirmed, asked, owed

(* A close request that is open is in one place, so that it is confirmed and *)
(* confirmed once, after every sample was released; and what was put off has *)
(* its timer armed.                                                          *)
THEOREM CloseSafety == Spec => []CloseInOrder
<1>1. ASSUME IInv PROVE ~web.early
  BY <1>1, InvParts DEF NamesOK
<1>2. ASSUME IInv, Idle, overlay.pending # None \/ overlay.disableRequested
      PROVE  overlay.retry
  BY <1>2, InvParts DEF Idle, ReadingOK, Armed
<1>3. ASSUME IInv, Healthy, web.closing # 0
      PROVE  LET c == web.socket
             IN  1 = Cardinality({i \in 1..Len(Replies(c)) : Replies(c)[i].type = "CloseComplete"})
                  + Cardinality({i \in 1..Len(sockets[c].toUI) : sockets[c].toUI[i].type = "Hide"})
                  + Cardinality({r \in {overlay.closing} \ {None} : r.conn = c})
                  + (IF web.control # None /\ web.control.type = "Hide" THEN 1 ELSE 0)
  <2> DEFINE c == web.socket
             q == Link(overlay)
             n1 == Cardinality({i \in 1..Len(Replies(c)) : Replies(c)[i].type = "CloseComplete"})
             n2 == Cardinality({i \in 1..Len(sockets[c].toUI) : sockets[c].toUI[i].type = "Hide"})
             n3 == Cardinality({r \in {overlay.closing} \ {None} : r.conn = c})
             n4 == IF web.control # None /\ web.control.type = "Hide" THEN 1 ELSE 0
             A == InControl(web)
             B == Asked(web, sockets)
             C == Owed(web, overlay.closing)
             D == Confirmed(web, sockets, q)
  <2>1. /\ n1 = IF D THEN 1 ELSE 0
        /\ n2 = IF B THEN 1 ELSE 0
        /\ n3 = IF C THEN 1 ELSE 0
    BY <1>3, PlacesOfRequest
  <2>2. n4 = IF A THEN 1 ELSE 0
    BY DEF InControl
  <2>3. (A \/ B \/ C \/ D) /\ (A => ~B /\ ~C /\ ~D) /\ (B => ~C /\ ~D) /\ (C => ~D)
    BY <1>3, InvParts, HealthyLive DEF OnceOK
  <2> HIDE DEF n1, n2, n3, n4, A, B, C, D
  <2>4. 1 = n1 + n2 + n3 + n4
    <3>1. CASE A
      BY <2>1, <2>2, <2>3, <3>1
    <3>2. CASE B
      BY <2>1, <2>2, <2>3, <3>2
    <3>3. CASE C
      BY <2>1, <2>2, <2>3, <3>3
    <3>4. CASE D
      BY <2>1, <2>2, <2>3, <3>4
    <3> QED BY <2>3, <3>1, <3>2, <3>3, <3>4
  <2> QED BY <2>4 DEF n1, n2, n3, n4
<1>4. IInv => CloseInOrder
  BY <1>1, <1>2, <1>3 DEF CloseInOrder
<1> QED BY <1>4, OverlayInvariance, PTL

-----------------------------------------------------------------------------
(* The samples in flight.                                                   *)
PairwiseApart(p) == \A i, j \in 1..5 : i # j => p[i] \cap p[j] = {}

(* The five places, one by one.                                              *)
LEMMA FivePlaces ==
  ASSUME NEW a, NEW b, NEW c, NEW d, NEW e
  PROVE  /\ UNION Range(<<a, b, c, d, e>>) = a \cup b \cup c \cup d \cup e
         /\ (/\ a \cap b = {} /\ a \cap c = {} /\ a \cap d = {} /\ a \cap e = {}
             /\ b \cap c = {} /\ b \cap d = {} /\ b \cap e = {}
             /\ c \cap d = {} /\ c \cap e = {} /\ d \cap e = {})
              => PairwiseApart(<<a, b, c, d, e>>)
<1> DEFINE p == <<a, b, c, d, e>>
<1>1. DOMAIN p = 1..5 /\ p[1] = a /\ p[2] = b /\ p[3] = c /\ p[4] = d /\ p[5] = e
  OBVIOUS
<1> HIDE DEF p
<1>2. \A i \in 1..5 : i = 1 \/ i = 2 \/ i = 3 \/ i = 4 \/ i = 5
  OBVIOUS
<1>3. Range(p) = {a, b, c, d, e}
  <2>1. ASSUME NEW x \in Range(p) PROVE x \in {a, b, c, d, e}
    BY <1>1, <1>2, <2>1 DEF Range
  <2>2. ASSUME NEW x \in {a, b, c, d, e} PROVE x \in Range(p)
    <3>1. \E i \in 1..5 : x = p[i]
      BY <1>1
    <3> QED BY <1>1, <3>1 DEF Range
  <2> QED BY <2>1, <2>2
<1>4. UNION Range(p) = a \cup b \cup c \cup d \cup e
  BY <1>3
<1>5. ASSUME a \cap b = {}, a \cap c = {}, a \cap d = {}, a \cap e = {},
             b \cap c = {}, b \cap d = {}, b \cap e = {},
             c \cap d = {}, c \cap e = {}, d \cap e = {}
      PROVE  PairwiseApart(p)
  <2> SUFFICES ASSUME NEW i \in 1..5, NEW j \in 1..5, i # j PROVE p[i] \cap p[j] = {}
    BY DEF PairwiseApart
  <2>1. \A x \in {a, b, c, d, e} : TRUE
    OBVIOUS
  <2>2. CASE i = 1
    BY <1>1, <1>2, <1>5, <2>2
  <2>3. CASE i = 2
    BY <1>1, <1>2, <1>5, <2>3
  <2>4. CASE i = 3
    BY <1>1, <1>2, <1>5, <2>4
  <2>5. CASE i = 4
    BY <1>1, <1>2, <1>5, <2>5
  <2>6. CASE i = 5
    BY <1>1, <1>2, <1>5, <2>6
  <2> QED BY <1>2, <2>2, <2>3, <2>4, <2>5, <2>6
<1> QED BY <1>4, <1>5 DEF p

(* Who is in which place.                                                    *)
LEMMA InPlaces ==
  ASSUME IInv, Healthy, NEW n
  PROVE  LET c == web.socket
             q == Link(overlay)
             Own(x) == x # None /\ x.conn > web.born /\ x.sequence = n
         IN  /\ n \in Sent(c) <=> \E i \in Nat : /\ Unread(sockets, c, "Frame", i)
                                                 /\ sockets[c].toUI[i].sequence = n
             /\ n \in Returning(c) <=> \E i \in Nat : /\ Queued(sockets, q, c, "Release", i)
                                                      /\ Queue(sockets, q, c)[i].sequence = n
             /\ n \in Sequences(OnPlane) <=> Own(overlay.current)
             /\ n \in Sequences(Mine({overlay.pending})) <=> Own(overlay.pending)
             /\ n \in Sequences(Mine({overlay.batch})) <=> Own(overlay.batch)
<1> DEFINE c == web.socket
           q == Link(overlay)
           t == sockets[c].toUI
           Q == Queue(sockets, q, c)
<1>1. c \in Connections /\ Replies(c) = Q /\ q \in LinkType /\ sockets \in SocketsType
  BY InvParts, HealthyLive
<1>2. t \in Seq(Packet) /\ Q \in Seq(Reply)
  BY Zenon, <1>1, SocketTyped, QueueIs
<1>3. overlay.plane # None => overlay.plane = overlay.current
  BY InvParts DEF Calm
<1>4. n \in Sent(c) <=> \E i \in Nat : Unread(sockets, c, "Frame", i) /\ t[i].sequence = n
  <2>1. DOMAIN t = 1..Len(t) /\ Len(t) \in Nat
    BY <1>2
  <2>2. n \in Sent(c) <=> \E i \in DOMAIN t : t[i].type = "Frame" /\ t[i].sequence = n
    BY DEF Sent, Range
  <2> QED BY <2>1, <2>2 DEF Unread
<1>5. n \in Returning(c) <=>
        \E i \in Nat : Queued(sockets, q, c, "Release", i) /\ Q[i].sequence = n
  <2>1. DOMAIN Q = 1..Len(Q) /\ Len(Q) \in Nat
    BY <1>2
  <2>2. n \in Returning(c) <=> \E i \in DOMAIN Q : Q[i].type = "Release" /\ Q[i].sequence = n
    BY <1>1 DEF Returning, Range
  <2> QED BY <2>1, <2>2 DEF Queued
<1>6. n \in Sequences(OnPlane) <=>
        overlay.current # None /\ overlay.current.conn > web.born /\ overlay.current.sequence = n
  BY <1>3 DEF Sequences, OnPlane, Mine
<1>7. /\ n \in Sequences(Mine({overlay.pending})) <=>
           overlay.pending # None /\ overlay.pending.conn > web.born /\ overlay.pending.sequence = n
      /\ n \in Sequences(Mine({overlay.batch})) <=>
           overlay.batch # None /\ overlay.batch.conn > web.born /\ overlay.batch.sequence = n
  BY DEF Sequences, Mine
<1> QED BY <1>4, <1>5, <1>6, <1>7

(* No sample is in two places.                                               *)
LEMMA OnePlace ==
  ASSUME IInv, Healthy, NEW n
  PROVE  LET c == web.socket
             a == Sent(c)
             b == Sequences(OnPlane)
             d == Sequences(Mine({overlay.pending}))
             e == Sequences(Mine({overlay.batch}))
             f == Returning(c)
         IN  /\ n \in a => n \notin b /\ n \notin d /\ n \notin e /\ n \notin f
             /\ n \in b => n \notin d /\ n \notin e /\ n \notin f
             /\ n \in d => n \notin e /\ n \notin f
             /\ n \in e => n \notin f
<1> DEFINE c == web.socket
           q == Link(overlay)
           t == sockets[c].toUI
           Q == Queue(sockets, q, c)
           a == Sent(c)
           b == Sequences(OnPlane)
           d == Sequences(Mine({overlay.pending}))
           e == Sequences(Mine({overlay.batch}))
           f == Returning(c)
<1>1. c \in Connections /\ q \in LinkType /\ sockets \in SocketsType /\ c > web.born
      /\ Safe(web, sockets, q, Held(overlay)) /\ Held(overlay) \in SUBSET Frame
      /\ web.born \in Nat /\ c \in Nat
  <2>1. web.born \in Nat
    BY InvParts, Numbers DEF ChannelType
  <2>2. c \in Nat
    BY Zenon, HealthyLive, Numbers
  <2> QED BY <2>1, <2>2, InvParts, HealthyLive
<1>2. \A i \in Nat : Queued(sockets, q, c, "Release", i) =>
        /\ Q[i].type = "Release" /\ Q[i].conn = c /\ ReplyOK(web, sockets, Held(overlay), Q[i])
  <2> SUFFICES ASSUME NEW i \in Nat, Queued(sockets, q, c, "Release", i)
               PROVE  /\ Q[i].type = "Release" /\ Q[i].conn = c
                      /\ ReplyOK(web, sockets, Held(overlay), Q[i])
    OBVIOUS
  <2>1. i \in 1..Len(Q) /\ Q[i].type = "Release"
    BY DEF Queued
  <2>2. \/ i \in 1..Len(sockets[c].toWeb) /\ Q[i] = sockets[c].toWeb[i]
        \/ /\ q.client = c /\ i - Len(sockets[c].toWeb) \in 1..Len(q.acks)
           /\ Q[i] = q.acks[i - Len(sockets[c].toWeb)]
    <3> HIDE DEF c, q
    <3> QED BY <1>1, <2>1, QueuedIs
  <2>3. c # 0
    BY <1>1, Numbers
  <2>4. Q[i].conn = c /\ ReplyOK(web, sockets, Held(overlay), Q[i])
    <3> HIDE DEF Q, c, q
    <3> QED BY Zenon, <1>1, <2>2, <2>3 DEF Safe, RepliesOK
  <2> QED BY <2>1, <2>4
<1>3. ASSUME NEW x \in {overlay.current, overlay.pending, overlay.batch}, x # None,
             x.conn > web.born, x.sequence = n
      PROVE  n \notin a /\ n \notin f
  <2>1. x \in Held(overlay) /\ FrameOK(web, sockets, x) /\ x \in Frame
    BY <1>1, <1>3 DEF Held, Safe, FramesOK
  <2>2. n \notin a
    <3>1. ASSUME NEW i \in Nat, Unread(sockets, c, "Frame", i), t[i].sequence = n PROVE FALSE
      <4>1. n < t[i].sequence
        BY <1>1, <1>3, <2>1, <3>1 DEF FrameOK
      <4>2. n \in Nat
        BY <1>3, <2>1, Numbers DEF Frame
      <4> HIDE DEF t
      <4> QED BY <3>1, <4>1, <4>2
    <3> QED BY <3>1, InPlaces
  <2>3. n \notin f
    <3>1. ASSUME NEW i \in Nat, Queued(sockets, q, c, "Release", i), Q[i].sequence = n PROVE FALSE
      <4> HIDE DEF Q, c, q
      <4> QED BY <1>1, <1>2, <1>3, <2>1, <3>1 DEF ReplyOK
    <3> QED BY <3>1, InPlaces
  <2> QED BY <2>2, <2>3
<1>4. n \in a => n \notin f
  <2>1. ASSUME NEW i \in Nat, NEW j \in Nat, Unread(sockets, c, "Frame", i),
               t[i].sequence = n, Queued(sockets, q, c, "Release", j), Q[j].sequence = n
        PROVE  FALSE
    <3>1. ReplyOK(web, sockets, Held(overlay), Q[j]) /\ Q[j].type = "Release" /\ Q[j].conn = c
      BY <1>2, <2>1
    <3> HIDE DEF Q
    <3> QED BY <1>1, <2>1, <3>1 DEF ReplyOK
  <2> QED BY <2>1, InPlaces
<1>5. n \in b => n \notin d /\ n \notin e
  <2>1. ASSUME NEW x \in Frame, NEW y, x.sequence = n, y.sequence = n,
               x # None, y # None, x.conn > web.born, y.conn > web.born, Below(web, x, y)
        PROVE  FALSE
    <3>1. n < n
      BY <2>1 DEF Below
    <3>2. n \in Nat
      BY <2>1, Numbers DEF Frame
    <3> QED BY <3>1, <3>2
  <2>2. overlay.current # None => overlay.current \in Frame
    BY HeldLent
  <2>3. Below(web, overlay.current, overlay.pending) /\ Below(web, overlay.current, overlay.batch)
    BY InvParts DEF InOrder
  <2>4. ASSUME NEW y \in {overlay.pending, overlay.batch}, overlay.current # None, y # None,
               overlay.current.conn > web.born, y.conn > web.born,
               overlay.current.sequence = n, y.sequence = n
        PROVE  FALSE
    BY <2>1, <2>2, <2>3, <2>4
  <2> HIDE DEF b, d, e
  <2>5. /\ n \in b <=> overlay.current # None /\ overlay.current.conn > web.born
                       /\ overlay.current.sequence = n
        /\ n \in d <=> overlay.pending # None /\ overlay.pending.conn > web.born
                       /\ overlay.pending.sequence = n
        /\ n \in e <=> overlay.batch # None /\ overlay.batch.conn > web.born
                       /\ overlay.batch.sequence = n
    BY Zenon, InPlaces DEF b, d, e
  <2> QED BY <2>4, <2>5
<1>6. n \in d => n \notin e
  <2>1. ASSUME overlay.pending # None, overlay.batch # None, overlay.pending.conn > web.born,
               overlay.batch.conn > web.born, overlay.pending.sequence = n,
               overlay.batch.sequence = n
        PROVE  FALSE
    <3>1. n < n
      BY <2>1, InvParts DEF InOrder, Below
    <3>2. n \in Nat
      BY <2>1, HeldLent, Numbers DEF Frame
    <3> QED BY <3>1, <3>2
  <2> QED BY Zenon, <2>1, InPlaces
<1>7. /\ n \in b => n \notin a /\ n \notin f
      /\ n \in d => n \notin a /\ n \notin f
      /\ n \in e => n \notin a /\ n \notin f
  BY Zenon, <1>3, InPlaces
<1> HIDE DEF a, b, d, e, f
<1>8. /\ n \in a => n \notin b /\ n \notin d /\ n \notin e /\ n \notin f
      /\ n \in b => n \notin d /\ n \notin e /\ n \notin f
      /\ n \in d => n \notin e /\ n \notin f
      /\ n \in e => n \notin f
  BY <1>4, <1>5, <1>6, <1>7
<1> QED BY <1>8 DEF a, b, d, e, f

(* No sample is nowhere.                                                     *)
LEMMA SomePlace ==
  ASSUME IInv, Healthy, NEW n
  PROVE  LET c == web.socket
         IN  n \in web.inFlight <=>
               \/ n \in Sent(c) \/ n \in Sequences(OnPlane)
               \/ n \in Sequences(Mine({overlay.pending}))
               \/ n \in Sequences(Mine({overlay.batch})) \/ n \in Returning(c)
<1> DEFINE c == web.socket
           q == Link(overlay)
           Q == Queue(sockets, q, c)
<1>1. c \in Connections /\ c > web.born /\ Live(web, sockets, q)
  <2>1. web.born \in Nat
    BY InvParts, Numbers DEF ChannelType
  <2>2. c \in Nat
    BY Zenon, HealthyLive, Numbers
  <2> QED BY <2>1, <2>2, InvParts, HealthyLive
<1>2. ASSUME n \in web.inFlight
      PROVE  \/ \E i \in Nat : Unread(sockets, c, "Frame", i) /\ sockets[c].toUI[i].sequence = n
             \/ \E x \in Held(overlay) : x.conn > web.born /\ x.sequence = n
             \/ \E i \in Nat : Queued(sockets, q, c, "Release", i) /\ Q[i].sequence = n
  BY <1>1, <1>2, InvParts DEF AccountOK
<1>3. (\E x \in Held(overlay) : x.conn > web.born /\ x.sequence = n) <=>
        \/ n \in Sequences(OnPlane) \/ n \in Sequences(Mine({overlay.pending}))
        \/ n \in Sequences(Mine({overlay.batch}))
  BY Zenon, InPlaces DEF Held
<1>4. ASSUME NEW x \in Held(overlay), x.conn > web.born, x.sequence = n
      PROVE  n \in web.inFlight
  BY <1>4, InvParts DEF Safe, FramesOK, FrameOK
<1>5. ASSUME NEW i \in Nat, Unread(sockets, c, "Frame", i), sockets[c].toUI[i].sequence = n
      PROVE  n \in web.inFlight
  BY <1>1, <1>5, InvParts DEF Safe, UnreadOK, Unread
<1>6. ASSUME NEW i \in Nat, Queued(sockets, q, c, "Release", i), Q[i].sequence = n
      PROVE  n \in web.inFlight
  BY <1>1, <1>6, InvParts DEF AccountOK
<1> HIDE DEF c, Q, q
<1> QED BY <1>2, <1>3, <1>4, <1>5, <1>6, InPlaces DEF c, Q, q

(* While the connection lasts each sample in flight is in one place, none is *)
(* released twice, and the backlog of releases stays below its limit.        *)
THEOREM AccountSafety == Spec => []SamplesAccounted
<1>1. ASSUME IInv, Healthy
      PROVE  LET c == web.socket
                 places == <<Sent(c), Sequences(OnPlane), Sequences(Mine({overlay.pending})),
                             Sequences(Mine({overlay.batch})), Returning(c)>>
             IN  /\ web.inFlight = UNION Range(places)
                 /\ \A i, j \in 1..5 : i # j => places[i] \cap places[j] = {}
                 /\ \A i, j \in 1..Len(Replies(c)) : i # j => Replies(c)[i] # Replies(c)[j]
                 /\ Len(Replies(c)) <= MaxInFlight + 1
  <2> DEFINE c == web.socket
             q == Link(overlay)
             a == Sent(c)
             b == Sequences(OnPlane)
             d == Sequences(Mine({overlay.pending}))
             e == Sequences(Mine({overlay.batch}))
             f == Returning(c)
             places == <<a, b, d, e, f>>
  <2>1. \A n : n \in web.inFlight <=> n \in a \/ n \in b \/ n \in d \/ n \in e \/ n \in f
    BY <1>1, SomePlace
  <2>2. \A n : /\ n \in a => n \notin b /\ n \notin d /\ n \notin e /\ n \notin f
               /\ n \in b => n \notin d /\ n \notin e /\ n \notin f
               /\ n \in d => n \notin e /\ n \notin f
               /\ n \in e => n \notin f
    BY <1>1, OnePlace
  <2>3. Replies(c) = Queue(sockets, q, c) /\ Len(Replies(c)) <= MaxInFlight + 1
    BY Zenon, <1>1, HealthyLive, InvParts, QueueFits
  <2>4. ASSUME NEW i \in 1..Len(Replies(c)), NEW j \in 1..Len(Replies(c)),
               Replies(c)[i] = Replies(c)[j]
        PROVE  i = j
    <3>1. /\ Live(web, sockets, q) /\ c \in Connections /\ q \in LinkType
          /\ Replies(c) = Queue(sockets, q, c)
      BY <1>1, InvParts, HealthyLive
    <3>2. Replies(c) \in Seq(Reply) /\ Len(Replies(c)) \in Nat
      BY Zenon, <3>1, InvParts, <1>1, QueueIs
    <3>3. Replies(c)[i].type \in {"Release", "CloseComplete"} /\ i \in Nat /\ j \in Nat
      <4>1. Replies(c)[i] \in Reply
        BY <3>2
      <4> QED BY <3>2, <4>1 DEF Reply
    <3>4. CASE Replies(c)[i].type = "Release"
      <4>1. Queued(sockets, q, c, "Release", i) /\ Queued(sockets, q, c, "Release", j)
        BY <2>4, <3>1, <3>4 DEF Queued
      <4> QED BY <1>1, <2>4, <3>1, <3>3, <4>1, InvParts DEF AccountOK
    <3>5. CASE Replies(c)[i].type = "CloseComplete"
      <4>1. Queued(sockets, q, c, "CloseComplete", i) /\ Queued(sockets, q, c, "CloseComplete", j)
        BY <2>4, <3>1, <3>5 DEF Queued
      <4> QED BY <1>1, <3>1, <3>3, <4>1, InvParts DEF OnceOK
    <3> QED BY <3>3, <3>4, <3>5
  <2> HIDE DEF a, b, d, e, f
  <2>5. web.inFlight = a \cup b \cup d \cup e \cup f
    BY <2>1
  <2>6. /\ a \cap b = {} /\ a \cap d = {} /\ a \cap e = {} /\ a \cap f = {}
        /\ b \cap d = {} /\ b \cap e = {} /\ b \cap f = {}
        /\ d \cap e = {} /\ d \cap f = {} /\ e \cap f = {}
    BY <2>2
  <2>7. web.inFlight = UNION Range(places) /\ PairwiseApart(places)
    BY <2>5, <2>6, FivePlaces
  <2> HIDE DEF places
  <2> QED BY Zenon, <2>3, <2>4, <2>7 DEF PairwiseApart, places, a, b, d, e, f
<1>2. IInv => SamplesAccounted
  BY Zenon, <1>1 DEF SamplesAccounted
<1> QED BY <1>2, OverlayInvariance, PTL
=============================================================================
