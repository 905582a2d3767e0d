---------------------------- MODULE VideoOverlay ----------------------------
(***************************************************************************)
(* Video frames on their way from the decoder in the WebProcess to an      *)
(* overlay plane, and their releases on the way back.                      *)
(*                                                                         *)
(*   web      the channel of the WebProcess                                *)
(*            (GStreamerHolePunchQuirkRockchip.cpp); every call holds its  *)
(*            lock, so a call is a step                                    *)
(*   sockets  the sequenced-packet connections between the two processes   *)
(*   overlay  the UI process (VideoOverlay.cpp); its handlers run on one   *)
(*            main loop, but the one that reads the socket takes a step    *)
(*            for each packet, because the WebProcess runs meanwhile       *)
(*                                                                         *)
(* The functions of the UI process call each other; each is an operator    *)
(* from u = [o |-> overlay, s |-> sockets] to the set of results it may    *)
(* have, as the display engine and the kernel decide.                      *)
(***************************************************************************)
EXTENDS Naturals, Sequences, FiniteSets, Functions

CONSTANTS
  Sinks,           \* video sinks, each the context of one media player
  Rects,           \* rectangles, told apart by what a commit does with them
  None,            \* a null pointer
  MaxInFlight,     \* maximumInFlightSamples
  ReleaseLimit,    \* the limit of a VideoReleaseQueue
  RoomForFrames,   \* packets the socket holds towards the UI process
  RoomForReleases, \* and towards the WebProcess
  MaxSequence,     \* bound: sequence numbers of one WebProcess
  MaxConnections,  \* bound: connections in a behaviour
  Crashes          \* the WebProcess may crash

ASSUME OverlayAssumption ==
  /\ Rects # {} /\ Rects \subseteq {"shown", "other", "clipped", "empty"}
  /\ None \notin Sinks
  /\ {MaxInFlight, ReleaseLimit, RoomForFrames, RoomForReleases} \subseteq Nat \ {0}
  /\ MaxInFlight < ReleaseLimit
  /\ MaxSequence \in Nat /\ MaxConnections \in Nat
  /\ Crashes \in BOOLEAN

VARIABLES web, sockets, overlay
vars == <<web, sockets, overlay>>

(***************************************************************************)
(* Connections are numbered in the order they are made; the number 0 is    *)
(* the descriptor -1.  A frame keeps the number of its connection, which   *)
(* the code does not store, so that properties can tell frames of two      *)
(* WebProcesses with the same sequence number apart; so does a release.    *)
(***************************************************************************)
Connections == 1..MaxConnections
Frame == [conn : Connections, sequence : 1..MaxSequence, rect : Rects]
Packet == [type : {"Frame", "Rect", "Hide"}, sequence : 0..MaxSequence, rect : Rects]
Reply == [type : {"Release", "CloseComplete"}, sequence : 1..MaxSequence, conn : Connections]

(* A null pointer is no frame, no packet and no reply.                      *)
ASSUME NullAssumption == None \notin Frame /\ None \notin Packet /\ None \notin Reply

(***************************************************************************)
(*   closing   the sequence of the close request that is not confirmed     *)
(*   control   m_pendingControl, a control packet the socket had no room    *)
(*             for                                                          *)
(*   backoff   the last attempt to connect was less than 5 seconds ago      *)
(*   early     a close was confirmed before all samples were released       *)
(*   born      the connections that were made before this WebProcess        *)
(***************************************************************************)
ChannelType ==
  [socket : {0} \cup Connections, closing : 0..MaxSequence, owner : Sinks \cup {None},
   rect : Rects, inFlight : SUBSET (1..MaxSequence), next : 1..(MaxSequence + 1),
   control : Packet \cup {None}, backoff : BOOLEAN,
   early : BOOLEAN, born : 0..MaxConnections]

(* The two ends of a connection, the packets each has not read yet, and     *)
(* whether the first end to close left packets unread: the other end then   *)
(* reads ECONNRESET once.                                                   *)
SocketType ==
  [web : BOOLEAN, ui : {"unused", "backlog", "open", "closed"},
   toUI : Seq(Packet), toWeb : Seq(Reply), reset : BOOLEAN]

(***************************************************************************)
(*   client    clientFD; dropping and closeAfterDisable: it is being let go *)
(*   writer    releaseSource: 0, the connection whose descriptor it polls,  *)
(*             or Spent when GLib removed it but the pointer is still set   *)
(*   acks      pendingReleaseAcks                                           *)
(*   current   the frame whose framebuffer is retained, with (lastRect) the *)
(*             rectangle it is shown at; plane is what the hardware scans   *)
(*             out                                                          *)
(*   pending, geometryPending, disableRequested, closing: work put off       *)
(*             while a commit of the view is in flight (busy)               *)
(*   expired   2 seconds have passed since the disable was asked for        *)
(*   reading   the descriptor the client callback reads, and (batch) the    *)
(*             frame it holds back                                          *)
(***************************************************************************)
Spent == MaxConnections + 1

OverlayType ==
  [client : {0} \cup Connections, dropping : BOOLEAN, closeAfterDisable : BOOLEAN,
   writer : 0..Spent, acks : Seq(Reply), current : Frame \cup {None}, lastRect : Rects,
   planeEnabled : BOOLEAN, plane : Frame \cup {None}, pending : Frame \cup {None},
   geometryPending : BOOLEAN, disableRequested : BOOLEAN, expired : BOOLEAN,
   closing : Reply \cup {None}, retry : BOOLEAN, busy : BOOLEAN,
   reading : {0} \cup Connections, batch : Frame \cup {None},
   gone : {"no", "stopped", "aborted"}]

TypeOK ==
  /\ web \in ChannelType
  /\ sockets \in [Connections -> SocketType]
  /\ overlay \in OverlayType

FirstRect == CHOOSE r \in Rects : TRUE

NewChannel(born) ==
  [socket |-> 0, closing |-> 0, owner |-> None, rect |-> FirstRect, inFlight |-> {},
   next |-> 1, control |-> None, backoff |-> FALSE, early |-> FALSE,
   born |-> born]

(* The connections in "past" have come and gone. *)
Start(past) ==
  /\ web = NewChannel(0)
  /\ sockets = [c \in Connections |->
                  [web |-> FALSE, ui |-> IF c \in past THEN "closed" ELSE "unused",
                   toUI |-> <<>>, toWeb |-> <<>>, reset |-> FALSE]]
  /\ overlay =
       [client |-> 0, dropping |-> FALSE, closeAfterDisable |-> FALSE, writer |-> 0,
        acks |-> <<>>, current |-> None, lastRect |-> FirstRect, planeEnabled |-> FALSE,
        plane |-> None, pending |-> None, geometryPending |-> FALSE,
        disableRequested |-> FALSE, expired |-> FALSE, closing |-> None, retry |-> FALSE,
        busy |-> FALSE, reading |-> 0, batch |-> None, gone |-> "no"]

Init == Start({})
-----------------------------------------------------------------------------
(* The UI process: sending releases and letting a client go. *)

CloseUI(s, c) ==
  [s EXCEPT ![c] = [s[c] EXCEPT !.ui = "closed", !.toUI = <<>>,
                                !.reset = s[c].web /\ s[c].toUI # <<>>]]

(* Take the plane down; KMS may refuse.  Scanning out nothing needs no commit. *)
PlaneDown(o) ==
  IF ~o.planeEnabled THEN {[o |-> o, ok |-> TRUE]}
  ELSE {[o |-> o, ok |-> FALSE]} \cup
       IF o.busy THEN {} ELSE {[o |-> [o EXCEPT !.planeEnabled = FALSE, !.plane = None],
                                ok |-> TRUE]}

(* The retained frame is forgotten, after its plane was taken down. *)
Forget(o) == [o EXCEPT !.current = None]

FinishDrop_KeepsAcks(u) ==
  [o |-> [u.o EXCEPT !.client = 0, !.dropping = FALSE, !.closeAfterDisable = FALSE],
   s |-> IF u.o.client = 0 THEN u.s ELSE CloseUI(u.s, u.o.client)]

(* videoOverlayFinishDrop. *)
FinishDrop(u) ==
  [o |-> [u.o EXCEPT !.client = 0, !.acks = <<>>, !.dropping = FALSE,
                     !.closeAfterDisable = FALSE],
   s |-> IF u.o.client = 0 THEN u.s ELSE CloseUI(u.s, u.o.client)]

(* A disable that could not be done is tried again, for 2 seconds. *)
PutOff(o) == IF o.expired THEN [o EXCEPT !.gone = "aborted"] ELSE [o EXCEPT !.retry = TRUE]

Disabled(o) ==
  [Forget(o) EXCEPT !.disableRequested = FALSE, !.expired = FALSE, !.geometryPending = FALSE,
                    !.closing = None]

(* videoOverlayDropClient, and the videoOverlayDrainPending it calls, which *)
(* sends nothing: a client that is being dropped gets no releases, because  *)
(* a disconnect proves nothing about the scanout.                           *)
DropClient(u) ==
  IF u.o.dropping THEN {u}
  ELSE LET o == [u.o EXCEPT !.dropping = TRUE, !.closeAfterDisable = TRUE, !.writer = 0,
                            !.disableRequested = TRUE, !.pending = None]
       IN  {IF d.ok THEN FinishDrop([u EXCEPT !.o = Disabled(d.o)])
                    ELSE [u EXCEPT !.o = PutOff(d.o)] : d \in PlaneDown(o)}

(* videoOverlayFlushReleases: send until the socket is full or broken. *)
Flush(u) ==
  LET o == u.o
      c == o.client
      room == RoomForReleases - Len(u.s[c].toWeb)
      n == IF Len(o.acks) < room THEN Len(o.acks) ELSE room
  IN  IF c = 0 THEN {[u |-> u, done |-> FALSE]}
      ELSE IF o.acks = <<>> THEN {[u |-> u, done |-> TRUE]}
      ELSE IF ~u.s[c].web THEN {[u |-> d, done |-> FALSE] : d \in DropClient(u)}
      ELSE {[u |-> [o |-> [o EXCEPT !.acks = SubSeq(@, n + 1, Len(@))],
                    s |-> [u.s EXCEPT ![c].toWeb = @ \o SubSeq(o.acks, 1, n)]],
             done |-> n = Len(o.acks)]}

(* VideoReleaseQueue::add. *)
AddRelease(acks, reply) ==
  IF \E i \in 1..Len(acks) : [acks[i] EXCEPT !.conn = reply.conn] = reply
    THEN acks ELSE Append(acks, reply)

SendReply_NoWriter(u, reply) ==
  LET acks == AddRelease(u.o.acks, reply)
  IN  IF u.o.dropping \/ u.o.client = 0 \/ u.o.gone # "no" THEN {u}
      ELSE IF Len(acks) > ReleaseLimit THEN DropClient(u)
      ELSE {f.u : f \in Flush([u EXCEPT !.o.acks = acks])}

(* videoOverlaySendRelease. *)
SendReply(u, reply) ==
  LET o == u.o
      acks == AddRelease(o.acks, reply)
      Armed(f) == IF f.done \/ f.u.o.writer # 0 \/ f.u.o.client = 0 THEN f.u
                  ELSE [f.u EXCEPT !.o.writer = f.u.o.client]
  IN  IF o.dropping \/ o.client = 0 \/ o.gone # "no" THEN {u}
      ELSE IF Len(acks) > ReleaseLimit THEN DropClient(u)
      ELSE {Armed(f) : f \in Flush([u EXCEPT !.o.acks = acks])}

Release(f) == [type |-> "Release", sequence |-> f.sequence, conn |-> f.conn]

(* Release a frame, if there is one. *)
SendRelease(u, f) == IF f = None THEN {u} ELSE SendReply(u, Release(f))
-----------------------------------------------------------------------------
(* The UI process: commits. *)

(* videoOverlayCommit of frame f at rectangle r.  A rectangle that is       *)
(* clipped away hides the plane and keeps the frame; an empty one fails.    *)
(* again: errno is EBUSY.                                                   *)
Commit(o, f, r) ==
  LET Shows  == [o EXCEPT !.planeEnabled = TRUE, !.plane = f]
      Hides  == [o EXCEPT !.planeEnabled = FALSE, !.plane = None]
      Fails(again) == {[o |-> o, ok |-> FALSE, again |-> e] : e \in again}
  IN  CASE o.busy -> Fails({TRUE})
        [] ~o.busy /\ r = "empty" -> Fails({FALSE})
        [] ~o.busy /\ r = "clipped" ->
             {[o |-> Hides, ok |-> TRUE, again |-> FALSE]}
               \cup IF o.planeEnabled THEN Fails(BOOLEAN) ELSE {}
        [] ~o.busy /\ r \in {"shown", "other"} ->
             {[o |-> Shows, ok |-> TRUE, again |-> FALSE]} \cup Fails(BOOLEAN)

Disable_Anyway(u) ==
  UNION {{[u |-> v, ok |-> TRUE] : v \in SendRelease([u EXCEPT !.o = Forget(d.o)], u.o.current)} :
           d \in PlaneDown(u.o)}

(* videoOverlayDisable. *)
Disable(u) ==
  UNION {IF d.ok
           THEN {[u |-> v, ok |-> TRUE] :
                   v \in SendRelease([u EXCEPT !.o = Forget(d.o)], u.o.current)}
           ELSE {[u |-> u, ok |-> FALSE]} : d \in PlaneDown(u.o)}

(* videoOverlayHandleFrame of the pending frame: import it, commit it, then *)
(* release the frame it replaces.  Importing may fail.                      *)
HandleFrame(u) ==
  LET f == u.o.pending
      import == IF u.o.busy THEN {} ELSE {[u |-> u, ok |-> FALSE, again |-> FALSE]}
  IN  import \cup
      UNION {IF k.ok
               THEN {[u |-> v, ok |-> TRUE, again |-> FALSE] :
                       v \in SendRelease([u EXCEPT !.o = [k.o EXCEPT !.current = f,
                                                                     !.lastRect = f.rect]],
                                         u.o.current)}
               ELSE {[u |-> u, ok |-> FALSE, again |-> k.again]} :
             k \in Commit(u.o, f, f.rect)}

DrainDisable_ConfirmsFirst(u) ==
  UNION {UNION {IF d.ok
                  THEN {[u |-> [d.u EXCEPT !.o = [d.u.o EXCEPT
                                  !.disableRequested = FALSE, !.expired = FALSE,
                                  !.pending = None, !.closing = None]], ok |-> TRUE]}
                  ELSE {[u |-> [d.u EXCEPT !.o = [PutOff(d.u.o) EXCEPT !.closing = None]],
                         ok |-> FALSE]} :
                d \in Disable(v)} :
         v \in IF u.o.closing = None THEN {u} ELSE SendReply(u, u.o.closing)}

(* The part of videoOverlayDrainPending that takes the plane down. *)
DrainDisable(u) ==
  LET released == {[v EXCEPT !.o.pending = None] : v \in SendRelease(u, u.o.pending)}
      Finish(v) == IF v.o.closeAfterDisable THEN FinishDrop(v) ELSE v
      Confirm(v) ==
        {Finish([w EXCEPT !.o.closing = None]) :
           w \in IF v.o.closing = None THEN {v} ELSE SendReply(v, v.o.closing)}
      Down(v) == [v EXCEPT !.o = [v.o EXCEPT !.disableRequested = FALSE, !.expired = FALSE,
                                             !.geometryPending = FALSE]]
  IN  UNION {UNION {IF d.ok
                      THEN {[u |-> w, ok |-> TRUE] : w \in Confirm(Down(d.u))}
                      ELSE {[u |-> [d.u EXCEPT !.o = PutOff(@)], ok |-> FALSE]} :
                    d \in Disable(v)} : v \in released}

(* The part that shows the pending frame, or the current one again. *)
DrainCommit(u) ==
  LET later == [u EXCEPT !.o.retry = TRUE]
  IN  CASE u.o.busy ->
             {IF u.o.pending # None \/ u.o.geometryPending THEN later ELSE u}
        [] ~u.o.busy /\ u.o.pending # None ->
             UNION {IF h.ok THEN {[h.u EXCEPT !.o = [h.u.o EXCEPT !.geometryPending = FALSE,
                                                                  !.pending = None]]}
                    ELSE IF h.again THEN {later}
                    ELSE {[v EXCEPT !.o.pending = None] : v \in SendRelease(u, u.o.pending)} :
                    h \in HandleFrame(u)}
        [] ~u.o.busy /\ u.o.pending = None /\ u.o.geometryPending /\ u.o.current # None ->
             {IF k.ok THEN [u EXCEPT !.o = [k.o EXCEPT !.geometryPending = FALSE]] ELSE later :
                k \in Commit(u.o, u.o.current, u.o.lastRect)}
        [] OTHER -> {u}

(* videoOverlayDrainPending. *)
DrainPending(u) ==
  IF u.o.disableRequested
    THEN UNION {IF d.ok THEN DrainCommit(d.u) ELSE {d.u} : d \in DrainDisable(u)}
    ELSE DrainCommit(u)

(* videoOverlayRecommit. *)
Recommit(u) ==
  IF u.o.current = None THEN {u} ELSE DrainPending([u EXCEPT !.o.geometryPending = TRUE])

DeferFrame_Overwrites(u, f) == {[u EXCEPT !.o = [u.o EXCEPT !.pending = f, !.retry = TRUE]]}

(* videoOverlayDeferFrame; the descriptors of the frame may not be copied. *)
DeferFrame(u, f) ==
  UNION {{[v EXCEPT !.o = [v.o EXCEPT !.pending = f, !.retry = TRUE]]}
           \cup SendRelease([v EXCEPT !.o.pending = None], f) : v \in SendRelease(u, u.o.pending)}

(* flushPendingFrame of the client callback. *)
FlushBatch(u) ==
  IF u.o.batch = None THEN {u}
  ELSE {[v EXCEPT !.o.batch = None] :
          v \in UNION {DrainPending(d) : d \in DeferFrame(u, u.o.batch)}}
-----------------------------------------------------------------------------
(* The UI process: its handlers. *)

UI == [o |-> overlay, s |-> sockets]
Becomes(u) == overlay' = u.o /\ sockets' = u.s /\ UNCHANGED web

(* The main loop is free to dispatch. *)
Idle == overlay.gone = "no" /\ overlay.reading = 0

(* The socket has a client source: it is destroyed when a drop begins. *)
Served == overlay.client # 0 /\ ~overlay.dropping

(* videoOverlayAccept.  The descriptor of a client that was let go may be   *)
(* used again, and with it a release source nobody destroyed.               *)
Accept(c) ==
  /\ Idle /\ sockets[c].ui = "backlog"
  /\ \A d \in Connections : sockets[d].ui = "backlog" => c <= d
  /\ \E u \in IF overlay.client # 0 THEN DropClient(UI) ELSE {UI} :
       IF u.o.client # 0 \/ u.o.disableRequested
         THEN Becomes([u EXCEPT !.s = CloseUI(u.s, c)])
         ELSE \E writer \in IF u.o.writer \in Connections THEN {u.o.writer, c} ELSE {u.o.writer} :
                Becomes([o |-> [u.o EXCEPT !.client = c, !.writer = writer],
                         s |-> [u.s EXCEPT ![c].ui = "open"]])

(* videoOverlayClientEvent is called: the peer hung up, or packets wait. *)
ClientReady ==
  Served /\ (~sockets[overlay.client].web \/ sockets[overlay.client].toUI # <<>>)
ClientEvent ==
  /\ Idle /\ ClientReady
  /\ IF sockets[overlay.client].web THEN Becomes([UI EXCEPT !.o.reading = overlay.client])
     ELSE \E u \in DropClient(UI) : Becomes(u)

(* recvmsg fails: the peer closed, or the descriptor is not open any more. *)
ReadEnds ==
  LET c == overlay.reading
  IN  /\ overlay.gone = "no" /\ c # 0
      /\ \/ sockets[c].ui = "closed" \/ sockets[c].reset
         \/ sockets[c].toUI = <<>> /\ ~sockets[c].web
      /\ \E v \in FlushBatch(UI) : \E w \in DropClient(v) :
           Becomes([w EXCEPT !.o.reading = 0])

(* recvmsg fails with EAGAIN. *)
ReadDrained ==
  LET c == overlay.reading
  IN  /\ overlay.gone = "no" /\ c # 0
      /\ sockets[c].ui = "open" /\ sockets[c].web /\ sockets[c].toUI = <<>>
      /\ \E v \in FlushBatch(UI) : Becomes([v EXCEPT !.o.reading = 0])

FrameOf(packet, c) == [conn |-> c, sequence |-> packet.sequence, rect |-> packet.rect]

(* What the callback does with a packet.  Frames are held back until a      *)
(* packet of another type, or the end of the batch: only the last counts.   *)
TakePacket(u, packet, c) ==
  CASE packet.type = "Frame" ->
         {[v EXCEPT !.o.batch = FrameOf(packet, c)] : v \in SendRelease(u, u.o.batch)}
    [] packet.type = "Rect" ->
         UNION {IF v.o.current = None THEN {v}
                ELSE Recommit([v EXCEPT !.o.lastRect = packet.rect]) : v \in FlushBatch(u)}
    [] packet.type = "Hide" ->
         UNION {DrainPending([v EXCEPT
                  !.o = [v.o EXCEPT !.disableRequested = TRUE,
                                    !.closing = [type |-> "CloseComplete", conn |-> c,
                                                 sequence |-> packet.sequence]]]) :
                v \in FlushBatch(u)}

(* recvmsg returns a packet. *)
ReadPacket ==
  LET c == overlay.reading
  IN  /\ overlay.gone = "no" /\ c # 0
      /\ sockets[c].ui = "open" /\ ~sockets[c].reset /\ sockets[c].toUI # <<>>
      /\ \E u \in TakePacket([UI EXCEPT !.s[c].toUI = Tail(@)], Head(sockets[c].toUI), c) :
           Becomes(u)

(* videoOverlayReleaseWritable: the socket has room again, or hung up. *)
HungUp(c) == ~sockets[c].web \/ sockets[c].ui = "closed"
WriterReady ==
  /\ overlay.gone = "no" /\ overlay.writer \in Connections
  /\ \/ HungUp(overlay.writer)
     \/ Len(sockets[overlay.writer].toWeb) < RoomForReleases
ReleaseWritable ==
  /\ Idle /\ WriterReady
  /\ LET c == overlay.writer
         Spend(u) == IF u.o.writer = c THEN [u EXCEPT !.o.writer = Spent] ELSE u
     IN  \/ HungUp(c) /\ \E u \in DropClient(UI) : Becomes(Spend(u))
         \/ /\ ~HungUp(c)
            /\ \E f \in Flush(UI) :
                 Becomes(IF f.done THEN [f.u EXCEPT !.o.writer = 0]
                         ELSE IF f.u.o.client = 0 THEN Spend(f.u) ELSE f.u)

(* The retry timer of videoOverlayScheduleDrain. *)
RetryDrain ==
  /\ Idle /\ overlay.retry
  /\ \E u \in DrainPending([UI EXCEPT !.o.retry = FALSE]) : Becomes(u)

(* 2 seconds have passed since videoOverlayDrainPending first tried. *)
DisableExpires ==
  /\ overlay.gone = "no" /\ overlay.disableRequested /\ ~overlay.expired
  /\ Becomes([UI EXCEPT !.o.expired = TRUE])

(* The view commits a page or its chrome; only then is the overlay held up. *)
PageCommit == Idle /\ ~overlay.busy /\ Becomes([UI EXCEPT !.o.busy = TRUE])

(* A page flip: wpeViewDRMDidPageFlip drains what was put off. *)
PageFlip ==
  /\ Idle /\ overlay.busy
  /\ \E u \in DrainPending([UI EXCEPT !.o.busy = FALSE]) : Becomes(u)

(* wpeViewDRMChromeTick: the layout changed. *)
LayoutChanges == Idle /\ \E u \in Recommit(UI) : Becomes(u)

(* Every descriptor of the UI process is closed. *)
AllClosed(s) ==
  [c \in Connections |-> IF s[c].ui \in {"open", "backlog"} THEN CloseUI(s, c)[c] ELSE s[c]]

(* videoOverlayStop: take the plane down whatever is in flight, release the *)
(* frame on it if that worked, and close the sockets.                       *)
Stop ==
  /\ Idle
  /\ LET o == [overlay EXCEPT !.pending = None, !.retry = FALSE, !.writer = 0, !.busy = FALSE]
     IN  \E d \in Disable([UI EXCEPT !.o = o]) :
           Becomes([o |-> [d.u.o EXCEPT !.client = 0, !.gone = "stopped"],
                    s |-> AllClosed(d.u.s)])

(* g_error ended the process: the kernel closes its descriptors. *)
Aborted ==
  /\ overlay.gone = "aborted" /\ \E c \in Connections : sockets[c].ui \in {"open", "backlog"}
  /\ Becomes([o |-> [overlay EXCEPT !.planeEnabled = FALSE, !.plane = None],
              s |-> AllClosed(sockets)])
-----------------------------------------------------------------------------
(* The channel of the WebProcess.  w is [ch |-> web, s |-> sockets]. *)

Channel == [ch |-> web, s |-> sockets]
Does(w) == web' = w.ch /\ sockets' = w.s /\ UNCHANGED overlay

CloseChannel_GivesBack(w) ==
  LET c == w.ch.socket
  IN  IF c = 0 THEN w
      ELSE [ch |-> [w.ch EXCEPT !.socket = 0, !.control = None, !.inFlight = {}],
            s |-> [w.s EXCEPT ![c].web = FALSE, ![c].toWeb = <<>>]]

(* closeLocked; the samples in flight stay retained. *)
CloseChannel(w) ==
  LET c == w.ch.socket
  IN  IF c = 0 THEN w
      ELSE [ch |-> [w.ch EXCEPT !.socket = 0, !.control = None],
            s |-> [w.s EXCEPT ![c] = [w.s[c] EXCEPT !.web = FALSE, !.toWeb = <<>>,
                                        !.reset = w.s[c].ui # "closed" /\ w.s[c].toWeb # <<>>]]]

PeerGone(w) == w.s[w.ch.socket].ui = "closed"

(* drainReleaseAcksLocked: read replies until there are none, the peer is   *)
(* found closed, or the close request is confirmed.                         *)
Drain(w) ==
  LET c == w.ch.socket
      replies == w.s[c].toWeb
      Confirms(i) == /\ replies[i].type = "CloseComplete"
                     /\ replies[i].sequence = w.ch.closing
      read == {i \in 1..Len(replies) : \A j \in 1..(i - 1) : ~Confirms(j)}
      left == w.ch.inFlight \ {replies[i].sequence : i \in {j \in read : replies[j].type = "Release"}}
      emptied == [w EXCEPT !.ch.inFlight = left,
                           !.s[c].toWeb = SubSeq(@, Cardinality(read) + 1, Len(@))]
  IN  IF c = 0 THEN w
      ELSE IF w.s[c].reset THEN [w EXCEPT !.s[c].reset = FALSE]
      ELSE IF \E i \in read : Confirms(i)
        THEN CloseChannel([emptied EXCEPT !.ch = [emptied.ch EXCEPT !.closing = 0,
                                                                    !.early = left # {}]])
      ELSE IF PeerGone(w) THEN CloseChannel(emptied)
      ELSE emptied

(* sendPacketLocked and sendLocked: the packet is sent, kept for later if   *)
(* it is a control packet, or dropped; a broken connection is closed.       *)
SendPacket(w, packet) ==
  LET c == w.ch.socket
      full == Len(w.s[c].toUI) >= RoomForFrames
  IN  IF c = 0 THEN w
      ELSE IF PeerGone(w) THEN CloseChannel(w)
      ELSE IF ~full THEN [w EXCEPT !.s[c].toUI = Append(@, packet)]
      ELSE IF packet.type = "Frame" THEN w
      ELSE [w EXCEPT !.ch.control = packet]

(* ensureConnectedLocked, when the socket is closed. *)
Unused == {c \in Connections : sockets[c].ui = "unused"}
MayConnect(ch) == ch.inFlight = {} /\ ch.closing = 0 /\ ~ch.backoff
Connect(w) ==
  LET tried == [w EXCEPT !.ch = [w.ch EXCEPT !.backoff = TRUE]]
  IN  {tried} \cup
      {[ch |-> [tried.ch EXCEPT !.socket = c],
        s |-> [w.s EXCEPT ![c] = [w.s[c] EXCEPT !.web = TRUE, !.ui = "backlog"]]] :
         c \in {d \in Unused : overlay.gone = "no" /\ \A e \in Unused : d <= e}}

EnsureConnected(w) ==
  IF w.ch.socket # 0 \/ ~MayConnect(w.ch) THEN {w} ELSE Connect(w)

(* The rest of sendFrame, once connected. *)
SendSample(w) ==
  LET ch == w.ch
      sent == SendPacket([w EXCEPT !.ch.next = @ + 1],
                         [type |-> "Frame", sequence |-> ch.next, rect |-> ch.rect])
  IN  IF Cardinality(ch.inFlight) >= MaxInFlight THEN w
      ELSE IF sent.s = w.s \/ sent.ch.socket = 0 THEN sent
      ELSE [sent EXCEPT !.ch.inFlight = @ \cup {ch.next}]

(* sendFrame: the sink hands over a sample, shown at rectangle r.  The      *)
(* first sink to do so owns the overlay until it is released.               *)
SendFrame(k, r) ==
  /\ web.closing = 0 /\ web.owner \in {None, k} /\ web.next <= MaxSequence
  /\ \E w \in EnsureConnected([Channel EXCEPT !.ch = [web EXCEPT !.owner = k, !.rect = r]]) :
       Does(IF w.ch.socket = 0 THEN w ELSE SendSample(Drain(w)))

(* setRectangle: the element was laid out again. *)
SetRectangle(k, r) ==
  /\ web.owner = k /\ web.rect # r
  /\ Does(SendPacket([Channel EXCEPT !.ch.rect = r],
                     [type |-> "Rect", sequence |-> 0, rect |-> r]))

(* release: the sink is destroyed. *)
ReleaseOwner(k) ==
  /\ web.owner = k /\ web.next <= MaxSequence
  /\ LET w == [Channel EXCEPT !.ch.owner = None]
         closing == [w EXCEPT !.ch = [w.ch EXCEPT !.closing = web.next, !.next = @ + 1]]
     IN  Does(IF web.inFlight = {} THEN CloseChannel(w)
              ELSE SendPacket(closing, [type |-> "Hide", sequence |-> web.next,
                                        rect |-> web.rect]))

(* The source that waits for replies. *)
RepliesReady ==
  /\ web.socket # 0 /\ (sockets[web.socket].toWeb # <<>> \/ PeerGone(Channel))
  /\ Does(Drain(Channel))

(* The source that waits for room for a control packet. *)
ControlReady ==
  /\ web.control # None
  /\ PeerGone(Channel) \/ Len(sockets[web.socket].toUI) < RoomForFrames
  /\ Does(SendPacket([Channel EXCEPT !.ch.control = None], web.control))

BackoffEnds == web.backoff /\ Does([Channel EXCEPT !.ch.backoff = FALSE])

(* The WebProcess crashes and a new one is started. *)
Crash ==
  /\ Crashes /\ web.born = 0
  /\ LET made == Cardinality(Connections \ Unused)
     IN  made > 0 /\ Does([CloseChannel(Channel) EXCEPT !.ch = NewChannel(made)])

Next ==
  \/ \E k \in Sinks : \/ \E r \in Rects : SendFrame(k, r) \/ SetRectangle(k, r)
                      \/ ReleaseOwner(k)
  \/ RepliesReady \/ ControlReady \/ BackoffEnds \/ Crash
  \/ \E c \in Connections : Accept(c)
  \/ ClientEvent \/ ReadPacket \/ ReadDrained \/ ReadEnds \/ ReleaseWritable
  \/ RetryDrain \/ DisableExpires \/ PageCommit \/ PageFlip \/ LayoutChanges
  \/ Stop \/ Aborted

Spec == Init /\ [][Next]_vars

(* GLib dispatches every source that stays ready, though not while it is in *)
(* another callback, and each callback returns: packets do not come faster  *)
(* than it reads them.  A page flip follows every commit, and time passes.  *)
(* A commit that KMS refuses and the timer repeats is not refused for ever. *)
BacklogReady(c) == sockets[c].ui = "backlog" /\ overlay.gone = "no"
Fairness ==
  /\ []<>(overlay.reading = 0 \/ overlay.gone # "no")
  /\ \A c \in Connections : []<>~BacklogReady(c) \/ []<><<Accept(c)>>_vars
  /\ []<>~(ClientReady /\ overlay.gone = "no") \/ []<><<ClientEvent>>_vars
  /\ []<>~WriterReady \/ []<><<ReleaseWritable>>_vars
  /\ []<>~(overlay.busy /\ overlay.gone = "no") \/ []<><<PageFlip>>_vars
  /\ SF_vars(RetryDrain) /\ WF_vars(DisableExpires) /\ WF_vars(Aborted)
  /\ WF_vars(RepliesReady) /\ WF_vars(ControlReady) /\ WF_vars(BackoffEnds)
FairSpec == Spec /\ Fairness
-----------------------------------------------------------------------------
(* What must be right. *)

(* The frames of this WebProcess that the UI process holds, those it will   *)
(* read, and the samples whose release is on its way.                       *)
Mine(frames) == {f \in frames \ {None} : f.conn > web.born}
OnPlane == Mine({overlay.current, overlay.plane})
Waiting == Mine({overlay.pending, overlay.batch})
Sequences(frames) == {f.sequence : f \in frames}
Sent(c) == {p.sequence : p \in {q \in Range(sockets[c].toUI) : q.type = "Frame"}}
Replies(c) == sockets[c].toWeb \o (IF overlay.client = c THEN overlay.acks ELSE <<>>)
Returning(c) == {r.sequence : r \in {q \in Range(Replies(c)) : q.type = "Release"}}

(* The connection of the channel works in both directions. *)
Healthy ==
  /\ web.socket # 0 /\ overlay.gone = "no"
  /\ sockets[web.socket].ui \in {"backlog", "open"}
  /\ ~(overlay.client = web.socket /\ overlay.dropping)

(* The decoder does not get a sample back while the hardware scans it out,   *)
(* or may do so at the next commit, however connections break, clients are  *)
(* dropped half way through a batch, and disables are put off.              *)
ScanoutRetained == TypeOK /\ Sequences(OnPlane \cup Waiting) \subseteq web.inFlight

(* While the connection lasts each sample in flight is in one place, on its *)
(* way, held back, on the plane, or being released: none is forgotten (the  *)
(* decoder's pool would shrink) and none is released twice; and the backlog *)
(* of releases stays below the limit at which the client would be dropped   *)
(* with all its samples.                                                    *)
SamplesAccounted ==
  Healthy =>
    LET c == web.socket
        places == <<Sent(c), Sequences(OnPlane), Sequences(Mine({overlay.pending})),
                    Sequences(Mine({overlay.batch})), Returning(c)>>
    IN  /\ web.inFlight = UNION Range(places)
        /\ \A i, j \in 1..5 : i # j => places[i] \cap places[j] = {}
        /\ \A i, j \in 1..Len(Replies(c)) : i # j => Replies(c)[i] # Replies(c)[j]
        /\ Len(Replies(c)) <= MaxInFlight + 1

(* A close request is confirmed only after every sample was released. The one *)
(* the WebProcess waits for is always on its way, and once: neither a         *)
(* rectangle nor a put-off disable makes it disappear, and what was put off   *)
(* has its timer armed.                                                     *)
CloseInOrder ==
  /\ ~web.early
  /\ Idle /\ (overlay.pending # None \/ overlay.disableRequested) => overlay.retry
  /\ Healthy /\ web.closing # 0 =>
    LET c == web.socket
    IN  1 = Cardinality({i \in 1..Len(Replies(c)) : Replies(c)[i].type = "CloseComplete"})
            + Cardinality({i \in 1..Len(sockets[c].toUI) : sockets[c].toUI[i].type = "Hide"})
            + Cardinality({r \in {overlay.closing} \ {None} : r.conn = c})
            + (IF web.control # None /\ web.control.type = "Hide" THEN 1 ELSE 0)

(* What a client left behind is gone before the next one is served: a frame *)
(* or a reply of one WebProcess never reaches another.                      *)
CleanHandover ==
  LET frames == {overlay.current, overlay.pending, overlay.plane} \ {None}
      replies == Range(overlay.acks) \cup ({overlay.closing} \ {None})
  IN  Idle => \A x \in frames \cup replies :
                x.conn = overlay.client \/ (overlay.client = 0 /\ overlay.disableRequested)

(* Nothing is put off for ever, however often KMS refuses and replies have   *)
(* to wait for room, unless the connection breaks: again and again no close *)
(* request is open, so that the next video can be shown, and every sample   *)
(* but the one on the screen is back, so that the decoder does not starve.  *)
ChannelSettles ==
  /\ []<>(web.closing = 0 \/ ~Healthy)
  /\ []<>(Cardinality(web.inFlight) <= 1 \/ ~Healthy)

(* When nothing is left to do the rectangle on the screen is the latest.    *)
Quiet ==
  /\ Healthy /\ Idle /\ web.control = None
  /\ sockets[web.socket].toUI = <<>> /\ overlay.pending = None
  /\ ~overlay.geometryPending /\ web.closing = 0
RectangleSettles == Quiet /\ OnPlane # {} => overlay.lastRect = web.rect
-----------------------------------------------------------------------------
(* The overlay keeps the promise of SampleLending to the WebProcess that is  *)
(* alive: "lent" is what it has in flight, "shown" the frame of its own that *)
(* the UI process retains.                                                  *)
Lending == INSTANCE SampleLending WITH
  lent  <- web.inFlight,
  shown <- Sequences(Mine({overlay.current}))

(* Every behaviour of the two processes is one of SampleLending: samples are *)
(* shown in the order they were sent and none is given back while its frame *)
(* is retained, whatever the sockets, KMS and a crash do.                   *)
LendsSamples == Lending!Spec
=============================================================================
