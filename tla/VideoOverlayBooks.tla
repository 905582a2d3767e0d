------------------------- MODULE VideoOverlayBooks --------------------------
(***************************************************************************)
(* The books of the video overlay: what is always true of the samples, the  *)
(* close request and the two ends of the sockets, and what each thing done  *)
(* to a channel, a socket or a client does to it. VideoOverlayProofs shows   *)
(* that the handlers do nothing else.                                       *)
(*                                                                         *)
(* The invariant is one of values: ch the channel, s the sockets, q what   *)
(* the UI process keeps of its client (Link), X the frames it holds and g  *)
(* the confirmation it still owes, so that it can be stated between any    *)
(* two calls of a handler.                                                 *)
(***************************************************************************)
EXTENDS VideoOverlay, SequenceTheorems, FiniteSetTheorems, TLAPS

Link(o) == [client |-> o.client, acks |-> o.acks, dropping |-> o.dropping, gone |-> o.gone]
Held(o) == {o.current, o.pending, o.batch} \ {None}

Made(s, d) == s[d].ui # "unused"
Last(s, d) == \A e \in Connections : e > d => s[e].ui = "unused"
Accepted(s, d) == s[d].ui \in {"open", "closed"}

(* Packet i of connection d is not read yet.                                *)
Unread(s, d, type, i) == i \in 1..Len(s[d].toUI) /\ s[d].toUI[i].type = type

(* The two ends of each connection.                                         *)
SocketsOK(ch, s, q) ==
  /\ \A d \in Connections :
       /\ s[d].web <=> d = ch.socket
       /\ s[d].toUI # <<>> => s[d].ui \in {"backlog", "open"}
       /\ s[d].toWeb # <<>> => s[d].web /\ Accepted(s, d)
       /\ s[d].ui = "unused" => Last(s, d)
       /\ d <= ch.born => Made(s, d)
       /\ \A i \in 1..Len(s[d].toUI) : s[d].toUI[i].type # "Rect" => s[d].toUI[i].sequence # 0
  /\ ch.socket # 0 => ch.born < ch.socket /\ Made(s, ch.socket) /\ Last(s, ch.socket)
  /\ q.gone = "no" => \A d \in Connections : s[d].ui = "open" <=> d = q.client

(* Frames this WebProcess sent and nobody read yet.                         *)
UnreadOK(ch, s) ==
  \A d \in Connections : d > ch.born =>
    \A i \in 1..Len(s[d].toUI) : s[d].toUI[i].type = "Frame" =>
      /\ s[d].toUI[i].sequence \in ch.inFlight /\ Last(s, d)
      /\ \A j \in 1..Len(s[d].toUI) : j < i =>
           /\ s[d].toUI[j].type # "Hide"
           /\ s[d].toUI[j].type = "Frame" => s[d].toUI[j].sequence < s[d].toUI[i].sequence

(* A frame the UI process holds.                                            *)
FrameOK(ch, s, x) ==
  /\ Accepted(s, x.conn)
  /\ x.conn > ch.born =>
       /\ x.sequence \in ch.inFlight /\ Last(s, x.conn)
       /\ \A d \in Connections, i \in Nat :
            d > ch.born /\ Unread(s, d, "Frame", i) => x.sequence < s[d].toUI[i].sequence

FramesOK(ch, s, q, X) ==
  /\ \A x \in X : FrameOK(ch, s, x) /\ (q.client # 0 => x.conn = q.client)
  /\ \A x, y \in X : x.conn > ch.born /\ y.conn > ch.born /\ x.sequence = y.sequence => x = y

(* A sample that is being released is not held and not on its way.          *)
ReplyOK(ch, s, X, r) ==
  r.type = "Release" /\ r.conn > ch.born =>
    /\ r.sequence < ch.next /\ r.conn \in Connections /\ Made(s, r.conn)
    /\ \A x \in X : x.conn > ch.born => x.sequence # r.sequence
    /\ \A d \in Connections, i \in Nat :
         d > ch.born /\ Unread(s, d, "Frame", i) => s[d].toUI[i].sequence # r.sequence

RepliesOK(ch, s, q, X) ==
  /\ \A d \in Connections : \A i \in 1..Len(s[d].toWeb) :
       s[d].toWeb[i].conn = d /\ ReplyOK(ch, s, X, s[d].toWeb[i])
  /\ \A i \in 1..Len(q.acks) :
       /\ q.client # 0 => q.acks[i].conn = q.client
       /\ ReplyOK(ch, s, X, q.acks[i])
  /\ q.gone = "no" /\ q.client = 0 => q.acks = <<>>

(* The connection works in both directions, and what it still carries back.  *)
Live(ch, s, q) ==
  /\ ch.socket # 0 /\ q.gone = "no" /\ s[ch.socket].ui \in {"backlog", "open"}
  /\ ~(q.client = ch.socket /\ q.dropping)
Queue(s, q, k) == s[k].toWeb \o (IF q.client = k THEN q.acks ELSE <<>>)
Queued(s, q, k, type, i) == i \in 1..Len(Queue(s, q, k)) /\ Queue(s, q, k)[i].type = type

AccountOK(ch, s, q, X) ==
  Live(ch, s, q) =>
    LET k == ch.socket
    IN  /\ \A n \in ch.inFlight :
             \/ \E i \in Nat : Unread(s, k, "Frame", i) /\ s[k].toUI[i].sequence = n
             \/ \E x \in X : x.conn > ch.born /\ x.sequence = n
             \/ \E i \in Nat : Queued(s, q, k, "Release", i) /\ Queue(s, q, k)[i].sequence = n
        /\ \A i \in Nat : Queued(s, q, k, "Release", i) =>
             /\ Queue(s, q, k)[i].sequence \in ch.inFlight
             /\ \A j \in Nat :
                  (/\ Queued(s, q, k, "Release", j)
                   /\ Queue(s, q, k)[i].sequence = Queue(s, q, k)[j].sequence) => i = j

(* The places a close request may be in: a control packet that is put off,   *)
(* the socket, the confirmation that is owed, and the queue of replies.     *)
InControl(ch) == ch.control # None /\ ch.control.type = "Hide"
Owed(ch, g) == g # None /\ g.conn = ch.socket
Asked(ch, s) == \E i \in Nat : Unread(s, ch.socket, "Hide", i)
Confirmed(ch, s, q) == \E i \in Nat : Queued(s, q, ch.socket, "CloseComplete", i)

(* What names the close request.                                            *)
NamesOK(ch, s, q, g) ==
  /\ ~ch.early /\ (ch.closing # 0 => ch.owner = None)
  /\ ch.control # None =>
       /\ ch.socket # 0 /\ ch.control.type # "Frame"
       /\ InControl(ch) => ch.control.sequence = ch.closing /\ ch.closing # 0
  /\ g # None => /\ g.type = "CloseComplete" /\ Accepted(s, g.conn)
                 /\ q.client # 0 => g.conn = q.client
  /\ ch.socket # 0 =>
       /\ \A i \in Nat : Unread(s, ch.socket, "Hide", i) =>
            s[ch.socket].toUI[i].sequence = ch.closing /\ ch.closing # 0
       /\ Owed(ch, g) => g.sequence = ch.closing /\ ch.closing # 0
       /\ \A i \in Nat : Queued(s, q, ch.socket, "CloseComplete", i) =>
            Queue(s, q, ch.socket)[i].sequence = ch.closing /\ ch.closing # 0

(* A confirmation that was sent follows the releases of all samples.        *)
ConfirmedLast(ch, s) ==
  ch.socket # 0 =>
    \A i \in 1..Len(s[ch.socket].toWeb) : s[ch.socket].toWeb[i].type = "CloseComplete" =>
      \A n \in ch.inFlight : \E j \in 1..Len(s[ch.socket].toWeb) :
        /\ j < i /\ s[ch.socket].toWeb[j].type = "Release"
        /\ s[ch.socket].toWeb[j].sequence = n

(* It is in one place.                                                      *)
OnceOK(ch, s, q, X, g) ==
  Live(ch, s, q) =>
    LET k == ch.socket
    IN  /\ ch.closing # 0 => InControl(ch) \/ Asked(ch, s) \/ Owed(ch, g) \/ Confirmed(ch, s, q)
        /\ InControl(ch) => ~Asked(ch, s) /\ ~Owed(ch, g) /\ ~Confirmed(ch, s, q)
        /\ Asked(ch, s) => ~Owed(ch, g) /\ ~Confirmed(ch, s, q)
        /\ Owed(ch, g) => ~Confirmed(ch, s, q)
        /\ \A i, j \in Nat : Unread(s, k, "Hide", i) /\ Unread(s, k, "Hide", j) => i = j
        /\ Owed(ch, g) \/ Confirmed(ch, s, q) => \A i \in Nat : ~Unread(s, k, "Frame", i)
        /\ \A i \in Nat : Queued(s, q, k, "CloseComplete", i) =>
             i = Len(Queue(s, q, k)) /\ X = {}

Safe(ch, s, q, X) ==
  SocketsOK(ch, s, q) /\ UnreadOK(ch, s) /\ FramesOK(ch, s, q, X) /\ RepliesOK(ch, s, q, X)
Books(ch, s, q, X, g) ==
  /\ Safe(ch, s, q, X) /\ AccountOK(ch, s, q, X)
  /\ NamesOK(ch, s, q, g) /\ ConfirmedLast(ch, s) /\ OnceOK(ch, s, q, X, g)

(* The channel alone.                                                       *)
ChannelOK(ch) ==
  /\ ch.inFlight \subseteq 1..(ch.next - 1) /\ Cardinality(ch.inFlight) <= MaxInFlight
  /\ ch.closing < ch.next

(* The UI process alone.                                                    *)
Calm(o) ==
  /\ o.planeEnabled <=> o.plane # None
  /\ o.plane # None => o.plane = o.current
  /\ o.dropping <=> o.closeAfterDisable
  /\ o.dropping => o.disableRequested
Tidy(o) ==
  o.client = 0 /\ ~o.disableRequested => o.current = None /\ o.pending = None /\ o.closing = None
Armed(o) == o.pending # None \/ o.disableRequested => o.retry
WriterOK(s, o) ==
  /\ o.client # 0 => Made(s, o.client)
  /\ o.dropping /\ o.writer \in Connections => ~s[o.writer].web /\ Made(s, o.writer)
ReadingOK(o) ==
  /\ o.reading = 0 => o.batch = None /\ (o.gone = "no" => Tidy(o))
  /\ o.gone = "no" => Armed(o)

RoomOK(s) == \A d \in Connections : Len(s[d].toWeb) <= RoomForReleases

Below(ch, x, y) ==
  x # None /\ y # None /\ x.conn > ch.born /\ y.conn > ch.born => x.sequence < y.sequence
InOrder(ch, o) ==
  /\ Below(ch, o.current, o.pending) /\ Below(ch, o.current, o.batch)
  /\ Below(ch, o.pending, o.batch)

IInv ==
  /\ TypeOK /\ ChannelOK(web) /\ Calm(overlay)
  /\ WriterOK(sockets, overlay) /\ RoomOK(sockets) /\ ReadingOK(overlay) /\ InOrder(web, overlay)
  /\ Books(web, sockets, Link(overlay), Held(overlay), overlay.closing)
-----------------------------------------------------------------------------
(* Types.                                                                   *)
LinkType ==
  [client : {0} \cup Connections, acks : Seq(Reply), dropping : BOOLEAN,
   gone : {"no", "stopped", "aborted"}]
SocketsType == [Connections -> SocketType]
Replied == Reply \cup {None}

(* What the UI process keeps of its client has its type.                    *)
LEMMA LinkTyped == ASSUME NEW o \in OverlayType PROVE Link(o) \in LinkType
<1>1. /\ o.client \in {0} \cup Connections /\ o.acks \in Seq(Reply) /\ o.dropping \in BOOLEAN
      /\ o.gone \in {"no", "stopped", "aborted"}
  BY DEF OverlayType
<1> QED BY <1>1 DEF Link, LinkType

(* The constants are numbers, and samples in flight fit the release queue.  *)
LEMMA Numbers ==
  /\ Connections \subseteq Nat \ {0} /\ MaxConnections \in Nat /\ MaxSequence \in Nat
  /\ MaxInFlight \in Nat /\ ReleaseLimit \in Nat /\ MaxInFlight < ReleaseLimit
  /\ RoomForFrames \in Nat /\ RoomForReleases \in Nat
<1>1. MaxConnections \in Nat
  BY OverlayAssumption
<1> QED BY <1>1, OverlayAssumption DEF Connections

(* The parts of a socket, and what is in its two queues.                    *)
LEMMA SocketTyped ==
  ASSUME NEW s \in SocketsType, NEW d \in Connections
  PROVE  /\ s[d].web \in BOOLEAN /\ s[d].ui \in {"unused", "backlog", "open", "closed"}
         /\ s[d].toUI \in Seq(Packet) /\ s[d].toWeb \in Seq(Reply) /\ s[d].reset \in BOOLEAN
         /\ Len(s[d].toUI) \in Nat /\ Len(s[d].toWeb) \in Nat
         /\ \A i \in 1..Len(s[d].toUI) : s[d].toUI[i] \in Packet
         /\ \A i \in 1..Len(s[d].toWeb) : s[d].toWeb[i] \in Reply
<1>1. s[d] \in SocketType
  BY DEF SocketsType
<1>2. /\ s[d].web \in BOOLEAN /\ s[d].ui \in {"unused", "backlog", "open", "closed"}
      /\ s[d].toUI \in Seq(Packet) /\ s[d].toWeb \in Seq(Reply) /\ s[d].reset \in BOOLEAN
  BY <1>1 DEF SocketType
<1> QED BY <1>2, ElementOfSeq, LenProperties

(* A client is let go: some connections are shut, and nothing is said any more. *)
Shut(s, s2) ==
  \A d \in Connections :
    \/ s2[d] = s[d]
    \/ /\ s2[d].web = s[d].web /\ s2[d].toWeb = s[d].toWeb /\ s2[d].toUI = <<>>
       /\ s2[d].ui = "closed" /\ Made(s, d)
Lost(q) == q.client = 0 \/ q.dropping \/ q.gone # "no"
LetGo(ch, s, q, X, s2, q2) ==
  /\ Shut(s, s2) /\ Lost(q2) /\ q2.client \in {q.client, 0}
  /\ q2.gone = "no" => /\ q.gone = "no" /\ (q2.client = 0 => q2.acks = <<>>)
                       /\ \A d \in Connections : s2[d].ui = "open" <=> d = q2.client
  /\ \A i \in 1..Len(q2.acks) :
       /\ q2.client # 0 => q2.acks[i].conn = q2.client
       /\ ReplyOK(ch, s, X, q2.acks[i])
       /\ (/\ q2.client # 0 /\ q2.client = ch.socket
           /\ q2.acks[i].type = "CloseComplete") => /\ q2.acks[i].sequence = ch.closing
                                                   /\ ch.closing # 0

(* If the channel is still live, its connection was not touched: it waits.  *)
LEMMA LetGoLive ==
  ASSUME NEW ch \in ChannelType, NEW s \in SocketsType, NEW q \in LinkType,
         NEW s2 \in SocketsType, NEW q2 \in LinkType, NEW X \in SUBSET Frame,
         SocketsOK(ch, s, q), LetGo(ch, s, q, X, s2, q2), Live(ch, s2, q2)
  PROVE  /\ Live(ch, s, q) /\ s2[ch.socket] = s[ch.socket] /\ s[ch.socket].ui = "backlog"
         /\ ch.socket \in Connections /\ q2.client # ch.socket /\ q.client # ch.socket
         /\ s[ch.socket].toWeb = <<>>
<1> DEFINE k == ch.socket
<1>1. k \in Connections /\ k # 0
  BY DEF Live, ChannelType
<1>2. s2[k].ui \in {"backlog", "open"} /\ q2.gone = "no" /\ q.gone = "no"
  BY DEF Live, LetGo
<1>3. s2[k].ui # "open"
  BY <1>1, <1>2 DEF Live, LetGo, Lost
<1>4. s2[k] = s[k] /\ s[k].ui = "backlog"
  BY <1>1, <1>2, <1>3 DEF LetGo, Shut
<1>5. q.client # k /\ q2.client # k
  BY <1>1, <1>2, <1>4 DEF SocketsOK, LetGo
<1>6. s[k].toWeb = <<>>
  BY <1>1, <1>4 DEF SocketsOK, Accepted
<1> QED BY <1>1, <1>2, <1>4, <1>5, <1>6 DEF Live

(* Letting the client go keeps what is said of the frames still held.       *)
LEMMA LetGoSafe ==
  ASSUME NEW ch \in ChannelType, NEW s \in SocketsType, NEW q \in LinkType,
         NEW s2 \in SocketsType, NEW q2 \in LinkType, NEW X \in SUBSET Frame,
         NEW Y \in SUBSET X,
         Safe(ch, s, q, X), LetGo(ch, s, q, Y, s2, q2)
  PROVE  Safe(ch, s2, q2, Y)
<1>1. SocketsOK(ch, s, q) /\ UnreadOK(ch, s) /\ FramesOK(ch, s, q, X) /\ RepliesOK(ch, s, q, X)
  BY DEF Safe
<1>2. \A d \in Connections :
        /\ s2[d].web = s[d].web /\ s2[d].toWeb = s[d].toWeb
        /\ s2[d].toUI = s[d].toUI \/ s2[d].toUI = <<>>
        /\ s2[d].ui = s[d].ui \/ (s2[d].ui = "closed" /\ Made(s, d))
        /\ s2[d].ui # s[d].ui => s2[d].toUI = <<>>
        /\ s2[d].toUI # <<>> => s2[d].ui = s[d].ui
  <2> SUFFICES ASSUME NEW d \in Connections, s2[d] # s[d]
               PROVE  /\ s2[d].web = s[d].web /\ s2[d].toWeb = s[d].toWeb /\ s2[d].toUI = <<>>
                      /\ s2[d].ui = "closed" /\ Made(s, d)
    OBVIOUS
  <2> QED BY DEF LetGo, Shut
<1>3. \A d \in Connections : /\ Made(s2, d) <=> Made(s, d)
                             /\ Accepted(s, d) => Accepted(s2, d)
                             /\ Last(s2, d) <=> Last(s, d)
  BY <1>2 DEF Made, Accepted, Last
<1>4. \A d \in Connections, i \in Nat, type \in {"Frame", "Hide"} :
        Unread(s2, d, type, i) => Unread(s, d, type, i) /\ s2[d].toUI[i] = s[d].toUI[i]
  BY <1>2 DEF Unread
<1>5. SocketsOK(ch, s2, q2)
  <2>1. \A d \in Connections :
       /\ s2[d].web <=> d = ch.socket
       /\ s2[d].toWeb # <<>> => s2[d].web /\ Accepted(s2, d)
       /\ s2[d].ui = "unused" => Last(s2, d)
       /\ d <= ch.born => Made(s2, d)
    BY <1>1, <1>2, <1>3 DEF SocketsOK
  <2>2. \A d \in Connections :
       /\ s2[d].toUI # <<>> => s2[d].ui \in {"backlog", "open"}
       /\ \A i \in 1..Len(s2[d].toUI) : s2[d].toUI[i].type # "Rect" => s2[d].toUI[i].sequence # 0
    <3> TAKE d \in Connections
    <3>1. CASE s2[d].toUI = <<>>
      BY <3>1
    <3>2. CASE s2[d].toUI = s[d].toUI /\ s2[d].ui = s[d].ui
      BY <1>1, <3>2 DEF SocketsOK
    <3> QED BY <1>2, <3>1, <3>2
  <2>3. ch.socket # 0 => ch.born < ch.socket /\ Made(s2, ch.socket) /\ Last(s2, ch.socket)
    BY <1>1, <1>3 DEF SocketsOK, ChannelType
  <2>4. q2.gone = "no" => \A d \in Connections : s2[d].ui = "open" <=> d = q2.client
    BY DEF LetGo
  <2> QED BY <2>1, <2>2, <2>3, <2>4 DEF SocketsOK
<1>6. UnreadOK(ch, s2)
  <2> SUFFICES ASSUME NEW d \in Connections, d > ch.born,
                      NEW i \in 1..Len(s2[d].toUI), s2[d].toUI[i].type = "Frame"
               PROVE  /\ s2[d].toUI[i].sequence \in ch.inFlight /\ Last(s2, d)
                      /\ \A j \in 1..Len(s2[d].toUI) : j < i =>
                           /\ s2[d].toUI[j].type # "Hide"
                           /\ s2[d].toUI[j].type = "Frame" =>
                                s2[d].toUI[j].sequence < s2[d].toUI[i].sequence
    BY DEF UnreadOK
  <2>1. s2[d].toUI = s[d].toUI
    BY <1>2
  <2> QED BY <1>1, <1>3, <2>1 DEF UnreadOK
<1>7. FramesOK(ch, s2, q2, Y)
  <2>1. ASSUME NEW x \in Y PROVE FrameOK(ch, s2, x)
    <3>1. FrameOK(ch, s, x) /\ x.conn \in Connections
      BY <1>1, <2>1 DEF FramesOK, Frame
    <3> QED BY <1>3, <1>4, <3>1 DEF FrameOK
  <2> QED BY <1>1, <2>1 DEF FramesOK, LetGo
<1>8. RepliesOK(ch, s2, q2, Y)
  <2>1. ASSUME NEW r, NEW Z \in SUBSET X, ReplyOK(ch, s, Z, r), Y \subseteq Z
        PROVE ReplyOK(ch, s2, Y, r)
    BY <1>3, <1>4, <2>1 DEF ReplyOK
  <2>2. \A d \in Connections : \A i \in 1..Len(s2[d].toWeb) :
          s2[d].toWeb[i].conn = d /\ ReplyOK(ch, s2, Y, s2[d].toWeb[i])
    BY <1>1, <1>2, <2>1 DEF RepliesOK
  <2>3. \A i \in 1..Len(q2.acks) : /\ q2.client # 0 => q2.acks[i].conn = q2.client
                                   /\ ReplyOK(ch, s2, Y, q2.acks[i])
    BY <2>1 DEF LetGo
  <2> QED BY <2>2, <2>3 DEF RepliesOK, LetGo
<1> QED BY <1>5, <1>6, <1>7, <1>8 DEF Safe

(* Only one connection was made last.                                         *)
LEMMA LastAlone ==
  ASSUME NEW s, NEW d \in Connections, NEW e \in Connections,
         Made(s, d), Made(s, e), Last(s, d), Last(s, e)
  PROVE  d = e
<1>1. ~(d > e) /\ ~(e > d)
  BY DEF Made, Last
<1> QED BY <1>1, Numbers

(* What stands where in two sequences, one after the other.                   *)
LEMMA Joined ==
  ASSUME NEW S, NEW a \in Seq(S), NEW b \in Seq(S)
  PROVE  /\ a \o b \in Seq(S) /\ Len(a \o b) = Len(a) + Len(b) /\ Len(a \o b) \in Nat
         /\ Len(a) \in Nat /\ Len(b) \in Nat
         /\ \A i \in 1..Len(a) : i \in 1..Len(a \o b) /\ (a \o b)[i] = a[i]
         /\ \A i \in 1..Len(a \o b) :
              \/ i \in 1..Len(a) /\ (a \o b)[i] = a[i]
              \/ i - Len(a) \in 1..Len(b) /\ (a \o b)[i] = b[i - Len(a)]
  BY ConcatProperties, LenProperties

(* Where the replies of a connection are.                                     *)
LEMMA QueueIs ==
  ASSUME NEW s \in SocketsType, NEW q \in LinkType, NEW k \in Connections
  PROVE  /\ Queue(s, q, k) \in Seq(Reply) /\ Len(Queue(s, q, k)) \in Nat
         /\ q.client # k => Queue(s, q, k) = s[k].toWeb
         /\ q.client = k => Queue(s, q, k) = s[k].toWeb \o q.acks
<1>1. s[k].toWeb \in Seq(Reply) /\ q.acks \in Seq(Reply)
  BY SocketTyped DEF LinkType
<1>2. CASE q.client = k
  <2>1. Queue(s, q, k) = s[k].toWeb \o q.acks
    BY <1>2 DEF Queue
  <2>2. Queue(s, q, k) \in Seq(Reply) /\ Len(Queue(s, q, k)) \in Nat
    BY Zenon, <1>1, <2>1, Joined
  <2> QED BY Zenon, <1>2, <2>1, <2>2
<1>3. CASE q.client # k
  <2>1. Queue(s, q, k) = s[k].toWeb \o <<>>
    BY <1>3 DEF Queue
  <2>2. Queue(s, q, k) = s[k].toWeb
    BY <1>1, <2>1, ConcatEmptySeq
  <2>3. Queue(s, q, k) \in Seq(Reply) /\ Len(Queue(s, q, k)) \in Nat
    BY <1>1, <2>2, LenProperties
  <2> QED BY Zenon, <1>3, <2>2, <2>3
<1> QED BY Zenon, <1>2, <1>3

(* A reply that is queued is on the socket or not sent yet.                 *)
LEMMA QueuedIs ==
  ASSUME NEW s \in SocketsType, NEW q \in LinkType, NEW k \in Connections,
         NEW i \in 1..Len(Queue(s, q, k))
  PROVE  \/ i \in 1..Len(s[k].toWeb) /\ Queue(s, q, k)[i] = s[k].toWeb[i]
         \/ /\ q.client = k /\ i - Len(s[k].toWeb) \in 1..Len(q.acks)
            /\ Queue(s, q, k)[i] = q.acks[i - Len(s[k].toWeb)]
<1>1. s[k].toWeb \in Seq(Reply) /\ q.acks \in Seq(Reply)
  BY SocketTyped DEF LinkType
<1>2. CASE q.client = k
  <2> DEFINE a == s[k].toWeb
             b == q.acks
  <2>1. Queue(s, q, k) = a \o b /\ a \in Seq(Reply) /\ b \in Seq(Reply)
    BY Zenon, <1>1, <1>2, QueueIs
  <2> HIDE DEF a, b
  <2>2. \/ i \in 1..Len(a) /\ (a \o b)[i] = a[i]
        \/ i - Len(a) \in 1..Len(b) /\ (a \o b)[i] = b[i - Len(a)]
    BY <2>1, Joined
  <2> QED BY <1>2, <2>1, <2>2 DEF a, b
<1>3. CASE q.client # k
  BY Zenon, <1>3, QueueIs
<1> QED BY <1>2, <1>3

(* What is on the socket comes first.                                       *)
LEMMA QueuedFirst ==
  ASSUME NEW s \in SocketsType, NEW q \in LinkType, NEW k \in Connections,
         NEW i \in 1..Len(s[k].toWeb)
  PROVE  i \in 1..Len(Queue(s, q, k)) /\ Queue(s, q, k)[i] = s[k].toWeb[i]
<1>1. s[k].toWeb \in Seq(Reply) /\ q.acks \in Seq(Reply)
  BY SocketTyped DEF LinkType
<1>2. CASE q.client = k
  <2> DEFINE a == s[k].toWeb
             b == q.acks
  <2>1. Queue(s, q, k) = a \o b /\ a \in Seq(Reply) /\ b \in Seq(Reply)
    BY Zenon, <1>1, <1>2, QueueIs
  <2>2. i \in 1..Len(a)
    OBVIOUS
  <2> HIDE DEF a, b
  <2>3. i \in 1..Len(a \o b) /\ (a \o b)[i] = a[i]
    BY <2>1, <2>2, Joined
  <2> QED BY <2>1, <2>3 DEF a
<1>3. CASE q.client # k
  BY Zenon, <1>3, QueueIs
<1> QED BY <1>2, <1>3

(* Letting the client go keeps the books, with frames or a debt dropped.    *)
LEMMA LetGoKeeps ==
  ASSUME NEW ch \in ChannelType, NEW s \in SocketsType, NEW q \in LinkType,
         NEW s2 \in SocketsType, NEW q2 \in LinkType, NEW X \in SUBSET Frame,
         NEW Y \in SUBSET X, NEW g \in Replied, NEW g2 \in {g, None},
         Books(ch, s, q, X, g), LetGo(ch, s, q, Y, s2, q2)
  PROVE  Books(ch, s2, q2, Y, g2)
<1> DEFINE k == ch.socket
<1>1. /\ Safe(ch, s, q, X) /\ AccountOK(ch, s, q, X) /\ NamesOK(ch, s, q, g)
      /\ ConfirmedLast(ch, s) /\ OnceOK(ch, s, q, X, g)
  BY DEF Books
<1>2. Safe(ch, s2, q2, Y)
  BY <1>1, LetGoSafe
<1>3. SocketsOK(ch, s, q) /\ FramesOK(ch, s, q, X)
  BY <1>1 DEF Safe
<1>4. \A d \in Connections : /\ s2[d].toWeb = s[d].toWeb
                             /\ s2[d].toUI = s[d].toUI \/ s2[d].toUI = <<>>
                             /\ s2[d].ui = s[d].ui \/ s2[d].ui = "closed"
  BY DEF LetGo, Shut
<1>5. k \in {0} \cup Connections
  BY DEF ChannelType
<1>6. ASSUME Live(ch, s2, q2)
      PROVE  /\ Live(ch, s, q) /\ s2[k] = s[k] /\ s[k].ui = "backlog" /\ k \in Connections
             /\ q2.client # k /\ q.client # k /\ s[k].toWeb = <<>>
             /\ Queue(s, q, k) = <<>> /\ Queue(s2, q2, k) = <<>>
  <2>1. /\ Live(ch, s, q) /\ s2[k] = s[k] /\ s[k].ui = "backlog" /\ k \in Connections
        /\ q2.client # k /\ q.client # k /\ s[k].toWeb = <<>>
    <3>1. LetGo(ch, s, q, Y, s2, q2) /\ Y \in SUBSET Frame
      OBVIOUS
    <3> QED BY <1>3, <1>6, <3>1, LetGoLive
  <2> QED BY <2>1 DEF Queue
<1>7. ASSUME Live(ch, s2, q2), NEW x \in X PROVE ~(x.conn > ch.born)
  <2>1. x.conn \in Connections /\ Accepted(s, x.conn) /\ s[k].ui = "backlog" /\ k \in Connections
    BY <1>3, <1>6, <1>7 DEF FramesOK, FrameOK, Frame
  <2>2. x.conn > ch.born => Last(s, x.conn)
    BY <1>3, <1>7 DEF FramesOK, FrameOK
  <2>3. Last(s, k)
    BY <1>3, <1>5, <1>6, <1>7 DEF SocketsOK, Live
  <2>4. ASSUME x.conn > ch.born PROVE x.conn = k
    BY <2>1, <2>2, <2>3, <2>4, LastAlone DEF Made, Accepted
  <2> QED BY <2>1, <2>4 DEF Accepted
<1>8. AccountOK(ch, s2, q2, Y)
  <2> SUFFICES ASSUME Live(ch, s2, q2)
               PROVE  /\ \A n \in ch.inFlight :
                           \E i \in Nat : Unread(s2, k, "Frame", i) /\ s2[k].toUI[i].sequence = n
                      /\ \A i \in Nat : ~Queued(s2, q2, k, "Release", i)
    BY DEF AccountOK
  <2>1. \A i \in Nat : ~Queued(s2, q2, k, "Release", i) /\ ~Queued(s, q, k, "Release", i)
    BY <1>6 DEF Queued
  <2> QED BY <1>1, <1>6, <1>7, <2>1 DEF AccountOK, Unread
<1>9. NamesOK(ch, s2, q2, g2)
  <2>1. g2 # None => /\ g2.type = "CloseComplete" /\ Accepted(s2, g2.conn)
                     /\ q2.client # 0 => g2.conn = q2.client
    <3>1. g2 # None => g2 = g /\ g2.conn \in Connections
      BY DEF Replied, Reply
    <3> QED BY <1>1, <1>4, <3>1 DEF NamesOK, Accepted, LetGo
  <2>2. ASSUME k # 0
        PROVE  /\ \A i \in Nat : Unread(s2, k, "Hide", i) =>
                    s2[k].toUI[i].sequence = ch.closing /\ ch.closing # 0
               /\ Owed(ch, g2) => g2.sequence = ch.closing /\ ch.closing # 0
    BY <1>1, <1>4, <1>5, <2>2 DEF NamesOK, Unread, Owed
  <2>3. ASSUME k # 0, NEW i \in Nat, Queued(s2, q2, k, "CloseComplete", i)
        PROVE  Queue(s2, q2, k)[i].sequence = ch.closing /\ ch.closing # 0
    <3>1. s2[k].toWeb = s[k].toWeb /\ k \in Connections /\ i \in 1..Len(Queue(s2, q2, k))
      BY <1>4, <1>5, <2>3 DEF Queued
    <3>4. \/ i \in 1..Len(s2[k].toWeb) /\ Queue(s2, q2, k)[i] = s2[k].toWeb[i]
          \/ /\ q2.client = k /\ i - Len(s2[k].toWeb) \in 1..Len(q2.acks)
             /\ Queue(s2, q2, k)[i] = q2.acks[i - Len(s2[k].toWeb)]
      <4>1. \A e \in Connections : \A j \in 1..Len(Queue(s2, q2, e)) :
              \/ j \in 1..Len(s2[e].toWeb) /\ Queue(s2, q2, e)[j] = s2[e].toWeb[j]
              \/ /\ q2.client = e /\ j - Len(s2[e].toWeb) \in 1..Len(q2.acks)
                 /\ Queue(s2, q2, e)[j] = q2.acks[j - Len(s2[e].toWeb)]
        BY QueuedIs
      <4> HIDE DEF k
      <4> QED BY Zenon, <3>1, <4>1
    <3>2. CASE i \in 1..Len(s[k].toWeb) /\ Queue(s2, q2, k)[i] = s[k].toWeb[i]
      <4>1. i \in 1..Len(Queue(s, q, k)) /\ Queue(s, q, k)[i] = s[k].toWeb[i]
        BY <3>1, <3>2, QueuedFirst
      <4> QED BY <1>1, <2>3, <3>2, <4>1 DEF NamesOK, Queued
    <3>3. CASE /\ q2.client = k /\ i - Len(s[k].toWeb) \in 1..Len(q2.acks)
               /\ Queue(s2, q2, k)[i] = q2.acks[i - Len(s[k].toWeb)]
      BY Zenon, <2>3, <3>3 DEF LetGo, Queued
    <3> QED BY <3>1, <3>2, <3>3, <3>4
  <2> QED BY <1>1, <2>1, <2>2, <2>3 DEF NamesOK
<1>10. ConfirmedLast(ch, s2)
  <2>1. CASE k = 0
    BY <2>1 DEF ConfirmedLast
  <2>2. CASE k \in Connections
    <3>1. s2[k].toWeb = s[k].toWeb
      BY <1>4, <2>2
    <3> QED BY <1>1, <3>1 DEF ConfirmedLast
  <2> QED BY <1>5, <2>1, <2>2
<1>11. OnceOK(ch, s2, q2, Y, g2)
  <2> SUFFICES ASSUME Live(ch, s2, q2) PROVE OnceOK(ch, s2, q2, Y, g2)
    BY DEF OnceOK
  <2>1. ~Owed(ch, g) /\ ~Owed(ch, g2)
    BY <1>1, <1>6 DEF NamesOK, Owed, Accepted
  <2>2. ~Confirmed(ch, s, q) /\ ~Confirmed(ch, s2, q2)
        /\ \A i \in Nat : ~Queued(s2, q2, k, "CloseComplete", i)
    BY <1>6 DEF Confirmed, Queued
  <2>3. \A type \in {"Frame", "Hide"}, i \in Nat : Unread(s2, k, type, i) <=> Unread(s, k, type, i)
    BY <1>6 DEF Unread
  <2>4. Asked(ch, s2) <=> Asked(ch, s)
    BY <2>3 DEF Asked
  <2> QED BY <1>1, <1>6, <2>1, <2>2, <2>3, <2>4 DEF OnceOK
<1> QED BY <1>2, <1>8, <1>9, <1>10, <1>11 DEF Books

(* While the connection works, it is that of the client or nothing was said *)
(* on it yet, and no frame of this WebProcess is held.                      *)
LEMMA LiveQueue ==
  ASSUME NEW ch \in ChannelType, NEW s \in SocketsType, NEW q \in LinkType,
         NEW X \in SUBSET Frame, NEW g, Books(ch, s, q, X, g), Live(ch, s, q)
  PROVE  /\ ch.socket \in Connections /\ ch.born < ch.socket
         /\ q.client # ch.socket => /\ Queue(s, q, ch.socket) = <<>> /\ s[ch.socket].ui = "backlog"
                                    /\ \A x \in X : ~(x.conn > ch.born)
         /\ q.client = ch.socket => \A x \in X : x.conn = ch.socket /\ x.conn > ch.born
<1> DEFINE k == ch.socket
<1>1. SocketsOK(ch, s, q) /\ FramesOK(ch, s, q, X)
  BY DEF Books, Safe
<1>2. k \in Connections /\ k # 0 /\ ch.born < k /\ Made(s, k) /\ Last(s, k)
  BY <1>1 DEF Live, ChannelType, SocketsOK
<1>3. ASSUME q.client # k
      PROVE  /\ Queue(s, q, k) = <<>> /\ s[k].ui = "backlog" /\ \A x \in X : ~(x.conn > ch.born)
  <2>1. s[k].ui = "backlog"
    BY <1>1, <1>2, <1>3 DEF Live, SocketsOK
  <2>2. s[k].toWeb = <<>>
    BY <1>1, <1>2, <2>1 DEF SocketsOK, Accepted
  <2>3. Queue(s, q, k) = <<>>
    BY Zenon, <1>2, <1>3, <2>2, QueueIs
  <2>4. ASSUME NEW x \in X, x.conn > ch.born PROVE FALSE
    <3>1. Accepted(s, x.conn) /\ Last(s, x.conn) /\ x.conn \in Connections
      BY <1>1, <2>4 DEF FramesOK, FrameOK, Frame
    <3>2. x.conn = k
      BY <1>2, <3>1, LastAlone DEF Made, Accepted
    <3> QED BY <2>1, <3>1, <3>2 DEF Accepted
  <2> QED BY <2>1, <2>3, <2>4
<1>4. ASSUME q.client = k PROVE \A x \in X : x.conn = k /\ x.conn > ch.born
  BY <1>1, <1>2, <1>4, Numbers DEF FramesOK, ChannelType
<1> QED BY <1>2, <1>3, <1>4

(* The fields of a frame.                                                   *)
LEMMA FrameNumbers ==
  ASSUME NEW x \in Frame
  PROVE  x.sequence \in Nat /\ x.sequence # 0 /\ x.sequence \in 1..MaxSequence
         /\ x.conn \in Connections /\ x.conn \in Nat /\ x.conn # 0 /\ x.rect \in Rects
<1>1. x.sequence \in 1..MaxSequence /\ x.conn \in Connections /\ x.rect \in Rects
  BY DEF Frame
<1>2. /\ \A c \in Connections : c \in Nat /\ c # 0
      /\ MaxSequence \in Nat
  BY Numbers
<1> QED BY <1>1, <1>2

(* The fields of the channel that are numbers.                              *)
LEMMA ChannelNumbers ==
  ASSUME NEW ch \in ChannelType
  PROVE  /\ ch.next \in Nat /\ ch.born \in Nat /\ ch.closing \in Nat
         /\ ch.socket \in {0} \cup Connections /\ ch.socket \in Nat
         /\ ch.inFlight \in SUBSET (1..MaxSequence)
<1>1. /\ ch.next \in 1..(MaxSequence + 1) /\ ch.born \in 0..MaxConnections
      /\ ch.closing \in 0..MaxSequence /\ ch.socket \in {0} \cup Connections
      /\ ch.inFlight \in SUBSET (1..MaxSequence)
  BY DEF ChannelType
<1>2. /\ \A c \in Connections : c \in Nat /\ c # 0
      /\ MaxSequence \in Nat /\ MaxConnections \in Nat
  BY Numbers
<1> QED BY <1>1, <1>2

(* Fewer frames are held.                                                   *)
LEMMA ReplyMono ==
  ASSUME NEW ch, NEW s, NEW X, NEW Y \in SUBSET X, NEW r, ReplyOK(ch, s, X, r)
  PROVE  ReplyOK(ch, s, Y, r)
  BY DEF ReplyOK

(* Each reply that is queued belongs to the connection and is in order.     *)
LEMMA QueueReplies ==
  ASSUME NEW ch \in ChannelType, NEW s \in SocketsType, NEW q \in LinkType,
         NEW X \in SUBSET Frame, RepliesOK(ch, s, q, X), NEW k \in Connections,
         NEW i \in 1..Len(Queue(s, q, k))
  PROVE  Queue(s, q, k)[i].conn = k /\ ReplyOK(ch, s, X, Queue(s, q, k)[i])
<1>1. CASE i \in 1..Len(s[k].toWeb) /\ Queue(s, q, k)[i] = s[k].toWeb[i]
  BY <1>1 DEF RepliesOK
<1>2. CASE /\ q.client = k /\ i - Len(s[k].toWeb) \in 1..Len(q.acks)
           /\ Queue(s, q, k)[i] = q.acks[i - Len(s[k].toWeb)]
  <2>1. q.client # 0
    BY <1>2, Numbers
  <2> QED BY <1>2, <2>1 DEF RepliesOK
<1> QED BY <1>1, <1>2, QueuedIs

(* Frames of earlier WebProcesses come and go, and so does what an earlier  *)
(* client waits for.                                                        *)
LEMMA OldOnly ==
  ASSUME NEW ch \in ChannelType, NEW s \in SocketsType, NEW q \in LinkType,
         NEW X \in SUBSET Frame, NEW Y \in SUBSET Frame, NEW g \in Replied, NEW g2 \in Replied,
         Books(ch, s, q, X, g),
         \A x \in X : x.conn > ch.born => x \in Y,
         \A y \in Y : y \in X \/ /\ y.conn <= ch.born /\ Accepted(s, y.conn)
                                 /\ q.client # 0 => y.conn = q.client,
         g2 = g \/ /\ g2 # None => /\ g2.type = "CloseComplete" /\ Accepted(s, g2.conn)
                                   /\ q.client # 0 => g2.conn = q.client
                   /\ Live(ch, s, q) => ~Owed(ch, g) /\ ~Owed(ch, g2)
                   /\ Owed(ch, g2) => g2.sequence = ch.closing /\ ch.closing # 0
  PROVE  Books(ch, s, q, Y, g2)
<1> DEFINE k == ch.socket
<1>1. /\ SocketsOK(ch, s, q) /\ UnreadOK(ch, s) /\ FramesOK(ch, s, q, X) /\ RepliesOK(ch, s, q, X)
      /\ AccountOK(ch, s, q, X) /\ NamesOK(ch, s, q, g)
      /\ ConfirmedLast(ch, s) /\ OnceOK(ch, s, q, X, g)
  BY DEF Books, Safe
<1>2. \A y \in Y : y.conn \in Connections /\ (y.conn <= ch.born <=> ~(y.conn > ch.born))
  <2>1. ch.born \in Nat
    BY Numbers DEF ChannelType
  <2>2. \A y \in Y : y.conn \in Connections
    BY DEF Frame
  <2>3. \A a \in Connections : a <= ch.born <=> ~(a > ch.born)
    BY <2>1, Numbers
  <2> QED BY <2>2, <2>3
<1>3. FramesOK(ch, s, q, Y)
  <2>1. \A y \in Y : FrameOK(ch, s, y) /\ (q.client # 0 => y.conn = q.client)
    BY <1>1, <1>2 DEF FramesOK, FrameOK
  <2>2. \A x, y \in Y : x.conn > ch.born /\ y.conn > ch.born /\ x.sequence = y.sequence => x = y
    BY <1>1, <1>2 DEF FramesOK
  <2> QED BY <2>1, <2>2 DEF FramesOK
<1>4. RepliesOK(ch, s, q, Y)
  <2>1. ASSUME NEW r, ReplyOK(ch, s, X, r) PROVE ReplyOK(ch, s, Y, r)
    BY <1>2, <2>1 DEF ReplyOK
  <2> QED BY <1>1, <2>1 DEF RepliesOK
<1>5. AccountOK(ch, s, q, Y)
  <2> SUFFICES ASSUME Live(ch, s, q) PROVE AccountOK(ch, s, q, Y)
    BY DEF AccountOK
  <2>1. \A n : (\E x \in X : x.conn > ch.born /\ x.sequence = n)
                 => (\E x \in Y : x.conn > ch.born /\ x.sequence = n)
    OBVIOUS
  <2> QED BY <1>1, <2>1 DEF AccountOK
<1>6. NamesOK(ch, s, q, g2)
  BY <1>1 DEF NamesOK
<1>7. OnceOK(ch, s, q, Y, g2)
  <2> SUFFICES ASSUME Live(ch, s, q) PROVE OnceOK(ch, s, q, Y, g2)
    BY DEF OnceOK
  <2>1. ASSUME NEW i \in Nat, Queued(s, q, k, "CloseComplete", i) PROVE Y = {}
    <3>1. X = {}
      BY <1>1, <2>1 DEF OnceOK
    <3>2. q.client = k /\ k # 0 /\ ch.born < k /\ k \in Nat
      <4>1. k \in Connections /\ ch.born < k /\ (q.client # k => Queue(s, q, k) = <<>>)
        BY LiveQueue
      <4>2. Queue(s, q, k) # <<>>
        BY <2>1 DEF Queued
      <4> QED BY Zenon, <4>1, <4>2, Numbers
    <3>3. ch.born \in Nat
      BY Numbers DEF ChannelType
    <3> QED BY <3>1, <3>2, <3>3, Numbers
  <2>2. Owed(ch, g) <=> Owed(ch, g2)
    BY DEF Owed
  <2> QED BY <1>1, <2>1, <2>2 DEF OnceOK
<1> QED BY <1>1, <1>3, <1>4, <1>5, <1>6, <1>7 DEF Books, Safe

(* What waits to be sent is in the queue.                                   *)
LEMMA AcksQueued ==
  ASSUME NEW s \in SocketsType, NEW q \in LinkType, NEW k \in Connections, q.client = k,
         NEW i \in 1..Len(q.acks)
  PROVE  \E j \in Nat : j \in 1..Len(Queue(s, q, k)) /\ Queue(s, q, k)[j] = q.acks[i]
<1> DEFINE a == s[k].toWeb
           b == q.acks
           j == Len(a) + i
<1>1. a \in Seq(Reply) /\ b \in Seq(Reply) /\ Queue(s, q, k) = a \o b
  BY Zenon, SocketTyped, QueueIs DEF LinkType
<1>2. i \in 1..Len(b)
  OBVIOUS
<1> HIDE DEF a, b
<1>3. Len(a) \in Nat /\ Len(b) \in Nat /\ Len(a \o b) = Len(a) + Len(b)
  BY <1>1, Joined
<1>4. j \in Nat /\ j \in 1..Len(a \o b) /\ j - Len(a) = i /\ j \notin 1..Len(a)
  BY <1>2, <1>3
<1>5. (a \o b)[j] = b[i]
  BY <1>1, <1>4, Joined
<1> QED BY <1>1, <1>4, <1>5 DEF b

(* What was confirmed and not sent yet.                                     *)
LEMMA QueuedLast ==
  ASSUME NEW ch, NEW s \in SocketsType, NEW q \in LinkType, NEW g, NamesOK(ch, s, q, g),
         q.client = ch.socket, q.client # 0,
         NEW i \in 1..Len(q.acks), q.acks[i].type = "CloseComplete"
  PROVE  q.acks[i].sequence = ch.closing /\ ch.closing # 0
<1> DEFINE k == ch.socket
<1>1. k \in Connections /\ k # 0
  BY DEF LinkType
<1>2. PICK j \in Nat : j \in 1..Len(Queue(s, q, k)) /\ Queue(s, q, k)[j] = q.acks[i]
  <2> HIDE DEF k
  <2> QED BY <1>1, AcksQueued DEF k
<1> QED BY <1>1, <1>2 DEF NamesOK, Queued

(* A client that is lost is owed nothing.                                   *)
LEMMA LostShrinks ==
  ASSUME NEW ch \in ChannelType, NEW s \in SocketsType, NEW q \in LinkType,
         NEW X \in SUBSET Frame, NEW Y \in SUBSET X, NEW g \in Replied, NEW g2 \in {g, None},
         Books(ch, s, q, X, g), Lost(q)
  PROVE  Books(ch, s, q, Y, g2)
<1>1. SocketsOK(ch, s, q) /\ RepliesOK(ch, s, q, X) /\ NamesOK(ch, s, q, g)
  BY DEF Books, Safe
<1>2. \A i \in 1..Len(q.acks) : ReplyOK(ch, s, Y, q.acks[i])
  BY <1>1, ReplyMono DEF RepliesOK
<1>3. ASSUME NEW i \in 1..Len(q.acks), q.client # 0, q.client = ch.socket,
             q.acks[i].type = "CloseComplete"
      PROVE  q.acks[i].sequence = ch.closing /\ ch.closing # 0
  BY <1>1, <1>3, QueuedLast
<1>4. LetGo(ch, s, q, Y, s, q)
  BY <1>1, <1>2, <1>3 DEF LetGo, Shut, SocketsOK, RepliesOK
<1> QED BY <1>4, LetGoKeeps

(* A reply is put after those that wait.                                    *)
LEMMA JoinedAppend ==
  ASSUME NEW S, NEW a \in Seq(S), NEW b \in Seq(S), NEW e \in S
  PROVE  /\ a \o Append(b, e) = Append(a \o b, e)
         /\ Len(Append(a \o b, e)) = Len(a \o b) + 1 /\ Len(a \o b) \in Nat
         /\ \A i \in 1..Len(a \o b) : Append(a \o b, e)[i] = (a \o b)[i]
         /\ Append(a \o b, e)[Len(a \o b) + 1] = e
<1>1. a \o b \in Seq(S) /\ Len(a \o b) \in Nat
  BY Joined
<1>2. <<e>> \in Seq(S)
  OBVIOUS
<1>3. Append(b, e) = b \o <<e>> /\ Append(a \o b, e) = (a \o b) \o <<e>>
  BY <1>1, AppendIsConcat
<1>4. (a \o b) \o <<e>> = a \o (b \o <<e>>)
  BY <1>2, ConcatAssociative
<1> QED BY <1>1, <1>3, <1>4, AppendProperties

(* A reply that is added to the releases is the last one of the queue.      *)
LEMMA QueueAppend ==
  ASSUME NEW s \in SocketsType, NEW q \in LinkType, NEW q2 \in LinkType, NEW r \in Reply,
         NEW k \in Connections, q.client = k, q2.client = k, q2.acks = Append(q.acks, r)
  PROVE  LET Q == Queue(s, q, k)
             R == Queue(s, q2, k)
         IN  /\ Len(Q) \in Nat /\ Len(R) = Len(Q) + 1 /\ R[Len(Q) + 1] = r
             /\ \A i \in 1..Len(Q) : i \in 1..Len(R) /\ R[i] = Q[i]
             /\ \A i \in 1..Len(R) : i \in 1..Len(Q) \/ i = Len(Q) + 1
<1> DEFINE a == s[k].toWeb
           b == q.acks
<1>1. a \in Seq(Reply) /\ b \in Seq(Reply)
  BY SocketTyped DEF LinkType
<1>2. Queue(s, q, k) = a \o b
  BY Zenon, QueueIs
<1>3. Queue(s, q2, k) = a \o Append(b, r)
  BY Zenon, QueueIs
<1> DEFINE Q == Queue(s, q, k)
           R == Queue(s, q2, k)
<1> HIDE DEF a, b, Q, R
<1>4. /\ a \o Append(b, r) = Append(a \o b, r) /\ Len(a \o b) \in Nat
      /\ Len(Append(a \o b, r)) = Len(a \o b) + 1
      /\ \A i \in 1..Len(a \o b) : Append(a \o b, r)[i] = (a \o b)[i]
      /\ Append(a \o b, r)[Len(a \o b) + 1] = r
  BY <1>1, JoinedAppend
<1>5. /\ Q = a \o b /\ R = Append(a \o b, r)
  BY <1>2, <1>3, <1>4 DEF Q, R
<1>6. Len(Q) \in Nat /\ Len(R) = Len(Q) + 1 /\ R[Len(Q) + 1] = r /\ \A i \in 1..Len(Q) : R[i] = Q[i]
  BY <1>4, <1>5
<1>7. /\ \A i \in 1..Len(Q) : i \in 1..Len(R)
      /\ \A i \in 1..Len(R) : i \in 1..Len(Q) \/ i = Len(Q) + 1
  BY <1>6
<1> QED BY <1>6, <1>7 DEF Q, R

(* VideoReleaseQueue::add appends a reply or finds it there already.        *)
LEMMA Adds ==
  ASSUME NEW acks \in Seq(Reply), NEW r \in Reply
  PROVE  /\ AddRelease(acks, r) \in Seq(Reply)
         /\ \/ AddRelease(acks, r) = Append(acks, r)
            \/ /\ AddRelease(acks, r) = acks
               /\ \E i \in 1..Len(acks) : acks[i].type = r.type /\ acks[i].sequence = r.sequence
<1>1. ASSUME NEW i \in 1..Len(acks), [acks[i] EXCEPT !.conn = r.conn] = r
      PROVE  acks[i].type = r.type /\ acks[i].sequence = r.sequence
  <2>1. acks[i] \in Reply
    BY ElementOfSeq
  <2> QED BY Zenon, <1>1, <2>1 DEF Reply
<1> QED BY <1>1, AppendProperties DEF AddRelease

(* The release of a frame that is not held any more waits to be sent.       *)
LEMMA SayReleaseNew ==
  ASSUME NEW ch \in ChannelType, NEW s \in SocketsType, NEW q \in LinkType, NEW q2 \in LinkType,
         NEW X \in SUBSET Frame, NEW g \in Replied, NEW x \in X, NEW r \in Reply,
         ChannelOK(ch), Books(ch, s, q, X, g), r = Release(x),
         q.client # 0, q2.client = q.client, q2.dropping = q.dropping, q2.gone = q.gone,
         q2.acks = Append(q.acks, r)
  PROVE  Books(ch, s, q2, X \ {x}, g)
<1> DEFINE k == ch.socket
           Y == X \ {x}
<1>1. /\ SocketsOK(ch, s, q) /\ UnreadOK(ch, s) /\ FramesOK(ch, s, q, X) /\ RepliesOK(ch, s, q, X)
      /\ AccountOK(ch, s, q, X) /\ NamesOK(ch, s, q, g)
      /\ ConfirmedLast(ch, s) /\ OnceOK(ch, s, q, X, g)
  BY DEF Books, Safe
<1>2. r.type = "Release" /\ r.sequence = x.sequence /\ r.conn = x.conn /\ x.conn = q.client
  BY <1>1 DEF Release, FramesOK
<1>3. q.acks \in Seq(Reply) /\ Len(q.acks) \in Nat
  BY LenProperties DEF LinkType
<1>4. /\ Len(q2.acks) = Len(q.acks) + 1 /\ q2.acks[Len(q.acks) + 1] = r
      /\ \A i \in 1..Len(q.acks) : q2.acks[i] = q.acks[i]
  BY <1>3, AppendProperties
<1>5. x.sequence \in Nat /\ x.conn \in Nat /\ ch.next \in Nat /\ ch.born \in Nat
  BY FrameNumbers, ChannelNumbers
<1>6. ReplyOK(ch, s, Y, r)
  <2> SUFFICES ASSUME x.conn > ch.born
               PROVE  /\ x.sequence < ch.next /\ Made(s, x.conn)
                      /\ \A y \in Y : y.conn > ch.born => y.sequence # x.sequence
                      /\ \A d \in Connections, i \in Nat :
                           d > ch.born /\ Unread(s, d, "Frame", i)
                             => s[d].toUI[i].sequence # x.sequence
    BY <1>2, FrameNumbers DEF ReplyOK
  <2>1. FrameOK(ch, s, x) /\ Made(s, x.conn)
    BY <1>1 DEF FramesOK, FrameOK, Made, Accepted
  <2>2. x.sequence \in 1..(ch.next - 1)
    BY <2>1 DEF FrameOK, ChannelOK
  <2>3. x.sequence < ch.next
    BY <1>5, <2>2
  <2>4. \A y \in Y : y.conn > ch.born => y.sequence # x.sequence
    BY <1>1 DEF FramesOK
  <2>5. \A d \in Connections, i \in Nat : d > ch.born /\ Unread(s, d, "Frame", i)
           => s[d].toUI[i].sequence # x.sequence
    BY <1>5, <2>1 DEF FrameOK
  <2> QED BY <2>1, <2>3, <2>4, <2>5
<1>7. Safe(ch, s, q2, Y)
  <2>1. SocketsOK(ch, s, q2)
    BY <1>1 DEF SocketsOK
  <2>2. FramesOK(ch, s, q2, Y)
    BY <1>1 DEF FramesOK
  <2>3. \A d \in Connections : \A i \in 1..Len(s[d].toWeb) :
          s[d].toWeb[i].conn = d /\ ReplyOK(ch, s, Y, s[d].toWeb[i])
    BY <1>1, ReplyMono DEF RepliesOK
  <2>4. \A i \in 1..Len(q2.acks) : q2.acks[i].conn = q2.client /\ ReplyOK(ch, s, Y, q2.acks[i])
    <3> TAKE i \in 1..Len(q2.acks)
    <3>1. CASE i \in 1..Len(q.acks)
      BY <1>1, <1>4, <3>1, ReplyMono DEF RepliesOK
    <3>2. CASE i = Len(q.acks) + 1
      BY <1>2, <1>4, <1>6, <3>2
    <3> QED BY <1>3, <1>4, <3>1, <3>2
  <2> QED BY Zenon, <1>1, <2>1, <2>2, <2>3, <2>4 DEF Safe, RepliesOK
<1>8. Live(ch, s, q2) <=> Live(ch, s, q)
  BY DEF Live
<1>9. ASSUME q.client # k PROVE Queue(s, q2, k) = Queue(s, q, k)
  BY Zenon, <1>9 DEF Queue
<1>10. ASSUME q.client = k
       PROVE  /\ k \in Connections /\ Len(Queue(s, q, k)) \in Nat
              /\ Len(Queue(s, q2, k)) = Len(Queue(s, q, k)) + 1
              /\ Queue(s, q2, k)[Len(Queue(s, q, k)) + 1] = r
              /\ \A i \in 1..Len(Queue(s, q, k)) :
                   i \in 1..Len(Queue(s, q2, k)) /\ Queue(s, q2, k)[i] = Queue(s, q, k)[i]
              /\ \A i \in 1..Len(Queue(s, q2, k)) :
                   i \in 1..Len(Queue(s, q, k)) \/ i = Len(Queue(s, q, k)) + 1
  <2>1. k \in Connections /\ q2.client = k
    BY <1>10 DEF LinkType
  <2> HIDE DEF k
  <2> QED BY <1>10, <2>1, QueueAppend
<1>11. AccountOK(ch, s, q2, Y)
  <2> SUFFICES ASSUME Live(ch, s, q)
               PROVE  /\ \A n \in ch.inFlight :
                           \/ \E i \in Nat : Unread(s, k, "Frame", i) /\ s[k].toUI[i].sequence = n
                           \/ \E y \in Y : y.conn > ch.born /\ y.sequence = n
                           \/ \E i \in Nat : /\ Queued(s, q2, k, "Release", i)
                                            /\ Queue(s, q2, k)[i].sequence = n
                      /\ \A i \in Nat : Queued(s, q2, k, "Release", i) =>
                           /\ Queue(s, q2, k)[i].sequence \in ch.inFlight
                           /\ \A j \in Nat :
                                (/\ Queued(s, q2, k, "Release", j)
                                 /\ Queue(s, q2, k)[i].sequence = Queue(s, q2, k)[j].sequence)
                                   => i = j
    BY <1>8 DEF AccountOK
  <2>1. CASE q.client # k
    <3>1. \A y \in X : ~(y.conn > ch.born)
      BY <2>1, LiveQueue
    <3>2. \A i \in Nat : Queued(s, q2, k, "Release", i) <=> Queued(s, q, k, "Release", i)
      BY <1>9, <2>1 DEF Queued
    <3> QED BY <1>1, <1>9, <2>1, <3>1, <3>2 DEF AccountOK
  <2>2. CASE q.client = k
    <3> DEFINE Q == Queue(s, q, k)
               R == Queue(s, q2, k)
    <3>1. x.conn > ch.born /\ x.sequence \in ch.inFlight /\ k \in Connections
      <4>1. x.conn > ch.born /\ k \in Connections
        BY <2>2, LiveQueue
      <4> QED BY <1>1, <4>1 DEF FramesOK, FrameOK
    <3>2. \A i \in 1..Len(Q) : Q[i].type = "Release" => Q[i].sequence # x.sequence
      <4> TAKE i \in 1..Len(Q)
      <4>1. Q[i].conn = k /\ ReplyOK(ch, s, X, Q[i])
        BY <1>1, <3>1, QueueReplies
      <4>2. k > ch.born
        BY <2>2, <3>1, <1>2
      <4> QED BY <3>1, <4>1, <4>2 DEF ReplyOK
    <3>3. /\ Len(Q) \in Nat /\ Len(R) = Len(Q) + 1 /\ R[Len(Q) + 1] = r
          /\ \A i \in 1..Len(Q) : i \in 1..Len(R) /\ R[i] = Q[i]
          /\ \A i \in 1..Len(R) : i \in 1..Len(Q) \/ i = Len(Q) + 1
      BY <1>10, <2>2
    <3>4. \A i \in Nat : Queued(s, q, k, "Release", i) <=> i \in 1..Len(Q) /\ Q[i].type = "Release"
      BY DEF Queued
    <3>5. \A i \in Nat : Queued(s, q2, k, "Release", i) <=> i \in 1..Len(R) /\ R[i].type = "Release"
      BY DEF Queued
    <3>6. \A i \in Nat : i \in 1..Len(Q) /\ Q[i].type = "Release" => Q[i].sequence \in ch.inFlight
            /\ \A j \in Nat : j \in 1..Len(Q) /\ Q[j].type = "Release" /\ Q[i].sequence = Q[j].sequence
                                => i = j
      BY <1>1, <3>4 DEF AccountOK
    <3>7. \A n \in ch.inFlight :
             \/ \E i \in Nat : Unread(s, k, "Frame", i) /\ s[k].toUI[i].sequence = n
             \/ \E y \in X : y.conn > ch.born /\ y.sequence = n
             \/ \E i \in Nat : i \in 1..Len(Q) /\ Q[i].type = "Release" /\ Q[i].sequence = n
      BY <1>1, <3>4 DEF AccountOK
    <3> HIDE DEF Q, R
    <3>8. \A i \in Nat : i \in 1..Len(R) /\ R[i].type = "Release" =>
             /\ R[i].sequence \in ch.inFlight
             /\ \A j \in Nat : j \in 1..Len(R) /\ R[j].type = "Release"
                               /\ R[i].sequence = R[j].sequence => i = j
      BY <1>2, <3>1, <3>2, <3>3, <3>6
    <3>9. ASSUME NEW n \in ch.inFlight
          PROVE  \/ \E i \in Nat : Unread(s, k, "Frame", i) /\ s[k].toUI[i].sequence = n
                 \/ \E y \in Y : y.conn > ch.born /\ y.sequence = n
                 \/ \E i \in Nat : i \in 1..Len(R) /\ R[i].type = "Release" /\ R[i].sequence = n
      <4>1. CASE n = x.sequence
        <5>1. Len(Q) + 1 \in Nat /\ Len(Q) + 1 \in 1..Len(R)
          BY <3>3
        <5> QED BY <1>2, <3>3, <4>1, <5>1
      <4>2. CASE n # x.sequence
        BY <3>3, <3>7, <4>2
      <4> QED BY <4>1, <4>2
    <3> QED BY <3>5, <3>8, <3>9 DEF R
  <2> QED BY <2>1, <2>2
<1>12. NamesOK(ch, s, q2, g)
  <2>1. ASSUME NEW i \in Nat, k # 0, Queued(s, q2, k, "CloseComplete", i)
        PROVE  Queue(s, q2, k)[i].sequence = ch.closing /\ ch.closing # 0
    <3>1. Queued(s, q, k, "CloseComplete", i) /\ Queue(s, q2, k)[i] = Queue(s, q, k)[i]
      BY <1>2, <1>9, <1>10, <2>1 DEF Queued
    <3> QED BY <1>1, <2>1, <3>1 DEF NamesOK
  <2> QED BY <1>1, <2>1 DEF NamesOK
<1>13. OnceOK(ch, s, q2, Y, g)
  <2> SUFFICES ASSUME Live(ch, s, q) PROVE OnceOK(ch, s, q2, Y, g)
    BY <1>8 DEF OnceOK
  <2>1. \A i \in Nat : ~Queued(s, q, k, "CloseComplete", i)
    BY <1>1 DEF OnceOK
  <2>2. \A i \in Nat : ~Queued(s, q2, k, "CloseComplete", i)
    BY <1>2, <1>9, <1>10, <2>1 DEF Queued
  <2>3. ~Confirmed(ch, s, q) /\ ~Confirmed(ch, s, q2)
    BY <2>1, <2>2 DEF Confirmed
  <2> QED BY <1>1, <2>2, <2>3 DEF OnceOK
<1> QED BY <1>1, <1>7, <1>11, <1>12, <1>13 DEF Books

(* A confirmation that is owed waits to be sent.                            *)
LEMMA SayDoneNew ==
  ASSUME NEW ch \in ChannelType, NEW s \in SocketsType, NEW q \in LinkType, NEW q2 \in LinkType,
         NEW X \in SUBSET Frame, NEW r \in Reply, Books(ch, s, q, X, r),
         q.client = ch.socket => X = {},
         q.client # 0, q2.client = q.client, q2.dropping = q.dropping, q2.gone = q.gone,
         q2.acks = Append(q.acks, r)
  PROVE  Books(ch, s, q2, X, None)
<1> DEFINE k == ch.socket
<1>1. /\ SocketsOK(ch, s, q) /\ UnreadOK(ch, s) /\ FramesOK(ch, s, q, X) /\ RepliesOK(ch, s, q, X)
      /\ AccountOK(ch, s, q, X) /\ NamesOK(ch, s, q, r)
      /\ ConfirmedLast(ch, s) /\ OnceOK(ch, s, q, X, r)
  BY DEF Books, Safe
<1>2. r.type = "CloseComplete" /\ r.conn = q.client /\ r # None
  BY <1>1, NullAssumption DEF NamesOK
<1>3. q.acks \in Seq(Reply) /\ Len(q.acks) \in Nat
  BY LenProperties DEF LinkType
<1>4. /\ Len(q2.acks) = Len(q.acks) + 1 /\ q2.acks[Len(q.acks) + 1] = r
      /\ \A i \in 1..Len(q.acks) : q2.acks[i] = q.acks[i]
  BY <1>3, AppendProperties
<1>5. Safe(ch, s, q2, X)
  <2>1. SocketsOK(ch, s, q2) /\ FramesOK(ch, s, q2, X)
    BY <1>1 DEF SocketsOK, FramesOK
  <2>2. \A i \in 1..Len(q2.acks) : q2.acks[i].conn = q2.client /\ ReplyOK(ch, s, X, q2.acks[i])
    <3> TAKE i \in 1..Len(q2.acks)
    <3>1. CASE i \in 1..Len(q.acks)
      BY <1>1, <1>4, <3>1 DEF RepliesOK
    <3>2. CASE i = Len(q.acks) + 1
      BY <1>2, <1>4, <3>2 DEF ReplyOK
    <3> QED BY <1>3, <1>4, <3>1, <3>2
  <2> QED BY <1>1, <2>1, <2>2 DEF Safe, RepliesOK
<1>6. Live(ch, s, q2) <=> Live(ch, s, q)
  BY DEF Live
<1>7. ASSUME q.client # k PROVE Queue(s, q2, k) = Queue(s, q, k)
  BY Zenon, <1>7 DEF Queue
<1>8. ASSUME q.client = k
      PROVE  /\ k \in Connections /\ Len(Queue(s, q, k)) \in Nat
             /\ Len(Queue(s, q2, k)) = Len(Queue(s, q, k)) + 1
             /\ Queue(s, q2, k)[Len(Queue(s, q, k)) + 1] = r
             /\ \A i \in 1..Len(Queue(s, q, k)) :
                  i \in 1..Len(Queue(s, q2, k)) /\ Queue(s, q2, k)[i] = Queue(s, q, k)[i]
             /\ \A i \in 1..Len(Queue(s, q2, k)) :
                  i \in 1..Len(Queue(s, q, k)) \/ i = Len(Queue(s, q, k)) + 1
  <2>1. k \in Connections /\ q2.client = k
    BY <1>8 DEF LinkType
  <2> HIDE DEF k
  <2> QED BY <1>8, <2>1, QueueAppend
<1>9. \A i \in Nat : Queued(s, q2, k, "Release", i)
        <=> Queued(s, q, k, "Release", i) /\ Queue(s, q2, k)[i] = Queue(s, q, k)[i]
  BY <1>2, <1>7, <1>8 DEF Queued
<1>10. \A i \in Nat : Queued(s, q, k, "Release", i) => Queue(s, q2, k)[i] = Queue(s, q, k)[i]
  BY <1>7, <1>8 DEF Queued
<1>11. AccountOK(ch, s, q2, X)
  BY <1>1, <1>6, <1>9, <1>10 DEF AccountOK
<1>12. NamesOK(ch, s, q2, None)
  <2>1. ASSUME NEW i \in Nat, k # 0, Queued(s, q2, k, "CloseComplete", i)
        PROVE  Queue(s, q2, k)[i].sequence = ch.closing /\ ch.closing # 0
    <3>1. CASE Queued(s, q, k, "CloseComplete", i) /\ Queue(s, q2, k)[i] = Queue(s, q, k)[i]
      BY <1>1, <2>1, <3>1 DEF NamesOK
    <3>2. CASE q.client = k /\ Queue(s, q2, k)[i] = r
      BY <1>1, <1>2, <2>1, <3>2 DEF NamesOK, Owed
    <3> QED BY <1>7, <1>8, <2>1, <3>1, <3>2 DEF Queued
  <2> QED BY <1>1, <2>1 DEF NamesOK, Owed
<1>13. OnceOK(ch, s, q2, X, None)
  <2> SUFFICES ASSUME Live(ch, s, q) PROVE OnceOK(ch, s, q2, X, None)
    BY <1>6 DEF OnceOK
  <2>1. ~Owed(ch, None)
    BY DEF Owed
  <2>2. CASE q.client # k
    <3>1. ~Owed(ch, r)
      BY <1>2, <2>2 DEF Owed
    <3>2. \A i \in Nat : Queued(s, q2, k, "CloseComplete", i) <=> Queued(s, q, k, "CloseComplete", i)
      BY <1>7, <2>2 DEF Queued
    <3>3. Confirmed(ch, s, q2) <=> Confirmed(ch, s, q)
      BY <3>2 DEF Confirmed
    <3> QED BY <1>1, <1>7, <2>1, <2>2, <3>1, <3>2, <3>3 DEF OnceOK
  <2>3. CASE q.client = k
    <3>1. Owed(ch, r)
      BY <1>2, <2>3 DEF Owed
    <3>2. /\ ~InControl(ch) /\ ~Asked(ch, s) /\ ~Confirmed(ch, s, q)
          /\ \A i \in Nat : ~Unread(s, k, "Frame", i)
      BY <1>1, <3>1 DEF OnceOK
    <3>3. \A i \in Nat : Queued(s, q2, k, "CloseComplete", i) => i = Len(Queue(s, q2, k))
      BY <1>8, <2>3, <3>2 DEF Queued, Confirmed
    <3>4. Len(Queue(s, q2, k)) \in Nat /\ Queued(s, q2, k, "CloseComplete", Len(Queue(s, q2, k)))
      BY <1>2, <1>8, <2>3 DEF Queued
    <3>5. Confirmed(ch, s, q2)
      BY <3>4 DEF Confirmed
    <3>6. \A i, j \in Nat : Unread(s, k, "Hide", i) /\ Unread(s, k, "Hide", j) => i = j
      BY <1>1 DEF OnceOK
    <3> QED BY <2>1, <2>3, <3>2, <3>3, <3>5, <3>6 DEF OnceOK
  <2> QED BY <2>2, <2>3
<1> QED BY <1>1, <1>5, <1>11, <1>12, <1>13 DEF Books

(* A release is said, or was said already to a client of old.                *)
LEMMA SayRelease ==
  ASSUME NEW ch \in ChannelType, NEW s \in SocketsType, NEW q \in LinkType, NEW q2 \in LinkType,
         NEW X \in SUBSET Frame, NEW g \in Replied, NEW x \in X,
         ChannelOK(ch), Books(ch, s, q, X, g), Release(x) \in Reply,
         q.client # 0, q2.client = q.client, q2.dropping = q.dropping, q2.gone = q.gone,
         q2.acks = AddRelease(q.acks, Release(x))
  PROVE  Books(ch, s, q2, X \ {x}, g)
<1> DEFINE r == Release(x)
<1>1. q.acks \in Seq(Reply)
  BY DEF LinkType
<1>2. CASE q2.acks = Append(q.acks, r)
  <2> HIDE DEF r
  <2>1. r \in Reply /\ r = Release(x)
    BY DEF r
  <2> QED BY <1>2, <2>1, SayReleaseNew
<1>3. CASE q2.acks = q.acks /\ \E i \in 1..Len(q.acks) : /\ q.acks[i].type = r.type
                                                      /\ q.acks[i].sequence = r.sequence
  <2>1. q2 = q
    BY <1>3 DEF LinkType
  <2>2. FramesOK(ch, s, q, X) /\ RepliesOK(ch, s, q, X)
    BY DEF Books, Safe
  <2>3. r.type = "Release" /\ r.sequence = x.sequence /\ x.conn = q.client
    BY <2>2 DEF Release, FramesOK
  <2>4. PICK i \in 1..Len(q.acks) : q.acks[i].type = r.type /\ q.acks[i].sequence = r.sequence
    BY <1>3
  <2>5. q.acks[i].conn = q.client /\ ReplyOK(ch, s, X, q.acks[i])
    BY <2>2 DEF RepliesOK
  <2>6. ~(x.conn > ch.born)
    BY <2>3, <2>4, <2>5 DEF ReplyOK
  <2>7. \A y \in X \ {x} : y \in X
    OBVIOUS
  <2>8. \A y \in X : y.conn > ch.born => y \in X \ {x}
    BY <2>6
  <2>9. Books(ch, s, q, X \ {x}, g)
    BY <2>7, <2>8, OldOnly
  <2> QED BY <2>1, <2>9
<1> QED BY Zenon, <1>1, <1>2, <1>3, Adds

(* Paying the debt of a confirmation, once no frame is held, is in order.   *)
LEMMA SayDone ==
  ASSUME NEW ch \in ChannelType, NEW s \in SocketsType, NEW q \in LinkType, NEW q2 \in LinkType,
         NEW X \in SUBSET Frame, NEW r \in Reply, Books(ch, s, q, X, r),
         q.client = ch.socket => X = {},
         q.client # 0, q2.client = q.client, q2.dropping = q.dropping, q2.gone = q.gone,
         q2.acks = AddRelease(q.acks, r)
  PROVE  Books(ch, s, q2, X, None)
<1>1. q.acks \in Seq(Reply) /\ r \in Replied /\ None \in Replied
  BY DEF LinkType, Replied
<1>2. CASE q2.acks = Append(q.acks, r)
  BY <1>2, SayDoneNew
<1>3. CASE q2.acks = q.acks /\ \E i \in 1..Len(q.acks) : /\ q.acks[i].type = r.type
                                                      /\ q.acks[i].sequence = r.sequence
  <2>1. q2 = q
    BY <1>3 DEF LinkType
  <2>2. NamesOK(ch, s, q, r) /\ OnceOK(ch, s, q, X, r)
    BY DEF Books
  <2>3. r.type = "CloseComplete" /\ r.conn = q.client /\ r # None
    BY <2>2, NullAssumption DEF NamesOK
  <2>4. ASSUME Live(ch, s, q) PROVE ~Owed(ch, r)
    <3>1. SUFFICES ASSUME q.client = ch.socket PROVE Confirmed(ch, s, q)
      BY <2>2, <2>3, <2>4 DEF OnceOK, Owed
    <3>2. PICK i \in 1..Len(q.acks) : q.acks[i].type = "CloseComplete"
      BY <1>3, <2>3
    <3>3. ch.socket \in Connections
      BY <3>1 DEF LinkType
    <3>4. \E j \in Nat : /\ j \in 1..Len(Queue(s, q, ch.socket))
                         /\ Queue(s, q, ch.socket)[j] = q.acks[i]
      BY <3>1, <3>3, AcksQueued
    <3> QED BY <3>2, <3>4 DEF Confirmed, Queued
  <2>5. ~Owed(ch, None)
    BY DEF Owed
  <2>6. Books(ch, s, q, X, None)
    BY <1>1, <2>4, <2>5, OldOnly
  <2> QED BY <2>1, <2>6
<1> QED BY Zenon, <1>1, <1>2, <1>3, Adds

(* Concatenation is associative.                                            *)
LEMMA JoinedThrice ==
  ASSUME NEW S, NEW a \in Seq(S), NEW b \in Seq(S), NEW c \in Seq(S)
  PROVE  (a \o b) \o c = a \o (b \o c)
  BY ConcatAssociative

(* So is that of replies.                                                    *)
LEMMA RepliesJoined ==
  \A x, y, z \in Seq(Reply) : (x \o y) \o z = x \o (y \o z)
  BY JoinedThrice

(* Some of the replies that wait are sent.                                  *)
LEMMA FlushKeeps ==
  ASSUME NEW ch \in ChannelType, NEW s \in SocketsType, NEW q \in LinkType,
         NEW s2 \in SocketsType, NEW q2 \in LinkType, NEW X \in SUBSET Frame, NEW g,
         NEW c \in Connections, NEW A \in Seq(Reply), NEW B \in Seq(Reply),
         Books(ch, s, q, X, g),
         q.client = c, ~q.dropping, q.gone = "no", s[c].web, q.acks = A \o B,
         q2.client = c, q2.dropping = q.dropping, q2.gone = q.gone, q2.acks = B,
         s2[c].toWeb = s[c].toWeb \o A,
         s2[c].web = s[c].web, s2[c].ui = s[c].ui, s2[c].toUI = s[c].toUI,
         \A d \in Connections : d # c => s2[d] = s[d]
  PROVE  Books(ch, s2, q2, X, g)
<1> DEFINE k == ch.socket
<1>1. /\ SocketsOK(ch, s, q) /\ UnreadOK(ch, s) /\ FramesOK(ch, s, q, X) /\ RepliesOK(ch, s, q, X)
      /\ AccountOK(ch, s, q, X) /\ NamesOK(ch, s, q, g)
      /\ ConfirmedLast(ch, s) /\ OnceOK(ch, s, q, X, g)
  BY DEF Books, Safe
<1>2. c = k /\ k # 0 /\ s[k].ui = "open"
  BY <1>1, Numbers DEF SocketsOK
<1>3. \A d \in Connections : s2[d].web = s[d].web /\ s2[d].ui = s[d].ui /\ s2[d].toUI = s[d].toUI
  BY Zenon
<1>4. \A d \in Connections : /\ Made(s2, d) <=> Made(s, d)
                             /\ Accepted(s2, d) <=> Accepted(s, d)
                             /\ Last(s2, d) <=> Last(s, d)
  BY Zenon, <1>3 DEF Made, Accepted, Last
<1>5. \A d \in Connections, type \in {"Frame", "Hide"}, i \in Nat :
         Unread(s2, d, type, i) <=> Unread(s, d, type, i)
  BY <1>3 DEF Unread
<1>6. s[c].toWeb \in Seq(Reply) /\ Len(s[c].toWeb) \in Nat /\ Len(A) \in Nat /\ Len(B) \in Nat
  BY SocketTyped, LenProperties
<1>7. Queue(s2, q2, k) = Queue(s, q, k)
  <2>1. Queue(s, q, c) = s[c].toWeb \o q.acks
    BY Zenon, QueueIs
  <2>2. Queue(s2, q2, c) = s2[c].toWeb \o q2.acks
    BY Zenon, QueueIs
  <2>3. (s[c].toWeb \o A) \o B = s[c].toWeb \o (A \o B)
    BY Zenon, <1>6, RepliesJoined
  <2>4. Queue(s, q, c) = Queue(s2, q2, c)
    BY <2>1, <2>2, <2>3
  <2> QED BY <1>2, <2>4
<1>8. SocketsOK(ch, s2, q2)
  <2>1. \A d \in Connections : s2[d].toWeb # <<>> => s2[d].web /\ Accepted(s2, d)
    BY <1>1, <1>2, <1>3, <1>4 DEF SocketsOK, Accepted
  <2>2. \A d \in Connections :
       /\ s2[d].web <=> d = ch.socket
       /\ s2[d].toUI # <<>> => s2[d].ui \in {"backlog", "open"}
       /\ s2[d].ui = "unused" => Last(s2, d)
       /\ d <= ch.born => Made(s2, d)
    BY <1>1, <1>3, <1>4 DEF SocketsOK
  <2>3. \A d \in Connections : \A i \in 1..Len(s2[d].toUI) :
          s2[d].toUI[i].type # "Rect" => s2[d].toUI[i].sequence # 0
    <3> TAKE d \in Connections
    <3>1. s2[d].toUI = s[d].toUI
      BY <1>3
    <3> QED BY <1>1, <3>1 DEF SocketsOK
  <2>4. ch.born < k /\ Made(s2, k) /\ Last(s2, k)
    BY <1>1, <1>2, <1>4 DEF SocketsOK
  <2>5. \A d \in Connections : s2[d].ui = "open" <=> d = q2.client
    BY <1>1, <1>3 DEF SocketsOK
  <2> QED BY <2>1, <2>2, <2>3, <2>4, <2>5 DEF SocketsOK
<1>9. UnreadOK(ch, s2)
  <2> SUFFICES ASSUME NEW d \in Connections, d > ch.born,
                      NEW i \in 1..Len(s2[d].toUI), s2[d].toUI[i].type = "Frame"
               PROVE  /\ s2[d].toUI[i].sequence \in ch.inFlight /\ Last(s2, d)
                      /\ \A j \in 1..Len(s2[d].toUI) : j < i =>
                           /\ s2[d].toUI[j].type # "Hide"
                           /\ s2[d].toUI[j].type = "Frame" =>
                                s2[d].toUI[j].sequence < s2[d].toUI[i].sequence
    BY DEF UnreadOK
  <2>1. s2[d].toUI = s[d].toUI
    BY <1>3
  <2> QED BY <1>1, <1>4, <2>1 DEF UnreadOK
<1>10. FramesOK(ch, s2, q2, X)
  <2>1. ASSUME NEW x \in X PROVE FrameOK(ch, s2, x)
    <3>1. FrameOK(ch, s, x) /\ x.conn \in Connections
      BY <1>1 DEF FramesOK, Frame
    <3> QED BY Zenon, <1>3, <1>4, <1>5, <3>1 DEF FrameOK
  <2> QED BY <1>1, <2>1 DEF FramesOK
<1>11. RepliesOK(ch, s2, q2, X)
  <2>1. ASSUME NEW r, ReplyOK(ch, s, X, r) PROVE ReplyOK(ch, s2, X, r)
    BY Zenon, <1>3, <1>4, <1>5, <2>1 DEF ReplyOK
  <2>2. \A i \in 1..Len(A \o B) : (A \o B)[i].conn = c /\ ReplyOK(ch, s, X, (A \o B)[i])
    BY <1>1, Numbers DEF RepliesOK
  <2>3. \A i \in 1..Len(A) : A[i].conn = c /\ ReplyOK(ch, s, X, A[i])
    BY <2>2, Joined
  <2>4. \A i \in 1..Len(B) : B[i].conn = c /\ ReplyOK(ch, s, X, B[i])
    <3> TAKE i \in 1..Len(B)
    <3>1. Len(A \o B) = Len(A) + Len(B)
      BY Joined
    <3>2. Len(A) + i \in 1..Len(A \o B) /\ Len(A) + i \notin 1..Len(A) /\ (Len(A) + i) - Len(A) = i
      BY <1>6, <3>1
    <3>3. (A \o B)[Len(A) + i] = B[i]
      BY <3>2, Joined
    <3> QED BY <2>2, <3>2, <3>3
  <2>5. \A i \in 1..Len(s2[c].toWeb) : s2[c].toWeb[i].conn = c /\ ReplyOK(ch, s, X, s2[c].toWeb[i])
    <3> TAKE i \in 1..Len(s2[c].toWeb)
    <3> DEFINE a == s[c].toWeb
    <3>1. a \in Seq(Reply) /\ i \in 1..Len(a \o A) /\ s2[c].toWeb[i] = (a \o A)[i]
      BY <1>6
    <3>2. \A j \in 1..Len(a) : a[j].conn = c /\ ReplyOK(ch, s, X, a[j])
      BY <1>1 DEF RepliesOK
    <3> HIDE DEF a
    <3>3. \/ i \in 1..Len(a) /\ (a \o A)[i] = a[i]
          \/ i - Len(a) \in 1..Len(A) /\ (a \o A)[i] = A[i - Len(a)]
      BY <3>1, Joined
    <3> QED BY <2>3, <3>1, <3>2, <3>3
  <2>6. \A d \in Connections : \A i \in 1..Len(s2[d].toWeb) :
          s2[d].toWeb[i].conn = d /\ ReplyOK(ch, s2, X, s2[d].toWeb[i])
    <3> TAKE d \in Connections
    <3>1. CASE d = c
      BY Zenon, <2>1, <2>5, <3>1
    <3>2. CASE d # c
      <4>1. s2[d] = s[d]
        BY <3>2
      <4> QED BY <1>1, <2>1, <4>1 DEF RepliesOK
    <3> QED BY <3>1, <3>2
  <2>7. \A i \in 1..Len(q2.acks) : q2.acks[i].conn = c /\ ReplyOK(ch, s2, X, q2.acks[i])
    BY <2>1, <2>4
  <2> QED BY <1>2, <2>6, <2>7 DEF RepliesOK
<1>12. Live(ch, s, q) /\ Live(ch, s2, q2)
  BY <1>2, <1>3 DEF Live
<1>13. \A type \in {"Release", "CloseComplete"}, i \in Nat :
         Queued(s2, q2, k, type, i) <=> Queued(s, q, k, type, i)
  BY <1>7 DEF Queued
<1>14. AccountOK(ch, s2, q2, X)
  <2>1. \A n \in ch.inFlight :
             \/ \E i \in Nat : Unread(s, k, "Frame", i) /\ s[k].toUI[i].sequence = n
             \/ \E x \in X : x.conn > ch.born /\ x.sequence = n
             \/ \E i \in Nat : Queued(s, q, k, "Release", i) /\ Queue(s, q, k)[i].sequence = n
    BY Zenon, <1>1, <1>12 DEF AccountOK
  <2>2. \A i \in Nat : Queued(s, q, k, "Release", i) =>
             /\ Queue(s, q, k)[i].sequence \in ch.inFlight
             /\ \A j \in Nat :
                  (/\ Queued(s, q, k, "Release", j)
                   /\ Queue(s, q, k)[i].sequence = Queue(s, q, k)[j].sequence) => i = j
    BY <1>1, <1>12 DEF AccountOK
  <2>3. /\ s2[k].toUI = s[k].toUI
        /\ \A i \in Nat : Unread(s2, k, "Frame", i) <=> Unread(s, k, "Frame", i)
        /\ \A i \in Nat : Queued(s2, q2, k, "Release", i) <=> Queued(s, q, k, "Release", i)
    BY <1>2, <1>3, <1>5, <1>13
  <2> HIDE DEF k
  <2>4. \A n \in ch.inFlight :
             \/ \E i \in Nat : Unread(s2, k, "Frame", i) /\ s2[k].toUI[i].sequence = n
             \/ \E x \in X : x.conn > ch.born /\ x.sequence = n
             \/ \E i \in Nat : Queued(s2, q2, k, "Release", i) /\ Queue(s2, q2, k)[i].sequence = n
    BY Zenon, <1>7, <2>1, <2>3
  <2>5. \A i \in Nat : Queued(s2, q2, k, "Release", i) =>
             /\ Queue(s2, q2, k)[i].sequence \in ch.inFlight
             /\ \A j \in Nat :
                  (/\ Queued(s2, q2, k, "Release", j)
                   /\ Queue(s2, q2, k)[i].sequence = Queue(s2, q2, k)[j].sequence) => i = j
    BY <1>7, <2>2, <2>3
  <2> QED BY <2>4, <2>5 DEF AccountOK, k
<1>15. Asked(ch, s2) <=> Asked(ch, s)
  BY <1>2, <1>5 DEF Asked
<1>16. Confirmed(ch, s2, q2) <=> Confirmed(ch, s, q)
  BY <1>13 DEF Confirmed
<1>17. NamesOK(ch, s2, q2, g)
  <2>1. g # None => /\ g.type = "CloseComplete" /\ Accepted(s2, g.conn)
                    /\ q2.client # 0 => g.conn = q2.client
    <3>1. g # None => g.conn = c
      BY <1>1, Numbers DEF NamesOK
    <3> QED BY <1>1, <1>4, <3>1 DEF NamesOK
  <2>2. \A i \in Nat : Unread(s2, k, "Hide", i) =>
            s2[k].toUI[i].sequence = ch.closing /\ ch.closing # 0
    BY <1>1, <1>2, <1>3, <1>5 DEF NamesOK
  <2>3. \A i \in Nat : Queued(s2, q2, k, "CloseComplete", i) =>
            Queue(s2, q2, k)[i].sequence = ch.closing /\ ch.closing # 0
    BY <1>1, <1>2, <1>7, <1>13 DEF NamesOK
  <2> QED BY <1>1, <2>1, <2>2, <2>3 DEF NamesOK
<1>18. OnceOK(ch, s2, q2, X, g)
  BY <1>1, <1>2, <1>5, <1>7, <1>12, <1>13, <1>15, <1>16 DEF OnceOK
<1>19. ConfirmedLast(ch, s2)
  <2> SUFFICES ASSUME NEW i \in 1..Len(s2[k].toWeb), s2[k].toWeb[i].type = "CloseComplete",
                      NEW n \in ch.inFlight
               PROVE  \E j \in 1..Len(s2[k].toWeb) :
                        /\ j < i /\ s2[k].toWeb[j].type = "Release" /\ s2[k].toWeb[j].sequence = n
    BY DEF ConfirmedLast
  <2> DEFINE Q == Queue(s, q, k)
  <2>1. \A j \in 1..Len(s2[k].toWeb) : j \in 1..Len(Q) /\ Q[j] = s2[k].toWeb[j]
    <3>1. \A j \in 1..Len(s2[c].toWeb) : /\ j \in 1..Len(Queue(s2, q2, c))
                                         /\ Queue(s2, q2, c)[j] = s2[c].toWeb[j]
      BY Zenon, QueuedFirst
    <3> QED BY Zenon, <1>2, <1>7, <3>1
  <2>2. Len(Q) \in Nat /\ Len(s2[k].toWeb) \in Nat
    <3>1. Len(Queue(s, q, c)) \in Nat /\ Len(s2[c].toWeb) \in Nat
      BY Zenon, QueueIs, SocketTyped
    <3> QED BY <1>2, <3>1
  <2>3. i \in Nat /\ Queued(s, q, k, "CloseComplete", i)
    BY <2>1, <2>2 DEF Queued
  <2>4. i = Len(Q) /\ X = {} /\ \A j \in Nat : ~Unread(s, k, "Frame", j)
    BY <1>1, <1>12, <2>3 DEF OnceOK, Confirmed
  <2>5. PICK j \in Nat : Queued(s, q, k, "Release", j) /\ Q[j].sequence = n
    BY Zenon, <1>1, <1>12, <2>4 DEF AccountOK
  <2>6. j \in 1..Len(Q) /\ Q[j].type = "Release"
    BY <2>5 DEF Queued
  <2>7. j # i
    BY <2>3, <2>6 DEF Queued
  <2> HIDE DEF Q
  <2>8. j \in 1..Len(s2[k].toWeb) /\ j < i
    BY <2>2, <2>4, <2>6, <2>7
  <2>9. s2[k].toWeb[j] = Q[j]
    BY Zenon, <2>1, <2>8
  <2> QED BY <2>5, <2>6, <2>8, <2>9
<1> QED BY <1>8, <1>9, <1>10, <1>11, <1>14, <1>17, <1>18, <1>19 DEF Books, Safe

(* The client's next packet is taken from its socket.                       *)
Popped(s, c, s2) ==
  /\ s2[c].toUI = Tail(s[c].toUI) /\ s2[c].web = s[c].web /\ s2[c].ui = s[c].ui
  /\ s2[c].toWeb = s[c].toWeb
  /\ \A d \in Connections : d # c => s2[d] = s[d]
HideOf(packet, c) ==
  [type |-> "CloseComplete", conn |-> c, sequence |-> packet.sequence]

(* Reading a packet moves the others one place forward.                     *)
LEMMA PopShifts ==
  ASSUME NEW s \in SocketsType, NEW s2 \in SocketsType, NEW c \in Connections,
         s[c].toUI # <<>>, Popped(s, c, s2)
  PROVE  /\ Head(s[c].toUI) = s[c].toUI[1] /\ 1 \in 1..Len(s[c].toUI)
         /\ \A i \in 1..Len(s2[c].toUI) : /\ i + 1 \in 1..Len(s[c].toUI)
                                          /\ s2[c].toUI[i] = s[c].toUI[i + 1]
         /\ \A i \in 1..Len(s[c].toUI) : i = 1 \/ /\ i - 1 \in 1..Len(s2[c].toUI)
                                                  /\ s2[c].toUI[i - 1] = s[c].toUI[i]
         /\ \A d \in Connections, type \in {"Frame", "Hide"}, i \in Nat :
              Unread(s2, d, type, i) => \E j \in Nat : /\ Unread(s, d, type, j)
                                                       /\ s2[d].toUI[i] = s[d].toUI[j]
                                                       /\ j = i \/ (d = c /\ j = i + 1)
         /\ \A type \in {"Frame", "Hide"}, i \in Nat : Unread(s, c, type, i) =>
              i = 1 \/ /\ i - 1 \in Nat /\ Unread(s2, c, type, i - 1)
                       /\ s2[c].toUI[i - 1] = s[c].toUI[i]
<1> DEFINE a == s[c].toUI
           b == s2[c].toUI
<1>1. a \in Seq(Packet) /\ b \in Seq(Packet) /\ a # <<>> /\ b = Tail(a)
  BY SocketTyped DEF Popped
<1> HIDE DEF a, b
<1>2. Len(a) \in Nat /\ Len(b) \in Nat /\ Len(b) = Len(a) - 1 /\ \A i \in 1..Len(b) : b[i] = a[i + 1]
  BY <1>1, HeadTailProperties, LenProperties
<1>3. Len(a) # 0
  BY <1>1, EmptySeq
<1>4. /\ Head(a) = a[1] /\ 1 \in 1..Len(a)
  BY <1>1, <1>2, <1>3
<1>5. \A i \in 1..Len(b) : i + 1 \in 1..Len(a) /\ b[i] = a[i + 1]
  BY <1>2
<1>6. \A i \in 1..Len(a) : i = 1 \/ (i - 1 \in 1..Len(b) /\ (i - 1) + 1 = i /\ i - 1 \in Nat)
  BY <1>2
<1>7. \A i \in 1..Len(a) : i = 1 \/ (i - 1 \in 1..Len(b) /\ b[i - 1] = a[i] /\ i - 1 \in Nat)
  BY <1>5, <1>6
<1>8. ASSUME NEW d \in Connections, NEW type \in {"Frame", "Hide"}, NEW i \in Nat,
             Unread(s2, d, type, i)
      PROVE  \E j \in Nat : /\ Unread(s, d, type, j) /\ s2[d].toUI[i] = s[d].toUI[j]
                            /\ j = i \/ (d = c /\ j = i + 1)
  <2>1. CASE d = c
    <3>1. i \in 1..Len(b) /\ b[i].type = type
      BY <1>8, <2>1 DEF Unread, b
    <3>2. i + 1 \in Nat /\ i + 1 \in 1..Len(a) /\ a[i + 1].type = type /\ b[i] = a[i + 1]
      BY <1>5, <3>1
    <3> QED BY <2>1, <3>2 DEF Unread, a, b
  <2>2. CASE d # c
    <3>1. s2[d] = s[d]
      BY <2>2 DEF Popped
    <3>2. Unread(s, d, type, i) /\ s2[d].toUI[i] = s[d].toUI[i]
      BY <1>8, <3>1 DEF Unread
    <3> QED BY <3>2
  <2> QED BY <2>1, <2>2
<1>9. ASSUME NEW type \in {"Frame", "Hide"}, NEW i \in Nat, Unread(s, c, type, i)
      PROVE  i = 1 \/ /\ i - 1 \in Nat /\ Unread(s2, c, type, i - 1)
                      /\ s2[c].toUI[i - 1] = s[c].toUI[i]
  <2>1. i \in 1..Len(a) /\ a[i].type = type
    BY <1>9 DEF Unread, a
  <2>2. i = 1 \/ (i - 1 \in 1..Len(b) /\ b[i - 1] = a[i] /\ i - 1 \in Nat)
    BY <1>7, <2>1
  <2>3. CASE i = 1
    BY <2>3
  <2>4. CASE i - 1 \in 1..Len(b) /\ b[i - 1] = a[i] /\ i - 1 \in Nat
    <3>1. /\ i - 1 \in 1..Len(s2[c].toUI) /\ s2[c].toUI[i - 1] = s[c].toUI[i]
          /\ s[c].toUI[i].type = type
      BY <2>1, <2>4 DEF a, b
    <3>2. Unread(s2, c, type, i - 1)
      BY <3>1 DEF Unread
    <3> QED BY <2>4, <3>1, <3>2
  <2> QED BY <2>2, <2>3, <2>4
<1>10. /\ Head(s[c].toUI) = s[c].toUI[1] /\ 1 \in 1..Len(s[c].toUI)
       /\ \A i \in 1..Len(s2[c].toUI) : /\ i + 1 \in 1..Len(s[c].toUI)
                                        /\ s2[c].toUI[i] = s[c].toUI[i + 1]
  BY Zenon, <1>4, <1>5 DEF a, b
<1>11. \A i \in 1..Len(s[c].toUI) : i = 1 \/ /\ i - 1 \in 1..Len(s2[c].toUI)
                                             /\ s2[c].toUI[i - 1] = s[c].toUI[i]
  BY Zenon, <1>7 DEF a, b
<1>12. \A d \in Connections, type \in {"Frame", "Hide"}, i \in Nat :
         Unread(s2, d, type, i) => \E j \in Nat : /\ Unread(s, d, type, j)
                                                  /\ s2[d].toUI[i] = s[d].toUI[j]
                                                  /\ j = i \/ (d = c /\ j = i + 1)
  BY <1>8
<1>13. \A type \in {"Frame", "Hide"}, i \in Nat : Unread(s, c, type, i) =>
         i = 1 \/ /\ i - 1 \in Nat /\ Unread(s2, c, type, i - 1)
                  /\ s2[c].toUI[i - 1] = s[c].toUI[i]
  BY Zenon, <1>9
<1> QED BY Zenon, <1>10, <1>11, <1>12, <1>13

(* A frame that was popped is held, and a close request that was popped is   *)
(* owed a confirmation.                                                     *)
LEMMA PopKeeps ==
  ASSUME NEW ch \in ChannelType, NEW s \in SocketsType, NEW s2 \in SocketsType,
         NEW q \in LinkType, NEW X \in SUBSET Frame, NEW Y \in SUBSET Frame,
         NEW c \in Connections, NEW g \in Replied, NEW g2,
         Books(ch, s, q, X, g), q.client = c, q.gone = "no", s[c].toUI # <<>>, Popped(s, c, s2),
         LET p == Head(s[c].toUI)
         IN  /\ p.type = "Frame" => Y = X \cup {FrameOf(p, c)}
             /\ p.type # "Frame" => Y = X
             /\ p.type = "Hide" /\ c = ch.socket /\ Live(ch, s, q) => g2 = HideOf(p, c)
             /\ ~(p.type = "Hide" /\ c = ch.socket /\ Live(ch, s, q)) => g2 = g
  PROVE  Books(ch, s2, q, Y, g2)
<1> DEFINE k == ch.socket
           p == s[c].toUI[1]
           f == FrameOf(p, c)
<1>1. /\ SocketsOK(ch, s, q) /\ UnreadOK(ch, s) /\ FramesOK(ch, s, q, X) /\ RepliesOK(ch, s, q, X)
      /\ AccountOK(ch, s, q, X) /\ NamesOK(ch, s, q, g)
      /\ ConfirmedLast(ch, s) /\ OnceOK(ch, s, q, X, g)
  BY DEF Books, Safe
<1>2. c # 0 /\ s[c].ui = "open" /\ c \in Nat /\ ch.born \in Nat
  BY <1>1, Numbers, ChannelNumbers DEF SocketsOK
<1>3. \A d \in Connections : s2[d].web = s[d].web /\ s2[d].ui = s[d].ui /\ s2[d].toWeb = s[d].toWeb
  BY DEF Popped
<1>4. \A d \in Connections : /\ Made(s2, d) <=> Made(s, d)
                             /\ Accepted(s2, d) <=> Accepted(s, d)
                             /\ Last(s2, d) <=> Last(s, d)
  BY <1>3 DEF Made, Accepted, Last
<1>5. p = Head(s[c].toUI) /\ 1 \in 1..Len(s[c].toUI) /\ p \in Packet
  BY PopShifts, SocketTyped
<1>6. \A i \in 1..Len(s2[c].toUI) : i + 1 \in 1..Len(s[c].toUI) /\ s2[c].toUI[i] = s[c].toUI[i + 1]
  BY PopShifts
<1>7. \A d \in Connections, type \in {"Frame", "Hide"}, i \in Nat :
        Unread(s2, d, type, i) => \E j \in Nat : /\ Unread(s, d, type, j)
                                                 /\ s2[d].toUI[i] = s[d].toUI[j]
                                                 /\ j = i \/ (d = c /\ j = i + 1)
  BY PopShifts
<1>8. \A type \in {"Frame", "Hide"}, i \in Nat : Unread(s, c, type, i) =>
        i = 1 \/ /\ i - 1 \in Nat /\ Unread(s2, c, type, i - 1) /\ s2[c].toUI[i - 1] = s[c].toUI[i]
  BY PopShifts
<1>9. \A d \in Connections : d # c => s2[d] = s[d]
  BY DEF Popped
<1>10. SocketsOK(ch, s2, q)
  <2>1. \A d \in Connections :
       /\ s2[d].web <=> d = ch.socket
       /\ s2[d].toWeb # <<>> => s2[d].web /\ Accepted(s2, d)
       /\ s2[d].ui = "unused" => Last(s2, d)
       /\ d <= ch.born => Made(s2, d)
    BY <1>1, <1>3, <1>4 DEF SocketsOK
  <2>2. \A d \in Connections :
       /\ s2[d].toUI # <<>> => s2[d].ui \in {"backlog", "open"}
       /\ \A i \in 1..Len(s2[d].toUI) : s2[d].toUI[i].type # "Rect" => s2[d].toUI[i].sequence # 0
    <3> TAKE d \in Connections
    <3>1. CASE d = c
      <4>1. \A i \in 1..Len(s[c].toUI) : s[c].toUI[i].type # "Rect" => s[c].toUI[i].sequence # 0
        BY <1>1 DEF SocketsOK
      <4> QED BY Zenon, <1>2, <1>3, <1>6, <3>1, <4>1
    <3>2. CASE d # c
      BY <1>1, <1>9, <3>2 DEF SocketsOK
    <3> QED BY <3>1, <3>2
  <2>3. ch.socket # 0 => ch.born < ch.socket /\ Made(s2, ch.socket) /\ Last(s2, ch.socket)
    BY <1>1, <1>4 DEF SocketsOK, ChannelType
  <2>4. \A d \in Connections : s2[d].ui = "open" <=> d = q.client
    BY <1>1, <1>3 DEF SocketsOK
  <2> QED BY <2>1, <2>2, <2>3, <2>4 DEF SocketsOK
<1>11. UnreadOK(ch, s2)
  <2> SUFFICES ASSUME NEW d \in Connections, d > ch.born,
                      NEW i \in 1..Len(s2[d].toUI), s2[d].toUI[i].type = "Frame"
               PROVE  /\ s2[d].toUI[i].sequence \in ch.inFlight /\ Last(s2, d)
                      /\ \A j \in 1..Len(s2[d].toUI) : j < i =>
                           /\ s2[d].toUI[j].type # "Hide"
                           /\ s2[d].toUI[j].type = "Frame" =>
                                s2[d].toUI[j].sequence < s2[d].toUI[i].sequence
    BY DEF UnreadOK
  <2>1. CASE d # c
    <3>1. s2[d].toUI = s[d].toUI
      BY <1>9, <2>1
    <3> QED BY <1>1, <1>4, <3>1 DEF UnreadOK
  <2>2. CASE d = c
    <3>1. i + 1 \in 1..Len(s[c].toUI) /\ s[c].toUI[i + 1] = s2[c].toUI[i]
          /\ s[c].toUI[i + 1].type = "Frame"
      BY Zenon, <1>6, <2>2
    <3>2. /\ s[c].toUI[i + 1].sequence \in ch.inFlight /\ Last(s, c)
          /\ \A j \in 1..Len(s[c].toUI) : j < i + 1 =>
                           /\ s[c].toUI[j].type # "Hide"
                           /\ s[c].toUI[j].type = "Frame" =>
                                s[c].toUI[j].sequence < s[c].toUI[i + 1].sequence
      BY Zenon, <1>1, <2>2, <3>1 DEF UnreadOK
    <3>3. ASSUME NEW j \in 1..Len(s2[c].toUI), j < i
          PROVE  /\ s2[c].toUI[j].type # "Hide"
                 /\ s2[c].toUI[j].type = "Frame" =>
                      s2[c].toUI[j].sequence < s2[c].toUI[i].sequence
      <4>1. j + 1 \in 1..Len(s[c].toUI) /\ s2[c].toUI[j] = s[c].toUI[j + 1]
        BY Zenon, <1>6
      <4>2. j + 1 < i + 1
        <5>1. i \in Nat /\ j \in Nat
          BY <2>2
        <5> QED BY <3>3, <5>1
      <4> QED BY <3>1, <3>2, <4>1, <4>2
    <3>4. s2[c].toUI[i].sequence \in ch.inFlight /\ Last(s2, c)
      BY <1>4, <3>1, <3>2
    <3> QED BY <2>2, <3>3, <3>4
  <2> QED BY <2>1, <2>2
<1>12. \A x \in X : FrameOK(ch, s2, x)
  <2> TAKE x \in X
  <2>1. FrameOK(ch, s, x) /\ x.conn \in Connections
    BY <1>1 DEF FramesOK, Frame
  <2>2. ASSUME x.conn > ch.born, NEW d \in Connections, NEW i \in Nat, d > ch.born,
               Unread(s2, d, "Frame", i)
        PROVE  x.sequence < s2[d].toUI[i].sequence
    BY <1>7, <2>1, <2>2 DEF FrameOK
  <2> QED BY <1>4, <2>1, <2>2 DEF FrameOK
<1>13. ASSUME p.type = "Frame"
       PROVE  /\ Unread(s, c, "Frame", 1) /\ f \in Frame /\ f.conn = c /\ f.sequence = p.sequence
              /\ FrameOK(ch, s2, f)
              /\ \A x \in X : x.conn > ch.born /\ c > ch.born => x.sequence # p.sequence
  <2>1. Unread(s, c, "Frame", 1)
    BY <1>5, <1>13 DEF Unread
  <2>2. p.sequence # 0 /\ p.sequence \in 0..MaxSequence /\ p.rect \in Rects
    BY <1>1, <1>5, <1>13 DEF SocketsOK, Packet
  <2>3. p.sequence \in 1..MaxSequence
    BY <2>2, Numbers
  <2>4. f \in Frame /\ f.conn = c /\ f.sequence = p.sequence
    BY <2>2, <2>3 DEF FrameOf, Frame
  <2>5. Accepted(s2, c)
    BY <1>2, <1>3 DEF Accepted
  <2>6. ASSUME c > ch.born
        PROVE  /\ p.sequence \in ch.inFlight /\ Last(s2, c) /\ Last(s, c)
    BY <1>1, <1>4, <1>5, <1>13, <2>6 DEF UnreadOK
  <2>7. ASSUME c > ch.born, NEW d \in Connections, NEW i \in Nat, d > ch.born,
               Unread(s2, d, "Frame", i)
        PROVE  p.sequence < s2[d].toUI[i].sequence
    <3>1. PICK j \in Nat : /\ Unread(s, d, "Frame", j) /\ s2[d].toUI[i] = s[d].toUI[j]
                           /\ j = i \/ (d = c /\ j = i + 1)
      BY <1>7, <2>7
    <3>2. Last(s, d) /\ Made(s, d) /\ Made(s, c)
      BY <1>1, <1>2, <2>7, <3>1 DEF UnreadOK, Unread, Made, SocketsOK
    <3>3. d = c
      BY <2>6, <2>7, <3>2, LastAlone
    <3>4. i \in 1..Len(s2[c].toUI) /\ i + 1 \in 1..Len(s[c].toUI) /\ s2[c].toUI[i] = s[c].toUI[i + 1]
          /\ s[c].toUI[i + 1].type = "Frame" /\ 1 < i + 1
      BY <1>6, <2>7, <3>3 DEF Unread
    <3> QED BY Zenon, <1>1, <1>5, <1>13, <2>7, <3>3, <3>4 DEF UnreadOK
  <2>8. FrameOK(ch, s2, f)
    BY <2>4, <2>5, <2>6, <2>7 DEF FrameOK
  <2>9. ASSUME NEW x \in X, x.conn > ch.born, c > ch.born PROVE x.sequence # p.sequence
    <3>1. x.sequence < p.sequence
      BY <1>1, <2>1, <2>9 DEF FramesOK, FrameOK
    <3>2. x.sequence \in Nat
      BY FrameNumbers
    <3> QED BY <2>3, <3>1, <3>2
  <2> QED BY <2>1, <2>4, <2>8, <2>9
<1>14. (p.type = "Frame" /\ Y = X \cup {f}) \/ (p.type # "Frame" /\ Y = X)
  <2>1. p = Head(s[c].toUI)
    BY <1>5
  <2> QED BY <2>1
<1>15. FramesOK(ch, s2, q, Y)
  BY <1>1, <1>12, <1>13, <1>14 DEF FramesOK
<1>16. RepliesOK(ch, s2, q, Y)
  <2>1. ASSUME NEW r \in Reply, ReplyOK(ch, s, X, r) PROVE ReplyOK(ch, s2, Y, r)
    <3> SUFFICES ASSUME r.type = "Release", r.conn > ch.born
                 PROVE  /\ Made(s2, r.conn)
                        /\ \A x \in Y : x.conn > ch.born => x.sequence # r.sequence
                        /\ \A d \in Connections, i \in Nat :
                             d > ch.born /\ Unread(s2, d, "Frame", i)
                               => s2[d].toUI[i].sequence # r.sequence
      BY <2>1 DEF ReplyOK
    <3>1. \A d \in Connections, i \in Nat : d > ch.born /\ Unread(s, d, "Frame", i)
            => s[d].toUI[i].sequence # r.sequence
      BY <2>1 DEF ReplyOK
    <3>2. \A x \in X : x.conn > ch.born => x.sequence # r.sequence
      BY <2>1 DEF ReplyOK
    <3>3. p.type = "Frame" /\ c > ch.born => f.sequence # r.sequence
      BY <1>13, <3>1
    <3>4. \A x \in Y : x.conn > ch.born => x.sequence # r.sequence
      BY <1>13, <1>14, <3>2, <3>3
    <3>5. Made(s2, r.conn)
      BY <1>4, <2>1 DEF ReplyOK
    <3> QED BY <1>7, <3>1, <3>4, <3>5
  <2>2. \A d \in Connections : \A i \in 1..Len(s2[d].toWeb) :
          s2[d].toWeb[i].conn = d /\ ReplyOK(ch, s2, Y, s2[d].toWeb[i])
    <3> TAKE d \in Connections
    <3>1. s2[d].toWeb = s[d].toWeb
      BY <1>3
    <3>2. \A i \in 1..Len(s[d].toWeb) : /\ s[d].toWeb[i].conn = d /\ s[d].toWeb[i] \in Reply
                                        /\ ReplyOK(ch, s, X, s[d].toWeb[i])
      BY <1>1, SocketTyped DEF RepliesOK
    <3> QED BY <2>1, <3>1, <3>2
  <2>3. \A i \in 1..Len(q.acks) : q.acks[i] \in Reply
    BY ElementOfSeq DEF LinkType
  <2> QED BY <1>1, <2>1, <2>2, <2>3 DEF RepliesOK
<1>17. Live(ch, s2, q) <=> Live(ch, s, q)
  BY <1>3 DEF Live, ChannelType
<1>18. k # 0 => Queue(s2, q, k) = Queue(s, q, k)
  BY Zenon, <1>3 DEF Queue, ChannelType
<1>19. AccountOK(ch, s2, q, Y)
  <2> SUFFICES ASSUME Live(ch, s, q) PROVE AccountOK(ch, s2, q, Y)
    BY <1>17 DEF AccountOK
  <2>1. k # 0 /\ k \in Connections /\ ch.born < k
    BY Zenon, LiveQueue, Numbers
  <2>2. Queue(s2, q, k) = Queue(s, q, k)
        /\ \A i \in Nat : Queued(s2, q, k, "Release", i) <=> Queued(s, q, k, "Release", i)
    BY <1>18, <2>1 DEF Queued
  <2>3. ASSUME NEW n \in ch.inFlight, NEW i \in Nat, Unread(s, k, "Frame", i),
               s[k].toUI[i].sequence = n
        PROVE  \/ \E j \in Nat : Unread(s2, k, "Frame", j) /\ s2[k].toUI[j].sequence = n
               \/ \E x \in Y : x.conn > ch.born /\ x.sequence = n
    <3>1. CASE k # c
      BY <1>9, <2>1, <2>3, <3>1 DEF Unread
    <3>2. CASE k = c /\ i = 1
      <4>1. p.type = "Frame" /\ p.sequence = n
        BY <2>3, <3>2 DEF Unread
      <4>2. f \in Y /\ f.conn = c /\ f.sequence = n /\ c > ch.born
        BY <1>2, <1>13, <1>14, <2>1, <3>2, <4>1
      <4> QED BY <4>2
    <3>3. CASE k = c /\ i # 1
      BY <1>8, <2>3, <3>3
    <3> QED BY <3>1, <3>2, <3>3
  <2>4. X \subseteq Y
    BY <1>14
  <2> QED BY <1>1, <2>2, <2>3, <2>4 DEF AccountOK
<1>20. g2 = g \/ (p.type = "Hide" /\ c = k /\ Live(ch, s, q) /\ g2 = HideOf(p, c))
  <2>1. p = Head(s[c].toUI)
    BY <1>5
  <2> QED BY <2>1
<1>21. ASSUME p.type = "Hide", c = k PROVE Unread(s, k, "Hide", 1) /\ Asked(ch, s)
  BY <1>5, <1>21 DEF Unread, Asked
<1>22. NamesOK(ch, s2, q, g2)
  <2>1. g2 # None => /\ g2.type = "CloseComplete" /\ Accepted(s2, g2.conn)
                     /\ q.client # 0 => g2.conn = q.client
    <3>1. CASE g2 = g
      <4>1. g # None => g.conn = c
        BY <1>1, <1>2 DEF NamesOK
      <4> QED BY <1>1, <1>4, <3>1, <4>1 DEF NamesOK
    <3>2. CASE g2 = HideOf(p, c)
      BY <1>2, <1>3, <3>2 DEF HideOf, Accepted
    <3> QED BY <1>20, <3>1, <3>2
  <2>2. ASSUME k # 0
        PROVE  /\ \A i \in Nat : Unread(s2, k, "Hide", i) =>
                    s2[k].toUI[i].sequence = ch.closing /\ ch.closing # 0
    <3>1. \A i \in Nat : Unread(s, k, "Hide", i) =>
                    s[k].toUI[i].sequence = ch.closing /\ ch.closing # 0
      BY <1>1, <2>2 DEF NamesOK
    <3>2. k \in Connections
      BY <2>2 DEF ChannelType
    <3> QED BY <1>7, <3>1, <3>2
  <2>3. ASSUME k # 0, Owed(ch, g2) PROVE g2.sequence = ch.closing /\ ch.closing # 0
    <3>1. CASE g2 = g
      BY <1>1, <2>3, <3>1 DEF NamesOK
    <3>2. CASE p.type = "Hide" /\ c = k /\ g2 = HideOf(p, c)
      BY <1>1, <1>21, <2>3, <3>2 DEF NamesOK, HideOf
    <3> QED BY <1>20, <3>1, <3>2
  <2>4. ASSUME k # 0, NEW i \in Nat, Queued(s2, q, k, "CloseComplete", i)
        PROVE  Queue(s2, q, k)[i].sequence = ch.closing /\ ch.closing # 0
    BY <1>1, <1>18, <2>4 DEF NamesOK, Queued
  <2> QED BY <1>1, <2>1, <2>2, <2>3, <2>4 DEF NamesOK
<1>23. ConfirmedLast(ch, s2)
  <2>1. k # 0 => s2[k].toWeb = s[k].toWeb
    BY <1>3 DEF ChannelType
  <2> QED BY <1>1, <2>1 DEF ConfirmedLast
<1>24. OnceOK(ch, s2, q, Y, g2)
  <2> SUFFICES ASSUME Live(ch, s, q) PROVE OnceOK(ch, s2, q, Y, g2)
    BY <1>17 DEF OnceOK
  <2>1. k # 0 /\ k \in Connections /\ ch.born < k
    BY Zenon, LiveQueue, Numbers
  <2>2. Queue(s2, q, k) = Queue(s, q, k)
        /\ \A i \in Nat : Queued(s2, q, k, "CloseComplete", i) <=> Queued(s, q, k, "CloseComplete", i)
    BY <1>18, <2>1 DEF Queued
  <2>3. Confirmed(ch, s2, q) <=> Confirmed(ch, s, q)
    BY <2>2 DEF Confirmed
  <2>4. \A i \in Nat, type \in {"Frame", "Hide"} : Unread(s2, k, type, i) =>
          \E j \in Nat : Unread(s, k, type, j) /\ (j = i \/ (k = c /\ j = i + 1))
    BY <1>7, <2>1
  <2>5. \A i, j \in Nat : Unread(s2, k, "Hide", i) /\ Unread(s2, k, "Hide", j) => i = j
    <3> SUFFICES ASSUME NEW i \in Nat, NEW j \in Nat, Unread(s2, k, "Hide", i),
                        Unread(s2, k, "Hide", j)
                 PROVE  i = j
      OBVIOUS
    <3>1. CASE k = c
      <4>1. /\ i \in 1..Len(s2[c].toUI) /\ s2[c].toUI[i].type = "Hide"
            /\ j \in 1..Len(s2[c].toUI) /\ s2[c].toUI[j].type = "Hide"
        BY <3>1 DEF Unread
      <4>2. Unread(s, k, "Hide", i + 1) /\ Unread(s, k, "Hide", j + 1)
        BY Zenon, <1>6, <3>1, <4>1 DEF Unread
      <4>3. i + 1 = j + 1
        BY <1>1, <4>2 DEF OnceOK
      <4> QED BY <4>3
    <3>2. CASE k # c
      BY Zenon, <1>1, <1>9, <2>1, <3>2 DEF OnceOK, Unread
    <3> QED BY <3>1, <3>2
  <2>6. ASSUME NEW i \in Nat, Queued(s, q, k, "CloseComplete", i) PROVE X = Y
    <3>1. k = c
      <4>1. Queue(s, q, k) # <<>>
        BY <2>6 DEF Queued
      <4> QED BY <4>1, LiveQueue
    <3>2. ~Unread(s, k, "Frame", 1)
      BY <1>1, <2>6 DEF OnceOK, Confirmed
    <3>3. p.type # "Frame"
      BY <1>5, <3>1, <3>2 DEF Unread
    <3> QED BY <1>14, <3>3
  <2>7. CASE p.type = "Hide" /\ c = k
    <3>1. Unread(s, k, "Hide", 1) /\ Asked(ch, s)
      BY <1>21, <2>7
    <3>2. ~InControl(ch) /\ ~Owed(ch, g) /\ ~Confirmed(ch, s, q)
      BY <1>1, <3>1 DEF OnceOK
    <3>3. g2 = HideOf(p, c) /\ Owed(ch, g2)
      <4>1. g2 = HideOf(p, c)
        BY <1>5, <2>7
      <4>2. HideOf(p, c).conn = c /\ HideOf(p, c) \in Reply
        <5>1. p.sequence \in 0..MaxSequence /\ p.sequence # 0
          BY <1>1, <1>5, <2>7 DEF SocketsOK, Packet
        <5>2. p.sequence \in 1..MaxSequence
          BY <5>1, Numbers
        <5> QED BY <5>2 DEF HideOf, Reply
      <4> QED BY <2>7, <4>1, <4>2, NullAssumption DEF Owed
    <3>4. \A i \in Nat : ~Unread(s2, k, "Hide", i)
      <4> SUFFICES ASSUME NEW i \in Nat, Unread(s2, k, "Hide", i) PROVE FALSE
        OBVIOUS
      <4>1. i \in 1..Len(s2[c].toUI) /\ s2[c].toUI[i].type = "Hide"
        BY <2>7 DEF Unread
      <4>2. Unread(s, k, "Hide", i + 1)
        BY Zenon, <1>6, <2>7, <4>1 DEF Unread
      <4>3. i + 1 = 1
        BY <1>1, <3>1, <4>2 DEF OnceOK
      <4> QED BY <4>1, <4>3
    <3>5. \A i \in Nat : ~Unread(s2, k, "Frame", i)
      <4> SUFFICES ASSUME NEW i \in Nat, Unread(s2, k, "Frame", i) PROVE FALSE
        OBVIOUS
      <4>1. i \in 1..Len(s2[c].toUI) /\ s2[c].toUI[i].type = "Frame"
        BY <2>7 DEF Unread
      <4>2. i + 1 \in 1..Len(s[c].toUI) /\ s[c].toUI[i + 1].type = "Frame" /\ 1 < i + 1
        BY <1>6, <2>7, <4>1
      <4>3. p.type # "Hide"
        <5>1. c > ch.born
          BY <1>2, <2>1, <2>7
        <5> QED BY <1>1, <1>5, <4>2, <5>1 DEF UnreadOK
      <4> QED BY <2>7, <4>3
    <3>6. ~Asked(ch, s2)
      BY <3>4 DEF Asked
    <3> QED BY <2>2, <2>3, <3>2, <3>3, <3>4, <3>5, <3>6 DEF OnceOK, Confirmed
  <2>8. CASE ~(p.type = "Hide" /\ c = k)
    <3>1. g2 = g
      BY <1>20, <2>8
    <3>2. Asked(ch, s2) <=> Asked(ch, s)
      <4>1. CASE k = c
        <5>1. ~Unread(s, c, "Hide", 1)
          BY <2>8, <4>1 DEF Unread
        <5>2. Asked(ch, s) => Asked(ch, s2)
          BY <1>8, <4>1, <5>1 DEF Asked
        <5>3. Asked(ch, s2) => Asked(ch, s)
          BY <2>4 DEF Asked
        <5> QED BY <5>2, <5>3
      <4>2. CASE k # c
        BY Zenon, <1>9, <2>1, <4>2 DEF Asked, Unread
      <4> QED BY <4>1, <4>2
    <3>3. (\A i \in Nat : ~Unread(s, k, "Frame", i)) => \A i \in Nat : ~Unread(s2, k, "Frame", i)
      BY <2>4
    <3> QED BY <1>1, <2>2, <2>3, <2>5, <2>6, <3>1, <3>2, <3>3 DEF OnceOK
  <2> QED BY <2>7, <2>8
<1> QED BY <1>10, <1>11, <1>15, <1>16, <1>19, <1>22, <1>23, <1>24 DEF Books, Safe

(* There are no more releases on their way than samples in flight.          *)
LEMMA QueueFits ==
  ASSUME NEW ch \in ChannelType, NEW s \in SocketsType, NEW q \in LinkType,
         NEW X \in SUBSET Frame, NEW g, ChannelOK(ch), Books(ch, s, q, X, g), Live(ch, s, q)
  PROVE  /\ Len(Queue(s, q, ch.socket)) \in Nat
         /\ Len(Queue(s, q, ch.socket)) <= MaxInFlight + 1
         /\ q.client = ch.socket /\ X # {} => Len(Queue(s, q, ch.socket)) <= MaxInFlight
         /\ Owed(ch, g) => Len(Queue(s, q, ch.socket)) <= MaxInFlight
<1> DEFINE k == ch.socket
           Q == Queue(s, q, k)
<1>1. k \in Connections /\ AccountOK(ch, s, q, X) /\ OnceOK(ch, s, q, X, g)
  BY LiveQueue DEF Books
<1>2. Q \in Seq(Reply) /\ Len(Q) \in Nat
  <2> HIDE DEF k
  <2> QED BY Zenon, <1>1, QueueIs
<1>3. \A i \in 1..Len(Q) : Q[i].type \in {"Release", "CloseComplete"}
  <2>1. \A i \in 1..Len(Q) : Q[i] \in Reply
    BY <1>2, ElementOfSeq
  <2> QED BY <2>1 DEF Reply
<1>4. \A i \in 1..Len(Q) : Q[i].type = "CloseComplete" => i = Len(Q) /\ X = {} /\ ~Owed(ch, g)
  <2> SUFFICES ASSUME NEW i \in 1..Len(Q), Q[i].type = "CloseComplete"
               PROVE  i = Len(Q) /\ X = {} /\ ~Owed(ch, g)
    OBVIOUS
  <2>1. i \in Nat /\ Queued(s, q, k, "CloseComplete", i)
    BY <1>2 DEF Queued
  <2>2. Confirmed(ch, s, q)
    BY <2>1 DEF Confirmed
  <2> QED BY <1>1, <2>1, <2>2 DEF OnceOK
<1>5. \A i, j \in 1..Len(Q) : Q[i].type = "Release" /\ Q[j].type = "Release" =>
         /\ Q[i].sequence \in ch.inFlight
         /\ Q[i].sequence = Q[j].sequence => i = j
  <2> SUFFICES ASSUME NEW i \in 1..Len(Q), NEW j \in 1..Len(Q), Q[i].type = "Release",
                      Q[j].type = "Release"
               PROVE  /\ Q[i].sequence \in ch.inFlight
                      /\ Q[i].sequence = Q[j].sequence => i = j
    OBVIOUS
  <2>1. i \in Nat /\ j \in Nat /\ Queued(s, q, k, "Release", i) /\ Queued(s, q, k, "Release", j)
    BY <1>2 DEF Queued
  <2> QED BY <1>1, <2>1 DEF AccountOK
<1>6. IsFiniteSet(ch.inFlight) /\ Cardinality(ch.inFlight) \in Nat
      /\ Cardinality(ch.inFlight) <= MaxInFlight /\ MaxInFlight \in Nat
  <2>1. MaxSequence \in Nat /\ ch.inFlight \in SUBSET (1..MaxSequence) /\ MaxInFlight \in Nat
    BY Numbers, ChannelNumbers
  <2>2. IsFiniteSet(1..MaxSequence)
    BY <2>1, FS_Interval
  <2>3. IsFiniteSet(ch.inFlight)
    BY <2>1, <2>2, FS_Subset
  <2>4. Cardinality(ch.inFlight) \in Nat
    BY <2>3, FS_CardinalityType
  <2> QED BY <2>1, <2>3, <2>4 DEF ChannelOK
<1>7. ASSUME NEW m \in Nat, m <= Len(Q), \A i \in 1..m : Q[i].type = "Release"
      PROVE  m <= MaxInFlight
  <2> DEFINE D == 1..m
             F == [i \in D |-> Q[i].sequence]
  <2>1. \A i \in D : i \in 1..Len(Q)
    BY <1>2, <1>7
  <2>2. F \in [D -> ch.inFlight] /\ \A i, j \in D : F[i] = F[j] => i = j
    BY <1>5, <1>7, <2>1
  <2>3. F \in Injection(D, ch.inFlight)
    BY <2>2 DEF Injection, IsInjective
  <2>4. IsFiniteSet(D) /\ Cardinality(D) = m
    <3>1. Cardinality(1..m) = IF 1 > m THEN 0 ELSE m - 1 + 1
      BY <1>7, FS_Interval
    <3>2. IsFiniteSet(1..m)
      BY <1>7, FS_Interval
    <3> QED BY <1>7, <3>1, <3>2
  <2>5. Cardinality(D) <= Cardinality(ch.inFlight)
    BY <1>6, <2>3, <2>4, FS_Injection
  <2> QED BY <1>6, <1>7, <2>4, <2>5
<1>8. CASE \A i \in 1..Len(Q) : Q[i].type # "CloseComplete"
  <2>1. \A i \in 1..Len(Q) : Q[i].type = "Release"
    BY <1>3, <1>8
  <2>2. Len(Q) <= MaxInFlight
    BY <1>2, <1>7, <2>1
  <2> HIDE DEF Q
  <2>3. Len(Q) <= MaxInFlight + 1
    BY <1>2, <1>6, <2>2
  <2> QED BY <1>2, <2>2, <2>3 DEF Q
<1>9. CASE \E i \in 1..Len(Q) : Q[i].type = "CloseComplete"
  <2>1. Len(Q) # 0 /\ Len(Q) - 1 \in Nat /\ X = {} /\ ~Owed(ch, g)
    BY <1>2, <1>4, <1>9
  <2>2. \A i \in 1..(Len(Q) - 1) : Q[i].type = "Release"
    BY <1>2, <1>3, <1>4
  <2>3. Len(Q) - 1 <= MaxInFlight
    BY <1>2, <1>7, <2>1, <2>2
  <2> HIDE DEF Q
  <2>4. Len(Q) <= MaxInFlight + 1
    BY <1>2, <1>6, <2>3
  <2> QED BY <1>2, <2>1, <2>4 DEF Q
<1> QED BY <1>8, <1>9

(* A connection is accepted when nothing is left of the last client.        *)
LEMMA ServeKeeps ==
  ASSUME NEW ch \in ChannelType, NEW s \in SocketsType, NEW s2 \in SocketsType,
         NEW q \in LinkType, NEW q2 \in LinkType, NEW c \in Connections,
         Books(ch, s, q, {}, None), q.client = 0, q.gone = "no", s[c].ui = "backlog",
         ~q.dropping, q2.client = c, q2.acks = q.acks, q2.dropping = q.dropping, q2.gone = q.gone,
         s2[c].ui = "open", s2[c].toUI = s[c].toUI, s2[c].web = s[c].web,
         s2[c].toWeb = s[c].toWeb, \A d \in Connections : d # c => s2[d] = s[d]
  PROVE  Books(ch, s2, q2, {}, None)
<1> DEFINE k == ch.socket
<1>1. /\ SocketsOK(ch, s, q) /\ UnreadOK(ch, s) /\ RepliesOK(ch, s, q, {})
      /\ AccountOK(ch, s, q, {}) /\ NamesOK(ch, s, q, None)
      /\ ConfirmedLast(ch, s) /\ OnceOK(ch, s, q, {}, None)
  BY DEF Books, Safe
<1>2. q.acks = <<>> /\ \A d \in Connections : d # 0 /\ s[d].ui # "open"
  BY <1>1, Numbers DEF RepliesOK, SocketsOK
<1>3. \A d \in Connections : /\ s2[d].web = s[d].web /\ s2[d].toUI = s[d].toUI
                             /\ s2[d].toWeb = s[d].toWeb
                             /\ s2[d].ui = s[d].ui \/ (d = c /\ s2[d].ui = "open")
  OBVIOUS
<1>4. \A d \in Connections : /\ Made(s2, d) <=> Made(s, d)
                             /\ Accepted(s, d) => Accepted(s2, d)
                             /\ Last(s2, d) <=> Last(s, d)
  BY <1>3 DEF Made, Accepted, Last
<1>5. \A d \in Connections, type \in {"Frame", "Hide"}, i \in Nat :
         Unread(s2, d, type, i) <=> Unread(s, d, type, i)
  BY <1>3 DEF Unread
<1>6. SocketsOK(ch, s2, q2)
  <2>1. \A d \in Connections :
       /\ s2[d].web <=> d = ch.socket
       /\ s2[d].toUI # <<>> => s2[d].ui \in {"backlog", "open"}
       /\ s2[d].toWeb # <<>> => s2[d].web /\ Accepted(s2, d)
       /\ s2[d].ui = "unused" => Last(s2, d)
       /\ d <= ch.born => Made(s2, d)
    BY <1>1, <1>3, <1>4 DEF SocketsOK
  <2>2. \A d \in Connections : \A i \in 1..Len(s2[d].toUI) :
          s2[d].toUI[i].type # "Rect" => s2[d].toUI[i].sequence # 0
    <3> TAKE d \in Connections
    <3>1. s2[d].toUI = s[d].toUI
      BY <1>3
    <3> QED BY <1>1, <3>1 DEF SocketsOK
  <2>3. k # 0 => ch.born < k /\ Made(s2, k) /\ Last(s2, k)
    BY <1>1, <1>4 DEF SocketsOK, ChannelType
  <2>4. \A d \in Connections : s2[d].ui = "open" <=> d = q2.client
    BY <1>2, <1>3
  <2> QED BY <2>1, <2>2, <2>3, <2>4 DEF SocketsOK
<1>7. UnreadOK(ch, s2)
  <2> SUFFICES ASSUME NEW d \in Connections, d > ch.born,
                      NEW i \in 1..Len(s2[d].toUI), s2[d].toUI[i].type = "Frame"
               PROVE  /\ s2[d].toUI[i].sequence \in ch.inFlight /\ Last(s2, d)
                      /\ \A j \in 1..Len(s2[d].toUI) : j < i =>
                           /\ s2[d].toUI[j].type # "Hide"
                           /\ s2[d].toUI[j].type = "Frame" =>
                                s2[d].toUI[j].sequence < s2[d].toUI[i].sequence
    BY DEF UnreadOK
  <2>1. s2[d].toUI = s[d].toUI
    BY <1>3
  <2> QED BY <1>1, <1>4, <2>1 DEF UnreadOK
<1>8. RepliesOK(ch, s2, q2, {})
  <2>1. ASSUME NEW r, ReplyOK(ch, s, {}, r) PROVE ReplyOK(ch, s2, {}, r)
    BY <1>3, <1>4, <1>5, <2>1 DEF ReplyOK
  <2>2. \A d \in Connections : \A i \in 1..Len(s2[d].toWeb) :
          s2[d].toWeb[i].conn = d /\ ReplyOK(ch, s2, {}, s2[d].toWeb[i])
    <3> TAKE d \in Connections
    <3>1. s2[d].toWeb = s[d].toWeb
      BY <1>3
    <3> QED BY <1>1, <2>1, <3>1 DEF RepliesOK
  <2>3. q2.acks = <<>> /\ 1..Len(q2.acks) = {}
    BY <1>2
  <2> QED BY <2>2, <2>3 DEF RepliesOK
<1>9. k \in {0} \cup Connections
  BY DEF ChannelType
<1>10. \A d \in Connections : Queue(s2, q2, d) = Queue(s, q, d)
  <2> TAKE d \in Connections
  <2>1. Queue(s, q, d) = s[d].toWeb
    BY Zenon, <1>2, QueueIs
  <2>2. s2[d].toWeb = s[d].toWeb /\ s2[d].toWeb \in Seq(Reply)
    BY <1>3, SocketTyped
  <2>3. q2.client # d => Queue(s2, q2, d) = s2[d].toWeb
    BY Zenon, QueueIs
  <2>4. q2.client = d => Queue(s2, q2, d) = s2[d].toWeb \o <<>>
    <3>1. q2.client = d => Queue(s2, q2, d) = s2[d].toWeb \o q2.acks
      BY Zenon, QueueIs
    <3> QED BY <1>2, <3>1
  <2>5. s2[d].toWeb \o <<>> = s2[d].toWeb
    BY <2>2, ConcatEmptySeq
  <2> QED BY <2>1, <2>2, <2>3, <2>4, <2>5
<1>11. ASSUME Live(ch, s2, q2) PROVE Live(ch, s, q) /\ k \in Connections
  BY <1>2, <1>3, <1>9, <1>11 DEF Live
<1>12. k \in Connections =>
         /\ Queue(s2, q2, k) = Queue(s, q, k)
         /\ \A type \in {"Release", "CloseComplete"}, i \in Nat :
              Queued(s2, q2, k, type, i) <=> Queued(s, q, k, type, i)
         /\ Confirmed(ch, s2, q2) <=> Confirmed(ch, s, q)
         /\ Asked(ch, s2) <=> Asked(ch, s)
         /\ \A type \in {"Frame", "Hide"}, i \in Nat : Unread(s2, k, type, i) <=> Unread(s, k, type, i)
         /\ s2[k].toUI = s[k].toUI /\ s2[k].toWeb = s[k].toWeb
  BY <1>3, <1>5, <1>10 DEF Queued, Confirmed, Asked
<1>13. AccountOK(ch, s2, q2, {})
  BY <1>1, <1>11, <1>12 DEF AccountOK
<1>14. NamesOK(ch, s2, q2, None)
  <2>1. ASSUME k # 0
        PROVE  /\ \A i \in Nat : Unread(s2, k, "Hide", i) =>
                    s2[k].toUI[i].sequence = ch.closing /\ ch.closing # 0
               /\ \A i \in Nat : Queued(s2, q2, k, "CloseComplete", i) =>
                    Queue(s2, q2, k)[i].sequence = ch.closing /\ ch.closing # 0
    BY <1>1, <1>9, <1>12, <2>1 DEF NamesOK
  <2> QED BY <1>1, <2>1 DEF NamesOK, Owed
<1>15. ConfirmedLast(ch, s2)
  BY <1>1, <1>9, <1>12 DEF ConfirmedLast
<1>16. OnceOK(ch, s2, q2, {}, None)
  BY <1>1, <1>11, <1>12 DEF OnceOK
<1>17. FramesOK(ch, s2, q2, {})
  BY DEF FramesOK
<1> QED BY <1>6, <1>7, <1>8, <1>13, <1>14, <1>15, <1>16, <1>17 DEF Books, Safe

(* Connections look the same where the end of the UI process is the same.   *)
LEMMA SameEnds ==
  ASSUME NEW s, NEW s2, \A d \in Connections : s2[d].ui = s[d].ui
  PROVE  \A d \in Connections : /\ Made(s2, d) <=> Made(s, d)
                                /\ Accepted(s2, d) <=> Accepted(s, d)
                                /\ Last(s2, d) <=> Last(s, d)
  BY DEF Made, Accepted, Last

(* The WebProcess reads replies: the samples they release are not in flight  *)
(* any more.                                                                *)
Reads(ch, s, q, ch2, s2) ==
  /\ ch2.socket = ch.socket /\ ch2.born = ch.born /\ ch.next <= ch2.next
  /\ ch2.inFlight \subseteq ch.inFlight
  /\ \A n \in ch.inFlight \ ch2.inFlight :
       \E i \in 1..Len(s[ch.socket].toWeb) : /\ s[ch.socket].toWeb[i].type = "Release"
                                             /\ s[ch.socket].toWeb[i].sequence = n
  /\ \A d \in Connections : /\ s2[d].web = s[d].web /\ s2[d].ui = s[d].ui
                            /\ s2[d].toUI = s[d].toUI
                            /\ s2[d].toWeb = s[d].toWeb \/ s2[d].toWeb = <<>>

(* Reading replies keeps what is said of frames, for the samples left.      *)
LEMMA ReadsSafe ==
  ASSUME NEW ch \in ChannelType, NEW s \in SocketsType, NEW q \in LinkType,
         NEW ch2 \in ChannelType, NEW s2 \in SocketsType, NEW X \in SUBSET Frame,
         Safe(ch, s, q, X), ch.socket # 0, Reads(ch, s, q, ch2, s2)
  PROVE  Safe(ch2, s2, q, X)
<1> DEFINE k == ch.socket
<1>1. SocketsOK(ch, s, q) /\ UnreadOK(ch, s) /\ FramesOK(ch, s, q, X) /\ RepliesOK(ch, s, q, X)
  BY DEF Safe
<1>2. k \in Connections /\ k > ch.born /\ ch.born \in Nat /\ ch.next \in Nat /\ ch2.next \in Nat
      /\ ch2.born = ch.born /\ ch2.socket = k /\ ch.next <= ch2.next
  <2>1. k \in Connections /\ ch.born < k
    BY <1>1 DEF ChannelType, SocketsOK
  <2> QED BY <2>1, ChannelNumbers DEF Reads
<1>3. \A d \in Connections : s2[d].web = s[d].web /\ s2[d].ui = s[d].ui /\ s2[d].toUI = s[d].toUI
                             /\ (s2[d].toWeb = s[d].toWeb \/ s2[d].toWeb = <<>>)
  BY DEF Reads
<1>4. \A d \in Connections : /\ Made(s2, d) <=> Made(s, d)
                             /\ Accepted(s2, d) <=> Accepted(s, d)
                             /\ Last(s2, d) <=> Last(s, d)
  BY <1>3, SameEnds
<1>5. \A d \in Connections, type \in {"Frame", "Hide"}, i \in Nat :
         Unread(s2, d, type, i) <=> Unread(s, d, type, i)
  BY <1>3 DEF Unread
<1>6. ASSUME NEW n \in ch.inFlight \ ch2.inFlight
      PROVE  /\ \A x \in X : x.conn > ch.born => x.sequence # n
             /\ \A d \in Connections : d > ch.born =>
                  \A i \in 1..Len(s[d].toUI) : s[d].toUI[i].type = "Frame"
                                                 => s[d].toUI[i].sequence # n
  <2>1. PICK i \in 1..Len(s[k].toWeb) : s[k].toWeb[i].type = "Release" /\ s[k].toWeb[i].sequence = n
    BY DEF Reads
  <2>2. s[k].toWeb[i].conn = k /\ ReplyOK(ch, s, X, s[k].toWeb[i])
    BY <1>1, <1>2 DEF RepliesOK
  <2>3. \A d \in Connections : d > ch.born =>
          \A j \in 1..Len(s[d].toUI) : s[d].toUI[j].type = "Frame"
                                         => j \in Nat /\ Unread(s, d, "Frame", j)
    BY SocketTyped DEF Unread
  <2> QED BY <1>2, <2>1, <2>2, <2>3 DEF ReplyOK
<1>7. SocketsOK(ch2, s2, q)
  <2>1. \A d \in Connections :
       /\ s2[d].web <=> d = k
       /\ s2[d].toUI # <<>> => s2[d].ui \in {"backlog", "open"}
       /\ s2[d].toWeb # <<>> => s2[d].web /\ Accepted(s2, d)
       /\ s2[d].ui = "unused" => Last(s2, d)
       /\ d <= ch.born => Made(s2, d)
    BY <1>1, <1>3, <1>4 DEF SocketsOK
  <2>2. \A d \in Connections : \A i \in 1..Len(s2[d].toUI) :
          s2[d].toUI[i].type # "Rect" => s2[d].toUI[i].sequence # 0
    <3> TAKE d \in Connections
    <3>1. s2[d].toUI = s[d].toUI
      BY <1>3
    <3> QED BY <1>1, <3>1 DEF SocketsOK
  <2>3. k # 0 => ch.born < k /\ Made(s2, k) /\ Last(s2, k)
    BY <1>1, <1>2, <1>4 DEF SocketsOK
  <2>4. q.gone = "no" => \A d \in Connections : s2[d].ui = "open" <=> d = q.client
    BY <1>1, <1>3 DEF SocketsOK
  <2> QED BY <1>2, <2>1, <2>2, <2>3, <2>4 DEF SocketsOK
<1>8. UnreadOK(ch2, s2)
  <2> SUFFICES ASSUME NEW d \in Connections, d > ch.born,
                      NEW i \in 1..Len(s2[d].toUI), s2[d].toUI[i].type = "Frame"
               PROVE  /\ s2[d].toUI[i].sequence \in ch2.inFlight /\ Last(s2, d)
                      /\ \A j \in 1..Len(s2[d].toUI) : j < i =>
                           /\ s2[d].toUI[j].type # "Hide"
                           /\ s2[d].toUI[j].type = "Frame" =>
                                s2[d].toUI[j].sequence < s2[d].toUI[i].sequence
    BY Zenon, <1>2 DEF UnreadOK
  <2>1. s2[d].toUI = s[d].toUI
    BY <1>3
  <2>2. s[d].toUI[i].sequence \in ch.inFlight
    BY <1>1, <2>1 DEF UnreadOK
  <2>3. s[d].toUI[i].sequence \in ch2.inFlight
    BY <1>6, <2>1, <2>2
  <2> QED BY <1>1, <1>4, <2>1, <2>3 DEF UnreadOK
<1>9. FramesOK(ch2, s2, q, X)
  <2>1. ASSUME NEW x \in X PROVE FrameOK(ch2, s2, x)
    <3>1. FrameOK(ch, s, x) /\ x.conn \in Connections
      BY <1>1 DEF FramesOK, Frame
    <3>2. x.conn > ch.born => x.sequence \in ch2.inFlight
      BY <1>6, <3>1 DEF FrameOK
    <3> QED BY <1>2, <1>3, <1>4, <1>5, <3>1, <3>2 DEF FrameOK
  <2> QED BY <1>1, <1>2, <2>1 DEF FramesOK
<1>10. RepliesOK(ch2, s2, q, X)
  <2>1. ASSUME NEW r \in Reply, ReplyOK(ch, s, X, r) PROVE ReplyOK(ch2, s2, X, r)
    <3>1. r.sequence \in Nat
      BY Numbers DEF Reply
    <3>2. r.sequence < ch.next => r.sequence < ch2.next
      BY <1>2, <3>1
    <3> QED BY <1>2, <1>3, <1>4, <1>5, <2>1, <3>2 DEF ReplyOK
  <2>2. \A d \in Connections : \A i \in 1..Len(s2[d].toWeb) :
          s2[d].toWeb[i].conn = d /\ ReplyOK(ch2, s2, X, s2[d].toWeb[i])
    <3> TAKE d \in Connections
    <3>1. CASE s2[d].toWeb = s[d].toWeb
      BY <1>1, <2>1, <3>1, SocketTyped DEF RepliesOK
    <3>2. CASE s2[d].toWeb = <<>>
      BY <3>2
    <3> QED BY <1>3, <3>1, <3>2
  <2>3. \A i \in 1..Len(q.acks) : q.acks[i] \in Reply
    BY ElementOfSeq DEF LinkType
  <2> QED BY <1>1, <2>1, <2>2, <2>3 DEF RepliesOK
<1> QED BY <1>7, <1>8, <1>9, <1>10 DEF Safe

(* The WebProcess read every reply, and none confirmed its close request.   *)
LEMMA ReadsAll ==
  ASSUME NEW ch \in ChannelType, NEW s \in SocketsType, NEW q \in LinkType,
         NEW ch2 \in ChannelType, NEW s2 \in SocketsType, NEW X \in SUBSET Frame,
         NEW g \in Replied,
         Books(ch, s, q, X, g), ch.socket # 0, Reads(ch, s, q, ch2, s2),
         \A i \in 1..Len(s[ch.socket].toWeb) : /\ s[ch.socket].toWeb[i].type # "CloseComplete"
                                               /\ s[ch.socket].toWeb[i].sequence \notin ch2.inFlight,
         s2[ch.socket].toWeb = <<>>,
         ch2.closing = ch.closing, ch2.control = ch.control, ch2.early = ch.early,
         ch2.owner = ch.owner
  PROVE  Books(ch2, s2, q, X, g)
<1> DEFINE k == ch.socket
           a == s[k].toWeb
           Q == Queue(s, q, k)
           R == Queue(s2, q, k)
<1>1. /\ SocketsOK(ch, s, q) /\ Safe(ch, s, q, X)
      /\ AccountOK(ch, s, q, X) /\ NamesOK(ch, s, q, g)
      /\ ConfirmedLast(ch, s) /\ OnceOK(ch, s, q, X, g)
  BY DEF Books, Safe
<1>2. Safe(ch2, s2, q, X)
  BY <1>1, ReadsSafe
<1>3. k \in Connections /\ ch2.socket = k /\ ch2.inFlight \subseteq ch.inFlight /\ ch2.born = ch.born
  BY DEF ChannelType, Reads
<1>4. \A d \in Connections : s2[d].web = s[d].web /\ s2[d].ui = s[d].ui /\ s2[d].toUI = s[d].toUI
  BY DEF Reads
<1>5. \A d \in Connections : Accepted(s2, d) <=> Accepted(s, d)
  BY <1>4, SameEnds
<1>6. \A type \in {"Frame", "Hide"}, i \in Nat : Unread(s2, k, type, i) <=> Unread(s, k, type, i)
  BY Zenon, <1>3, <1>4 DEF Unread
<1>7. Live(ch2, s2, q) <=> Live(ch, s, q)
  BY <1>3, <1>4 DEF Live
<1>8. /\ Len(a) \in Nat /\ Len(Q) \in Nat /\ Len(R) \in Nat /\ Len(Q) = Len(a) + Len(R)
      /\ \A i \in 1..Len(Q) : \/ i \in 1..Len(a) /\ Q[i] = a[i]
                              \/ i - Len(a) \in 1..Len(R) /\ Q[i] = R[i - Len(a)]
      /\ \A i \in 1..Len(R) : i + Len(a) \in 1..Len(Q) /\ Q[i + Len(a)] = R[i]
  <2> DEFINE b == IF q.client = k THEN q.acks ELSE <<>>
  <2>1. a \in Seq(Reply) /\ b \in Seq(Reply) /\ Q = a \o b /\ R = <<>> \o b
    BY <1>3, SocketTyped DEF Queue, LinkType
  <2> HIDE DEF a, b, Q, R
  <2>2. R = b
    BY <2>1, ConcatEmptySeq
  <2>3. /\ Len(a) \in Nat /\ Len(b) \in Nat /\ Len(a \o b) = Len(a) + Len(b)
        /\ \A i \in 1..Len(a \o b) : \/ i \in 1..Len(a) /\ (a \o b)[i] = a[i]
                                     \/ i - Len(a) \in 1..Len(b) /\ (a \o b)[i] = b[i - Len(a)]
    BY <2>1, Joined
  <2>4. ASSUME NEW i \in 1..Len(b)
        PROVE  i + Len(a) \in 1..Len(a \o b) /\ (a \o b)[i + Len(a)] = b[i]
    <3>1. i + Len(a) \in 1..Len(a \o b) /\ i + Len(a) \notin 1..Len(a) /\ (i + Len(a)) - Len(a) = i
      BY <2>3
    <3> QED BY <2>3, <3>1
  <2> QED BY <2>1, <2>2, <2>3, <2>4
<1>9. \A i \in 1..Len(a) : a[i].type # "CloseComplete" /\ a[i].sequence \notin ch2.inFlight
  OBVIOUS
<1>10. \A type, i : Queued(s, q, k, type, i) <=> i \in 1..Len(Q) /\ Q[i].type = type
  BY DEF Queued
<1>11. \A type, i : Queued(s2, q, k, type, i) <=> i \in 1..Len(R) /\ R[i].type = type
  BY DEF Queued
<1>12. ConfirmedLast(ch2, s2)
  <2>1. 1..Len(s2[k].toWeb) = {}
    OBVIOUS
  <2> QED BY <1>3, <2>1 DEF ConfirmedLast
<1> HIDE DEF a, Q, R
<1>13. AccountOK(ch2, s2, q, X)
  <2> SUFFICES ASSUME Live(ch, s, q) PROVE AccountOK(ch2, s2, q, X)
    BY <1>7 DEF AccountOK
  <2>1. ASSUME NEW n \in ch2.inFlight
        PROVE  \/ \E i \in Nat : Unread(s2, k, "Frame", i) /\ s2[k].toUI[i].sequence = n
               \/ \E x \in X : x.conn > ch.born /\ x.sequence = n
               \/ \E i \in Nat : Queued(s2, q, k, "Release", i) /\ R[i].sequence = n
    <3>1. ASSUME NEW i \in Nat, i \in 1..Len(Q), Q[i].type = "Release", Q[i].sequence = n
          PROVE  \E j \in Nat : j \in 1..Len(R) /\ R[j].type = "Release" /\ R[j].sequence = n
      <4>1. i - Len(a) \in 1..Len(R) /\ Q[i] = R[i - Len(a)]
        BY Zenon, <1>8, <1>9, <2>1, <3>1
      <4>2. i - Len(a) \in Nat
        BY <1>8, <4>1
      <4> QED BY <3>1, <4>1, <4>2
    <3>2. \/ \E i \in Nat : Unread(s, k, "Frame", i) /\ s[k].toUI[i].sequence = n
          \/ \E x \in X : x.conn > ch.born /\ x.sequence = n
          \/ \E i \in Nat : Queued(s, q, k, "Release", i) /\ Q[i].sequence = n
      <4>1. n \in ch.inFlight
        BY <1>1, <1>3, <2>1
      <4> QED BY <1>1, <4>1 DEF AccountOK, Q
    <3>3. CASE \E i \in Nat : Unread(s, k, "Frame", i) /\ s[k].toUI[i].sequence = n
      <4>1. s2[k].toUI = s[k].toUI
        BY <1>3, <1>4
      <4> QED BY <1>6, <3>3, <4>1
    <3>4. CASE \E i \in Nat : Queued(s, q, k, "Release", i) /\ Q[i].sequence = n
      BY Zenon, <1>10, <1>11, <3>1, <3>4
    <3> QED BY <3>2, <3>3, <3>4
  <2>2. ASSUME NEW i \in Nat, i \in 1..Len(R), R[i].type = "Release"
        PROVE  /\ R[i].sequence \in ch.inFlight
               /\ \A j \in Nat : j \in 1..Len(R) /\ R[j].type = "Release"
                                 /\ R[i].sequence = R[j].sequence => i = j
               /\ R[i].sequence \in ch2.inFlight
    <3>1. i + Len(a) \in Nat /\ i + Len(a) \in 1..Len(Q) /\ Q[i + Len(a)] = R[i]
      BY <1>8, <2>2
    <3>2. Queued(s, q, k, "Release", i + Len(a))
      BY <1>10, <2>2, <3>1
    <3>3. R[i].sequence \in ch.inFlight
      BY <1>1, <3>1, <3>2 DEF AccountOK, Q
    <3>4. ASSUME NEW j \in Nat, j \in 1..Len(R), R[j].type = "Release", R[i].sequence = R[j].sequence
          PROVE  i = j
      <4>1. j + Len(a) \in Nat /\ j + Len(a) \in 1..Len(Q) /\ Q[j + Len(a)] = R[j]
        BY <1>8, <3>4
      <4>2. Queued(s, q, k, "Release", j + Len(a))
        BY <1>10, <3>4, <4>1
      <4>3. i + Len(a) = j + Len(a)
        BY <1>1, <3>1, <3>2, <3>4, <4>1, <4>2 DEF AccountOK, Q
      <4> QED BY <1>8, <4>3
    <3>5. R[i].sequence \in ch2.inFlight
      <4> SUFFICES ASSUME R[i].sequence \notin ch2.inFlight PROVE FALSE
        OBVIOUS
      <4>1. PICK j \in 1..Len(a) : a[j].type = "Release" /\ a[j].sequence = R[i].sequence
        BY <3>3 DEF Reads, a
      <4>2. j \in Nat /\ j \in 1..Len(Q) /\ Q[j] = a[j] /\ j # i + Len(a)
        <5>1. j \in Nat /\ j \in 1..Len(Q) /\ j # i + Len(a)
          BY <1>8, <2>2
        <5>2. ~(j - Len(a) \in 1..Len(R))
          BY <1>8
        <5> QED BY <1>8, <5>1, <5>2
      <4>3. Queued(s, q, k, "Release", j)
        BY <1>10, <4>1, <4>2
      <4> QED BY <1>1, <3>1, <3>2, <4>1, <4>2, <4>3 DEF AccountOK, Q
    <3> QED BY <3>3, <3>4, <3>5
  <2> QED BY <1>3, <1>11, <2>1, <2>2 DEF AccountOK, R
<1>14. \A i \in Nat : Queued(s2, q, k, "CloseComplete", i) =>
         /\ Queued(s, q, k, "CloseComplete", i + Len(a)) /\ i + Len(a) \in Nat
         /\ Q[i + Len(a)] = R[i] /\ (i + Len(a) = Len(Q) => i = Len(R))
  BY <1>8, <1>10, <1>11
<1>15. Confirmed(ch, s, q) <=> Confirmed(ch2, s2, q)
  <2>1. Confirmed(ch2, s2, q) => Confirmed(ch, s, q)
    BY <1>3, <1>14 DEF Confirmed
  <2>2. ASSUME NEW i \in Nat, Queued(s, q, k, "CloseComplete", i) PROVE Confirmed(ch2, s2, q)
    <3>1. i - Len(a) \in 1..Len(R) /\ Q[i] = R[i - Len(a)] /\ i - Len(a) \in Nat
      BY <1>8, <1>9, <1>10, <2>2
    <3> QED BY <1>3, <1>10, <1>11, <2>2, <3>1 DEF Confirmed
  <2> QED BY <2>1, <2>2 DEF Confirmed
<1>16. NamesOK(ch2, s2, q, g)
  <2>1. g # None => /\ g.type = "CloseComplete" /\ Accepted(s2, g.conn)
                    /\ q.client # 0 => g.conn = q.client
    <3>1. g # None => g.conn \in Connections
      BY DEF Replied, Reply
    <3> QED BY <1>1, <1>5, <3>1 DEF NamesOK
  <2>2. \A i \in Nat : Unread(s2, k, "Hide", i) =>
            s2[k].toUI[i].sequence = ch.closing /\ ch.closing # 0
    BY <1>1, <1>3, <1>4, <1>6 DEF NamesOK
  <2>3. \A i \in Nat : Queued(s2, q, k, "CloseComplete", i) =>
            R[i].sequence = ch.closing /\ ch.closing # 0
    BY <1>1, <1>14 DEF NamesOK, Q
  <2> QED BY <1>1, <1>3, <2>1, <2>2, <2>3 DEF NamesOK, InControl, Owed, R
<1>17. OnceOK(ch2, s2, q, X, g)
  <2>1. Asked(ch2, s2) <=> Asked(ch, s)
    BY <1>3, <1>6 DEF Asked
  <2>2. (InControl(ch2) <=> InControl(ch)) /\ (Owed(ch2, g) <=> Owed(ch, g))
    BY <1>3 DEF InControl, Owed
  <2>3. Live(ch, s, q) => \A i \in Nat : Queued(s2, q, k, "CloseComplete", i) =>
                                           i = Len(R) /\ X = {}
    BY <1>1, <1>14 DEF OnceOK, Q
  <2> QED BY <1>1, <1>3, <1>6, <1>7, <1>15, <2>1, <2>2, <2>3 DEF OnceOK, R
<1> QED BY <1>2, <1>12, <1>13, <1>16, <1>17 DEF Books

(* The channel closes its end, or has none: what it asked for is forgotten.  *)
LEMMA CloseKeeps ==
  ASSUME NEW ch \in ChannelType, NEW s \in SocketsType, NEW q \in LinkType,
         NEW ch2 \in ChannelType, NEW s2 \in SocketsType, NEW X \in SUBSET Frame,
         NEW g \in Replied,
         Safe(ch, s, q, X),
         g # None => /\ g.type = "CloseComplete" /\ Accepted(s, g.conn)
                     /\ q.client # 0 => g.conn = q.client,
         ch2.socket = 0, ch2.control = None, ~ch2.early, ch2.closing # 0 => ch2.owner = None,
         ch2.inFlight = ch.inFlight, ch.next <= ch2.next, ch2.born = ch.born,
         \A d \in Connections : /\ s2[d].toUI = s[d].toUI /\ s2[d].ui = s[d].ui
                                /\ d # ch.socket => s2[d].web = s[d].web /\ s2[d].toWeb = s[d].toWeb
                                /\ d = ch.socket => s2[d].web = FALSE /\ s2[d].toWeb = <<>>
  PROVE  Books(ch2, s2, q, X, g)
<1>1. SocketsOK(ch, s, q) /\ UnreadOK(ch, s) /\ FramesOK(ch, s, q, X) /\ RepliesOK(ch, s, q, X)
  BY DEF Safe
<1>2. \A d \in Connections : /\ Made(s2, d) <=> Made(s, d)
                             /\ Accepted(s2, d) <=> Accepted(s, d)
                             /\ Last(s2, d) <=> Last(s, d)
  BY SameEnds
<1>3. \A d \in Connections, type \in {"Frame", "Hide"}, i \in Nat :
         Unread(s2, d, type, i) <=> Unread(s, d, type, i)
  BY DEF Unread
<1>4. \A d \in Connections : d # 0
  BY Numbers
<1>5. SocketsOK(ch2, s2, q)
  <2>1. \A d \in Connections :
       /\ s2[d].web <=> d = ch2.socket
       /\ s2[d].toUI # <<>> => s2[d].ui \in {"backlog", "open"}
       /\ s2[d].toWeb # <<>> => s2[d].web /\ Accepted(s2, d)
       /\ s2[d].ui = "unused" => Last(s2, d)
       /\ d <= ch2.born => Made(s2, d)
    <3> TAKE d \in Connections
    <3>1. CASE d = ch.socket
      BY <1>1, <1>2, <1>4, <3>1 DEF SocketsOK
    <3>2. CASE d # ch.socket
      BY <1>1, <1>2, <1>4, <3>2 DEF SocketsOK
    <3> QED BY <3>1, <3>2
  <2>2. \A d \in Connections : \A i \in 1..Len(s2[d].toUI) :
          s2[d].toUI[i].type # "Rect" => s2[d].toUI[i].sequence # 0
    <3> TAKE d \in Connections
    <3>1. s2[d].toUI = s[d].toUI
      OBVIOUS
    <3> QED BY <1>1, <3>1 DEF SocketsOK
  <2>3. q.gone = "no" => \A d \in Connections : s2[d].ui = "open" <=> d = q.client
    BY <1>1 DEF SocketsOK
  <2> QED BY <2>1, <2>2, <2>3 DEF SocketsOK
<1>6. UnreadOK(ch2, s2)
  <2> SUFFICES ASSUME NEW d \in Connections, d > ch.born,
                      NEW i \in 1..Len(s2[d].toUI), s2[d].toUI[i].type = "Frame"
               PROVE  /\ s2[d].toUI[i].sequence \in ch.inFlight /\ Last(s2, d)
                      /\ \A j \in 1..Len(s2[d].toUI) : j < i =>
                           /\ s2[d].toUI[j].type # "Hide"
                           /\ s2[d].toUI[j].type = "Frame" =>
                                s2[d].toUI[j].sequence < s2[d].toUI[i].sequence
    BY DEF UnreadOK
  <2>1. s2[d].toUI = s[d].toUI
    OBVIOUS
  <2> QED BY <1>1, <1>2, <2>1 DEF UnreadOK
<1>7. FramesOK(ch2, s2, q, X)
  <2>1. ASSUME NEW x \in X PROVE FrameOK(ch2, s2, x)
    <3>1. FrameOK(ch, s, x) /\ x.conn \in Connections
      BY <1>1 DEF FramesOK, Frame
    <3> QED BY <1>2, <1>3, <3>1 DEF FrameOK
  <2> QED BY <1>1, <2>1 DEF FramesOK
<1>8. RepliesOK(ch2, s2, q, X)
  <2>1. ASSUME NEW r \in Reply, ReplyOK(ch, s, X, r) PROVE ReplyOK(ch2, s2, X, r)
    <3>1. r.sequence \in Nat /\ ch.next \in Nat /\ ch2.next \in Nat
      BY Numbers, ChannelNumbers DEF Reply
    <3>2. r.sequence < ch.next => r.sequence < ch2.next
      BY <3>1
    <3> QED BY <1>2, <1>3, <2>1, <3>2 DEF ReplyOK
  <2>2. \A d \in Connections : \A i \in 1..Len(s2[d].toWeb) :
          s2[d].toWeb[i].conn = d /\ ReplyOK(ch2, s2, X, s2[d].toWeb[i])
    <3> TAKE d \in Connections
    <3>1. CASE s2[d].toWeb = s[d].toWeb
      BY <1>1, <2>1, <3>1, SocketTyped DEF RepliesOK
    <3>2. CASE s2[d].toWeb = <<>>
      BY <3>2
    <3> QED BY <3>1, <3>2
  <2>3. \A i \in 1..Len(q.acks) : q.acks[i] \in Reply
    BY ElementOfSeq DEF LinkType
  <2> QED BY <1>1, <2>1, <2>2, <2>3 DEF RepliesOK
<1>9. NamesOK(ch2, s2, q, g)
  <2>1. g # None => g.conn \in Connections
    BY DEF Replied, Reply
  <2> QED BY <1>2, <2>1 DEF NamesOK, InControl
<1>10. AccountOK(ch2, s2, q, X) /\ ConfirmedLast(ch2, s2) /\ OnceOK(ch2, s2, q, X, g)
  BY DEF AccountOK, ConfirmedLast, OnceOK, Live
<1> QED BY <1>5, <1>6, <1>7, <1>8, <1>9, <1>10 DEF Books, Safe

(* The channel connects, with no sample in flight.                          *)
LEMMA ConnectKeeps ==
  ASSUME NEW ch \in ChannelType, NEW s \in SocketsType, NEW q \in LinkType,
         NEW ch2 \in ChannelType, NEW s2 \in SocketsType, NEW X \in SUBSET Frame,
         NEW g \in Replied, NEW c \in Connections,
         Books(ch, s, q, X, g), ch.socket = 0, ch.inFlight = {}, ch.closing = 0, q.gone = "no",
         ch2.socket = c, ch2.inFlight = {}, ch2.closing = 0, ch2.early = ch.early,
         ch2.control = ch.control, ch2.born = ch.born, ch2.next = ch.next, ch2.owner = ch.owner,
         s[c].ui = "unused", \A d \in Connections : d < c => Made(s, d),
         s2[c].web, s2[c].ui = "backlog", s2[c].toUI = s[c].toUI, s2[c].toWeb = s[c].toWeb,
         \A d \in Connections : d # c => s2[d] = s[d]
  PROVE  Books(ch2, s2, q, X, g)
<1>1. /\ SocketsOK(ch, s, q) /\ UnreadOK(ch, s) /\ FramesOK(ch, s, q, X) /\ RepliesOK(ch, s, q, X)
      /\ NamesOK(ch, s, q, g)
  BY DEF Books, Safe
<1>2. c # 0 /\ c \in Nat /\ ch.born \in Nat
  BY Numbers, ChannelNumbers
<1>3. Last(s, c) /\ s[c].toUI = <<>> /\ s[c].toWeb = <<>> /\ ~Made(s, c) /\ q.client # c
  BY <1>1 DEF SocketsOK, Accepted, Made
<1>4. \A d \in Connections : /\ Made(s, d) => Made(s2, d)
                             /\ Accepted(s, d) <=> Accepted(s2, d)
                             /\ s2[d].toUI = s[d].toUI /\ s2[d].toWeb = s[d].toWeb
                             /\ s2[d].ui = "open" <=> s[d].ui = "open"
  <2> TAKE d \in Connections
  <2>1. CASE d = c
    BY <2>1 DEF Made, Accepted
  <2>2. CASE d # c
    BY <2>2 DEF Made, Accepted
  <2> QED BY <2>1, <2>2
<1>5. Last(s2, c) /\ Made(s2, c)
  BY <1>2, <1>3, Numbers DEF Last, Made
<1>6. \A d \in Connections, type \in {"Frame", "Hide"}, i \in Nat :
         Unread(s2, d, type, i) <=> Unread(s, d, type, i)
  BY <1>4 DEF Unread
<1>7. ch.born < c
  <2>1. ~(c <= ch.born)
    BY <1>1, <1>3 DEF SocketsOK
  <2> QED BY <1>2, <2>1
<1>8. SocketsOK(ch2, s2, q)
  <2>1. \A d \in Connections :
       /\ s2[d].web <=> d = c
       /\ s2[d].toUI # <<>> => s2[d].ui \in {"backlog", "open"}
       /\ s2[d].toWeb # <<>> => s2[d].web /\ Accepted(s2, d)
       /\ d <= ch.born => Made(s2, d)
    <3> TAKE d \in Connections
    <3>1. CASE d = c
      BY <1>1, <1>3, <1>4, <1>5, <3>1
    <3>2. CASE d # c
      BY <1>1, <1>2, <1>4, <3>2, Numbers DEF SocketsOK
    <3> QED BY <3>1, <3>2
  <2>2. ASSUME NEW d \in Connections, s2[d].ui = "unused" PROVE Last(s2, d)
    <3>1. d # c /\ s[d].ui = "unused" /\ Last(s, d)
      BY <1>1, <2>2 DEF SocketsOK
    <3>2. ~(d < c)
      BY <3>1 DEF Made
    <3>3. d > c
      BY <1>2, <3>1, <3>2, Numbers
    <3>4. \A e \in Connections : e > d => e # c
      BY <1>2, <3>3, Numbers
    <3> QED BY <3>1, <3>4 DEF Last
  <2>3. \A d \in Connections : \A i \in 1..Len(s2[d].toUI) :
          s2[d].toUI[i].type # "Rect" => s2[d].toUI[i].sequence # 0
    <3> TAKE d \in Connections
    <3>1. s2[d].toUI = s[d].toUI
      BY <1>4
    <3> QED BY <1>1, <3>1 DEF SocketsOK
  <2>4. \A d \in Connections : s2[d].ui = "open" <=> d = q.client
    BY <1>1, <1>4 DEF SocketsOK
  <2> QED BY <1>5, <1>7, <2>1, <2>2, <2>3, <2>4 DEF SocketsOK
<1>9. \A d \in Connections, i \in Nat : d > ch.born => ~Unread(s, d, "Frame", i)
  BY <1>1 DEF UnreadOK, Unread
<1>10. \A x \in X : ~(x.conn > ch.born)
  BY <1>1 DEF FramesOK, FrameOK
<1>11. UnreadOK(ch2, s2)
  <2>1. ASSUME NEW d \in Connections, d > ch.born, NEW i \in 1..Len(s2[d].toUI),
               s2[d].toUI[i].type = "Frame"
        PROVE  FALSE
    <3>1. i \in Nat /\ Unread(s2, d, "Frame", i)
      BY <2>1, SocketTyped DEF Unread
    <3> QED BY <1>6, <1>9, <2>1, <3>1
  <2> QED BY <2>1 DEF UnreadOK
<1>12. FramesOK(ch2, s2, q, X)
  <2>1. ASSUME NEW x \in X PROVE FrameOK(ch2, s2, x)
    <3>1. FrameOK(ch, s, x) /\ x.conn \in Connections
      BY <1>1 DEF FramesOK, Frame
    <3> QED BY <1>4, <1>10, <3>1 DEF FrameOK
  <2> QED BY <1>1, <1>10, <2>1 DEF FramesOK
<1>13. RepliesOK(ch2, s2, q, X)
  <2>1. ASSUME NEW r, ReplyOK(ch, s, X, r) PROVE ReplyOK(ch2, s2, X, r)
    BY <1>4, <1>6, <1>9, <1>10, <2>1 DEF ReplyOK
  <2>2. \A d \in Connections : \A i \in 1..Len(s2[d].toWeb) :
          s2[d].toWeb[i].conn = d /\ ReplyOK(ch2, s2, X, s2[d].toWeb[i])
    <3> TAKE d \in Connections
    <3>1. s2[d].toWeb = s[d].toWeb
      BY <1>4
    <3> QED BY <1>1, <2>1, <3>1 DEF RepliesOK
  <2> QED BY <1>1, <2>1, <2>2 DEF RepliesOK
<1>14. Queue(s2, q, c) = <<>> /\ Queue(s2, q, ch2.socket) = <<>>
  <2>1. Queue(s2, q, c) = s2[c].toWeb
    BY Zenon, <1>3, QueueIs
  <2> QED BY <1>3, <1>4, <2>1
<1>15. \A i \in Nat, type \in {"Frame", "Hide"} : ~Unread(s2, c, type, i)
  BY <1>3, <1>4 DEF Unread
<1>16. ~Owed(ch2, g) /\ (g # None => g.conn \in Connections /\ Accepted(s, g.conn))
  <2>1. g # None => g.conn \in Connections /\ Accepted(s, g.conn)
    BY <1>1 DEF Replied, Reply, NamesOK
  <2> QED BY <2>1 DEF Owed, Accepted
<1>17. ch.control = None
  BY <1>1 DEF NamesOK
<1>18. NamesOK(ch2, s2, q, g)
  <2>1. g # None => /\ g.type = "CloseComplete" /\ Accepted(s2, g.conn)
                    /\ q.client # 0 => g.conn = q.client
    BY <1>1, <1>4, <1>16 DEF NamesOK
  <2>2. ~InControl(ch2)
    BY <1>17 DEF InControl
  <2>3. \A i \in Nat : ~Queued(s2, q, c, "CloseComplete", i)
    BY <1>14 DEF Queued
  <2> QED BY <1>1, <1>15, <1>16, <1>17, <2>1, <2>2, <2>3 DEF NamesOK
<1>19. AccountOK(ch2, s2, q, X)
  <2>1. \A i \in Nat : ~Queued(s2, q, c, "Release", i)
    BY <1>14 DEF Queued
  <2> QED BY <2>1 DEF AccountOK
<1>20. OnceOK(ch2, s2, q, X, g)
  <2>1. \A i \in Nat : ~Queued(s2, q, c, "CloseComplete", i)
    BY <1>14 DEF Queued
  <2>2. ~Confirmed(ch2, s2, q) /\ ~Asked(ch2, s2)
    BY <1>15, <2>1 DEF Confirmed, Asked
  <2> QED BY <1>15, <1>16, <2>1, <2>2 DEF OnceOK
<1>21. ConfirmedLast(ch2, s2)
  BY DEF ConfirmedLast
<1> QED BY <1>8, <1>11, <1>12, <1>13, <1>18, <1>19, <1>20, <1>21 DEF Books, Safe

(* Without a close request nothing names one.                               *)
LEMMA Unnamed ==
  ASSUME NEW ch \in ChannelType, NEW s \in SocketsType, NEW q \in LinkType, NEW g,
         NamesOK(ch, s, q, g), ch.closing = 0
  PROVE  /\ ~InControl(ch)
         /\ ch.socket # 0 =>
              /\ ~Owed(ch, g) /\ ~Confirmed(ch, s, q) /\ ~Asked(ch, s)
              /\ \A i \in Nat : /\ ~Unread(s, ch.socket, "Hide", i)
                                /\ ~Queued(s, q, ch.socket, "CloseComplete", i)
              /\ \A i \in 1..Len(s[ch.socket].toWeb) : s[ch.socket].toWeb[i].type # "CloseComplete"
<1>1. ~InControl(ch)
  BY DEF NamesOK, InControl
<1>2. ASSUME ch.socket # 0
      PROVE  /\ ~Owed(ch, g)
             /\ \A i \in Nat : /\ ~Unread(s, ch.socket, "Hide", i)
                               /\ ~Queued(s, q, ch.socket, "CloseComplete", i)
  BY <1>2 DEF NamesOK
<1>3. ASSUME ch.socket # 0, NEW i \in 1..Len(s[ch.socket].toWeb)
      PROVE  s[ch.socket].toWeb[i].type # "CloseComplete"
  <2>1. ch.socket \in Connections
    BY <1>3 DEF ChannelType
  <2>2. /\ i \in 1..Len(Queue(s, q, ch.socket)) /\ i \in Nat
        /\ Queue(s, q, ch.socket)[i] = s[ch.socket].toWeb[i]
    BY <1>3, <2>1, QueuedFirst, SocketTyped
  <2> QED BY <1>2, <1>3, <2>2 DEF Queued
<1> QED BY <1>1, <1>2, <1>3 DEF Confirmed, Asked

(* What the channel notes without a packet: another owner or rectangle, a   *)
(* control packet that is put off, and that ECONNRESET was read.            *)
LEMMA NotesKeeps ==
  ASSUME NEW ch \in ChannelType, NEW s \in SocketsType, NEW q \in LinkType,
         NEW ch2 \in ChannelType, NEW s2 \in SocketsType, NEW X \in SUBSET Frame,
         NEW g \in Replied, Books(ch, s, q, X, g),
         ch2.socket = ch.socket, ch2.born = ch.born, ch2.early = ch.early,
         ch2.inFlight = ch.inFlight, ch.next <= ch2.next, ch2.closing # 0 => ch2.owner = None,
         \/ /\ ch2.closing = ch.closing /\ (InControl(ch2) <=> InControl(ch))
            /\ ch2.control = ch.control
               \/ (~InControl(ch) /\ (ch2.control # None => ch.socket # 0 /\ ch2.control.type = "Rect"))
         \/ /\ ch.closing = 0 /\ ch2.closing # 0 /\ ch.socket # 0
            /\ ch2.control # None /\ ch2.control.type = "Hide" /\ ch2.control.sequence = ch2.closing,
         \A d \in Connections : /\ s2[d].toUI = s[d].toUI /\ s2[d].ui = s[d].ui
                                /\ s2[d].web = s[d].web /\ s2[d].toWeb = s[d].toWeb
  PROVE  Books(ch2, s2, q, X, g)
<1> DEFINE k == ch.socket
<1>1. /\ SocketsOK(ch, s, q) /\ Safe(ch, s, q, X)
      /\ AccountOK(ch, s, q, X) /\ NamesOK(ch, s, q, g)
      /\ ConfirmedLast(ch, s) /\ OnceOK(ch, s, q, X, g)
  BY DEF Books, Safe
<1>2. \A d \in Connections : /\ Made(s2, d) <=> Made(s, d)
                             /\ Accepted(s2, d) <=> Accepted(s, d)
                             /\ Last(s2, d) <=> Last(s, d)
  BY SameEnds
<1>3. k \in {0} \cup Connections
  BY DEF ChannelType
<1>4. Safe(ch2, s2, q, X)
  <2>1. CASE k # 0
    <3>1. Reads(ch, s, q, ch2, s2)
      BY DEF Reads
    <3> QED BY <1>1, <2>1, <3>1, ReadsSafe
  <2>2. CASE k = 0
    <3>1. UnreadOK(ch, s) /\ FramesOK(ch, s, q, X) /\ RepliesOK(ch, s, q, X)
      BY <1>1 DEF Safe
    <3>2. \A d \in Connections, type \in {"Frame", "Hide"}, i \in Nat :
             Unread(s2, d, type, i) <=> Unread(s, d, type, i)
      BY DEF Unread
    <3>3. SocketsOK(ch2, s2, q)
      <4>1. \A d \in Connections :
           /\ s2[d].web <=> d = ch2.socket
           /\ s2[d].toUI # <<>> => s2[d].ui \in {"backlog", "open"}
           /\ s2[d].toWeb # <<>> => s2[d].web /\ Accepted(s2, d)
           /\ s2[d].ui = "unused" => Last(s2, d)
           /\ d <= ch2.born => Made(s2, d)
        BY <1>1, <1>2 DEF SocketsOK
      <4>2. \A d \in Connections : \A i \in 1..Len(s2[d].toUI) :
              s2[d].toUI[i].type # "Rect" => s2[d].toUI[i].sequence # 0
        <5> TAKE d \in Connections
        <5>1. s2[d].toUI = s[d].toUI
          OBVIOUS
        <5> QED BY <1>1, <5>1 DEF SocketsOK
      <4>3. q.gone = "no" => \A d \in Connections : s2[d].ui = "open" <=> d = q.client
        BY <1>1 DEF SocketsOK
      <4> QED BY <2>2, <4>1, <4>2, <4>3 DEF SocketsOK
    <3>4. UnreadOK(ch2, s2)
      <4> SUFFICES ASSUME NEW d \in Connections, d > ch.born,
                          NEW i \in 1..Len(s2[d].toUI), s2[d].toUI[i].type = "Frame"
                   PROVE  /\ s2[d].toUI[i].sequence \in ch.inFlight /\ Last(s2, d)
                          /\ \A j \in 1..Len(s2[d].toUI) : j < i =>
                               /\ s2[d].toUI[j].type # "Hide"
                               /\ s2[d].toUI[j].type = "Frame" =>
                                    s2[d].toUI[j].sequence < s2[d].toUI[i].sequence
        BY DEF UnreadOK
      <4>1. s2[d].toUI = s[d].toUI
        OBVIOUS
      <4> QED BY <1>2, <3>1, <4>1 DEF UnreadOK
    <3>5. FramesOK(ch2, s2, q, X)
      <4>1. ASSUME NEW x \in X PROVE FrameOK(ch2, s2, x)
        <5>1. FrameOK(ch, s, x) /\ x.conn \in Connections
          BY <3>1 DEF FramesOK, Frame
        <5> QED BY <1>2, <3>2, <5>1 DEF FrameOK
      <4> QED BY <3>1, <4>1 DEF FramesOK
    <3>6. RepliesOK(ch2, s2, q, X)
      <4>1. ASSUME NEW r \in Reply, ReplyOK(ch, s, X, r) PROVE ReplyOK(ch2, s2, X, r)
        <5>1. r.sequence \in Nat /\ ch.next \in Nat /\ ch2.next \in Nat
          BY Numbers, ChannelNumbers DEF Reply
        <5>2. r.sequence < ch.next => r.sequence < ch2.next
          BY <5>1
        <5> QED BY <1>2, <3>2, <4>1, <5>2 DEF ReplyOK
      <4>2. \A d \in Connections : \A i \in 1..Len(s2[d].toWeb) :
              s2[d].toWeb[i].conn = d /\ ReplyOK(ch2, s2, X, s2[d].toWeb[i])
        <5> TAKE d \in Connections
        <5>1. s2[d].toWeb = s[d].toWeb
          OBVIOUS
        <5> QED BY <3>1, <4>1, <5>1, SocketTyped DEF RepliesOK
      <4>3. \A i \in 1..Len(q.acks) : q.acks[i] \in Reply
        BY ElementOfSeq DEF LinkType
      <4> QED BY <3>1, <4>1, <4>2, <4>3 DEF RepliesOK
    <3> QED BY <3>3, <3>4, <3>5, <3>6 DEF Safe
  <2> QED BY <2>1, <2>2
<1>5. Live(ch2, s2, q) <=> Live(ch, s, q)
  BY <1>3 DEF Live
<1>6. k # 0 =>
         /\ Queue(s2, q, k) = Queue(s, q, k) /\ k \in Connections
         /\ \A type \in {"Release", "CloseComplete"}, i \in Nat :
              Queued(s2, q, k, type, i) <=> Queued(s, q, k, type, i)
         /\ Confirmed(ch2, s2, q) <=> Confirmed(ch, s, q)
         /\ Asked(ch2, s2) <=> Asked(ch, s)
         /\ \A type \in {"Frame", "Hide"}, i \in Nat : Unread(s2, k, type, i) <=> Unread(s, k, type, i)
         /\ s2[k].toUI = s[k].toUI /\ s2[k].toWeb = s[k].toWeb
         /\ Owed(ch2, g) <=> Owed(ch, g)
  <2> SUFFICES ASSUME k # 0 PROVE
         /\ Queue(s2, q, k) = Queue(s, q, k) /\ k \in Connections
         /\ \A type \in {"Release", "CloseComplete"}, i \in Nat :
              Queued(s2, q, k, type, i) <=> Queued(s, q, k, type, i)
         /\ Confirmed(ch2, s2, q) <=> Confirmed(ch, s, q)
         /\ Asked(ch2, s2) <=> Asked(ch, s)
         /\ \A type \in {"Frame", "Hide"}, i \in Nat : Unread(s2, k, type, i) <=> Unread(s, k, type, i)
         /\ s2[k].toUI = s[k].toUI /\ s2[k].toWeb = s[k].toWeb
         /\ Owed(ch2, g) <=> Owed(ch, g)
    OBVIOUS
  <2>1. k \in Connections /\ Queue(s2, q, k) = Queue(s, q, k)
    BY Zenon, <1>3 DEF Queue
  <2>2. \A type, i : Queued(s2, q, k, type, i) <=> Queued(s, q, k, type, i)
    BY <2>1 DEF Queued
  <2>3. \A type, i : Unread(s2, k, type, i) <=> Unread(s, k, type, i)
    BY <2>1 DEF Unread
  <2> QED BY <2>1, <2>2, <2>3 DEF Confirmed, Asked, Owed
<1>7. AccountOK(ch2, s2, q, X)
  BY <1>1, <1>5, <1>6 DEF AccountOK, Live
<1>8. ConfirmedLast(ch2, s2)
  BY <1>1, <1>6 DEF ConfirmedLast
<1>9. ch2.closing = ch.closing \/ (ch.closing = 0 /\ ~InControl(ch)
         /\ (k # 0 => ~Owed(ch, g) /\ ~Confirmed(ch, s, q) /\ ~Asked(ch, s)))
  BY <1>1, Unnamed
<1>10. NamesOK(ch2, s2, q, g)
  <2>1. g # None => /\ g.type = "CloseComplete" /\ Accepted(s2, g.conn)
                    /\ q.client # 0 => g.conn = q.client
    <3>1. g # None => g.conn \in Connections
      BY DEF Replied, Reply
    <3> QED BY <1>1, <1>2, <3>1 DEF NamesOK
  <2>2. ch2.control # None =>
       /\ k # 0 /\ ch2.control.type # "Frame"
       /\ InControl(ch2) => ch2.control.sequence = ch2.closing /\ ch2.closing # 0
    BY <1>1 DEF NamesOK, InControl
  <2>3. ASSUME k # 0
        PROVE  /\ \A i \in Nat : Unread(s2, k, "Hide", i) =>
                    s2[k].toUI[i].sequence = ch2.closing /\ ch2.closing # 0
               /\ Owed(ch2, g) => g.sequence = ch2.closing /\ ch2.closing # 0
               /\ \A i \in Nat : Queued(s2, q, k, "CloseComplete", i) =>
                    Queue(s2, q, k)[i].sequence = ch2.closing /\ ch2.closing # 0
    BY <1>1, <1>6, <1>9, <2>3 DEF NamesOK, Confirmed, Asked
  <2> QED BY <1>1, <2>1, <2>2, <2>3 DEF NamesOK
<1>11. OnceOK(ch2, s2, q, X, g)
  <2> SUFFICES ASSUME Live(ch, s, q) PROVE OnceOK(ch2, s2, q, X, g)
    BY <1>5 DEF OnceOK
  <2>1. k # 0
    BY DEF Live
  <2>2. CASE ch2.closing = ch.closing /\ (InControl(ch2) <=> InControl(ch))
    BY <1>1, <1>6, <2>1, <2>2 DEF OnceOK
  <2>3. CASE ch2.closing # ch.closing
    <3>1. InControl(ch2) /\ ~Owed(ch, g) /\ ~Confirmed(ch, s, q) /\ ~Asked(ch, s)
      BY <1>9, <2>1, <2>3 DEF InControl
    <3> QED BY <1>1, <1>6, <2>1, <3>1 DEF OnceOK
  <2> QED BY <2>2, <2>3
<1> QED BY <1>4, <1>7, <1>8, <1>10, <1>11 DEF Books

(* A packet is sent after those that wait.                                  *)
Sends(ch, s, s2, p) ==
  LET k == ch.socket
  IN  /\ k # 0 /\ s[k].ui # "closed"
      /\ s2[k].toUI = Append(s[k].toUI, p) /\ s2[k].toWeb = s[k].toWeb
      /\ s2[k].web = s[k].web /\ s2[k].ui = s[k].ui
      /\ \A d \in Connections : d # k => s2[d] = s[d]

(* Sending a packet puts it last and leaves the others in place.            *)
LEMMA SendShifts ==
  ASSUME NEW ch \in ChannelType, NEW s \in SocketsType, NEW s2 \in SocketsType,
         NEW p \in Packet, Sends(ch, s, s2, p)
  PROVE  LET k == ch.socket
             n == Len(s[ch.socket].toUI)
         IN  /\ k \in Connections /\ n \in Nat /\ Len(s2[k].toUI) = n + 1
             /\ s2[k].toUI[n + 1] = p /\ \A i \in 1..n : s2[k].toUI[i] = s[k].toUI[i]
             /\ \A d \in Connections, type \in {"Frame", "Hide"}, i \in Nat :
                  Unread(s2, d, type, i) <=>
                    Unread(s, d, type, i) \/ (d = k /\ i = n + 1 /\ p.type = type)
             /\ \A d \in Connections, type \in {"Frame", "Hide"}, i \in Nat :
                  Unread(s, d, type, i) => s2[d].toUI[i] = s[d].toUI[i]
             /\ \A d \in Connections : s2[d].ui = s[d].ui
<1> DEFINE k == ch.socket
           n == Len(s[k].toUI)
<1>1. k \in Connections
  BY DEF Sends, ChannelType
<1>2. s[k].toUI \in Seq(Packet) /\ n \in Nat /\ s2[k].toUI = Append(s[k].toUI, p)
  BY <1>1, SocketTyped DEF Sends
<1>3. /\ Len(s2[k].toUI) = n + 1 /\ s2[k].toUI[n + 1] = p
      /\ \A i \in 1..n : s2[k].toUI[i] = s[k].toUI[i]
  BY <1>2, AppendProperties
<1>4. \A d \in Connections : d # k => s2[d] = s[d]
  BY DEF Sends
<1> HIDE DEF n
<1>5. \A type \in {"Frame", "Hide"}, i \in Nat :
        /\ Unread(s2, k, type, i) <=> Unread(s, k, type, i) \/ (i = n + 1 /\ p.type = type)
        /\ Unread(s, k, type, i) => s2[k].toUI[i] = s[k].toUI[i]
  BY <1>2, <1>3 DEF Unread, n
<1>6. \A d \in Connections : d # k =>
        \A type \in {"Frame", "Hide"}, i \in Nat :
          /\ Unread(s2, d, type, i) <=> Unread(s, d, type, i)
          /\ Unread(s, d, type, i) => s2[d].toUI[i] = s[d].toUI[i]
  BY <1>4 DEF Unread
<1>7. \A d \in Connections : s2[d].ui = s[d].ui
  BY <1>4 DEF Sends
<1>8. \A d \in Connections, type \in {"Frame", "Hide"}, i \in Nat :
        /\ Unread(s2, d, type, i) <=>
             Unread(s, d, type, i) \/ (d = k /\ i = n + 1 /\ p.type = type)
        /\ Unread(s, d, type, i) => s2[d].toUI[i] = s[d].toUI[i]
  <2> TAKE d \in Connections, type \in {"Frame", "Hide"}, i \in Nat
  <2>1. CASE d = k
    BY <1>5, <2>1
  <2>2. CASE d # k
    BY <1>6, <2>2
  <2> QED BY <2>1, <2>2
<1> QED BY <1>1, <1>2, <1>3, <1>7, <1>8 DEF n

(* What is sent is the next sample, a rectangle, or a close request that    *)
(* was put off or is new.                                                   *)
Posts(ch, ch2, p) ==
  /\ ch2.socket = ch.socket /\ ch2.born = ch.born /\ ch2.early = ch.early
  /\ ch2.closing # 0 => ch2.owner = None
  /\ \/ /\ p.type = "Frame" /\ p.sequence = ch.next /\ ch.closing = 0 /\ ch2.closing = 0
        /\ ch2.inFlight = ch.inFlight \cup {ch.next} /\ ch2.next = ch.next + 1
        /\ ch2.control = ch.control
     \/ /\ p.type = "Rect" /\ ch2.closing = ch.closing /\ ~InControl(ch)
        /\ ch2.inFlight = ch.inFlight /\ ch.next <= ch2.next /\ ch2.control \in {ch.control, None}
     \/ /\ p.type = "Hide" /\ p.sequence = ch2.closing /\ ch2.closing # 0
        /\ ch.closing = 0 \/ (InControl(ch) /\ ch2.closing = ch.closing)
        /\ ch2.inFlight = ch.inFlight /\ ch.next <= ch2.next
        /\ ch2.control = None \/ (~InControl(ch) /\ ch2.control = ch.control)

(* Sending a sample, a rectangle or a close request keeps the books.        *)
LEMMA SendKeeps ==
  ASSUME NEW ch \in ChannelType, NEW s \in SocketsType, NEW q \in LinkType,
         NEW ch2 \in ChannelType, NEW s2 \in SocketsType, NEW X \in SUBSET Frame,
         NEW g \in Replied, NEW p \in Packet,
         ChannelOK(ch), Books(ch, s, q, X, g), Sends(ch, s, s2, p), Posts(ch, ch2, p)
  PROVE  Books(ch2, s2, q, X, g)
<1> DEFINE k == ch.socket
           n == Len(s[k].toUI)
<1>1. /\ SocketsOK(ch, s, q) /\ UnreadOK(ch, s) /\ FramesOK(ch, s, q, X) /\ RepliesOK(ch, s, q, X)
      /\ AccountOK(ch, s, q, X) /\ NamesOK(ch, s, q, g)
      /\ ConfirmedLast(ch, s) /\ OnceOK(ch, s, q, X, g)
  BY DEF Books, Safe
<1>2. /\ k \in Connections /\ n \in Nat /\ Len(s2[k].toUI) = n + 1
      /\ s2[k].toUI[n + 1] = p /\ \A i \in 1..n : s2[k].toUI[i] = s[k].toUI[i]
      /\ \A d \in Connections, type \in {"Frame", "Hide"}, i \in Nat :
           Unread(s2, d, type, i) <=>
             Unread(s, d, type, i) \/ (d = k /\ i = n + 1 /\ p.type = type)
      /\ \A d \in Connections, type \in {"Frame", "Hide"}, i \in Nat :
           Unread(s, d, type, i) => s2[d].toUI[i] = s[d].toUI[i]
      /\ \A d \in Connections : s2[d].ui = s[d].ui
  <2> HIDE DEF Sends
  <2> QED BY SendShifts, SMTT(30)
<1> HIDE DEF n
<1>3. /\ k # 0 /\ s[k].ui # "closed" /\ s2[k].toWeb = s[k].toWeb /\ s2[k].web = s[k].web
      /\ \A d \in Connections : d # k => s2[d] = s[d]
  BY DEF Sends
<1>4. \A d \in Connections : /\ Made(s2, d) <=> Made(s, d)
                             /\ Accepted(s2, d) <=> Accepted(s, d)
                             /\ Last(s2, d) <=> Last(s, d)
  BY <1>2, SameEnds
<1>5. /\ ch.next \in Nat /\ ch2.next \in Nat /\ ch.next <= ch2.next /\ ch.born < k
      /\ \A m \in ch.inFlight : m \in Nat /\ m < ch.next
      /\ ch.inFlight \subseteq ch2.inFlight /\ ch2.socket = k /\ ch2.born = ch.born
      /\ p.type = "Frame" => ch.next \in ch2.inFlight /\ p.sequence = ch.next
  <2>1. ch.inFlight \subseteq 1..(ch.next - 1) /\ ch.next \in Nat /\ ch2.next \in Nat
    BY ChannelNumbers DEF ChannelOK
  <2>2. ch.next <= ch2.next /\ ch.inFlight \subseteq ch2.inFlight
    BY <2>1 DEF Posts
  <2> QED BY <1>1, <1>2, <1>3, <2>1, <2>2 DEF Posts, SocketsOK
<1>6. p.type = "Frame" => \A i \in Nat : ~Unread(s, k, "Hide", i)
  BY <1>1, <1>3, Unnamed DEF Posts
<1>7. \A d \in Connections : s2[d].web = s[d].web /\ s2[d].toWeb = s[d].toWeb
  BY <1>3
<1>23. Made(s2, k) /\ Last(s2, k)
  BY <1>1, <1>2, <1>3, <1>4 DEF SocketsOK
<1>8. SocketsOK(ch2, s2, q)
  <2>1. \A d \in Connections :
       /\ s2[d].web <=> d = k
       /\ s2[d].toWeb # <<>> => s2[d].web /\ Accepted(s2, d)
       /\ s2[d].ui = "unused" => Last(s2, d)
       /\ d <= ch.born => Made(s2, d)
    BY <1>1, <1>4, <1>7, <1>2 DEF SocketsOK
  <2>2. s[k].ui \in {"backlog", "open"}
    BY <1>1, <1>2, <1>3, SocketTyped DEF SocketsOK, Made
  <2>3. \A d \in Connections : s2[d].toUI # <<>> => s2[d].ui \in {"backlog", "open"}
    <3> TAKE d \in Connections
    <3>1. CASE d = k
      BY <1>2, <2>2, <3>1
    <3>2. CASE d # k
      BY <1>1, <1>3, <3>2 DEF SocketsOK
    <3> QED BY <3>1, <3>2
  <2>4. \A d \in Connections : \A i \in 1..Len(s2[d].toUI) :
          s2[d].toUI[i].type # "Rect" => s2[d].toUI[i].sequence # 0
    <3> TAKE d \in Connections
    <3>1. CASE d = k
      <4>1. p.type # "Rect" => p.sequence # 0
        BY <1>5 DEF Posts, ChannelType
      <4>2. \A i \in 1..n : s[k].toUI[i].type # "Rect" => s[k].toUI[i].sequence # 0
        BY <1>1, <1>2 DEF SocketsOK, n
      <4>3. \A i \in 1..(n + 1) : i \in 1..n \/ i = n + 1
        BY <1>2
      <4> QED BY <1>2, <3>1, <4>1, <4>2, <4>3
    <3>2. CASE d # k
      BY <1>1, <1>3, <3>2 DEF SocketsOK
    <3> QED BY <3>1, <3>2
  <2>5. q.gone = "no" => \A d \in Connections : s2[d].ui = "open" <=> d = q.client
    BY <1>1, <1>2 DEF SocketsOK
  <2> QED BY <1>5, <1>23, <2>1, <2>3, <2>4, <2>5 DEF SocketsOK
<1>9. UnreadOK(ch2, s2)
  <2> SUFFICES ASSUME NEW d \in Connections, d > ch.born,
                      NEW i \in 1..Len(s2[d].toUI), s2[d].toUI[i].type = "Frame"
               PROVE  /\ s2[d].toUI[i].sequence \in ch2.inFlight /\ Last(s2, d)
                      /\ \A j \in 1..Len(s2[d].toUI) : j < i =>
                           /\ s2[d].toUI[j].type # "Hide"
                           /\ s2[d].toUI[j].type = "Frame" =>
                                s2[d].toUI[j].sequence < s2[d].toUI[i].sequence
    BY <1>5 DEF UnreadOK
  <2>1. CASE d # k
    <3>1. s2[d].toUI = s[d].toUI
      BY <1>3, <2>1
    <3> QED BY <1>1, <1>4, <1>5, <3>1 DEF UnreadOK
  <2>2. CASE d = k /\ i \in 1..n
    <3>1. /\ s[k].toUI[i].sequence \in ch.inFlight
          /\ \A j \in 1..n : j < i =>
               /\ s[k].toUI[j].type # "Hide"
               /\ s[k].toUI[j].type = "Frame" => s[k].toUI[j].sequence < s[k].toUI[i].sequence
      BY Zenon, <1>1, <1>2, <1>5, <2>2 DEF UnreadOK, n
    <3>2. \A j \in 1..(n + 1) : j < i => j \in 1..n
      BY <1>2, <2>2
    <3> QED BY Zenon, <1>2, <1>5, <1>23, <2>2, <3>1, <3>2
  <2>3. CASE d = k /\ i = n + 1
    <3>1. p.type = "Frame" /\ s2[d].toUI[i] = p
      BY <1>2, <2>3
    <3>2. ASSUME NEW j \in 1..n
          PROVE  /\ s[k].toUI[j].type # "Hide"
                 /\ s[k].toUI[j].type = "Frame" => s[k].toUI[j].sequence < p.sequence
      <4>1. j \in Nat /\ j \in 1..Len(s[k].toUI)
        BY <1>2 DEF n
      <4>2. s[k].toUI[j].type # "Hide"
        BY <1>6, <3>1, <4>1 DEF Unread
      <4>3. s[k].toUI[j].type = "Frame" => s[k].toUI[j].sequence \in ch.inFlight
        BY Zenon, <1>1, <1>2, <1>5, <4>1 DEF UnreadOK
      <4> QED BY <1>5, <3>1, <4>2, <4>3
    <3>3. \A j \in 1..(n + 1) : j < i => j \in 1..n
      BY <1>2, <2>3
    <3> QED BY Zenon, <1>2, <1>5, <1>23, <2>3, <3>1, <3>2, <3>3
  <2>4. d = k => i \in 1..n \/ i = n + 1
    BY <1>2
  <2> QED BY <2>1, <2>2, <2>3, <2>4
<1>10. \A d \in Connections, i \in Nat : Unread(s2, d, "Frame", i) =>
          \/ Unread(s, d, "Frame", i) /\ s2[d].toUI[i] = s[d].toUI[i]
          \/ p.type = "Frame" /\ s2[d].toUI[i].sequence = ch.next
  BY <1>2, <1>5
<1>11. FramesOK(ch2, s2, q, X)
  <2>1. ASSUME NEW x \in X PROVE FrameOK(ch2, s2, x)
    <3>1. FrameOK(ch, s, x) /\ x.conn \in Connections
      BY <1>1 DEF FramesOK, Frame
    <3>2. ASSUME x.conn > ch.born, NEW d \in Connections, NEW i \in Nat,
                 d > ch.born, Unread(s2, d, "Frame", i)
          PROVE  x.sequence < s2[d].toUI[i].sequence
      <4>1. CASE Unread(s, d, "Frame", i) /\ s2[d].toUI[i] = s[d].toUI[i]
        BY <3>1, <3>2, <4>1 DEF FrameOK
      <4>2. CASE s2[d].toUI[i].sequence = ch.next
        BY <1>5, <3>1, <3>2, <4>2 DEF FrameOK
      <4> QED BY <1>10, <3>2, <4>1, <4>2
    <3> QED BY <1>4, <1>5, <3>1, <3>2 DEF FrameOK
  <2> QED BY <1>1, <1>5, <2>1 DEF FramesOK
<1>12. RepliesOK(ch2, s2, q, X)
  <2>1. ASSUME NEW r \in Reply, ReplyOK(ch, s, X, r) PROVE ReplyOK(ch2, s2, X, r)
    <3>1. r.sequence \in Nat
      BY Numbers DEF Reply
    <3>2. r.sequence < ch.next => r.sequence < ch2.next /\ r.sequence # ch.next
      BY <1>5, <3>1
    <3> QED BY <1>4, <1>5, <1>10, <2>1, <3>2 DEF ReplyOK
  <2>2. \A d \in Connections : \A i \in 1..Len(s2[d].toWeb) :
          s2[d].toWeb[i].conn = d /\ ReplyOK(ch2, s2, X, s2[d].toWeb[i])
    <3> TAKE d \in Connections
    <3>1. s2[d].toWeb = s[d].toWeb
      BY <1>7
    <3> QED BY <1>1, <2>1, <3>1, SocketTyped DEF RepliesOK
  <2>3. \A i \in 1..Len(q.acks) : q.acks[i] \in Reply
    BY ElementOfSeq DEF LinkType
  <2> QED BY <1>1, <2>1, <2>2, <2>3 DEF RepliesOK
<1>13. Live(ch2, s2, q) <=> Live(ch, s, q)
  BY <1>2, <1>5 DEF Live
<1>14. /\ Queue(s2, q, k) = Queue(s, q, k)
       /\ \A type \in {"Release", "CloseComplete"}, i \in Nat :
            Queued(s2, q, k, type, i) <=> Queued(s, q, k, type, i)
       /\ Confirmed(ch2, s2, q) <=> Confirmed(ch, s, q)
       /\ Owed(ch2, g) <=> Owed(ch, g)
  <2>1. Queue(s2, q, k) = Queue(s, q, k)
    BY <1>3 DEF Queue
  <2>2. \A type, i : Queued(s2, q, k, type, i) <=> Queued(s, q, k, type, i)
    BY <2>1 DEF Queued
  <2> QED BY <1>5, <2>1, <2>2 DEF Confirmed, Owed
<1>15. ch2.inFlight = ch.inFlight \/ (p.type = "Frame" /\ ch2.inFlight = ch.inFlight \cup {ch.next})
  BY DEF Posts
<1>16. AccountOK(ch2, s2, q, X)
  <2> SUFFICES ASSUME Live(ch, s, q)
               PROVE  /\ \A m \in ch2.inFlight :
                           \/ \E i \in Nat : Unread(s2, k, "Frame", i) /\ s2[k].toUI[i].sequence = m
                           \/ \E x \in X : x.conn > ch.born /\ x.sequence = m
                           \/ \E i \in Nat : /\ Queued(s, q, k, "Release", i)
                                             /\ Queue(s, q, k)[i].sequence = m
                      /\ \A i \in Nat : Queued(s, q, k, "Release", i) =>
                           /\ Queue(s, q, k)[i].sequence \in ch2.inFlight
                           /\ \A j \in Nat :
                                (/\ Queued(s, q, k, "Release", j)
                                 /\ Queue(s, q, k)[i].sequence = Queue(s, q, k)[j].sequence) => i = j
    BY <1>5, <1>13, <1>14 DEF AccountOK
  <2>1. ASSUME NEW m \in ch.inFlight
        PROVE  \/ \E i \in Nat : Unread(s2, k, "Frame", i) /\ s2[k].toUI[i].sequence = m
               \/ \E x \in X : x.conn > ch.born /\ x.sequence = m
               \/ \E i \in Nat : Queued(s, q, k, "Release", i) /\ Queue(s, q, k)[i].sequence = m
    <3>1. \/ \E i \in Nat : Unread(s, k, "Frame", i) /\ s[k].toUI[i].sequence = m
          \/ \E x \in X : x.conn > ch.born /\ x.sequence = m
          \/ \E i \in Nat : Queued(s, q, k, "Release", i) /\ Queue(s, q, k)[i].sequence = m
      BY <1>1, <2>1 DEF AccountOK
    <3>2. \A i \in Nat : Unread(s, k, "Frame", i) => /\ Unread(s2, k, "Frame", i)
                                                     /\ s2[k].toUI[i] = s[k].toUI[i]
      BY <1>2
    <3> QED BY <3>1, <3>2
  <2>2. p.type = "Frame" => \E i \in Nat : /\ Unread(s2, k, "Frame", i)
                                           /\ s2[k].toUI[i].sequence = ch.next
    <3>1. n + 1 \in Nat
      BY <1>2
    <3> QED BY <1>2, <1>5, <3>1
  <2> QED BY <1>1, <1>5, <1>15, <2>1, <2>2 DEF AccountOK
<1>17. InControl(ch2) => InControl(ch) /\ ch2.control = ch.control /\ ch2.closing = ch.closing
                         /\ p.type # "Hide" /\ p.type # "Rect"
  BY DEF Posts, InControl
<1>18. ch.closing = 0 => /\ ~InControl(ch) /\ ~Owed(ch, g) /\ ~Confirmed(ch, s, q) /\ ~Asked(ch, s)
  BY <1>1, <1>3, Unnamed
<1>19. ch2.closing = ch.closing \/ ch.closing = 0
  BY DEF Posts
<1>20. NamesOK(ch2, s2, q, g)
  <2>1. g # None => /\ g.type = "CloseComplete" /\ Accepted(s2, g.conn)
                    /\ q.client # 0 => g.conn = q.client
    <3>1. g # None => g.conn \in Connections
      BY DEF Replied, Reply
    <3> QED BY <1>1, <1>4, <3>1 DEF NamesOK
  <2>2. ch2.control # None =>
       /\ k # 0 /\ ch2.control.type # "Frame"
       /\ InControl(ch2) => ch2.control.sequence = ch2.closing /\ ch2.closing # 0
    <3>1. ch2.control # None => ch2.control = ch.control
      BY DEF Posts
    <3> QED BY <1>1, <1>3, <1>17, <3>1 DEF NamesOK
  <2>3. ASSUME NEW i \in Nat, Unread(s2, k, "Hide", i)
        PROVE  s2[k].toUI[i].sequence = ch2.closing /\ ch2.closing # 0
    <3>1. CASE Unread(s, k, "Hide", i)
      <4>1. s2[k].toUI[i] = s[k].toUI[i]
        BY <1>2, <3>1
      <4>2. s[k].toUI[i].sequence = ch.closing /\ ch.closing # 0
        BY <1>1, <1>3, <3>1 DEF NamesOK
      <4> QED BY <1>19, <4>1, <4>2
    <3>2. CASE i = n + 1 /\ p.type = "Hide"
      BY <1>2, <3>2 DEF Posts
    <3> QED BY <1>2, <2>3, <3>1, <3>2
  <2>4. Owed(ch, g) => g.sequence = ch2.closing /\ ch2.closing # 0
    BY <1>1, <1>3, <1>18, <1>19 DEF NamesOK
  <2>5. ASSUME NEW i \in Nat, Queued(s, q, k, "CloseComplete", i)
        PROVE  Queue(s, q, k)[i].sequence = ch2.closing /\ ch2.closing # 0
    <3>1. Confirmed(ch, s, q)
      BY <2>5 DEF Confirmed
    <3> QED BY <1>1, <1>3, <1>18, <1>19, <2>5, <3>1 DEF NamesOK
  <2>6. ~ch2.early /\ (ch2.closing # 0 => ch2.owner = None)
    BY <1>1 DEF NamesOK, Posts
  <2> QED BY <1>3, <1>5, <1>14, <2>1, <2>2, <2>3, <2>4, <2>5, <2>6 DEF NamesOK
<1>21. ConfirmedLast(ch2, s2)
  <2>1. CASE ch.closing = 0
    <3>1. \A i \in 1..Len(s[k].toWeb) : s[k].toWeb[i].type # "CloseComplete"
      BY <1>1, <1>3, <2>1, Unnamed
    <3> QED BY <1>3, <1>5, <3>1 DEF ConfirmedLast
  <2>2. CASE ch.closing # 0
    <3>1. ch2.inFlight = ch.inFlight
      BY <2>2 DEF Posts
    <3>2. s2[k].toWeb = s[k].toWeb
      BY <1>3
    <3> QED BY <1>1, <1>5, <3>1, <3>2 DEF ConfirmedLast
  <2> QED BY <2>1, <2>2
<1>22. OnceOK(ch2, s2, q, X, g)
  <2> SUFFICES ASSUME Live(ch, s, q) PROVE OnceOK(ch2, s2, q, X, g)
    BY <1>13 DEF OnceOK
  <2>1. CASE p.type = "Frame"
    <3>1. ch.closing = 0 /\ ch2.closing = 0
      BY <2>1 DEF Posts
    <3>2. ~InControl(ch2) /\ ~Owed(ch, g) /\ ~Confirmed(ch, s, q)
      BY <1>17, <1>18, <3>1
    <3>3. \A i \in Nat : ~Unread(s2, k, "Hide", i)
      BY <1>2, <1>6, <2>1
    <3>4. ~Asked(ch2, s2)
      BY <1>5, <3>3 DEF Asked
    <3>5. \A i \in Nat : ~Queued(s, q, k, "CloseComplete", i)
      BY <3>2 DEF Confirmed
    <3> QED BY <1>5, <1>14, <3>1, <3>2, <3>3, <3>4, <3>5 DEF OnceOK
  <2>2. CASE p.type = "Rect"
    <3>1. \A type \in {"Frame", "Hide"}, i \in Nat : Unread(s2, k, type, i) <=> Unread(s, k, type, i)
      BY <1>2, <2>2
    <3>2. Asked(ch2, s2) <=> Asked(ch, s)
      BY <1>5, <3>1 DEF Asked
    <3>3. ch2.closing = ch.closing /\ ~InControl(ch) /\ ~InControl(ch2)
      BY <1>17, <2>2 DEF Posts
    <3> QED BY <1>1, <1>5, <1>14, <3>1, <3>2, <3>3 DEF OnceOK
  <2>3. CASE p.type = "Hide"
    <3>1. ~Asked(ch, s) /\ ~Owed(ch, g) /\ ~Confirmed(ch, s, q) /\ ~InControl(ch2)
      BY <1>1, <1>17, <1>18, <2>3 DEF OnceOK, Posts
    <3>2. \A i \in Nat : ~Queued(s, q, k, "CloseComplete", i) /\ ~Unread(s, k, "Hide", i)
      BY <3>1 DEF Confirmed, Asked
    <3>3. \A i \in Nat : Unread(s2, k, "Hide", i) <=> i = n + 1
      BY <1>2, <2>3, <3>2
    <3>4. Asked(ch2, s2)
      BY <1>2, <1>5, <3>3 DEF Asked
    <3> QED BY <1>5, <1>14, <3>1, <3>2, <3>3, <3>4 DEF OnceOK
  <2> QED BY <2>1, <2>2, <2>3 DEF Packet
<1> QED BY <1>8, <1>9, <1>11, <1>12, <1>16, <1>20, <1>21, <1>22 DEF Books, Safe

(* The connections that were made are the first ones.                       *)
LEMMA MadeFirst ==
  ASSUME NEW s, \A d \in Connections : ~Made(s, d) => Last(s, d)
  PROVE  LET n == Cardinality({d \in Connections : Made(s, d)})
         IN  n \in 0..MaxConnections /\ \A d \in Connections : Made(s, d) <=> d <= n
<1> DEFINE M == {d \in Connections : Made(s, d)}
           n == Cardinality(M)
<1>1. MaxConnections \in Nat /\ Connections = 1..MaxConnections
  BY Numbers DEF Connections
<1>2. IsFiniteSet(1..MaxConnections) /\ Cardinality(1..MaxConnections) = MaxConnections
  BY <1>1, FS_Interval
<1>3. IsFiniteSet(M) /\ n \in Nat /\ n <= MaxConnections
  BY <1>1, <1>2, FS_Subset, FS_CardinalityType
<1>4. ASSUME NEW d \in M PROVE d <= n
  <2>1. d \in Connections /\ d \in Nat /\ d \in 1..MaxConnections
    BY <1>1
  <2>2. 1..d \subseteq M
    <3>1. ASSUME NEW e \in 1..d PROVE e \in Connections /\ Made(s, e)
      <4>1. e \in Connections /\ (e = d \/ d > e)
        BY <1>1, <2>1
      <4> QED BY <4>1 DEF Made, Last
    <3> QED BY <3>1
  <2>3. IsFiniteSet(1..d) /\ Cardinality(1..d) = d
    BY <2>1, FS_Interval
  <2>4. 1..d \in SUBSET M
    BY <2>2
  <2>5. Cardinality(1..d) <= Cardinality(M)
    BY Zenon, <1>3, <2>4, FS_Subset
  <2> QED BY <2>3, <2>5
<1>5. IsFiniteSet(1..n) /\ Cardinality(1..n) = n
  BY <1>3, FS_Interval
<1>6. M \subseteq 1..n
  BY <1>1, <1>3, <1>4
<1>7. M = 1..n
  BY Zenon, <1>3, <1>5, <1>6, FS_Subset
<1> QED BY <1>1, <1>3, <1>7

(* The WebProcess is born again: all that was made is of old.               *)
LEMMA RebornKeeps ==
  ASSUME NEW ch \in ChannelType, NEW s \in SocketsType, NEW q \in LinkType,
         NEW X \in SUBSET Frame, NEW g \in Replied, Books(ch, s, q, X, g), ch.socket = 0,
         NEW n \in 0..MaxConnections, \A d \in Connections : Made(s, d) <=> d <= n
  PROVE  Books(NewChannel(n), s, q, X, g)
<1> DEFINE ch2 == NewChannel(n)
<1>1. /\ SocketsOK(ch, s, q) /\ UnreadOK(ch, s) /\ FramesOK(ch, s, q, X) /\ RepliesOK(ch, s, q, X)
      /\ NamesOK(ch, s, q, g)
  BY DEF Books, Safe
<1>2. /\ ch2.socket = 0 /\ ch2.born = n /\ ch2.control = None /\ ~ch2.early /\ ch2.closing = 0
      /\ ch2.inFlight = {} /\ n \in Nat /\ ch.born \in Nat
  BY Numbers, ChannelNumbers DEF NewChannel
<1> HIDE DEF ch2
<1>3. ASSUME NEW d \in Connections PROVE ~(Made(s, d) /\ d > n)
  <2>1. d \in Nat /\ (Made(s, d) <=> d <= n)
    BY Numbers
  <2> QED BY <1>2, <2>1
<1>4. \A d \in Connections, type \in {"Frame", "Hide"}, i \in Nat : d > n => ~Unread(s, d, type, i)
  BY <1>1, <1>3, SocketTyped DEF SocketsOK, Unread, Made
<1>5. SocketsOK(ch2, s, q)
  <2>1. \A d \in Connections :
       /\ s[d].web <=> d = ch2.socket
       /\ s[d].toUI # <<>> => s[d].ui \in {"backlog", "open"}
       /\ s[d].toWeb # <<>> => s[d].web /\ Accepted(s, d)
       /\ s[d].ui = "unused" => Last(s, d)
       /\ d <= ch2.born => Made(s, d)
       /\ \A i \in 1..Len(s[d].toUI) : s[d].toUI[i].type # "Rect" => s[d].toUI[i].sequence # 0
    BY <1>1, <1>2 DEF SocketsOK
  <2>2. q.gone = "no" => \A d \in Connections : s[d].ui = "open" <=> d = q.client
    BY <1>1 DEF SocketsOK
  <2> QED BY <1>2, <2>1, <2>2 DEF SocketsOK
<1>6. UnreadOK(ch2, s)
  <2>1. ASSUME NEW d \in Connections, d > n, NEW i \in 1..Len(s[d].toUI),
               s[d].toUI[i].type = "Frame"
        PROVE  FALSE
    BY <1>4, <2>1 DEF Unread
  <2> QED BY <1>2, <2>1 DEF UnreadOK
<1>7. FramesOK(ch2, s, q, X)
  <2>1. ASSUME NEW x \in X PROVE Accepted(s, x.conn) /\ ~(x.conn > n)
    <3>1. Accepted(s, x.conn) /\ x.conn \in Connections
      BY <1>1, FrameNumbers DEF FramesOK, FrameOK
    <3> QED BY <1>3, <3>1 DEF Accepted, Made
  <2> QED BY <1>1, <1>2, <2>1 DEF FramesOK, FrameOK
<1>8. RepliesOK(ch2, s, q, X)
  <2>1. ASSUME NEW r \in Reply, ReplyOK(ch, s, X, r) PROVE ReplyOK(ch2, s, X, r)
    <3>1. r.type = "Release" /\ r.conn > ch.born => ~(r.conn > n)
      BY <1>3, <2>1 DEF ReplyOK
    <3>2. r.conn \in Connections /\ r.conn \in Nat
      BY Zenon, Numbers DEF Reply
    <3>3. ~(r.conn > ch.born) => ~(r.conn > n)
      <4>1. ~(r.conn > ch.born) => Made(s, r.conn)
        BY <1>1, <1>2, <3>2 DEF SocketsOK
      <4> QED BY <1>3, <3>2, <4>1
    <3> QED BY <1>2, <3>1, <3>3 DEF ReplyOK
  <2>2. \A d \in Connections : \A i \in 1..Len(s[d].toWeb) :
          s[d].toWeb[i].conn = d /\ ReplyOK(ch2, s, X, s[d].toWeb[i])
    BY <1>1, <2>1, SocketTyped DEF RepliesOK
  <2>3. \A i \in 1..Len(q.acks) : q.acks[i] \in Reply
    BY ElementOfSeq DEF LinkType
  <2> QED BY Zenon, <1>1, <2>1, <2>2, <2>3 DEF RepliesOK
<1>9. NamesOK(ch2, s, q, g)
  BY <1>1, <1>2 DEF NamesOK, InControl
<1>10. AccountOK(ch2, s, q, X) /\ ConfirmedLast(ch2, s) /\ OnceOK(ch2, s, q, X, g)
  BY <1>2 DEF AccountOK, ConfirmedLast, OnceOK, Live
<1> QED BY <1>5, <1>6, <1>7, <1>8, <1>9, <1>10 DEF Books, Safe, ch2
=============================================================================
