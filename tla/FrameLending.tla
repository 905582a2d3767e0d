---------------------------- MODULE FrameLending ----------------------------
(***************************************************************************)
(* What the frame queue promises the producer of its buffers, without      *)
(* saying how: a buffer handed over stays lent while its frame waits, is   *)
(* shown or is retired behind an unfinished fence, and is given back once, *)
(* when it has left all three.  At most two frames wait.  Frames are shown *)
(* oldest first; any waiting frame may be dropped.                         *)
(***************************************************************************)
EXTENDS Naturals, FiniteSets

CONSTANT Buffers

VARIABLES
  waiting,   \* frames accepted and neither shown nor dropped
  shown,     \* the frame whose buffer is retained, if any
  retiring,  \* buffers of dropped frames whose fence has not signalled
  accepted,  \* the number of frames accepted
  lent,      \* buffers the producer may not touch
  closed     \* the view is gone

vars == <<waiting, shown, retiring, accepted, lent, closed>>

Frame == [buffer : Buffers, serial : Nat]
BuffersOf(frames) == {f.buffer : f \in frames}

Init ==
  /\ waiting = {} /\ shown = {} /\ retiring = {} /\ lent = {}
  /\ accepted = 0 /\ closed = FALSE

(* Take the frames of "new" in, then show the oldest waiting frame or keep  *)
(* the one that is shown, and drop any others.                              *)
Progress(new) ==
  LET line == waiting \cup new
      Oldest(f) == \A g \in line : f.serial <= g.serial
      dropped == line \ (waiting' \cup shown')
  IN  /\ \/ shown' = shown
         \/ \E f \in line : Oldest(f) /\ shown' = {f}
      /\ waiting' \subseteq line \ shown'
      /\ Cardinality(waiting') <= 2
      /\ retiring \subseteq retiring'
      /\ retiring' \subseteq retiring \cup BuffersOf(dropped)
      /\ lent' = BuffersOf(waiting' \cup shown') \cup retiring'
      /\ UNCHANGED closed

(* The producer hands over a buffer that is not lent. *)
Accept(b) ==
  /\ ~closed /\ b \notin lent
  /\ accepted' = accepted + 1
  /\ Progress({[buffer |-> b, serial |-> accepted + 1]})

(* A frame is shown, or frames are dropped. *)
Move ==
  /\ ~closed
  /\ UNCHANGED accepted
  /\ Progress({})

(* The fence of a retired buffer signals and the buffer is given back. *)
Retire(b) ==
  /\ ~closed /\ b \in retiring
  /\ retiring' = retiring \ {b} /\ lent' = lent \ {b}
  /\ UNCHANGED <<waiting, shown, accepted, closed>>

(* The view goes away; it may keep buffers for good. *)
Close ==
  /\ ~closed /\ closed'
  /\ waiting' = {} /\ shown' = {} /\ retiring' = {}
  /\ lent' \subseteq lent
  /\ UNCHANGED accepted

Next ==
  \/ \E b \in Buffers : Accept(b) \/ Retire(b)
  \/ Move
  \/ Close

Spec == Init /\ [][Next]_vars
=============================================================================
