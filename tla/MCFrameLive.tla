---------------------------- MODULE MCFrameLive ----------------------------
(***************************************************************************)
(* The frame queue under fair flips, fences and timers, with two producers *)
(* chosen by "mode":                                                       *)
(*   free   hands frames over whenever it has a buffer, behind a throttle   *)
(*   paced  waits for FrameDone before its next frame, while the chrome     *)
(*          redraws itself and fences may fail                              *)
(***************************************************************************)
EXTENDS TLC, Naturals

CONSTANTS Buffers, Slots, None, MaxSerial,
          Two  \* the buffers of the paced producer, a subset of Buffers

VARIABLES view, mode

Free == INSTANCE DRMFrameQueue WITH
  MaxRetained <- 3, CopyPath <- TRUE, Atomic <- TRUE, InFence <- FALSE,
  SyncCommit <- FALSE, HasCursor <- FALSE, Throttled <- TRUE, Paced <- FALSE,
  MaxEpoch <- 2, FencesGiven <- {"Ready", "Pending"}, ChromeRedraws <- FALSE
Paced == INSTANCE DRMFrameQueue WITH
  Buffers <- Two, MaxRetained <- 2, CopyPath <- TRUE, Atomic <- TRUE, InFence <- FALSE,
  SyncCommit <- FALSE, HasCursor <- FALSE, Throttled <- FALSE, Paced <- TRUE,
  MaxEpoch <- 1, FencesGiven <- {"Ready", "Pending", "Failed"}, ChromeRedraws <- TRUE

vars == <<view, mode>>

Init ==
  \/ mode = "free" /\ Free!Init
  \/ mode = "paced" /\ Paced!Init

Next ==
  /\ \/ mode = "free" /\ Free!Next
     \/ mode = "paced" /\ Paced!Next
  /\ UNCHANGED mode

(* The fairness of DRMFrameQueue, whose guards are the same in both modes. *)
FairSpec == Init /\ [][Next]_vars /\ Free!Fairness

(* Every accepted frame is presented, replaced or discarded in the end, and  *)
(* a producer that waits for FrameDone before its next frame always gets it. *)
FramesSettle ==
  /\ \A n \in 1..MaxSerial : mode = "free" /\ Free!Waiting(n) ~> ~Free!Waiting(n)
  /\ \A b \in Two :
       mode = "paced" /\ b \in view.ledger.unpaced
         ~> (b \notin view.ledger.unpaced \/ ~Free!Running)
=============================================================================
