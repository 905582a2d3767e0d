---------------------------- MODULE MCFrameQueue ----------------------------
EXTENDS DRMFrameQueue, TLC

(* A display without a cursor plane: HasCursor is FALSE, UpdateCursor and    *)
(* CursorTimer are never enabled, and Spec comes to this.                   *)
DeviceSpec == Init /\ [][PageNext]_view

Symmetry == Permutations(Buffers) \cup Permutations(Slots)
=============================================================================
