---------------------------- MODULE FrameTicket ----------------------------
(***************************************************************************)
(* wpe-drm/DRMFrameLifecycle.h: the ticket that follows one accepted frame *)
(* from acceptance to presentation or retirement.                          *)
(***************************************************************************)
EXTENDS Naturals

(* enum class FramePhase *)
FramePhase == {"Retired", "Queued", "WaitingFence", "Preparing", "Ready",
               "Submitted", "Presented"}

Ticket == [serial : Nat, epoch : Nat, phase : FramePhase, rendered : BOOLEAN]

(* A default-constructed ticket: serial 0 belongs to no frame. *)
NoTicket == [serial |-> 0, epoch |-> 0, phase |-> "Retired", rendered |-> FALSE]

(* FrameTicket::accept; the buffer's identity is kept by the queue. *)
Accepted(nextSerial, epoch) ==
  [serial |-> nextSerial, epoch |-> epoch, phase |-> "Queued", rendered |-> FALSE]

(* The phase changes FrameTicket::advance accepts. *)
CanAdvance(phase, next) ==
  \/ phase = "Queued" /\ next \in {"WaitingFence", "Preparing"}
  \/ phase = "WaitingFence" /\ next = "Preparing"
  \/ phase = "Preparing" /\ next = "Ready"
  \/ phase = "Ready" /\ next = "Submitted"
  \/ phase = "Submitted" /\ next = "Presented"
  \/ next = "Retired" /\ phase # "Submitted"

(* FrameTicket::complete answers true exactly once for a live ticket. *)
CanComplete(ticket) == ticket.serial # 0 /\ ~ticket.rendered
=============================================================================
