--------------------------- MODULE MCVideoOverlay ---------------------------
(***************************************************************************)
(* The video overlay in two situations, chosen by "mode", which never      *)
(* changes:                                                                *)
(*   layout  the last of two connections: rectangles change, the player may *)
(*           be laid out off the screen, and the sockets hold one packet   *)
(*   crash   a WebProcess that may crash, and reconnect or be replaced;    *)
(*           the socket has room for all releases, as the kernel's has     *)
(* The constants of the configuration are those of "layout".  States of    *)
(* "crash" are of the same types, so that the properties of VideoOverlay   *)
(* speak of both.                                                          *)
(***************************************************************************)
EXTENDS VideoOverlay

VARIABLE mode

Crashing == INSTANCE VideoOverlay WITH
  Rects <- {"shown"}, RoomForReleases <- MaxInFlight + 1, Crashes <- TRUE

MCInit ==
  \/ mode = "layout" /\ Start({1})
  \/ mode = "crash" /\ Crashing!Init

MCNext ==
  /\ \/ mode = "layout" /\ Next
     \/ mode = "crash" /\ Crashing!Next
  /\ UNCHANGED mode

MCSpec ==
  /\ MCInit /\ [][MCNext]_<<vars, mode>>
  /\ (mode = "layout" /\ Fairness) \/ (mode = "crash" /\ Crashing!Fairness)
=============================================================================
