--------------------------- MODULE SampleLending ----------------------------
(***************************************************************************)
(* What the video overlay promises the decoder, without saying how: a      *)
(* sample it was lent is given back only when the display engine has       *)
(* stopped scanning it out and will not start again; samples are shown in  *)
(* the order they were lent, some of them never; and a decoder that is     *)
(* started anew is owed nothing.                                           *)
(***************************************************************************)
EXTENDS Naturals

VARIABLES
  lent,    \* the numbers of the samples the decoder may not write to
  shown    \* the one whose framebuffer is retained, if any

vars == <<lent, shown>>

Init == lent = {} /\ shown = {}

(* The decoder lends its next sample; some that are not shown come back.    *)
Lend ==
  /\ \E n \in lent' : /\ \A m \in lent : m < n
                      /\ lent' \ {n} \subseteq lent
  /\ shown \subseteq lent'
  /\ UNCHANGED shown

GiveBack ==
  /\ lent' \subseteq lent /\ shown \subseteq lent'
  /\ UNCHANGED shown

(* A sample that is lent replaces the one that is shown, if that is older.  *)
Show(n) ==
  /\ n \in lent /\ \A m \in shown : m < n
  /\ shown' = {n}
  /\ UNCHANGED lent

Hide == shown' = {} /\ UNCHANGED lent

Restart == lent' = {} /\ shown' = {}

Next == Lend \/ GiveBack \/ (\E n \in lent : Show(n)) \/ Hide \/ Restart

Spec == Init /\ [][Next]_vars
=============================================================================
