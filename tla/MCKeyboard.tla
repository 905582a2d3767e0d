----------------------------- MODULE MCKeyboard -----------------------------
(***************************************************************************)
(* The keyboard, checked for a field of the chrome over several requests    *)
(* and for a field of a web page with more changes of its text: one of the  *)
(* two is chosen in the beginning.                                          *)
(***************************************************************************)
EXTENDS KeyboardBridge

VARIABLE part

Web == INSTANCE KeyboardBridge WITH
  Ids <- {1}, Kinds <- {"web_input"}, Overrides <- {"auto"}, MaxSequence <- 2

KeyboardInit ==
  \/ part = "chrome" /\ Init
  \/ part = "web" /\ Web!Init

KeyboardNext ==
  /\ \/ part = "chrome" /\ Next
     \/ part = "web" /\ Web!Next
  /\ UNCHANGED part

KeyboardSpec ==
  /\ KeyboardInit /\ [][KeyboardNext]_<<vars, part>>
  /\ Fairness /\ Web!Fairness
=============================================================================
