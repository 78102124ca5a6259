---------------------------- MODULE MCUpdateFlow ----------------------------
(* A small instance of UpdateFlow for TLC: one command is the page's alert *)
(* timer or its check button, the other always its check button.  Release  *)
(* 2 may not be downloaded, releases 1 and 3 may.                          *)
EXTENDS UpdateFlow
=============================================================================
