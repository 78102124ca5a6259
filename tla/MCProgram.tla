----------------------------- MODULE MCProgram ------------------------------
(* Small instances of Program for TLC.                                     *)
EXTENDS Program

CONSTANTS beside, drive

(* The launcher beside the program, then the one on a drive.               *)
MCFallback == <<beside, drive>>

(* Much at the window, two commands, two changes of files under a command, *)
(* and a command across a restart.                                         *)
MCMoves ==
  {[window |-> 4, clicks |-> 0, files |-> 0],
   [window |-> 1, clicks |-> 2, files |-> 0],
   [window |-> 1, clicks |-> 1, files |-> 2],
   [window |-> 2, clicks |-> 1, files |-> 0]}
=============================================================================
