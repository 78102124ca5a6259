------------------------------ MODULE GameMode ------------------------------
(***************************************************************************)
(* What mode requests promise, whichever thread serves them: the game is   *)
(* in one of the modes, and the program only ever moves it to the mode of  *)
(* the most recent request, in one step.  The game may leave that mode by  *)
(* itself, be left between two modes, or be gone.                          *)
(***************************************************************************)
CONSTANTS Modes, Normal, None

VARIABLES
  mode,     \* a mode, "mixed" or "gone"
  latest    \* mode of the most recent request

Init == mode \in {Normal, "gone"} /\ latest = None

Request(m) == latest' = m /\ UNCHANGED mode

Serve == mode # "gone" /\ latest # None /\ mode' = latest /\ UNCHANGED latest

(* The game starts, exits or resets itself, or a request stopped half way. *)
Disturbed == mode' \in {Normal, "mixed", "gone"} /\ UNCHANGED latest

Next == (\E m \in Modes : Request(m)) \/ Serve \/ Disturbed

Spec == Init /\ [][Next]_<<mode, latest>>
=============================================================================
