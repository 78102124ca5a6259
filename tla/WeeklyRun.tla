------------------------------ MODULE WeeklyRun ------------------------------
(***************************************************************************)
(* The next run of the weekly shutdown as backend/shutdown.rs computes it  *)
(* for the page.  The scheduler's own answer is not read: it is formatted  *)
(* for the locale.  An instant is a day, counted from a Monday, and a      *)
(* minute of that day.                                                     *)
(***************************************************************************)
EXTENDS Integers, FiniteSetsExt

CONSTANT
  Irregular   \* instants that a change of the clocks skips or repeats

NoRun == [day |-> -1, minute |-> 0]

Weekdays == 0..6

At(d, m) == [day |-> d, minute |-> m]

After(i, j) == \/ i.day > j.day
               \/ i.day = j.day /\ i.minute > j.minute

(* When the task runs: that minute of every chosen day of the week.        *)
Runs(days, minute) == {i \in [day : Nat, minute : {minute}] : i.day % 7 \in days}

-----------------------------------------------------------------------------
(* Fault: a week is seven days, today's included.                          *)
StopsWithinAWeek(days, minute, now) ==
  {o \in 0..6 :
     /\ (now.day + o) % 7 \in days
     /\ After(At(now.day + o, minute), now) \/ At(now.day + o, minute) \in Irregular}

(* The days ahead at which the search stops: at a chosen day, if its       *)
(* minute is still to come, or cannot be told as a local time.             *)
Stops(days, minute, now) ==
  {o \in 0..7 :
     /\ (now.day + o) % 7 \in days
     /\ After(At(now.day + o, minute), now) \/ At(now.day + o, minute) \in Irregular}

NextRun(days, minute, now) ==
  IF Stops(days, minute, now) = {} THEN NoRun
  ELSE LET next == At(now.day + Min(Stops(days, minute, now)), minute)
       IN  IF next \in Irregular THEN NoRun ELSE next

-----------------------------------------------------------------------------
(* What the page is told to be the next run is one, lies ahead, and no run *)
(* lies between; it is told none only if no day is chosen or a change of   *)
(* the clocks falls on a run of the days that were looked at.              *)
IsNext(next, days, minute, now) ==
  IF next = NoRun
  THEN days = {} \/ \E i \in Irregular \cap Runs(days, minute) : i.day \in now.day..(now.day + 7)
  ELSE /\ next \in Runs(days, minute) /\ After(next, now)
       /\ \A d \in now.day..next.day :
            At(d, minute) \in Runs(days, minute) /\ After(At(d, minute), now) => d = next.day
=============================================================================
