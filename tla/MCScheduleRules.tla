--------------------------- MODULE MCScheduleRules ---------------------------
(* A small instance of ScheduleRules for TLC: a real week and a day more,  *)
(* days of three minutes, one date to write rules for.                     *)
EXTENDS ScheduleRules
=============================================================================
