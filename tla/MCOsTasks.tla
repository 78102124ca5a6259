------------------------------ MODULE MCOsTasks ------------------------------
(* A small instance of OsTasks for TLC: one time for a single shutdown, two *)
(* for a weekly one, on one day and over the weekend; the autostart tasks   *)
(* an older version left in each form, one that was edited to stay off on   *)
(* batteries, and one of another program.                                   *)
EXTENDS OsTasks

Older(form) ==
  [BuildTask(form) EXCEPT !.delay = "none", !.restart = "none", !.limit = "PT72H",
                          !.instances = "none", !.onBattery = {"none"}]

MCAutostarts ==
  {Older("window"), Older("minimized"),
   [BuildTask("minimized") EXCEPT !.onBattery = {"true", "false"}],
   [BuildTask("window") EXCEPT !.ours = FALSE]}

MCWeeklyTimes ==
  {[days |-> {}, minute |-> 600], [days |-> {2}, minute |-> 600], [days |-> {0, 6}, minute |-> 0]}

(* Wednesday before, at and after ten, and Sunday's first and last minute.  *)
MCInstants ==
  {At(2, 599), At(2, 600), At(2, 601), At(6, 0), At(6, 1439)}

(* The clocks go forward on Monday at midnight.                             *)
MCIrregular == {At(7, 0)}
=============================================================================
