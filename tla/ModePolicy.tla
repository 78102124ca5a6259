----------------------------- MODULE ModePolicy -----------------------------
(***************************************************************************)
(* What the automation worker wants the game's mode to be, as a function   *)
(* of what it remembers and what it sees: automation_mode_action of        *)
(* tauri_lifecycle.rs.  The order of priority is hidden game, active       *)
(* schedule rule, the user's last choice, the default mode, and a mode     *)
(* remembered before the automation changed it.                            *)
(***************************************************************************)

CONSTANTS
  Modes,      \* OptimizeMode
  LowPower,   \* the mode of a game whose window is hidden
  None        \* Option::None

ASSUME PolicyAssumption == LowPower \in Modes /\ None \notin Modes

OptMode == Modes \cup {None}

(* "none" is a game with no titled top-level window: the worker cannot     *)
(* tell it from a game that is not running.                                *)
Window == {"none", "hidden", "visible"}

(***************************************************************************)
(* AutomationState.  present and seen are previous_present and             *)
(* previous_visible ("unknown" before the first tick, "none" when absent). *)
(* Only whether a rule is active is ever tested, so inSchedule stands for  *)
(* active_schedule_id.                                                     *)
(***************************************************************************)
Automation ==
  [present : {"unknown", "yes", "no"}, seen : Window, restore : OptMode,
   inSchedule : BOOLEAN, scheduleRestore : OptMode]

InitAutomation ==
  [present |-> "unknown", seen |-> "none", restore |-> None,
   inSchedule |-> FALSE, scheduleRestore |-> None]

(* Option::or.  Its argument is evaluated whether or not it is needed, so  *)
(* a take() inside it empties its source even when it is not chosen.       *)
OrElse(a, b) == IF a # None THEN a ELSE b

(* Fault: a game that was there at the first tick is not a detected one.   *)
NewlyPresentAfterAbsence(memory) == memory.present = "no"

NewlyPresent(memory) == memory.present # "yes"

(* The three outcomes of a tick: what to remember and which mode to apply, *)
(* None when the game already is in it.                                    *)
Outcome(memory, desired, current) ==
  [memory |-> memory, action |-> IF desired = current THEN None ELSE desired]

WhenAbsent(memory) ==
  [memory |-> [InitAutomation EXCEPT !.present = "no"], action |-> None]

(* Fault: every tick remembers, not only the one that sees the window go.  *)
RememberedEachTick(memory, current) == current

(* A window that just went out of sight: remember what to go back to.      *)
RememberedMode(memory, current) ==
  IF memory.seen # "hidden" /\ current # LowPower THEN current ELSE memory.restore

WhenHidden(memory, settings, current) ==
  LET next == [memory EXCEPT !.present = "yes", !.seen = "hidden"] IN
  IF settings.auto
  THEN Outcome([next EXCEPT !.restore = RememberedMode(memory, current)],
               LowPower, current)
  ELSE Outcome(next, IF NewlyPresent(memory) THEN settings.default ELSE None, current)

UserOrDefault(settings) == OrElse(settings.user, settings.default)

(* Fault: the mode to go back to is taken again at every tick of the rule. *)
DuringScheduleEachTick(memory, settings, current, ruleMode) ==
  Outcome([memory EXCEPT !.present = "yes", !.seen = "visible", !.inSchedule = TRUE,
                         !.scheduleRestore = OrElse(UserOrDefault(settings),
                                                    OrElse(memory.restore, current))],
          ruleMode, current)

DuringSchedule(memory, settings, current, ruleMode) ==
  LET before == OrElse(UserOrDefault(settings), OrElse(memory.restore, current)) IN
  Outcome([memory EXCEPT !.present = "yes", !.seen = "visible", !.inSchedule = TRUE,
                         !.scheduleRestore = IF memory.inSchedule THEN @ ELSE before],
          ruleMode, current)

AfterSchedule(memory, settings, current) ==
  Outcome([memory EXCEPT !.present = "yes", !.seen = "visible", !.inSchedule = FALSE,
                         !.restore = None, !.scheduleRestore = None],
          OrElse(UserOrDefault(settings), OrElse(memory.restore, memory.scheduleRestore)),
          current)

AfterHiding(memory, settings, current) ==
  Outcome([memory EXCEPT !.present = "yes", !.seen = "visible", !.restore = None],
          OrElse(UserOrDefault(settings), memory.restore), current)

(* Fault: the user's choice is applied once, like the default mode.        *)
MaintainOnce(memory, settings, current) ==
  Outcome([memory EXCEPT !.present = "yes", !.seen = "visible"],
          IF NewlyPresent(memory) THEN UserOrDefault(settings) ELSE None, current)

(* The user's choice is restored at every tick, the default mode applied   *)
(* once, when the game is detected.                                        *)
Maintain(memory, settings, current) ==
  Outcome([memory EXCEPT !.present = "yes", !.seen = "visible"],
          IF settings.user # None THEN settings.user
          ELSE IF NewlyPresent(memory) THEN settings.default ELSE None,
          current)

WhenVisible(memory, settings, current, ruleMode) ==
  CASE ruleMode # None   -> DuringSchedule(memory, settings, current, ruleMode)
    [] ruleMode = None /\ memory.inSchedule -> AfterSchedule(memory, settings, current)
    [] ruleMode = None /\ ~memory.inSchedule /\ memory.seen = "hidden" /\ settings.auto
                         -> AfterHiding(memory, settings, current)
    [] OTHER             -> Maintain(memory, settings, current)

(* automation_mode_action: memory is AutomationState, the others are the   *)
(* fields of AutomationInput; window is "none" exactly when                *)
(* current_present is false.                                               *)
Decide(memory, settings, window, current, ruleMode) ==
  CASE window = "none"    -> WhenAbsent(memory)
    [] window = "hidden"  -> WhenHidden(memory, settings, current)
    [] window = "visible" -> WhenVisible(memory, settings, current, ruleMode)
=============================================================================
