---------------------------- MODULE ModeControl ----------------------------
(***************************************************************************)
(* Mode requests on the running game.  Three kinds of thread put the game  *)
(* in a mode: the main thread on the user's request, the automation        *)
(* worker, and the reapply threads that repeat a successful request after  *)
(* 0.5, 1, 2, 5 and 10 seconds.  MODE_REQUEST_LOCK serialises them;        *)
(* REAPPLY_GENERATION makes an older request's reapply threads give up.    *)
(*                                                                         *)
(* A critical section is a record cs, one action per call it makes to the  *)
(* operating system or to the settings file, so that the game, the user,   *)
(* the clock and a crash of the program interleave with it.                *)
(***************************************************************************)
EXTENDS ModePolicy, Integers, FiniteSets

CONSTANTS
  Normal,         \* the mode a fresh game process is in
  Choices,        \* what the settings file may hold at first
  Changes,        \* what the user may set
  Requests,       \* modes the user may ask for
  Rules,          \* modes of the user's schedule rules
  Windows,        \* states the game's window moves to
  Resets,         \* the sets of attributes the game may reset by itself
  Attempts,       \* times a reapply thread wakes up
  MaxLaunches,    \* bound: game processes
  MaxMoves,       \* bound: moves of the user, the clock and the game
  MaxFaults,      \* bound: refused system calls and failed saves
  MaxRestarts     \* bound: exits or crashes of the program

Settings == [auto : BOOLEAN, user : OptMode, default : OptMode]

ASSUME ModeControlAssumption ==
  /\ Normal \in Modes
  /\ {"mixed", "gone"} \cap Modes = {}
  /\ Choices \subseteq Settings /\ Changes \subseteq Settings
  /\ Requests \subseteq Modes
  /\ Rules \subseteq Modes
  /\ Windows \subseteq Window
  /\ Resets \subseteq SUBSET {"priority", "affinity"}
  /\ Attempts \in Nat \ {0}
  /\ {MaxLaunches, MaxMoves, MaxFaults, MaxRestarts} \subseteq Nat

VARIABLES
  proc,        \* pid of the running game, 0 for none; launches count the pids
  launches,
  window,      \* the game's main window
  priority,    \* the mode whose priority class the game has
  affinity,    \* the mode whose affinity mask the game has
  lookup,      \* PROCESS_LOOKUP_CACHE, as it stands towards proc
  settings,    \* the settings file
  rule,        \* mode of the active schedule rule
  automation,  \* LifecycleState.automation_state
  generation,  \* REAPPLY_GENERATION
  reapply,     \* reapply threads
  cs,          \* the holder of MODE_REQUEST_LOCK and how far it is
  latest,      \* history: mode of the last request that took a generation
  moves, faults, restarts

gameVars == <<proc, launches, window, priority, affinity>>
inputVars == <<settings, rule>>
budget == <<moves, faults, restarts>>
vars == <<gameVars, lookup, inputVars, automation, generation, reapply, cs, latest, budget>>

-----------------------------------------------------------------------------
(* MODE_REQUEST_LOCK and the request that holds it.  pid is the process    *)
(* the request looked up, prev the priority class to roll back to, seen    *)
(* the settings the worker read.                                           *)
Thread == [gen : Nat, mode : Modes, left : Nat]

Stage == {"decide", "find", "priority", "affinity", "commit"}

Section ==
  [by : {"user", "worker", "reapply"}, stage : Stage, mode : OptMode, gen : Nat,
   pid : Nat, prev : OptMode, seen : Settings \cup {None}]

Unlocked ==
  [by |-> "nobody", stage |-> "free", mode |-> None, gen |-> 0, pid |-> 0,
   prev |-> None, seen |-> None]

(* Fault: the worker decides before it takes the lock.                     *)
LockFreeWhileDeciding == cs.by = "nobody" \/ cs.stage = "decide"

LockFree == cs.by = "nobody"

Unlock == cs' = Unlocked

(* The mode query_current_mode reads: both attributes must agree on it.    *)
CurrentMode == IF proc # 0 /\ priority = affinity THEN priority ELSE None

Move == moves < MaxMoves /\ moves' = moves + 1 /\ UNCHANGED <<faults, restarts>>

Fault == faults < MaxFaults /\ faults' = faults + 1 /\ UNCHANGED <<moves, restarts>>

-----------------------------------------------------------------------------
(* find_process_id: a cached pid is verified against the process's image,  *)
(* so "hit" means that the cached pid is the running game.  Else a scan is *)
(* made, unless one younger than a second found nothing and the caller     *)
(* does not insist on a fresh one.                                         *)
SkipScan(fresh) == lookup = "negative" /\ ~fresh

Found(fresh) == IF lookup = "hit" THEN proc ELSE IF SkipScan(fresh) THEN 0 ELSE proc

LookUp(fresh) ==
  lookup' = IF lookup = "hit" \/ SkipScan(fresh) THEN lookup
            ELSE IF proc = 0 THEN "negative" ELSE "hit"

LookupExpires ==
  /\ lookup = "negative"
  /\ lookup' = "cold"
  /\ UNCHANGED <<gameVars, inputVars, automation, generation, reapply, cs, latest, budget>>

(* The frontend's poll of the game status, every 5 seconds: it holds no    *)
(* lock, but shares the lookup cache.                                      *)
RefreshStatus ==
  /\ cs.by # "user"
  /\ LookUp(FALSE)
  /\ UNCHANGED <<gameVars, inputVars, automation, generation, reapply, cs, latest, budget>>

(* A user's or the worker's request ends with read_control_state, which    *)
(* looks the game up again; a reapply thread answers nobody.               *)
Respond == IF cs.by = "reapply" THEN UNCHANGED lookup ELSE LookUp(FALSE)

-----------------------------------------------------------------------------
(* The user's request, from the page or the tray menu, on the main thread. *)
Deferred == rule # None

(* Fault: a request that leaves the older reapply threads alone.           *)
KeepGeneration(by, mode, seen) ==
  /\ latest' = mode
  /\ cs' = [Unlocked EXCEPT !.by = by, !.stage = "find", !.mode = mode,
                            !.gen = generation, !.seen = seen]
  /\ UNCHANGED generation

TakeGeneration(by, mode, seen) ==
  /\ generation' = generation + 1
  /\ latest' = mode
  /\ cs' = [Unlocked EXCEPT !.by = by, !.stage = "find", !.mode = mode,
                            !.gen = generation + 1, !.seen = seen]

(* While a rule is active the choice is only saved; a failed save leaves   *)
(* everything as it was.                                                   *)
DeferRequest(m) ==
  /\ LockFree
  /\ Deferred
  /\ \/ settings' = [settings EXCEPT !.user = m] /\ Move
     \/ Fault /\ UNCHANGED settings
  /\ LookUp(FALSE)
  /\ UNCHANGED <<gameVars, rule, automation, generation, reapply, cs, latest>>

BeginRequest(m) ==
  /\ LockFree
  /\ ~Deferred
  /\ Move
  /\ TakeGeneration("user", m, None)
  /\ UNCHANGED <<gameVars, lookup, inputVars, automation, reapply>>

-----------------------------------------------------------------------------
(* The automation worker, every 5 seconds.  It takes the lock and reads    *)
(* the settings before it looks at the game and at the rules.              *)
WorkerBegin ==
  /\ LockFree
  /\ cs' = [Unlocked EXCEPT !.by = "worker", !.stage = "decide", !.seen = settings]
  /\ UNCHANGED <<gameVars, lookup, inputVars, automation, generation, reapply, latest, budget>>

WorkerDecide ==
  LET present == Found(FALSE) # 0
      decision == Decide(automation, cs.seen, IF present THEN window ELSE "none",
                         CurrentMode, rule)
  IN
  /\ cs.stage = "decide"
  /\ LookUp(FALSE)
  /\ automation' = decision.memory
  /\ IF decision.action = None
     THEN Unlock /\ UNCHANGED <<generation, latest>>
     ELSE TakeGeneration("worker", decision.action, cs.seen)
  /\ UNCHANGED <<gameVars, inputVars, reapply, budget>>

-----------------------------------------------------------------------------
(* A reapply thread wakes up.                                              *)
(* Fault: the thread does not look at the generation again after a sleep.  *)
NeverSuperseded(t) == TRUE

IsCurrent(t) == t.gen = generation

(* Fault: the loop over the delays has no end.                             *)
TickForever(t) == (reapply \ {t}) \cup {[t EXCEPT !.left = @ - 1]}

Tick(t) ==
  (reapply \ {t}) \cup IF t.left > 1 THEN {[t EXCEPT !.left = @ - 1]} ELSE {}

ReapplyGivesUp(t) ==
  /\ LockFree
  /\ ~IsCurrent(t)
  /\ reapply' = reapply \ {t}
  /\ UNCHANGED <<gameVars, lookup, inputVars, automation, generation, cs, latest, budget>>

ReapplyWakes(t) ==
  /\ LockFree
  /\ IsCurrent(t)
  /\ LookUp(FALSE)
  /\ reapply' = Tick(t)
  /\ cs' = IF Found(FALSE) = 0 THEN Unlocked
           ELSE [Unlocked EXCEPT !.by = "reapply", !.stage = "priority", !.mode = t.mode,
                                 !.gen = t.gen, !.pid = Found(FALSE)]
  /\ UNCHANGED <<gameVars, inputVars, automation, generation, latest, budget>>

-----------------------------------------------------------------------------
(* apply_mode_impl_locked after the generation is taken, and               *)
(* apply_optimization.                                                     *)
FindGame ==
  /\ cs.stage = "find"
  /\ LookUp(TRUE)
  /\ cs' = IF Found(TRUE) = 0 THEN Unlocked
           ELSE [cs EXCEPT !.stage = "priority", !.pid = Found(TRUE)]
  /\ UNCHANGED <<gameVars, inputVars, automation, generation, reapply, latest, budget>>

(* The process handle still names the game that was looked up.             *)
TargetAlive == cs.pid = proc

SetPriority ==
  /\ cs.stage = "priority"
  /\ TargetAlive
  /\ priority' = cs.mode
  /\ cs' = [cs EXCEPT !.stage = "affinity", !.prev = priority]
  /\ UNCHANGED <<proc, launches, window, affinity, lookup, inputVars, automation,
                 generation, reapply, latest, budget>>

(* OpenProcess, the image check, GetPriorityClass or SetPriorityClass      *)
(* fails: nothing was changed.  The generation stays taken.                *)
PriorityRefused ==
  /\ cs.stage = "priority"
  /\ \/ ~TargetAlive /\ UNCHANGED budget
     \/ TargetAlive /\ Fault
  /\ Unlock
  /\ Respond
  /\ UNCHANGED <<gameVars, inputVars, automation, generation, reapply, latest>>

SetAffinity ==
  /\ cs.stage = "affinity"
  /\ TargetAlive
  /\ affinity' = cs.mode
  /\ cs' = IF cs.by = "reapply" THEN Unlocked ELSE [cs EXCEPT !.stage = "commit"]
  /\ UNCHANGED <<proc, launches, window, priority, lookup, inputVars, automation,
                 generation, reapply, latest, budget>>

(* Fault: the rollback repeats the request.                                *)
RolledBackToTarget == cs.mode

RolledBack == cs.prev

(* SetProcessAffinityMask fails: the priority class is set back, unless    *)
(* that fails too.                                                         *)
AffinityRefused ==
  /\ cs.stage = "affinity"
  /\ TargetAlive
  /\ Fault
  /\ priority' = RolledBack
  /\ Unlock
  /\ Respond
  /\ UNCHANGED <<proc, launches, window, affinity, inputVars, automation,
                 generation, reapply, latest>>

RollbackRefused ==
  /\ cs.stage = "affinity"
  /\ TargetAlive
  /\ faults + 1 < MaxFaults
  /\ faults' = faults + 2
  /\ Unlock
  /\ Respond
  /\ UNCHANGED <<gameVars, inputVars, automation, generation, reapply, latest,
                 moves, restarts>>

TargetGone ==
  /\ cs.stage = "affinity"
  /\ ~TargetAlive
  /\ Unlock
  /\ Respond
  /\ UNCHANGED <<gameVars, inputVars, automation, generation, reapply, latest, budget>>

StartReapply == reapply' = reapply \cup {[gen |-> cs.gen, mode |-> cs.mode, left |-> Attempts]}

(* The request succeeded: a user's choice is saved, and a reapply thread   *)
(* is started whether or not the save succeeds.                            *)
Commit ==
  /\ cs.stage = "commit"
  /\ \/ cs.by = "user" /\ settings' = [settings EXCEPT !.user = cs.mode] /\ UNCHANGED budget
     \/ cs.by = "user" /\ Fault /\ UNCHANGED settings
     \/ cs.by = "worker" /\ UNCHANGED <<settings, budget>>
  /\ StartReapply
  /\ Unlock
  /\ Respond
  /\ UNCHANGED <<gameVars, rule, automation, generation, latest>>

-----------------------------------------------------------------------------
(* The user's settings, on the main thread; the rule that is active, by    *)
(* the clock or the user's edit of the rules.                              *)
ChangeSetting ==
  /\ cs.by # "user"
  /\ Move
  /\ \E s \in Changes : settings' = [s EXCEPT !.user = settings.user]
  /\ UNCHANGED <<gameVars, lookup, rule, automation, generation, reapply, cs, latest>>

RuleChanges ==
  /\ Move
  /\ \E r \in (Rules \cup {None}) \ {rule} : rule' = r
  /\ UNCHANGED <<gameVars, lookup, settings, automation, generation, reapply, cs, latest>>

(* The game.                                                               *)
GameStarts ==
  /\ proc = 0
  /\ launches < MaxLaunches
  /\ Move
  /\ launches' = launches + 1
  /\ proc' = launches + 1
  /\ UNCHANGED <<window, priority, affinity, lookup, inputVars, automation, generation,
                 reapply, cs, latest>>

GameExits ==
  /\ proc # 0
  /\ Move
  /\ proc' = 0
  /\ window' = "none"
  /\ priority' = Normal
  /\ affinity' = Normal
  /\ lookup' = IF lookup = "hit" THEN "cold" ELSE lookup
  /\ UNCHANGED <<launches, inputVars, automation, generation, reapply, cs, latest>>

WindowChanges ==
  /\ proc # 0
  /\ Move
  /\ window' \in Windows \ {window}
  /\ UNCHANGED <<proc, launches, priority, affinity, lookup, inputVars, automation,
                 generation, reapply, cs, latest>>

(* The game's protection undoes what was applied.                          *)
GameResets ==
  /\ proc # 0
  /\ Move
  /\ \E attributes \in Resets :
       /\ priority' = IF "priority" \in attributes THEN Normal ELSE priority
       /\ affinity' = IF "affinity" \in attributes THEN Normal ELSE affinity
  /\ UNCHANGED <<proc, launches, window, lookup, inputVars, automation, generation,
                 reapply, cs, latest>>

(* The program exits or crashes, at any point of a critical section, and   *)
(* is started again: only the settings file survives.                      *)
Restart ==
  /\ restarts < MaxRestarts
  /\ restarts' = restarts + 1
  /\ lookup' = "cold"
  /\ automation' = InitAutomation
  /\ generation' = 0
  /\ reapply' = {}
  /\ Unlock
  /\ UNCHANGED <<gameVars, inputVars, latest, moves, faults>>

-----------------------------------------------------------------------------
(* The game may have been started before the program.                      *)
Init ==
  /\ proc \in {0, 1} /\ launches = proc
  /\ window \in IF proc = 0 THEN {"none"} ELSE Windows
  /\ priority = Normal /\ affinity = Normal
  /\ lookup = "cold"
  /\ settings \in Choices
  /\ rule \in Rules \cup {None}
  /\ automation = InitAutomation
  /\ generation = 0 /\ reapply = {} /\ cs = Unlocked
  /\ latest = None
  /\ moves = 0 /\ faults = 0 /\ restarts = 0

User == \E m \in Requests : DeferRequest(m) \/ BeginRequest(m)

Worker == WorkerBegin \/ WorkerDecide

Reapply == \E t \in reapply : ReapplyGivesUp(t) \/ ReapplyWakes(t)

Apply ==
  \/ FindGame \/ SetPriority \/ PriorityRefused \/ SetAffinity
  \/ AffinityRefused \/ RollbackRefused \/ TargetGone \/ Commit

Environment ==
  \/ ChangeSetting \/ RuleChanges
  \/ GameStarts \/ GameExits \/ WindowChanges \/ GameResets

Next ==
  User \/ Worker \/ Reapply \/ Apply \/ LookupExpires \/ RefreshStatus \/ Environment \/ Restart

(* The worker and a thread inside the lock always go on: the worker is a   *)
(* loop over a 5-second sleep, and no call made inside the lock blocks.    *)
(* Nothing is assumed of the user, the game, the clock and a restart.      *)
Fairness == WF_vars(Worker) /\ WF_vars(Apply) /\ WF_vars(LookupExpires)

Spec == Init /\ [][Next]_vars

FairSpec == Spec /\ Fairness

(* A reapply thread needs the lock, which the worker takes again and again:*)
(* it gets it sometime, for the worker sleeps between its ticks.           *)
ReapplySpec == FairSpec /\ SF_vars(Reapply)
-----------------------------------------------------------------------------
TypeOK ==
  /\ proc \in Nat /\ launches \in Nat /\ proc <= launches
  /\ window \in Window
  /\ priority \in Modes /\ affinity \in Modes
  /\ lookup \in {"cold", "hit", "negative"}
  /\ settings \in Settings
  /\ rule \in OptMode
  /\ automation \in Automation
  /\ generation \in Nat
  /\ reapply \subseteq Thread
  /\ cs \in Section \cup {Unlocked}
  /\ latest \in OptMode
  /\ moves \in Nat /\ faults \in Nat /\ restarts \in Nat

(* Past the decision, whoever holds the lock is about to put the game in   *)
(* the mode of the most recent request, and so is every reapply thread     *)
(* that will not give up: an older request never undoes a newer one, even  *)
(* one that failed or was made while the thread slept (the generation      *)
(* check of schedule_reapply).                                             *)
LastRequestWins ==
  /\ cs.stage \notin {"free", "decide"} => cs.gen = generation /\ cs.mode = latest
  /\ \A t \in reapply : t.gen = generation => t.mode = latest

(* Until the worker has applied what it decided, the user's saved choice   *)
(* is the one the decision was made from (run_serialized_mode_decision     *)
(* decides and applies under one lock).                                    *)
DecisionNotStale == cs.by = "worker" => cs.seen.user = settings.user

(* At most one call was refused, and the program was not killed.           *)
OneFailure == faults < 2 /\ restarts = 0

(* With the lock free, the game's priority class and affinity belong to    *)
(* one mode, also after one call failed, provided the game does not change *)
(* them itself (the rollback of apply_priority_affinity, and the comment   *)
(* above APPLY_LOCK).                                                      *)
Coherent == OneFailure /\ LockFree => priority = affinity

(* What the automation is for: a mode that the state of the game, the      *)
(* rules and the settings call for.                                        *)
Wanted ==
  CASE window = "none"    -> None
    [] window = "hidden"  -> IF settings.auto THEN LowPower ELSE None
    [] window = "visible" -> OrElse(rule, settings.user)

(* If from some time on one mode is called for, the game ends up in it and *)
(* stays in it, whatever was refused, reset, requested or restarted before *)
(* (the worker's maintenance in automation_mode_action).                   *)
Converges == \A m \in Modes : <>[](Wanted = m) => <>[](CurrentMode = m)

(* A game nobody asked to be in low power does not stay there while its    *)
(* window is visible: "restored to the mode before when it appears again"  *)
(* (README.md, automatic tray mode).                                       *)
RestoredWhenShown ==
  <>[](window = "visible" /\ settings.auto) => <>[](CurrentMode # LowPower)

(* A rule's mode does not outlive the rule on a visible game when nothing  *)
(* else calls for that mode (the exit branch of automation_mode_action),   *)
(* unless the game was hidden before the worker saw the rule's end: then   *)
(* it is the mode to restore when the game is shown.                       *)
RuleDoesNotLinger ==
  [](automation.inSchedule => window # "hidden") =>
    \A m \in Rules :
      <>[](window = "visible" /\ rule = None /\ settings.user = None /\ settings.default = None)
        => <>[](CurrentMode # m)

(* A detected game gets the default mode, unless the user chose a mode, a  *)
(* rule is active, or the game goes away or is hidden before it does (the  *)
(* default mode's description in the settings tab).                        *)
DefaultApplied ==
  (window = "visible" /\ settings.default # None)
    ~> \/ CurrentMode = settings.default
       \/ window # "visible" \/ settings.user # None \/ rule # None
-----------------------------------------------------------------------------
(* What a mode register promises: see GameMode.  While a request is between *)
(* its two calls, the priority class is still the one to roll back to.     *)
HalfApplied == cs.stage = "affinity" /\ TargetAlive

RegisterMode ==
  IF proc = 0 THEN "gone"
  ELSE LET p == IF HalfApplied THEN cs.prev ELSE priority
       IN IF p = affinity THEN p ELSE "mixed"

Register == INSTANCE GameMode WITH mode <- RegisterMode

RegisterSpec == Register!Spec
=============================================================================
