------------------------- MODULE ModeControlProofs -------------------------
(***************************************************************************)
(* Proofs about ModeControl, for any modes, settings, rules, windows,      *)
(* resets and bounds.  IInv is the one inductive invariant: TypeOK says    *)
(* too little of a critical section (that a request past its decision has  *)
(* a mode, that it looked up a process that was launched), and             *)
(* LastRequestWins needs that no reapply thread is of a generation still   *)
(* to come.                                                                *)
(***************************************************************************)
EXTENDS ModeControl, TLAPS

Requesting == cs.stage \in {"find", "priority", "affinity", "commit"}

(* What a section has found out at each stage.                             *)
SectionOK ==
  /\ cs.stage = "decide" => cs.by = "worker"
  /\ cs.by = "worker" => cs.seen \in Settings
  /\ Requesting => cs.mode \in Modes
  /\ cs.stage = "affinity" => cs.prev \in Modes
  /\ cs.stage \in {"priority", "affinity"} => cs.pid \in 1..launches

GenerationsOK == \A t \in reapply : t.gen <= generation

IInv == TypeOK /\ SectionOK /\ LastRequestWins /\ GenerationsOK

-----------------------------------------------------------------------------
LEMMA OutcomeType ==
  ASSUME NEW memory \in Automation, NEW desired \in OptMode, NEW current \in OptMode
  PROVE  /\ Outcome(memory, desired, current).memory \in Automation
         /\ Outcome(memory, desired, current).action \in OptMode
BY DEF Outcome, OptMode

LEMMA OrElseType ==
  ASSUME NEW a \in OptMode, NEW b \in OptMode
  PROVE  OrElse(a, b) \in OptMode
BY DEF OrElse


(* automation_mode_action answers with a memory and an optional mode,      *)
(* whatever it remembers and sees.                                         *)
LEMMA DecideType ==
  ASSUME NEW memory \in Automation, NEW s \in Settings, NEW w \in Window,
         NEW current \in OptMode, NEW r \in OptMode
  PROVE  /\ Decide(memory, s, w, current, r).memory \in Automation
         /\ Decide(memory, s, w, current, r).action \in OptMode
<1> DEFINE D == Decide(memory, s, w, current, r)
           Goal == D.memory \in Automation /\ D.action \in OptMode
<1>0. /\ None \in OptMode
      /\ LowPower \in OptMode
      /\ s.user \in OptMode /\ s.default \in OptMode
      /\ memory.restore \in OptMode /\ memory.scheduleRestore \in OptMode
      /\ UserOrDefault(s) \in OptMode
      /\ RememberedMode(memory, current) \in OptMode
      /\ InitAutomation \in Automation
  BY PolicyAssumption
     DEF Settings, OptMode, Automation, Window, OrElse, UserOrDefault, RememberedMode,
         InitAutomation
<1>1. CASE w = "none"
  <2>1. D = WhenAbsent(memory)
    BY <1>1 DEF Decide
  <2> QED BY <2>1, <1>0 DEF WhenAbsent, Automation
<1>2. CASE w = "hidden"
  <2> DEFINE next == [memory EXCEPT !.present = "yes", !.seen = "hidden"]
             kept == [next EXCEPT !.restore = RememberedMode(memory, current)]
             once == IF NewlyPresent(memory) THEN s.default ELSE None
  <2>1. next \in Automation /\ kept \in Automation /\ once \in OptMode
    BY <1>0 DEF Automation, Window
  <2>2. D = IF s.auto THEN Outcome(kept, LowPower, current) ELSE Outcome(next, once, current)
    BY <1>2 DEF Decide, WhenHidden
  <2> HIDE DEF next, kept, once
  <2> QED BY <2>1, <2>2, <1>0, OutcomeType
<1>3. CASE w = "visible"
  <2>1. D = WhenVisible(memory, s, current, r)
    BY <1>3 DEF Decide
  <2>2. CASE r # None
    <3> DEFINE before == OrElse(UserOrDefault(s), OrElse(memory.restore, current))
               next == [memory EXCEPT !.present = "yes", !.seen = "visible",
                          !.inSchedule = TRUE,
                          !.scheduleRestore = IF memory.inSchedule THEN @ ELSE before]
    <3>1. before \in OptMode
      BY <1>0, OrElseType
    <3>2. next \in Automation
      BY <1>0, <3>1 DEF Automation, Window
    <3>3. D = Outcome(next, r, current)
      BY <2>1, <2>2 DEF WhenVisible, DuringSchedule
    <3> HIDE DEF next
    <3> QED BY <3>2, <3>3, OutcomeType
  <2>3. CASE r = None /\ memory.inSchedule
    <3> DEFINE next == [memory EXCEPT !.present = "yes", !.seen = "visible",
                          !.inSchedule = FALSE, !.restore = None,
                          !.scheduleRestore = None]
               desired == OrElse(UserOrDefault(s),
                                 OrElse(memory.restore, memory.scheduleRestore))
    <3>1. desired \in OptMode
      BY <1>0, OrElseType
    <3>2. next \in Automation
      BY <1>0 DEF Automation, Window
    <3>3. D = Outcome(next, desired, current)
      BY <2>1, <2>3 DEF WhenVisible, AfterSchedule
    <3> HIDE DEF next, desired
    <3> QED BY <3>1, <3>2, <3>3, OutcomeType
  <2>4. CASE r = None /\ ~memory.inSchedule /\ memory.seen = "hidden" /\ s.auto
    <3> DEFINE next == [memory EXCEPT !.present = "yes", !.seen = "visible",
                          !.restore = None]
               desired == OrElse(UserOrDefault(s), memory.restore)
    <3>1. desired \in OptMode
      BY <1>0, OrElseType
    <3>2. next \in Automation
      BY <1>0 DEF Automation, Window
    <3>3. D = Outcome(next, desired, current)
      BY <2>1, <2>4 DEF WhenVisible, AfterHiding
    <3> HIDE DEF next, desired
    <3> QED BY <3>1, <3>2, <3>3, OutcomeType
  <2>5. CASE r = None /\ ~memory.inSchedule /\ ~(memory.seen = "hidden" /\ s.auto)
    <3> DEFINE next == [memory EXCEPT !.present = "yes", !.seen = "visible"]
               desired == IF s.user # None THEN s.user
                          ELSE IF NewlyPresent(memory) THEN s.default ELSE None
    <3>1. desired \in OptMode
      BY <1>0
    <3>2. next \in Automation
      BY DEF Automation, Window
    <3>3. D = Outcome(next, desired, current)
      BY <2>1, <2>5 DEF WhenVisible, Maintain
    <3> HIDE DEF next, desired
    <3> QED BY <3>1, <3>2, <3>3, OutcomeType
  <2> QED BY <2>2, <2>3, <2>4, <2>5 DEF Automation
<1> QED BY <1>1, <1>2, <1>3 DEF Window
-----------------------------------------------------------------------------
LEMMA LookUpFacts ==
  ASSUME TypeOK, NEW fresh \in BOOLEAN
  PROVE  /\ Found(fresh) = 0 \/ Found(fresh) \in 1..launches
         /\ LookUp(fresh) => lookup' \in {"cold", "hit", "negative"}
<1>1. Found(fresh) = 0 \/ Found(fresh) = proc
  BY DEF Found
<1>2. proc = 0 \/ proc \in 1..launches
  BY DEF TypeOK
<1>3. LookUp(fresh) => lookup' \in {"cold", "hit", "negative"}
  BY DEF TypeOK, LookUp
<1> QED BY <1>1, <1>2, <1>3

(* An unlocked section satisfies every conjunct about sections.            *)
LEMMA UnlockFacts ==
  ASSUME Unlock
  PROVE  /\ cs' \in Section \cup {Unlocked}
         /\ cs'.stage = "free" /\ cs'.by = "nobody"
BY DEF Unlock, Unlocked

LEMMA SectionFields ==
  ASSUME TypeOK, cs.stage # "free"
  PROVE  cs \in Section
BY DEF TypeOK, Unlocked

LEMMA LockFreeFacts ==
  ASSUME TypeOK, LockFree
  PROVE  cs.stage = "free"
BY DEF TypeOK, LockFree, Section, Unlocked

LEMMA InitIInv == Init => IInv
<1> SUFFICES ASSUME Init PROVE IInv
  OBVIOUS
<1>1. cs.stage = "free" /\ cs.by = "nobody"
  BY DEF Init, Unlocked
<1>2. TypeOK
  BY PolicyAssumption, ModeControlAssumption
     DEF Init, TypeOK, InitAutomation, Automation, Window, OptMode
<1> QED BY <1>1, <1>2 DEF Init, IInv, SectionOK, Requesting, LastRequestWins, GenerationsOK

(* The user, the game, the clock and the lookup cache leave the lock and   *)
(* the generations alone.                                                  *)
LEMMA OutsideIInv ==
  ASSUME IInv,
         \/ LookupExpires \/ RefreshStatus \/ Environment
         \/ \E m \in Requests : DeferRequest(m)
  PROVE  IInv'
<1>1. UNCHANGED <<automation, generation, reapply, cs, latest, restarts>>
  BY DEF LookupExpires, RefreshStatus, Environment, DeferRequest, ChangeSetting, RuleChanges,
         GameStarts, GameExits, WindowChanges, GameResets, budget, Move, Fault
<1>2. TypeOK'
  <2> USE DEF IInv
  <2>1. CASE LookupExpires
    BY <2>1 DEF LookupExpires, TypeOK, gameVars, inputVars, budget
  <2>2. CASE RefreshStatus
    BY <2>2, LookUpFacts DEF RefreshStatus, TypeOK, gameVars, inputVars, budget
  <2>3. CASE \E m \in Requests : DeferRequest(m)
    <3> SUFFICES ASSUME NEW m \in Requests, DeferRequest(m) PROVE TypeOK'
      BY <2>3
    <3>1. settings' \in Settings
      BY ModeControlAssumption DEF DeferRequest, TypeOK, Settings, OptMode
    <3>2. moves' \in Nat /\ faults' \in Nat /\ restarts' \in Nat
      BY DEF DeferRequest, Move, Fault, TypeOK
    <3> QED BY <3>1, <3>2, LookUpFacts DEF DeferRequest, TypeOK, gameVars
  <2>4. CASE ChangeSetting
    BY <2>4, ModeControlAssumption DEF ChangeSetting, TypeOK, gameVars, Move, Settings
  <2>5. CASE RuleChanges
    BY <2>5, ModeControlAssumption DEF RuleChanges, TypeOK, gameVars, Move, OptMode
  <2>6. CASE GameStarts
    BY <2>6 DEF GameStarts, TypeOK, inputVars, Move
  <2>7. CASE GameExits
    BY <2>7, ModeControlAssumption DEF GameExits, TypeOK, inputVars, Move, Window
  <2>8. CASE WindowChanges
    BY <2>8, ModeControlAssumption DEF WindowChanges, TypeOK, inputVars, Move
  <2>9. CASE GameResets
    BY <2>9, ModeControlAssumption DEF GameResets, TypeOK, inputVars, Move
  <2> QED BY <2>1, <2>2, <2>3, <2>4, <2>5, <2>6, <2>7, <2>8, <2>9 DEF Environment
<1>3. launches' \in Nat /\ launches <= launches'
  <2>1. launches' = launches \/ launches' = launches + 1
    BY DEF LookupExpires, RefreshStatus, Environment, DeferRequest, ChangeSetting,
           RuleChanges, GameStarts, GameExits, WindowChanges, GameResets, gameVars
  <2> QED BY <2>1 DEF IInv, TypeOK
<1>4. SectionOK'
  BY <1>1, <1>3 DEF IInv, TypeOK, SectionOK, Requesting
<1> QED BY <1>1, <1>2, <1>4 DEF IInv, LastRequestWins, GenerationsOK

(* A request takes the next generation: no reapply thread has it yet.      *)
LEMMA TakeGenerationIInv ==
  ASSUME IInv, NEW by \in {"user", "worker"}, NEW m \in Modes,
         NEW seen \in Settings \cup {None}, by = "worker" => seen \in Settings,
         TakeGeneration(by, m, seen),
         UNCHANGED <<gameVars, rule, settings, reapply>>,
         lookup' \in {"cold", "hit", "negative"}, automation' \in Automation,
         moves' \in Nat, faults' \in Nat, restarts' \in Nat
  PROVE  IInv'
<1>1. /\ cs' = [by |-> by, stage |-> "find", mode |-> m, gen |-> generation + 1, pid |-> 0,
                prev |-> None, seen |-> seen]
      /\ generation' = generation + 1 /\ latest' = m
  BY DEF TakeGeneration, Unlocked
<1>2. cs' \in Section
  BY <1>1 DEF Section, Stage, OptMode, IInv, TypeOK
<1>3. TypeOK'
  BY <1>1, <1>2 DEF IInv, TypeOK, gameVars, OptMode
<1>4. SectionOK'
  BY <1>1 DEF SectionOK, Requesting
<1>5. generation \in Nat /\ \A t \in reapply : t.gen \in Nat /\ t.gen <= generation
  BY DEF IInv, TypeOK, GenerationsOK, Thread
<1> QED BY <1>1, <1>3, <1>4, <1>5 DEF IInv, LastRequestWins, GenerationsOK

(* Giving the lock up keeps the invariant, whatever was done to the game   *)
(* and the settings, and whichever reapply thread remains.                 *)
LEMMA UnlockIInv ==
  ASSUME IInv, Unlock, UNCHANGED <<proc, launches, window, rule, generation, latest>>,
         priority' \in Modes, affinity' \in Modes, settings' \in Settings,
         lookup' \in {"cold", "hit", "negative"}, automation' \in Automation,
         moves' \in Nat, faults' \in Nat, restarts' \in Nat,
         reapply' \subseteq Thread,
         \A t \in reapply' : t.gen <= generation /\ (t.gen = generation => t.mode = latest)
  PROVE  IInv'
<1>1. cs' \in Section \cup {Unlocked} /\ cs'.stage = "free" /\ cs'.by = "nobody"
  BY UnlockFacts
<1>2. TypeOK'
  BY <1>1 DEF IInv, TypeOK
<1> QED BY <1>1, <1>2 DEF IInv, SectionOK, Requesting, LastRequestWins, GenerationsOK

LEMMA ThreadFacts ==
  ASSUME IInv
  PROVE  \A t \in reapply : /\ t \in Thread /\ t.gen <= generation
                            /\ t.gen = generation => t.mode = latest
BY DEF IInv, TypeOK, LastRequestWins, GenerationsOK

LEMMA RespondType ==
  ASSUME TypeOK, Respond
  PROVE  lookup' \in {"cold", "hit", "negative"}
BY LookUpFacts DEF Respond, TypeOK

LEMMA BudgetType ==
  ASSUME TypeOK, Fault \/ UNCHANGED budget
  PROVE  moves' \in Nat /\ faults' \in Nat /\ restarts' \in Nat
BY DEF Fault, budget, TypeOK

LEMMA WorkerIInv ==
  ASSUME IInv, Worker
  PROVE  IInv'
<1>1. CASE WorkerBegin
  <2>1. cs' = [by |-> "worker", stage |-> "decide", mode |-> None, gen |-> 0, pid |-> 0,
               prev |-> None, seen |-> settings]
    BY <1>1 DEF WorkerBegin, Unlocked
  <2>2. cs' \in Section
    BY <2>1 DEF Section, Stage, OptMode, IInv, TypeOK
  <2>3. TypeOK'
    BY <1>1, <2>2 DEF WorkerBegin, IInv, TypeOK, gameVars, inputVars, budget
  <2>4. SectionOK'
    BY <1>1, <2>1 DEF SectionOK, Requesting, IInv, TypeOK
  <2> QED BY <1>1, <2>1, <2>3, <2>4 DEF WorkerBegin, IInv, LastRequestWins, GenerationsOK
<1>2. CASE WorkerDecide
  <2> DEFINE present == Found(FALSE) # 0
             w == IF present THEN window ELSE "none"
             decision == Decide(automation, cs.seen, w, CurrentMode, rule)
  <2>1. cs.stage = "decide" /\ cs.by = "worker" /\ cs.seen \in Settings
    BY <1>2 DEF WorkerDecide, IInv, SectionOK
  <2>2. w \in Window /\ CurrentMode \in OptMode /\ automation \in Automation /\ rule \in OptMode
    BY DEF IInv, TypeOK, Window, CurrentMode, OptMode
  <2>3. decision.memory \in Automation /\ decision.action \in OptMode
    BY <2>1, <2>2, DecideType
  <2>4. automation' \in Automation /\ lookup' \in {"cold", "hit", "negative"}
    BY <1>2, <2>3, LookUpFacts DEF WorkerDecide, IInv
  <2>5. /\ UNCHANGED <<gameVars, rule, settings, reapply, budget>>
        /\ UNCHANGED <<proc, launches, window, priority, affinity>>
        /\ moves' \in Nat /\ faults' \in Nat /\ restarts' \in Nat
    BY <1>2 DEF WorkerDecide, inputVars, budget, gameVars, IInv, TypeOK
  <2>6. CASE decision.action = None
    <3>1. Unlock /\ UNCHANGED <<generation, latest>>
      BY <1>2, <2>6 DEF WorkerDecide
    <3>2. settings' \in Settings /\ priority' \in Modes /\ affinity' \in Modes
          /\ reapply' \subseteq Thread
      BY <2>5 DEF IInv, TypeOK
    <3> QED BY <2>4, <2>5, <3>1, <3>2, ThreadFacts, UnlockIInv
  <2>7. CASE decision.action # None
    <3>1. TakeGeneration("worker", decision.action, cs.seen)
      BY <1>2, <2>7 DEF WorkerDecide
    <3>2. decision.action \in Modes
      BY <2>3, <2>7 DEF OptMode
    <3> HIDE DEF decision
    <3> QED BY <2>1, <2>4, <2>5, <3>1, <3>2, TakeGenerationIInv
  <2> QED BY <2>6, <2>7
<1> QED BY <1>1, <1>2 DEF Worker

LEMMA ReapplyIInv ==
  ASSUME IInv, Reapply
  PROVE  IInv'
<1> PICK t \in reapply : ReapplyGivesUp(t) \/ ReapplyWakes(t)
  BY DEF Reapply
<1>1. /\ t \in Thread /\ t.gen <= generation /\ t.mode \in Modes
      /\ t.gen = generation => t.mode = latest
  BY ThreadFacts DEF Thread
<1>2. /\ reapply' \subseteq Thread
      /\ \A u \in reapply' : u.gen <= generation /\ (u.gen = generation => u.mode = latest)
  <2>1. reapply' = reapply \ {t} \/ reapply' = Tick(t)
    BY DEF ReapplyGivesUp, ReapplyWakes
  <2> SUFFICES ASSUME NEW u \in reapply', u \notin reapply
               PROVE  /\ u \in Thread /\ u.gen <= generation
                      /\ u.gen = generation => u.mode = latest
    BY ThreadFacts
  <2>2. u = [t EXCEPT !.left = @ - 1] /\ t.left > 1
    BY <2>1 DEF Tick
  <2> QED BY <2>2, <1>1 DEF Thread
<1>3. /\ UNCHANGED <<gameVars, inputVars, automation, generation, latest, budget>>
      /\ UNCHANGED <<proc, launches, window, rule, generation, latest>>
      /\ priority' \in Modes /\ affinity' \in Modes /\ settings' \in Settings
      /\ automation' \in Automation
      /\ moves' \in Nat /\ faults' \in Nat /\ restarts' \in Nat
  BY DEF ReapplyGivesUp, ReapplyWakes, IInv, TypeOK, gameVars, inputVars, budget
<1>4. lookup' \in {"cold", "hit", "negative"}
  BY LookUpFacts DEF ReapplyGivesUp, ReapplyWakes, IInv, TypeOK
<1>5. CASE ReapplyGivesUp(t)
  <2>1. Unlock
    BY <1>5 DEF ReapplyGivesUp, LockFree, IInv, TypeOK, Section, Unlock, Unlocked
  <2> QED BY <2>1, <1>2, <1>3, <1>4, UnlockIInv
<1>6. CASE ReapplyWakes(t) /\ Found(FALSE) = 0
  <2>1. Unlock
    BY <1>6 DEF ReapplyWakes, Unlock
  <2> QED BY <2>1, <1>2, <1>3, <1>4, UnlockIInv
<1>7. CASE ReapplyWakes(t) /\ Found(FALSE) # 0
  <2>1. PICK p \in 1..launches : p = Found(FALSE)
    BY <1>7, LookUpFacts DEF IInv
  <2>2. cs' = [by |-> "reapply", stage |-> "priority", mode |-> t.mode, gen |-> t.gen,
               pid |-> p, prev |-> None, seen |-> None]
    BY <1>7, <2>1 DEF ReapplyWakes, Unlocked
  <2>3. cs' \in Section
    BY <2>2, <1>1 DEF Section, Stage, OptMode, Thread, IInv, TypeOK
  <2>4. TypeOK'
    BY <2>3, <1>2, <1>3, <1>4 DEF IInv, TypeOK
  <2>5. SectionOK'
    BY <2>2, <1>1, <1>3 DEF SectionOK, Requesting
  <2>6. t.gen = generation
    BY <1>7 DEF ReapplyWakes, IsCurrent
  <2>7. LastRequestWins' /\ GenerationsOK'
    BY <2>2, <2>6, <1>1, <1>2, <1>3 DEF LastRequestWins, GenerationsOK
  <2> QED BY <2>4, <2>5, <2>7 DEF IInv
<1> QED BY <1>5, <1>6, <1>7

LEMMA ApplyIInv ==
  ASSUME IInv, Apply
  PROVE  IInv'
<1>1. /\ UNCHANGED <<proc, launches, window, rule, generation, latest>>
      /\ automation' \in Automation
  BY DEF Apply, FindGame, SetPriority, PriorityRefused, SetAffinity, AffinityRefused,
         RollbackRefused, TargetGone, Commit, gameVars, inputVars, IInv, TypeOK
<1>2. cs.stage \in {"find", "priority", "affinity", "commit"}
  BY DEF Apply, FindGame, SetPriority, PriorityRefused, SetAffinity, AffinityRefused,
         RollbackRefused, TargetGone, Commit
<1>3. /\ cs \in Section
      /\ cs.mode \in Modes /\ cs.gen = generation /\ cs.mode = latest
      /\ cs.stage = "affinity" => cs.prev \in Modes
      /\ cs.by = "worker" => cs.seen \in Settings
  BY <1>2, SectionFields DEF IInv, SectionOK, Requesting, LastRequestWins
<1>4. /\ settings' \in Settings
      /\ moves' \in Nat /\ faults' \in Nat /\ restarts' \in Nat
  <2>1. CASE Commit
    BY <2>1, <1>3, BudgetType DEF Commit, IInv, TypeOK, Settings, OptMode, budget, Fault
  <2>2. CASE RollbackRefused
    BY <2>2 DEF RollbackRefused, inputVars, IInv, TypeOK
  <2>3. CASE PriorityRefused \/ AffinityRefused
    BY <2>3, BudgetType DEF PriorityRefused, AffinityRefused, inputVars, IInv, TypeOK
  <2>4. CASE FindGame \/ SetPriority \/ SetAffinity \/ TargetGone
    BY <2>4 DEF FindGame, SetPriority, SetAffinity, TargetGone, inputVars, budget, IInv, TypeOK
  <2> QED BY <2>1, <2>2, <2>3, <2>4 DEF Apply
<1>5. lookup' \in {"cold", "hit", "negative"}
  <2>1. CASE FindGame
    BY <2>1, LookUpFacts DEF FindGame, IInv
  <2>2. CASE SetPriority \/ SetAffinity
    BY <2>2 DEF SetPriority, SetAffinity, IInv, TypeOK
  <2>3. CASE PriorityRefused \/ AffinityRefused \/ RollbackRefused \/ TargetGone \/ Commit
    BY <2>3, RespondType
       DEF PriorityRefused, AffinityRefused, RollbackRefused, TargetGone, Commit, IInv
  <2> QED BY <2>1, <2>2, <2>3 DEF Apply
<1>6. priority' \in Modes /\ affinity' \in Modes
  BY <1>3 DEF Apply, FindGame, SetPriority, PriorityRefused, SetAffinity, AffinityRefused,
              RolledBack, RollbackRefused, TargetGone, Commit, gameVars, IInv, TypeOK
<1>7. CASE Unlock /\ UNCHANGED reapply
  <2>1. reapply' \subseteq Thread
    BY <1>7 DEF IInv, TypeOK
  <2> QED BY <1>1, <1>4, <1>5, <1>6, <1>7, <2>1, ThreadFacts, UnlockIInv
<1>8. CASE Commit
  <2> DEFINE t == [gen |-> cs.gen, mode |-> cs.mode, left |-> Attempts]
  <2>1. Unlock /\ reapply' = reapply \cup {t}
    BY <1>8 DEF Commit, StartReapply
  <2>2. t \in Thread
    BY <1>3, ModeControlAssumption DEF Thread, Section
  <2>3. /\ reapply' \subseteq Thread
        /\ \A u \in reapply' : u.gen <= generation /\ (u.gen = generation => u.mode = latest)
    BY <2>1, <2>2, <1>3, ThreadFacts DEF Section, IInv, TypeOK
  <2> QED BY <1>1, <1>4, <1>5, <1>6, <2>1, <2>3, UnlockIInv
<1>9. ASSUME NEW stage \in {"priority", "affinity", "commit"}, NEW pid \in Nat,
             NEW prev \in OptMode,
             cs' = [cs EXCEPT !.stage = stage, !.pid = pid, !.prev = prev],
             stage = "affinity" => prev \in Modes,
             stage # "commit" => pid \in 1..launches,
             UNCHANGED reapply
      PROVE  IInv'
  <2>1. cs' \in Section
    BY <1>3, <1>9 DEF Section, Stage
  <2>2. TypeOK'
    BY <2>1, <1>1, <1>4, <1>5, <1>6, <1>9 DEF IInv, TypeOK
  <2>3. /\ cs'.stage = stage /\ cs'.by = cs.by /\ cs'.mode = cs.mode /\ cs'.gen = cs.gen
        /\ cs'.pid = pid /\ cs'.prev = prev /\ cs'.seen = cs.seen
    BY <1>3, <1>9 DEF Section
  <2>4. SectionOK'
    BY <2>3, <1>1, <1>3, <1>9 DEF SectionOK, Requesting
  <2>5. LastRequestWins' /\ GenerationsOK'
    BY <2>3, <1>1, <1>3, <1>9, ThreadFacts DEF LastRequestWins, GenerationsOK
  <2> QED BY <2>2, <2>4, <2>5 DEF IInv
<1>10. CASE FindGame
  <2>1. CASE Found(TRUE) = 0
    BY <1>7, <1>10, <2>1 DEF FindGame, Unlock
  <2>2. CASE Found(TRUE) # 0
    <3>1. PICK p \in 1..launches : p = Found(TRUE)
      BY <2>2, LookUpFacts DEF IInv
    <3>2. cs' = [cs EXCEPT !.stage = "priority", !.pid = p, !.prev = cs.prev]
      BY <1>3, <1>10, <2>2, <3>1 DEF FindGame, Section
    <3>3. p \in Nat /\ cs.prev \in OptMode /\ UNCHANGED reapply
      BY <1>3, <1>10 DEF FindGame, Section, IInv, TypeOK
    <3> QED BY <1>9, <3>2, <3>3
  <2> QED BY <2>1, <2>2
<1>11. CASE SetPriority
  <2>1. cs' = [cs EXCEPT !.stage = "affinity", !.pid = cs.pid, !.prev = priority]
    BY <1>3, <1>11 DEF SetPriority, Section
  <2>2. /\ cs.pid \in 1..launches /\ cs.pid \in Nat /\ priority \in Modes
        /\ priority \in OptMode /\ UNCHANGED reapply
    BY <1>11 DEF SetPriority, IInv, SectionOK, TypeOK, OptMode
  <2> QED BY <1>9, <2>1, <2>2
<1>12. CASE SetAffinity
  <2>1. CASE cs.by = "reapply"
    BY <1>7, <1>12, <2>1 DEF SetAffinity, Unlock
  <2>2. CASE cs.by # "reapply"
    <3>1. cs' = [cs EXCEPT !.stage = "commit", !.pid = cs.pid, !.prev = cs.prev]
      BY <1>3, <1>12, <2>2 DEF SetAffinity, Section
    <3>2. cs.pid \in Nat /\ cs.prev \in OptMode /\ UNCHANGED reapply
      BY <1>3, <1>12 DEF SetAffinity, Section
    <3> QED BY <1>9, <3>1, <3>2
  <2> QED BY <2>1, <2>2
<1>13. CASE PriorityRefused \/ AffinityRefused \/ RollbackRefused \/ TargetGone
  BY <1>7, <1>13 DEF PriorityRefused, AffinityRefused, RollbackRefused, TargetGone
<1> QED BY <1>8, <1>10, <1>11, <1>12, <1>13 DEF Apply

LEMMA NextIInv == IInv /\ [Next]_vars => IInv'
<1> SUFFICES ASSUME IInv, [Next]_vars PROVE IInv'
  OBVIOUS
<1>1. CASE \E m \in Requests : BeginRequest(m)
  <2> PICK m \in Requests : BeginRequest(m)
    BY <1>1
  <2>1. TakeGeneration("user", m, None) /\ m \in Modes
    BY ModeControlAssumption DEF BeginRequest
  <2>2. /\ UNCHANGED <<gameVars, rule, settings, reapply>>
        /\ lookup' \in {"cold", "hit", "negative"} /\ automation' \in Automation
        /\ moves' \in Nat /\ faults' \in Nat /\ restarts' \in Nat
    BY DEF BeginRequest, Move, inputVars, IInv, TypeOK
  <2> QED BY <2>1, <2>2, TakeGenerationIInv
<1>2. CASE Worker
  BY <1>2, WorkerIInv
<1>3. CASE Reapply
  BY <1>3, ReapplyIInv
<1>4. CASE Apply
  BY <1>4, ApplyIInv
<1>5. CASE \/ LookupExpires \/ RefreshStatus \/ Environment
           \/ \E m \in Requests : DeferRequest(m)
  BY <1>5, OutsideIInv
<1>6. CASE Restart
  <2>1. cs' \in Section \cup {Unlocked} /\ cs'.stage = "free" /\ cs'.by = "nobody"
    BY <1>6, UnlockFacts DEF Restart
  <2>2. TypeOK'
    BY <1>6, <2>1, PolicyAssumption
       DEF Restart, IInv, TypeOK, gameVars, inputVars, Automation, InitAutomation, OptMode, Window
  <2> QED BY <1>6, <2>1, <2>2
             DEF Restart, IInv, SectionOK, Requesting, LastRequestWins, GenerationsOK
<1>7. CASE UNCHANGED vars
  BY <1>7 DEF vars, gameVars, inputVars, budget, IInv, TypeOK, SectionOK, Requesting,
              LastRequestWins, GenerationsOK
<1> QED BY <1>1, <1>2, <1>3, <1>4, <1>5, <1>6, <1>7 DEF Next, User

LEMMA Inductive == Spec => []IInv
<1>1. Init => IInv
  BY InitIInv
<1>2. IInv /\ [Next]_vars => IInv'
  BY NextIInv
<1> QED BY <1>1, <1>2, PTL DEF Spec

(* Type correctness of the model of the mode requests.                     *)
THEOREM TypeCorrect == Spec => []TypeOK
<1>1. IInv => TypeOK
  BY DEF IInv
<1> QED BY <1>1, Inductive, PTL

(* However many requests, reapply threads, restarts and faults there are,  *)
(* a thread past its generation check in schedule_reapply or               *)
(* apply_mode_impl_locked acts for the most recent request.                *)
THEOREM LatestWins == Spec => []LastRequestWins
<1>1. IInv => LastRequestWins
  BY DEF IInv
<1> QED BY <1>1, Inductive, PTL

-----------------------------------------------------------------------------
(* The worker applies what it decided from the choice that is still saved: *)
(* nobody writes the user's mode while the worker holds MODE_REQUEST_LOCK  *)
(* (run_serialized_mode_decision).                                         *)
THEOREM NeverStale == Spec => []DecisionNotStale
<1>1. Init => DecisionNotStale
  BY DEF Init, Unlocked, DecisionNotStale
<1>2. IInv /\ DecisionNotStale /\ [Next]_vars => DecisionNotStale'
  <2> SUFFICES ASSUME IInv, DecisionNotStale, [Next]_vars PROVE DecisionNotStale'
    OBVIOUS
  <2>1. CASE Unlock
    BY <2>1 DEF Unlock, Unlocked, DecisionNotStale
  <2>2. CASE UNCHANGED <<cs, settings>>
    BY <2>2 DEF DecisionNotStale
  <2>3. CASE \E m \in Requests : DeferRequest(m)
    BY <2>3 DEF DeferRequest, LockFree, DecisionNotStale
  <2>4. CASE \E m \in Requests : BeginRequest(m)
    BY <2>4 DEF BeginRequest, TakeGeneration, Unlocked, DecisionNotStale
  <2>5. CASE WorkerBegin
    BY <2>5 DEF WorkerBegin, Unlocked, inputVars, DecisionNotStale
  <2>6. CASE WorkerDecide
    <3>1. CASE Unlock
      BY <3>1, <2>1
    <3>2. CASE \E m : TakeGeneration("worker", m, cs.seen)
      BY <2>6, <3>2
         DEF TakeGeneration, Unlocked, WorkerDecide, inputVars, DecisionNotStale, IInv, SectionOK
    <3> QED BY <2>6, <3>1, <3>2 DEF WorkerDecide
  <2>7. CASE Reapply
    <3> PICK t \in reapply : ReapplyGivesUp(t) \/ ReapplyWakes(t)
      BY <2>7 DEF Reapply
    <3>1. CASE ReapplyGivesUp(t)
      BY <2>2, <3>1 DEF ReapplyGivesUp, inputVars
    <3>2. CASE ReapplyWakes(t)
      <4>1. cs'.by = "nobody" \/ cs'.by = "reapply"
        BY <3>2 DEF ReapplyWakes, Unlocked
      <4> QED BY <4>1 DEF DecisionNotStale
    <3> QED BY <3>1, <3>2
  <2>8. CASE FindGame \/ SetPriority \/ SetAffinity
    <3>1. /\ UNCHANGED settings
          /\ \/ cs' = Unlocked
             \/ cs'.by = cs.by /\ cs'.seen = cs.seen
      <4>1. cs \in Section
        BY <2>8, SectionFields DEF IInv, FindGame, SetPriority, SetAffinity
      <4> QED BY <2>8, <4>1 DEF FindGame, SetPriority, SetAffinity, Section, inputVars
    <3> QED BY <3>1 DEF Unlocked, DecisionNotStale
  <2>9. CASE ChangeSetting
    <3>1. cs' = cs /\ settings'.user = settings.user
      BY <2>9, ModeControlAssumption DEF ChangeSetting, Settings
    <3> QED BY <3>1 DEF DecisionNotStale
  <2>10. CASE PriorityRefused \/ AffinityRefused \/ RollbackRefused \/ TargetGone \/ Commit
              \/ Restart
    BY <2>1, <2>10
       DEF PriorityRefused, AffinityRefused, RollbackRefused, TargetGone, Commit, Restart
  <2>11. CASE LookupExpires \/ RefreshStatus \/ RuleChanges \/ GameStarts \/ GameExits
              \/ WindowChanges \/ GameResets \/ UNCHANGED vars
    BY <2>2, <2>11
       DEF LookupExpires, RefreshStatus, RuleChanges, GameStarts, GameExits, WindowChanges,
           GameResets, vars, inputVars
  <2> QED BY <2>3, <2>4, <2>5, <2>6, <2>7, <2>8, <2>9, <2>10, <2>11
          DEF Next, User, Worker, Apply, Environment
<1> QED BY <1>1, <1>2, Inductive, PTL DEF Spec

-----------------------------------------------------------------------------
(* The two attributes of the game: halfway through a request the priority  *)
(* class is the requested one and the affinity mask the one rolled back to.*)
Pair == IF HalfApplied THEN priority = cs.mode /\ affinity = cs.prev
                       ELSE priority = affinity

PairInv == OneFailure => Pair

(* Failures and restarts are counted, never forgotten.                     *)
LEMMA FailuresCount ==
  ASSUME TypeOK, [Next]_vars, OneFailure'
  PROVE  OneFailure
<1> USE DEF OneFailure, TypeOK
<1>1. CASE Move \/ Fault \/ UNCHANGED budget
  BY <1>1 DEF Move, Fault, budget
<1>2. CASE User
  BY <1>1, <1>2 DEF User, DeferRequest, BeginRequest
<1>3. CASE Worker
  BY <1>1, <1>3 DEF Worker, WorkerBegin, WorkerDecide
<1>4. CASE Reapply
  BY <1>1, <1>4 DEF Reapply, ReapplyGivesUp, ReapplyWakes
<1>5. CASE FindGame \/ SetPriority \/ PriorityRefused \/ SetAffinity \/ AffinityRefused
           \/ TargetGone \/ Commit
  BY <1>1, <1>5 DEF FindGame, SetPriority, PriorityRefused, SetAffinity, AffinityRefused,
                    TargetGone, Commit
<1>6. CASE RollbackRefused \/ Restart
  BY <1>6 DEF RollbackRefused, Restart
<1>7. CASE LookupExpires \/ RefreshStatus \/ Environment \/ UNCHANGED vars
  BY <1>1, <1>7 DEF LookupExpires, RefreshStatus, Environment, ChangeSetting, RuleChanges,
                    GameStarts, GameExits, WindowChanges, GameResets, vars
<1> QED BY <1>2, <1>3, <1>4, <1>5, <1>6, <1>7 DEF Next, Apply

(* A request leaves the game in one mode, also when one of its calls       *)
(* fails, if the game resets nothing: the rollback of                      *)
(* apply_priority_affinity is enough for a single failure.                 *)
THEOREM StaysCoherent ==
  ASSUME Resets = {}
  PROVE  Spec => []Coherent
<1>1. Init => PairInv
  BY DEF Init, PairInv, Pair, HalfApplied, Unlocked
<1>2. IInv /\ PairInv /\ [Next]_vars => PairInv'
  <2> SUFFICES ASSUME IInv, Pair, [Next]_vars, OneFailure' PROVE Pair'
    BY FailuresCount DEF PairInv, IInv
  <2> USE DEF Pair, HalfApplied, TargetAlive
  <2>1. CASE UNCHANGED <<proc, priority, affinity>> /\ cs.stage # "affinity"
             /\ cs'.stage # "affinity"
    BY <2>1
  <2>2. CASE UNCHANGED <<proc, priority, affinity, cs>>
    BY <2>2
  <2>3. CASE \E m \in Requests : DeferRequest(m)
    BY <2>2, <2>3 DEF DeferRequest, gameVars
  <2>4. CASE \E m \in Requests : BeginRequest(m)
    BY <2>1, <2>4, LockFreeFacts DEF BeginRequest, TakeGeneration, Unlocked, gameVars, IInv
  <2>5. CASE Worker
    <3>1. CASE WorkerBegin
      BY <2>1, <3>1, LockFreeFacts DEF WorkerBegin, Unlocked, gameVars, IInv
    <3>2. CASE WorkerDecide
      <4>1. cs.stage = "decide" /\ (cs'.stage = "free" \/ cs'.stage = "find")
        <5>1. Unlock \/ \E m : TakeGeneration("worker", m, cs.seen)
          BY <3>2 DEF WorkerDecide
        <5>2. ASSUME NEW m, TakeGeneration("worker", m, cs.seen) PROVE cs'.stage = "find"
          BY <5>2 DEF TakeGeneration, Unlocked
        <5> QED BY <3>2, <5>1, <5>2 DEF WorkerDecide, Unlock, Unlocked
      <4> QED BY <2>1, <3>2, <4>1 DEF WorkerDecide, gameVars
    <3> QED BY <2>5, <3>1, <3>2 DEF Worker
  <2>6. CASE Reapply
    <3> PICK t \in reapply : ReapplyGivesUp(t) \/ ReapplyWakes(t)
      BY <2>6 DEF Reapply
    <3>1. CASE ReapplyGivesUp(t)
      BY <2>2, <3>1 DEF ReapplyGivesUp, gameVars
    <3>2. CASE ReapplyWakes(t)
      <4>1. cs.stage = "free" /\ (cs'.stage = "free" \/ cs'.stage = "priority")
        BY <3>2, LockFreeFacts DEF ReapplyWakes, Unlocked, IInv
      <4> QED BY <2>1, <3>2, <4>1 DEF ReapplyWakes, gameVars
    <3> QED BY <3>1, <3>2
  <2>7. CASE FindGame \/ SetPriority \/ SetAffinity
    <3>1. cs \in Section
      BY <2>7, SectionFields DEF IInv, FindGame, SetPriority, SetAffinity
    <3>2. CASE FindGame
      BY <3>1, <3>2 DEF FindGame, Unlocked, gameVars, Section
    <3>3. CASE SetPriority
      BY <3>1, <3>3 DEF SetPriority, Section
    <3>4. CASE SetAffinity
      BY <3>1, <3>4 DEF SetAffinity, Unlocked, Section
    <3> QED BY <2>7, <3>2, <3>3, <3>4
  <2>8. CASE PriorityRefused \/ AffinityRefused \/ TargetGone \/ Commit
    BY <2>8 DEF PriorityRefused, AffinityRefused, RolledBack, TargetGone, Commit, Unlock,
                Unlocked, gameVars
  <2>9. ~RollbackRefused /\ ~Restart /\ ~GameResets
    <3>1. ~RollbackRefused
      BY DEF RollbackRefused, OneFailure, IInv, TypeOK
    <3>2. ~Restart
      BY DEF Restart, OneFailure, IInv, TypeOK
    <3>3. ~GameResets
      BY DEF GameResets
    <3> QED BY <3>1, <3>2, <3>3
  <2>10. CASE GameStarts \/ GameExits
    <3>1. cs.stage = "affinity" => cs.pid \in 1..launches
      BY DEF IInv, SectionOK
    <3>2. cs' = cs /\ (cs.stage = "affinity" => proc' # cs.pid)
      BY <2>10, <3>1 DEF GameStarts, GameExits, IInv, TypeOK
    <3>3. CASE GameStarts
      <4>1. cs.stage = "affinity" => proc # cs.pid
        BY <3>1, <3>3 DEF GameStarts
      <4> QED BY <3>2, <3>3, <4>1 DEF GameStarts
    <3>4. CASE GameExits
      BY <3>2, <3>4 DEF GameExits
    <3> QED BY <2>10, <3>3, <3>4
  <2>11. CASE LookupExpires \/ RefreshStatus \/ ChangeSetting \/ RuleChanges \/ WindowChanges
              \/ UNCHANGED vars
    BY <2>2, <2>11
       DEF LookupExpires, RefreshStatus, ChangeSetting, RuleChanges, WindowChanges, vars, gameVars
  <2> QED BY <2>3, <2>4, <2>5, <2>6, <2>7, <2>8, <2>9, <2>10, <2>11
          DEF Next, User, Apply, Environment
<1>3. IInv /\ PairInv => Coherent
  BY LockFreeFacts DEF PairInv, Pair, HalfApplied, Coherent, IInv
<1> QED BY <1>1, <1>2, <1>3, Inductive, PTL DEF Spec

-----------------------------------------------------------------------------
(* A game that is not there is in the mode of a fresh process, and the     *)
(* priority class set halfway through a request is still the requested one *)
(* unless the game reset it.                                               *)
GameInv ==
  /\ proc = 0 => priority = Normal /\ affinity = Normal
  /\ HalfApplied => priority \in {cs.mode, Normal}

LEMMA NextGameInv == IInv /\ GameInv /\ [Next]_vars => GameInv'
<1> SUFFICES ASSUME IInv, GameInv, [Next]_vars PROVE GameInv'
  OBVIOUS
<1> USE DEF GameInv, HalfApplied, TargetAlive
<1>1. CASE UNCHANGED <<proc, priority, affinity>> /\ cs'.stage # "affinity"
  BY <1>1
<1>2. CASE UNCHANGED <<proc, priority, affinity, cs>>
  BY <1>2
<1>3. CASE \E m \in Requests : DeferRequest(m) \/ BeginRequest(m)
  BY <1>1, <1>2, <1>3 DEF DeferRequest, BeginRequest, TakeGeneration, Unlocked, gameVars
<1>4. CASE WorkerBegin
  BY <1>1, <1>4 DEF WorkerBegin, Unlocked, gameVars
<1>5. CASE WorkerDecide
  <2>1. Unlock \/ \E m : TakeGeneration("worker", m, cs.seen)
    BY <1>5 DEF WorkerDecide
  <2>2. ASSUME NEW m, TakeGeneration("worker", m, cs.seen) PROVE cs'.stage = "find"
    BY <2>2 DEF TakeGeneration, Unlocked
  <2> QED BY <1>1, <1>5, <2>1, <2>2 DEF WorkerDecide, Unlock, Unlocked, gameVars
<1>6. CASE Reapply
  <2> PICK t \in reapply : ReapplyGivesUp(t) \/ ReapplyWakes(t)
    BY <1>6 DEF Reapply
  <2>1. cs' = cs \/ cs'.stage # "affinity"
    <3>1. CASE ReapplyGivesUp(t)
      BY <3>1 DEF ReapplyGivesUp
    <3>2. CASE ReapplyWakes(t)
      BY <3>2 DEF ReapplyWakes, Unlocked
    <3> QED BY <3>1, <3>2
  <2> QED BY <1>1, <1>2, <2>1 DEF ReapplyGivesUp, ReapplyWakes, gameVars
<1>7. CASE FindGame \/ SetPriority \/ SetAffinity
  <2>1. cs \in Section
    BY <1>7, SectionFields DEF IInv, FindGame, SetPriority, SetAffinity
  <2>2. cs.stage \in {"priority", "affinity"} => cs.pid # 0
    BY DEF IInv, SectionOK
  <2>3. CASE FindGame
    BY <1>1, <2>1, <2>3 DEF FindGame, Unlocked, gameVars, Section
  <2>4. CASE SetPriority
    BY <2>1, <2>2, <2>4 DEF SetPriority, Section
  <2>5. CASE SetAffinity
    BY <2>1, <2>2, <2>5 DEF SetAffinity, Unlocked, Section
  <2> QED BY <1>7, <2>3, <2>4, <2>5
<1>8. CASE PriorityRefused \/ RollbackRefused \/ TargetGone \/ Commit \/ Restart
  BY <1>1, <1>8 DEF PriorityRefused, RollbackRefused, TargetGone, Commit, Restart, Unlock,
                    Unlocked, gameVars
<1>9. CASE AffinityRefused
  <2>1. proc # 0
    BY <1>9 DEF AffinityRefused, IInv, SectionOK
  <2> QED BY <1>9, <2>1 DEF AffinityRefused, Unlock, Unlocked
<1>10. CASE GameStarts \/ GameExits
  <2>1. cs' = cs /\ (cs.stage = "affinity" => proc' # cs.pid)
    BY <1>10 DEF GameStarts, GameExits, IInv, SectionOK, TypeOK
  <2>2. CASE GameStarts
    BY <2>1, <2>2 DEF GameStarts, IInv, TypeOK
  <2>3. CASE GameExits
    BY <2>1, <2>3 DEF GameExits
  <2> QED BY <1>10, <2>2, <2>3
<1>11. CASE GameResets
  <2>1. priority' \in {priority, Normal} /\ affinity' \in {affinity, Normal} /\ proc # 0
        /\ UNCHANGED <<proc, cs>>
    BY <1>11 DEF GameResets
  <2> QED BY <2>1
<1>12. CASE LookupExpires \/ RefreshStatus \/ ChangeSetting \/ RuleChanges \/ WindowChanges
            \/ UNCHANGED vars
  BY <1>2, <1>12
     DEF LookupExpires, RefreshStatus, ChangeSetting, RuleChanges, WindowChanges, vars, gameVars
<1> QED BY <1>3, <1>4, <1>5, <1>6, <1>7, <1>8, <1>9, <1>10, <1>11, <1>12
        DEF Next, User, Worker, Apply, Environment

LEMMA RegisterStep ==
  ASSUME IInv, GameInv, [Next]_vars
  PROVE  [Register!Next]_<<RegisterMode, latest>>
<1> USE DEF RegisterMode, HalfApplied, TargetAlive, Register!Next
<1>1. CASE UNCHANGED <<proc, priority, affinity, latest>> /\ cs.stage # "affinity"
             /\ cs'.stage # "affinity"
  BY <1>1
<1>2. CASE UNCHANGED <<proc, priority, affinity, latest, cs>>
  BY <1>2
<1>3. ASSUME NEW by \in {"user", "worker"}, NEW m \in Modes, NEW seen,
             TakeGeneration(by, m, seen), UNCHANGED gameVars, cs.stage # "affinity"
      PROVE  Register!Next
  <2>1. cs'.stage = "find" /\ latest' = m
    BY <1>3 DEF TakeGeneration, Unlocked
  <2>2. Register!Request(m)
    BY <1>3, <2>1 DEF gameVars, Register!Request
  <2> QED BY <2>2
(* A half-applied request that is given up: what it set either is what the *)
(* most recent request asked for, or the game has reset it.                *)
<1>4. ASSUME UNCHANGED <<proc, priority, affinity, latest>>, cs'.stage # "affinity"
      PROVE  Register!Next \/ UNCHANGED <<RegisterMode, latest>>
  <2>1. CASE proc = 0 \/ ~HalfApplied
    BY <1>4, <2>1
  <2>2. CASE proc # 0 /\ HalfApplied /\ priority # affinity
    <3>1. RegisterMode' = "mixed"
      BY <1>4, <2>2
    <3> QED BY <1>4, <3>1 DEF Register!Disturbed
  <2>3. CASE proc # 0 /\ HalfApplied /\ priority = affinity
    <3>1. RegisterMode' = priority
      BY <1>4, <2>3
    <3>2. CASE priority = Normal
      BY <1>4, <3>1, <3>2 DEF Register!Disturbed
    <3>3. CASE priority = cs.mode
      <4>1. latest \in Modes /\ priority = latest /\ cs.prev \in Modes
        BY <2>3, <3>3 DEF IInv, SectionOK, Requesting, LastRequestWins
      <4>2. RegisterMode # "gone"
        BY <2>3, <4>1, ModeControlAssumption
      <4>3. latest # None
        BY <4>1, PolicyAssumption
      <4> QED BY <1>4, <3>1, <4>1, <4>2, <4>3 DEF Register!Serve
    <3> QED BY <2>3, <3>2, <3>3 DEF GameInv
  <2> QED BY <2>1, <2>2, <2>3
<1>5. CASE \E m \in Requests : DeferRequest(m)
  BY <1>2, <1>5 DEF DeferRequest, gameVars
<1>6. CASE \E m \in Requests : BeginRequest(m)
  <2> PICK m \in Requests : BeginRequest(m)
    BY <1>6
  <2>1. /\ TakeGeneration("user", m, None) /\ UNCHANGED gameVars /\ m \in Modes
        /\ cs.stage # "affinity"
    BY ModeControlAssumption, LockFreeFacts DEF BeginRequest, IInv
  <2> QED BY <1>3, <2>1
<1>7. CASE WorkerBegin
  BY <1>1, <1>7, LockFreeFacts DEF WorkerBegin, Unlocked, gameVars, IInv
<1>8. CASE WorkerDecide
  <2> DEFINE w == IF Found(FALSE) # 0 THEN window ELSE "none"
             decision == Decide(automation, cs.seen, w, CurrentMode, rule)
  <2>1. cs.stage = "decide" /\ cs.seen \in Settings /\ UNCHANGED gameVars
    BY <1>8 DEF WorkerDecide, IInv, SectionOK
  <2>2. decision.action \in OptMode
    <3>1. w \in Window /\ CurrentMode \in OptMode /\ automation \in Automation
          /\ rule \in OptMode
      BY DEF IInv, TypeOK, Window, CurrentMode, OptMode
    <3> QED BY <2>1, <3>1, DecideType
  <2>3. CASE decision.action = None
    BY <1>1, <1>8, <2>1, <2>3 DEF WorkerDecide, Unlock, Unlocked, gameVars
  <2>4. CASE decision.action # None
    <3>1. TakeGeneration("worker", decision.action, cs.seen)
      BY <1>8, <2>4 DEF WorkerDecide
    <3>2. decision.action \in Modes
      BY <2>2, <2>4 DEF OptMode
    <3> HIDE DEF decision
    <3> QED BY <1>3, <2>1, <3>1, <3>2
  <2> QED BY <2>3, <2>4
<1>9. CASE Reapply
  <2> PICK t \in reapply : ReapplyGivesUp(t) \/ ReapplyWakes(t)
    BY <1>9 DEF Reapply
  <2>1. cs.stage = "free" /\ (cs' = cs \/ cs'.stage # "affinity")
    <3>1. CASE ReapplyGivesUp(t)
      BY <3>1, LockFreeFacts DEF ReapplyGivesUp, IInv
    <3>2. CASE ReapplyWakes(t)
      BY <3>2, LockFreeFacts DEF ReapplyWakes, Unlocked, IInv
    <3> QED BY <3>1, <3>2
  <2> QED BY <1>1, <1>2, <2>1 DEF ReapplyGivesUp, ReapplyWakes, gameVars
<1>10. CASE FindGame
  <2>1. cs \in Section
    BY <1>10, SectionFields DEF IInv, FindGame
  <2> QED BY <1>1, <1>10, <2>1 DEF FindGame, Unlocked, gameVars, Section
<1>11. CASE SetPriority
  <2>1. cs \in Section /\ cs.pid # 0
    BY <1>11, SectionFields DEF IInv, SetPriority, SectionOK
  <2>2. cs'.stage = "affinity" /\ cs'.pid = proc /\ cs'.prev = priority
    BY <1>11, <2>1 DEF SetPriority, Section
  <2> QED BY <1>11, <2>2 DEF SetPriority
<1>12. CASE SetAffinity
  <2>1. cs \in Section /\ cs.pid # 0 /\ cs.prev \in Modes /\ cs.mode \in Modes
        /\ cs.mode = latest
    BY <1>12, SectionFields DEF IInv, SetAffinity, SectionOK, Requesting, LastRequestWins
  <2>2. /\ proc # 0 /\ affinity' = latest /\ cs'.stage # "affinity"
        /\ UNCHANGED <<proc, priority, latest>>
    BY <1>12, <2>1 DEF SetAffinity, Unlocked, Section
  <2>3. CASE priority = latest
    <3>1. RegisterMode' = latest
      BY <2>2, <2>3
    <3>2. RegisterMode # "gone"
      BY <1>12, <2>1, <2>2, ModeControlAssumption DEF SetAffinity
    <3>3. latest # None
      BY <2>1, PolicyAssumption
    <3> QED BY <2>2, <3>1, <3>2, <3>3 DEF Register!Serve
  <2>4. CASE priority # latest
    <3>1. RegisterMode' = "mixed"
      BY <2>2, <2>4
    <3> QED BY <2>2, <3>1 DEF Register!Disturbed
  <2> QED BY <2>3, <2>4
<1>13. CASE AffinityRefused
  <2>1. /\ HalfApplied /\ priority' = cs.prev /\ cs'.stage # "affinity"
        /\ UNCHANGED <<proc, affinity, latest>>
    BY <1>13 DEF AffinityRefused, RolledBack, Unlock, Unlocked
  <2> QED BY <2>1
<1>14. CASE PriorityRefused \/ RollbackRefused \/ TargetGone \/ Commit \/ Restart
  BY <1>4, <1>14 DEF PriorityRefused, RollbackRefused, TargetGone, Commit, Restart, Unlock,
                     Unlocked, gameVars
<1>15. CASE GameStarts
  <2>1. ~HalfApplied' /\ priority' = Normal /\ affinity' = Normal /\ latest' = latest /\ proc' # 0
    BY <1>15 DEF GameStarts, GameInv, IInv, SectionOK, TypeOK
  <2> QED BY <2>1 DEF Register!Disturbed
<1>16. CASE GameExits
  BY <1>16 DEF GameExits, Register!Disturbed
<1>17. CASE GameResets
  <2>1. priority' \in {priority, Normal} /\ affinity' \in {affinity, Normal}
        /\ UNCHANGED <<proc, cs, latest>>
    BY <1>17 DEF GameResets
  <2>2. CASE UNCHANGED RegisterMode
    BY <2>1, <2>2
  <2>3. CASE RegisterMode' \in {Normal, "mixed", "gone"}
    BY <2>1, <2>3 DEF Register!Disturbed
  <2>4. UNCHANGED RegisterMode \/ RegisterMode' \in {Normal, "mixed", "gone"}
    BY <2>1
  <2> QED BY <2>2, <2>3, <2>4
<1>18. CASE LookupExpires \/ RefreshStatus \/ ChangeSetting \/ RuleChanges \/ WindowChanges
            \/ UNCHANGED vars
  BY <1>2, <1>18
     DEF LookupExpires, RefreshStatus, ChangeSetting, RuleChanges, WindowChanges, vars, gameVars
<1> QED BY <1>5, <1>6, <1>7, <1>8, <1>9, <1>10, <1>11, <1>12, <1>13, <1>14, <1>15, <1>16, <1>17,
           <1>18 DEF Next, User, Worker, Apply, Environment

(* The locks, the two calls, the rollback and the reapply threads together *)
(* implement a register that only ever moves the game to the mode of the   *)
(* most recent request, in one step (GameMode).                            *)
THEOREM ImplementsRegister == Spec => RegisterSpec
<1>1. Init => Register!Init /\ GameInv
  <2> SUFFICES ASSUME Init PROVE Register!Init /\ GameInv
    OBVIOUS
  <2>1. cs.stage = "free"
    BY DEF Init, Unlocked
  <2> QED BY <2>1 DEF Init, Register!Init, RegisterMode, GameInv, HalfApplied
<1>2. IInv /\ GameInv /\ [Next]_vars => GameInv'
  BY NextGameInv
<1>3. IInv /\ GameInv /\ [Next]_vars => [Register!Next]_<<RegisterMode, latest>>
  BY RegisterStep
<1> QED BY <1>1, <1>2, <1>3, Inductive, PTL DEF Spec, RegisterSpec, Register!Spec

-----------------------------------------------------------------------------
(* The decisions of the worker.                                            *)
Applied(outcome, current) == IF outcome.action = None THEN current ELSE outcome.action

LEMMA OutcomeSettles ==
  ASSUME NEW m, NEW n, NEW desired, NEW current
  PROVE  Outcome(n, desired, Applied(Outcome(m, desired, current), current)).action = None
BY DEF Outcome, Applied

LEMMA NothingToDo ==
  ASSUME NEW m, NEW current PROVE Outcome(m, None, current).action = None
BY DEF Outcome

LEMMA MemoryOf ==
  ASSUME NEW m, NEW desired, NEW current PROVE Outcome(m, desired, current).memory = m
BY DEF Outcome

LEMMA SameMemory ==
  ASSUME NEW m \in Automation
  PROVE  [m EXCEPT !.present = m.present, !.seen = m.seen] = m
BY DEF Automation

(* What the worker does settles at once: when its request succeeds and     *)
(* nothing else changes, its next tick requests nothing and remembers the  *)
(* same.  It never goes back and forth by itself (automation_mode_action). *)
THEOREM SettlesAtOnce ==
  ASSUME NEW memory \in Automation, NEW s \in Settings, NEW w \in Window,
         NEW current \in OptMode, NEW r \in OptMode
  PROVE  LET first == Decide(memory, s, w, current, r)
             again == Decide(first.memory, s, w, Applied(first, current), r)
         IN  again.action = None /\ again.memory = first.memory
<1> DEFINE first == Decide(memory, s, w, current, r)
           m1 == first.memory
           now == Applied(first, current)
           again == Decide(m1, s, w, now, r)
<1> SUFFICES again.action = None /\ again.memory = m1
  OBVIOUS
<1>1. m1 \in Automation
  BY DecideType
<1>2. CASE w = "none"
  BY <1>2 DEF Decide, WhenAbsent
<1>3. CASE w = "hidden"
  <2>1. m1.present = "yes" /\ m1.seen = "hidden"
    BY <1>3 DEF Decide, WhenHidden, Outcome, Automation
  <2>2. [m1 EXCEPT !.present = "yes", !.seen = "hidden"] = m1
    BY <1>1, <2>1, SameMemory
  <2> DEFINE m0 == [memory EXCEPT !.present = "yes", !.seen = "hidden"]
  <2>3. CASE s.auto
    <3>1. first = Outcome([m0 EXCEPT !.restore = RememberedMode(memory, current)], LowPower, current)
      BY <1>3, <2>3 DEF Decide, WhenHidden
    <3>2. again = Outcome([m1 EXCEPT !.restore = RememberedMode(m1, now)], LowPower, now)
      BY <1>3, <2>2, <2>3 DEF Decide, WhenHidden
    <3>3. RememberedMode(m1, now) = m1.restore
      BY <2>1 DEF RememberedMode
    <3>4. [m1 EXCEPT !.restore = m1.restore] = m1
      BY <1>1 DEF Automation
    <3> HIDE DEF m1, m0
    <3> QED BY <3>1, <3>2, <3>3, <3>4, OutcomeSettles, MemoryOf
  <2>4. CASE ~s.auto
    <3>1. again = Outcome(m1, None, now)
      BY <1>3, <2>1, <2>2, <2>4 DEF Decide, WhenHidden, NewlyPresent
    <3> HIDE DEF m1, now
    <3> QED BY <3>1, NothingToDo, MemoryOf
  <2> QED BY <2>3, <2>4
<1>4. CASE w = "visible"
  <2>1. /\ m1.present = "yes" /\ m1.seen = "visible"
        /\ r # None => m1.inSchedule = TRUE
        /\ r = None => m1.inSchedule = FALSE
    <3>1. first = WhenVisible(memory, s, current, r)
      BY <1>4 DEF Decide
    <3>2. CASE r # None
      <4>1. first = DuringSchedule(memory, s, current, r)
        BY <3>1, <3>2 DEF WhenVisible
      <4>2. m1 = [memory EXCEPT !.present = "yes", !.seen = "visible", !.inSchedule = TRUE,
                                 !.scheduleRestore =
                                   IF memory.inSchedule THEN memory.scheduleRestore
                                   ELSE OrElse(UserOrDefault(s), OrElse(memory.restore, current))]
        BY <4>1, MemoryOf DEF DuringSchedule
      <4> HIDE DEF m1
      <4> QED BY <3>2, <4>2 DEF Automation
    <3>3. CASE r = None /\ memory.inSchedule
      <4>1. first = AfterSchedule(memory, s, current)
        BY <3>1, <3>3 DEF WhenVisible
      <4>2. m1 = [memory EXCEPT !.present = "yes", !.seen = "visible", !.inSchedule = FALSE,
                                 !.restore = None, !.scheduleRestore = None]
        BY <4>1, MemoryOf DEF AfterSchedule
      <4> HIDE DEF m1
      <4> QED BY <3>3, <4>2 DEF Automation
    <3>4. CASE r = None /\ ~memory.inSchedule /\ memory.seen = "hidden" /\ s.auto
      <4>1. first = AfterHiding(memory, s, current)
        BY <3>1, <3>4 DEF WhenVisible
      <4>2. m1 = [memory EXCEPT !.present = "yes", !.seen = "visible", !.restore = None]
        BY <4>1, MemoryOf DEF AfterHiding
      <4> HIDE DEF m1
      <4> QED BY <3>4, <4>2 DEF Automation
    <3>5. CASE r = None /\ ~memory.inSchedule /\ ~(memory.seen = "hidden" /\ s.auto)
      <4>1. first = Maintain(memory, s, current)
        BY <3>1, <3>5 DEF WhenVisible
      <4>2. m1 = [memory EXCEPT !.present = "yes", !.seen = "visible"]
        BY <4>1, MemoryOf DEF Maintain
      <4> HIDE DEF m1
      <4> QED BY <3>5, <4>2 DEF Automation
    <3> QED BY <3>2, <3>3, <3>4, <3>5 DEF Automation
  <2>2. [m1 EXCEPT !.present = "yes", !.seen = "visible"] = m1
    BY <1>1, <2>1, SameMemory
  <2>3. CASE r # None
    <3>1. m1.inSchedule = TRUE
      BY <2>1, <2>3
    <3>2. first = Outcome(m1, r, current)
      BY <1>4, <2>3 DEF Decide, WhenVisible, DuringSchedule, Outcome
    <3>3. [m1 EXCEPT !.present = "yes", !.seen = "visible", !.inSchedule = TRUE,
                     !.scheduleRestore = m1.scheduleRestore] = m1
      BY <1>1, <2>1, <3>1 DEF Automation
    <3>4. again = Outcome(m1, r, now)
      BY <1>4, <2>3, <3>1, <3>3 DEF Decide, WhenVisible, DuringSchedule
    <3> HIDE DEF m1
    <3> QED BY <3>2, <3>4, OutcomeSettles, MemoryOf
  <2>4. CASE r = None
    <3>1. again = Outcome(m1, s.user, now)
      BY <1>4, <2>1, <2>2, <2>4 DEF Decide, WhenVisible, Maintain, NewlyPresent
    <3>2. CASE s.user = None
      <4> HIDE DEF m1, now
      <4> QED BY <3>1, <3>2, NothingToDo, MemoryOf
    <3>3. CASE s.user # None
      <4>1. first = Outcome(m1, s.user, current)
        <5>1. first = WhenVisible(memory, s, current, r)
          BY <1>4 DEF Decide
        <5>2. \A other : OrElse(UserOrDefault(s), other) = s.user
          BY <3>3 DEF OrElse, UserOrDefault
        <5>3. CASE memory.inSchedule
          BY <2>4, <5>1, <5>2, <5>3 DEF WhenVisible, AfterSchedule, Outcome
        <5>4. CASE ~memory.inSchedule /\ memory.seen = "hidden" /\ s.auto
          BY <2>4, <5>1, <5>2, <5>4 DEF WhenVisible, AfterHiding, Outcome
        <5>5. CASE ~memory.inSchedule /\ ~(memory.seen = "hidden" /\ s.auto)
          BY <2>4, <3>3, <5>1, <5>5 DEF WhenVisible, Maintain, Outcome
        <5> QED BY <5>3, <5>4, <5>5 DEF Automation
      <4> HIDE DEF m1
      <4> QED BY <3>1, <4>1, OutcomeSettles, MemoryOf
    <3> QED BY <3>2, <3>3
  <2> QED BY <2>3, <2>4
<1> QED BY <1>2, <1>3, <1>4 DEF Window

(* While one mode is called for, the worker requests that mode and no      *)
(* other, whatever it remembers, and nothing once the game is in it: the   *)
(* part of Converges that needs no fairness (automation_mode_action).      *)
ServesWanted ==
  [][WorkerDecide /\ cs.seen = settings /\ Found(FALSE) # 0 /\ Wanted # None
       => IF CurrentMode = Wanted THEN LockFree' /\ UNCHANGED latest
          ELSE cs'.mode = Wanted /\ latest' = Wanted]_vars

CalledFor(w, s, r) ==
  CASE w = "none"    -> None
    [] w = "hidden"  -> IF s.auto THEN LowPower ELSE None
    [] w = "visible" -> OrElse(r, s.user)

LEMMA DecideServes ==
  ASSUME NEW memory \in Automation, NEW s \in Settings, NEW w \in Window,
         NEW current \in OptMode, NEW r \in OptMode, CalledFor(w, s, r) # None
  PROVE  Decide(memory, s, w, current, r).action =
           IF CalledFor(w, s, r) = current THEN None ELSE CalledFor(w, s, r)
<1> DEFINE m == CalledFor(w, s, r)
           D == Decide(memory, s, w, current, r)
<1>1. CASE w = "hidden"
  <2>1. m = LowPower /\ s.auto
    BY <1>1 DEF CalledFor
  <2> QED BY <1>1, <2>1 DEF Decide, WhenHidden, Outcome
<1>2. CASE w = "visible"
  <2>1. D = WhenVisible(memory, s, current, r)
    BY <1>2 DEF Decide
  <2>2. m = OrElse(r, s.user)
    BY <1>2 DEF CalledFor
  <2>3. CASE r # None
    BY <2>1, <2>2, <2>3 DEF WhenVisible, DuringSchedule, Outcome, OrElse
  <2>4. CASE r = None
    <3>1. m = s.user /\ s.user # None
      BY <2>2, <2>4 DEF OrElse
    <3>2. UserOrDefault(s) = m /\ \A other : OrElse(m, other) = m
      BY <3>1 DEF UserOrDefault, OrElse
    <3>3. CASE memory.inSchedule
      BY <2>1, <2>4, <3>2, <3>3 DEF WhenVisible, AfterSchedule, Outcome
    <3>4. CASE ~memory.inSchedule /\ memory.seen = "hidden" /\ s.auto
      BY <2>1, <2>4, <3>2, <3>4 DEF WhenVisible, AfterHiding, Outcome
    <3>5. CASE ~memory.inSchedule /\ ~(memory.seen = "hidden" /\ s.auto)
      BY <2>1, <2>4, <3>1, <3>5 DEF WhenVisible, Maintain, Outcome
    <3> QED BY <3>3, <3>4, <3>5 DEF Automation
  <2> QED BY <2>3, <2>4
<1>3. w # "none"
  BY DEF CalledFor
<1> QED BY <1>1, <1>2, <1>3 DEF Window

(* The worker serves what is called for, in any state it can find.         *)
THEOREM WorkerServes == Spec => ServesWanted
<1>1. ASSUME IInv, WorkerDecide, cs.seen = settings, Found(FALSE) # 0, Wanted # None
      PROVE  IF CurrentMode = Wanted THEN LockFree' /\ UNCHANGED latest
             ELSE cs'.mode = Wanted /\ latest' = Wanted
  <2> DEFINE D == Decide(automation, settings, window, CurrentMode, rule)
  <2>1. /\ automation \in Automation /\ settings \in Settings /\ window \in Window
        /\ rule \in OptMode /\ CurrentMode \in OptMode
    BY <1>1 DEF IInv, TypeOK, CurrentMode, OptMode
  <2>2. Wanted = CalledFor(window, settings, rule)
    BY DEF Wanted, CalledFor
  <2>3. D.action = IF CurrentMode = Wanted THEN None ELSE Wanted
    BY <1>1, <2>1, <2>2, DecideServes
  <2>4. IF D.action = None THEN Unlock /\ UNCHANGED <<generation, latest>>
        ELSE TakeGeneration("worker", D.action, cs.seen)
    BY <1>1 DEF WorkerDecide
  <2> HIDE DEF D
  <2>5. CASE CurrentMode = Wanted
    BY <2>3, <2>4, <2>5 DEF Unlock, Unlocked, LockFree
  <2>6. CASE CurrentMode # Wanted
    BY <1>1, <2>3, <2>4, <2>6 DEF TakeGeneration, Unlocked
  <2> QED BY <2>5, <2>6
<1>2. IInv /\ [Next]_vars =>
        [WorkerDecide /\ cs.seen = settings /\ Found(FALSE) # 0 /\ Wanted # None
           => IF CurrentMode = Wanted THEN LockFree' /\ UNCHANGED latest
              ELSE cs'.mode = Wanted /\ latest' = Wanted]_vars
  BY <1>1
<1> QED BY <1>2, Inductive, PTL DEF Spec, ServesWanted

-----------------------------------------------------------------------------
(* The calls left to whoever holds MODE_REQUEST_LOCK.                      *)
CallsLeft ==
  CASE cs.stage = "free"     -> 0
    [] cs.stage = "commit"   -> 1
    [] cs.stage = "affinity" -> 2
    [] cs.stage = "priority" -> 3
    [] cs.stage = "find"     -> 4
    [] cs.stage = "decide"   -> 5

(* Whoever takes the lock gives it back after five calls at most, whatever *)
(* is refused and whatever the others do meanwhile: nothing sends a        *)
(* request back (run_serialized_mode_decision, apply_mode_impl_locked).    *)
LockComesBack == [][LockFree \/ cs' = cs \/ CallsLeft' < CallsLeft]_vars

(* MODE_REQUEST_LOCK always comes back, for any number of requests.        *)
THEOREM LockReturns == Spec => LockComesBack
<1>1. ASSUME IInv, [Next]_vars PROVE LockFree \/ cs' = cs \/ CallsLeft' < CallsLeft
  <2>1. CASE Unlock \/ LockFree \/ cs' = cs
    <3>1. CASE Unlock /\ ~LockFree
      <4>1. cs \in Section /\ cs.stage \in Stage
        BY <1>1, <3>1 DEF IInv, TypeOK, Section, LockFree, Unlocked
      <4>2. CallsLeft \in 1 .. 5
        BY <4>1 DEF CallsLeft, Stage
      <4>3. CallsLeft' = 0
        BY <3>1 DEF CallsLeft, Unlock, Unlocked
      <4> QED BY <4>2, <4>3
    <3> QED BY <2>1, <3>1
  <2>2. CASE WorkerDecide
    <3>1. CASE Unlock
      BY <2>1, <3>1
    <3>2. CASE \E m : TakeGeneration("worker", m, cs.seen)
      <4>1. cs'.stage = "find"
        BY <3>2 DEF TakeGeneration, Unlocked
      <4> QED BY <2>2, <4>1 DEF WorkerDecide, CallsLeft
    <3> QED BY <2>2, <3>1, <3>2 DEF WorkerDecide
  <2>3. CASE FindGame \/ SetPriority \/ SetAffinity
    <3>1. cs \in Section
      BY <1>1, <2>3, SectionFields DEF IInv, FindGame, SetPriority, SetAffinity
    <3>2. CASE FindGame
      <4>1. cs' = Unlocked \/ cs'.stage = "priority"
        BY <3>1, <3>2 DEF FindGame, Section
      <4>2. CASE cs' = Unlocked
        BY <2>1, <4>2 DEF Unlock
      <4>3. CASE cs'.stage = "priority"
        <5>1. cs.stage = "find"
          BY <3>2 DEF FindGame
        <5> QED BY <4>3, <5>1 DEF CallsLeft
      <4> QED BY <4>1, <4>2, <4>3
    <3>3. CASE SetPriority
      <4>1. cs'.stage = "affinity"
        BY <3>1, <3>3 DEF SetPriority, Section
      <4> QED BY <3>3, <4>1 DEF SetPriority, CallsLeft
    <3>4. CASE SetAffinity
      <4>1. cs' = Unlocked \/ cs'.stage = "commit"
        BY <3>1, <3>4 DEF SetAffinity, Section
      <4>2. CASE cs' = Unlocked
        BY <2>1, <4>2 DEF Unlock
      <4>3. CASE cs'.stage = "commit"
        BY <3>4, <4>3 DEF SetAffinity, CallsLeft
      <4> QED BY <4>1, <4>2, <4>3
    <3> QED BY <2>3, <3>2, <3>3, <3>4
  <2>4. CASE PriorityRefused \/ AffinityRefused \/ RollbackRefused \/ TargetGone \/ Commit
             \/ Restart
    BY <2>1, <2>4
       DEF PriorityRefused, AffinityRefused, RollbackRefused, TargetGone, Commit, Restart
  <2>5. CASE User \/ WorkerBegin \/ Reapply
    BY <2>1, <2>5 DEF User, DeferRequest, BeginRequest, WorkerBegin, Reapply, ReapplyGivesUp,
                      ReapplyWakes
  <2>6. CASE LookupExpires \/ RefreshStatus \/ Environment \/ UNCHANGED vars
    BY <2>1, <2>6
       DEF LookupExpires, RefreshStatus, Environment, ChangeSetting, RuleChanges, GameStarts,
           GameExits, WindowChanges, GameResets, vars
  <2> QED BY <1>1, <2>2, <2>3, <2>4, <2>5, <2>6 DEF Next, Worker, Apply
<1> QED BY <1>1, Inductive, PTL DEF Spec, LockComesBack

-----------------------------------------------------------------------------
(* Reapply threads are records in a set, and none is lost in it: no two    *)
(* are of one generation, and a request that may still start one is alone  *)
(* in its generation (REAPPLY_GENERATION is only taken by fetch_add).      *)
ThreadsDiffer ==
  /\ \A s, t \in reapply : s.gen = t.gen => s = t
  /\ cs.by \in {"user", "worker"} /\ Requesting => \A t \in reapply : t.gen < cs.gen

(* Each successful request has a reapply thread of its own.                *)
THEOREM ThreadsAreCounted == Spec => []ThreadsDiffer
<1>1. Init => ThreadsDiffer
  BY DEF Init, Unlocked, ThreadsDiffer
<1>2. IInv /\ ThreadsDiffer /\ [Next]_vars => ThreadsDiffer'
  <2> SUFFICES ASSUME IInv, ThreadsDiffer, [Next]_vars PROVE ThreadsDiffer'
    OBVIOUS
  <2>1. \A t \in reapply : t \in Thread /\ t.gen \in Nat /\ t.gen <= generation
    BY DEF IInv, TypeOK, GenerationsOK, Thread
  <2>2. generation \in Nat
    BY DEF IInv, TypeOK
  <2>3. CASE reapply' \subseteq reapply /\ (cs' = cs \/ cs'.by \in {"nobody", "reapply"}
                                             \/ cs'.stage \in {"free", "decide"})
    BY <2>3 DEF ThreadsDiffer, Requesting
  <2>4. ASSUME NEW by, NEW m, NEW seen, TakeGeneration(by, m, seen), UNCHANGED reapply
        PROVE  ThreadsDiffer'
    <3>1. cs'.gen = generation + 1
      BY <2>4 DEF TakeGeneration, Unlocked
    <3> QED BY <2>1, <2>2, <2>4, <3>1 DEF ThreadsDiffer
  <2>5. CASE User
    <3> PICK m \in Requests : DeferRequest(m) \/ BeginRequest(m)
      BY <2>5 DEF User
    <3>1. CASE DeferRequest(m)
      BY <2>3, <3>1 DEF DeferRequest
    <3>2. CASE BeginRequest(m)
      BY <2>4, <3>2 DEF BeginRequest
    <3> QED BY <3>1, <3>2
  <2>6. CASE Worker
    <3>1. CASE WorkerBegin
      BY <2>3, <3>1 DEF WorkerBegin, Unlocked
    <3>2. CASE WorkerDecide
      <4>1. UNCHANGED reapply /\ (Unlock \/ \E m : TakeGeneration("worker", m, cs.seen))
        BY <3>2 DEF WorkerDecide
      <4>2. CASE Unlock
        BY <2>3, <4>1, <4>2, UnlockFacts
      <4> QED BY <2>4, <4>1, <4>2
    <3> QED BY <2>6, <3>1, <3>2 DEF Worker
  <2>7. CASE Reapply
    <3> PICK t \in reapply : ReapplyGivesUp(t) \/ ReapplyWakes(t)
      BY <2>7 DEF Reapply
    <3>1. CASE ReapplyGivesUp(t)
      BY <2>3, <3>1 DEF ReapplyGivesUp
    <3>2. CASE ReapplyWakes(t)
      <4>1. cs'.by \in {"nobody", "reapply"}
        BY <3>2 DEF ReapplyWakes, Unlocked
      <4>2. [t EXCEPT !.left = @ - 1].gen = t.gen
        BY <2>1 DEF Thread
      <4>3. \A s \in reapply' : \/ s \in reapply \ {t}
                                \/ s = [t EXCEPT !.left = @ - 1] /\ s.gen = t.gen
        BY <3>2, <4>2 DEF ReapplyWakes, Tick
      <4>4. \A s \in reapply \ {t} : s.gen # t.gen
        BY DEF ThreadsDiffer
      <4>5. ASSUME NEW s \in reapply', NEW u \in reapply', s.gen = u.gen PROVE s = u
        <5>1. CASE s \in reapply \ {t} /\ u \in reapply \ {t}
          BY <4>5, <5>1 DEF ThreadsDiffer
        <5> QED BY <4>3, <4>4, <4>5, <5>1
      <4> QED BY <4>1, <4>5 DEF ThreadsDiffer
    <3> QED BY <3>1, <3>2
  <2>8. CASE FindGame \/ SetPriority \/ SetAffinity
    <3>1. cs \in Section
      BY <2>8, SectionFields DEF IInv, FindGame, SetPriority, SetAffinity
    <3>2. UNCHANGED reapply /\ Requesting
      BY <2>8 DEF FindGame, SetPriority, SetAffinity, Requesting
    <3>5. cs' = Unlocked \/ (cs'.by = cs.by /\ cs'.gen = cs.gen)
      <4>1. CASE FindGame
        BY <3>1, <4>1 DEF FindGame, Section
      <4>2. CASE SetPriority \/ SetAffinity
        BY <3>1, <4>2 DEF SetPriority, SetAffinity, Section
      <4> QED BY <2>8, <4>1, <4>2
    <3>3. CASE cs' = Unlocked
      BY <2>3, <3>2, <3>3 DEF Unlocked
    <3>4. CASE cs'.by = cs.by /\ cs'.gen = cs.gen
      BY <3>2, <3>4 DEF ThreadsDiffer
    <3> QED BY <3>3, <3>4, <3>5
  <2>9. CASE PriorityRefused \/ AffinityRefused \/ RollbackRefused \/ TargetGone \/ Restart
    BY <2>3, <2>9, UnlockFacts
       DEF PriorityRefused, AffinityRefused, RollbackRefused, TargetGone, Restart
  <2>10. CASE Commit
    <3>1. cs.by \in {"user", "worker"} /\ Requesting /\ Unlock
      BY <2>10 DEF Commit, Requesting
    <3> DEFINE new == [gen |-> cs.gen, mode |-> cs.mode, left |-> Attempts]
    <3>2. reapply' = reapply \cup {new} /\ new.gen = cs.gen
      BY <2>10 DEF Commit, StartReapply
    <3>3. \A t \in reapply : t.gen < cs.gen /\ t.gen # cs.gen
      <4>1. cs.gen \in Nat
        BY <3>1, SectionFields DEF IInv, Requesting, Section
      <4> QED BY <2>1, <3>1, <4>1 DEF ThreadsDiffer
    <3> HIDE DEF new
    <3>4. ASSUME NEW s \in reapply', NEW u \in reapply', s.gen = u.gen PROVE s = u
      <4>1. CASE s \in reapply /\ u \in reapply
        BY <3>4, <4>1 DEF ThreadsDiffer
      <4> QED BY <3>2, <3>3, <3>4, <4>1
    <3>5. cs'.by = "nobody"
      BY <3>1, UnlockFacts
    <3> QED BY <3>4, <3>5 DEF ThreadsDiffer
  <2>11. CASE LookupExpires \/ RefreshStatus \/ Environment \/ UNCHANGED vars
    BY <2>3, <2>11
       DEF LookupExpires, RefreshStatus, Environment, ChangeSetting, RuleChanges, GameStarts,
           GameExits, WindowChanges, GameResets, vars
  <2> QED BY <2>5, <2>6, <2>7, <2>8, <2>9, <2>10, <2>11 DEF Next, Apply
<1> QED BY <1>1, <1>2, Inductive, PTL DEF Spec

-----------------------------------------------------------------------------
(* What the worker remembers for a game that is hidden: never low power,   *)
(* the mode it put the game in itself, and the same until the game is seen *)
(* again, whatever the game's mode becomes meanwhile (auto_restore_mode of *)
(* automation_mode_action).                                                *)
RestoreIsNotLowPower == automation.restore # LowPower

RestoreIsKept ==
  [][automation.seen = "hidden" /\ automation'.seen = "hidden"
       => automation'.restore = automation.restore]_vars

LEMMA DecideRemembers ==
  ASSUME NEW memory \in Automation, NEW s \in Settings, NEW w \in Window,
         NEW current \in OptMode, NEW r \in OptMode, memory.restore # LowPower
  PROVE  LET next == Decide(memory, s, w, current, r).memory
         IN  /\ next.restore # LowPower
             /\ memory.seen = "hidden" /\ next.seen = "hidden" => next.restore = memory.restore
<1> DEFINE D == Decide(memory, s, w, current, r)
           next == D.memory
<1> SUFFICES /\ next.restore # LowPower
             /\ memory.seen = "hidden" /\ next.seen = "hidden" => next.restore = memory.restore
  OBVIOUS
<1>0. None # LowPower
  BY PolicyAssumption
<1>1. CASE w = "none"
  <2>1. next = [InitAutomation EXCEPT !.present = "no"]
    BY <1>1 DEF Decide, WhenAbsent
  <2> HIDE DEF next
  <2> QED BY <1>0, <2>1 DEF InitAutomation
<1>2. CASE w = "hidden"
  <2> DEFINE seen == [memory EXCEPT !.present = "yes", !.seen = "hidden"]
  <2>1. \/ next = seen
        \/ next = [seen EXCEPT !.restore = RememberedMode(memory, current)]
    BY <1>2, MemoryOf DEF Decide, WhenHidden
  <2> HIDE DEF next
  <2>2. next.restore \in {memory.restore, RememberedMode(memory, current)}
    BY <2>1 DEF Automation
  <2>3. RememberedMode(memory, current) # LowPower
    BY DEF RememberedMode
  <2>4. memory.seen = "hidden" => RememberedMode(memory, current) = memory.restore
    BY DEF RememberedMode
  <2> QED BY <2>2, <2>3, <2>4
<1>3. CASE w = "visible"
  <2>1. D = WhenVisible(memory, s, current, r)
    BY <1>3 DEF Decide
  <2>2. CASE r # None
    <3>1. next = [memory EXCEPT !.present = "yes", !.seen = "visible", !.inSchedule = TRUE,
                                !.scheduleRestore =
                                  IF memory.inSchedule THEN memory.scheduleRestore
                                  ELSE OrElse(UserOrDefault(s), OrElse(memory.restore, current))]
      BY <2>1, <2>2, MemoryOf DEF WhenVisible, DuringSchedule
    <3> HIDE DEF next
    <3> QED BY <3>1 DEF Automation
  <2>3. CASE r = None /\ memory.inSchedule
    <3>1. next = [memory EXCEPT !.present = "yes", !.seen = "visible", !.inSchedule = FALSE,
                                !.restore = None, !.scheduleRestore = None]
      BY <2>1, <2>3, MemoryOf DEF WhenVisible, AfterSchedule
    <3> HIDE DEF next
    <3> QED BY <1>0, <3>1 DEF Automation
  <2>4. CASE r = None /\ ~memory.inSchedule /\ memory.seen = "hidden" /\ s.auto
    <3>1. next = [memory EXCEPT !.present = "yes", !.seen = "visible", !.restore = None]
      BY <2>1, <2>4, MemoryOf DEF WhenVisible, AfterHiding
    <3> HIDE DEF next
    <3> QED BY <1>0, <3>1 DEF Automation
  <2>5. CASE r = None /\ ~memory.inSchedule /\ ~(memory.seen = "hidden" /\ s.auto)
    <3>1. next = [memory EXCEPT !.present = "yes", !.seen = "visible"]
      BY <2>1, <2>5, MemoryOf DEF WhenVisible, Maintain
    <3> HIDE DEF next
    <3> QED BY <3>1 DEF Automation
  <2> QED BY <2>2, <2>3, <2>4, <2>5 DEF Automation
<1> QED BY <1>1, <1>2, <1>3 DEF Window

(* What is to be restored when the game is seen again does not depend on   *)
(* what happens to it while it is hidden.                                  *)
THEOREM RestoreSurvives == Spec => []RestoreIsNotLowPower /\ RestoreIsKept
<1>1. Init => RestoreIsNotLowPower
  BY PolicyAssumption DEF Init, InitAutomation, RestoreIsNotLowPower
<1>2. ASSUME IInv, RestoreIsNotLowPower, [Next]_vars
      PROVE  /\ RestoreIsNotLowPower'
             /\ automation.seen = "hidden" /\ automation'.seen = "hidden"
                  => automation'.restore = automation.restore
  <2>1. CASE UNCHANGED automation
    BY <1>2, <2>1 DEF RestoreIsNotLowPower
  <2>2. CASE WorkerDecide
    <3>1. PICK w \in {window, "none"} :
            automation' = Decide(automation, cs.seen, w, CurrentMode, rule).memory
      BY <2>2 DEF WorkerDecide
    <3>2. /\ automation \in Automation /\ cs.seen \in Settings /\ w \in Window
          /\ rule \in OptMode /\ CurrentMode \in OptMode
      BY <1>2, <2>2 DEF IInv, TypeOK, SectionOK, WorkerDecide, CurrentMode, OptMode, Window
    <3> QED BY <1>2, <3>1, <3>2, DecideRemembers DEF RestoreIsNotLowPower
  <2>3. CASE Restart
    BY <2>3, PolicyAssumption DEF Restart, InitAutomation, RestoreIsNotLowPower
  <2>4. CASE Apply
    BY <2>1, <2>4
       DEF Apply, FindGame, SetPriority, PriorityRefused, SetAffinity, AffinityRefused,
           RollbackRefused, TargetGone, Commit
  <2>5. CASE User \/ WorkerBegin \/ Reapply
    BY <2>1, <2>5 DEF User, DeferRequest, BeginRequest, WorkerBegin, Reapply, ReapplyGivesUp,
                      ReapplyWakes
  <2>6. CASE LookupExpires \/ RefreshStatus \/ Environment \/ UNCHANGED vars
    BY <2>1, <2>6
       DEF LookupExpires, RefreshStatus, Environment, ChangeSetting, RuleChanges, GameStarts,
           GameExits, WindowChanges, GameResets, vars
  <2> QED BY <1>2, <2>2, <2>3, <2>4, <2>5, <2>6 DEF Next, Worker
<1> QED BY <1>1, <1>2, Inductive, PTL DEF Spec, RestoreIsKept
=============================================================================
