---------------------------- MODULE OsTasksProofs ----------------------------
(***************************************************************************)
(* Proofs about OsTasks and WeeklyRun, for all constants.                  *)
(***************************************************************************)
EXTENDS OsTasks, TLAPS

-----------------------------------------------------------------------------
(* The search of WeeklyRun finds the next run.                             *)

LEMMA LeastOfEight ==
  ASSUME NEW S \in SUBSET (0..7), S # {}
  PROVE  Min(S) \in S /\ \A y \in S : Min(S) <= y
<1>1. \E x \in S : \A y \in S : x =< y
  <2>1. CASE 0 \in S BY <2>1
  <2>2. CASE 0 \notin S /\ 1 \in S BY <2>2
  <2>3. CASE 0 \notin S /\ 1 \notin S /\ 2 \in S BY <2>3
  <2>4. CASE 0 \notin S /\ 1 \notin S /\ 2 \notin S /\ 3 \in S BY <2>4
  <2>5. CASE (\A x \in 0..3 : x \notin S) /\ 4 \in S BY <2>5
  <2>6. CASE (\A x \in 0..4 : x \notin S) /\ 5 \in S BY <2>6
  <2>7. CASE (\A x \in 0..5 : x \notin S) /\ 6 \in S BY <2>7
  <2>8. CASE \A x \in 0..6 : x \notin S
    <3>1. PICK x \in S : TRUE OBVIOUS
    <3>2. \A y \in S : y = 7
      <4>1. TAKE y \in S
      <4>2. y \in 0..7 /\ y \notin 0..6 BY <2>8
      <4> QED BY <4>2
    <3>3. 7 \in S BY <3>1, <3>2
    <3> QED BY <3>2, <3>3
  <2> QED BY <2>1, <2>2, <2>3, <2>4, <2>5, <2>6, <2>7, <2>8
<1> QED BY <1>1 DEF Min

(* Some day of the next seven, or the same day a week on, is a chosen one. *)
LEMMA EveryWeek ==
  ASSUME NEW w \in Weekdays, NEW d \in Nat
  PROVE  \E o \in 1..7 : (d + o) % 7 = w
<1> DEFINE k == (w - d) % 7
<1>1. k \in 0..6 /\ (d + k) % 7 = w BY DEF Weekdays
<1>2. CASE k = 0 BY <1>1, <1>2 DEF Weekdays
<1>3. CASE k # 0 BY <1>1, <1>3
<1> QED BY <1>2, <1>3

(* What the page is told is the next run of the weekly shutdown is just    *)
(* that: compute_next_weekly_run_from_opt looks far enough ahead, and no   *)
(* run is passed over, for any days, minute and time of asking.            *)
THEOREM NextRunFound ==
  ASSUME NEW days \in SUBSET Weekdays, NEW minute \in Nat,
         NEW now \in [day : Nat, minute : Nat]
  PROVE  IsNext(NextRun(days, minute, now), days, minute, now)
<1> DEFINE S == Stops(days, minute, now)
           o == Min(S)
           next == At(now.day + o, minute)
<1>1. CASE S = {}
  <2>1. ASSUME NEW w \in days PROVE FALSE
    <3>1. PICK k \in 1..7 : (now.day + k) % 7 = w BY EveryWeek
    <3>2. k \in 0..7 /\ After(At(now.day + k, minute), now) BY DEF After, At
    <3>3. k \in S BY <3>1, <3>2 DEF Stops
    <3> QED BY <1>1, <3>3
  <2>2. NextRun(days, minute, now) = NoRun BY <1>1 DEF NextRun
  <2> QED BY <2>1, <2>2 DEF IsNext
<1>2. CASE S # {}
  <2>1. S \in SUBSET (0..7) BY DEF Stops
  <2>2. o \in S /\ \A k \in S : o <= k BY <1>2, <2>1, LeastOfEight
  <2>3. o \in 0..7 BY <2>1, <2>2
  <2>4. (now.day + o) % 7 \in days /\ (After(next, now) \/ next \in Irregular)
    BY <2>2 DEF Stops
  <2>5. next \in Runs(days, minute)
    <3>1. next \in [day : Nat, minute : {minute}] BY <2>3 DEF At
    <3> QED BY <3>1, <2>4 DEF Runs, At
  <2>6. next.day = now.day + o BY DEF At
  <2>7. CASE next \in Irregular
    <3>1. NextRun(days, minute, now) = NoRun BY <1>2, <2>7 DEF NextRun
    <3>2. next.day \in now.day..(now.day + 7) BY <2>3, <2>6
    <3> QED BY <3>1, <3>2, <2>5, <2>7 DEF IsNext
  <2>8. CASE next \notin Irregular
    <3>1. NextRun(days, minute, now) = next BY <1>2, <2>8 DEF NextRun
    <3>2. next # NoRun BY <2>3, <2>6 DEF NoRun
    <3>3. ASSUME NEW d \in now.day..next.day, At(d, minute) \in Runs(days, minute),
                 After(At(d, minute), now)
          PROVE  d = next.day
      <4> DEFINE k == d - now.day
      <4>1. k \in 0..7 /\ now.day + k = d BY <2>3, <2>6
      <4>2. d % 7 \in days BY <3>3 DEF Runs, At
      <4>3. k \in S BY <3>3, <4>1, <4>2 DEF Stops
      <4>4. o <= k BY <2>2, <4>3
      <4> QED BY <2>3, <2>6, <4>1, <4>4
    <3> QED BY <3>1, <3>2, <3>3, <2>4, <2>5, <2>8 DEF IsNext
  <2> QED BY <2>7, <2>8
<1> QED BY <1>1, <1>2

-----------------------------------------------------------------------------
(* What the page is shown is right when it is shown.                       *)
LEMMA NextRunType ==
  ASSUME NEW days \in SUBSET Weekdays, NEW minute \in Nat,
         NEW now \in [day : Nat, minute : Nat]
  PROVE  NextRun(days, minute, now) \in [day : Int, minute : Nat]
<1> DEFINE S == Stops(days, minute, now)
<1>1. NoRun \in [day : Int, minute : Nat] BY DEF NoRun
<1>2. CASE S = {} BY <1>1, <1>2 DEF NextRun
<1>3. CASE S # {}
  <2>1. S \in SUBSET (0..7) BY DEF Stops
  <2>2. Min(S) \in 0..7 BY <1>3, <2>1, LeastOfEight
  <2>3. At(now.day + Min(S), minute) \in [day : Int, minute : Nat] BY <2>2 DEF At
  <2> QED BY <1>1, <1>3, <2>3 DEF NextRun
<1> QED BY <1>2, <1>3

Shown ==
  {s \in [days : SUBSET Weekdays, minute : Nat, now : [day : Nat, minute : Nat],
          next : [day : Int, minute : Nat]] :
     IsNext(s.next, s.days, s.minute, s.now)}

-----------------------------------------------------------------------------
(* A command and the answer it has got so far.                             *)
OnTask == {"enable", "form", "disable"}

CommandSet ==
  [op : OnTask \cup {"read", "cancelAll", "register", "cancel"}, task : Tasks,
   want : OnceTimes \cup WeeklyTimes \cup Forms \cup {Absent}, result : Results,
   shown : SUBSET Shown]

CommandOK ==
  /\ command \in CommandSet
  /\ command.op \in OnTask \cup {"read", "cancelAll"} => command.task = "autostart"
  /\ command.op = "form" => command.want \in Forms
  /\ command.op \in {"register", "cancel"} => command.task \in Shutdowns
  /\ command.op = "register" =>
       /\ command.task = "once" => command.want \in OnceTimes
       /\ command.task = "weekly" => command.want \in WeeklyTimes
  /\ command.op = "cancelAll" => command.result # "notFound"
  /\ command.op = "read" => command.result \in {"none", "killed"}

(* Each step of the main thread belongs to some commands only, and none    *)
(* has an answer before its last step.                                     *)
Main == job["main"]

StepOK ==
  /\ Main.pc = "form" => command.op = "enable"
  /\ Main.pc = "ask" => command.op = "form"
  /\ Main.pc \in {"lock", "confirm"} => command.op \in OnTask
  /\ Main.pc \in {"register", "verify"} => command.op \in {"enable", "form"}
  /\ Main.pc \in {"lock", "register", "verify"} /\ command.op # "disable" => command.want \in Forms
  /\ Main.pc \in {"create", "check"} => command.op = "register"
  /\ Main.pc = "exists" => command.op \in {"disable", "cancel", "cancelAll"}
  /\ Main.pc = "delete" => command.op \in OnTask \cup {"cancel", "cancelAll"}
  /\ Main.pc = "answer" => command.op \in {"read", "register", "cancel"}
  /\ Main.pc # "idle" =>
       IF command.op = "cancelAll" THEN Main.task \in Shutdowns ELSE Main.task = command.task

PendingOK ==
  Main.pc \notin {"idle", "answer"} =>
    \/ command.result = "none"
    \/ command.op = "cancelAll" /\ Main.task = "weekly" /\ command.result = "failed"

(* What is known of the shutdown tasks half way.                           *)
HalfOK ==
  /\ Main.pc = "check" /\ changed = "no" => tasks[command.task] = command.want
  /\ command.op = "cancelAll" /\ Main.pc # "idle" /\ Main.task = "weekly"
       /\ command.result = "none" /\ changed = "no" => tasks["once"] = Absent

(* What the repair has found, and what it has put in its place; an answer  *)
(* that no longer stands is known not to.                                  *)
Fixer == job["repair"]

Positive == command.op \in OnTask /\ command.result \in {"ok", "notFound"}

RepairOK ==
  /\ Fixer.pc = "register" =>
       \/ meddled
       \/ IsOurs(tasks["autostart"], "legacy") /\ tasks["autostart"].arguments = Fixer.form
  /\ Fixer.pc \in {"verify", "delete"} => meddled \/ tasks["autostart"] = BuildTask(Fixer.form)
  /\ Fixer.pc \in {"register", "verify", "delete", "confirm"} /\ Positive => changed = "unseen"

IInv == TypeOK /\ CommandOK /\ StepOK /\ PendingOK /\ HalfOK /\ RepairOK /\ AnswerStands

USE OsTasksAssumption

MainJob ==
  [pc : {"idle", "form", "ask", "lock", "register", "verify", "create", "check", "exists",
         "delete", "confirm", "answer"}, task : Tasks, form : Forms]

FixerJob ==
  [pc : {"lock", "inspect", "register", "verify", "delete", "confirm", "done"},
   task : {"autostart"}, form : Forms]

Store ==
  [once : OnceTimes \cup {Absent}, weekly : WeeklyTimes \cup {Absent},
   autostart : Definition \cup {Absent}]

Clerks == [main : MainJob, repair : FixerJob]

-----------------------------------------------------------------------------
LEMMA Types ==
  ASSUME IInv
  PROVE  /\ job \in Clerks /\ Main \in MainJob /\ Fixer \in FixerJob /\ tasks \in Store
         /\ command \in CommandSet /\ protected \in BOOLEAN /\ meddled \in BOOLEAN
         /\ outside \in 0..MaxOutside /\ restarts \in 0..MaxRestarts
         /\ changed \in {"no", "seen", "unseen"} /\ lock \in Threads \cup {"none"}
  BY DEF IInv, TypeOK, CommandOK, Clerks, MainJob, FixerJob, Store, Main, Fixer

(* Where one thread works on the autostart task the other does not.        *)
LEMMA LockHeld ==
  ASSUME IInv
  PROVE  /\ (Critical("main") <=> lock = "main") /\ (Critical("repair") <=> lock = "repair")
         /\ Fixer.pc \notin {"lock", "done"} <=> lock = "repair"
         /\ Main.pc \in {"register", "verify", "confirm"} => lock = "main"
         /\ Main.pc \in {"exists", "delete"} /\ Main.task = "autostart" => lock = "main"
  BY Types DEF IInv, TypeOK, Threads, Critical, Main, Fixer, FixerJob

LEMMA GotoMain ==
  ASSUME IInv, NEW pc, Goto("main", pc)
  PROVE  /\ Main'.pc = pc /\ Main'.task = Main.task /\ Main'.form = Main.form
         /\ Main' = [Main EXCEPT !.pc = pc] /\ Fixer' = Fixer
  BY Types DEF Goto, Main, Fixer, Clerks, MainJob

LEMMA GotoMainType ==
  ASSUME IInv, NEW pc, Goto("main", pc), [pc |-> pc, task |-> Main.task, form |-> Main.form] \in MainJob
  PROVE  job' \in Clerks
  BY Types DEF Goto, Main, Fixer, Clerks, MainJob

LEMMA GotoFixer ==
  ASSUME IInv, NEW pc \in {"lock", "inspect", "register", "verify", "delete", "confirm", "done"},
         Goto("repair", pc)
  PROVE  /\ Fixer'.pc = pc /\ Fixer'.task = Fixer.task /\ Fixer'.form = Fixer.form
         /\ Main' = Main /\ job' \in Clerks
  BY Types DEF Goto, Main, Fixer, Clerks, FixerJob

LEMMA PutOK ==
  ASSUME IInv, NEW k \in Tasks, NEW d, Put(k, d)
  PROVE  tasks'[k] = d /\ \A j \in Tasks : j # k => tasks'[j] = tasks[j]
  BY Types DEF Put, Store, Tasks, Shutdowns

(* The types of the next state.                                            *)
LEMMA TypesBack ==
  ASSUME job' \in Clerks, tasks' \in Store, protected' \in BOOLEAN, lock' \in Threads \cup {"none"},
         Fixer'.pc \notin {"lock", "done"} <=> lock' = "repair",
         (\/ Main'.pc \in {"inspect", "register", "verify", "confirm"}
          \/ Main'.pc \in {"exists", "delete"} /\ Main'.task = "autostart") <=> lock' = "main",
         command'.result \in Results, changed' \in {"no", "seen", "unseen"},
         meddled' \in BOOLEAN, outside' \in 0..MaxOutside, restarts' \in 0..MaxRestarts
  PROVE  TypeOK'
<1>1. /\ job' \in [main : MainJob, repair : FixerJob] /\ Fixer' \in FixerJob
      /\ tasks' \in Store
  BY DEF Clerks, Fixer
<1>2. Critical("main")' <=> lock' = "main"
  BY DEF Critical, Main
<1>3. Critical("repair")' <=> lock' = "repair"
  BY <1>1 DEF Critical, Fixer, FixerJob
<1> QED
  BY <1>1, <1>2, <1>3 DEF TypeOK, MainJob, FixerJob, Store, Threads

-----------------------------------------------------------------------------
(* The end of a thread's work on a task.                                   *)
Kept == command'.op = command.op /\ command'.task = command.task /\ command'.want = command.want

LEMMA SettleOK ==
  ASSUME IInv, NEW r \in Results, Settle(r)
  PROVE  command' \in CommandSet /\ Kept /\ command'.result = r
  BY Types DEF Settle, CommandSet, Kept

LEMMA FinishMain ==
  ASSUME IInv, NEW r \in {"ok", "notFound", "failed"}, Finish("main", r),
         Main.pc \notin {"idle", "answer"}
  PROVE  /\ Fixer' = Fixer /\ job' \in Clerks /\ lock' = IF lock = "main" THEN "none" ELSE lock
         /\ command' \in CommandSet /\ Kept
         /\ \/ /\ command.op = "cancelAll" /\ Main.task = "once"
               /\ Main'.pc = "exists" /\ Main'.task = "weekly"
               /\ command'.result = IF r = "failed" THEN r ELSE command.result
            \/ /\ command.op = "cancelAll" /\ Main.task = "weekly"
               /\ Main'.pc = "idle" /\ Main'.task = "weekly"
               /\ command'.result = IF "failed" \in {r, command.result} THEN "failed" ELSE "ok"
            \/ /\ command.op # "cancelAll"
               /\ Main'.pc = (IF command.task \in Shutdowns THEN "answer" ELSE "idle")
               /\ Main'.task = Main.task /\ command'.result = r
<1>1. lock' = IF lock = "main" THEN "none" ELSE lock
  BY DEF Finish
<1>2. CASE command.op = "cancelAll" /\ Main.task = "once"
  <2>1. /\ job' = [job EXCEPT !["main"].task = "weekly", !["main"].pc = "exists"]
        /\ IF r = "failed" THEN Settle(r) ELSE UNCHANGED command
    BY <1>2 DEF Finish, Main
  <2>2. /\ Fixer' = Fixer /\ job' \in Clerks /\ Main'.pc = "exists" /\ Main'.task = "weekly"
    BY <2>1, Types DEF Main, Fixer, Clerks, MainJob, Tasks, Shutdowns
  <2>3. /\ command' \in CommandSet /\ Kept
        /\ command'.result = IF r = "failed" THEN r ELSE command.result
    <3>1. CASE r = "failed"
      BY <2>1, <3>1, SettleOK DEF Results
    <3>2. CASE r # "failed"
      BY <2>1, <3>2, Types DEF Kept
    <3> QED BY <3>1, <3>2
  <2> QED BY <1>1, <1>2, <2>2, <2>3
<1>3. CASE command.op = "cancelAll" /\ Main.task # "once"
  <2>1. Main.task = "weekly"
    BY <1>3 DEF IInv, StepOK, Shutdowns
  <2>2. /\ Goto("main", "idle")
        /\ Settle(IF "failed" \in {r, command.result} THEN "failed" ELSE "ok")
    BY <1>3, <2>1 DEF Finish, Main
  <2>3. /\ Fixer' = Fixer /\ Main'.pc = "idle" /\ Main'.task = "weekly" /\ job' \in Clerks
    BY <2>1, <2>2, GotoMain, GotoMainType, Types DEF MainJob
  <2>4. (IF "failed" \in {r, command.result} THEN "failed" ELSE "ok") \in Results
    BY DEF Results
  <2> HIDE DEF Settle
  <2>5. /\ command' \in CommandSet /\ Kept
        /\ command'.result = IF "failed" \in {r, command.result} THEN "failed" ELSE "ok"
    BY <2>2, <2>4, SettleOK
  <2> QED BY <1>1, <1>3, <2>1, <2>3, <2>5
<1>4. CASE command.op # "cancelAll"
  <2> DEFINE pc == IF command.task \in Shutdowns THEN "answer" ELSE "idle"
  <2>1. Goto("main", pc) /\ Settle(r)
    BY <1>4 DEF Finish
  <2>2. pc \in {"answer", "idle"}
    OBVIOUS
  <2>3. [pc |-> pc, task |-> Main.task, form |-> Main.form] \in MainJob
    BY Types DEF MainJob
  <2>4. /\ Fixer' = Fixer /\ Main'.pc = pc /\ Main'.task = Main.task /\ job' \in Clerks
    BY <2>1, <2>3, GotoMain, GotoMainType
  <2>5. command' \in CommandSet /\ Kept /\ command'.result = r
    BY <2>1, SettleOK DEF Results
  <2> QED BY <1>1, <1>4, <2>4, <2>5
<1> QED BY <1>2, <1>3, <1>4

LEMMA FinishFixer ==
  ASSUME IInv, NEW r \in {"ok", "notFound", "failed"}, Finish("repair", r),
         Fixer.pc \notin {"lock", "done"}
  PROVE  /\ Main' = Main /\ job' \in Clerks /\ Fixer'.pc = "done" /\ command' = command
         /\ lock = "repair" /\ lock' = "none"
<1>1. Goto("repair", "done") /\ command' = command /\ lock' = IF lock = "repair" THEN "none" ELSE lock
  BY DEF Finish
<1> QED
  BY <1>1, GotoFixer, LockHeld

(* What an answer other than a failure needs.                              *)
Earned(r) ==
  r \in {"ok", "notFound"} =>
    /\ command.op \in {"enable", "form"} =>
         /\ r = "ok" /\ IsOurs(tasks'["autostart"], "current")
         /\ tasks'["autostart"].arguments = command.want
    /\ command.op \in {"disable", "cancel", "cancelAll"} => tasks'[Main.task] = Absent
    /\ command.op = "register" =>
         /\ r = "ok" /\ tasks'[command.task] # Absent
         /\ changed = "no" => tasks'[command.task] = command.want

LEMMA FinishOK ==
  ASSUME IInv, NEW r \in {"ok", "notFound", "failed"}, Finish("main", r), Earned(r),
         Main.pc \in {"register", "verify", "create", "check", "exists", "delete", "confirm"},
         tasks' \in Store, tasks'["autostart"] = tasks["autostart"],
         Main.task # "once" => tasks'["once"] = tasks["once"],
         changed' \in {"no", "seen", "unseen"}, changed' = "no" => changed = "no",
         UNCHANGED <<protected, meddled, outside, restarts>>
  PROVE  IInv'
<1>1. /\ Fixer' = Fixer /\ job' \in Clerks /\ lock' = (IF lock = "main" THEN "none" ELSE lock)
      /\ command' \in CommandSet /\ command'.op = command.op /\ command'.task = command.task
      /\ command'.want = command.want
  BY FinishMain DEF Kept
<1>2. \/ /\ command.op = "cancelAll" /\ Main.task = "once"
         /\ Main'.pc = "exists" /\ Main'.task = "weekly"
         /\ command'.result = IF r = "failed" THEN r ELSE command.result
      \/ /\ command.op = "cancelAll" /\ Main.task = "weekly"
         /\ Main'.pc = "idle" /\ Main'.task = "weekly"
         /\ command'.result = IF "failed" \in {r, command.result} THEN "failed" ELSE "ok"
      \/ /\ command.op # "cancelAll"
         /\ Main'.pc = (IF command.task \in Shutdowns THEN "answer" ELSE "idle")
         /\ Main'.task = Main.task /\ command'.result = r
  BY FinishMain
<1>3. Main'.pc \in {"exists", "answer", "idle"} /\ (Main'.pc = "exists" => Main'.task = "weekly")
  BY <1>2
<1>4. lock' # "main" /\ (lock' = "repair" <=> lock = "repair")
  BY <1>1
<1>5. TypeOK'
  BY <1>1, <1>3, <1>4, TypesBack, Types, LockHeld DEF CommandSet, Threads
<1>6. CommandOK'
  BY <1>1, <1>2 DEF IInv, CommandOK, OnTask, PendingOK, StepOK
<1>7. StepOK'
  BY <1>1, <1>2 DEF IInv, StepOK, CommandOK, OnTask, Shutdowns
<1>8. PendingOK'
  BY <1>2, <1>1 DEF IInv, PendingOK
<1>9. HalfOK'
  BY <1>1, <1>2 DEF IInv, HalfOK, Earned, PendingOK
<1>10. RepairOK'
  <2>1. Fixer.pc \in {"register", "verify", "delete", "confirm"} => lock # "main"
    BY LockHeld
  <2>2. command.op \in OnTask => lock = "main"
    BY LockHeld DEF IInv, StepOK, CommandOK, OnTask
  <2> QED
    BY <1>1, <2>1, <2>2 DEF IInv, RepairOK, Positive, IsOurs, MatchesCurrentExe
<1>11. AnswerStands'
  <2>1. CASE command.op \in OnTask
    <3>1. command'.result = r /\ Main.task = "autostart" /\ command.task = "autostart"
      BY <1>2, <2>1 DEF OnTask, IInv, StepOK, CommandOK
    <3> QED
      BY <1>1, <2>1, <3>1 DEF AnswerStands, Earned, OnTask, IsOurs, MatchesCurrentExe
  <2>2. CASE command.op \in {"register", "cancel"}
    <3>1. command'.result = r /\ Main.task = command.task
      BY <1>2, <2>2 DEF IInv, StepOK
    <3> QED
      BY <1>1, <2>2, <3>1 DEF AnswerStands, Earned
  <2>3. CASE command.op = "cancelAll"
    <3>1. command'.result # "notFound"
      BY <1>6, <1>1, <2>3 DEF CommandOK
    <3>2. command'.result = "ok" => r # "failed" /\ command.result = "none" /\ Main.task = "weekly"
      BY <1>2, <2>3 DEF IInv, PendingOK
    <3>3. command'.result = "ok" /\ changed' = "no" => tasks'["once"] = Absent /\ tasks'["weekly"] = Absent
      BY <2>3, <3>2 DEF IInv, HalfOK, Earned
    <3> QED
      BY <1>1, <2>3, <3>1, <3>3 DEF AnswerStands, Shutdowns
  <2>4. CASE command.op = "read"
    BY <2>4 DEF IInv, StepOK, OnTask
  <2> QED
    BY <2>1, <2>2, <2>3, <2>4, Types DEF CommandSet
<1> QED
  BY <1>5, <1>6, <1>7, <1>8, <1>9, <1>10, <1>11 DEF IInv

-----------------------------------------------------------------------------
(* The other steps of the main thread leave the command without an answer, *)
(* and touch the autostart task only under the lock.                       *)
LEMMA MainOK ==
  ASSUME IInv, Fixer' = Fixer, job' \in Clerks, tasks' \in Store,
         CommandOK', StepOK', PendingOK', HalfOK',
         command'.result \notin {"ok", "notFound"},
         lock' \in Threads \cup {"none"}, lock' = "repair" <=> lock = "repair",
         (\/ Main'.pc \in {"inspect", "register", "verify", "confirm"}
          \/ Main'.pc \in {"exists", "delete"} /\ Main'.task = "autostart") <=> lock' = "main",
         tasks'["autostart"] = tasks["autostart"] \/ lock = "main",
         changed' \in {"no", "seen", "unseen"},
         UNCHANGED <<protected, meddled, outside, restarts>>
  PROVE  IInv'
<1>1. TypeOK'
  BY TypesBack, Types, LockHeld DEF CommandOK, CommandSet
<1>2. RepairOK'
  <2>1. ~Positive'
    BY DEF Positive
  <2>2. CASE lock = "main"
    <3>1. Fixer'.pc \in {"lock", "done"}
      BY <2>2, LockHeld
    <3> QED BY <3>1 DEF RepairOK
  <2>3. CASE lock # "main"
    BY <2>1, <2>3 DEF IInv, RepairOK, IsOurs, MatchesCurrentExe
  <2> QED BY <2>2, <2>3
<1>3. AnswerStands'
  BY DEF AnswerStands
<1> QED
  BY <1>1, <1>2, <1>3 DEF IInv

(* The repair leaves the shutdowns alone, and an answer about the          *)
(* autostart task stands, unless it is known not to.                       *)
LEMMA FixerOK ==
  ASSUME IInv, Main' = Main, job' \in Clerks, tasks' \in Store, RepairOK',
         tasks'["once"] = tasks["once"], tasks'["weekly"] = tasks["weekly"],
         Fixer'.pc \notin {"lock", "done"} <=> lock' = "repair",
         lock' = "main" <=> lock = "main", lock' \in Threads \cup {"none"}, meddled' \in BOOLEAN,
         Positive => changed = "unseen" \/ tasks'["autostart"] = tasks["autostart"],
         UNCHANGED <<command, protected, changed, outside, restarts>>
  PROVE  IInv'
<1>1. TypeOK'
  BY TypesBack, Types, LockHeld DEF IInv, TypeOK, Critical, Main
<1>2. CommandOK' /\ StepOK' /\ PendingOK'
  BY DEF IInv, CommandOK, StepOK, PendingOK
<1>3. HalfOK'
  <2>1. Main.pc = "check" => command.task \in Shutdowns
    BY DEF IInv, StepOK, CommandOK
  <2> QED
    BY <2>1 DEF IInv, HalfOK, Shutdowns
<1>4. AnswerStands'
  <2>1. CASE command.op \in OnTask
    <3>1. command.task = "autostart"
      BY <2>1 DEF IInv, CommandOK
    <3>2. CASE Positive
      BY <2>1, <3>1, <3>2 DEF IInv, AnswerStands, OnTask, IsOurs, MatchesCurrentExe
    <3>3. CASE ~Positive
      BY <2>1, <3>1, <3>3 DEF AnswerStands, OnTask, Positive
    <3> QED BY <3>2, <3>3
  <2>2. CASE command.op \in {"register", "cancel"}
    <3>1. command.task \in Shutdowns
      BY <2>2 DEF IInv, CommandOK
    <3> QED
      BY <2>2, <3>1 DEF IInv, AnswerStands, Shutdowns
  <2>3. CASE command.op \in {"cancelAll", "read"}
    BY <2>3 DEF IInv, AnswerStands, CommandOK, Shutdowns
  <2> QED
    BY <2>1, <2>2, <2>3, Types DEF CommandSet
<1> QED
  BY <1>1, <1>2, <1>3, <1>4 DEF IInv

(* The repair gives up or is through.                                      *)
LEMMA FixerDone ==
  ASSUME IInv, NEW r \in {"ok", "notFound", "failed"}, Finish("repair", r),
         Fixer.pc \notin {"lock", "done"}, UNCHANGED <<tasks, protected, changed, meddled, outside, restarts>>
  PROVE  IInv'
<1>1. /\ Main' = Main /\ job' \in Clerks /\ Fixer'.pc = "done" /\ command' = command
      /\ lock = "repair" /\ lock' = "none"
  BY FinishFixer
<1>2. RepairOK'
  BY <1>1 DEF RepairOK
<1> QED
  BY <1>1, <1>2, FixerOK, Types

-----------------------------------------------------------------------------
LEMMA BuildTaskOK ==
  ASSUME NEW form \in Forms
  PROVE  BuildTask(form) \in Definition
  BY DEF BuildTask, Definition

LEMMA QueryOK ==
  ASSUME NEW q \in QueryAutostart
  PROVE  /\ q.form \in Forms
         /\ q.on => IsOurs(tasks["autostart"], "current") /\ tasks["autostart"].arguments = q.form
<1>1. CASE q = Off
  BY <1>1 DEF Off, Forms
<1>2. CASE q # Off
  <2>1. IsOurs(tasks["autostart"], "current") /\ q = [on |-> TRUE, form |-> tasks["autostart"].arguments]
    BY <1>2 DEF QueryAutostart
  <2> QED
    BY <2>1 DEF IsOurs, MatchesCurrentExe
<1> QED BY <1>1, <1>2

LEMMA GiveOK ==
  ASSUME IInv, NEW c \in Commands, Give(c)
  PROVE  IInv'
<1>1. /\ c.op \in OnTask \cup {"read", "cancelAll", "register", "cancel"} /\ c.task \in Tasks
      /\ c.want \in OnceTimes \cup WeeklyTimes \cup Forms \cup {Absent}
      /\ c.op \in OnTask \cup {"read", "cancelAll"} => c.task = "autostart"
      /\ c.op = "form" => c.want \in Forms
      /\ c.op \in {"register", "cancel"} => c.task \in Shutdowns
      /\ c.op = "register" => /\ c.task = "once" => c.want \in OnceTimes
                              /\ c.task = "weekly" => c.want \in WeeklyTimes
  BY DEF Commands, OnTask, Tasks, Shutdowns
<1> DEFINE step == FirstStep(c.op)
           work == IF c.op = "cancelAll" THEN "once" ELSE c.task
<1>2. /\ command' = [op |-> c.op, task |-> c.task, want |-> c.want, result |-> "none", shown |-> {}]
      /\ job' = [job EXCEPT !["main"] = [pc |-> step, form |-> "window", task |-> work]]
      /\ changed' = "no" /\ Main.pc = "idle"
      /\ UNCHANGED <<tasks, protected, lock, meddled, outside, restarts>>
  BY DEF Give, Main
<1>3. /\ c.op = "enable" => step = "form"
      /\ c.op = "form" => step = "ask"
      /\ c.op = "disable" => step = "lock"
      /\ c.op = "register" => step = "create"
      /\ c.op = "read" => step = "answer"
      /\ c.op \in {"cancel", "cancelAll"} => step = "exists"
  BY DEF FirstStep
<1>4. step \in {"form", "ask", "lock", "create", "answer", "exists"}
  BY <1>1, <1>3 DEF OnTask
<1> HIDE DEF step
<1>5. work \in Tasks
  BY <1>1 DEF Tasks, Shutdowns
<1>6. c.op = "cancelAll" => work = "once"
  OBVIOUS
<1>7. c.op # "cancelAll" => work = c.task
  OBVIOUS
<1> HIDE DEF work
<1>8. [pc |-> step, form |-> "window", task |-> work] \in MainJob
  BY <1>4, <1>5 DEF MainJob, Forms
<1>9. job' \in Clerks /\ Fixer' = Fixer /\ Main'.pc = step /\ Main'.task = work
  BY <1>2, <1>8, Types DEF Clerks, Main, Fixer
<1>10. /\ command' \in CommandSet /\ command'.op = c.op /\ command'.task = c.task
       /\ command'.want = c.want /\ command'.result = "none"
  BY <1>1, <1>2 DEF CommandSet, Results
<1>11. CommandOK'
  BY <1>1, <1>10 DEF CommandOK
<1>12. StepOK'
  BY <1>1, <1>3, <1>4, <1>6, <1>7, <1>9, <1>10 DEF StepOK, OnTask, Shutdowns
<1>13. PendingOK'
  BY <1>10 DEF PendingOK
<1>14. HalfOK'
  BY <1>4, <1>6, <1>9, <1>10 DEF HalfOK
<1>15. lock # "main"
  BY <1>2, LockHeld DEF Critical, Main
<1>16. Main'.pc = "exists" => Main'.task # "autostart"
  BY <1>1, <1>3, <1>6, <1>7, <1>9 DEF Shutdowns, OnTask
<1> QED
  BY <1>2, <1>4, <1>9, <1>10, <1>11, <1>12, <1>13, <1>14, <1>15, <1>16, MainOK, Types

LEMMA KeepFormOK ==
  ASSUME IInv, KeepForm
  PROVE  IInv'
<1>1. PICK form \in Forms : command' = [command EXCEPT !.want = form]
  BY QueryOK DEF KeepForm
<1>2. /\ Main.pc = "form" /\ Goto("main", "lock") /\ command.op = "enable"
      /\ command.task = "autostart" /\ Main.task = "autostart" /\ command.result = "none"
      /\ UNCHANGED <<tasks, protected, lock, changed, meddled, outside, restarts>>
  BY DEF KeepForm, Main, IInv, StepOK, PendingOK, CommandOK, OnTask
<1>3. /\ command' \in CommandSet /\ command'.op = "enable" /\ command'.task = "autostart"
      /\ command'.want = form /\ command'.result = "none"
  BY <1>1, <1>2, Types DEF CommandSet
<1>4. Main'.pc = "lock" /\ Main'.task = "autostart" /\ Fixer' = Fixer
  BY <1>2, GotoMain
<1>5. job' \in Clerks
  BY <1>2, GotoMainType, Types DEF MainJob
<1>6. CommandOK' /\ StepOK' /\ PendingOK' /\ HalfOK'
  BY <1>3, <1>4 DEF CommandOK, StepOK, PendingOK, HalfOK, OnTask, Shutdowns
<1>7. lock # "main"
  BY <1>2, LockHeld DEF Critical, Main
<1> QED
  BY <1>2, <1>3, <1>4, <1>5, <1>6, <1>7, MainOK, Types

LEMMA AskOK ==
  ASSUME IInv, AskEnabled
  PROVE  IInv'
<1>1. /\ Main.pc = "ask" /\ command.op = "form" /\ command.task = "autostart"
      /\ Main.task = "autostart" /\ command.result = "none" /\ command.want \in Forms
      /\ UNCHANGED <<tasks, protected, lock, changed, meddled, outside, restarts>>
  BY DEF AskEnabled, Main, IInv, StepOK, PendingOK, CommandOK, OnTask
<1>2. lock # "main"
  BY <1>1, LockHeld DEF Critical, Main
<1>3. \/ Goto("main", "lock") /\ command' = command
      \/ Goto("main", "idle") /\ Settle("off")
  BY DEF AskEnabled
<1>4. /\ Fixer' = Fixer /\ Main'.pc \in {"lock", "idle"} /\ Main'.task = "autostart"
      /\ job' \in Clerks
  BY <1>1, <1>3, GotoMain, GotoMainType, Types DEF MainJob
<1>5. /\ command' \in CommandSet /\ command'.op = "form" /\ command'.task = "autostart"
      /\ command'.want = command.want
      /\ \/ command'.result = "none"
         \/ Main'.pc = "idle" /\ command'.result = "off"
  <2>1. CASE Goto("main", "lock") /\ command' = command
    <3>1. command' = command /\ command \in CommandSet
      BY <2>1, Types
    <3> QED BY <1>1, <3>1
  <2>2. CASE Goto("main", "idle") /\ Settle("off")
    BY <1>1, <2>2, SettleOK, GotoMain DEF Kept, Results
  <2> QED BY <1>3, <2>1, <2>2
<1>6. CommandOK' /\ StepOK' /\ PendingOK' /\ HalfOK'
  BY <1>1, <1>4, <1>5 DEF CommandOK, StepOK, PendingOK, HalfOK, OnTask, Shutdowns
<1> QED
  BY <1>1, <1>2, <1>4, <1>5, <1>6, MainOK, Types

-----------------------------------------------------------------------------
LEMMA TakeLockOK ==
  ASSUME IInv, NEW t \in Threads, TakeLock(t)
  PROVE  IInv'
<1>1. CASE t = "main"
  <2> DEFINE pc == IF command.op = "disable" THEN "exists" ELSE "register"
  <2>1. /\ Main.pc = "lock" /\ lock = "none" /\ lock' = "main" /\ Goto("main", pc)
        /\ UNCHANGED <<tasks, protected, command, changed, meddled, outside, restarts>>
    BY <1>1 DEF TakeLock, LockFree, Main
  <2>2. /\ command.op \in OnTask /\ command.task = "autostart" /\ Main.task = "autostart"
        /\ command.result = "none"
        /\ command.op # "disable" => command.want \in Forms
    BY <2>1 DEF IInv, StepOK, PendingOK, CommandOK, OnTask
  <2>3. pc \in {"exists", "register"} /\ (pc = "register" <=> command.op # "disable")
    OBVIOUS
  <2> HIDE DEF pc
  <2>4. /\ Fixer' = Fixer /\ Main'.pc = pc /\ Main'.task = "autostart" /\ job' \in Clerks
    BY <2>1, <2>2, <2>3, GotoMain, GotoMainType, Types DEF MainJob
  <2>5. CommandOK' /\ StepOK' /\ PendingOK' /\ HalfOK'
    BY <2>1, <2>2, <2>3, <2>4 DEF IInv, CommandOK, StepOK, PendingOK, HalfOK, OnTask
  <2>6. lock' \in Threads \cup {"none"}
    BY <2>1 DEF Threads
  <2>7. command'.result \notin {"ok", "notFound"} /\ tasks' \in Store
        /\ changed' \in {"no", "seen", "unseen"}
    BY <2>1, <2>2, Types
  <2>8. lock' # "repair" /\ lock # "repair" /\ lock' = "main" /\ tasks' = tasks
    BY <2>1
  <2>9. \/ Main'.pc = "register"
        \/ Main'.pc = "exists" /\ Main'.task = "autostart"
    BY <2>3, <2>4
  <2> QED
    BY <2>1, <2>4, <2>5, <2>6, <2>7, <2>8, <2>9, MainOK
<1>2. CASE t = "repair"
  <2>1. /\ Fixer.pc = "lock" /\ lock = "none" /\ lock' = "repair" /\ Goto("repair", "inspect")
        /\ meddled' = FALSE
        /\ UNCHANGED <<tasks, protected, command, changed, outside, restarts>>
    BY <1>2 DEF TakeLock, LockFree, Fixer
  <2>2. Main' = Main /\ Fixer'.pc = "inspect" /\ job' \in Clerks
    BY <2>1, GotoFixer
  <2>3. RepairOK'
    BY <2>2 DEF RepairOK
  <2>4. lock' \in Threads \cup {"none"}
    BY <2>1 DEF Threads
  <2>5. meddled' \in BOOLEAN
    BY <2>1
  <2>6. tasks' \in Store /\ tasks' = tasks
    BY <2>1, Types
  <2>7. Fixer'.pc \notin {"lock", "done"} /\ lock' = "repair" /\ lock' # "main" /\ lock # "main"
    BY <2>1, <2>2
  <2> QED
    BY <2>1, <2>2, <2>3, <2>4, <2>5, <2>6, <2>7, FixerOK
<1> QED BY <1>1, <1>2 DEF Threads

(* The repair goes on only with a task of the older version: one that no   *)
(* answer speaks of.                                                       *)
LEMMA InspectOK ==
  ASSUME IInv, Inspect
  PROVE  IInv'
<1>1. /\ Fixer.pc = "inspect" /\ lock = "repair"
      /\ UNCHANGED <<tasks, protected, changed, meddled, outside, restarts>>
  BY LockHeld DEF Inspect, Fixer
<1>2. CASE Finish("repair", "ok")
  BY <1>1, <1>2, FixerDone
<1>3. CASE /\ IsOurs(tasks["autostart"], "legacy")
           /\ job' = [job EXCEPT !["repair"].pc = "register",
                                 !["repair"].form = tasks["autostart"].arguments]
           /\ UNCHANGED <<lock, command>>
  <2>1. tasks["autostart"].arguments \in Forms
    BY <1>3 DEF IsOurs, MatchesCurrentExe
  <2>2. /\ Main' = Main /\ job' \in Clerks /\ Fixer'.pc = "register"
        /\ Fixer'.form = tasks["autostart"].arguments
    BY <1>3, <2>1, Types DEF Clerks, FixerJob, Main, Fixer
  <2>3. tasks["autostart"] # Absent /\ ~IsOurs(tasks["autostart"], "current")
    BY <1>3 DEF IsOurs
  <2>4. Positive => changed = "unseen"
    BY <2>3, Types DEF IInv, AnswerStands, Positive, CommandOK, OnTask
  <2>5. RepairOK'
    BY <1>1, <1>3, <2>2, <2>4 DEF RepairOK, Positive, IsOurs, MatchesCurrentExe
  <2> QED
    BY <1>1, <1>3, <2>2, <2>5, FixerOK, Types
<1> QED BY <1>2, <1>3 DEF Inspect

(* A store with the autostart task replaced.                               *)
LEMMA PutAutostart ==
  ASSUME IInv, NEW d \in Definition \cup {Absent}, Put("autostart", d)
  PROVE  /\ tasks' \in Store /\ tasks'["autostart"] = d
         /\ tasks'["once"] = tasks["once"] /\ tasks'["weekly"] = tasks["weekly"]
  BY Types DEF Put, Store

LEMMA RegisterOK ==
  ASSUME IInv, NEW t \in Threads, Register(t)
  PROVE  IInv'
<1>1. CASE t = "main"
  <2>1. /\ Main.pc = "register" /\ lock = "main"
        /\ UNCHANGED <<protected, changed, meddled, outside, restarts>>
    BY <1>1, LockHeld DEF Register, Main
  <2>2. /\ command.op \in {"enable", "form"} /\ command.task = "autostart"
        /\ Main.task = "autostart" /\ command.want \in Forms /\ command.result = "none"
    BY <2>1 DEF IInv, StepOK, PendingOK, CommandOK, OnTask
  <2>3. CASE Finish("main", "failed") /\ UNCHANGED tasks
    BY <2>1, <2>3, FinishOK, Types DEF Earned
  <2>4. CASE /\ Put("autostart", BuildTask(Form("main"))) /\ Goto("main", "verify")
             /\ UNCHANGED <<lock, command>>
    <3>1. tasks' \in Store /\ tasks'["once"] = tasks["once"] /\ tasks'["weekly"] = tasks["weekly"]
      BY <2>2, <2>4, BuildTaskOK, PutAutostart DEF Form
    <3>2. /\ Fixer' = Fixer /\ Main'.pc = "verify" /\ Main'.task = "autostart" /\ job' \in Clerks
      BY <2>2, <2>4, GotoMain, GotoMainType, Types DEF MainJob
    <3>3. CommandOK' /\ StepOK' /\ PendingOK' /\ HalfOK'
      BY <2>2, <2>4, <3>2 DEF IInv, CommandOK, StepOK, PendingOK, HalfOK, OnTask
    <3> QED
      BY <2>1, <2>2, <2>4, <3>1, <3>2, <3>3, MainOK, Types
  <2> QED BY <1>1, <2>3, <2>4 DEF Register
<1>2. CASE t = "repair"
  <2>1. /\ Fixer.pc = "register" /\ lock = "repair" /\ Fixer.form \in Forms
        /\ UNCHANGED <<protected, changed, meddled, outside, restarts>>
    BY <1>2, LockHeld, Types DEF Register, Fixer, FixerJob
  <2>2. CASE Finish("repair", "failed") /\ UNCHANGED tasks
    BY <2>1, <2>2, FixerDone
  <2>3. CASE /\ Put("autostart", BuildTask(Form("repair"))) /\ Goto("repair", "verify")
             /\ UNCHANGED <<lock, command>>
    <3>1. /\ tasks' \in Store /\ tasks'["autostart"] = BuildTask(Fixer.form)
          /\ tasks'["once"] = tasks["once"] /\ tasks'["weekly"] = tasks["weekly"]
      BY <2>1, <2>3, BuildTaskOK, PutAutostart DEF Form, Fixer
    <3>2. Main' = Main /\ job' \in Clerks /\ Fixer'.pc = "verify" /\ Fixer'.form = Fixer.form
      BY <2>3, GotoFixer
    <3>3. Positive => changed = "unseen"
      BY <2>1 DEF IInv, RepairOK
    <3>4. RepairOK'
      BY <2>1, <2>3, <3>1, <3>2, <3>3 DEF RepairOK, Positive, BuildTask
    <3> QED
      BY <2>1, <2>3, <3>1, <3>2, <3>3, <3>4, FixerOK, Types
  <2> QED BY <1>2, <2>2, <2>3 DEF Register
<1> QED BY <1>1, <1>2 DEF Threads

LEMMA VerifyOK ==
  ASSUME IInv, NEW t \in Threads, Verify(t)
  PROVE  IInv'
<1>1. PICK q \in QueryAutostart :
        IF q = [on |-> TRUE, form |-> Form(t)]
        THEN Finish(t, "ok") /\ IF t = "main" THEN Looked ELSE UNCHANGED changed
        ELSE Goto(t, "delete") /\ UNCHANGED <<lock, command, changed>>
  BY DEF Verify
<1>2. CASE t = "main"
  <2>1. /\ Main.pc = "verify" /\ lock = "main"
        /\ UNCHANGED <<tasks, protected, meddled, outside, restarts>>
    BY <1>2, LockHeld DEF Verify, Main
  <2>2. /\ command.op \in {"enable", "form"} /\ command.task = "autostart"
        /\ Main.task = "autostart" /\ command.want \in Forms /\ command.result = "none"
    BY <2>1 DEF IInv, StepOK, PendingOK, CommandOK, OnTask
  <2>3. CASE q = [on |-> TRUE, form |-> Form("main")]
    <3>1. /\ IsOurs(tasks["autostart"], "current")
          /\ tasks["autostart"].arguments = command.want
      BY <2>3, QueryOK DEF Form
    <3>2. Earned("ok")
      BY <2>1, <2>2, <3>1 DEF Earned
    <3>3. Finish("main", "ok") /\ Looked
      BY <1>1, <1>2, <2>3
    <3>4. changed' \in {"no", "seen", "unseen"} /\ (changed' = "no" => changed = "no")
      BY <3>3, Types DEF Looked
    <3> QED
      BY <2>1, <2>2, <3>2, <3>3, <3>4, FinishOK, Types
  <2>4. CASE q # [on |-> TRUE, form |-> Form("main")]
    <3>1. Goto("main", "delete") /\ UNCHANGED <<lock, command, changed>>
      BY <1>1, <1>2, <2>4
    <3>2. /\ Fixer' = Fixer /\ Main'.pc = "delete" /\ Main'.task = "autostart" /\ job' \in Clerks
      BY <2>2, <3>1, GotoMain, GotoMainType, Types DEF MainJob
    <3>3. CommandOK' /\ StepOK' /\ PendingOK' /\ HalfOK'
      BY <2>2, <3>1, <3>2 DEF IInv, CommandOK, StepOK, PendingOK, HalfOK, OnTask
    <3> QED
      BY <2>1, <2>2, <3>1, <3>2, <3>3, MainOK, Types
  <2> QED BY <2>3, <2>4
<1>3. CASE t = "repair"
  <2>1. /\ Fixer.pc = "verify" /\ lock = "repair"
        /\ UNCHANGED <<tasks, protected, meddled, outside, restarts>>
    BY <1>3, LockHeld DEF Verify, Fixer
  <2>2. CASE Finish("repair", "ok") /\ UNCHANGED changed
    BY <2>1, <2>2, FixerDone
  <2>3. CASE Goto("repair", "delete") /\ UNCHANGED <<lock, command, changed>>
    <3>1. Main' = Main /\ job' \in Clerks /\ Fixer'.pc = "delete" /\ Fixer'.form = Fixer.form
      BY <2>3, GotoFixer
    <3>2. RepairOK'
      BY <2>1, <2>3, <3>1 DEF IInv, RepairOK, Positive, BuildTask
    <3> QED
      BY <2>1, <2>3, <3>1, <3>2, FixerOK, Types
  <2> QED BY <1>1, <1>3, <2>2, <2>3
<1> QED BY <1>2, <1>3 DEF Threads

-----------------------------------------------------------------------------
LEMMA CreateOK ==
  ASSUME IInv, Create
  PROVE  IInv'
<1>1. /\ Main.pc = "create" /\ command.op = "register" /\ command.task \in Shutdowns
      /\ Main.task = command.task /\ command.result = "none"
      /\ command.task = "once" => command.want \in OnceTimes
      /\ command.task = "weekly" => command.want \in WeeklyTimes
      /\ UNCHANGED <<protected, changed, meddled, outside, restarts>>
  BY DEF Create, Main, IInv, StepOK, PendingOK, CommandOK
<1>2. CASE Finish("main", "failed") /\ UNCHANGED tasks
  BY <1>1, <1>2, FinishOK, Types DEF Earned
<1>3. CASE /\ Put(command.task, command.want) /\ Goto("main", "check")
           /\ UNCHANGED <<lock, command>>
  <2>1. tasks' \in Store /\ tasks'["autostart"] = tasks["autostart"]
    BY <1>1, <1>3, Types DEF Put, Store, Shutdowns
  <2>2. tasks'[command.task] = command.want
    BY <1>1, <1>3, PutOK DEF Tasks
  <2>3. /\ Fixer' = Fixer /\ Main'.pc = "check" /\ Main'.task = command.task /\ job' \in Clerks
    BY <1>1, <1>3, GotoMain, GotoMainType, Types DEF MainJob
  <2>4. CommandOK' /\ StepOK' /\ PendingOK' /\ HalfOK'
    BY <1>1, <1>3, <2>2, <2>3 DEF IInv, CommandOK, StepOK, PendingOK, HalfOK, OnTask
  <2>5. lock # "main"
    BY <1>1, LockHeld DEF Critical, Main
  <2> QED
    BY <1>1, <1>3, <2>1, <2>3, <2>4, <2>5, MainOK, Types
<1> QED BY <1>2, <1>3 DEF Create

LEMMA LookedOK ==
  ASSUME IInv, Looked
  PROVE  changed' \in {"no", "seen", "unseen"} /\ (changed' = "no" => changed = "no")
  BY Types DEF Looked

LEMMA CheckOK ==
  ASSUME IInv, Check
  PROVE  IInv'
<1>1. /\ Main.pc = "check" /\ command.op = "register" /\ Main.task = command.task
      /\ UNCHANGED <<tasks, protected, meddled, outside, restarts>>
  BY DEF Check, Main, IInv, StepOK
<1>2. PICK e \in TaskExists(command.task) :
        IF e = "yes" THEN Finish("main", "ok") /\ Looked
                     ELSE Finish("main", "failed") /\ UNCHANGED changed
  BY DEF Check
<1>3. CASE e = "yes"
  <2>1. tasks[command.task] # Absent
    BY <1>3 DEF TaskExists
  <2>2. Earned("ok")
    BY <1>1, <2>1 DEF Earned, IInv, HalfOK
  <2> QED
    BY <1>1, <1>2, <1>3, <2>2, LookedOK, FinishOK, Types
<1>4. CASE e # "yes"
  BY <1>1, <1>2, <1>4, FinishOK, Types DEF Earned
<1> QED BY <1>3, <1>4

LEMMA ExistsOK ==
  ASSUME IInv, Exists
  PROVE  IInv'
<1>1. /\ Main.pc = "exists" /\ command.op \in {"disable", "cancel", "cancelAll"}
      /\ UNCHANGED <<tasks, protected, meddled, outside, restarts>>
  BY DEF Exists, Main, IInv, StepOK
<1>2. PICK e \in TaskExists(Main.task) :
        \/ e = "yes" /\ Goto("main", "delete") /\ UNCHANGED <<lock, command, changed>>
        \/ e = "no" /\ Finish("main", "notFound") /\ Looked
        \/ e = "failed" /\ Finish("main", "failed") /\ UNCHANGED changed
  BY DEF Exists, Main
<1>3. CASE e = "yes" /\ Goto("main", "delete") /\ UNCHANGED <<lock, command, changed>>
  <2>1. /\ Fixer' = Fixer /\ Main'.pc = "delete" /\ Main'.task = Main.task /\ job' \in Clerks
    BY <1>3, GotoMain, GotoMainType, Types DEF MainJob
  <2>2. CommandOK' /\ StepOK' /\ PendingOK' /\ HalfOK'
    BY <1>1, <1>3, <2>1 DEF IInv, CommandOK, StepOK, PendingOK, HalfOK, OnTask
  <2>3. command'.result \notin {"ok", "notFound"}
    BY <1>1, <1>3 DEF IInv, PendingOK
  <2>4. Main'.pc \in {"exists", "delete"} /\ Main'.task = "autostart" <=> lock' = "main"
    BY <1>1, <1>3, <2>1, LockHeld DEF Critical, Main
  <2> QED
    BY <1>1, <1>3, <2>1, <2>2, <2>3, <2>4, MainOK, Types
<1>4. CASE e = "no" /\ Finish("main", "notFound") /\ Looked
  <2>1. tasks[Main.task] = Absent
    BY <1>4 DEF TaskExists
  <2>2. Earned("notFound")
    BY <1>1, <2>1 DEF Earned
  <2> QED
    BY <1>1, <1>4, <2>2, LookedOK, FinishOK, Types
<1>5. CASE e = "failed" /\ Finish("main", "failed") /\ UNCHANGED changed
  BY <1>1, <1>5, FinishOK, Types DEF Earned
<1> QED BY <1>2, <1>3, <1>4, <1>5

LEMMA MainDeletes ==
  ASSUME IInv, Delete("main")
  PROVE  IInv'
<1>1. /\ Main.pc = "delete" /\ command.op \in OnTask \cup {"cancel", "cancelAll"}
      /\ Main.task \in Tasks
      /\ IF command.op = "cancelAll" THEN Main.task \in Shutdowns ELSE Main.task = command.task
      /\ command.op \in OnTask => command.task = "autostart"
      /\ command.op = "cancel" => command.task \in Shutdowns
      /\ UNCHANGED <<protected, meddled, outside, restarts>>
  BY Types DEF Delete, Main, IInv, StepOK, CommandOK, MainJob
<1>2. \/ /\ tasks[Main.task] # Absent /\ Put(Main.task, Absent)
         /\ IF Main.task = "autostart"
            THEN Goto("main", "confirm") /\ UNCHANGED <<lock, command, changed>>
            ELSE Finish("main", "ok") /\ Looked
      \/ /\ tasks[Main.task] = Absent
         /\ Finish("main", IF Cleanup("main") THEN "failed" ELSE "notFound")
         /\ Looked /\ UNCHANGED tasks
      \/ Finish("main", "failed") /\ UNCHANGED <<tasks, changed>>
  BY DEF Delete, Main
<1>3. CASE Put(Main.task, Absent) /\ Main.task = "autostart" /\ Goto("main", "confirm")
           /\ UNCHANGED <<lock, command, changed>>
  <2>1. tasks' \in Store /\ tasks'["once"] = tasks["once"]
    BY <1>3, PutAutostart
  <2>2. command.op \in OnTask /\ command.task = "autostart" /\ lock = "main"
    BY <1>1, <1>3, LockHeld DEF Shutdowns
  <2>3. /\ Fixer' = Fixer /\ Main'.pc = "confirm" /\ Main'.task = "autostart" /\ job' \in Clerks
    BY <1>3, GotoMain, GotoMainType, Types DEF MainJob
  <2>4. command.result = "none"
    BY <1>1, <1>3 DEF IInv, PendingOK
  <2>5. CommandOK' /\ StepOK' /\ PendingOK' /\ HalfOK'
    BY <1>3, <2>1, <2>2, <2>3, <2>4 DEF IInv, CommandOK, StepOK, PendingOK, HalfOK, OnTask
  <2> QED
    BY <1>1, <1>3, <2>1, <2>2, <2>3, <2>4, <2>5, MainOK, Types
<1>4. CASE Put(Main.task, Absent) /\ Main.task # "autostart" /\ Finish("main", "ok") /\ Looked
  <2>1. Main.task \in Shutdowns /\ command.op \in {"cancel", "cancelAll"}
    BY <1>1, <1>4 DEF Tasks, OnTask
  <2>2. tasks' \in Store /\ tasks'["autostart"] = tasks["autostart"]
    BY <1>4, <2>1, Types DEF Put, Store, Shutdowns
  <2>3. tasks'[Main.task] = Absent /\ (Main.task # "once" => tasks'["once"] = tasks["once"])
    BY <1>1, <1>4, PutOK DEF Tasks, Shutdowns
  <2>4. Earned("ok")
    BY <2>1, <2>3 DEF Earned
  <2> QED
    BY <1>1, <1>4, <2>2, <2>3, <2>4, LookedOK, FinishOK
<1>5. CASE /\ tasks[Main.task] = Absent
           /\ Finish("main", IF Cleanup("main") THEN "failed" ELSE "notFound")
           /\ Looked /\ UNCHANGED tasks
  <2>1. CASE Cleanup("main")
    <3>1. Finish("main", "failed") /\ changed' \in {"no", "seen", "unseen"}
          /\ (changed' = "no" => changed = "no")
      BY <1>5, <2>1, LookedOK
    <3> QED
      BY <1>1, <1>5, <3>1, FinishOK, Types DEF Earned
  <2>2. CASE ~Cleanup("main")
    <3>1. Finish("main", "notFound")
      BY <1>5, <2>2
    <3>2. Earned("notFound")
      BY <1>1, <1>5, <2>2 DEF Earned, Cleanup, OnTask
    <3> QED
      BY <1>1, <1>5, <3>1, <3>2, LookedOK, FinishOK, Types
  <2> QED BY <2>1, <2>2
<1>6. CASE Finish("main", "failed") /\ UNCHANGED <<tasks, changed>>
  BY <1>1, <1>6, FinishOK, Types DEF Earned
<1> QED BY <1>2, <1>3, <1>4, <1>5, <1>6

LEMMA FixerDeletes ==
  ASSUME IInv, Delete("repair")
  PROVE  IInv'
<1>1. /\ Fixer.pc = "delete" /\ Fixer.task = "autostart" /\ lock = "repair"
      /\ UNCHANGED <<protected, meddled, outside, restarts>>
  BY LockHeld, Types DEF Delete, Fixer, FixerJob
<1>2. \/ /\ Put("autostart", Absent) /\ Goto("repair", "confirm")
         /\ UNCHANGED <<lock, command, changed>>
      \/ Finish("repair", "failed") /\ UNCHANGED <<tasks, changed>>
  BY <1>1 DEF Delete, Cleanup, Fixer
<1>3. CASE /\ Put("autostart", Absent) /\ Goto("repair", "confirm")
           /\ UNCHANGED <<lock, command, changed>>
  <2>1. /\ tasks' \in Store
        /\ tasks'["once"] = tasks["once"] /\ tasks'["weekly"] = tasks["weekly"]
    BY <1>3, PutAutostart
  <2>2. Main' = Main /\ job' \in Clerks /\ Fixer'.pc = "confirm"
    BY <1>3, GotoFixer
  <2>3. Positive => changed = "unseen"
    BY <1>1 DEF IInv, RepairOK
  <2>4. RepairOK'
    BY <1>3, <2>2, <2>3 DEF RepairOK, Positive
  <2> QED
    BY <1>1, <1>3, <2>1, <2>2, <2>3, <2>4, FixerOK, Types
<1>4. CASE Finish("repair", "failed") /\ UNCHANGED <<tasks, changed>>
  BY <1>1, <1>4, FixerDone
<1> QED BY <1>2, <1>3, <1>4

LEMMA ConfirmOK ==
  ASSUME IInv, NEW t \in Threads, Confirm(t)
  PROVE  IInv'
<1>1. CASE t = "main"
  <2>1. /\ Main.pc = "confirm" /\ command.op \in OnTask
        /\ Main.task = "autostart"
        /\ UNCHANGED <<tasks, protected, meddled, outside, restarts>>
    BY <1>1 DEF Confirm, Main, IInv, StepOK, CommandOK, OnTask
  <2>2. CASE tasks["autostart"] = Absent /\ ~Cleanup("main")
    <3>1. Finish("main", "ok") /\ Looked
      BY <1>1, <2>2 DEF Confirm
    <3>2. Earned("ok")
      BY <2>1, <2>2 DEF Earned, Cleanup, OnTask
    <3> QED
      BY <2>1, <3>1, <3>2, LookedOK, FinishOK, Types
  <2>3. CASE ~(tasks["autostart"] = Absent /\ ~Cleanup("main"))
    <3>1. Finish("main", "failed") /\ UNCHANGED changed
      BY <1>1, <2>3 DEF Confirm
    <3> QED
      BY <2>1, <3>1, FinishOK, Types DEF Earned
  <2> QED BY <2>2, <2>3
<1>2. CASE t = "repair"
  <2>1. Fixer.pc = "confirm" /\ UNCHANGED <<tasks, protected, meddled, outside, restarts>>
    BY <1>2 DEF Confirm, Fixer
  <2>2. Finish("repair", "failed") /\ UNCHANGED changed
    BY <1>2 DEF Confirm, Cleanup
  <2> QED
    BY <2>1, <2>2, FixerDone
<1> QED BY <1>1, <1>2 DEF Threads

-----------------------------------------------------------------------------
LEMMA WeeklyShown ==
  ASSUME tasks["weekly"] \in WeeklyTimes, NEW now \in Instants
  PROVE  Weekly(now) \in Shown
<1> DEFINE w == tasks["weekly"]
<1>1. w.days \in SUBSET Weekdays /\ w.minute \in Nat
  BY OsTasksAssumption
<1>2. now \in [day : Nat, minute : Nat]
  BY OsTasksAssumption
<1>3. /\ NextRun(w.days, w.minute, now) \in [day : Int, minute : Nat]
      /\ IsNext(NextRun(w.days, w.minute, now), w.days, w.minute, now)
  BY <1>1, <1>2, NextRunType, NextRunFound
<1>4. Weekly(now) = [days |-> w.days, minute |-> w.minute, now |-> now,
                     next |-> NextRun(w.days, w.minute, now)]
  BY DEF Weekly
<1> HIDE DEF w
<1> QED BY <1>1, <1>2, <1>3, <1>4 DEF Shown

LEMMA AnswerOK ==
  ASSUME IInv, Answer
  PROVE  IInv'
<1>1. \/ tasks["weekly"] # Absent /\ \E now \in Instants : Shows({Weekly(now)})
      \/ Shows({})
  BY DEF Answer
<1>2. /\ Main.pc = "answer" /\ Goto("main", "idle")
      /\ UNCHANGED <<tasks, protected, lock, changed, meddled, outside, restarts>>
  BY DEF Answer, Main
<1>3. ASSUME tasks["weekly"] # Absent, NEW now \in Instants PROVE {Weekly(now)} \in SUBSET Shown
  <2>1. tasks["weekly"] \in WeeklyTimes
    BY <1>3, Types DEF Store
  <2> QED BY <2>1, WeeklyShown
<1>4. PICK shown \in SUBSET Shown : Shows(shown)
  <2>1. {} \in SUBSET Shown
    OBVIOUS
  <2>2. CASE Shows({})
    BY <2>1, <2>2
  <2>3. CASE tasks["weekly"] # Absent /\ \E now \in Instants : Shows({Weekly(now)})
    BY <1>3, <2>3
  <2> QED BY <1>1, <2>2, <2>3
<1>5. /\ command' \in CommandSet /\ command'.op = command.op /\ command'.task = command.task
      /\ command'.want = command.want /\ command'.result = command.result
  BY <1>4, Types DEF CommandSet, Shows
<1>6. /\ Fixer' = Fixer /\ Main'.pc = "idle" /\ job' \in Clerks
  BY <1>2, GotoMain, GotoMainType, Types DEF MainJob
<1>7. lock' # "main" /\ lock' = lock
  BY <1>2, LockHeld DEF Critical, Main
<1>8. TypeOK'
  BY <1>2, <1>5, <1>6, <1>7, TypesBack, Types, LockHeld DEF CommandSet
<1>9. CommandOK' /\ StepOK' /\ PendingOK' /\ HalfOK'
  BY <1>5, <1>6 DEF IInv, CommandOK, StepOK, PendingOK, HalfOK
<1>10. RepairOK'
  BY <1>2, <1>5, <1>6 DEF IInv, RepairOK, Positive, IsOurs, MatchesCurrentExe
<1>11. AnswerStands'
  BY <1>2, <1>5 DEF IInv, AnswerStands, IsOurs, MatchesCurrentExe
<1> QED
  BY <1>8, <1>9, <1>10, <1>11 DEF IInv

-----------------------------------------------------------------------------
(* Somebody else's change is unseen by the command that asked for the task *)
(* and by the repair under way.                                            *)
LEMMA OutsideOK ==
  ASSUME IInv, NEW k \in Tasks, Outside(k)
  PROVE  IInv'
<1>1. PICK d \in Found[k] : Put(k, d)
  BY DEF Outside
<1>2. /\ outside' \in 0..MaxOutside
      /\ changed' = (IF Asked(k) THEN "unseen" ELSE changed)
      /\ meddled' = (meddled \/ k = "autostart")
      /\ UNCHANGED <<protected, job, lock, command, restarts>>
  BY Types DEF Outside
<1>3. tasks'[k] = d /\ \A j \in Tasks : j # k => tasks'[j] = tasks[j]
  BY <1>1, PutOK
<1>4. tasks' \in Store
  <2>1. /\ k = "once" => d \in OnceTimes \cup {Absent}
        /\ k = "weekly" => d \in WeeklyTimes \cup {Absent}
        /\ k = "autostart" => d \in Definition \cup {Absent}
    BY <1>1 DEF Found
  <2>2. CASE k = "once"
    BY <1>1, <2>1, <2>2, Types DEF Put, Store
  <2>3. CASE k = "weekly"
    BY <1>1, <2>1, <2>3, Types DEF Put, Store
  <2>4. CASE k = "autostart"
    BY <1>1, <2>1, <2>4, Types DEF Put, Store
  <2> QED BY <2>2, <2>3, <2>4 DEF Tasks, Shutdowns
<1>5. Main' = Main /\ Fixer' = Fixer /\ changed' \in {"no", "seen", "unseen"}
  BY <1>2, Types DEF Main, Fixer
<1>6. meddled' \in BOOLEAN
  BY <1>2
<1>7. TypeOK'
  BY <1>2, <1>4, <1>5, <1>6 DEF IInv, TypeOK, Critical, Store
<1>8. CommandOK' /\ StepOK' /\ PendingOK'
  BY <1>2, <1>5 DEF IInv, CommandOK, StepOK, PendingOK
<1>9. "once" \in Tasks /\ "weekly" \in Tasks /\ "autostart" \in Tasks
  BY DEF Tasks, Shutdowns
<1>10. HalfOK'
  <2>1. Main.pc = "check" => command.op = "register" /\ command.task \in Tasks
    BY Types DEF IInv, StepOK, CommandSet
  <2>2. changed' = "no" => changed = "no" /\ ~Asked(k)
    BY <1>2
  <2>3. Main.pc = "check" /\ changed' = "no" => k # command.task
    BY <2>1, <2>2 DEF Asked
  <2>4. command.op = "cancelAll" /\ changed' = "no" => k # "once"
    BY <2>2 DEF Asked, Shutdowns
  <2> QED
    BY <1>2, <1>3, <1>5, <1>9, <2>1, <2>2, <2>3, <2>4 DEF IInv, HalfOK
<1>11. RepairOK'
  <2>1. CASE k = "autostart"
    <3>1. meddled'
      BY <1>2, <2>1
    <3>2. Positive => changed' = "unseen" \/ changed' = changed
      BY <1>2
    <3>3. Positive' <=> Positive
      BY <1>2 DEF Positive
    <3>4. Fixer.pc \in {"register", "verify", "delete", "confirm"} /\ Positive => changed' = "unseen"
      BY <3>2 DEF IInv, RepairOK
    <3> QED BY <1>5, <3>1, <3>3, <3>4 DEF RepairOK
  <2>2. CASE k # "autostart"
    <3>1. tasks'["autostart"] = tasks["autostart"]
      BY <1>3, <1>9, <2>2
    <3>2. meddled' <=> meddled
      BY <1>2, <2>2
    <3>3. IsOurs(tasks["autostart"], "legacy")' <=> IsOurs(tasks["autostart"], "legacy")
      BY <1>2, <3>1 DEF IsOurs, MatchesCurrentExe
    <3>4. Positive' <=> Positive
      BY <1>2 DEF Positive
    <3>5. changed = "unseen" => changed' = "unseen"
      BY <1>2
    <3> QED BY <1>5, <3>1, <3>2, <3>3, <3>4, <3>5 DEF IInv, RepairOK
  <2> QED BY <2>1, <2>2
<1>12. AnswerStands'
  <2>1. CASE Asked(k)
    <3>1. changed' = "unseen"
      BY <1>2, <2>1
    <3>2. command'.op \in {"enable", "form", "disable", "read", "cancelAll", "register", "cancel"}
      BY <1>2, Types DEF CommandSet, OnTask
    <3> QED BY <3>1, <3>2 DEF AnswerStands
  <2>2. CASE ~Asked(k)
    <3>1. command.op # "cancelAll" => k # command.task /\ command.task \in Tasks
      BY <2>2, Types DEF Asked, CommandSet
    <3>2. command.op = "cancelAll" => k = "autostart" /\ command.result # "notFound"
      BY <2>2 DEF Asked, Tasks, IInv, CommandOK
    <3>3. changed' = changed
      BY <1>2, <2>2
    <3>4. CASE command.op = "cancelAll"
      BY <1>2, <1>3, <1>9, <3>2, <3>3, <3>4 DEF IInv, AnswerStands, Shutdowns
    <3>5. CASE command.op # "cancelAll"
      <4>1. tasks'[command.task] = tasks[command.task]
        BY <1>3, <3>1, <3>5
      <4> QED
        BY <1>2, <3>3, <3>5, <4>1 DEF IInv, AnswerStands, IsOurs, MatchesCurrentExe
    <3> QED BY <3>4, <3>5
  <2> QED BY <2>1, <2>2
<1> QED
  BY <1>7, <1>8, <1>10, <1>11, <1>12 DEF IInv

-----------------------------------------------------------------------------
(* A start: the main thread is free, the repair is to come or does not run. *)
LEMMA BeginOK ==
  ASSUME job' \in Begin
  PROVE  /\ job' \in Clerks /\ Main'.pc = "idle" /\ Fixer'.pc \in {"lock", "done"}
  BY DEF Begin, Stay, Clerks, MainJob, FixerJob, Main, Fixer, Tasks, Forms

LEMMA RestartOK ==
  ASSUME IInv, Restart
  PROVE  IInv'
<1>1. /\ job' \in Clerks /\ Main'.pc = "idle" /\ Fixer'.pc \in {"lock", "done"}
  BY BeginOK DEF Restart
<1>2. /\ lock' = "none" /\ restarts' \in 0..MaxRestarts
      /\ UNCHANGED <<tasks, protected, changed, meddled, outside>>
  BY Types DEF Restart
<1>3. command' = command \/ Settle("killed")
  BY DEF Restart
<1>4. /\ command' \in CommandSet /\ command'.op = command.op /\ command'.task = command.task
      /\ command'.want = command.want
      /\ command'.result \in {command.result, "killed"}
  <2>1. CASE command' = command
    BY <2>1, Types
  <2>2. CASE Settle("killed")
    BY <2>2, SettleOK DEF Kept, Results
  <2> QED BY <1>3, <2>1, <2>2
<1>5. TypeOK'
  BY <1>1, <1>2, <1>4, TypesBack, Types DEF CommandSet
<1>6. CommandOK' /\ StepOK' /\ PendingOK' /\ HalfOK' /\ RepairOK'
  BY <1>1, <1>4 DEF IInv, CommandOK, StepOK, PendingOK, HalfOK, RepairOK
<1>7. AnswerStands'
  BY <1>2, <1>4 DEF IInv, AnswerStands, IsOurs, MatchesCurrentExe
<1> QED
  BY <1>5, <1>6, <1>7 DEF IInv

LEMMA StutterOK == IInv /\ UNCHANGED vars => IInv'
<1> SUFFICES ASSUME IInv, UNCHANGED vars PROVE IInv'
  OBVIOUS
<1>1. UNCHANGED <<tasks, protected, job, lock, command, changed, meddled, outside, restarts>>
  BY DEF vars
<1>2. TypeOK' /\ CommandOK' /\ StepOK' /\ PendingOK' /\ HalfOK'
  BY <1>1 DEF IInv, TypeOK, Critical, CommandOK, StepOK, PendingOK, HalfOK, Main
<1>3. RepairOK' /\ AnswerStands'
  BY <1>1 DEF IInv, RepairOK, Positive, AnswerStands, IsOurs, MatchesCurrentExe, Fixer
<1> QED BY <1>2, <1>3 DEF IInv

LEMMA InitOK == Init => IInv
<1> SUFFICES ASSUME Init PROVE IInv
  OBVIOUS
<1>1. tasks \in Store
  BY DEF Init, Found, Store
<1>2. job \in Clerks /\ Main.pc = "idle" /\ Fixer.pc \in {"lock", "done"}
  BY DEF Init, Begin, Stay, Clerks, MainJob, FixerJob, Main, Fixer, Tasks, Forms
<1>3. /\ command \in CommandSet /\ command.op = "read" /\ command.task = "autostart"
      /\ command.result = "none"
  BY DEF Init, CommandSet, Tasks, Results
<1>4. lock = "none" /\ ~Critical("main") /\ ~Critical("repair")
  BY <1>2 DEF Init, Critical, Main, Fixer
<1>5. TypeOK
  <2>1. /\ tasks \in Store /\ job \in Clerks /\ lock \in Threads \cup {"none"}
        /\ command.result \in Results /\ changed \in {"no", "seen", "unseen"}
    BY <1>1, <1>2, <1>3, <1>4 DEF Init, CommandSet
  <2>2. protected \in BOOLEAN /\ meddled \in BOOLEAN
    <3>1. protected \in BOOLEAN
      BY Zenon DEF Init
    <3>2. meddled = FALSE
      BY Zenon DEF Init
    <3>3. FALSE \in BOOLEAN
      OBVIOUS
    <3> QED BY ONLY <3>1, <3>2, <3>3, Zenon
  <2>3. outside \in 0..MaxOutside /\ restarts \in 0..MaxRestarts
    BY OsTasksAssumption DEF Init
  <2>4. \A t \in Threads : Critical(t) <=> lock = t
    BY <1>4 DEF Threads
  <2>5. /\ tasks \in Store /\ job \in Clerks
        /\ lock \in Threads \cup {"none"} /\ command.result \in Results
        /\ changed \in {"no", "seen", "unseen"}
        /\ outside \in 0..MaxOutside /\ restarts \in 0..MaxRestarts
        /\ \A t \in Threads : Critical(t) <=> lock = t
    BY <2>1, <2>3, <2>4
  <2> QED
    BY <2>2, <2>5, Zenon DEF TypeOK, Store, Clerks, MainJob, FixerJob
<1>6. CommandOK /\ StepOK /\ PendingOK /\ HalfOK /\ RepairOK /\ AnswerStands
  BY <1>2, <1>3 DEF CommandOK, StepOK, PendingOK, HalfOK, RepairOK, AnswerStands, OnTask
<1> QED BY <1>5, <1>6 DEF IInv

LEMMA StepIsOK == IInv /\ [Next]_vars => IInv'
<1> SUFFICES ASSUME IInv, [Next]_vars PROVE IInv'
  OBVIOUS
<1>1. ASSUME NEW t \in Threads, Delete(t) PROVE IInv'
  BY <1>1, MainDeletes, FixerDeletes DEF Threads
<1>2. ASSUME NEW t \in Threads, TakeLock(t) \/ Register(t) \/ Verify(t) \/ Confirm(t) PROVE IInv'
  BY <1>2, TakeLockOK, RegisterOK, VerifyOK, ConfirmOK
<1> QED
  BY <1>1, <1>2, GiveOK, KeepFormOK, AskOK, InspectOK, CreateOK, CheckOK, ExistsOK, AnswerOK,
     OutsideOK, RestartOK, StutterOK DEF Next

(* The invariant holds in every state.                                     *)
THEOREM Always == Spec => []IInv
  BY InitOK, StepIsOK, PTL DEF Spec

(* Every variable keeps its type, and exactly the holder of the operation  *)
(* lock works on the autostart task.                                       *)
THEOREM TasksTyped == Spec => []TypeOK
<1>1. IInv => TypeOK
  BY DEF IInv
<1> QED BY <1>1, Always, PTL

(* An answer of set_setting, register_shutdown, cancel_shutdown or the     *)
(* tray about a task stands, whatever calls fail, whatever the repair of a *)
(* start does beside it and however often the program is restarted.        *)
THEOREM AnswersStand == Spec => []AnswerStands
<1>1. IInv => AnswerStands
  BY DEF IInv
<1> QED BY <1>1, Always, PTL

(* What the page is shown as the next weekly shutdown is the next one.     *)
THEOREM ShownIsNext == Spec => []NextRunIsNext
<1>1. IInv => NextRunIsNext
  BY DEF IInv, CommandOK, CommandSet, Shown, NextRunIsNext
<1> QED BY <1>1, Always, PTL

(* The repair of a start replaces only the program's own older task, by    *)
(* one that starts the same way, and takes back only what it has           *)
(* registered (repair_legacy_autostart).                                   *)
THEOREM RepairIsCareful == Spec => RepairSpares
<1>1. ASSUME IInv, [Next]_vars, Fixer'.pc # Fixer.pc, lock = "repair", tasks' # tasks
      PROVE  Register("repair") \/ Delete("repair")
  <2>1. ASSUME NEW t \in Threads, Register(t) \/ Delete(t)
        PROVE  Register("repair") \/ Delete("repair")
    <3>1. CASE t = "repair"
      BY <2>1, <3>1
    <3>2. CASE t = "main"
      <4>1. Fixer' = Fixer
        <5>1. CASE Register("main")
          <6>1. Main.pc = "register"
            BY <5>1 DEF Register, Main
          <6> QED BY <1>1, <6>1, LockHeld
        <5>2. CASE Delete("main")
          <6>1. Main.pc = "delete"
            BY <5>2 DEF Delete, Main
          <6>2. \/ \E r \in {"ok", "notFound", "failed"} : Finish("main", r)
                \/ Goto("main", "confirm")
            BY <5>2 DEF Delete
          <6> QED BY <1>1, <6>1, <6>2, FinishMain, GotoMain
        <5> QED BY <2>1, <3>2, <5>1, <5>2
      <4> QED BY <1>1, <4>1
    <3> QED BY <3>1, <3>2 DEF Threads
  <2>2. ASSUME NEW t \in Threads, TakeLock(t) \/ Verify(t) \/ Confirm(t) PROVE FALSE
    <3>1. CASE TakeLock(t) BY <1>1, <3>1 DEF TakeLock
    <3>2. CASE Verify(t) BY <1>1, <3>2 DEF Verify
    <3>3. CASE Confirm(t) BY <1>1, <3>3 DEF Confirm
    <3> QED BY <2>2, <3>1, <3>2, <3>3
  <2>3. CASE Create
    <3>1. Main.pc = "create"
      BY <2>3 DEF Create, Main
    <3>2. Finish("main", "failed") \/ Goto("main", "check")
      BY <2>3 DEF Create
    <3> QED BY <1>1, <3>1, <3>2, FinishMain, GotoMain
  <2> QED
    BY <1>1, <2>1, <2>2, <2>3 DEF Next, Give, KeepForm, AskEnabled, Inspect, Check, Exists, Answer,
                                  Outside, Restart, Fixer, vars
<1>2. ASSUME IInv, Register("repair"), tasks' # tasks
      PROVE  \/ meddled
             \/ /\ IsOurs(tasks["autostart"], "legacy")
                /\ tasks'["autostart"] = BuildTask(tasks["autostart"].arguments)
  <2>1. /\ Fixer.pc = "register" /\ Fixer.form \in Forms
        /\ Put("autostart", BuildTask(Fixer.form))
    BY <1>2, Types DEF Register, Fixer, Form, FixerJob
  <2>2. tasks'["autostart"] = BuildTask(Fixer.form)
    BY <1>2, <2>1, PutAutostart, BuildTaskOK
  <2> QED BY <1>2, <2>1, <2>2 DEF IInv, RepairOK
<1>3. ASSUME IInv, Delete("repair"), tasks' # tasks
      PROVE  \/ meddled
             \/ /\ tasks["autostart"] = BuildTask(Fixer.form)
                /\ tasks'["autostart"] = Absent
  <2>1. Fixer.pc = "delete" /\ Put("autostart", Absent)
    BY <1>3, Types DEF Delete, Fixer, FixerJob
  <2> QED BY <1>3, <2>1, PutAutostart DEF IInv, RepairOK
<1>4. IInv /\ [Next]_vars =>
        [job'["repair"].pc # job["repair"].pc /\ lock = "repair" /\ tasks' # tasks =>
           \/ meddled
           \/ /\ IsOurs(tasks["autostart"], "legacy")
              /\ tasks'["autostart"] = BuildTask(tasks["autostart"].arguments)
           \/ /\ tasks["autostart"] = BuildTask(job["repair"].form)
              /\ tasks'["autostart"] = Absent]_vars
  BY <1>1, <1>2, <1>3 DEF Fixer
<1> QED BY <1>4, Always, PTL DEF Spec, RepairSpares
=============================================================================
