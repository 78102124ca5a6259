------------------------------- MODULE OsTasks -------------------------------
(***************************************************************************)
(* The three tasks the program keeps in the Windows Task Scheduler: two    *)
(* that shut the computer down, and the autostart at logon.  The commands  *)
(* of the page and the tray's cancel run one after another on the main     *)
(* thread; a second thread repairs, once per start, the autostart task an  *)
(* older version left.  Every call to the scheduler may fail, the program  *)
(* may end between any two calls, and somebody else may change a task.     *)
(***************************************************************************)
EXTENDS WeeklyRun

CONSTANTS
  Absent,        \* no task
  OnceTimes,     \* dates and times a single shutdown is asked for
  WeeklyTimes,   \* [days, minute] a weekly shutdown is asked for
  Autostarts,    \* definitions the autostart task may be found with
  Instants,      \* times of day and week at which the page is answered
  MaxOutside,    \* bound: changes by somebody else
  MaxRestarts    \* bound: restarts of the program

Shutdowns == {"once", "weekly"}

Tasks == Shutdowns \cup {"autostart"}

Threads == {"main", "repair"}

(* What the autostart opens: the window (no argument), or only the tray    *)
(* (--minimized).                                                          *)
Forms == {"window", "minimized"}

(* What of a task's XML the program tells apart.  The fields of the        *)
(* settings are "none" where the XML has no such element; onBattery has    *)
(* the values of the two battery settings; shape is an enabled task with   *)
(* one enabled logon trigger, one program to run and the highest rights.   *)
Definition ==
  [ours : BOOLEAN, arguments : Forms \cup {"other"}, shape : BOOLEAN,
   delay : {"none", "PT30S", "other"}, limit : {"none", "PT0S", "PT72H", "other"},
   restart : {"none", "PT1Mx3", "other"},
   instances : {"none", "IgnoreNew", "Parallel", "Queue", "StopExisting", "other"},
   onBattery : SUBSET {"none", "false", "true", "other"}]

ASSUME OsTasksAssumption ==
  /\ Autostarts \subseteq Definition
  /\ Absent \notin Definition \cup Forms
  /\ \A w \in WeeklyTimes : w.days \in SUBSET Weekdays /\ w.minute \in Nat
  /\ Absent \notin OnceTimes \cup WeeklyTimes
  /\ Irregular \cup Instants \subseteq [day : Nat, minute : Nat]
  /\ MaxOutside \in Nat /\ MaxRestarts \in Nat

VARIABLES
  tasks,       \* the scheduler's store (external)
  protected,   \* this copy of the program lies where only administrators write
  job,         \* per thread: its next step, the task it works on, the form wanted
  lock,        \* AUTOSTART_OPERATION_LOCK: its holder
  command,     \* the last command and its answer
  changed,     \* history: did somebody else change its task since it was given
  meddled,     \* history: the same for the repair
  outside, restarts

vars == <<tasks, protected, job, lock, command, changed, meddled, outside, restarts>>

Commands ==
  [op : {"enable", "disable", "read", "cancelAll"}, task : {"autostart"}, want : {Absent}]
    \cup [op : {"form"}, task : {"autostart"}, want : Forms]
    \cup [op : {"register"}, task : {"once"}, want : OnceTimes]
    \cup [op : {"register"}, task : {"weekly"}, want : WeeklyTimes]
    \cup [op : {"cancel"}, task : Shutdowns, want : {Absent}]

Results == {"none", "ok", "off", "notFound", "failed", "killed"}

-----------------------------------------------------------------------------
(* Reading a definition.                                                   *)
TimingIsCurrent(d) == d.delay = "PT30S" /\ d.limit = "PT0S" /\ d.restart = "PT1Mx3"

RuntimeContract(d) ==
  IF TimingIsCurrent(d) /\ d.onBattery = {"false"} /\ d.instances = "IgnoreNew"
  THEN "current"
  ELSE IF \/ d.delay = "none" /\ d.restart = "none" /\ d.limit \in {"none", "PT72H"}
          \/ /\ TimingIsCurrent(d) /\ d.onBattery \subseteq {"none", "false", "true"}
             /\ d.instances # "other"
       THEN "legacy" ELSE "unknown"

MatchesCurrentExe(d) == protected /\ d.ours /\ d.arguments \in Forms

(* The program's own autostart, of this contract.                          *)
IsOurs(d, contract) ==
  d # Absent /\ d.shape /\ RuntimeContract(d) = contract /\ MatchesCurrentExe(d)

BuildTask(form) ==
  [ours |-> TRUE, arguments |-> form, shape |-> TRUE, delay |-> "PT30S", limit |-> "PT0S",
   restart |-> "PT1Mx3", instances |-> "IgnoreNew", onBattery |-> {"false"}]

(* What query_autostart may answer: a query that fails reads as "off".     *)
Off == [on |-> FALSE, form |-> "window"]

QueryAutostart ==
  {Off} \cup IF IsOurs(tasks["autostart"], "current")
             THEN {[on |-> TRUE, form |-> tasks["autostart"].arguments]} ELSE {}

(* Fault: a failed query means that there is no task.                      *)
TaskExistsByQuery(k) == IF tasks[k] = Absent THEN {"no"} ELSE {"yes", "no"}

(* What task_exists may answer.  Only where the task's file is gone does a *)
(* failed query mean that there is no task.                                *)
TaskExists(k) == IF tasks[k] = Absent THEN {"no", "failed"} ELSE {"yes", "failed"}


-----------------------------------------------------------------------------
(* Parts of the steps.                                                     *)
Stay == [pc |-> "idle", task |-> "autostart", form |-> "window"]

Goto(t, pc) == job' = [job EXCEPT ![t].pc = pc]

Put(k, d) == tasks' = [tasks EXCEPT ![k] = d]

(* Fault: the repaired task always opens the window.                       *)
FormOrWindow(t) == IF t = "main" THEN command.want ELSE "window"

Form(t) == IF t = "main" THEN command.want ELSE job[t].form

(* The program has looked at the task after the last change to it.         *)
Looked == changed' = IF changed = "unseen" THEN "seen" ELSE changed

(* Fault: a command does not wait for the repair.                          *)
NotHeldByCommand == lock # "main"

LockFree == lock = "none"


Settle(r) == command' = [command EXCEPT !.result = r]

(* A thread is through with its task: the lock is let go, the repair only  *)
(* logs, a command of the settings is answered, the tray goes on to the    *)
(* weekly task whatever became of the other, and a command for a shutdown  *)
(* reads the tasks for its answer.                                         *)
Finish(t, r) ==
  /\ lock' = IF lock = t THEN "none" ELSE lock
  /\ \/ /\ t = "repair" /\ Goto(t, "done")
        /\ UNCHANGED command
     \/ /\ t = "main" /\ command.op = "cancelAll" /\ job[t].task = "once"
        /\ job' = [job EXCEPT ![t].task = "weekly", ![t].pc = "exists"]
        /\ IF r = "failed" THEN Settle(r) ELSE UNCHANGED command
     \/ /\ t = "main" /\ command.op = "cancelAll" /\ job[t].task = "weekly"
        /\ Goto(t, "idle")
        /\ Settle(IF "failed" \in {r, command.result} THEN "failed" ELSE "ok")
     \/ /\ t = "main" /\ command.op # "cancelAll"
        /\ Goto(t, IF command.task \in Shutdowns THEN "answer" ELSE "idle")
        /\ Settle(r)

(* Deleting only takes back a registration that could not be verified.     *)
Cleanup(t) == t = "repair" \/ command.op \in {"enable", "form"}

-----------------------------------------------------------------------------
(* A command arrives at the main thread.                                   *)
FirstStep(op) ==
  CASE op = "enable" -> "form" [] op = "form" -> "ask" [] op = "disable" -> "lock"
    [] op = "register" -> "create" [] op = "read" -> "answer" [] OTHER -> "exists"

Give(c) ==
  /\ job["main"].pc = "idle"
  /\ command' = [op |-> c.op, task |-> c.task, want |-> c.want, result |-> "none", shown |-> {}]
  /\ job' = [job EXCEPT !["main"] = [pc |-> FirstStep(c.op), form |-> "window",
               task |-> IF c.op = "cancelAll" THEN "once" ELSE c.task]]
  /\ changed' = "no"
  /\ UNCHANGED <<tasks, protected, lock, meddled, outside, restarts>>

(* Switching the autostart on keeps the form it is found with, and         *)
(* changing the form is for an autostart that is on.  Neither holds the    *)
(* lock yet.                                                               *)
KeepForm ==
  /\ job["main"].pc = "form"
  /\ \E q \in QueryAutostart : command' = [command EXCEPT !.want = q.form]
  /\ Goto("main", "lock")
  /\ UNCHANGED <<tasks, protected, lock, changed, meddled, outside, restarts>>

AskEnabled ==
  /\ job["main"].pc = "ask"
  /\ \E q \in QueryAutostart :
       IF q.on THEN Goto("main", "lock") /\ UNCHANGED command
               ELSE Goto("main", "idle") /\ Settle("off")
  /\ UNCHANGED <<tasks, protected, lock, changed, meddled, outside, restarts>>

TakeLock(t) ==
  /\ job[t].pc = "lock" /\ LockFree
  /\ lock' = t
  /\ Goto(t, IF t = "repair" THEN "inspect"
             ELSE IF command.op = "disable" THEN "exists" ELSE "register")
  /\ meddled' = IF t = "repair" THEN FALSE ELSE meddled
  /\ UNCHANGED <<tasks, protected, command, changed, outside, restarts>>

(* The repair: a task that is not the program's own of an older version,   *)
(* and one it cannot read, it leaves alone.                                *)
Inspect ==
  /\ job["repair"].pc = "inspect"
  /\ \/ /\ IsOurs(tasks["autostart"], "legacy")
        /\ job' = [job EXCEPT !["repair"].pc = "register",
                              !["repair"].form = tasks["autostart"].arguments]
        /\ UNCHANGED <<lock, command>>
     \/ Finish("repair", "ok")
  /\ UNCHANGED <<tasks, protected, changed, meddled, outside, restarts>>

(* RegisterTask replaces a task of that name, whatever it is.              *)
Register(t) ==
  /\ job[t].pc = "register"
  /\ \/ /\ protected /\ Put("autostart", BuildTask(Form(t))) /\ Goto(t, "verify")
        /\ UNCHANGED <<lock, command>>
     \/ Finish(t, "failed") /\ UNCHANGED tasks
  /\ UNCHANGED <<protected, changed, meddled, outside, restarts>>

Verify(t) ==
  /\ job[t].pc = "verify"
  /\ \E q \in QueryAutostart :
       IF q = [on |-> TRUE, form |-> Form(t)]
       THEN Finish(t, "ok") /\ IF t = "main" THEN Looked ELSE UNCHANGED changed
       ELSE Goto(t, "delete") /\ UNCHANGED <<lock, command, changed>>
  /\ UNCHANGED <<tasks, protected, meddled, outside, restarts>>

(* schtasks /create /f for a shutdown, and the look whether it is there.   *)
(* No date, time or day of the week that cannot be is ever registered.     *)
Create ==
  /\ job["main"].pc = "create"
  /\ \/ /\ command.task = "weekly" => command.want.days # {}
        /\ Put(command.task, command.want) /\ Goto("main", "check")
        /\ UNCHANGED <<lock, command>>
     \/ Finish("main", "failed") /\ UNCHANGED tasks
  /\ UNCHANGED <<protected, changed, meddled, outside, restarts>>

Check ==
  /\ job["main"].pc = "check"
  /\ \E e \in TaskExists(command.task) :
       IF e = "yes" THEN Finish("main", "ok") /\ Looked
                    ELSE Finish("main", "failed") /\ UNCHANGED changed
  /\ UNCHANGED <<tasks, protected, meddled, outside, restarts>>

(* Taking a task away, of either kind: only one that is there.             *)
Exists ==
  /\ job["main"].pc = "exists"
  /\ \E e \in TaskExists(job["main"].task) :
       \/ e = "yes" /\ Goto("main", "delete") /\ UNCHANGED <<lock, command, changed>>
       \/ e = "no" /\ Finish("main", "notFound") /\ Looked
       \/ e = "failed" /\ Finish("main", "failed") /\ UNCHANGED changed
  /\ UNCHANGED <<tasks, protected, meddled, outside, restarts>>

Delete(t) ==
  /\ job[t].pc = "delete"
  /\ LET k == job[t].task IN
     \/ /\ tasks[k] # Absent /\ Put(k, Absent)
        /\ IF k = "autostart" THEN Goto(t, "confirm") /\ UNCHANGED <<lock, command, changed>>
                              ELSE Finish(t, "ok") /\ Looked
     \/ /\ tasks[k] = Absent
        /\ Finish(t, IF Cleanup(t) THEN "failed" ELSE "notFound")
        /\ IF t = "main" THEN Looked ELSE UNCHANGED changed
        /\ UNCHANGED tasks
     \/ Finish(t, "failed") /\ UNCHANGED <<tasks, changed>>
  /\ UNCHANGED <<protected, meddled, outside, restarts>>

(* A failed query and no file: only then is the autostart gone.            *)
Confirm(t) ==
  /\ job[t].pc = "confirm"
  /\ IF tasks["autostart"] = Absent /\ ~Cleanup(t)
     THEN Finish(t, "ok") /\ Looked
     ELSE Finish(t, "failed") /\ UNCHANGED changed
  /\ UNCHANGED <<tasks, protected, meddled, outside, restarts>>

(* The weekly task as the answer of a command for a shutdown shows it; it  *)
(* shows none if the task cannot be read.                                  *)
Weekly(now) ==
  LET w == tasks["weekly"]
  IN  [days |-> w.days, minute |-> w.minute, now |-> now,
       next |-> NextRun(w.days, w.minute, now)]

Shows(set) == command' = [command EXCEPT !.shown = set]

Answer ==
  /\ job["main"].pc = "answer"
  /\ \/ tasks["weekly"] # Absent /\ \E now \in Instants : Shows({Weekly(now)})
     \/ Shows({})
  /\ Goto("main", "idle")
  /\ UNCHANGED <<tasks, protected, lock, changed, meddled, outside, restarts>>

-----------------------------------------------------------------------------
(* Somebody else changes a task: the Task Scheduler's window, the          *)
(* uninstaller.                                                            *)
Found ==
  [once |-> OnceTimes \cup {Absent}, weekly |-> {w \in WeeklyTimes : w.days # {}} \cup {Absent},
   autostart |-> Autostarts \cup {Absent}]

Asked(k) == k \in IF command.op = "cancelAll" THEN Shutdowns ELSE {command.task}

Outside(k) ==
  /\ outside < MaxOutside /\ outside' = outside + 1
  /\ \E d \in Found[k] : d # tasks[k] /\ Put(k, d)
  /\ changed' = IF Asked(k) THEN "unseen" ELSE changed
  /\ meddled' = (meddled \/ k = "autostart")
  /\ UNCHANGED <<protected, job, lock, command, restarts>>

(* The program ends, by itself or with the computer, and starts again.  A  *)
(* command in work is not answered; without a tray there is no repair.     *)
Begin == {[main |-> Stay, repair |-> [Stay EXCEPT !.pc = pc]] : pc \in {"lock", "done"}}

Restart ==
  /\ restarts < MaxRestarts /\ restarts' = restarts + 1
  /\ job' \in Begin
  /\ lock' = "none"
  /\ IF job["main"].pc = "idle" THEN UNCHANGED command ELSE Settle("killed")
  /\ UNCHANGED <<tasks, protected, changed, meddled, outside>>

Init ==
  /\ tasks \in [once : Found.once, weekly : Found.weekly, autostart : Found.autostart]
  /\ protected \in BOOLEAN
  /\ job \in Begin
  /\ lock = "none"
  /\ command = [op |-> "read", task |-> "autostart", want |-> Absent, result |-> "none", shown |-> {}]
  /\ changed = "no" /\ meddled = FALSE
  /\ outside = 0 /\ restarts = 0

Next ==
  \/ \E c \in Commands : Give(c)
  \/ KeepForm \/ AskEnabled \/ Inspect \/ Create \/ Check \/ Exists \/ Answer
  \/ \E t \in Threads : TakeLock(t) \/ Register(t) \/ Verify(t) \/ Delete(t) \/ Confirm(t)
  \/ \E k \in Tasks : Outside(k)
  \/ Restart

Spec == Init /\ [][Next]_vars

-----------------------------------------------------------------------------
(* Type correctness: what is stored, what each thread is doing, and that   *)
(* exactly the holder of the lock is where the autostart task is worked    *)
(* on.                                                                     *)
Critical(t) ==
  \/ job[t].pc \in {"inspect", "register", "verify", "confirm"}
  \/ job[t].pc \in {"exists", "delete"} /\ job[t].task = "autostart"

TypeOK ==
  /\ tasks \in [once : OnceTimes \cup {Absent}, weekly : WeeklyTimes \cup {Absent},
                autostart : Definition \cup {Absent}]
  /\ protected \in BOOLEAN
  /\ job \in [main : [pc : {"idle", "form", "ask", "lock", "register", "verify", "create", "check",
                            "exists", "delete", "confirm", "answer"},
                      task : Tasks, form : Forms],
              repair : [pc : {"lock", "inspect", "register", "verify", "delete", "confirm", "done"},
                        task : {"autostart"}, form : Forms]]
  /\ lock \in Threads \cup {"none"}
  /\ \A t \in Threads : Critical(t) <=> lock = t
  /\ command.result \in Results
  /\ changed \in {"no", "seen", "unseen"} /\ meddled \in BOOLEAN
  /\ outside \in 0..MaxOutside /\ restarts \in 0..MaxRestarts

(* What the program answered about a task stands until a new command or    *)
(* somebody else changes it: a failing scheduler, the repair of a start    *)
(* and a restart of the program do not falsify it.  A change made by       *)
(* somebody else during the command is noticed for the autostart, for what *)
(* was cancelled, and as far as a shutdown that was registered is missing. *)
(* The answers are those of set_setting, register_shutdown,                *)
(* cancel_shutdown and of the tray's cancel.                               *)
AnswerStands ==
  LET k == command.task
      noticed == changed # "unseen"
      gone == \/ command.result = "notFound"
              \/ command.op \in {"disable", "cancel"} /\ command.result = "ok"
  IN  /\ gone /\ noticed => tasks[k] = Absent
      /\ command.result = "ok" =>
           /\ command.op \in {"enable", "form"} /\ noticed =>
                IsOurs(tasks[k], "current") /\ tasks[k].arguments = command.want
           /\ command.op = "register" =>
                (noticed => tasks[k] # Absent) /\ (changed = "no" => tasks[k] = command.want)
           /\ command.op = "cancelAll" /\ changed = "no" =>
                \A s \in Shutdowns : tasks[s] = Absent

(* Unless somebody else changed the task while it ran, the repair of a     *)
(* start (repair_legacy_autostart) only ever replaces the program's own    *)
(* task of an older version by the current one that starts the same way,   *)
(* or takes back what it has itself registered; a command the user gives   *)
(* meanwhile is not undone.                                                *)
RepairSpares ==
  [][job'["repair"].pc # job["repair"].pc /\ lock = "repair" /\ tasks' # tasks =>
       \/ meddled
       \/ /\ IsOurs(tasks["autostart"], "legacy")
          /\ tasks'["autostart"] = BuildTask(tasks["autostart"].arguments)
       \/ /\ tasks["autostart"] = BuildTask(job["repair"].form)
          /\ tasks'["autostart"] = Absent]_vars

(* The next weekly shutdown the page is told of is the next one there is.  *)
NextRunIsNext ==
  \A s \in command.shown : IsNext(s.next, s.days, s.minute, s.now)
=============================================================================
