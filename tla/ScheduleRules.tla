---------------------------- MODULE ScheduleRules ----------------------------
(***************************************************************************)
(* The schedule rules of backend/schedule.rs under a running clock: which  *)
(* rule is in force at a minute, when spans cross midnight, rules overlap  *)
(* and the user adds, switches and deletes rules meanwhile.  A rule's mode *)
(* is left out, a rule stands for it.  The clock never jumps and every day *)
(* has DayLength minutes: no daylight saving time.                         *)
(***************************************************************************)
EXTENDS Integers, FiniteSets

CONSTANTS
  DayLength,     \* minutes of a day
  WeekLength,    \* days of a week; day 0 is a Monday
  Weekend,       \* days of the week that are the weekend
  Dates,         \* days the user writes rules for
  MaxId,         \* u32::MAX
  LastDay,       \* bound: the day the clock stops
  MaxRules       \* bound: rules at one time

ASSUME ScheduleAssumption ==
  /\ DayLength \in Nat \ {0} /\ WeekLength \in Nat \ {0}
  /\ Weekend \subseteq 0..(WeekLength - 1)
  /\ LastDay \in Nat /\ Dates \subseteq 0..LastDay
  /\ MaxId \in Nat /\ MaxRules \in Nat

VARIABLES
  day, minute,   \* the clock
  rules          \* schedules.json

vars == <<day, minute, rules>>

Days == 0..LastDay

Minutes == 0..(DayLength - 1)

(* What the user fills in; only a rule for a date has a date.              *)
Inputs ==
  [kind : {"daily", "weekday", "weekend"}, date : {0}, start : Minutes, end : Minutes]
    \cup [kind : {"date"}, date : Dates, start : Minutes, end : Minutes]

Rule ==
  [id : 1..MaxId, active : BOOLEAN, kind : {"daily", "weekday", "weekend", "date"},
   date : Days, start : Minutes, end : Minutes]

-----------------------------------------------------------------------------
MatchesKind(r, d) ==
  \/ r.kind = "daily"
  \/ r.kind = "weekday" /\ d % WeekLength \notin Weekend
  \/ r.kind = "weekend" /\ d % WeekLength \in Weekend
  \/ r.kind = "date" /\ r.date = d

Overnight(r) == r.start > r.end

(* Fault: the end of the span belongs to it.                               *)
ThroughItsEnd(r) ==
  IF r.start <= r.end THEN minute \in r.start..r.end ELSE minute >= r.start \/ minute <= r.end

InTimeRange(r) ==
  IF Overnight(r) THEN minute >= r.start \/ minute < r.end
                  ELSE minute >= r.start /\ minute < r.end

(* Fault: after midnight the rule is judged by the new day.                *)
ByToday(r) == day

(* The day whose kind decides: yesterday once a night has passed midnight. *)
JudgedDay(r) == IF Overnight(r) /\ minute < r.end THEN day - 1 ELSE day

Applies(r) == InTimeRange(r) /\ MatchesKind(r, JudgedDay(r))

Candidates == {r \in rules : r.active /\ Applies(r)}

Priority(r) ==
  CASE r.kind = "date" -> 3
    [] r.kind \in {"weekday", "weekend"} -> 2
    [] r.kind = "daily" -> 1

Before(r, other) ==
  \/ Priority(r) > Priority(other)
  \/ Priority(r) = Priority(other) /\ r.id > other.id

(* active_rule_at: the first after sorting.                                *)
InForce(r) == r \in Candidates /\ \A other \in Candidates \ {r} : Before(r, other)

-----------------------------------------------------------------------------
Ids == {r.id : r \in rules}

(* Fault: rules are numbered by how many there are.                        *)
NextByCount(id) == id = Cardinality(rules) + 1

NextId(id) ==
  /\ \A used \in Ids : used < id
  /\ id = 1 \/ id - 1 \in Ids

(* Fault: the end of the id space is not noticed.                          *)
NotExhausted(id) == TRUE

(* checked_add: at the end of the id space nothing is added.               *)
InIdSpace(id) == id <= MaxId

(* The three commands load, change and save the file under its lock, which *)
(* ConfigStore shows to be one step; one that fails changes nothing.       *)
AddRule(input, id) ==
  /\ Cardinality(rules) < MaxRules
  /\ NextId(id)
  /\ InIdSpace(id)
  /\ rules' = rules \cup {[id |-> id, active |-> TRUE, kind |-> input.kind,
                           date |-> input.date, start |-> input.start, end |-> input.end]}
  /\ UNCHANGED <<day, minute>>

DeleteRule(id) ==
  /\ id \in Ids
  /\ rules' = {r \in rules : r.id # id}
  /\ UNCHANGED <<day, minute>>

Toggled(r) == [r EXCEPT !.active = ~@]

ToggleRule(r) ==
  /\ rules' = (rules \ {r}) \cup {Toggled(r)}
  /\ UNCHANGED <<day, minute>>

Midnight == minute = DayLength - 1

Tick ==
  /\ ~(Midnight /\ day = LastDay)
  /\ minute' = (minute + 1) % DayLength
  /\ day' = IF Midnight THEN day + 1 ELSE day
  /\ UNCHANGED rules

Init == day = 0 /\ minute \in Minutes /\ rules = {}

Next ==
  \/ Tick
  \/ \E input \in Inputs, id \in 1..(MaxId + 1) : AddRule(input, id)
  \/ \E id \in 1..MaxId : DeleteRule(id)
  \/ \E r \in rules : ToggleRule(r)

Spec == Init /\ [][Next]_vars
-----------------------------------------------------------------------------
(* No id is given out beyond u32, and days and minutes stay in range.      *)
TypeOK == day \in Days /\ minute \in Minutes /\ rules \in SUBSET Rule

(* Minutes since the first day began.                                      *)
Now == day * DayLength + minute

(* The minutes the rule's span of day d covers, wherever it ends.          *)
Covers(r, d) ==
  LET begin == d * DayLength + r.start
  IN  Now >= begin /\ Now < begin + ((r.end - r.start) % DayLength)

(* A rule applies exactly in the spans that begin on its days: a Friday    *)
(* night lasts into Saturday and a Sunday night into Monday, and nothing   *)
(* else does (active_rule_at).                                             *)
CoveredExactly ==
  \A r \in rules : Applies(r) <=> \E d \in -1..LastDay : MatchesKind(r, d) /\ Covers(r, d)

(* Whenever some rule asks for a mode, exactly one rule decides, after any *)
(* adding and deleting of rules: priority and id leave no ties for the     *)
(* sort of active_rule_at to break by the order of the file.               *)
OneInForce ==
  Candidates # {} => Cardinality({r \in rules : InForce(r)}) = 1

(* As time passes, a rule in force gives way only at its own end or to a   *)
(* rule that begins that minute, across midnight too: the worker never     *)
(* sees a gap inside a span, which it would take for the end of the rule.  *)
HoldsToItsEnd ==
  [][\A r \in rules :
       InForce(r) /\ rules' = rules /\ minute' # r.end
         => \/ InForce(r)'
            \/ \E other \in rules : InForce(other)' /\ other.start = minute' /\ Before(other, r)
    ]_vars
=============================================================================
