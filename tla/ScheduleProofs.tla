--------------------------- MODULE ScheduleProofs ---------------------------
(***************************************************************************)
(* The schedule rules decide rightly for any length of the day and the     *)
(* week, any rules and any number of them.                                 *)
(***************************************************************************)
EXTENDS ScheduleRules, FiniteSetTheorems, WellFoundedInduction, TLAPS

(* An id names one rule.                                                   *)
DistinctIds == \A r, s \in rules : r.id = s.id => r = s

IInv == TypeOK /\ DistinctIds

LEMMA ConstantsOK ==
  /\ DayLength \in Nat /\ DayLength > 0
  /\ WeekLength \in Nat /\ WeekLength > 0
  /\ LastDay \in Nat /\ MaxId \in Nat
  /\ Dates \subseteq Days /\ 0 \in Days
  /\ Days \subseteq Int /\ Minutes \subseteq Int
  BY ScheduleAssumption DEF Days, Minutes

LEMMA TickOK ==
  ASSUME TypeOK, Tick
  PROVE  day' \in Days /\ minute' \in Minutes
  <1>1. minute \in Int /\ 0 <= minute /\ minute < DayLength /\ day \in Int /\ 0 <= day /\ day <= LastDay
    BY ConstantsOK DEF TypeOK, Minutes, Days
  <1>2. CASE Midnight
    <2>1. (minute + 1) % DayLength = 0
      BY <1>1, <1>2, ConstantsOK DEF Midnight
    <2> QED
      BY <1>1, <1>2, <2>1, ConstantsOK DEF Tick, Days, Minutes
  <1>3. CASE ~Midnight
    <2>1. (minute + 1) % DayLength = minute + 1
      BY <1>1, <1>3, ConstantsOK DEF Midnight
    <2> QED
      BY <1>1, <1>3, <2>1, ConstantsOK DEF Tick, Midnight, Days, Minutes
  <1> QED
    BY <1>2, <1>3

LEMMA Inductive == IInv /\ [Next]_vars => IInv'
  <1> SUFFICES ASSUME IInv, [Next]_vars PROVE IInv'
    OBVIOUS
  <1>1. CASE UNCHANGED vars
    BY <1>1 DEF vars, IInv, TypeOK, DistinctIds
  <1>2. CASE Tick
    BY <1>2, TickOK DEF IInv, TypeOK, DistinctIds, Tick
  <1>3. ASSUME NEW input \in Inputs, NEW id \in 1..(MaxId + 1), AddRule(input, id) PROVE IInv'
    <2> DEFINE new == [id |-> id, active |-> TRUE, kind |-> input.kind,
                       date |-> input.date, start |-> input.start, end |-> input.end]
    <2>1. new \in Rule
      <3>1. id \in 1..MaxId
        BY <1>3, ConstantsOK DEF AddRule, InIdSpace
      <3>2. /\ input.kind \in {"daily", "weekday", "weekend", "date"} /\ input.date \in Days
            /\ input.start \in Minutes /\ input.end \in Minutes
        BY ConstantsOK DEF Inputs
      <3> QED
        BY <3>1, <3>2 DEF Rule
    <2>2. rules' = rules \cup {new} /\ UNCHANGED <<day, minute>>
      BY <1>3 DEF AddRule
    <2>3. \A r \in rules : r.id < id /\ r.id \in Int
      BY <1>3, ConstantsOK DEF AddRule, NextId, Ids, IInv, TypeOK, Rule
    <2>4. DistinctIds'
      <3>1. new.id = id /\ id \in Int
        OBVIOUS
      <3> HIDE DEF new
      <3>2. \A r \in rules : r.id # new.id
        BY <2>3, <3>1
      <3> QED
        BY <2>2, <3>2 DEF IInv, DistinctIds
    <2> QED
      BY <2>1, <2>2, <2>4 DEF IInv, TypeOK
  <1>4. ASSUME NEW id \in 1..MaxId, DeleteRule(id) PROVE IInv'
    BY <1>4 DEF DeleteRule, IInv, TypeOK, DistinctIds
  <1>5. ASSUME NEW r \in rules, ToggleRule(r) PROVE IInv'
    <2>1. Toggled(r) \in Rule /\ Toggled(r).id = r.id
      BY DEF IInv, TypeOK, Rule, Toggled
    <2> QED
      BY <1>5, <2>1 DEF ToggleRule, IInv, TypeOK, DistinctIds
  <1> QED
    BY <1>1, <1>2, <1>3, <1>4, <1>5 DEF Next

LEMMA Invariance == Spec => []IInv
  <1>1. Init => IInv
    BY ConstantsOK DEF Init, IInv, TypeOK, DistinctIds
  <1> QED
    BY <1>1, Inductive, PTL DEF Spec

(* Ids stay within u32 and the clock within its day.                       *)
THEOREM RulesTyped == Spec => []TypeOK
  <1>1. IInv => TypeOK
    BY DEF IInv
  <1> QED
    BY <1>1, Invariance, PTL

-----------------------------------------------------------------------------
(* Spans that begin on other days than today and yesterday do not reach    *)
(* the present minute.                                                     *)
LEMMA OnlyNearDays ==
  ASSUME TypeOK, NEW r \in rules, NEW d \in Int, Covers(r, d)
  PROVE  d \in {day, day - 1}
  <1> DEFINE length == (r.end - r.start) % DayLength
  <1>1. /\ day \in Int /\ minute \in Int /\ 0 <= minute /\ minute < DayLength
        /\ r.start \in Int /\ 0 <= r.start /\ r.start < DayLength
        /\ r.end \in Int /\ 0 <= r.end /\ r.end < DayLength
    BY ConstantsOK DEF TypeOK, Rule, Minutes, Days
  <1>2. length \in Int /\ 0 <= length /\ length < DayLength
    BY <1>1, ConstantsOK
  <1>3. /\ day * DayLength + minute >= d * DayLength + r.start
        /\ day * DayLength + minute < d * DayLength + r.start + length
    BY DEF Covers, Now
  <1> HIDE DEF length
  <1> DEFINE gap == day - d
  <1>4. gap \in Int /\ gap * DayLength = day * DayLength - d * DayLength
    BY <1>1, ConstantsOK
  <1> HIDE DEF gap
  <1>5. gap * DayLength > 0 - DayLength /\ gap * DayLength < 2 * DayLength
    <2>1. day * DayLength \in Int /\ d * DayLength \in Int
      BY <1>1, ConstantsOK
    <2> QED
      BY <1>1, <1>2, <1>3, <1>4, <2>1, ConstantsOK
  <1>6. gap \in {0, 1}
    <2>1. CASE gap <= -1
      <3>1. gap * DayLength <= (0 - 1) * DayLength
        BY <1>4, <2>1, ConstantsOK
      <3> QED
        BY <1>4, <1>5, <3>1, ConstantsOK
    <2>2. CASE gap >= 2
      <3>1. gap * DayLength >= 2 * DayLength
        BY <1>4, <2>2, ConstantsOK
      <3> QED
        BY <1>4, <1>5, <3>1, ConstantsOK
    <2> QED
      BY <1>4, <2>1, <2>2
  <1> QED
    BY <1>1, <1>6 DEF gap

(* What the span of today, and that of yesterday, covers of the present.   *)
LEMMA NearSpans ==
  ASSUME TypeOK, NEW r \in rules
  PROVE  /\ Covers(r, day) <=> IF Overnight(r) THEN minute >= r.start
                                               ELSE minute >= r.start /\ minute < r.end
         /\ Covers(r, day - 1) <=> Overnight(r) /\ minute < r.end
  <1> DEFINE length == (r.end - r.start) % DayLength
  <1>1. /\ day \in Int /\ minute \in Int /\ 0 <= minute /\ minute < DayLength
        /\ r.start \in Int /\ 0 <= r.start /\ r.start < DayLength
        /\ r.end \in Int /\ 0 <= r.end /\ r.end < DayLength
    BY ConstantsOK DEF TypeOK, Rule, Minutes, Days
  <1>2. length = IF Overnight(r) THEN r.end - r.start + DayLength ELSE r.end - r.start
    BY <1>1, ConstantsOK DEF Overnight
  <1>3. /\ day * DayLength \in Int
        /\ (day - 1) * DayLength = day * DayLength - DayLength
    BY <1>1, ConstantsOK
  <1> HIDE DEF length
  <1>4. Covers(r, day) <=> minute >= r.start /\ minute < r.start + length
    BY <1>1, <1>2, <1>3, ConstantsOK DEF Covers, Now, length
  <1>5. Covers(r, day - 1) <=> minute >= r.start - DayLength /\ minute < r.start - DayLength + length
    BY <1>1, <1>2, <1>3, ConstantsOK DEF Covers, Now, length
  <1> QED
    BY <1>1, <1>2, <1>4, <1>5, ConstantsOK DEF Overnight

(* active_rule_at looks at the right day: for every rule and minute, the   *)
(* rule applies exactly in the spans that begin on its own days.           *)
THEOREM NightsAreWhole == Spec => []CoveredExactly
  <1>1. ASSUME TypeOK PROVE CoveredExactly
    <2> SUFFICES ASSUME NEW r \in rules
                 PROVE  Applies(r) <=> \E d \in -1..LastDay : MatchesKind(r, d) /\ Covers(r, d)
      BY DEF CoveredExactly
    <2>1. day \in -1..LastDay /\ day - 1 \in -1..LastDay /\ day \in Int /\ day - 1 \in Int
      BY <1>1, ConstantsOK DEF TypeOK, Days
    <2>2. (\E d \in -1..LastDay : MatchesKind(r, d) /\ Covers(r, d))
            <=> \E d \in {day, day - 1} : MatchesKind(r, d) /\ Covers(r, d)
      BY <1>1, <2>1, OnlyNearDays
    <2>3. /\ minute \in Int /\ r.start \in Int /\ r.end \in Int
      BY <1>1, ConstantsOK DEF TypeOK, Rule
    <2>4. Applies(r) <=> \E d \in {day, day - 1} : MatchesKind(r, d) /\ Covers(r, d)
      <3>1. ~(Covers(r, day) /\ Covers(r, day - 1))
        BY <1>1, <2>3, NearSpans DEF Overnight
      <3>2. InTimeRange(r) <=> Covers(r, day) \/ Covers(r, day - 1)
        BY <1>1, <2>3, NearSpans DEF InTimeRange, Overnight
      <3>3. Covers(r, day) => JudgedDay(r) = day
        BY <1>1, <2>3, NearSpans DEF JudgedDay, Overnight
      <3>4. Covers(r, day - 1) => JudgedDay(r) = day - 1
        BY <1>1, NearSpans DEF JudgedDay
      <3> QED
        BY <3>1, <3>2, <3>3, <3>4 DEF Applies
    <2> QED
      BY <2>2, <2>4
  <1> QED
    BY <1>1, RulesTyped, PTL

-----------------------------------------------------------------------------
LEMMA GreatestExists ==
  ASSUME NEW S \in SUBSET Nat, S # {}, NEW bound \in Nat, \A x \in S : x <= bound
  PROVE  \E g \in S : \A x \in S : x <= g
  <1> DEFINE Less == OpToRel(<, Nat)
             Below == {bound - x : x \in S}
  <1>1. Below \subseteq Nat /\ Below # {}
    <2>1. ASSUME NEW x \in S PROVE bound - x \in Nat
      OBVIOUS
    <2> QED
      BY <2>1
  <1>2. \A x, y \in Nat : <<x, y>> \in Less <=> x < y
    BY DEF OpToRel
  <1>3. IsWellFoundedOn(Less, Nat)
    BY NatLessThanWellFounded
  <1> HIDE DEF Less, Below
  <1>4. PICK least \in Below : \A y \in Below : ~(<<y, least>> \in Less)
    BY <1>1, <1>3, WFMin
  <1>5. PICK g \in S : least = bound - g
    BY DEF Below
  <1>6. \A x \in S : bound - x \in Below
    BY DEF Below
  <1>7. \A x \in S : ~(bound - x < bound - g)
    BY <1>1, <1>2, <1>4, <1>5, <1>6
  <1> QED
    BY <1>5, <1>7

(* Priority and id in one number.                                          *)
Rank(r) == Priority(r) * (MaxId + 1) + r.id

LEMMA RankOrders ==
  ASSUME TypeOK
  PROVE  /\ \A r \in rules : Rank(r) \in Nat /\ Rank(r) <= 4 * (MaxId + 1)
         /\ \A r, s \in rules : Before(r, s) <=> Rank(r) > Rank(s)
  <1>1. \A r \in rules :
          /\ Priority(r) \in {1, 2, 3}
          /\ r.id \in Int /\ 1 <= r.id /\ r.id <= MaxId
    BY ConstantsOK DEF TypeOK, Rule, Priority
  <1>2. MaxId + 1 \in Nat /\ MaxId \in Nat
    BY ConstantsOK
  <1>3. ASSUME NEW r \in rules
        PROVE  /\ Priority(r) = 1 => Rank(r) = MaxId + 1 + r.id
               /\ Priority(r) = 2 => Rank(r) = MaxId + MaxId + 2 + r.id
               /\ Priority(r) = 3 => Rank(r) = MaxId + MaxId + MaxId + 3 + r.id
    BY <1>1, <1>2 DEF Rank
  <1> QED
    BY <1>1, <1>2, <1>3 DEF Before

(* One rule comes before all other candidates.                             *)
LEMMA FirstExists ==
  ASSUME IInv, Candidates # {}
  PROVE  \E r \in rules : InForce(r)
  <1> DEFINE Ranks == {Rank(r) : r \in Candidates}
  <1>1. Candidates \subseteq rules
    BY DEF Candidates
  <1>2. Ranks \in SUBSET Nat /\ Ranks # {} /\ \A x \in Ranks : x <= 4 * (MaxId + 1)
    BY <1>1, RankOrders DEF IInv
  <1>3. 4 * (MaxId + 1) \in Nat
    BY ConstantsOK
  <1>4. PICK g \in Ranks : \A x \in Ranks : x <= g
    BY <1>2, <1>3, GreatestExists
  <1>5. PICK r \in Candidates : g = Rank(r)
    OBVIOUS
  <1>6. \A s \in Candidates : Rank(s) <= Rank(r)
    BY <1>4, <1>5
  <1>7. \A s \in Candidates \ {r} : Rank(s) # Rank(r)
    <2>1. ASSUME NEW s \in Candidates, Rank(s) = Rank(r) PROVE s = r
      <3>1. s \in Rule /\ r \in Rule /\ s \in rules /\ r \in rules
        BY <1>1 DEF IInv, TypeOK
      <3>2. Priority(s) \in {1, 2, 3} /\ Priority(r) \in {1, 2, 3}
        BY <3>1 DEF Rule, Priority
      <3>3. s.id \in 1..MaxId /\ r.id \in 1..MaxId
        BY <3>1 DEF Rule
      <3>4. s.id = r.id
        BY <2>1, <3>2, <3>3, ConstantsOK DEF Rank
      <3> QED
        BY <3>1, <3>4 DEF IInv, DistinctIds
    <2> QED
      BY <2>1
  <1>8. \A s \in Candidates \ {r} : Before(r, s)
    <2> SUFFICES ASSUME NEW s \in Candidates \ {r} PROVE Before(r, s)
      OBVIOUS
    <2>1. r \in rules /\ s \in rules
      BY <1>1
    <2>2. Rank(r) \in Nat /\ Rank(s) \in Nat /\ (Before(r, s) <=> Rank(r) > Rank(s))
      BY <2>1, RankOrders DEF IInv
    <2> QED
      BY <1>6, <1>7, <2>2
  <1> QED
    BY <1>1, <1>8 DEF InForce

LEMMA FirstIsOnly ==
  ASSUME IInv, NEW r \in rules, NEW s \in rules, InForce(r), InForce(s)
  PROVE  r = s
  <1>1. r # s => Before(r, s) /\ Before(s, r)
    BY DEF InForce
  <1>2. Rank(r) \in Nat /\ Rank(s) \in Nat
        /\ (Before(r, s) <=> Rank(r) > Rank(s)) /\ (Before(s, r) <=> Rank(s) > Rank(r))
    BY RankOrders DEF IInv
  <1> QED
    BY <1>1, <1>2

(* Exactly one rule decides whenever any applies, with any number of rules *)
(* added, switched and deleted in any order.                               *)
THEOREM OneRuleDecides == Spec => []OneInForce
  <1>1. ASSUME IInv PROVE OneInForce
    <2> SUFFICES ASSUME Candidates # {}
                 PROVE  Cardinality({r \in rules : InForce(r)}) = 1
      BY DEF OneInForce
    <2>1. PICK r \in rules : InForce(r)
      BY <1>1, FirstExists
    <2>2. {s \in rules : InForce(s)} = {r}
      BY <1>1, <2>1, FirstIsOnly
    <2> QED
      BY <2>2, FS_Singleton
  <1> QED
    BY <1>1, Invariance, PTL

(* A tick that is not the end of a rule's span leaves the rule applying.   *)
LEMMA TickStays ==
  ASSUME TypeOK, Tick, NEW r \in rules, Applies(r), minute' # r.end
  PROVE  Applies(r)'
  <1>1. /\ day \in Int /\ minute \in Int /\ 0 <= minute /\ minute < DayLength
        /\ r.start \in Int /\ 0 <= r.start /\ r.start < DayLength
        /\ r.end \in Int /\ 0 <= r.end /\ r.end < DayLength
    BY ConstantsOK DEF TypeOK, Rule, Minutes, Days
  <1>2. CASE Midnight
    <2>1. minute' = 0 /\ day' = day + 1 /\ minute = DayLength - 1
      <3>1. (minute + 1) % DayLength = 0
        BY <1>1, <1>2, ConstantsOK DEF Midnight
      <3> QED
        BY <1>2, <3>1 DEF Tick, Midnight
    <2>2. InTimeRange(r) /\ minute' # r.end
      BY DEF Applies
    <2>3. Overnight(r) /\ r.end > 0 /\ minute >= r.end
      <3>1. r.end # 0
        BY <2>1, <2>2
      <3>2. minute >= r.end
        BY <1>1, <2>1, ConstantsOK
      <3>3. Overnight(r)
        BY <1>1, <2>2, <3>2 DEF InTimeRange
      <3> QED
        BY <1>1, <3>1, <3>2, <3>3
    <2>4. JudgedDay(r) = day /\ JudgedDay(r)' = day /\ InTimeRange(r)'
      BY <1>1, <2>1, <2>3 DEF JudgedDay, InTimeRange, Overnight
    <2> QED
      BY <2>4 DEF Applies, MatchesKind
  <1>3. CASE ~Midnight
    <2>1. minute' = minute + 1 /\ day' = day
      <3>1. (minute + 1) % DayLength = minute + 1
        BY <1>1, <1>3, ConstantsOK DEF Midnight
      <3> QED
        BY <1>3, <3>1 DEF Tick
    <2>2. JudgedDay(r)' = JudgedDay(r) /\ InTimeRange(r)'
      BY <1>1, <2>1 DEF Applies, JudgedDay, InTimeRange, Overnight
    <2> QED
      BY <2>2 DEF Applies, MatchesKind
  <1> QED
    BY <1>2, <1>3

(* A rule that begins to apply as time passes does so at its start.        *)
LEMMA TickBegins ==
  ASSUME TypeOK, Tick, NEW r \in rules, ~Applies(r), Applies(r)'
  PROVE  r.start = minute'
  <1>1. /\ day \in Int /\ minute \in Int /\ 0 <= minute /\ minute < DayLength
        /\ r.start \in Int /\ 0 <= r.start /\ r.start < DayLength
        /\ r.end \in Int /\ 0 <= r.end /\ r.end < DayLength
    BY ConstantsOK DEF TypeOK, Rule, Minutes, Days
  <1>2. InTimeRange(r)' /\ MatchesKind(r, JudgedDay(r)')
    BY DEF Applies, MatchesKind
  <1>3. SUFFICES ASSUME r.start # minute'
                 PROVE  InTimeRange(r) /\ JudgedDay(r) = JudgedDay(r)'
    BY <1>2 DEF Applies
  <1>4. CASE Midnight
    <2>1. minute' = 0 /\ day' = day + 1 /\ minute = DayLength - 1
      <3>1. (minute + 1) % DayLength = 0
        BY <1>1, <1>4, ConstantsOK DEF Midnight
      <3> QED
        BY <1>4, <3>1 DEF Tick, Midnight
    <2>2. Overnight(r) /\ r.end > 0
      BY <1>1, <1>2, <1>3, <2>1 DEF InTimeRange, Overnight
    <2> QED
      BY <1>1, <2>1, <2>2, ConstantsOK DEF InTimeRange, JudgedDay, Overnight
  <1>5. CASE ~Midnight
    <2>1. minute' = minute + 1 /\ day' = day
      <3>1. (minute + 1) % DayLength = minute + 1
        BY <1>1, <1>5, ConstantsOK DEF Midnight
      <3> QED
        BY <1>5, <3>1 DEF Tick
    <2> QED
      BY <1>1, <1>2, <1>3, <2>1 DEF InTimeRange, JudgedDay, Overnight
  <1> QED
    BY <1>4, <1>5

LEMMA FirstNow == IInv /\ Candidates # {} => \E r \in rules : InForce(r)
  BY FirstExists

LEMMA FirstNext == (IInv /\ Candidates # {} => \E r \in rules : InForce(r))'
  BY FirstNow, PTL

(* The mode of a schedule has no gaps: see HoldsToItsEnd.                  *)
THEOREM HeldToTheEnd == Spec => HoldsToItsEnd
  <1> DEFINE Handover(r) ==
        \/ InForce(r)'
        \/ \E other \in rules : InForce(other)' /\ other.start = minute' /\ Before(other, r)
  <1>1. ASSUME IInv, IInv', [Next]_vars, NEW r \in rules,
               InForce(r), rules' = rules, minute' # r.end
        PROVE  Handover(r)
    <2>1. CASE UNCHANGED <<day, minute>>
      BY <1>1, <2>1 DEF InForce, Candidates, Applies, InTimeRange, JudgedDay, Overnight
    <2>2. CASE Tick
      <3>1. r \in Candidates'
        <4>1. r.active /\ Applies(r)
          BY <1>1 DEF InForce, Candidates
        <4> QED
          BY <1>1, <2>2, <4>1, TickStays DEF IInv, Candidates
      <3>2. PICK first \in rules : InForce(first)'
        BY <1>1, <3>1, FirstNext
      <3>3. CASE first = r
        BY <3>2, <3>3
      <3>4. CASE first # r
        <4>1. Before(first, r)
          BY <3>1, <3>2, <3>4 DEF InForce, Before, Priority
        <4>2. ~Before(r, first)
          <5>1. /\ Rank(r) \in Nat /\ Rank(first) \in Nat
                /\ (Before(r, first) <=> Rank(r) > Rank(first))
                /\ (Before(first, r) <=> Rank(first) > Rank(r))
            BY <1>1, RankOrders DEF IInv
          <5> QED
            BY <4>1, <5>1
        <4>3. ~Applies(first) /\ Applies(first)'
          BY <1>1, <3>2, <3>4, <4>2 DEF InForce, Candidates
        <4>4. first.start = minute'
          BY <1>1, <2>2, <4>3, TickBegins DEF IInv
        <4> QED
          BY <3>2, <4>1, <4>4
      <3> QED
        BY <3>3, <3>4
    <2> QED
      BY <1>1, <2>1, <2>2 DEF Next, vars, AddRule, DeleteRule, ToggleRule
  <1>2. IInv /\ IInv' /\ [Next]_vars =>
          [\A r \in rules : InForce(r) /\ rules' = rules /\ minute' # r.end => Handover(r)]_vars
    BY <1>1
  <1> QED
    BY <1>2, Invariance, PTL DEF Spec, HoldsToItsEnd
=============================================================================
