--------------------------- MODULE FpsSessionProofs --------------------------
(***************************************************************************)
(* The session that is sampled lives, and a live trace is in exactly one   *)
(* place, for any number of polls, stops, games, failures and crashes.     *)
(***************************************************************************)
EXTENDS FpsSession, FiniteSetTheorems, TLAPS

(* What a poll holds at its stage.                                         *)
StageOK(p) ==
  /\ polls[p].at \in {"idle", "observed"} => polls[p].claim = NoClaim /\ polls[p].session = NoSession
  /\ polls[p].at = "starting" => polls[p].session = NoSession
  /\ polls[p].at \in {"starting", "publishing"} => polls[p].claim # NoClaim

(* The last claim is the one the runtime waits for, and no other is.       *)
ClaimOK(p) ==
  /\ polls[p].claim <= claims
  /\ polls[p].claim # NoClaim =>
       /\ polls[p].generation <= runtime.generation
       /\ ClaimIsCurrent(p) => StartIsAwaited(p) /\ runtime.session = NoSession
       /\ StartIsAwaited(p) => ClaimIsCurrent(p)

(* A session a poll holds is of the past or the live one; the one it is    *)
(* about to publish is the live one, unless the claim was superseded.      *)
SessionOK(p) ==
  /\ polls[p].session <= owner.generation
  /\ polls[p].session = owner.generation /\ polls[p].session # NoSession => owner.live
  /\ polls[p].at = "publishing" /\ ClaimIsCurrent(p) /\ polls[p].session # NoSession =>
       polls[p].session = owner.generation /\ trace = polls[p].pid

ClaimsDiffer ==
  \A p, q \in Pollers : polls[p].claim # NoClaim /\ polls[p].claim = polls[q].claim => p = q

DetachedOK ==
  \A s \in detached : s <= owner.generation /\ (s = owner.generation => owner.live)

ByRuntime == runtime.session = owner.generation

ByStop == owner.generation \in detached

ByPoll(p) == polls[p].session = owner.generation

(* Holders, place by place.                                                *)
HeldOnce ==
  owner.live =>
    /\ owner.generation # NoSession
    /\ ByRuntime \/ ByStop \/ \E p \in Pollers : ByPoll(p)
    /\ ~(ByRuntime /\ ByStop)
    /\ \A p \in Pollers : ByPoll(p) =>
         ~ByRuntime /\ ~ByStop /\ \A q \in Pollers : ByPoll(q) => q = p

IInv ==
  /\ TypeOK /\ SampledSessionLives /\ HeldOnce /\ DetachedOK /\ ClaimsDiffer
  /\ \A p \in Pollers : StageOK(p) /\ ClaimOK(p) /\ SessionOK(p)

USE FpsAssumption

-----------------------------------------------------------------------------
(* How a step that moves a poll leaves it, and the others.                 *)
LEMMA MoveOK ==
  ASSUME TypeOK, NEW p \in Pollers, NEW x \in Poll, Move(p, x)
  PROVE  /\ polls' \in [Pollers -> Poll] /\ polls'[p] = x
         /\ \A q \in Pollers : q # p => polls'[q] = polls[q]
  BY DEF TypeOK, Move

LEMMA IdleOK == Idle \in Poll
  BY DEF Idle, Poll, NoClaim, NoSession

LEMMA InitOK == Init => IInv
  <1> SUFFICES ASSUME Init PROVE IInv
    OBVIOUS
  <1>1. TypeOK
    <2>1. runtime \in Runtime /\ owner \in [generation : Nat, live : BOOLEAN]
      BY DEF Init, NewRuntime, Runtime, NoSession
    <2>2. polls \in [Pollers -> Poll]
      BY IdleOK DEF Init
    <2>3. viewing \in BOOLEAN /\ detached \subseteq Nat \ {NoSession}
      BY DEF Init
    <2>4. {game, launches, visits, trace, claims, stops, failures, crashes} \subseteq Nat /\ game <= launches
      BY DEF Init
    <2> QED
      BY <2>1, <2>2, <2>3, <2>4 DEF TypeOK
  <1>2. \A p \in Pollers : polls[p] = Idle
    BY DEF Init
  <1>3. \A p \in Pollers : StageOK(p) /\ ClaimOK(p) /\ SessionOK(p)
    BY <1>2 DEF Init, StageOK, ClaimOK, SessionOK, Idle, NewRuntime, NoClaim, NoSession
  <1>4. SampledSessionLives /\ HeldOnce /\ DetachedOK /\ ClaimsDiffer
    BY <1>2 DEF Init, SampledSessionLives, HeldOnce, DetachedOK, ClaimsDiffer, Idle, NewRuntime, NoClaim, NoSession
  <1> QED
    BY <1>1, <1>3, <1>4 DEF IInv

(* A step of which neither the owner nor the runtime's claim and session   *)
(* takes notice, and in which no poll's claim or session appears.          *)
LEMMA QuietOK ==
  ASSUME IInv, TypeOK',
         UNCHANGED <<runtime.pid, runtime.starting, runtime.generation, runtime.session>>,
         UNCHANGED <<trace, claims, owner, detached>>,
         \A p \in Pollers :
           /\ StageOK(p)'
           /\ polls'[p].session = polls[p].session
           /\ polls'[p].claim # NoClaim =>
                /\ polls'[p].claim = polls[p].claim
                /\ polls'[p].pid = polls[p].pid /\ polls'[p].generation = polls[p].generation
           /\ polls'[p].at = "publishing" => polls[p].at = "publishing" \/ polls[p].session = NoSession
  PROVE  IInv'
  <1>1. \A p \in Pollers : ClaimOK(p)'
    BY DEF IInv, TypeOK, ClaimOK, ClaimIsCurrent, StartIsAwaited, NoClaim
  <1>2. \A p \in Pollers : SessionOK(p)'
    <2> TAKE p \in Pollers
    <2>1. polls'[p].at = "publishing" => polls'[p].claim # NoClaim
      BY DEF StageOK
    <2> QED
      BY <2>1 DEF IInv, SessionOK, ClaimIsCurrent
  <1>3. SampledSessionLives' /\ HeldOnce' /\ DetachedOK' /\ ClaimsDiffer'
    BY DEF IInv, SampledSessionLives, HeldOnce, DetachedOK, ClaimsDiffer, ByRuntime, ByStop, ByPoll
  <1> QED
    BY <1>1, <1>2, <1>3 DEF IInv

(* A quiet step of one poll.                                               *)
LEMMA QuietMoveOK ==
  ASSUME IInv, NEW p \in Pollers, NEW x \in Poll, Move(p, x),
         UNCHANGED <<world, runtime, trace, claims, owner, stops, detached, budget>>,
         x.at \in {"idle", "observed"} => x.claim = NoClaim /\ x.session = NoSession,
         x.at = "starting" => x.session = NoSession,
         x.at \in {"starting", "publishing"} => x.claim # NoClaim,
         x.session = polls[p].session,
         x.claim # NoClaim =>
           x.claim = polls[p].claim /\ x.pid = polls[p].pid /\ x.generation = polls[p].generation,
         x.at = "publishing" => polls[p].at = "publishing" \/ polls[p].session = NoSession
  PROVE  IInv'
  <1>1. /\ polls' \in [Pollers -> Poll] /\ polls'[p] = x
        /\ \A q \in Pollers : q # p => polls'[q] = polls[q]
    BY MoveOK DEF IInv
  <1>2. TypeOK'
    BY <1>1 DEF IInv, TypeOK, world, budget
  <1>3. \A q \in Pollers : StageOK(q)'
    BY <1>1 DEF IInv, StageOK
  <1>4. \A q \in Pollers :
          /\ polls'[q].session = polls[q].session
          /\ polls'[q].claim # NoClaim =>
               /\ polls'[q].claim = polls[q].claim
               /\ polls'[q].pid = polls[q].pid /\ polls'[q].generation = polls[q].generation
          /\ polls'[q].at = "publishing" => polls[q].at = "publishing" \/ polls[q].session = NoSession
    BY <1>1
  <1> QED
    BY <1>2, <1>3, <1>4, QuietOK

LEMMA PollOK ==
  ASSUME IInv, NEW p \in Pollers
  PROVE  /\ polls[p] \in Poll /\ StageOK(p) /\ ClaimOK(p) /\ SessionOK(p)
         /\ runtime \in Runtime /\ claims \in Nat /\ game \in Nat /\ trace \in Nat
         /\ owner \in [generation : Nat, live : BOOLEAN]
  BY DEF IInv, TypeOK

LEMMA ObserveOK ==
  ASSUME IInv, NEW p \in Pollers, Observe(p)
  PROVE  IInv'
  <1> DEFINE x == [Idle EXCEPT !.at = "observed", !.pid = game]
  <1>1. /\ x \in Poll /\ x.at = "observed" /\ x.claim = NoClaim /\ x.session = NoSession
    BY PollOK DEF Idle, Poll, NoClaim, NoSession
  <1>2. Move(p, x) /\ polls[p].session = NoSession
    BY PollOK DEF Observe, StageOK
  <1> HIDE DEF x
  <1> QED
    BY <1>1, <1>2, QuietMoveOK DEF Observe

LEMMA SampleOK ==
  ASSUME IInv, NEW p \in Pollers, Sample(p)
  PROVE  IInv'
  <1>1. Idle.at = "idle" /\ Idle.claim = NoClaim /\ Idle.session = NoSession
    BY DEF Idle
  <1>2. polls[p].session = NoSession
    BY PollOK DEF Sample, StageOK
  <1> QED
    BY <1>1, <1>2, IdleOK, QuietMoveOK DEF Sample

LEMMA StaleOK ==
  ASSUME IInv, NEW p \in Pollers, StartIsStale(p)
  PROVE  IInv'
  <1> DEFINE x == [polls[p] EXCEPT !.at = "publishing"]
  <1>1. /\ x \in Poll /\ x.at = "publishing" /\ x.claim = polls[p].claim
        /\ x.session = polls[p].session /\ x.pid = polls[p].pid /\ x.generation = polls[p].generation
    BY PollOK DEF Poll
  <1>2. Move(p, x) /\ polls[p].session = NoSession /\ polls[p].claim # NoClaim
    BY PollOK DEF StartIsStale, StageOK
  <1> HIDE DEF x
  <1> QED
    BY <1>1, <1>2, QuietMoveOK DEF StartIsStale

LEMMA TooLateOK ==
  ASSUME IInv, NEW p \in Pollers, PublishTooLate(p)
  PROVE  IInv'
  <1> DEFINE x == DropLate(p)
  <1>1. x \in Poll /\ x.at = "dropping" /\ x.claim = NoClaim /\ x.session = polls[p].session
    BY PollOK DEF DropLate, Idle, Poll, NoClaim, NoSession
  <1>2. Move(p, x)
    BY DEF PublishTooLate
  <1> HIDE DEF x
  <1> QED
    BY <1>1, <1>2, QuietMoveOK DEF PublishTooLate

(* The tab, the game, and the end of a pause after a failed start.         *)
LEMMA AsideOK ==
  ASSUME IInv, OpenTab \/ LeaveTab \/ GameStarts \/ GameExits \/ RetryExpires
  PROVE  IInv'
  <1>1. UNCHANGED <<trace, claims, owner, detached, polls, budget>>
    BY DEF OpenTab, LeaveTab, GameStarts, GameExits, RetryExpires
  <1>2. /\ runtime' \in Runtime
        /\ UNCHANGED <<runtime.pid, runtime.starting, runtime.generation, runtime.session>>
    BY DEF IInv, TypeOK, OpenTab, LeaveTab, GameStarts, GameExits, RetryExpires, Runtime, Unblocked
  <1>3. /\ game' \in Nat /\ launches' \in Nat /\ game' <= launches'
        /\ visits' \in Nat /\ stops' \in Nat
    BY DEF IInv, TypeOK, OpenTab, LeaveTab, GameStarts, GameExits, RetryExpires, world
  <1>4. viewing' \in BOOLEAN
    BY DEF IInv, TypeOK, OpenTab, LeaveTab, GameStarts, GameExits, RetryExpires, world
  <1>5. TypeOK'
    BY <1>1, <1>2, <1>3, <1>4 DEF IInv, TypeOK, budget
  <1>6. \A p \in Pollers : StageOK(p)'
    BY <1>1 DEF IInv, StageOK
  <1> QED
    BY <1>1, <1>2, <1>5, <1>6, QuietOK

-----------------------------------------------------------------------------
(* Takes what the runtime holds into the hands of a poll, or nothing.      *)
LEMMA ClaimStepOK ==
  ASSUME IInv, NEW p \in Pollers, Claim(p)
  PROVE  IInv'
  <1> DEFINE pid == polls[p].pid
             generation == runtime.generation + 1
             x == [at |-> "dropping", pid |-> pid, claim |-> claims + 1,
                   generation |-> generation, session |-> runtime.session]
             y == [pid |-> pid, starting |-> TRUE, generation |-> generation,
                   retry |-> 0, session |-> NoSession]
  <1>1. /\ Move(p, x) /\ claims' = claims + 1 /\ runtime' = y
        /\ UNCHANGED <<world, trace, owner, stops, detached, budget>>
        /\ polls[p].session = NoSession /\ polls[p].claim = NoClaim
    BY PollOK DEF Claim, StageOK
  <1>2. /\ x \in Poll /\ x.at = "dropping" /\ x.claim = claims + 1 /\ x.pid = pid
        /\ x.generation = generation /\ x.session = runtime.session
    BY PollOK DEF Poll, Runtime, NoSession
  <1>3. /\ y \in Runtime /\ y.pid = pid /\ y.starting /\ y.generation = generation
        /\ y.session = NoSession
    BY PollOK DEF Poll, Runtime, NoSession
  <1> HIDE DEF x, y
  <1>4. /\ polls' \in [Pollers -> Poll] /\ polls'[p] = x
        /\ \A q \in Pollers : q # p => polls'[q] = polls[q]
    BY <1>1, <1>2, MoveOK DEF IInv
  <1>5. TypeOK'
    BY <1>1, <1>3, <1>4 DEF IInv, TypeOK, world, budget
  <1>6. \A q \in Pollers : StageOK(q)'
    BY <1>2, <1>4 DEF IInv, StageOK
  <1>7. \A q \in Pollers : ClaimOK(q)'
    <2> TAKE q \in Pollers
    <2>1. CASE q = p
      BY <1>1, <1>2, <1>3, <1>4, <2>1, PollOK DEF ClaimOK, ClaimIsCurrent, StartIsAwaited, Runtime
    <2>2. CASE q # p
      <3>1. /\ polls[q].claim <= claims /\ polls[q].claim \in Nat /\ polls[q].generation \in Nat
            /\ polls[q].claim # NoClaim => polls[q].generation <= runtime.generation
        BY PollOK DEF ClaimOK, Poll
      <3> QED
        BY <1>1, <1>3, <1>4, <2>2, <3>1, PollOK DEF ClaimOK, ClaimIsCurrent, StartIsAwaited, Runtime
    <2> QED
      BY <2>1, <2>2
  <1>8. runtime.session # NoSession => runtime.session = owner.generation /\ owner.live
    BY DEF IInv, SampledSessionLives
  <1>9. \A q \in Pollers : SessionOK(q)'
    <2> TAKE q \in Pollers
    <2>1. CASE q = p
      BY <1>1, <1>2, <1>4, <1>8, <2>1, PollOK DEF SessionOK, NoSession
    <2>2. CASE q # p
      <3>1. polls[q].claim <= claims /\ polls[q].claim \in Nat
        BY PollOK DEF ClaimOK, Poll
      <3>2. ~ClaimIsCurrent(q)'
        BY <1>1, <1>4, <2>2, <3>1, PollOK DEF ClaimIsCurrent
      <3> QED
        BY <1>1, <1>4, <2>2, <3>2, PollOK DEF SessionOK
    <2> QED
      BY <2>1, <2>2
  <1>10. ClaimsDiffer'
    <2>1. \A q \in Pollers : polls[q].claim \in Nat /\ polls[q].claim <= claims
      BY PollOK DEF ClaimOK, Poll
    <2> QED
      BY <1>2, <1>4, <2>1, PollOK DEF IInv, ClaimsDiffer
  <1>11. SampledSessionLives' /\ DetachedOK'
    BY <1>1, <1>3 DEF IInv, SampledSessionLives, DetachedOK
  <1>12. HeldOnce'
    BY <1>1, <1>2, <1>3, <1>4 DEF IInv, HeldOnce, ByRuntime, ByStop, ByPoll
  <1> QED
    BY <1>5, <1>6, <1>7, <1>9, <1>10, <1>11, <1>12 DEF IInv

(* What the runtime forgets: no start is awaited after it.                 *)
LEMMA ForgetOK ==
  ASSUME IInv
  PROVE  /\ Forget \in Runtime /\ ~Forget.starting /\ Forget.session = NoSession
         /\ Forget.generation \in Nat /\ runtime.generation <= Forget.generation
         /\ Empty => ~runtime.starting
  <1> DEFINE g == IF Empty THEN runtime.generation ELSE runtime.generation + 1
  <1>1. g \in Nat /\ runtime.generation <= g
    BY DEF IInv, TypeOK, Runtime
  <1>2. NewRuntime \in Runtime /\ NewRuntime.session = NoSession /\ ~NewRuntime.starting
    BY DEF NewRuntime, Runtime, NoSession
  <1>3. Forget = [NewRuntime EXCEPT !.generation = g]
    BY DEF Forget
  <1> HIDE DEF g
  <1>4. /\ Forget \in Runtime /\ Forget.generation = g /\ Forget.session = NewRuntime.session
        /\ Forget.starting = NewRuntime.starting
    BY <1>1, <1>2, <1>3 DEF Runtime
  <1> QED
    BY <1>1, <1>2, <1>4 DEF Empty

(* Whatever start was awaited, its claim is superseded: the claims move on *)
(* or there was no such start.                                             *)
LEMMA NoneCurrent ==
  ASSUME IInv, NEW q \in Pollers, polls[q].claim # NoClaim,
         claims' = claims + 1 \/ (claims' = claims /\ Empty)
  PROVE  polls[q].claim # claims'
  <1>1. polls[q].claim <= claims /\ polls[q].claim \in Nat
    BY PollOK DEF ClaimOK, Poll
  <1>2. Empty => polls[q].claim # claims
    BY PollOK DEF ClaimOK, ClaimIsCurrent, StartIsAwaited, Empty
  <1> QED
    BY <1>1, <1>2, PollOK

LEMMA NotFoundOK ==
  ASSUME IInv, NEW p \in Pollers, GameNotFound(p)
  PROVE  IInv'
  <1> DEFINE x == [Idle EXCEPT !.at = "dropping", !.session = runtime.session]
  <1>1. /\ Move(p, x) /\ runtime' = Forget
        /\ claims' = claims + 1 \/ (claims' = claims /\ Empty)
        /\ UNCHANGED <<world, trace, owner, stops, detached, budget>>
        /\ polls[p].session = NoSession
    BY PollOK DEF GameNotFound, StageOK
  <1>2. x \in Poll /\ x.at = "dropping" /\ x.claim = NoClaim /\ x.session = runtime.session
    BY PollOK DEF Idle, Poll, Runtime, NoSession, NoClaim
  <1> HIDE DEF x
  <1>3. /\ polls' \in [Pollers -> Poll] /\ polls'[p] = x
        /\ \A q \in Pollers : q # p => polls'[q] = polls[q]
    BY <1>1, <1>2, MoveOK DEF IInv
  <1>4. claims' \in Nat /\ claims <= claims'
    BY <1>1, PollOK
  <1>5. TypeOK'
    BY <1>1, <1>3, <1>4, ForgetOK DEF IInv, TypeOK, world, budget
  <1>6. \A q \in Pollers : StageOK(q)'
    BY <1>2, <1>3 DEF IInv, StageOK
  <1>7. \A q \in Pollers : polls'[q].claim # NoClaim => ~ClaimIsCurrent(q)'
    BY <1>1, <1>2, <1>3, NoneCurrent DEF ClaimIsCurrent
  <1>8. \A q \in Pollers : ClaimOK(q)'
    <2> TAKE q \in Pollers
    <2>1. CASE q = p
      BY <1>2, <1>3, <1>4, <2>1 DEF ClaimOK, NoClaim
    <2>2. CASE q # p
      <3>1. /\ polls[q].claim <= claims /\ polls[q].claim \in Nat /\ polls[q].generation \in Nat
            /\ polls[q].claim # NoClaim => polls[q].generation <= runtime.generation
        BY PollOK DEF ClaimOK, Poll
      <3>2. ~StartIsAwaited(q)'
        BY <1>1, ForgetOK DEF StartIsAwaited
      <3>3. runtime.generation \in Nat
        BY PollOK DEF Runtime
      <3> QED
        BY <1>1, <1>3, <1>4, <1>7, <2>2, <3>1, <3>2, <3>3, ForgetOK, PollOK DEF ClaimOK
    <2> QED
      BY <2>1, <2>2
  <1>9. runtime.session # NoSession => runtime.session = owner.generation /\ owner.live
    BY DEF IInv, SampledSessionLives
  <1>10. \A q \in Pollers : SessionOK(q)'
    <2> TAKE q \in Pollers
    <2>1. polls'[q].at = "publishing" => polls'[q].claim # NoClaim
      BY <1>6 DEF StageOK
    <2>2. CASE q = p
      BY <1>1, <1>2, <1>3, <1>9, <2>2, PollOK DEF SessionOK, NoSession
    <2>3. CASE q # p
      BY <1>1, <1>3, <1>7, <2>1, <2>3, PollOK DEF SessionOK
    <2> QED
      BY <2>2, <2>3
  <1>11. ClaimsDiffer'
    BY <1>2, <1>3 DEF IInv, ClaimsDiffer
  <1>12. SampledSessionLives' /\ DetachedOK'
    BY <1>1, ForgetOK DEF IInv, SampledSessionLives, DetachedOK
  <1>13. HeldOnce'
    BY <1>1, <1>2, <1>3, ForgetOK DEF IInv, HeldOnce, ByRuntime, ByStop, ByPoll
  <1> QED
    BY <1>5, <1>6, <1>8, <1>10, <1>11, <1>12, <1>13 DEF IInv

LEMMA StopOK == ASSUME IInv, Stop PROVE IInv'
  <1>1. /\ stops' = stops - 1 /\ stops > 0 /\ claims' = claims + 1 /\ runtime' = Forget
        /\ detached' = detached \cup Taken
        /\ UNCHANGED <<world, trace, owner, polls, budget>>
    BY DEF Stop
  <1>2. claims' \in Nat /\ stops' \in Nat
    BY <1>1 DEF IInv, TypeOK
  <1>3. detached' \subseteq Nat \ {NoSession}
    BY <1>1, PollOK DEF IInv, TypeOK, Taken, Runtime
  <1>4. TypeOK'
    BY <1>1, <1>2, <1>3, ForgetOK DEF IInv, TypeOK, world, budget
  <1>5. \A q \in Pollers : polls'[q].claim # NoClaim => ~ClaimIsCurrent(q)'
    BY <1>1, NoneCurrent DEF ClaimIsCurrent
  <1>6. \A q \in Pollers : StageOK(q)'
    BY <1>1 DEF IInv, StageOK
  <1>7. \A q \in Pollers : ClaimOK(q)'
    <2> TAKE q \in Pollers
    <2>1. /\ polls[q].claim <= claims /\ polls[q].claim \in Nat /\ polls[q].generation \in Nat
          /\ polls[q].claim # NoClaim => polls[q].generation <= runtime.generation
      BY PollOK DEF ClaimOK, Poll
    <2>2. ~StartIsAwaited(q)'
      BY <1>1, ForgetOK DEF StartIsAwaited
    <2>3. runtime.generation \in Nat
      BY PollOK DEF Runtime
    <2> QED
      BY <1>1, <1>5, <2>1, <2>2, <2>3, ForgetOK, PollOK DEF ClaimOK
  <1>8. \A q \in Pollers : SessionOK(q)'
    <2> TAKE q \in Pollers
    <2>1. polls'[q].at = "publishing" => polls'[q].claim # NoClaim
      BY <1>6 DEF StageOK
    <2> QED
      BY <1>1, <1>5, <2>1, PollOK DEF SessionOK
  <1>9. runtime.session # NoSession => runtime.session = owner.generation /\ owner.live
    BY DEF IInv, SampledSessionLives
  <1>10. ClaimsDiffer' /\ SampledSessionLives' /\ DetachedOK'
    <2>1. ClaimsDiffer' /\ SampledSessionLives'
      BY <1>1, ForgetOK DEF IInv, ClaimsDiffer, SampledSessionLives
    <2>2. DetachedOK /\ owner' = owner
      BY <1>1 DEF IInv
    <2>3. ASSUME NEW s \in detached'
          PROVE  s <= owner.generation /\ (s = owner.generation => owner.live)
      <3>1. CASE s \in detached
        BY <2>2, <3>1 DEF DetachedOK
      <3>2. CASE s \in Taken
        BY <1>9, <3>2 DEF Taken, IInv, TypeOK
      <3> QED
        BY <1>1, <3>1, <3>2
    <2>4. DetachedOK'
      BY <2>2, <2>3 DEF DetachedOK
    <2> QED
      BY <2>1, <2>4
  <1>11. HeldOnce'
    BY <1>1, <1>9, ForgetOK DEF IInv, HeldOnce, ByRuntime, ByStop, ByPoll, Taken
  <1> QED
    BY <1>4, <1>6, <1>7, <1>8, <1>10, <1>11 DEF IInv

-----------------------------------------------------------------------------
(* The owner: what becomes of the other polls when it moves on.            *)
LEMMA OwnerMoves ==
  ASSUME IInv, NEW p \in Pollers, NEW x \in Poll, Move(p, x), NEW live \in BOOLEAN,
         UNCHANGED <<world, runtime, claims, stops, detached>>,
         failures' \in Nat /\ crashes' \in Nat,
         owner' = [generation |-> owner.generation + 1, live |-> live], trace' \in Nat,
         runtime.session = NoSession,
         x.at \in {"idle", "starting", "publishing"},
         x.at = "idle" => x.claim = NoClaim,
         x.at \in {"starting", "publishing"} =>
           x.claim # NoClaim /\ x.claim = polls[p].claim
             /\ x.pid = polls[p].pid /\ x.generation = polls[p].generation,
         x.session = IF live THEN owner.generation + 1 ELSE NoSession,
         x.session # NoSession => x.at = "publishing" /\ trace' = x.pid,
         \A q \in Pollers : q # p /\ ClaimIsCurrent(q) => polls[q].at # "publishing" \/ polls[q].session = NoSession
  PROVE  IInv'
  <1>1. /\ polls' \in [Pollers -> Poll] /\ polls'[p] = x
        /\ \A q \in Pollers : q # p => polls'[q] = polls[q]
    BY MoveOK DEF IInv
  <1>2. /\ owner.generation \in Nat /\ owner'.generation = owner.generation + 1
        /\ owner'.live = live /\ owner' \in [generation : Nat, live : BOOLEAN]
    BY PollOK
  <1>3. TypeOK'
    BY <1>1, <1>2 DEF IInv, TypeOK, world
  <1>4. \A q \in Pollers : StageOK(q)'
    <2> TAKE q \in Pollers
    <2>1. CASE q = p
      BY <1>1, <2>1 DEF StageOK
    <2>2. CASE q # p
      BY <1>1, <2>2 DEF IInv, StageOK
    <2> QED
      BY <2>1, <2>2
  <1>5. \A q \in Pollers : ClaimOK(q)'
    <2> TAKE q \in Pollers
    <2>1. CASE q = p /\ x.at = "idle"
      BY <1>1, <2>1, PollOK DEF ClaimOK, NoClaim
    <2>2. CASE q # p \/ x.at # "idle"
      BY <1>1, <2>2, PollOK DEF ClaimOK, ClaimIsCurrent, StartIsAwaited
    <2> QED
      BY <2>1, <2>2
  <1>6. \A q \in Pollers : SessionOK(q)'
    <2> TAKE q \in Pollers
    <2>1. CASE q = p
      BY <1>1, <1>2, <2>1 DEF SessionOK, NoSession
    <2>2. CASE q # p
      <3>1. polls[q].session \in Nat
        BY PollOK DEF Poll
      <3> QED
        BY <1>1, <1>2, <2>2, <3>1, PollOK DEF SessionOK, ClaimIsCurrent
    <2> QED
      BY <2>1, <2>2
  <1>7. ClaimsDiffer'
    BY <1>1 DEF IInv, ClaimsDiffer
  <1>8. SampledSessionLives'
    BY DEF SampledSessionLives
  <1>9. \A s \in detached : s \in Nat /\ s <= owner.generation
    BY DEF IInv, TypeOK, DetachedOK
  <1>10. DetachedOK'
    BY <1>2, <1>9 DEF DetachedOK
  <1>11. HeldOnce'
    <2>1. \A q \in Pollers : polls[q].session \in Nat /\ polls[q].session <= owner.generation
      BY PollOK DEF Poll, SessionOK
    <2> QED
      BY <1>1, <1>2, <1>9, <2>1 DEF HeldOnce, ByRuntime, ByStop, ByPoll, NoSession
  <1> QED
    BY <1>3, <1>4, <1>5, <1>6, <1>7, <1>8, <1>10, <1>11 DEF IInv

(* Who may start a trace is the only one the runtime waits for.            *)
LEMMA StarterAlone ==
  ASSUME IInv, NEW p \in Pollers, ClaimIsCurrent(p), polls[p].claim # NoClaim
  PROVE  /\ runtime.session = NoSession
         /\ \A q \in Pollers : q # p => ~ClaimIsCurrent(q) \/ polls[q].claim = NoClaim
  BY PollOK DEF IInv, ClaimOK, ClaimIsCurrent, ClaimsDiffer

LEMMA StartTraceOK ==
  ASSUME IInv, NEW p \in Pollers, StartTrace(p)
  PROVE  IInv'
  <1> DEFINE x == [polls[p] EXCEPT !.at = "publishing", !.session = owner.generation + 1]
  <1>1. /\ x \in Poll /\ x.at = "publishing" /\ x.claim = polls[p].claim /\ x.pid = polls[p].pid
        /\ x.generation = polls[p].generation /\ x.session = owner.generation + 1
    <2>1. polls[p] \in Poll /\ owner.generation + 1 \in Nat
      BY PollOK
    <2> QED
      BY <2>1 DEF Poll
  <1>2. /\ Move(p, x) /\ polls[p].claim # NoClaim /\ ClaimIsCurrent(p)
        /\ owner' = [generation |-> owner.generation + 1, live |-> TRUE] /\ trace' = x.pid
        /\ UNCHANGED <<world, runtime, claims, stops, detached, budget>>
    BY <1>1, PollOK DEF StartTrace, StageOK
  <1> HIDE DEF x
  <1>3. \A q \in Pollers : polls[q].at = "publishing" => polls[q].claim # NoClaim
    BY PollOK DEF StageOK
  <1>4. trace' \in Nat /\ failures' \in Nat /\ crashes' \in Nat
    BY <1>1, <1>2 DEF Poll, IInv, TypeOK, budget
  <1> QED
    BY <1>1, <1>2, <1>3, <1>4, StarterAlone, OwnerMoves

LEMMA StartFailsOK ==
  ASSUME IInv, NEW p \in Pollers, StartFails(p)
  PROVE  IInv'
  <1> DEFINE x == [polls[p] EXCEPT !.at = "publishing"]
  <1>1. /\ x \in Poll /\ x.at = "publishing" /\ x.claim = polls[p].claim /\ x.pid = polls[p].pid
        /\ x.generation = polls[p].generation /\ x.session = polls[p].session
    BY PollOK DEF Poll
  <1>2. /\ Move(p, x) /\ polls[p].claim # NoClaim /\ ClaimIsCurrent(p) /\ polls[p].session = NoSession
        /\ owner' = [generation |-> owner.generation + 1, live |-> FALSE] /\ trace' = 0
        /\ UNCHANGED <<world, runtime, claims, stops, detached>>
        /\ failures' = failures + 1 /\ crashes' = crashes
    BY <1>1, PollOK DEF StartFails, StageOK
  <1> HIDE DEF x
  <1>3. \A q \in Pollers : polls[q].at = "publishing" => polls[q].claim # NoClaim
    BY PollOK DEF StageOK
  <1>4. trace' \in Nat /\ failures' \in Nat /\ crashes' \in Nat
    BY <1>2 DEF IInv, TypeOK
  <1> QED
    BY <1>1, <1>2, <1>3, <1>4, StarterAlone, OwnerMoves

(* A poll drops the session it holds, and goes on or is through.           *)
LEMMA DropHeldOK ==
  ASSUME IInv, NEW p \in Pollers, DropHeld(p)
  PROVE  IInv'
  <1> DEFINE x == IF polls[p].claim = NoClaim THEN Idle
                  ELSE [polls[p] EXCEPT !.at = "starting", !.session = NoSession]
  <1>1. /\ x \in Poll /\ x.at \in {"idle", "starting"} /\ x.claim = polls[p].claim
        /\ x.session = NoSession
        /\ x.at = "idle" => x.claim = NoClaim
        /\ x.at = "starting" => x.claim # NoClaim
        /\ x.claim # NoClaim => x.pid = polls[p].pid /\ x.generation = polls[p].generation
    <2>1. CASE polls[p].claim = NoClaim
      <3>1. Idle.at = "idle" /\ Idle.claim = NoClaim /\ Idle.session = NoSession
        BY DEF Idle
      <3> QED
        BY <2>1, <3>1, IdleOK
    <2>2. CASE polls[p].claim # NoClaim
      <3>1. polls[p] \in Poll /\ NoSession \in Nat
        BY PollOK DEF NoSession
      <3>2. x = [polls[p] EXCEPT !.at = "starting", !.session = NoSession]
        BY <2>2
      <3> HIDE DEF x
      <3> QED
        BY <2>2, <3>1, <3>2 DEF Poll
    <2> QED
      BY <2>1, <2>2
  <1>2. /\ Move(p, x) /\ Drop(polls[p].session)
        /\ UNCHANGED <<world, runtime, claims, stops, detached, budget>>
    BY DEF DropHeld
  <1> HIDE DEF x
  <1>3. CASE polls[p].session # NoSession /\ owner.generation = polls[p].session
    <2>1. owner.live
      BY <1>3, PollOK DEF SessionOK
    <2>2. /\ runtime.session # owner.generation
          /\ \A q \in Pollers : q # p => polls[q].session # owner.generation
      BY <1>3, <2>1 DEF IInv, HeldOnce, ByRuntime, ByPoll
    <2>3. runtime.session = NoSession
      BY <2>2 DEF IInv, SampledSessionLives
    <2>4. owner' = [generation |-> owner.generation + 1, live |-> FALSE] /\ trace' = 0
      BY <1>2, <1>3, <2>1 DEF Drop
    <2>5. \A q \in Pollers : q # p /\ ClaimIsCurrent(q) => polls[q].at # "publishing" \/ polls[q].session = NoSession
      BY <2>2, PollOK DEF SessionOK
    <2>6. trace' \in Nat /\ failures' \in Nat /\ crashes' \in Nat
      BY <1>2, <2>4 DEF IInv, TypeOK, budget
    <2>7. /\ x.session = IF FALSE THEN owner.generation + 1 ELSE NoSession
          /\ x.at \in {"idle", "starting", "publishing"}
          /\ x.at \in {"starting", "publishing"} =>
               x.claim # NoClaim /\ x.claim = polls[p].claim
                 /\ x.pid = polls[p].pid /\ x.generation = polls[p].generation
      BY <1>1
    <2> QED
      BY <1>1, <1>2, <2>3, <2>4, <2>5, <2>6, <2>7, OwnerMoves
  <1>4. CASE ~(polls[p].session # NoSession /\ owner.generation = polls[p].session)
    <2>1. /\ polls' \in [Pollers -> Poll] /\ polls'[p] = x
          /\ \A q \in Pollers : q # p => polls'[q] = polls[q]
      BY <1>1, <1>2, MoveOK DEF IInv
    <2>2. UNCHANGED <<owner, trace>>
      BY <1>2, <1>4 DEF Drop
    <2>3. TypeOK'
      BY <1>2, <2>1, <2>2 DEF IInv, TypeOK, world, budget
    <2>4. \A q \in Pollers : StageOK(q)'
      BY <1>1, <2>1 DEF IInv, StageOK
    <2>5. \A q \in Pollers : ClaimOK(q)'
      BY <1>1, <1>2, <2>1, PollOK DEF ClaimOK, ClaimIsCurrent, StartIsAwaited
    <2>6. \A q \in Pollers : SessionOK(q)'
      <3> TAKE q \in Pollers
      <3>1. CASE q = p
        BY <1>1, <2>1, <2>2, <3>1, PollOK DEF SessionOK, NoSession
      <3>2. CASE q # p
        BY <1>2, <2>1, <2>2, <3>2, PollOK DEF SessionOK, ClaimIsCurrent
      <3> QED
        BY <3>1, <3>2
    <2>7. ClaimsDiffer' /\ SampledSessionLives' /\ DetachedOK'
      BY <1>1, <1>2, <2>1, <2>2 DEF IInv, ClaimsDiffer, SampledSessionLives, DetachedOK
    <2>8. HeldOnce'
      BY <1>1, <1>2, <1>4, <2>1, <2>2 DEF IInv, HeldOnce, ByRuntime, ByStop, ByPoll, NoSession
    <2> QED
      BY <2>3, <2>4, <2>5, <2>6, <2>7, <2>8 DEF IInv
  <1> QED
    BY <1>3, <1>4

(* The session a stop took is dropped.                                     *)
LEMMA DropDetachedOK == ASSUME IInv, DropDetached PROVE IInv'
  <1>1. PICK session \in detached :
          /\ Drop(session) /\ detached' = detached \ {session}
          /\ UNCHANGED <<world, runtime, claims, polls, stops, budget>>
    BY DEF DropDetached
  <1>2. session \in Nat /\ session # NoSession /\ owner.generation \in Nat
    BY DEF IInv, TypeOK
  <1>3. \A q \in Pollers : StageOK(q)' /\ ClaimOK(q)'
    BY <1>1 DEF IInv, StageOK, ClaimOK, ClaimIsCurrent, StartIsAwaited
  <1>4. ClaimsDiffer'
    BY <1>1 DEF IInv, ClaimsDiffer
  <1>5. CASE owner.generation = session
    <2>1. owner.live /\ ByStop
      BY <1>5 DEF IInv, DetachedOK, ByStop
    <2>2. /\ runtime.session # owner.generation
          /\ \A q \in Pollers : polls[q].session # owner.generation
      BY <2>1 DEF IInv, HeldOnce, ByRuntime, ByPoll
    <2>3. runtime.session = NoSession
      BY <2>2 DEF IInv, SampledSessionLives
    <2>4. owner' = [generation |-> owner.generation + 1, live |-> FALSE] /\ trace' = 0
      BY <1>1, <1>2, <1>5, <2>1 DEF Drop
    <2>5. owner' \in [generation : Nat, live : BOOLEAN] /\ owner'.generation = owner.generation + 1 /\ ~owner'.live
      BY <1>2, <2>4
    <2>6. TypeOK'
      BY <1>1, <2>4, <2>5 DEF IInv, TypeOK, world, budget
    <2>7. \A q \in Pollers : SessionOK(q)'
      <3> TAKE q \in Pollers
      <3>1. polls[q].session \in Nat /\ polls[q].session <= owner.generation
        BY PollOK DEF SessionOK, Poll
      <3>2. polls[q].at = "publishing" /\ ClaimIsCurrent(q) => polls[q].session = NoSession
        BY <2>2, PollOK DEF SessionOK
      <3> QED
        BY <1>1, <1>2, <2>5, <3>1, <3>2 DEF SessionOK, ClaimIsCurrent
    <2>8. DetachedOK'
      <3>1. \A s \in detached : s \in Nat /\ s <= owner.generation
        BY DEF IInv, TypeOK, DetachedOK
      <3> QED
        BY <1>1, <1>2, <2>5, <3>1 DEF DetachedOK
    <2>9. SampledSessionLives' /\ HeldOnce'
      BY <1>1, <2>3, <2>5 DEF SampledSessionLives, HeldOnce
    <2> QED
      BY <1>3, <1>4, <2>6, <2>7, <2>8, <2>9 DEF IInv
  <1>6. CASE owner.generation # session
    <2>1. UNCHANGED <<owner, trace>>
      BY <1>1, <1>6 DEF Drop
    <2>2. TypeOK'
      BY <1>1, <2>1 DEF IInv, TypeOK, world, budget
    <2>3. \A q \in Pollers : SessionOK(q)'
      BY <1>1, <2>1 DEF IInv, SessionOK, ClaimIsCurrent
    <2>4. SampledSessionLives' /\ DetachedOK'
      BY <1>1, <2>1 DEF IInv, SampledSessionLives, DetachedOK
    <2>5. HeldOnce'
      BY <1>1, <1>6, <2>1 DEF IInv, HeldOnce, ByRuntime, ByStop, ByPoll
    <2> QED
      BY <1>3, <1>4, <2>2, <2>3, <2>4, <2>5 DEF IInv
  <1> QED
    BY <1>5, <1>6

(* The start the runtime waits for is published: it lives.                 *)
LEMMA PublishOK ==
  ASSUME IInv, NEW p \in Pollers, Publish(p)
  PROVE  IInv'
  <1>1. /\ Move(p, Idle) /\ StartIsAwaited(p) /\ polls[p].at = "publishing"
        /\ UNCHANGED <<world, trace, claims, owner, stops, detached, budget>>
    BY DEF Publish
  <1>2. polls[p].claim # NoClaim /\ ClaimIsCurrent(p) /\ runtime.session = NoSession
    BY <1>1, PollOK DEF StageOK, ClaimOK
  <1>3. /\ polls' \in [Pollers -> Poll] /\ polls'[p] = Idle
        /\ \A q \in Pollers : q # p => polls'[q] = polls[q]
    BY <1>1, IdleOK, MoveOK DEF IInv
  <1>4. Idle.at = "idle" /\ Idle.claim = NoClaim /\ Idle.session = NoSession
    BY DEF Idle
  <1>5. /\ runtime' \in Runtime /\ ~runtime'.starting
        /\ runtime'.generation = runtime.generation /\ runtime'.session = polls[p].session
        /\ polls[p].session # NoSession => runtime'.pid = polls[p].pid
    <2>1. runtime \in Runtime /\ polls[p] \in Poll /\ runtime.pid = polls[p].pid
      BY <1>1, PollOK DEF StartIsAwaited
    <2>2. CASE polls[p].session # NoSession
      <3>1. runtime' = [runtime EXCEPT !.starting = FALSE, !.session = polls[p].session, !.retry = 0]
        BY <2>2 DEF Publish
      <3> QED
        BY <2>1, <2>2, <3>1 DEF Runtime, Poll
    <2>3. CASE polls[p].session = NoSession
      <3>1. runtime' = [runtime EXCEPT !.starting = FALSE, !.pid = 0, !.retry = polls[p].pid]
        BY <2>3 DEF Publish
      <3> QED
        BY <1>2, <2>1, <2>3, <3>1 DEF Runtime, Poll
    <2> QED
      BY <2>2, <2>3
  <1>6. TypeOK'
    BY <1>1, <1>3, <1>5 DEF IInv, TypeOK, world, budget
  <1>7. \A q \in Pollers : StageOK(q)'
    BY <1>3, <1>4 DEF IInv, StageOK
  <1>8. \A q \in Pollers : ClaimOK(q)'
    <2> TAKE q \in Pollers
    <2>1. CASE q = p
      BY <1>1, <1>3, <1>4, <2>1, PollOK DEF ClaimOK, NoClaim
    <2>2. CASE q # p
      <3>1. ~ClaimIsCurrent(q) \/ polls[q].claim = NoClaim
        BY <1>2, <2>2, StarterAlone
      <3> QED
        BY <1>1, <1>3, <1>5, <2>2, <3>1, PollOK DEF ClaimOK, ClaimIsCurrent, StartIsAwaited
    <2> QED
      BY <2>1, <2>2
  <1>9. \A q \in Pollers : SessionOK(q)'
    <2> TAKE q \in Pollers
    <2>1. CASE q = p
      BY <1>1, <1>3, <1>4, <2>1, PollOK DEF SessionOK, NoSession
    <2>2. CASE q # p
      BY <1>1, <1>3, <2>2, PollOK DEF SessionOK, ClaimIsCurrent
    <2> QED
      BY <2>1, <2>2
  <1>10. ClaimsDiffer' /\ DetachedOK'
    BY <1>1, <1>3, <1>4 DEF IInv, ClaimsDiffer, DetachedOK
  <1>11. polls[p].session # NoSession =>
           polls[p].session = owner.generation /\ owner.live /\ trace = polls[p].pid
    BY <1>1, <1>2, PollOK DEF SessionOK
  <1>12. owner = [generation |-> owner.generation, live |-> owner.live]
    BY DEF IInv, TypeOK
  <1>13. SampledSessionLives'
    BY <1>1, <1>5, <1>11, <1>12 DEF SampledSessionLives
  <1>14. HeldOnce'
    BY <1>1, <1>2, <1>3, <1>4, <1>5 DEF IInv, HeldOnce, ByRuntime, ByStop, ByPoll
  <1> QED
    BY <1>6, <1>7, <1>8, <1>9, <1>10, <1>13, <1>14 DEF IInv

-----------------------------------------------------------------------------
(* A crash leaves the system's trace and forgets everything else.          *)
LEMMA CrashOK == ASSUME IInv, Crash PROVE IInv'
  <1>1. /\ polls' = [p \in Pollers |-> Idle] /\ runtime' = NewRuntime /\ claims' = 0
        /\ owner' = [generation |-> 0, live |-> FALSE] /\ detached' = {} /\ stops' = 0
        /\ UNCHANGED <<game, launches, visits, trace, failures>>
        /\ crashes' = crashes + 1
    BY DEF Crash
  <1>2. \A p \in Pollers : polls'[p] = Idle
    BY <1>1
  <1>3. TypeOK'
    <2>1. runtime' \in Runtime /\ owner' \in [generation : Nat, live : BOOLEAN]
      BY <1>1 DEF NewRuntime, Runtime, NoSession
    <2>2. polls' \in [Pollers -> Poll]
      BY <1>1, IdleOK
    <2>3. viewing' \in BOOLEAN /\ detached' \subseteq Nat \ {NoSession}
      BY <1>1 DEF Crash
    <2>4. /\ {game', launches', visits', trace', claims', stops', failures', crashes'} \subseteq Nat
          /\ game' <= launches'
      BY <1>1 DEF IInv, TypeOK
    <2> QED
      BY <2>1, <2>2, <2>3, <2>4 DEF TypeOK
  <1>4. \A p \in Pollers : StageOK(p)' /\ ClaimOK(p)' /\ SessionOK(p)'
    BY <1>1, <1>2 DEF StageOK, ClaimOK, SessionOK, Idle, NewRuntime, NoClaim, NoSession
  <1>5. SampledSessionLives' /\ HeldOnce' /\ DetachedOK' /\ ClaimsDiffer'
    BY <1>1, <1>2 DEF SampledSessionLives, HeldOnce, DetachedOK, ClaimsDiffer, Idle, NewRuntime, NoClaim, NoSession
  <1> QED
    BY <1>3, <1>4, <1>5 DEF IInv

LEMMA StepOK == IInv /\ Next => IInv'
  <1>1. ASSUME IInv, NEW p \in Pollers, Observe(p) \/ Proceed(p) PROVE IInv'
    BY <1>1, ObserveOK, ClaimStepOK, SampleOK, NotFoundOK, DropHeldOK, StartTraceOK, StartFailsOK,
       StaleOK, PublishOK, TooLateOK
    DEF Proceed
  <1>2. ASSUME IInv, Stop \/ DropDetached \/ RetryExpires \/ Environment PROVE IInv'
    BY <1>2, StopOK, DropDetachedOK, AsideOK, CrashOK DEF Environment
  <1> QED
    BY <1>1, <1>2 DEF Next

LEMMA StutterOK == IInv /\ UNCHANGED vars => IInv'
  BY DEF IInv, vars, world, budget, TypeOK, SampledSessionLives, HeldOnce, DetachedOK, ClaimsDiffer,
         StageOK, ClaimOK, SessionOK, ClaimIsCurrent, StartIsAwaited, ByRuntime, ByStop, ByPoll

THEOREM Always == Spec => []IInv
  <1>1. IInv /\ [Next]_vars => IInv'
    BY StepOK, StutterOK
  <1> QED
    BY <1>1, InitOK, PTL DEF Spec

(* Type correctness (MonitorRuntime, SessionOwner, the polls).             *)
THEOREM FpsTyped == Spec => []TypeOK
  <1>1. IInv => TypeOK
    BY DEF IInv
  <1> QED
    BY <1>1, Always, PTL

(* What is sampled is the live trace of the tracked game                   *)
(* (replace_owned_session, stop_owned_session, fps_start_claim_is_current).*)
THEOREM SampledLives == Spec => []SampledSessionLives
  <1>1. IInv => SampledSessionLives
    BY DEF IInv
  <1> QED
    BY <1>1, Always, PTL

(* A live trace is in exactly one place, from where it will be dropped     *)
(* (read_monitor_snapshot, stop_monitor_session).                          *)
THEOREM LiveIsHeld == Spec => []LiveTraceIsHeld
  <1>1. IInv => LiveTraceIsHeld
    <2> SUFFICES ASSUME IInv, owner.live PROVE Cardinality(Holders) = 1
      BY DEF LiveTraceIsHeld
    <2>1. /\ ByRuntime \/ ByStop \/ \E p \in Pollers : ByPoll(p)
          /\ ~(ByRuntime /\ ByStop)
          /\ \A p \in Pollers : ByPoll(p) =>
               ~ByRuntime /\ ~ByStop /\ \A q \in Pollers : ByPoll(q) => q = p
      BY DEF IInv, HeldOnce
    <2>2. \E h : Holders = {h}
      <3>1. CASE ByRuntime
        <4>1. Holders = {"runtime"}
          BY <2>1, <3>1 DEF Holders, ByRuntime, ByStop, ByPoll
        <4> QED
          BY <4>1
      <3>2. CASE ByStop
        <4>1. Holders = {"stop"}
          BY <2>1, <3>2 DEF Holders, ByRuntime, ByStop, ByPoll
        <4> QED
          BY <4>1
      <3>3. ASSUME NEW p \in Pollers, ByPoll(p) PROVE \E h : Holders = {h}
        <4>1. Holders = {p}
          BY <2>1, <3>3 DEF Holders, ByRuntime, ByStop, ByPoll
        <4> QED
          BY <4>1
      <3> QED
        BY <2>1, <3>1, <3>2, <3>3
    <2> QED
      BY <2>2, FS_Singleton
  <1> QED
    BY <1>1, Always, PTL
=============================================================================
