----------------------------- MODULE FpsSession -----------------------------
(***************************************************************************)
(* The FPS counter of the monitor tab: one system-wide ETW trace, opened   *)
(* and closed by get_monitor_snapshot and stop_monitor_session.  Both run  *)
(* on the pool of blocking threads, in any order and at the same time.     *)
(* Starting a trace is slow, so it is done outside MONITOR_RUNTIME's lock: *)
(* a poll claims the start under that lock, starts the trace under the     *)
(* lock of the trace's owner, and takes the first lock again to publish    *)
(* the session it got, unless the claim was superseded meanwhile.          *)
(***************************************************************************)
EXTENDS Integers, FiniteSets

CONSTANTS
  Pollers,       \* get_monitor_snapshot calls in flight at once (the page has one)
  MaxLaunches,   \* bound: game processes
  MaxVisits,     \* bound: times the monitor tab is opened
  MaxFailures,   \* bound: traces that fail to start
  MaxCrashes     \* bound: crashes of the program

ASSUME FpsAssumption ==
  /\ {MaxLaunches, MaxVisits, MaxFailures, MaxCrashes} \subseteq Nat
  /\ {"runtime", "stop"} \cap Pollers = {}

VARIABLES
  game, launches,   \* pid of the running game, 0 for none; pids count up
  viewing, visits,  \* the monitor tab is open
  trace,            \* pid the system's "bdo-optimizer-fps" trace is for, 0 for none
  runtime,          \* MONITOR_RUNTIME
  claims,           \* START_CLAIM_GENERATION
  owner,            \* SessionOwner
  polls,            \* the calls of get_monitor_snapshot
  stops,            \* calls of stop_monitor_session that have not got the lock
  detached,         \* sessions taken by a stop and not dropped yet
  failures, crashes

world == <<game, launches, viewing, visits>>
budget == <<failures, crashes>>
vars == <<world, trace, runtime, claims, owner, polls, stops, detached, budget>>

(* A session is known by the owner's generation, which counts from 1.      *)
NoSession == 0

NoClaim == 0

Runtime == [pid : Nat, starting : BOOLEAN, generation : Nat, retry : Nat, session : Nat]

NewRuntime ==
  [pid |-> 0, starting |-> FALSE, generation |-> 0, retry |-> 0, session |-> NoSession]

(* A poll saw the game pid; it has claimed a start (claim and generation)  *)
(* or not, and holds a session it took, or started, or none.               *)
Poll ==
  [at : {"idle", "observed", "dropping", "starting", "publishing"},
   pid : Nat, claim : Nat, generation : Nat, session : Nat]

Idle == [at |-> "idle", pid |-> 0, claim |-> NoClaim, generation |-> 0, session |-> NoSession]

-----------------------------------------------------------------------------
(* stop_owned_session: only the owner's current session is stopped.        *)
Drop(session) ==
  IF session # NoSession /\ owner.generation = session
  THEN /\ owner' = [generation |-> owner.generation + 1, live |-> FALSE]
       /\ trace' = IF owner.live THEN 0 ELSE trace
  ELSE UNCHANGED <<owner, trace>>

(* MONITOR_RUNTIME tracks nothing.                                         *)
Empty == runtime.pid = 0 /\ ~runtime.starting /\ runtime.session = NoSession

(* MONITOR_RUNTIME forgets the game it tracked.  The code takes a new      *)
(* generation even when there was nothing to forget; then no start waits   *)
(* for the old one, and the model, to stay finite, keeps it.               *)
Forget ==
  [NewRuntime EXCEPT !.generation = IF Empty THEN runtime.generation
                                             ELSE runtime.generation + 1]

Move(p, poll) == polls' = [polls EXCEPT ![p] = poll]

-----------------------------------------------------------------------------
(* The page polls while the tab is open; the poll looks for the game       *)
(* before it takes any lock.                                               *)
Observe(p) ==
  /\ viewing
  /\ polls[p].at = "idle"
  /\ Move(p, [Idle EXCEPT !.at = "observed", !.pid = game])
  /\ UNCHANGED <<world, trace, runtime, claims, owner, stops, detached, budget>>

(* should_claim_fps_start                                                  *)
MayClaim(pid) ==
  /\ runtime.retry # pid
  /\ runtime.pid # pid \/ (~runtime.starting /\ runtime.session = NoSession)

Claim(p) ==
  LET pid == polls[p].pid
      generation == runtime.generation + 1
  IN
  /\ polls[p].at = "observed" /\ pid # 0 /\ MayClaim(pid)
  /\ claims' = claims + 1
  /\ runtime' = [pid |-> pid, starting |-> TRUE, generation |-> generation,
                 retry |-> 0, session |-> NoSession]
  /\ Move(p, [at |-> "dropping", pid |-> pid, claim |-> claims', generation |-> generation,
              session |-> runtime.session])
  /\ UNCHANGED <<world, trace, owner, stops, detached, budget>>

(* Nothing to start: the poll samples the session there is and answers.    *)
Sample(p) ==
  /\ polls[p].at = "observed" /\ polls[p].pid # 0 /\ ~MayClaim(polls[p].pid)
  /\ Move(p, Idle)
  /\ UNCHANGED <<world, trace, runtime, claims, owner, stops, detached, budget>>

GameNotFound(p) ==
  /\ polls[p].at = "observed" /\ polls[p].pid = 0
  /\ claims' = IF Empty THEN claims ELSE claims + 1
  /\ runtime' = Forget
  /\ Move(p, [Idle EXCEPT !.at = "dropping", !.session = runtime.session])
  /\ UNCHANGED <<world, trace, owner, stops, detached, budget>>

DropHeld(p) ==
  /\ polls[p].at = "dropping"
  /\ Drop(polls[p].session)
  /\ Move(p, IF polls[p].claim = NoClaim THEN Idle
             ELSE [polls[p] EXCEPT !.at = "starting", !.session = NoSession])
  /\ UNCHANGED <<world, runtime, claims, stops, detached, budget>>

(* Fault: the claim is not looked at again under the owner's lock.         *)
AnyClaim(p) == TRUE

ClaimIsCurrent(p) == polls[p].claim = claims

(* FpsSession::start, under the owner's lock: a previous session is        *)
(* dropped and a trace of that name left by a crash is stopped first.      *)
StartTrace(p) ==
  /\ polls[p].at = "starting"
  /\ ClaimIsCurrent(p)
  /\ owner' = [generation |-> owner.generation + 1, live |-> TRUE]
  /\ trace' = polls[p].pid
  /\ Move(p, [polls[p] EXCEPT !.at = "publishing", !.session = owner.generation + 1])
  /\ UNCHANGED <<world, runtime, claims, stops, detached, budget>>

StartFails(p) ==
  /\ polls[p].at = "starting"
  /\ ClaimIsCurrent(p)
  /\ failures < MaxFailures /\ failures' = failures + 1
  /\ owner' = [generation |-> owner.generation + 1, live |-> FALSE]
  /\ trace' = 0
  /\ Move(p, [polls[p] EXCEPT !.at = "publishing"])
  /\ UNCHANGED <<world, runtime, claims, stops, detached, crashes>>

StartIsStale(p) ==
  /\ polls[p].at = "starting"
  /\ ~ClaimIsCurrent(p)
  /\ Move(p, [polls[p] EXCEPT !.at = "publishing"])
  /\ UNCHANGED <<world, trace, runtime, claims, owner, stops, detached, budget>>

(* fps_start_claim_is_current                                              *)
StartIsAwaited(p) ==
  /\ runtime.pid = polls[p].pid
  /\ runtime.starting
  /\ runtime.generation = polls[p].generation

Publish(p) ==
  /\ polls[p].at = "publishing"
  /\ StartIsAwaited(p)
  /\ runtime' =
       IF polls[p].session # NoSession
       THEN [runtime EXCEPT !.starting = FALSE, !.session = polls[p].session, !.retry = 0]
       ELSE [runtime EXCEPT !.starting = FALSE, !.pid = 0, !.retry = polls[p].pid]
  /\ Move(p, Idle)
  /\ UNCHANGED <<world, trace, claims, owner, stops, detached, budget>>

(* Fault: a session that came too late is forgotten instead of dropped.    *)
LeakLate(p) == Idle

DropLate(p) == [Idle EXCEPT !.at = "dropping", !.session = polls[p].session]

PublishTooLate(p) ==
  /\ polls[p].at = "publishing"
  /\ ~StartIsAwaited(p)
  /\ Move(p, DropLate(p))
  /\ UNCHANGED <<world, trace, runtime, claims, owner, stops, detached, budget>>

(* Fault: a failed start is never tried again.                             *)
KeepBlocked == runtime.retry

Unblocked == 0

(* The 5 seconds after a failed start are over.                            *)
RetryExpires ==
  /\ runtime.retry # 0
  /\ runtime' = [runtime EXCEPT !.retry = Unblocked]
  /\ UNCHANGED <<world, trace, claims, owner, polls, stops, detached, budget>>

-----------------------------------------------------------------------------
Taken == {runtime.session} \ {NoSession}

(* stop_monitor_session: the page calls it when the tab is left, without   *)
(* waiting for a poll that is still in flight.                             *)
Stop ==
  /\ stops > 0
  /\ stops' = stops - 1
  /\ claims' = claims + 1
  /\ runtime' = Forget
  /\ detached' = detached \cup Taken
  /\ UNCHANGED <<world, trace, owner, polls, budget>>

DropDetached ==
  \E session \in detached :
    /\ Drop(session)
    /\ detached' = detached \ {session}
    /\ UNCHANGED <<world, runtime, claims, polls, stops, budget>>

-----------------------------------------------------------------------------
OpenTab ==
  /\ ~viewing /\ visits < MaxVisits
  /\ viewing' = TRUE /\ visits' = visits + 1
  /\ UNCHANGED <<game, launches, trace, runtime, claims, owner, polls, stops, detached, budget>>

LeaveTab ==
  /\ viewing
  /\ viewing' = FALSE
  /\ stops' = stops + 1
  /\ UNCHANGED <<game, launches, visits, trace, runtime, claims, owner, polls, detached, budget>>

GameStarts ==
  /\ game = 0 /\ launches < MaxLaunches
  /\ launches' = launches + 1 /\ game' = launches + 1
  /\ UNCHANGED <<viewing, visits, trace, runtime, claims, owner, polls, stops, detached, budget>>

GameExits ==
  /\ game # 0
  /\ game' = 0
  /\ UNCHANGED <<launches, viewing, visits, trace, runtime, claims, owner, polls, stops,
                 detached, budget>>

(* The trace is the system's: it outlives a program that is killed.        *)
Crash ==
  /\ crashes < MaxCrashes
  /\ crashes' = crashes + 1
  /\ viewing' = FALSE
  /\ runtime' = NewRuntime
  /\ claims' = 0
  /\ owner' = [generation |-> 0, live |-> FALSE]
  /\ polls' = [p \in Pollers |-> Idle]
  /\ stops' = 0 /\ detached' = {}
  /\ UNCHANGED <<game, launches, visits, trace, failures>>

Init ==
  /\ game = 0 /\ launches = 0
  /\ viewing = FALSE /\ visits = 0
  /\ trace = 0
  /\ runtime = NewRuntime
  /\ claims = 0
  /\ owner = [generation |-> 0, live |-> FALSE]
  /\ polls = [p \in Pollers |-> Idle]
  /\ stops = 0 /\ detached = {}
  /\ failures = 0 /\ crashes = 0

(* A call that has begun runs to its end: a start may fail, but not block. *)
Proceed(p) ==
  \/ Claim(p) \/ Sample(p) \/ GameNotFound(p) \/ DropHeld(p)
  \/ StartTrace(p) \/ StartFails(p) \/ StartIsStale(p)
  \/ Publish(p) \/ PublishTooLate(p)

Environment == OpenTab \/ LeaveTab \/ GameStarts \/ GameExits \/ Crash

Next ==
  \/ \E p \in Pollers : Observe(p) \/ Proceed(p)
  \/ Stop \/ DropDetached \/ RetryExpires \/ Environment

Spec == Init /\ [][Next]_vars

(* The page's interval timer polls as long as the tab is open, the pool's  *)
(* threads run, and 5 seconds pass.                                        *)
Fairness ==
  /\ \A p \in Pollers : WF_vars(Observe(p)) /\ WF_vars(Proceed(p))
  /\ WF_vars(Stop) /\ WF_vars(DropDetached) /\ WF_vars(RetryExpires)

FairSpec == Spec /\ Fairness
-----------------------------------------------------------------------------
TypeOK ==
  /\ game \in Nat /\ launches \in Nat /\ game <= launches
  /\ viewing \in BOOLEAN /\ visits \in Nat
  /\ trace \in Nat
  /\ runtime \in Runtime
  /\ claims \in Nat
  /\ owner \in [generation : Nat, live : BOOLEAN]
  /\ polls \in [Pollers -> Poll]
  /\ stops \in Nat
  /\ detached \subseteq Nat \ {NoSession}
  /\ failures \in Nat /\ crashes \in Nat

(* The session a poll samples is the live trace of the game the runtime    *)
(* tracks: no slow start, late drop or stop of an older session ever       *)
(* closes or replaces it (replace_owned_session, stop_owned_session).      *)
SampledSessionLives ==
  runtime.session # NoSession =>
    /\ owner = [generation |-> runtime.session, live |-> TRUE]
    /\ trace = runtime.pid

(* A live trace is in the hands of exactly one of: the runtime, a poll,    *)
(* a stop about to drop it.  So none is left running that no call will     *)
(* ever drop (the stale_session branch of read_monitor_snapshot).          *)
Holders ==
  (IF runtime.session = owner.generation THEN {"runtime"} ELSE {})
    \cup (IF owner.generation \in detached THEN {"stop"} ELSE {})
    \cup {p \in Pollers : polls[p].session = owner.generation}

LiveTraceIsHeld == owner.live => Cardinality(Holders) = 1

(* With the tab open, the trace settles on the game that runs, or is       *)
(* closed when none runs, whatever starts failed or were overtaken and     *)
(* whatever a crash left behind (a crash's trace stays until a game runs). *)
FollowsGame ==
  \A pid \in 0..MaxLaunches :
    <>[](viewing /\ game = pid /\ (pid # 0 \/ crashes = 0)) => <>[](trace = pid)

(* Once the tab is left for good, no trace runs: the promise of the        *)
(* comment above stop_monitor_session.                                     *)
StoppedWhenLeft == <>[]~viewing => <>[](trace = 0)
=============================================================================
