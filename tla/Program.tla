------------------------------ MODULE Program -------------------------------
(***************************************************************************)
(* The program's window and its launch command together: the page that     *)
(* sends the commands is the one the window shows, and the end of a        *)
(* program is the end of its commands.                                     *)
(*                                                                         *)
(* The components are without bounds; what the user and the surroundings   *)
(* do is bounded here.                                                     *)
(***************************************************************************)
EXTENDS WindowLife, GameLaunch

CONSTANT MaxMoves   \* bounds: of each, what the user does and what becomes of files

(* Starts and what is done to the window; commands; changes of a file.     *)
Moves == [window : Nat, clicks : Nat, files : Nat]

ASSUME ProgramAssumption == Programs = Runs /\ MaxMoves \subseteq Moves

VARIABLE left       \* what remains of one of the bounds

vars == <<windowVars, launchVars, left>>

Spend(kind) == left[kind] > 0 /\ left' = [left EXCEPT ![kind] = @ - 1]

(* Commands come from a page that has loaded.                              *)
HasPage(r) == run[r].window # "none" /\ run[r].page # "loading"

(* With a bound that leaves the files alone, they are good.                *)
Init ==
  /\ WindowInit /\ LaunchInit
  /\ left \in MaxMoves
  /\ left.files = 0 => disk = [p \in Paths |-> "approved"]

(* Which element stands for the next start, or the next command, does not  *)
(* matter.                                                                 *)
NextRun == CHOOSE r \in Runs : run[r].phase = "off"

NextCommand == CHOOSE c \in Commands : job[c].step = "idle"

UserAtWindow(r) ==
  /\ run[r].phase = "off" => r = NextRun
  /\ WindowEvent(r) /\ Spend("window") /\ UNCHANGED launchVars

UserLaunches(c, r, named) ==
  /\ HasPage(r) /\ job[c].step = "idle" /\ c = NextCommand
  /\ Click(c, r, named) /\ Spend("clicks") /\ UNCHANGED windowVars

(* Files change under a command; before it, they may hold anything anyway. *)
Outside ==
  /\ \E c \in Commands : AtWork(c)
  /\ \E p \in Paths : FileChanges(p)
  /\ Spend("files") /\ UNCHANGED windowVars

PageComes(r) == PageLoads(r) /\ UNCHANGED <<launchVars, left>>

(* The threads of a program: the main thread, the page's load callback,    *)
(* the watchdog, and a thread of the pool for each command.                *)
MainThread(r) == (Claim(r) \/ Focus(r) \/ SetUp(r)) /\ UNCHANGED <<launchVars, left>>

PageThread(r) == PageActs(r) /\ UNCHANGED <<launchVars, left>>

Watchdog(r) == WatchdogWakes(r) /\ UNCHANGED <<launchVars, left>>

PoolThread(c) == LaunchStep(c) /\ UNCHANGED <<windowVars, left>>

Exits(r) == Ends(r) /\ LaunchEnds(r) /\ UNCHANGED left

Dies(r) == (SetUpFails(r) \/ Killed(r)) /\ LaunchEnds(r) /\ UNCHANGED left

Threads ==
  \/ \E r \in Runs : MainThread(r) \/ PageThread(r) \/ Watchdog(r) \/ Exits(r)
  \/ \E c \in Commands : PoolThread(c)

Next ==
  \/ Threads
  \/ \E r \in Runs : UserAtWindow(r) \/ PageComes(r) \/ Dies(r)
  \/ \E c \in Commands, r \in Runs, named \in Paths \cup {NoPath} : UserLaunches(c, r, named)
  \/ Outside

Spec == Init /\ [][Next]_vars

(* The threads go on: no call they make waits for the user, and the        *)
(* watchdog's half minute passes.  One condition for all of them is        *)
(* enough, as each comes to rest by itself.  Nothing is assumed of the     *)
(* user, of the page's loading, or of a kill.                              *)
Fairness == WF_vars(Threads)

FairSpec == Spec /\ Fairness
-----------------------------------------------------------------------------
TypeOK == WindowTypeOK /\ LaunchTypeOK /\ left \in Moves

(* A program whose page never loads does not stay behind its icon: it      *)
(* ends, for the task scheduler to start it again                          *)
(* (start_webview_readiness_watchdog).                                     *)
NoPageNoProgram ==
  \A r \in Runs : IsInstance(r) ~> (run[r].page # "loading" \/ run[r].phase = "off")

(* A minimised start that has not hidden its window yet.                   *)
StartsMinimised(i) ==
  run[i].phase # "off" /\ run[i].minimised /\ run[i].page # "handled"

(* A start that found the mutex, and whose instance has ended since.  Its  *)
(* handle turns the next start away as well.                               *)
TurnedAway(r) == run[r].phase = "focus" /\ \A i \in Runs : ~IsInstance(i)

(* Who starts the program gets to see its window, its own or that of the   *)
(* instance there was ("a second start brings the existing window to the   *)
(* front", README.md), unless the instance is just ending or in a          *)
(* minimised start, or a call was refused.                                 *)
StartIsSeen ==
  (\E r \in Runs : run[r].phase = "start" /\ ~run[r].minimised)
    ~> \/ \E i \in Runs : Visible(i) \/ run[i].ending \/ StartsMinimised(i) \/ TurnedAway(i)
       \/ faults > 0

(* LAUNCH_IN_PROGRESS is given back however a launch ends, so that the     *)
(* page's button works again (LauncherClaim::drop).                        *)
ClaimComesBack == \A r \in Runs : r \in claimed ~> r \notin claimed
=============================================================================
