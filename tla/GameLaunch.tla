----------------------------- MODULE GameLaunch -----------------------------
(***************************************************************************)
(* The launch command: one launch at a time in a program, the choice of    *)
(* the launcher's file, and the start of a launcher that was verified      *)
(* while its file was locked.  The launcher is created suspended, and      *)
(* resumed only if its image is the file that was verified.                *)
(*                                                                         *)
(* A command is a click on the page's button.  Files change between any    *)
(* two steps of a command, the game may run or not when it looks, and any  *)
(* call it makes may be refused.                                           *)
(***************************************************************************)
EXTENDS Naturals, Sequences

CONSTANTS
  Programs,    \* running programs, each with its LAUNCH_IN_PROGRESS
  Commands,    \* launch commands
  Paths,       \* files a launcher may be in
  Fallback,    \* the candidates in their order: beside the program, then the drives
  NoPath,      \* the user named no path, or one that classify_user_path ignores
  NoProgram    \* of a command not yet given

ASSUME LaunchAssumption ==
  /\ Fallback \in Seq(Paths)
  /\ NoPath \notin Paths /\ NoProgram \notin Programs

VARIABLES
  disk,        \* what each path holds
  claimed,     \* the programs whose LAUNCH_IN_PROGRESS is set
  job,         \* how far each command is
  child,       \* the process each command created last
  stranded     \* commands that left a suspended process behind, see Drop and LaunchEnds

launchVars == <<disk, claimed, job, child, stranded>>

(* approved: signed by an approved publisher, on a path without links.     *)
Content == {"absent", "approved", "foreign"}

Answer == {"none", "preparing", "running", "started", "rejected", "not found"}

Step == {"idle", "claim", "choose", "search", "verify", "create", "resume", "done"}

(* by: the program; named: the user's path; path: the candidate under way; *)
(* rest: the places in Fallback of those still to try.                     *)
Job ==
  [step : Step, by : Programs \cup {NoProgram}, named : Paths \cup {NoPath}, path : Paths \cup {NoPath},
   rest : SUBSET DOMAIN Fallback, answer : Answer]

Child == [state : {"none", "suspended", "running"}, path : Paths \cup {NoPath},
          image : Content]

NoJob ==
  [step |-> "idle", by |-> NoProgram, named |-> NoPath, path |-> NoPath, rest |-> {},
   answer |-> "none"]

NoChild == [state |-> "none", path |-> NoPath, image |-> "absent"]

(* From the claim to the end of the operation.                             *)
AtWork(c) == job[c].step \notin {"idle", "claim", "done"}

(* Fault: the file is unlocked once it is verified.                        *)
LockedToVerify(p) == \E c \in Commands : job[c].step = "verify" /\ job[c].path = p

(* lock_launcher_path: from its verification until spawn_verified_launcher *)
(* returns, a file and the directories above it cannot be written, renamed *)
(* or deleted.                                                             *)
Locked(p) == \E c \in Commands : job[c].step \in {"create", "resume"} /\ job[c].path = p

-----------------------------------------------------------------------------
Click(c, r, named) ==
  /\ job[c].step = "idle"
  /\ job' = [job EXCEPT ![c].step = "claim", ![c].by = r, ![c].named = named]
  /\ UNCHANGED <<disk, claimed, child, stranded>>

GoTo(c, step) == job' = [job EXCEPT ![c].step = step]

Ended(answer) == [NoJob EXCEPT !.step = "done", !.answer = answer]

(* Fault: a launch that finds no launcher keeps the claim.                 *)
NotFoundKeepsClaim(c, answer) ==
  /\ job' = [job EXCEPT ![c] = Ended(answer)]
  /\ claimed' = IF answer = "not found" THEN claimed ELSE claimed \ {job[c].by}

(* The operation returns, and with it the claim is dropped.                *)
Finish(c, answer) ==
  /\ job' = [job EXCEPT ![c] = Ended(answer)]
  /\ claimed' = claimed \ {job[c].by}

(* Fault: a claim is taken that is not free.                               *)
FindsFree(c) == TRUE

(* LauncherClaim::try_acquire, an atomic compare and exchange.             *)
Acquires(c) == job[c].by \notin claimed

TryClaim(c) ==
  /\ job[c].step = "claim"
  /\ IF Acquires(c)
     THEN GoTo(c, "choose") /\ claimed' = claimed \cup {job[c].by}
     ELSE job' = [job EXCEPT ![c] = Ended("preparing")] /\ UNCHANGED claimed
  /\ UNCHANGED <<disk, child, stranded>>

Existing == {i \in DOMAIN Fallback : disk[Fallback[i]] # "absent"}

Try(c, path, rest) ==
  /\ job' = [job EXCEPT ![c].step = "verify", ![c].path = path, ![c].rest = rest]
  /\ UNCHANGED claimed

TryFirst(c, places) ==
  \E i \in places :
    /\ \A k \in places : i <= k
    /\ Try(c, Fallback[i], places \ {i})

(* launch_game: nothing is done if the game runs.  Else the user's path is *)
(* taken if it exists, with nothing to try after it, and forgotten if not. *)
Choose(c) ==
  /\ job[c].step = "choose"
  /\ \/ Finish(c, "running")
     \/ LET named == job[c].named
        IN  IF named # NoPath /\ disk[named] # "absent" THEN Try(c, named, {})
            ELSE job' = [job EXCEPT ![c].step = "search", ![c].named = NoPath] /\ UNCHANGED claimed
  /\ UNCHANGED <<disk, child, stranded>>

(* find_launcher_fallback: the candidates that exist, all of them looked   *)
(* up before the first is tried.                                           *)
Search(c) ==
  /\ job[c].step = "search"
  /\ IF Existing = {} THEN Finish(c, "not found") ELSE TryFirst(c, Existing)
  /\ UNCHANGED <<disk, child, stranded>>

(* Fault: after the last rejection all is well.                            *)
WellInTheEnd(c) ==
  IF job[c].rest = {} THEN Finish(c, "started") ELSE TryFirst(c, job[c].rest)

(* A candidate that is rejected gives way to the next; the last rejection  *)
(* is the answer.                                                          *)
Reject(c) ==
  IF job[c].rest = {} THEN Finish(c, "rejected") ELSE TryFirst(c, job[c].rest)

-----------------------------------------------------------------------------
(* spawn_verified_launcher, in three steps: what it locks stays as it is,  *)
(* so that others cannot tell its smaller steps apart.  Each may fail.     *)

(* verify_launcher_file: the path is locked, then WinVerifyTrust and the   *)
(* publisher.                                                              *)
Verify(c) ==
  /\ job[c].step = "verify"
  /\ \/ disk[job[c].path] = "approved" /\ GoTo(c, "create") /\ UNCHANGED claimed
     \/ Reject(c)
  /\ UNCHANGED <<disk, child, stranded>>

(* create_suspended_launcher.  Windows may be set up to start another      *)
(* image than the one asked for.                                           *)
Create(c) ==
  /\ job[c].step = "create"
  /\ \/ /\ \E p \in Paths :
             /\ disk[p] # "absent"
             /\ child' = [child EXCEPT ![c] =
                            [state |-> "suspended", path |-> p, image |-> disk[p]]]
        /\ GoTo(c, "resume") /\ UNCHANGED claimed
     \/ Reject(c) /\ UNCHANGED child
  /\ UNCHANGED <<disk, stranded>>

(* Fault: the image of the child is not compared.                          *)
AnyImage(c) == TRUE

(* child_matches_verified: the same path and the same file.                *)
Matches(c) == child[c].path = job[c].path

Resume(c) ==
  /\ job[c].step = "resume" /\ Matches(c)
  /\ child' = [child EXCEPT ![c].state = "running", ![c].path = NoPath]
  /\ Finish(c, "started")
  /\ UNCHANGED <<disk, stranded>>

(* Fault: a child that was not resumed is only let go of.                  *)
LetGo(c) == UNCHANGED <<child, stranded>>

(* SuspendedChild::drop.  A termination that is refused is only logged.    *)
Terminate(c) ==
  /\ child' = [child EXCEPT ![c] = NoChild]
  /\ UNCHANGED stranded \/ stranded' = stranded \cup {c}

(* No match, or a call that failed: the child's path is unknown or cannot  *)
(* be locked, or the child cannot be resumed.                              *)
Discard(c) ==
  /\ job[c].step = "resume"
  /\ Terminate(c)
  /\ Reject(c)
  /\ UNCHANGED disk

-----------------------------------------------------------------------------
(* Whoever may write a path does, unless it is locked.                     *)
FileChanges(p) ==
  /\ ~Locked(p)
  /\ \E content \in Content \ {disk[p]} : disk' = [disk EXCEPT ![p] = content]
  /\ UNCHANGED <<claimed, job, child, stranded>>

(* The program ends, at any step of its commands.  A child not yet resumed *)
(* stays suspended: nothing ties it to the program.                        *)
LaunchEnds(r) ==
  /\ claimed' = claimed \ {r}
  /\ LET cut == {c \in Commands : job[c].by = r /\ job[c].step \notin {"idle", "done"}}
         left == {c \in cut : child[c].state = "suspended"}
     IN  /\ job' = [c \in Commands |->
                      IF c \in cut
                      THEN Ended("none")
                      ELSE job[c]]
         /\ child' = [c \in Commands |-> IF c \in left THEN NoChild ELSE child[c]]
         /\ stranded' = stranded \cup left
  /\ UNCHANGED disk

LaunchInit ==
  /\ disk \in [Paths -> Content]
  /\ claimed = {}
  /\ job = [c \in Commands |-> NoJob]
  /\ child = [c \in Commands |-> NoChild]
  /\ stranded = {}

LaunchStep(c) ==
  \/ TryClaim(c) \/ Choose(c) \/ Search(c)
  \/ Verify(c) \/ Create(c) \/ Resume(c) \/ Discard(c)

Clicks == \E c \in Commands, r \in Programs, named \in Paths \cup {NoPath} : Click(c, r, named)

LaunchNext ==
  \/ Clicks \/ \E p \in Paths : FileChanges(p)
  \/ \E c \in Commands : LaunchStep(c)
  \/ \E r \in Programs : LaunchEnds(r)

LaunchSpec == LaunchInit /\ [][LaunchNext]_launchVars

-----------------------------------------------------------------------------
LaunchTypeOK ==
  /\ disk \in [Paths -> Content]
  /\ claimed \subseteq Programs
  /\ job \in [Commands -> Job]
  /\ child \in [Commands -> Child]
  /\ stranded \subseteq Commands

(* Nothing runs that was not approved when it was started, whatever        *)
(* becomes of the files meanwhile (the locks of spawn_verified_launcher    *)
(* and the comparison of the child's image).                               *)
OnlyApprovedRuns ==
  \A c \in Commands : child[c].state = "running" => child[c].image = "approved"

(* In a program one launch is under way at a time, and the flag is set     *)
(* exactly as long as one is (LauncherClaim).                              *)
OneLaunch ==
  /\ \A c, d \in Commands : AtWork(c) /\ AtWork(d) /\ job[c].by = job[d].by => c = d
  /\ claimed = {job[c].by : c \in {d \in Commands : AtWork(d)}}

(* A suspended process exists only while its command looks at it; others   *)
(* are known to be stranded (the termination in SuspendedChild::drop).     *)
NoneLeftSuspended ==
  \A c \in Commands :
    child[c].state = "suspended" => job[c].step = "resume"

(* The page is told of a start if and only if the command's launcher runs  *)
(* (launch_game starts the first candidate that verifies, and nothing      *)
(* after it).                                                              *)
AnswerIsTrue ==
  \A c \in Commands : job[c].answer = "started" <=> child[c].state = "running"

(* Every process a command has created is accounted for: looked at,        *)
(* reported as started, terminated, or known to be stranded.               *)
ChildIsAccountedFor == NoneLeftSuspended /\ AnswerIsTrue

(* The user's own path, once taken, is the only one tried: whatever comes  *)
(* of it, no other launcher is started in its place (launch_game, which    *)
(* looks for candidates only when the path is missing or ignored).         *)
NamedPathIsFinal ==
  [][\A c \in Commands :
       job[c].path # NoPath /\ job[c].path = job[c].named
         => job'[c].path \in {job[c].path, NoPath}]_launchVars
=============================================================================
