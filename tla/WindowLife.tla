----------------------------- MODULE WindowLife -----------------------------
(***************************************************************************)
(* The program from its start to its end: the named mutex that lets one    *)
(* instance run, the window, the tray icon with the label of its toggle    *)
(* item, closing to the tray, quitting, and the watchdog for a page that   *)
(* never loads.                                                            *)
(*                                                                         *)
(* A start of the program is an element of Runs: either it becomes the     *)
(* instance, or it shows the instance's window and ends.  The main thread  *)
(* sets up and then serves events; the page's load callback and the        *)
(* watchdog run beside it, as STARTUP_VISIBILITY_SYNC expects.             *)
(***************************************************************************)
EXTENDS Naturals

CONSTANTS
  Runs,        \* starts of the program that may be alive at one time
  MaxFaults    \* bound: refused calls of the window system, kills

ASSUME WindowAssumption == MaxFaults \in Nat

VARIABLES
  run,         \* each start: how far it is, its window, its tray
  handles,     \* the starts that hold a handle of the named mutex
  unlabelled,  \* history: whose window was shown and the label not set since
  faults

windowVars == <<run, handles, unlabelled, faults>>

Phase == {"off", "start", "focus", "build", "tray", "manage", "query", "label", "loop"}

(* minimised: started with --minimized.  managed: LifecycleState exists,   *)
(* and with it the tray icon.  seen: the visibility set-up read.  page:    *)
(* MAIN_WEBVIEW_READY, and whether the window was shown or kept hidden for *)
(* it.  ending: exit was called.  The system counts a minimised window as  *)
(* visible.                                                                *)
Run ==
  [phase : Phase, minimised : BOOLEAN, window : {"none", "hidden", "visible", "iconic"},
   managed : BOOLEAN, label : {"open", "hide"}, seen : BOOLEAN,
   page : {"loading", "loaded", "handled"}, watchdog : {"unset", "armed", "done"},
   quitting : BOOLEAN, ending : BOOLEAN]

Off ==
  [phase |-> "off", minimised |-> FALSE, window |-> "none", managed |-> FALSE,
   label |-> "hide", seen |-> FALSE, page |-> "loading", watchdog |-> "unset",
   quitting |-> FALSE, ending |-> FALSE]

IsInstance(r) == run[r].phase \notin {"off", "start", "focus"}

Visible(r) == run[r].window \in {"visible", "iconic"}

(* The main thread serves events, until exit takes effect.                 *)
InLoop(r) == run[r].phase = "loop"

Label(visible) == IF visible THEN "hide" ELSE "open"

Fault == faults < MaxFaults /\ faults' = faults + 1

(* A call that succeeds, or is refused at the cost of a fault.             *)
Granted(ok) == IF ok THEN UNCHANGED faults ELSE Fault

(* The process ends, and Windows with it its window, icon and handles.     *)
Gone(r) ==
  /\ run' = [run EXCEPT ![r] = Off]
  /\ handles' = handles \ {r}
  /\ unlabelled' = unlabelled \ {r}

-----------------------------------------------------------------------------
(* main and acquire_or_focus_existing.  A start opens a handle of the      *)
(* mutex, also one that finds it existing; a mutex lives while a handle of *)
(* it does.  If it cannot be opened the start goes on without.             *)
Start(r, minimised) ==
  /\ run[r].phase = "off"
  /\ run' = [run EXCEPT ![r].phase = "start", ![r].minimised = minimised]
  /\ UNCHANGED <<handles, unlabelled, faults>>

(* Fault: whether the mutex existed is not asked.                          *)
NeverExists == FALSE

AlreadyExists == handles # {}

Claim(r) ==
  /\ run[r].phase = "start"
  /\ \/ /\ handles' = handles \cup {r}
        /\ run' = [run EXCEPT ![r].phase = IF AlreadyExists THEN "focus" ELSE "build"]
        /\ UNCHANGED faults
     \/ /\ Fault
        /\ run' = [run EXCEPT ![r].phase = "build"]
        /\ UNCHANGED handles
  /\ UNCHANGED unlabelled

(* Fault: a window is taken for granted where a start is alive.            *)
AliveIsTitled == {i \in Runs : run[i].phase # "off"}

(* Fault: only a visible window is looked for.                             *)
OnlyVisible == {i \in Runs : Visible(i)}

(* focus_existing_window: the first window of that title, if it belongs to *)
(* this program, is shown by the system, past the instance's own code.     *)
(* There may be none yet, or another program's.                            *)
Titled == {i \in Runs : run[i].window # "none"}

Focus(r) ==
  /\ run[r].phase = "focus"
  /\ handles' = handles \ {r}
  /\ \/ \E i \in Titled :
          /\ run' = [run EXCEPT ![r] = Off, ![i].window = "visible"]
          /\ unlabelled' = IF Visible(i) THEN unlabelled ELSE unlabelled \cup {i}
          /\ UNCHANGED faults
     \/ /\ Granted(Titled = {})
        /\ run' = [run EXCEPT ![r] = Off]
        /\ UNCHANGED unlabelled

-----------------------------------------------------------------------------
(* show_main_window: unminimize, show and focus, each only if the one      *)
(* before worked (done counts them), and the label after all three.        *)
ShownWindow(w, done) ==
  CASE done = 0 -> w
    [] done = 1 -> IF w = "iconic" THEN "visible" ELSE w
    [] done > 1 -> "visible"

Show(r, was) ==
  IF was.window = "none"
  THEN run' = [run EXCEPT ![r] = was] /\ UNCHANGED <<unlabelled, faults>>
  ELSE \E done \in 0 .. 3 :
         /\ Granted(done = 3)
         /\ run' = [run EXCEPT ![r] =
                      [was EXCEPT !.window = ShownWindow(@, done),
                                  !.label = IF done = 3 /\ was.managed THEN "hide" ELSE @]]
         /\ unlabelled' = CASE done = 3 -> unlabelled \ {r}
                            [] done = 2 /\ was.window = "hidden" -> unlabelled \cup {r}
                            [] OTHER -> unlabelled

(* hide_main_window: hide, and the label if that worked.                   *)
Hide(r, was) ==
  IF was.window = "none"
  THEN run' = [run EXCEPT ![r] = was] /\ UNCHANGED <<unlabelled, faults>>
  ELSE \E ok \in BOOLEAN :
         /\ Granted(ok)
         /\ run' = [run EXCEPT ![r] =
                      [was EXCEPT !.window = IF ok THEN "hidden" ELSE @,
                                  !.label = IF ok /\ was.managed THEN "open" ELSE @]]
         /\ unlabelled' = IF ok THEN unlabelled \ {r} ELSE unlabelled

-----------------------------------------------------------------------------
(* setup: the window is created hidden; build_tray; manage and the first   *)
(* label under STARTUP_VISIBILITY_SYNC; then the close handler and the     *)
(* watchdog, and the loop.  A minimised start without a tray fails.        *)
(* Fault: the watchdog is left out where the tray failed.                  *)
ServingWithTray(x) ==
  [x EXCEPT !.phase = "loop", !.watchdog = IF x.managed THEN "armed" ELSE @, !.seen = FALSE]

Serving(x) == [x EXCEPT !.phase = "loop", !.watchdog = "armed", !.seen = FALSE]

CreateWindow(r) ==
  /\ run[r].phase = "build"
  /\ run' = [run EXCEPT ![r].phase = "tray", ![r].window = "hidden"]
  /\ UNCHANGED <<handles, unlabelled, faults>>

(* Fault: a minimised start goes on without a tray.                        *)
NeverNeedsTray(r) == FALSE

NeedsTray(r) == run[r].minimised

BuildTray(r) ==
  /\ run[r].phase = "tray"
  /\ \/ /\ run' = [run EXCEPT ![r].phase = "manage"]
        /\ UNCHANGED <<handles, unlabelled, faults>>
     \/ /\ Fault /\ ~NeedsTray(r)
        /\ run' = [run EXCEPT ![r] = Serving(@)]
        /\ UNCHANGED <<handles, unlabelled>>

SetUpFails(r) == run[r].phase = "tray" /\ NeedsTray(r) /\ Fault /\ Gone(r)

Manage(r) ==
  /\ run[r].phase = "manage"
  /\ run' = [run EXCEPT ![r].phase = "query", ![r].managed = TRUE]
  /\ UNCHANGED <<handles, unlabelled, faults>>

QueryWindow(r) ==
  /\ run[r].phase = "query"
  /\ \E ok \in BOOLEAN :
       /\ Granted(ok)
       /\ run' = [run EXCEPT ![r].phase = "label", ![r].seen = ok /\ Visible(r)]
       /\ unlabelled' = IF ~ok /\ Visible(r) THEN unlabelled \cup {r} ELSE unlabelled
  /\ UNCHANGED handles

SetLabel(r) ==
  /\ run[r].phase = "label"
  /\ run' = [run EXCEPT ![r] = [Serving(@) EXCEPT !.label = Label(run[r].seen)]]
  /\ unlabelled' = IF run[r].seen = Visible(r) THEN unlabelled \ {r} ELSE unlabelled
  /\ UNCHANGED <<handles, faults>>

SetUp(r) ==
  \/ CreateWindow(r) \/ BuildTray(r) \/ Manage(r) \/ QueryWindow(r) \/ SetLabel(r)

(* on_page_load: the first load sets MAIN_WEBVIEW_READY and then shows the *)
(* window, or hides it on a minimised start.  Later loads are ignored.     *)
PageLoads(r) ==
  /\ run[r].window # "none" /\ run[r].page = "loading"
  /\ run' = [run EXCEPT ![r].page = "loaded"]
  /\ UNCHANGED <<handles, unlabelled, faults>>

(* Fault: the page's callback does not wait for set-up.                    *)
SyncNotHeeded(r) == TRUE

SyncFree(r) == run[r].phase \notin {"query", "label"}

ShowsOnLoad(r) == ~run[r].minimised

PageActs(r) ==
  /\ run[r].page = "loaded" /\ SyncFree(r)
  /\ LET was == [run[r] EXCEPT !.page = "handled"]
     IN  IF ShowsOnLoad(r) THEN Show(r, was) ELSE Hide(r, was)
  /\ UNCHANGED handles

(* start_webview_readiness_watchdog: after 30 seconds without a page.      *)
WatchdogWakes(r) ==
  /\ run[r].watchdog = "armed"
  /\ run' = [run EXCEPT ![r].watchdog = "done",
                        ![r].ending = @ \/ run[r].page = "loading"]
  /\ UNCHANGED <<handles, unlabelled, faults>>

-----------------------------------------------------------------------------
(* The tray menu's toggle asks the window; a double click on the icon      *)
(* shows it.                                                               *)
Toggle(r) ==
  /\ InLoop(r) /\ run[r].managed
  /\ IF Visible(r) THEN Hide(r, run[r]) ELSE Show(r, run[r])
  /\ UNCHANGED handles

DoubleClick(r) ==
  /\ InLoop(r) /\ run[r].managed
  /\ Show(r, run[r])
  /\ UNCHANGED handles

(* Minimised from the page or the taskbar, and back.                       *)
Iconify(r) ==
  /\ InLoop(r) /\ Visible(r)
  /\ run' = [run EXCEPT ![r].window = IF @ = "visible" THEN "iconic" ELSE "visible"]
  /\ UNCHANGED <<handles, unlabelled, faults>>

(* Fault: closing hides the window, tray or not.                           *)
HidesAnyway(r, closeToTray) == closeToTray /\ ~run[r].quitting

HidesToTray(r, closeToTray) ==
  run[r].managed /\ closeToTray /\ ~run[r].quitting

(* CloseRequested, with the setting as it is read from the file.  The last *)
(* window's end is the program's.                                          *)
CloseRequested(r, closeToTray) ==
  /\ InLoop(r) /\ Visible(r)
  /\ \/ /\ HidesToTray(r, closeToTray)
        /\ Hide(r, run[r])
     \/ /\ ~HidesToTray(r, closeToTray)
        /\ run' = [run EXCEPT ![r].window = "none", ![r].ending = TRUE]
        /\ UNCHANGED <<unlabelled, faults>>
  /\ UNCHANGED handles

(* request_quit, from the tray menu.                                       *)
Quit(r) ==
  /\ InLoop(r) /\ run[r].managed
  /\ run' = [run EXCEPT ![r].quitting = TRUE, ![r].ending = TRUE]
  /\ UNCHANGED <<handles, unlabelled, faults>>

Ends(r) == InLoop(r) /\ run[r].ending /\ Gone(r) /\ UNCHANGED faults

(* A crash, a kill, or the installer of an update.                         *)
Killed(r) == run[r].phase # "off" /\ Gone(r) /\ Fault

-----------------------------------------------------------------------------
WindowInit ==
  /\ run = [r \in Runs |-> Off]
  /\ handles = {} /\ unlabelled = {} /\ faults = 0

(* What the user and the page's loading decide.                            *)
WindowEvent(r) ==
  \/ \E minimised \in BOOLEAN : Start(r, minimised)
  \/ Toggle(r) \/ DoubleClick(r) \/ Iconify(r) \/ Quit(r)
  \/ \E closeToTray \in BOOLEAN : CloseRequested(r, closeToTray)

(* What the program does by itself.                                        *)
WindowStep(r) == Claim(r) \/ Focus(r) \/ SetUp(r) \/ PageActs(r) \/ WatchdogWakes(r)

Stops(r) == Ends(r) \/ SetUpFails(r) \/ Killed(r)

WindowNext ==
  \E r \in Runs : WindowEvent(r) \/ WindowStep(r) \/ PageLoads(r) \/ Stops(r)

WindowSpec == WindowInit /\ [][WindowNext]_windowVars

-----------------------------------------------------------------------------
WindowTypeOK ==
  /\ run \in [Runs -> Run]
  /\ handles \subseteq Runs /\ unlabelled \subseteq Runs
  /\ faults \in 0 .. MaxFaults
  /\ \A r \in Runs : run[r].window = "none" => ~IsInstance(r) \/ run[r].phase = "build" \/ run[r].ending
  /\ \A r \in Runs : ~IsInstance(r) \/ run[r].phase = "build" => run[r].window = "none"

(* Of the starts that could open the mutex, one is the instance, whatever  *)
(* is killed or restarted at any step (acquire_or_focus_existing).         *)
OneInstance ==
  \A r, s \in handles : IsInstance(r) /\ IsInstance(s) => r = s

(* The toggle item says what the toggle will do, in whatever order the     *)
(* page loads and the tray is set up, unless another start showed the      *)
(* window or a call was refused (sync_toggle_label_from_window and the     *)
(* label calls of show_main_window and hide_main_window).                  *)
LabelAgrees ==
  \A r \in Runs :
    InLoop(r) /\ run[r].managed /\ run[r].window # "none" /\ r \notin unlabelled
      => run[r].label = Label(Visible(r))

(* A program whose tray failed shows its window: it is never running where *)
(* nobody can get at it, one refused call granted (setup, which fails on a *)
(* minimised start, and the tray_available of the close handler).          *)
Reachable ==
  \A r \in Runs :
    InLoop(r) /\ ~run[r].managed /\ ~run[r].ending /\ run[r].page = "handled" /\ faults < 2
      => Visible(r)
=============================================================================
