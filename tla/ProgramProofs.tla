--------------------------- MODULE ProgramProofs ----------------------------
(***************************************************************************)
(* The program does to each of its components only what the component's    *)
(* own specification allows, so that what is proved of the window and of   *)
(* the launch command alone holds of them together, for any number of      *)
(* starts, commands, paths and faults and any bounds.                      *)
(***************************************************************************)
EXTENDS Program, FiniteSetTheorems, TLAPS

-----------------------------------------------------------------------------
(***************************************************************************)
(* The window: one instance, a truthful label and a window within reach,   *)
(* for any number of starts and faults.                                    *)
(***************************************************************************)
(* A start that is no instance, or has created no window yet.              *)
Early(r) == run[r].phase \in {"off", "start", "focus", "build"}

(* What belongs together in a start's state.                               *)
PhaseInv(r) ==
  /\ run[r].window = "none" => Early(r) \/ run[r].ending
  /\ Early(r) => /\ run[r].window = "none" /\ run[r].page = "loading"
                 /\ ~run[r].managed /\ ~run[r].ending
  /\ run[r].managed => run[r].phase \in {"query", "label", "loop"}
  /\ run[r].phase \in {"query", "label"} => run[r].managed
  /\ run[r].ending => InLoop(r)
  /\ run[r].watchdog = "armed" => InLoop(r)

(* What set-up has seen of the window is so, and then the label is.        *)
LabelInv(r) ==
  /\ run[r].phase = "label" => run[r].seen = Visible(r) \/ r \in unlabelled
  /\ InLoop(r) /\ run[r].managed /\ run[r].window # "none" /\ r \notin unlabelled
       => run[r].label = Label(Visible(r))

(* A tray that failed is one fault, a page that could not show the window  *)
(* another.                                                                *)
ReachInv(r) ==
  /\ InLoop(r) /\ ~run[r].managed => ~run[r].minimised /\ faults >= 1
  /\ ~Early(r) /\ ~run[r].managed /\ ~run[r].minimised /\ run[r].page = "handled"
       /\ ~Visible(r) /\ ~run[r].ending
     => faults >= 1 /\ (InLoop(r) => faults >= 2)

RunInv(r) == PhaseInv(r) /\ LabelInv(r) /\ ReachInv(r)

(* Who holds a handle has asked for the mutex.                             *)
HandleInv == \A r \in handles : run[r].phase \notin {"off", "start"}

Typed ==
  /\ run \in [Runs -> Run]
  /\ handles \subseteq Runs /\ unlabelled \subseteq Runs
  /\ faults \in 0 .. MaxFaults

WInv == Typed /\ HandleInv /\ OneInstance /\ \A r \in Runs : RunInv(r)

USE WindowAssumption

-----------------------------------------------------------------------------
(* A step that moves one start only.                                       *)
Alone(r, x) ==
  /\ run' = [run EXCEPT ![r] = x] /\ x \in Run
  /\ unlabelled' \subseteq Runs
  /\ \A s \in Runs : s # r => (s \in unlabelled' <=> s \in unlabelled)
  /\ faults' \in 0 .. MaxFaults /\ faults <= faults'

LEMMA OthersKeep ==
  ASSUME WInv, NEW s \in Runs, run'[s] = run[s], s \in unlabelled' <=> s \in unlabelled,
         faults' \in Nat, faults <= faults'
  PROVE  RunInv(s)'
  <1>1. PhaseInv(s)'
    BY DEF WInv, RunInv, PhaseInv, Early, InLoop
  <1>2. LabelInv(s)'
    BY DEF WInv, RunInv, LabelInv, InLoop, Visible, Label
  <1>3. ReachInv(s)'
    BY DEF WInv, RunInv, ReachInv, InLoop, Visible, Early, Typed
  <1> QED
    BY <1>1, <1>2, <1>3 DEF RunInv

(* A start whose standing with the mutex does not change.                  *)
LEMMA AloneOK ==
  ASSUME WInv, NEW r \in Runs, NEW x, Alone(r, x), RunInv(r)', UNCHANGED handles,
         x.phase \notin {"off", "start"},
         x.phase \notin {"off", "start", "focus"} => IsInstance(r)
  PROVE  WInv'
  <1>1. /\ run' \in [Runs -> Run] /\ run'[r] = x
        /\ \A s \in Runs : s # r => run'[s] = run[s]
    BY DEF WInv, Typed, Alone
  <1>2. Typed'
    BY <1>1 DEF WInv, Typed, Alone
  <1>3. HandleInv'
    BY <1>1 DEF WInv, HandleInv, Typed
  <1>4. \A s \in Runs : IsInstance(s)' => IsInstance(s)
    BY <1>1 DEF IsInstance
  <1>5. OneInstance'
    BY <1>4 DEF WInv, OneInstance, Typed
  <1>6. \A s \in Runs : RunInv(s)'
    BY <1>1, OthersKeep DEF Alone
  <1> QED
    BY <1>2, <1>3, <1>5, <1>6 DEF WInv

LEMMA OffOK == Off \in Run /\ Off.phase = "off" /\ Off.window = "none" /\ Off.page = "loading"
               /\ ~Off.managed /\ ~Off.ending /\ Off.watchdog = "unset"
  BY DEF Off, Run, Phase

(* A start that is gone.                                                   *)
LEMMA GoneOK ==
  ASSUME WInv, NEW r \in Runs, Gone(r), faults' \in 0 .. MaxFaults, faults <= faults'
  PROVE  WInv'
  <1>1. /\ run' \in [Runs -> Run] /\ run'[r] = Off
        /\ \A s \in Runs : s # r => run'[s] = run[s]
        /\ handles' = handles \ {r} /\ unlabelled' = unlabelled \ {r}
    BY OffOK DEF Gone, WInv, Typed
  <1>2. Typed'
    BY <1>1 DEF WInv, Typed
  <1>3. HandleInv' /\ OneInstance'
    BY <1>1 DEF WInv, HandleInv, OneInstance, Typed, IsInstance
  <1>4. RunInv(r)'
    BY <1>1, OffOK DEF RunInv, PhaseInv, LabelInv, ReachInv, Early, InLoop, Visible
  <1>5. \A s \in Runs : RunInv(s)'
    BY <1>1, <1>4, OthersKeep
  <1> QED
    BY <1>2, <1>3, <1>5 DEF WInv

LEMMA WindowInitOK == WindowInit => WInv
  <1> SUFFICES ASSUME WindowInit PROVE WInv
    OBVIOUS
  <1>1. \A r \in Runs : run[r] = Off
    BY DEF WindowInit
  <1>2. Typed /\ HandleInv /\ OneInstance
    BY OffOK DEF WindowInit, Typed, HandleInv, OneInstance
  <1>3. \A r \in Runs : RunInv(r)
    BY <1>1, OffOK DEF RunInv, PhaseInv, LabelInv, ReachInv, Early, InLoop, Visible
  <1> QED
    BY <1>2, <1>3 DEF WInv

-----------------------------------------------------------------------------
LEMMA FaultOK ==
  ASSUME WInv, Fault \/ UNCHANGED faults
  PROVE  /\ faults' \in 0 .. MaxFaults /\ faults <= faults' /\ faults \in Nat
         /\ Fault => faults' = faults + 1
  BY DEF Fault, WInv, Typed

LEMMA StartOK ==
  ASSUME WInv, NEW r \in Runs, NEW minimised \in BOOLEAN, Start(r, minimised)
  PROVE  WInv'
  <1> DEFINE x == [run[r] EXCEPT !.phase = "start", !.minimised = minimised]
  <1>1. run' = [run EXCEPT ![r] = x] /\ run \in [Runs -> Run] /\ run[r] \in Run
    BY DEF Start, WInv, Typed
  <1>2. /\ x \in Run /\ x.phase = "start" /\ x.window = run[r].window /\ x.page = run[r].page
        /\ x.managed = run[r].managed /\ x.ending = run[r].ending /\ x.watchdog = run[r].watchdog
    BY <1>1 DEF Run, Phase
  <1> HIDE DEF x
  <1>3. /\ run' \in [Runs -> Run] /\ run'[r] = x
        /\ \A s \in Runs : s # r => run'[s] = run[s]
        /\ handles' = handles /\ unlabelled' = unlabelled
        /\ faults' \in 0 .. MaxFaults /\ faults <= faults'
    BY <1>1, <1>2, FaultOK DEF Start
  <1>4. Typed'
    BY <1>3 DEF WInv, Typed
  <1>5. r \notin handles
    BY DEF Start, WInv, HandleInv
  <1>6. HandleInv' /\ OneInstance'
    BY <1>3, <1>5 DEF WInv, HandleInv, OneInstance, Typed, IsInstance
  <1>7. RunInv(r)'
    <2>1. run[r].phase = "off" /\ PhaseInv(r)
      BY DEF Start, WInv, RunInv
    <2> QED
      BY <1>2, <1>3, <2>1 DEF RunInv, PhaseInv, LabelInv, ReachInv, Early, InLoop, Visible
  <1>8. \A s \in Runs : RunInv(s)'
    BY <1>3, <1>7, OthersKeep
  <1> QED
    BY <1>4, <1>6, <1>8 DEF WInv

(* Who opens the mutex first is the only one with a handle.                *)
LEMMA ClaimOK ==
  ASSUME WInv, NEW r \in Runs, Claim(r)
  PROVE  WInv'
  <1>1. PICK phase \in {"focus", "build"} :
          /\ run' = [run EXCEPT ![r].phase = phase]
          /\ \/ handles' = handles \cup {r} /\ (phase = "build" => handles = {})
             \/ handles' = handles /\ phase = "build"
    BY DEF Claim, AlreadyExists
  <1> DEFINE x == [run[r] EXCEPT !.phase = phase]
  <1>2. run' = [run EXCEPT ![r] = x] /\ run \in [Runs -> Run] /\ run[r] \in Run
    BY <1>1 DEF WInv, Typed
  <1>3. /\ x \in Run /\ x.phase = phase /\ x.window = run[r].window /\ x.page = run[r].page
        /\ x.managed = run[r].managed /\ x.ending = run[r].ending /\ x.watchdog = run[r].watchdog
    BY <1>2 DEF Run, Phase
  <1> HIDE DEF x
  <1>4. /\ run' \in [Runs -> Run] /\ run'[r] = x
        /\ \A s \in Runs : s # r => run'[s] = run[s]
        /\ unlabelled' = unlabelled
        /\ faults' \in 0 .. MaxFaults /\ faults <= faults'
    BY <1>2, <1>3, FaultOK DEF Claim
  <1>5. run[r].phase = "start" /\ r \notin handles
    BY DEF Claim, WInv, HandleInv
  <1>6. Typed' /\ HandleInv'
    BY <1>1, <1>3, <1>4 DEF WInv, Typed, HandleInv
  <1>7. OneInstance'
    BY <1>1, <1>3, <1>4, <1>5 DEF WInv, OneInstance, Typed, IsInstance
  <1>8. RunInv(r)'
    <2>1. PhaseInv(r)
      BY DEF WInv, RunInv
    <2> QED
      BY <1>3, <1>4, <1>5, <2>1 DEF RunInv, PhaseInv, LabelInv, ReachInv, Early, InLoop, Visible
  <1>9. \A s \in Runs : RunInv(s)'
    BY <1>4, <1>8, OthersKeep
  <1> QED
    BY <1>6, <1>7, <1>9 DEF WInv

(* A second start shows the window of somebody who has one, who is then    *)
(* unlabelled if it was hidden.                                            *)
LEMMA FocusOK ==
  ASSUME WInv, NEW r \in Runs, Focus(r)
  PROVE  WInv'
  <1>1. run \in [Runs -> Run] /\ run[r].phase = "focus" /\ handles' = handles \ {r}
    BY DEF Focus, WInv, Typed
  <1>2. CASE /\ Granted(Titled = {})
             /\ run' = [run EXCEPT ![r] = Off]
             /\ UNCHANGED unlabelled
    <2>1. faults' \in 0 .. MaxFaults /\ faults <= faults'
      BY <1>2, FaultOK DEF Granted
    <2>2. /\ run' \in [Runs -> Run] /\ run'[r] = Off
          /\ \A s \in Runs : s # r => run'[s] = run[s]
      BY <1>1, <1>2, OffOK
    <2>3. Typed' /\ HandleInv' /\ OneInstance'
      BY <1>1, <1>2, <2>1, <2>2 DEF WInv, Typed, HandleInv, OneInstance, IsInstance
    <2>4. RunInv(r)'
      BY <1>1, <2>2, OffOK DEF RunInv, PhaseInv, LabelInv, ReachInv, Early, InLoop, Visible
    <2>5. \A s \in Runs : RunInv(s)'
      BY <1>2, <2>1, <2>2, <2>4, OthersKeep
    <2> QED
      BY <2>3, <2>5 DEF WInv
  <1>3. ASSUME NEW i \in Titled,
               run' = [run EXCEPT ![r] = Off, ![i].window = "visible"],
               unlabelled' = IF Visible(i) THEN unlabelled ELSE unlabelled \cup {i},
               UNCHANGED faults
        PROVE  WInv'
    <2> DEFINE x == [run[i] EXCEPT !.window = "visible"]
    <2>1. i \in Runs /\ ~Early(i) /\ i # r /\ PhaseInv(i)
      BY <1>1 DEF Titled, WInv, RunInv, PhaseInv, Early
    <2>2. /\ x \in Run /\ x.window = "visible" /\ x.phase = run[i].phase /\ x.page = run[i].page
          /\ x.managed = run[i].managed /\ x.ending = run[i].ending /\ x.label = run[i].label
          /\ x.watchdog = run[i].watchdog /\ x.seen = run[i].seen /\ x.minimised = run[i].minimised
      BY <1>1, <2>1 DEF Run
    <2>3. run' = [run EXCEPT ![r] = Off, ![i] = x]
      BY <1>1, <1>3, <2>1
    <2> HIDE DEF x
    <2>4. /\ run' \in [Runs -> Run] /\ run'[r] = Off /\ run'[i] = x
          /\ \A s \in Runs : s # r /\ s # i => run'[s] = run[s]
      BY <1>1, <2>1, <2>2, <2>3, OffOK
    <2>5. faults' \in 0 .. MaxFaults /\ faults <= faults'
      BY <1>3, FaultOK
    <2>6. Typed' /\ HandleInv'
      BY <1>1, <1>3, <2>1, <2>2, <2>4, <2>5 DEF WInv, Typed, HandleInv
    <2>7. OneInstance'
      BY <1>1, <2>1, <2>2, <2>4, OffOK DEF WInv, OneInstance, IsInstance, Typed
    <2>8. RunInv(r)'
      BY <2>4, OffOK DEF RunInv, PhaseInv, LabelInv, ReachInv, Early, InLoop, Visible
    <2>9. RunInv(i)'
      <3>1. PhaseInv(i)'
        BY <2>1, <2>2, <2>4 DEF PhaseInv, Early, InLoop
      <3>2. LabelInv(i)'
        BY <1>3, <2>1, <2>2, <2>4 DEF LabelInv, InLoop, Visible, Label, WInv, RunInv, PhaseInv, Titled
      <3>3. ReachInv(i)'
        BY <1>3, <2>1, <2>2, <2>4 DEF ReachInv, InLoop, Visible, Early, WInv, RunInv
      <3> QED
        BY <3>1, <3>2, <3>3 DEF RunInv
    <2>10. \A s \in Runs : s # r /\ s # i => RunInv(s)'
      BY <1>3, <2>4, <2>5, OthersKeep
    <2> QED
      BY <2>6, <2>7, <2>8, <2>9, <2>10 DEF WInv
  <1> QED
    BY <1>2, <1>3 DEF Focus

-----------------------------------------------------------------------------
(* was: the start's state before its window is shown or hidden, with the   *)
(* page's load handled or not.                                             *)
Before(r, was) == was = run[r] \/ was = [run[r] EXCEPT !.page = "handled"]

LEMMA BeforeOK ==
  ASSUME WInv, NEW r \in Runs, NEW was, Before(r, was)
  PROVE  /\ was \in Run /\ was.window = run[r].window /\ was.phase = run[r].phase
         /\ was.managed = run[r].managed /\ was.ending = run[r].ending /\ was.label = run[r].label
         /\ was.watchdog = run[r].watchdog /\ was.seen = run[r].seen
         /\ was.minimised = run[r].minimised
  BY DEF WInv, Typed, Before, Run

(* What showing and hiding leave of the state.                             *)
Keeps(x, was) ==
  /\ x.phase = was.phase /\ x.managed = was.managed /\ x.ending = was.ending
  /\ x.watchdog = was.watchdog /\ x.seen = was.seen /\ x.minimised = was.minimised
  /\ x.page = was.page

ShowOutcome(r, was, x) ==
  \/ x = was /\ was.window = "none" /\ unlabelled' = unlabelled
  \/ /\ was.window # "none" /\ x.window = "visible" /\ (was.managed => x.label = "hide")
  \/ /\ was.window # "none" /\ x.window = "visible" /\ r \in unlabelled'
  \/ /\ was.window # "none" /\ x.window # "none" /\ x.label = was.label
     /\ x.window \in {"visible", "iconic"} <=> was.window \in {"visible", "iconic"}
     /\ unlabelled' = unlabelled /\ faults' = faults + 1

LEMMA ShowOK ==
  ASSUME WInv, NEW r \in Runs, NEW was, Before(r, was), Show(r, was)
  PROVE  \E x : Alone(r, x) /\ Keeps(x, was) /\ ShowOutcome(r, was, x)
  <1>1. was \in Run /\ run \in [Runs -> Run] /\ unlabelled \subseteq Runs
    BY BeforeOK DEF WInv, Typed
  <1>2. CASE was.window = "none"
    <2>1. run' = [run EXCEPT ![r] = was] /\ UNCHANGED <<unlabelled, faults>>
      BY <1>2 DEF Show
    <2> QED
      BY <1>1, <1>2, <2>1, FaultOK DEF Alone, Keeps, ShowOutcome
  <1>3. CASE was.window # "none"
    <2>1. PICK done \in 0 .. 3 :
            /\ Granted(done = 3)
            /\ run' = [run EXCEPT ![r] =
                        [was EXCEPT !.window = ShownWindow(@, done),
                                    !.label = IF done = 3 /\ was.managed THEN "hide" ELSE @]]
            /\ unlabelled' = CASE done = 3 -> unlabelled \ {r}
                               [] done = 2 /\ was.window = "hidden" -> unlabelled \cup {r}
                               [] OTHER -> unlabelled
      BY <1>3 DEF Show
    <2> DEFINE x == [was EXCEPT !.window = ShownWindow(was.window, done),
                                !.label = IF done = 3 /\ was.managed THEN "hide" ELSE was.label]
    <2>2. /\ ShownWindow(was.window, done) \in {"hidden", "visible", "iconic"}
          /\ done > 1 => ShownWindow(was.window, done) = "visible"
          /\ done < 2 => (ShownWindow(was.window, done) \in {"visible", "iconic"}
                            <=> was.window \in {"visible", "iconic"})
      BY <1>1, <1>3 DEF ShownWindow, Run
    <2>3. /\ x \in Run /\ Keeps(x, was) /\ x.window = ShownWindow(was.window, done)
          /\ x.label = IF done = 3 /\ was.managed THEN "hide" ELSE was.label
      BY <1>1, <2>2 DEF Run, Keeps
    <2>4. run' = [run EXCEPT ![r] = x]
      BY <1>1, <2>1 DEF Run
    <2> HIDE DEF x
    <2>5. /\ faults' \in 0 .. MaxFaults /\ faults <= faults'
          /\ done # 3 => faults' = faults + 1
      BY <2>1, FaultOK DEF Granted
    <2>6. Alone(r, x)
      BY <1>1, <2>1, <2>3, <2>4, <2>5 DEF Alone
    <2>7. ShowOutcome(r, was, x)
      <3>1. CASE done = 3
        BY <1>3, <2>2, <2>3, <3>1 DEF ShowOutcome
      <3>2. CASE done = 2 /\ was.window = "hidden"
        BY <1>3, <2>1, <2>2, <2>3, <3>2 DEF ShowOutcome
      <3>3. CASE done = 2 /\ was.window # "hidden"
        <4>1. was.window \in {"visible", "iconic"} /\ x.window = "visible" /\ x.label = was.label
          BY <1>1, <1>3, <2>2, <2>3, <3>3 DEF Run
        <4>2. unlabelled' = unlabelled /\ faults' = faults + 1
          BY <2>1, <2>5, <3>3
        <4> QED
          BY <1>3, <4>1, <4>2 DEF ShowOutcome
      <3>4. CASE done < 2
        <4>1. x.window # "none" /\ x.label = was.label
          BY <2>2, <2>3, <3>4
        <4>2. x.window \in {"visible", "iconic"} <=> was.window \in {"visible", "iconic"}
          BY <2>2, <2>3, <3>4
        <4>3. unlabelled' = unlabelled /\ faults' = faults + 1
          BY <2>1, <2>5, <3>4
        <4> QED
          BY <1>3, <4>1, <4>2, <4>3 DEF ShowOutcome
      <3> QED
        BY <3>1, <3>2, <3>3, <3>4
    <2> QED
      BY <2>3, <2>6, <2>7
  <1> QED
    BY <1>2, <1>3

LEMMA ShowKeeps ==
  ASSUME WInv, NEW r \in Runs, NEW was, Before(r, was), Show(r, was), ~Early(r), SyncFree(r),
         UNCHANGED handles
  PROVE  WInv'
  <1>1. PICK x : Alone(r, x) /\ Keeps(x, was) /\ ShowOutcome(r, was, x)
    BY ShowOK
  <1>2. run'[r] = x
    BY <1>1 DEF Alone, WInv, Typed
  <1>3. /\ was.window = run[r].window /\ was.phase = run[r].phase /\ was.managed = run[r].managed
        /\ was.ending = run[r].ending /\ was.label = run[r].label
        /\ was.watchdog = run[r].watchdog /\ was.minimised = run[r].minimised
    BY BeforeOK
  <1>4. PhaseInv(r) /\ LabelInv(r) /\ ReachInv(r) /\ faults \in Nat /\ faults' \in Nat /\ faults <= faults'
    BY <1>1 DEF WInv, RunInv, Typed, Alone
  <1>5. PhaseInv(r)'
    BY <1>1, <1>2, <1>3, <1>4 DEF PhaseInv, Early, InLoop, Keeps, ShowOutcome
  <1>6. LabelInv(r)'
    BY <1>1, <1>2, <1>3, <1>4 DEF LabelInv, InLoop, Keeps, ShowOutcome, SyncFree, Visible, Label
  <1>7. ReachInv(r)'
    BY <1>1, <1>2, <1>3, <1>4 DEF ReachInv, PhaseInv, Early, InLoop, Keeps, ShowOutcome, Visible
  <1>8. /\ x.phase \notin {"off", "start"}
        /\ x.phase \notin {"off", "start", "focus"} => IsInstance(r)
    BY <1>1, <1>3 DEF Keeps, Early, IsInstance
  <1> QED
    BY <1>1, <1>5, <1>6, <1>7, <1>8, AloneOK DEF RunInv

HideOutcome(was, x) ==
  \/ x.window = was.window /\ x.label = was.label /\ unlabelled' = unlabelled
  \/ was.window # "none" /\ x.window = "hidden" /\ (was.managed => x.label = "open")

LEMMA HideOK ==
  ASSUME WInv, NEW r \in Runs, NEW was, Before(r, was), Hide(r, was)
  PROVE  \E x : Alone(r, x) /\ Keeps(x, was) /\ HideOutcome(was, x)
  <1>1. was \in Run /\ run \in [Runs -> Run] /\ unlabelled \subseteq Runs
    BY BeforeOK DEF WInv, Typed
  <1>2. CASE was.window = "none"
    BY <1>1, <1>2, FaultOK DEF Hide, Alone, Keeps, HideOutcome
  <1>3. CASE was.window # "none"
    <2>1. PICK ok \in BOOLEAN :
            /\ Granted(ok)
            /\ run' = [run EXCEPT ![r] =
                        [was EXCEPT !.window = IF ok THEN "hidden" ELSE @,
                                    !.label = IF ok /\ was.managed THEN "open" ELSE @]]
            /\ unlabelled' = IF ok THEN unlabelled \ {r} ELSE unlabelled
      BY <1>3 DEF Hide
    <2> DEFINE x == [was EXCEPT !.window = IF ok THEN "hidden" ELSE was.window,
                                !.label = IF ok /\ was.managed THEN "open" ELSE was.label]
    <2>2. /\ x \in Run /\ Keeps(x, was) /\ x.window = IF ok THEN "hidden" ELSE was.window
          /\ x.label = IF ok /\ was.managed THEN "open" ELSE was.label
      BY <1>1 DEF Run, Keeps
    <2>3. run' = [run EXCEPT ![r] = x]
      BY <1>1, <2>1 DEF Run
    <2> HIDE DEF x
    <2>4. faults' \in 0 .. MaxFaults /\ faults <= faults'
      BY <2>1, FaultOK DEF Granted
    <2>5. Alone(r, x)
      BY <1>1, <2>1, <2>2, <2>3, <2>4 DEF Alone
    <2>6. HideOutcome(was, x)
      BY <1>3, <2>1, <2>2 DEF HideOutcome
    <2> QED
      BY <2>2, <2>5, <2>6
  <1> QED
    BY <1>2, <1>3

LEMMA HideKeeps ==
  ASSUME WInv, NEW r \in Runs, NEW was, Before(r, was), Hide(r, was), ~Early(r), SyncFree(r),
         run[r].managed \/ run[r].minimised, UNCHANGED handles
  PROVE  WInv'
  <1>1. PICK x : Alone(r, x) /\ Keeps(x, was) /\ HideOutcome(was, x)
    BY HideOK
  <1>2. run'[r] = x
    BY <1>1 DEF Alone, WInv, Typed
  <1>3. /\ was.window = run[r].window /\ was.phase = run[r].phase /\ was.managed = run[r].managed
        /\ was.ending = run[r].ending /\ was.label = run[r].label
        /\ was.watchdog = run[r].watchdog /\ was.minimised = run[r].minimised
    BY BeforeOK
  <1>4. PhaseInv(r) /\ LabelInv(r) /\ ReachInv(r) /\ faults \in Nat /\ faults' \in Nat /\ faults <= faults'
    BY <1>1 DEF WInv, RunInv, Typed, Alone
  <1>5. PhaseInv(r)'
    BY <1>1, <1>2, <1>3, <1>4 DEF PhaseInv, Early, InLoop, Keeps, HideOutcome
  <1>6. LabelInv(r)'
    BY <1>1, <1>2, <1>3, <1>4 DEF LabelInv, InLoop, Keeps, HideOutcome, SyncFree, Visible, Label
  <1>7. ReachInv(r)'
    BY <1>1, <1>2, <1>3, <1>4 DEF ReachInv, PhaseInv, Early, InLoop, Keeps, HideOutcome, Visible
  <1>8. /\ x.phase \notin {"off", "start"}
        /\ x.phase \notin {"off", "start", "focus"} => IsInstance(r)
    BY <1>1, <1>3 DEF Keeps, Early, IsInstance
  <1> QED
    BY <1>1, <1>5, <1>6, <1>7, <1>8, AloneOK DEF RunInv

-----------------------------------------------------------------------------
(* Steps that write plain fields of one start.                             *)
LEMMA Plain ==
  ASSUME WInv, NEW r \in Runs, NEW x \in Run, run' = [run EXCEPT ![r] = x],
         unlabelled' \subseteq Runs,
         \A s \in Runs : s # r => (s \in unlabelled' <=> s \in unlabelled),
         Fault \/ UNCHANGED faults
  PROVE  Alone(r, x) /\ run'[r] = x
  BY FaultOK DEF WInv, Typed, Alone

LEMMA CreateWindowOK ==
  ASSUME WInv, NEW r \in Runs, CreateWindow(r)
  PROVE  WInv'
  <1> DEFINE x == [run[r] EXCEPT !.phase = "tray", !.window = "hidden"]
  <1>1. run' = [run EXCEPT ![r] = x] /\ run[r] \in Run /\ run[r].phase = "build"
    BY DEF CreateWindow, WInv, Typed
  <1>2. /\ x \in Run /\ x.phase = "tray" /\ x.window = "hidden" /\ x.page = run[r].page
        /\ x.managed = run[r].managed /\ x.ending = run[r].ending /\ x.watchdog = run[r].watchdog
    BY <1>1 DEF Run, Phase
  <1> HIDE DEF x
  <1>3. Alone(r, x) /\ run'[r] = x
    BY <1>1, <1>2, Plain DEF CreateWindow, WInv, Typed
  <1>4. RunInv(r)'
    <2>1. PhaseInv(r)
      BY DEF WInv, RunInv
    <2> QED
      BY <1>1, <1>2, <1>3, <2>1 DEF RunInv, PhaseInv, LabelInv, ReachInv, Early, InLoop
  <1> QED
    BY <1>1, <1>2, <1>3, <1>4, AloneOK DEF CreateWindow, IsInstance

LEMMA ServingOK ==
  ASSUME NEW w \in Run
  PROVE  /\ Serving(w) \in Run /\ Serving(w).phase = "loop" /\ Serving(w).window = w.window
         /\ Serving(w).page = w.page /\ Serving(w).managed = w.managed
         /\ Serving(w).ending = w.ending /\ Serving(w).minimised = w.minimised
         /\ Serving(w).label = w.label
  BY DEF Serving, Run, Phase

LEMMA BuildTrayOK ==
  ASSUME WInv, NEW r \in Runs, BuildTray(r)
  PROVE  WInv'
  <1>1. /\ run[r].phase = "tray" /\ run[r] \in Run /\ handles' = handles /\ unlabelled' = unlabelled
        /\ PhaseInv(r) /\ LabelInv(r) /\ ReachInv(r) /\ unlabelled \subseteq Runs
    BY DEF BuildTray, WInv, RunInv, Typed
  <1>2. CASE run' = [run EXCEPT ![r].phase = "manage"] /\ UNCHANGED <<handles, unlabelled, faults>>
    <2> DEFINE x == [run[r] EXCEPT !.phase = "manage"]
    <2>1. run' = [run EXCEPT ![r] = x]
      BY <1>2
    <2>2. /\ x \in Run /\ x.phase = "manage" /\ x.window = run[r].window /\ x.page = run[r].page
          /\ x.managed = run[r].managed /\ x.ending = run[r].ending /\ x.watchdog = run[r].watchdog
          /\ x.minimised = run[r].minimised
      BY <1>1 DEF Run, Phase
    <2> HIDE DEF x
    <2>3. Alone(r, x) /\ run'[r] = x
      BY <1>1, <1>2, <2>1, <2>2, Plain
    <2>4. RunInv(r)'
      BY <1>1, <1>2, <2>2, <2>3 DEF RunInv, PhaseInv, LabelInv, ReachInv, Early, InLoop, Visible
    <2> QED
      BY <1>1, <2>2, <2>3, <2>4, AloneOK DEF IsInstance
  <1>3. CASE /\ Fault /\ ~NeedsTray(r)
             /\ run' = [run EXCEPT ![r] = Serving(@)]
    <2> DEFINE x == Serving(run[r])
    <2>1. run' = [run EXCEPT ![r] = x]
      BY <1>3, <1>1 DEF WInv, Typed
    <2>2. /\ x \in Run /\ x.phase = "loop" /\ x.window = run[r].window /\ x.page = run[r].page
          /\ x.managed = run[r].managed /\ x.ending = run[r].ending /\ x.minimised = run[r].minimised
      BY <1>1, ServingOK
    <2> HIDE DEF x
    <2>3. Alone(r, x) /\ run'[r] = x
      BY <1>1, <1>3, <2>1, <2>2, Plain
    <2>4. faults' = faults + 1 /\ faults \in Nat /\ ~run[r].minimised
      BY <1>3, FaultOK DEF NeedsTray
    <2>5. PhaseInv(r)' /\ LabelInv(r)'
      BY <1>1, <2>2, <2>3 DEF PhaseInv, LabelInv, Early, InLoop, Visible
    <2>6. ReachInv(r)'
      BY <1>1, <2>2, <2>3, <2>4 DEF ReachInv, PhaseInv, Early, InLoop, Visible
    <2> QED
      BY <1>1, <2>2, <2>3, <2>5, <2>6, AloneOK DEF RunInv, IsInstance
  <1> QED
    BY <1>2, <1>3 DEF BuildTray

LEMMA ManageOK ==
  ASSUME WInv, NEW r \in Runs, Manage(r)
  PROVE  WInv'
  <1> DEFINE x == [run[r] EXCEPT !.phase = "query", !.managed = TRUE]
  <1>1. /\ run' = [run EXCEPT ![r] = x] /\ run[r] \in Run /\ run[r].phase = "manage"
        /\ PhaseInv(r)
    BY DEF Manage, WInv, Typed, RunInv
  <1>2. /\ x \in Run /\ x.phase = "query" /\ x.window = run[r].window /\ x.page = run[r].page
        /\ x.managed /\ x.ending = run[r].ending /\ x.watchdog = run[r].watchdog
    BY <1>1 DEF Run, Phase
  <1> HIDE DEF x
  <1>3. Alone(r, x) /\ run'[r] = x
    BY <1>1, <1>2, Plain DEF Manage, WInv, Typed
  <1>4. RunInv(r)'
    BY <1>1, <1>2, <1>3 DEF RunInv, PhaseInv, LabelInv, ReachInv, Early, InLoop
  <1> QED
    BY <1>1, <1>2, <1>3, <1>4, AloneOK DEF Manage, IsInstance

LEMMA QueryWindowOK ==
  ASSUME WInv, NEW r \in Runs, QueryWindow(r)
  PROVE  WInv'
  <1>1. PICK ok \in BOOLEAN :
          /\ Granted(ok)
          /\ run' = [run EXCEPT ![r].phase = "label", ![r].seen = ok /\ Visible(r)]
          /\ unlabelled' = IF ~ok /\ Visible(r) THEN unlabelled \cup {r} ELSE unlabelled
    BY DEF QueryWindow
  <1> DEFINE x == [run[r] EXCEPT !.phase = "label", !.seen = ok /\ Visible(r)]
  <1>2. /\ run' = [run EXCEPT ![r] = x] /\ run[r] \in Run /\ run[r].phase = "query"
        /\ PhaseInv(r) /\ handles' = handles /\ unlabelled \subseteq Runs
    BY <1>1 DEF QueryWindow, WInv, Typed, RunInv
  <1>3. (ok /\ Visible(r)) \in BOOLEAN
    BY DEF Visible
  <1>4. /\ x \in Run /\ x.phase = "label" /\ x.window = run[r].window /\ x.page = run[r].page
        /\ x.managed = run[r].managed /\ x.ending = run[r].ending /\ x.watchdog = run[r].watchdog
        /\ x.seen = (ok /\ Visible(r))
    BY <1>2, <1>3 DEF Run, Phase
  <1> HIDE DEF x
  <1>5. Alone(r, x) /\ run'[r] = x
    BY <1>1, <1>2, <1>4, Plain DEF Granted
  <1>6. PhaseInv(r)' /\ ReachInv(r)'
    BY <1>2, <1>4, <1>5 DEF PhaseInv, ReachInv, Early, InLoop
  <1>7. LabelInv(r)'
    <2>1. Visible(r)' <=> Visible(r)
      BY <1>4, <1>5 DEF Visible
    <2>2. run'[r].seen = Visible(r) \/ r \in unlabelled'
      BY <1>1, <1>4, <1>5 DEF Visible
    <2>3. run'[r].seen = Visible(r)' \/ r \in unlabelled'
      BY <2>1, <2>2 DEF Visible
    <2> QED
      BY <1>4, <1>5, <2>3 DEF LabelInv, InLoop
  <1> QED
    BY <1>2, <1>4, <1>5, <1>6, <1>7, AloneOK DEF RunInv, IsInstance

LEMMA SetLabelOK ==
  ASSUME WInv, NEW r \in Runs, SetLabel(r)
  PROVE  WInv'
  <1> DEFINE x == [Serving(run[r]) EXCEPT !.label = Label(run[r].seen)]
  <1>1. /\ run[r] \in Run /\ run[r].phase = "label" /\ run \in [Runs -> Run]
        /\ PhaseInv(r) /\ LabelInv(r) /\ handles' = handles /\ faults' = faults /\ unlabelled \subseteq Runs
        /\ unlabelled' = IF run[r].seen = Visible(r) THEN unlabelled \ {r} ELSE unlabelled
    BY DEF SetLabel, WInv, Typed, RunInv
  <1>2. run' = [run EXCEPT ![r] = x]
    BY <1>1 DEF SetLabel
  <1>3. /\ x \in Run /\ x.phase = "loop" /\ x.window = run[r].window /\ x.page = run[r].page
        /\ x.managed = run[r].managed /\ x.ending = run[r].ending
        /\ x.label = Label(run[r].seen)
    <2>1. Label(run[r].seen) \in {"open", "hide"}
      BY DEF Label
    <2> HIDE DEF Label
    <2> QED
      BY <1>1, <2>1, ServingOK DEF Run
  <1> HIDE DEF x
  <1>4. Alone(r, x) /\ run'[r] = x
    BY <1>1, <1>2, <1>3, Plain
  <1>5. PhaseInv(r)' /\ ReachInv(r)'
    BY <1>1, <1>3, <1>4 DEF PhaseInv, ReachInv, Early, InLoop
  <1>6. LabelInv(r)'
    <2>1. Visible(r)' = Visible(r)
      BY <1>3, <1>4 DEF Visible
    <2>2. r \notin unlabelled' => run[r].seen = Visible(r)
      BY <1>1 DEF LabelInv
    <2> QED
      BY <1>3, <1>4, <2>1, <2>2 DEF LabelInv, InLoop
  <1> QED
    BY <1>1, <1>3, <1>4, <1>5, <1>6, AloneOK DEF RunInv, IsInstance

LEMMA PageLoadsOK ==
  ASSUME WInv, NEW r \in Runs, PageLoads(r)
  PROVE  WInv'
  <1> DEFINE x == [run[r] EXCEPT !.page = "loaded"]
  <1>1. /\ run' = [run EXCEPT ![r] = x] /\ run[r] \in Run /\ run[r].window # "none"
        /\ PhaseInv(r) /\ LabelInv(r) /\ ReachInv(r)
        /\ handles' = handles /\ unlabelled' = unlabelled /\ faults' = faults
    BY DEF PageLoads, WInv, Typed, RunInv
  <1>2. /\ x \in Run /\ x.phase = run[r].phase /\ x.window = run[r].window /\ x.page = "loaded"
        /\ x.managed = run[r].managed /\ x.ending = run[r].ending /\ x.watchdog = run[r].watchdog
        /\ x.seen = run[r].seen /\ x.label = run[r].label /\ x.minimised = run[r].minimised
    BY <1>1 DEF Run
  <1> HIDE DEF x
  <1>3. Alone(r, x) /\ run'[r] = x
    BY <1>1, <1>2, Plain DEF WInv, Typed
  <1>4. RunInv(r)'
    BY <1>1, <1>2, <1>3 DEF RunInv, PhaseInv, LabelInv, ReachInv, Early, InLoop, Visible
  <1> QED
    BY <1>1, <1>2, <1>3, <1>4, AloneOK DEF IsInstance, PhaseInv, Early

LEMMA PageActsOK ==
  ASSUME WInv, NEW r \in Runs, PageActs(r)
  PROVE  WInv'
  <1> DEFINE was == [run[r] EXCEPT !.page = "handled"]
  <1>1. /\ Before(r, was) /\ handles' = handles /\ SyncFree(r)
        /\ IF ShowsOnLoad(r) THEN Show(r, was) ELSE Hide(r, was)
    BY DEF PageActs, Before
  <1> HIDE DEF was
  <1>2. ~Early(r)
    BY DEF PageActs, WInv, RunInv, PhaseInv
  <1>3. CASE ShowsOnLoad(r)
    BY <1>1, <1>2, <1>3, ShowKeeps
  <1>4. CASE ~ShowsOnLoad(r)
    <2>1. run[r].minimised
      BY <1>4 DEF ShowsOnLoad
    <2> QED
      BY <1>1, <1>2, <1>4, <2>1, HideKeeps
  <1> QED
    BY <1>3, <1>4

LEMMA WatchdogWakesOK ==
  ASSUME WInv, NEW r \in Runs, WatchdogWakes(r)
  PROVE  WInv'
  <1> DEFINE x == [run[r] EXCEPT !.watchdog = "done", !.ending = @ \/ run[r].page = "loading"]
  <1>1. /\ run' = [run EXCEPT ![r] = x] /\ run[r] \in Run /\ InLoop(r)
        /\ PhaseInv(r) /\ LabelInv(r) /\ ReachInv(r)
        /\ handles' = handles /\ unlabelled' = unlabelled /\ faults' = faults
    BY DEF WatchdogWakes, WInv, Typed, RunInv, PhaseInv
  <1>2. /\ x \in Run /\ x.phase = run[r].phase /\ x.window = run[r].window /\ x.page = run[r].page
        /\ x.managed = run[r].managed /\ (run[r].ending => x.ending) /\ x.watchdog = "done"
        /\ x.seen = run[r].seen /\ x.label = run[r].label /\ x.minimised = run[r].minimised
    BY <1>1 DEF Run
  <1> HIDE DEF x
  <1>3. Alone(r, x) /\ run'[r] = x
    BY <1>1, <1>2, Plain DEF WInv, Typed
  <1>4. RunInv(r)'
    BY <1>1, <1>2, <1>3 DEF RunInv, PhaseInv, LabelInv, ReachInv, Early, InLoop, Visible
  <1> QED
    BY <1>1, <1>2, <1>3, <1>4, AloneOK DEF IsInstance, InLoop

-----------------------------------------------------------------------------
LEMMA LoopOK ==
  ASSUME NEW r \in Runs, InLoop(r)
  PROVE  ~Early(r) /\ SyncFree(r) /\ Before(r, run[r]) /\ IsInstance(r)
  BY DEF InLoop, Early, SyncFree, Before, IsInstance

LEMMA ToggleOK ==
  ASSUME WInv, NEW r \in Runs, Toggle(r)
  PROVE  WInv'
  BY LoopOK, ShowKeeps, HideKeeps DEF Toggle

LEMMA DoubleClickOK ==
  ASSUME WInv, NEW r \in Runs, DoubleClick(r)
  PROVE  WInv'
  BY LoopOK, ShowKeeps DEF DoubleClick

LEMMA IconifyOK ==
  ASSUME WInv, NEW r \in Runs, Iconify(r)
  PROVE  WInv'
  <1> DEFINE x == [run[r] EXCEPT !.window = IF @ = "visible" THEN "iconic" ELSE "visible"]
  <1>1. /\ run' = [run EXCEPT ![r] = x] /\ run[r] \in Run /\ InLoop(r) /\ Visible(r)
        /\ PhaseInv(r) /\ LabelInv(r) /\ ReachInv(r)
        /\ handles' = handles /\ unlabelled' = unlabelled /\ faults' = faults
    BY DEF Iconify, WInv, Typed, RunInv
  <1>2. /\ x \in Run /\ x.phase = run[r].phase /\ x.window \in {"visible", "iconic"}
        /\ x.page = run[r].page
        /\ x.managed = run[r].managed /\ x.ending = run[r].ending /\ x.watchdog = run[r].watchdog
        /\ x.seen = run[r].seen /\ x.label = run[r].label /\ x.minimised = run[r].minimised
    BY <1>1 DEF Run
  <1> HIDE DEF x
  <1>3. Alone(r, x) /\ run'[r] = x
    BY <1>1, <1>2, Plain DEF WInv, Typed
  <1>4. RunInv(r)'
    BY <1>1, <1>2, <1>3 DEF RunInv, PhaseInv, LabelInv, ReachInv, Early, InLoop, Visible, Label
  <1> QED
    BY <1>1, <1>2, <1>3, <1>4, AloneOK DEF IsInstance, InLoop

LEMMA CloseRequestedOK ==
  ASSUME WInv, NEW r \in Runs, NEW closeToTray \in BOOLEAN, CloseRequested(r, closeToTray)
  PROVE  WInv'
  <1>1. /\ InLoop(r) /\ run[r] \in Run /\ PhaseInv(r) /\ LabelInv(r) /\ ReachInv(r)
        /\ handles' = handles
    BY DEF CloseRequested, WInv, Typed, RunInv
  <1>2. CASE HidesToTray(r, closeToTray) /\ Hide(r, run[r])
    BY <1>1, <1>2, LoopOK, HideKeeps DEF HidesToTray
  <1>3. CASE /\ run' = [run EXCEPT ![r].window = "none", ![r].ending = TRUE]
             /\ UNCHANGED <<unlabelled, faults>>
    <2> DEFINE x == [run[r] EXCEPT !.window = "none", !.ending = TRUE]
    <2>1. run' = [run EXCEPT ![r] = x]
      BY <1>3
    <2>2. /\ x \in Run /\ x.phase = run[r].phase /\ x.window = "none" /\ x.ending
          /\ x.managed = run[r].managed /\ x.minimised = run[r].minimised
      BY <1>1 DEF Run
    <2> HIDE DEF x
    <2>3. Alone(r, x) /\ run'[r] = x
      BY <1>3, <2>1, <2>2, Plain DEF WInv, Typed
    <2>4. RunInv(r)'
      BY <1>1, <1>3, <2>2, <2>3 DEF RunInv, PhaseInv, LabelInv, ReachInv, Early, InLoop, Visible
    <2> QED
      BY <1>1, <2>2, <2>3, <2>4, AloneOK DEF IsInstance, InLoop
  <1> QED
    BY <1>2, <1>3 DEF CloseRequested

LEMMA QuitOK ==
  ASSUME WInv, NEW r \in Runs, Quit(r)
  PROVE  WInv'
  <1> DEFINE x == [run[r] EXCEPT !.quitting = TRUE, !.ending = TRUE]
  <1>1. /\ run' = [run EXCEPT ![r] = x] /\ run[r] \in Run /\ InLoop(r)
        /\ PhaseInv(r) /\ LabelInv(r) /\ ReachInv(r)
        /\ handles' = handles /\ unlabelled' = unlabelled /\ faults' = faults
    BY DEF Quit, WInv, Typed, RunInv
  <1>2. /\ x \in Run /\ x.phase = run[r].phase /\ x.window = run[r].window /\ x.page = run[r].page
        /\ x.managed = run[r].managed /\ x.ending /\ x.watchdog = run[r].watchdog
        /\ x.seen = run[r].seen /\ x.label = run[r].label /\ x.minimised = run[r].minimised
    BY <1>1 DEF Run
  <1> HIDE DEF x
  <1>3. Alone(r, x) /\ run'[r] = x
    BY <1>1, <1>2, Plain DEF WInv, Typed
  <1>4. RunInv(r)'
    BY <1>1, <1>2, <1>3 DEF RunInv, PhaseInv, LabelInv, ReachInv, Early, InLoop, Visible
  <1> QED
    BY <1>1, <1>2, <1>3, <1>4, AloneOK DEF IsInstance, InLoop

-----------------------------------------------------------------------------
LEMMA StepOfOneOK ==
  ASSUME WInv, NEW r \in Runs, WindowEvent(r) \/ WindowStep(r) \/ PageLoads(r) \/ Stops(r)
  PROVE  WInv'
  <1>1. CASE WindowEvent(r)
    BY <1>1, StartOK, ToggleOK, DoubleClickOK, IconifyOK, QuitOK, CloseRequestedOK DEF WindowEvent
  <1>2. CASE WindowStep(r)
    BY <1>2, ClaimOK, FocusOK, CreateWindowOK, BuildTrayOK, ManageOK, QueryWindowOK, SetLabelOK,
       PageActsOK, WatchdogWakesOK DEF WindowStep, SetUp
  <1>3. CASE Stops(r)
    BY <1>3, GoneOK, FaultOK DEF Stops, Ends, SetUpFails, Killed
  <1> QED
    BY <1>1, <1>2, <1>3, PageLoadsOK

LEMMA WindowStutterOK == WInv /\ UNCHANGED windowVars => WInv'
  BY DEF windowVars, WInv, Typed, HandleInv, OneInstance, IsInstance, RunInv, PhaseInv, LabelInv,
         ReachInv, Early, InLoop, Visible, Label

LEMMA WindowImplied == WInv => WindowTypeOK /\ OneInstance /\ LabelAgrees /\ Reachable
  <1> SUFFICES ASSUME WInv PROVE WindowTypeOK /\ OneInstance /\ LabelAgrees /\ Reachable
    OBVIOUS
  <1>1. \A r \in Runs : PhaseInv(r) /\ LabelInv(r) /\ ReachInv(r)
    BY DEF WInv, RunInv
  <1>2. WindowTypeOK
    BY <1>1 DEF WInv, Typed, WindowTypeOK, PhaseInv, Early, IsInstance
  <1>3. LabelAgrees
    BY <1>1 DEF LabelAgrees, LabelInv
  <1>4. Reachable
    BY <1>1 DEF Reachable, ReachInv, InLoop, Early, Visible, WInv, Typed
  <1> QED
    BY <1>2, <1>3, <1>4 DEF WInv

(* The invariant holds throughout.                                         *)
THEOREM WindowSafe == WindowSpec => []WInv
  <1>1. WindowInit => WInv
    BY WindowInitOK
  <1>2. WInv /\ [WindowNext]_windowVars => WInv'
    BY StepOfOneOK, WindowStutterOK DEF WindowNext
  <1> QED
    BY <1>1, <1>2, PTL DEF WindowSpec

-----------------------------------------------------------------------------
(***************************************************************************)
(* The launch command: only verified launchers run, one launch is under way*)
(* in a program at a time, and no suspended process is forgotten, for any  *)
(* number of programs, commands, paths and candidates, whatever becomes of *)
(* the files, the calls and the programs.                                  *)
(***************************************************************************)
(* What a command knows at its step.                                       *)
JobInv ==
  \A c \in Commands :
    /\ job[c].step \notin {"idle", "done"} => job[c].by \in Programs
    /\ job[c].step \in {"verify", "create", "resume"} => job[c].path \in Paths
    /\ job[c].step # "done" => job[c].answer = "none"
    /\ job[c].path # NoPath => job[c].step \in {"verify", "create", "resume"}
    /\ job[c].step = "search" => job[c].named = NoPath
    /\ job[c].step \in {"verify", "create", "resume"} /\ job[c].named # NoPath => job[c].rest = {}

(* What has been verified is still so, because it is locked; the suspended *)
(* child is of the command that looks at it, and if it is the file asked   *)
(* for it is the verified one.                                             *)
ImageInv ==
  \A c \in Commands :
    /\ job[c].step \in {"create", "resume"} => disk[job[c].path] = "approved"
    /\ job[c].step = "resume" => child[c].state = "suspended"
    /\ job[c].step = "resume" /\ child[c].path = job[c].path => child[c].image = "approved"

GInv ==
  /\ LaunchTypeOK /\ OneLaunch /\ JobInv /\ ImageInv
  /\ OnlyApprovedRuns /\ NoneLeftSuspended /\ AnswerIsTrue

USE LaunchAssumption

-----------------------------------------------------------------------------
(* How the helpers that move one command leave it, and the others.         *)
OthersStay(c) == \A d \in Commands : d # c => job'[d] = job[d]

LEMMA FallbackOK == \A i \in DOMAIN Fallback : Fallback[i] \in Paths
  OBVIOUS

LEMMA EndedOK ==
  ASSUME NEW answer \in Answer
  PROVE  /\ Ended(answer) \in Job
         /\ Ended(answer).step = "done" /\ Ended(answer).answer = answer
         /\ Ended(answer).path = NoPath
  BY DEF Ended, NoJob, Job, Step, Answer

LEMMA GoToOK ==
  ASSUME LaunchTypeOK, NEW c \in Commands, NEW step \in Step, GoTo(c, step)
  PROVE  /\ job' \in [Commands -> Job] /\ OthersStay(c)
         /\ job'[c].step = step /\ job'[c].by = job[c].by /\ job'[c].named = job[c].named
         /\ job'[c].path = job[c].path /\ job'[c].answer = job[c].answer
         /\ job'[c].rest = job[c].rest
  BY DEF LaunchTypeOK, GoTo, OthersStay, Job

LEMMA FinishOK ==
  ASSUME GInv, NEW c \in Commands, NEW answer \in Answer, AtWork(c), Finish(c, answer)
  PROVE  /\ job' \in [Commands -> Job] /\ OthersStay(c)
         /\ job'[c].step = "done" /\ job'[c].answer = answer /\ job'[c].path = NoPath
         /\ claimed' \subseteq Programs /\ OneLaunch'
  <1>1. /\ job' \in [Commands -> Job] /\ OthersStay(c)
        /\ job'[c] = Ended(answer)
    BY EndedOK DEF GInv, LaunchTypeOK, Finish, OthersStay
  <1>2. ~AtWork(c)' /\ \A d \in Commands : d # c => (AtWork(d)' <=> AtWork(d))
    BY <1>1, EndedOK DEF AtWork, OthersStay
  <1>3. \A d \in Commands : AtWork(d) /\ d # c => job[d].by # job[c].by
    BY DEF GInv, OneLaunch
  <1>4. claimed' = claimed \ {job[c].by} /\ claimed = {job[d].by : d \in {e \in Commands : AtWork(e)}}
    BY DEF Finish, GInv, OneLaunch
  <1>5. {e \in Commands : AtWork(e)'} = {e \in Commands : AtWork(e)} \ {c}
    BY <1>2
  <1>6. claimed' = {job'[d].by : d \in {e \in Commands : AtWork(e)'}}
    BY <1>1, <1>3, <1>4, <1>5 DEF OthersStay
  <1>7. OneLaunch'
    BY <1>1, <1>2, <1>6 DEF OneLaunch, OthersStay, GInv
  <1> QED
    BY <1>1, <1>4, <1>7, EndedOK DEF GInv, LaunchTypeOK

(* A command that stays at work keeps its claim.                           *)
LEMMA StillAtWork ==
  ASSUME GInv, NEW c \in Commands, AtWork(c), AtWork(c)', job'[c].by = job[c].by,
         OthersStay(c), UNCHANGED claimed
  PROVE  OneLaunch'
  <1>1. \A d \in Commands : (AtWork(d)' <=> AtWork(d)) /\ job'[d].by = job[d].by
    BY DEF AtWork, OthersStay
  <1>2. {e \in Commands : AtWork(e)'} = {e \in Commands : AtWork(e)}
    BY <1>1
  <1> QED
    BY <1>1, <1>2 DEF OneLaunch, GInv

LEMMA TryOK ==
  ASSUME GInv, NEW c \in Commands, AtWork(c), NEW path \in Paths, NEW rest \in SUBSET DOMAIN Fallback,
         Try(c, path, rest)
  PROVE  /\ job' \in [Commands -> Job] /\ OthersStay(c)
         /\ job'[c].step = "verify" /\ job'[c].by = job[c].by /\ job'[c].path = path
         /\ job'[c].named = job[c].named /\ job'[c].rest = rest
         /\ job'[c].answer = job[c].answer
         /\ claimed' = claimed /\ OneLaunch'
  <1>1. /\ job' \in [Commands -> Job] /\ OthersStay(c)
        /\ job'[c].step = "verify" /\ job'[c].by = job[c].by /\ job'[c].path = path
        /\ job'[c].named = job[c].named /\ job'[c].rest = rest
        /\ job'[c].answer = job[c].answer
        /\ claimed' = claimed
    <2> DEFINE after == [job[c] EXCEPT !.step = "verify", !.path = path, !.rest = rest]
    <2>1. job \in [Commands -> Job] /\ job[c] \in Job
      BY DEF GInv, LaunchTypeOK
    <2>2. after \in Job /\ after.step = "verify" /\ after.by = job[c].by
          /\ after.path = path /\ after.answer = job[c].answer
          /\ after.named = job[c].named /\ after.rest = rest
      BY <2>1 DEF Job, Step
    <2>3. job' = [job EXCEPT ![c] = after] /\ claimed' = claimed
      BY DEF Try
    <2> HIDE DEF after
    <2> QED
      BY <2>1, <2>2, <2>3 DEF OthersStay
  <1>2. AtWork(c)'
    BY <1>1 DEF AtWork
  <1> QED
    BY <1>1, <1>2, StillAtWork

(* Where a command is after it has turned to another candidate, or given   *)
(* up.                                                                     *)
Onward(c) ==
  /\ job' \in [Commands -> Job] /\ OthersStay(c)
  /\ claimed' \subseteq Programs /\ OneLaunch'
  /\ \/ job'[c].step = "done" /\ job'[c].answer # "started" /\ job'[c].path = NoPath
     \/ /\ job'[c].step = "verify" /\ job'[c].answer = "none"
        /\ job'[c].by \in Programs /\ job'[c].path \in Paths
        /\ job'[c].named # NoPath => job'[c].rest = {}

LEMMA TryOnward ==
  ASSUME GInv, NEW c \in Commands, AtWork(c), NEW path \in Paths, NEW rest \in SUBSET DOMAIN Fallback,
         Try(c, path, rest), job[c].named # NoPath => rest = {}
  PROVE  Onward(c)
  <1>1. job[c].by \in Programs /\ job[c].answer = "none"
    BY DEF GInv, JobInv, AtWork
  <1> QED
    BY <1>1, TryOK DEF Onward, GInv, LaunchTypeOK

LEMMA TryFirstOnward ==
  ASSUME GInv, NEW c \in Commands, AtWork(c), NEW places \in SUBSET DOMAIN Fallback, TryFirst(c, places),
         job[c].named = NoPath
  PROVE  Onward(c)
  <1>1. PICK i \in places : Try(c, Fallback[i], places \ {i})
    BY DEF TryFirst
  <1>2. Fallback[i] \in Paths /\ places \ {i} \in SUBSET DOMAIN Fallback
    BY FallbackOK
  <1> QED
    BY <1>1, <1>2, TryOnward

LEMMA FinishOnward ==
  ASSUME GInv, NEW c \in Commands, AtWork(c), NEW answer \in Answer \ {"started"}, Finish(c, answer)
  PROVE  Onward(c)
  BY FinishOK DEF Onward

LEMMA RejectOnward ==
  ASSUME GInv, NEW c \in Commands, job[c].step \in {"verify", "create", "resume"}, Reject(c)
  PROVE  Onward(c)
  <1> AtWork(c)
    BY DEF AtWork
  <1>1. CASE job[c].rest = {}
    BY <1>1, FinishOnward DEF Reject, Answer
  <1>2. CASE job[c].rest # {}
    <2>1. /\ job[c].rest \in SUBSET DOMAIN Fallback /\ TryFirst(c, job[c].rest)
          /\ job[c].named = NoPath
      BY <1>2 DEF Reject, GInv, LaunchTypeOK, Job, JobInv
    <2> QED
      BY <2>1, TryFirstOnward
  <1> QED
    BY <1>1, <1>2

(* A command that turns away without a child keeps the invariant.          *)
LEMMA OnwardOK ==
  ASSUME GInv, NEW c \in Commands, Onward(c), UNCHANGED disk,
         child' \in [Commands -> Child], child'[c].state = "none",
         \A d \in Commands : d # c => child'[d] = child[d],
         stranded' \subseteq Commands
  PROVE  GInv'
  <1> USE DEF Onward, OthersStay, GInv
  <1>1. LaunchTypeOK'
    BY DEF LaunchTypeOK
  <1>2. JobInv'
    BY DEF JobInv
  <1>3. ImageInv'
    BY DEF ImageInv
  <1>4. OnlyApprovedRuns' /\ NoneLeftSuspended'
    BY DEF OnlyApprovedRuns, NoneLeftSuspended
  <1>5. AnswerIsTrue'
    BY DEF AnswerIsTrue
  <1> QED
    BY <1>1, <1>2, <1>3, <1>4, <1>5

-----------------------------------------------------------------------------
LEMMA LaunchInitOK == LaunchInit => GInv
  <1> SUFFICES ASSUME LaunchInit PROVE GInv
    OBVIOUS
  <1>1. NoJob \in Job /\ NoJob.step = "idle" /\ NoJob.answer = "none" /\ NoJob.path = NoPath
    BY DEF NoJob, Job, Step, Answer
  <1>2. NoChild \in Child /\ NoChild.state = "none"
    BY DEF NoChild, Child, Content
  <1>3. \A c \in Commands : job[c] = NoJob /\ child[c] = NoChild
    BY DEF LaunchInit
  <1>4. LaunchTypeOK
    BY <1>1, <1>2 DEF LaunchInit, LaunchTypeOK
  <1>5. OneLaunch
    BY <1>1, <1>3 DEF LaunchInit, OneLaunch, AtWork
  <1>6. JobInv /\ ImageInv
    BY <1>1, <1>3 DEF JobInv, ImageInv
  <1>7. OnlyApprovedRuns /\ NoneLeftSuspended /\ AnswerIsTrue
    BY <1>1, <1>2, <1>3 DEF OnlyApprovedRuns, NoneLeftSuspended, AnswerIsTrue
  <1> QED
    BY <1>4, <1>5, <1>6, <1>7 DEF GInv

LEMMA ClickOK ==
  ASSUME GInv, NEW c \in Commands, NEW r \in Programs, NEW named \in Paths \cup {NoPath},
         Click(c, r, named)
  PROVE  GInv'
  <1> DEFINE after == [job[c] EXCEPT !.step = "claim", !.by = r, !.named = named]
  <1>1. job \in [Commands -> Job] /\ job[c] \in Job
    BY DEF GInv, LaunchTypeOK
  <1>2. after \in Job /\ after.step = "claim" /\ after.by = r /\ after.answer = job[c].answer
        /\ after.path = job[c].path
    BY <1>1 DEF Job, Step
  <1>3. job' = [job EXCEPT ![c] = after] /\ job[c].step = "idle"
    BY DEF Click
  <1> HIDE DEF after
  <1>4. /\ job' \in [Commands -> Job] /\ job'[c] = after /\ OthersStay(c)
        /\ disk' = disk /\ claimed' = claimed /\ child' = child /\ stranded' = stranded
    BY <1>1, <1>2, <1>3 DEF Click, OthersStay
  <1>5. \A d \in Commands : (AtWork(d)' <=> AtWork(d)) /\ (AtWork(d) => job'[d] = job[d])
    BY <1>2, <1>3, <1>4 DEF AtWork, OthersStay
  <1>6. OneLaunch'
    <2>1. {e \in Commands : AtWork(e)'} = {e \in Commands : AtWork(e)}
      BY <1>5
    <2> QED
      BY <1>4, <1>5, <2>1 DEF OneLaunch, GInv
  <1>7. LaunchTypeOK'
    BY <1>4 DEF GInv, LaunchTypeOK
  <1>8. JobInv' /\ ImageInv'
    BY <1>2, <1>3, <1>4 DEF GInv, JobInv, ImageInv, OthersStay
  <1>9. OnlyApprovedRuns' /\ NoneLeftSuspended' /\ AnswerIsTrue'
    BY <1>2, <1>3, <1>4 DEF GInv, OnlyApprovedRuns, NoneLeftSuspended, AnswerIsTrue, OthersStay
  <1> QED
    BY <1>6, <1>7, <1>8, <1>9 DEF GInv

LEMMA TryClaimOK ==
  ASSUME GInv, NEW c \in Commands, TryClaim(c)
  PROVE  GInv'
  <1>1. /\ job[c].step = "claim" /\ job[c].by \in Programs /\ job[c].answer = "none"
        /\ ~AtWork(c) /\ job[c] \in Job
        /\ disk' = disk /\ child' = child /\ stranded' = stranded
    BY DEF TryClaim, GInv, JobInv, AtWork, LaunchTypeOK
  <1>2. CASE Acquires(c)
    <2>1. GoTo(c, "choose") /\ claimed' = claimed \cup {job[c].by} /\ job[c].by \notin claimed
      BY <1>2 DEF TryClaim, Acquires
    <2>2. /\ job' \in [Commands -> Job] /\ OthersStay(c)
          /\ job'[c].step = "choose" /\ job'[c].by = job[c].by /\ job'[c].answer = "none"
          /\ job'[c].path = job[c].path
      BY <1>1, <2>1, GoToOK DEF GInv, Step
    <2>3. AtWork(c)' /\ \A d \in Commands : d # c => (AtWork(d)' <=> AtWork(d))
      BY <2>2 DEF AtWork, OthersStay
    <2>4. \A d \in Commands : AtWork(d) => job[d].by # job[c].by
      BY <2>1 DEF GInv, OneLaunch
    <2>5. {e \in Commands : AtWork(e)'} = {e \in Commands : AtWork(e)} \cup {c}
      BY <2>3
    <2>6. \A d \in Commands : AtWork(d) => d # c
      BY <1>1
    <2>7. claimed' = {job'[d].by : d \in {e \in Commands : AtWork(e)'}}
      BY <2>1, <2>2, <2>5, <2>6 DEF OthersStay, GInv, OneLaunch
    <2>8. OneLaunch'
      BY <2>2, <2>3, <2>4, <2>7 DEF OneLaunch, OthersStay, GInv
    <2>9. LaunchTypeOK'
      BY <1>1, <2>1, <2>2 DEF GInv, LaunchTypeOK
    <2>10. JobInv' /\ ImageInv'
      BY <1>1, <2>2 DEF GInv, JobInv, ImageInv, OthersStay
    <2>11. OnlyApprovedRuns' /\ NoneLeftSuspended' /\ AnswerIsTrue'
      BY <1>1, <2>2 DEF GInv, OnlyApprovedRuns, NoneLeftSuspended, AnswerIsTrue, OthersStay
    <2> QED
      BY <2>8, <2>9, <2>10, <2>11 DEF GInv
  <1>3. CASE ~Acquires(c)
    <2>1. job' = [job EXCEPT ![c] = Ended("preparing")] /\ claimed' = claimed
      BY <1>3 DEF TryClaim
    <2>2. /\ job' \in [Commands -> Job] /\ OthersStay(c)
          /\ job'[c].step = "done" /\ job'[c].answer = "preparing" /\ job'[c].path = NoPath
      BY <2>1, EndedOK DEF GInv, LaunchTypeOK, OthersStay, Answer
    <2>3. \A d \in Commands : (AtWork(d)' <=> AtWork(d)) /\ (AtWork(d) => job'[d] = job[d])
      BY <1>1, <2>2 DEF AtWork, OthersStay
    <2>4. {e \in Commands : AtWork(e)'} = {e \in Commands : AtWork(e)}
      BY <2>3
    <2>5. OneLaunch'
      BY <2>1, <2>3, <2>4 DEF OneLaunch, GInv
    <2>6. LaunchTypeOK'
      BY <1>1, <2>1, <2>2 DEF GInv, LaunchTypeOK
    <2>7. JobInv' /\ ImageInv'
      BY <1>1, <2>2 DEF GInv, JobInv, ImageInv, OthersStay
    <2>8. OnlyApprovedRuns' /\ NoneLeftSuspended' /\ AnswerIsTrue'
      BY <1>1, <2>2 DEF GInv, OnlyApprovedRuns, NoneLeftSuspended, AnswerIsTrue, OthersStay
    <2> QED
      BY <2>5, <2>6, <2>7, <2>8 DEF GInv
  <1> QED
    BY <1>2, <1>3

(* A command that looks at no child has none.                              *)
LEMMA NoChildYet ==
  ASSUME GInv, NEW c \in Commands, AtWork(c), job[c].step # "resume"
  PROVE  child[c].state = "none" /\ job[c].answer = "none" /\ job[c].by \in Programs
  BY DEF GInv, JobInv, AnswerIsTrue, NoneLeftSuspended, LaunchTypeOK, Child, AtWork

LEMMA ChooseOK ==
  ASSUME GInv, NEW c \in Commands, Choose(c)
  PROVE  GInv'
  <1>1. /\ AtWork(c) /\ child[c].state = "none" /\ job[c].step = "choose"
        /\ job[c].answer = "none" /\ job[c].by \in Programs /\ job[c].path = NoPath
        /\ disk' = disk /\ child' = child /\ stranded' = stranded
    BY NoChildYet DEF Choose, AtWork, GInv, JobInv
  <1>2. CASE Finish(c, "running")
    BY <1>1, <1>2, FinishOnward, OnwardOK DEF Answer, GInv, LaunchTypeOK
  <1>3. CASE job[c].named # NoPath /\ Try(c, job[c].named, {})
    <2>1. job[c].named \in Paths /\ {} \in SUBSET DOMAIN Fallback
      BY <1>3 DEF GInv, LaunchTypeOK, Job
    <2> QED
      BY <1>1, <1>3, <2>1, TryOnward, OnwardOK DEF GInv, LaunchTypeOK
  <1>4. CASE job' = [job EXCEPT ![c].step = "search", ![c].named = NoPath] /\ UNCHANGED claimed
    <2> DEFINE after == [job[c] EXCEPT !.step = "search", !.named = NoPath]
    <2>1. job \in [Commands -> Job] /\ job[c] \in Job
      BY DEF GInv, LaunchTypeOK
    <2>2. after \in Job /\ after.step = "search" /\ after.by = job[c].by /\ after.named = NoPath
          /\ after.path = job[c].path /\ after.answer = job[c].answer
      BY <2>1 DEF Job, Step
    <2>3. job' = [job EXCEPT ![c] = after] /\ claimed' = claimed
      BY <1>4
    <2> HIDE DEF after
    <2>4. /\ job' \in [Commands -> Job] /\ OthersStay(c)
          /\ job'[c].step = "search" /\ job'[c].by = job[c].by /\ job'[c].answer = "none"
          /\ job'[c].named = NoPath /\ job'[c].path = NoPath
      BY <1>1, <2>1, <2>2, <2>3 DEF OthersStay
    <2>5. OneLaunch'
      BY <1>1, <2>3, <2>4, StillAtWork DEF AtWork
    <2>6. LaunchTypeOK'
      BY <1>1, <2>3, <2>4 DEF GInv, LaunchTypeOK
    <2>7. JobInv' /\ ImageInv'
      BY <1>1, <2>4 DEF GInv, JobInv, ImageInv, OthersStay
    <2>8. OnlyApprovedRuns' /\ NoneLeftSuspended' /\ AnswerIsTrue'
      BY <1>1, <2>4 DEF GInv, OnlyApprovedRuns, NoneLeftSuspended, AnswerIsTrue, OthersStay
    <2> QED
      BY <2>5, <2>6, <2>7, <2>8 DEF GInv
  <1> QED
    BY <1>2, <1>3, <1>4 DEF Choose

LEMMA SearchOK ==
  ASSUME GInv, NEW c \in Commands, Search(c)
  PROVE  GInv'
  <1>1. /\ AtWork(c) /\ child[c].state = "none" /\ job[c].named = NoPath
        /\ disk' = disk /\ child' = child /\ stranded' = stranded
    BY NoChildYet DEF Search, AtWork, GInv, JobInv
  <1>2. Onward(c)
    <2>1. CASE Finish(c, "not found")
      BY <1>1, <2>1, FinishOnward DEF Answer
    <2>2. CASE TryFirst(c, Existing)
      <3>1. Existing \in SUBSET DOMAIN Fallback
        BY DEF Existing
      <3> QED
        BY <1>1, <2>2, <3>1, TryFirstOnward
    <2> QED
      BY <2>1, <2>2 DEF Search
  <1> QED
    BY <1>1, <1>2, OnwardOK DEF GInv, LaunchTypeOK

LEMMA VerifyOK ==
  ASSUME GInv, NEW c \in Commands, Verify(c)
  PROVE  GInv'
  <1>1. /\ AtWork(c) /\ child[c].state = "none" /\ job[c].step = "verify"
        /\ job[c].answer = "none" /\ job[c].by \in Programs /\ job[c].path \in Paths
        /\ disk' = disk /\ child' = child /\ stranded' = stranded
    BY NoChildYet DEF Verify, AtWork, GInv, JobInv
  <1>2. CASE Reject(c)
    BY <1>1, <1>2, RejectOnward, OnwardOK DEF GInv, LaunchTypeOK
  <1>3. CASE disk[job[c].path] = "approved" /\ GoTo(c, "create") /\ UNCHANGED claimed
    <2>1. /\ job' \in [Commands -> Job] /\ OthersStay(c)
          /\ job'[c].step = "create" /\ job'[c].by = job[c].by
          /\ job'[c].path = job[c].path /\ job'[c].answer = "none"
          /\ job'[c].named = job[c].named /\ job'[c].rest = job[c].rest
      BY <1>1, <1>3, GoToOK DEF GInv, Step
    <2>2. OneLaunch'
      BY <1>1, <1>3, <2>1, StillAtWork DEF AtWork
    <2>3. LaunchTypeOK'
      BY <1>1, <1>3, <2>1 DEF GInv, LaunchTypeOK
    <2>4. JobInv' /\ ImageInv'
      BY <1>1, <1>3, <2>1 DEF GInv, JobInv, ImageInv, OthersStay
    <2>5. OnlyApprovedRuns' /\ NoneLeftSuspended' /\ AnswerIsTrue'
      BY <1>1, <2>1 DEF GInv, OnlyApprovedRuns, NoneLeftSuspended, AnswerIsTrue, OthersStay
    <2> QED
      BY <2>2, <2>3, <2>4, <2>5 DEF GInv
  <1> QED
    BY <1>2, <1>3 DEF Verify

LEMMA CreateOK ==
  ASSUME GInv, NEW c \in Commands, Create(c)
  PROVE  GInv'
  <1>1. /\ AtWork(c) /\ child[c].state = "none" /\ job[c].step = "create"
        /\ job[c].answer = "none" /\ job[c].by \in Programs /\ job[c].path \in Paths
        /\ disk' = disk /\ stranded' = stranded
    BY NoChildYet DEF Create, AtWork, GInv, JobInv
  <1>2. CASE Reject(c) /\ UNCHANGED child
    BY <1>1, <1>2, RejectOnward, OnwardOK DEF GInv, LaunchTypeOK
  <1>3. CASE /\ \E p \in Paths :
                 /\ disk[p] # "absent"
                 /\ child' = [child EXCEPT ![c] =
                                [state |-> "suspended", path |-> p, image |-> disk[p]]]
             /\ GoTo(c, "resume") /\ UNCHANGED claimed
    <2>1. PICK p \in Paths :
            child' = [child EXCEPT ![c] = [state |-> "suspended", path |-> p, image |-> disk[p]]]
      BY <1>3
    <2>2. /\ child' \in [Commands -> Child]
          /\ child'[c].state = "suspended" /\ child'[c].path = p /\ child'[c].image = disk[p]
          /\ \A d \in Commands : d # c => child'[d] = child[d]
      <3> DEFINE new == [state |-> "suspended", path |-> p, image |-> disk[p]]
      <3>1. new \in Child /\ new.state = "suspended" /\ new.path = p /\ new.image = disk[p]
        BY DEF GInv, LaunchTypeOK, Child
      <3> HIDE DEF new
      <3>2. child' = [child EXCEPT ![c] = new] /\ child \in [Commands -> Child]
        BY <2>1 DEF new, GInv, LaunchTypeOK
      <3> QED
        BY <3>1, <3>2
    <2>3. /\ job' \in [Commands -> Job] /\ OthersStay(c)
          /\ job'[c].step = "resume" /\ job'[c].by = job[c].by
          /\ job'[c].path = job[c].path /\ job'[c].answer = "none"
          /\ job'[c].named = job[c].named /\ job'[c].rest = job[c].rest
      BY <1>1, <1>3, GoToOK DEF GInv, Step
    <2>4. OneLaunch'
      BY <1>1, <1>3, <2>3, StillAtWork DEF AtWork
    <2>5. LaunchTypeOK'
      BY <1>1, <1>3, <2>2, <2>3 DEF GInv, LaunchTypeOK
    <2>6. JobInv' /\ ImageInv'
      BY <1>1, <2>2, <2>3 DEF GInv, JobInv, ImageInv, OthersStay
    <2>7. OnlyApprovedRuns' /\ NoneLeftSuspended' /\ AnswerIsTrue'
      BY <1>1, <2>2, <2>3 DEF GInv, OnlyApprovedRuns, NoneLeftSuspended, AnswerIsTrue, OthersStay
    <2> QED
      BY <2>4, <2>5, <2>6, <2>7 DEF GInv
  <1> QED
    BY <1>2, <1>3 DEF Create

(* The child that is resumed is the file that was verified.                *)
LEMMA ResumeOK ==
  ASSUME GInv, NEW c \in Commands, Resume(c)
  PROVE  GInv'
  <1>1. /\ AtWork(c) /\ child[c].image = "approved" /\ child[c] \in Child
        /\ child \in [Commands -> Child]
        /\ disk' = disk /\ stranded' = stranded
    BY DEF Resume, Matches, AtWork, GInv, ImageInv, LaunchTypeOK
  <1> DEFINE after == [child[c] EXCEPT !.state = "running", !.path = NoPath]
  <1>2. after \in Child /\ after.state = "running" /\ after.image = "approved"
    BY <1>1 DEF Child
  <1>3. child' = [child EXCEPT ![c] = after] /\ Finish(c, "started")
    BY DEF Resume
  <1> HIDE DEF after
  <1>4. /\ child' \in [Commands -> Child] /\ child'[c] = after
        /\ \A d \in Commands : d # c => child'[d] = child[d]
    BY <1>1, <1>2, <1>3
  <1>5. /\ job' \in [Commands -> Job] /\ OthersStay(c)
        /\ job'[c].step = "done" /\ job'[c].answer = "started" /\ job'[c].path = NoPath
        /\ claimed' \subseteq Programs /\ OneLaunch'
    BY <1>1, <1>3, FinishOK DEF Answer
  <1>6. LaunchTypeOK'
    BY <1>1, <1>4, <1>5 DEF GInv, LaunchTypeOK
  <1>7. JobInv' /\ ImageInv'
    BY <1>1, <1>4, <1>5 DEF GInv, JobInv, ImageInv, OthersStay
  <1>8. OnlyApprovedRuns' /\ NoneLeftSuspended' /\ AnswerIsTrue'
    BY <1>2, <1>4, <1>5 DEF GInv, OnlyApprovedRuns, NoneLeftSuspended, AnswerIsTrue, OthersStay
  <1> QED
    BY <1>5, <1>6, <1>7, <1>8 DEF GInv

LEMMA DiscardOK ==
  ASSUME GInv, NEW c \in Commands, Discard(c)
  PROVE  GInv'
  <1>1. job[c].step = "resume" /\ disk' = disk /\ Reject(c) /\ Terminate(c)
    BY DEF Discard
  <1>2. NoChild \in Child /\ NoChild.state = "none"
    BY DEF NoChild, Child, Content
  <1>3. /\ child' \in [Commands -> Child] /\ child'[c].state = "none"
        /\ \A d \in Commands : d # c => child'[d] = child[d]
        /\ stranded' \subseteq Commands
    BY <1>1, <1>2 DEF Terminate, GInv, LaunchTypeOK
  <1> QED
    BY <1>1, <1>3, RejectOnward, OnwardOK

(* Files change only where nobody has verified them.                       *)
LEMMA FileChangesOK ==
  ASSUME GInv, NEW p \in Paths, FileChanges(p)
  PROVE  GInv'
  <1>1. /\ disk' \in [Paths -> Content]
        /\ \A q \in Paths : q # p => disk'[q] = disk[q]
        /\ claimed' = claimed /\ job' = job /\ child' = child /\ stranded' = stranded
    BY DEF FileChanges, GInv, LaunchTypeOK
  <1>2. \A c \in Commands : job[c].step \in {"create", "resume"} => job[c].path # p /\ job[c].path \in Paths
    BY DEF FileChanges, Locked, GInv, JobInv
  <1>3. LaunchTypeOK' /\ JobInv'
    BY <1>1 DEF GInv, LaunchTypeOK, JobInv
  <1>4. ImageInv'
    BY <1>1, <1>2 DEF GInv, ImageInv
  <1>5. OneLaunch' /\ OnlyApprovedRuns' /\ NoneLeftSuspended' /\ AnswerIsTrue'
    BY <1>1 DEF GInv, OneLaunch, AtWork, OnlyApprovedRuns, NoneLeftSuspended, AnswerIsTrue
  <1> QED
    BY <1>3, <1>4, <1>5 DEF GInv

(* The end of a program cuts its commands short and nobody else's.         *)
LEMMA LaunchEndsOK ==
  ASSUME GInv, NEW r \in Programs, LaunchEnds(r)
  PROVE  GInv'
  <1> DEFINE cut == {c \in Commands : job[c].by = r /\ job[c].step \notin {"idle", "done"}}
             behind == {c \in cut : child[c].state = "suspended"}
  <1>1. /\ job' = [c \in Commands |-> IF c \in cut THEN Ended("none") ELSE job[c]]
        /\ child' = [c \in Commands |-> IF c \in behind THEN NoChild ELSE child[c]]
        /\ stranded' = stranded \cup behind
        /\ claimed' = claimed \ {r} /\ disk' = disk
    BY DEF LaunchEnds
  <1>2. NoChild \in Child /\ NoChild.state = "none"
    BY DEF NoChild, Child, Content
  <1>3. /\ Ended("none") \in Job /\ Ended("none").step = "done" /\ Ended("none").answer = "none"
        /\ Ended("none").path = NoPath
    BY EndedOK DEF Answer
  <1>4. \A c \in Commands : AtWork(c)' <=> AtWork(c) /\ job[c].by # r
    BY <1>1, <1>3 DEF AtWork
  <1>5. \A c \in Commands : AtWork(c)' => job'[c] = job[c]
    BY <1>1, <1>3 DEF AtWork
  <1>6. {c \in Commands : AtWork(c)'} = {c \in Commands : AtWork(c) /\ job[c].by # r}
    BY <1>4
  <1>7. OneLaunch'
    BY <1>1, <1>4, <1>5, <1>6 DEF GInv, OneLaunch
  <1>8. LaunchTypeOK'
    BY <1>1, <1>2, <1>3 DEF GInv, LaunchTypeOK
  <1>9. JobInv'
    BY <1>1, <1>3 DEF GInv, JobInv
  <1>10. ImageInv'
    BY <1>1, <1>3 DEF GInv, ImageInv
  <1>11. OnlyApprovedRuns' /\ NoneLeftSuspended'
    BY <1>1, <1>2, <1>3 DEF GInv, OnlyApprovedRuns, NoneLeftSuspended
  <1>12. AnswerIsTrue'
    <2>1. \A c \in cut : child[c].state # "running"
      BY DEF GInv, AnswerIsTrue, JobInv
    <2> QED
      BY <1>1, <1>2, <1>3, <2>1 DEF GInv, AnswerIsTrue
  <1> QED
    BY <1>7, <1>8, <1>9, <1>10, <1>11, <1>12 DEF GInv

-----------------------------------------------------------------------------
LEMMA LaunchStepOK == GInv /\ LaunchNext => GInv'
  <1> SUFFICES ASSUME GInv, LaunchNext PROVE GInv'
    OBVIOUS
  <1>1. CASE Clicks
    BY <1>1, ClickOK DEF Clicks
  <1>2. CASE \E p \in Paths : FileChanges(p)
    BY <1>2, FileChangesOK
  <1>3. CASE \E c \in Commands : LaunchStep(c)
    BY <1>3, TryClaimOK, ChooseOK, SearchOK, VerifyOK, CreateOK, ResumeOK, DiscardOK DEF LaunchStep
  <1>4. CASE \E r \in Programs : LaunchEnds(r)
    BY <1>4, LaunchEndsOK
  <1> QED
    BY <1>1, <1>2, <1>3, <1>4 DEF LaunchNext

LEMMA LaunchStutterOK == GInv /\ UNCHANGED launchVars => GInv'
  BY DEF GInv, launchVars, LaunchTypeOK, OneLaunch, AtWork, JobInv, ImageInv, OnlyApprovedRuns,
         NoneLeftSuspended, AnswerIsTrue

(* A command that has taken the user's path keeps it, or gives up.         *)
LEMMA KeepsNamed ==
  ASSUME GInv, [LaunchNext]_launchVars,
         NEW c \in Commands, job[c].path # NoPath, job[c].path = job[c].named
  PROVE  job'[c].path \in {job[c].path, NoPath}
  <1>1. /\ job[c].step \in {"verify", "create", "resume"} /\ job[c].rest = {}
        /\ job \in [Commands -> Job] /\ AtWork(c)
    BY DEF GInv, JobInv, LaunchTypeOK, AtWork
  <1>2. ASSUME NEW answer \in Answer, Finish(c, answer)
        PROVE  job'[c].path = NoPath
    BY <1>1, <1>2, FinishOK
  <1>3. Reject(c) => job'[c].path = NoPath
    BY <1>1, <1>2 DEF Reject, Answer
  <1>4. ASSUME NEW step \in Step, GoTo(c, step)
        PROVE  job'[c].path = job[c].path
    BY <1>4, GoToOK DEF GInv
  <1>5. CASE Clicks
    BY <1>1, <1>5 DEF Clicks, Click
  <1>6. CASE \E p \in Paths : FileChanges(p)
    BY <1>6 DEF FileChanges
  <1>7. ASSUME NEW d \in Commands, LaunchStep(d)
        PROVE  job'[c].path \in {job[c].path, NoPath}
    <2>1. CASE d = c
      BY <1>1, <1>2, <1>3, <1>4, <1>7, <2>1
      DEF LaunchStep, TryClaim, Choose, Search, Verify, Create, Resume, Discard, Step, Answer
    <2>2. CASE d # c
      BY <1>1, <1>7, <2>2
      DEF LaunchStep, TryClaim, Choose, Search, Verify, Create, Resume, Discard, GoTo, Finish, Reject,
          TryFirst, Try
    <2> QED
      BY <2>1, <2>2
  <1>8. CASE \E r \in Programs : LaunchEnds(r)
    BY <1>1, <1>8, EndedOK DEF LaunchEnds, Answer
  <1>9. CASE UNCHANGED launchVars
    BY <1>9 DEF launchVars
  <1> QED
    BY <1>5, <1>6, <1>7, <1>8, <1>9 DEF LaunchNext

(* The invariant holds throughout.                                         *)
THEOREM LaunchSafe == LaunchSpec => []GInv
  <1>1. LaunchInit => GInv
    BY LaunchInitOK
  <1>2. GInv /\ [LaunchNext]_launchVars => GInv'
    BY LaunchStepOK, LaunchStutterOK
  <1> QED
    BY <1>1, <1>2, PTL DEF LaunchSpec

-----------------------------------------------------------------------------
(***************************************************************************)
(* The two together.                                                       *)
(***************************************************************************)
USE ProgramAssumption

LEMMA EventIsStep ==
  ASSUME NEW r \in Runs, UserAtWindow(r)
  PROVE  WindowNext /\ UNCHANGED launchVars
  BY DEF UserAtWindow, WindowNext

LEMMA ThreadIsStep ==
  ASSUME Threads
  PROVE  [WindowNext]_windowVars /\ [LaunchNext]_launchVars
  <1>1. ASSUME NEW r \in Runs, MainThread(r) \/ PageThread(r) \/ Watchdog(r)
        PROVE  WindowNext /\ UNCHANGED launchVars
    BY <1>1 DEF MainThread, PageThread, Watchdog, WindowStep, WindowNext
  <1>2. ASSUME NEW r \in Runs, Exits(r)
        PROVE  WindowNext /\ LaunchNext
    BY <1>2 DEF Exits, Stops, WindowNext, LaunchNext
  <1>3. ASSUME NEW c \in Commands, PoolThread(c)
        PROVE  LaunchNext /\ UNCHANGED windowVars
    BY <1>3 DEF PoolThread, LaunchNext
  <1> QED
    BY <1>1, <1>2, <1>3 DEF Threads

(* A step of the program is a step of each component or leaves it alone.   *)
LEMMA NextIsStep ==
  ASSUME [Next]_vars
  PROVE  [WindowNext]_windowVars /\ [LaunchNext]_launchVars
  <1>1. CASE Threads
    BY <1>1, ThreadIsStep
  <1>2. ASSUME NEW r \in Runs, UserAtWindow(r)
        PROVE  [WindowNext]_windowVars /\ [LaunchNext]_launchVars
    BY <1>2, EventIsStep
  <1>3. ASSUME NEW r \in Runs, PageComes(r)
        PROVE  [WindowNext]_windowVars /\ [LaunchNext]_launchVars
    BY <1>3 DEF PageComes, WindowNext
  <1>4. ASSUME NEW r \in Runs, Dies(r)
        PROVE  [WindowNext]_windowVars /\ [LaunchNext]_launchVars
    BY <1>4 DEF Dies, Stops, WindowNext, LaunchNext
  <1>5. ASSUME NEW c \in Commands, NEW r \in Runs, NEW named \in Paths \cup {NoPath},
               UserLaunches(c, r, named)
        PROVE  [WindowNext]_windowVars /\ [LaunchNext]_launchVars
    BY <1>5 DEF UserLaunches, Clicks, LaunchNext
  <1>6. CASE Outside
    BY <1>6 DEF Outside, LaunchNext
  <1>7. CASE UNCHANGED vars
    BY <1>7 DEF vars
  <1> QED
    BY <1>1, <1>2, <1>3, <1>4, <1>5, <1>6, <1>7 DEF Next

(* The program is the window and the launch command, each by its own       *)
(* specification.                                                          *)
THEOREM IsItsComponents == Spec => WindowSpec /\ LaunchSpec
  <1>1. Init => WindowInit /\ LaunchInit
    BY DEF Init
  <1>2. [Next]_vars => [WindowNext]_windowVars /\ [LaunchNext]_launchVars
    BY NextIsStep
  <1> QED
    BY <1>1, <1>2, PTL DEF Spec, WindowSpec, LaunchSpec

LEMMA SpendOK ==
  ASSUME left \in Moves, NEW kind \in {"window", "clicks", "files"}, Spend(kind)
  PROVE  left' \in Moves
  BY DEF Moves, Spend

LEMMA LeftOK == left \in Moves /\ [Next]_vars => left' \in Moves
  <1> SUFFICES ASSUME left \in Moves, [Next]_vars PROVE left' \in Moves
    OBVIOUS
  <1>1. CASE UNCHANGED left
    BY <1>1
  <1>2. CASE \E kind \in {"window", "clicks", "files"} : Spend(kind)
    BY <1>2, SpendOK
  <1>3. Next => UNCHANGED left \/ \E kind \in {"window", "clicks", "files"} : Spend(kind)
    BY DEF Next, Threads, MainThread, PageThread, Watchdog, Exits, PoolThread, UserAtWindow, PageComes,
           Dies, UserLaunches, Outside
  <1> QED
    BY <1>1, <1>2, <1>3 DEF vars

(* Type correctness, with a window from its creation to the end of its     *)
(* start (Run, Job and Child).                                             *)
THEOREM TypeCorrect == Spec => []TypeOK
  <1>1. Init => left \in Moves
    BY DEF Init, Moves
  <1>2. WInv /\ GInv /\ left \in Moves => TypeOK
    BY WindowImplied DEF TypeOK, GInv
  <1>3. left \in Moves /\ [Next]_vars => (left \in Moves)'
    BY LeftOK
  <1> QED
    BY <1>1, <1>2, <1>3, IsItsComponents, WindowSafe, LaunchSafe, PTL DEF Spec

(* Of the starts that could open the mutex one is the instance, whatever   *)
(* ends or starts again at any step (acquire_or_focus_existing).           *)
THEOREM AlwaysOneInstance == Spec => []OneInstance
  BY WindowImplied, IsItsComponents, WindowSafe, PTL

(* The toggle item says what the toggle will do                            *)
(* (sync_toggle_label_from_window, show_main_window, hide_main_window).    *)
THEOREM LabelIsTrue == Spec => []LabelAgrees
  BY WindowImplied, IsItsComponents, WindowSafe, PTL

(* A program without a tray shows its window (setup and the close          *)
(* handler).                                                               *)
THEOREM AlwaysReachable == Spec => []Reachable
  BY WindowImplied, IsItsComponents, WindowSafe, PTL

(* Nothing runs that was not approved when it was started                  *)
(* (spawn_verified_launcher).                                              *)
THEOREM ApprovedOnly == Spec => []OnlyApprovedRuns
  <1>1. GInv => OnlyApprovedRuns
    BY DEF GInv
  <1> QED
    BY <1>1, IsItsComponents, LaunchSafe, PTL

(* One launch is under way in a program, and the flag says so              *)
(* (LauncherClaim).                                                        *)
THEOREM LaunchesOneByOne == Spec => []OneLaunch
  <1>1. GInv => OneLaunch
    BY DEF GInv
  <1> QED
    BY <1>1, IsItsComponents, LaunchSafe, PTL

(* A created process is looked at, reported, terminated or stranded        *)
(* (SuspendedChild::drop, launch_game).                                    *)
THEOREM ChildrenAccounted == Spec => []ChildIsAccountedFor
  <1>1. GInv => ChildIsAccountedFor
    BY DEF GInv, ChildIsAccountedFor
  <1> QED
    BY <1>1, IsItsComponents, LaunchSafe, PTL

(* The user's path, once taken, is the only one tried (launch_game).       *)
THEOREM NamedIsFinal == Spec => NamedPathIsFinal
  <1>1. GInv /\ [LaunchNext]_launchVars
          => [\A c \in Commands :
                job[c].path # NoPath /\ job[c].path = job[c].named
                  => job'[c].path \in {job[c].path, NoPath}]_launchVars
    BY KeepsNamed
  <1> QED
    BY <1>1, IsItsComponents, LaunchSafe, PTL DEF LaunchSpec, NamedPathIsFinal
-----------------------------------------------------------------------------
(***************************************************************************)
(* Each thread comes to rest by itself: what a program or a command has    *)
(* left to do of its own is a number that each of its steps lowers and     *)
(* only the world outside raises, by a start, a page's load or a click.    *)
(* That is why one condition of fairness for all the threads is enough.    *)
(***************************************************************************)
(* The steps to the loop, and to its end.                                  *)
PhaseLeft(phase) ==
  CASE phase = "start" -> 8
    [] phase = "build" -> 7
    [] phase = "tray" -> 6
    [] phase = "manage" -> 5
    [] phase = "query" -> 4
    [] phase = "label" -> 3
    [] phase = "focus" -> 1
    [] phase = "loop" -> 1
    [] OTHER -> 0

(* The watchdog wakes once, and the page's callback acts once.             *)
RunLeft(r) ==
  PhaseLeft(run[r].phase) + (IF run[r].watchdog = "armed" THEN 1 ELSE 0)
    + (IF run[r].page = "loaded" THEN 1 ELSE 0)

(* Three steps for each candidate.                                         *)
StepLeft(step, tries) ==
  CASE step = "claim" -> 3 * Len(Fallback) + 5
    [] step = "choose" -> 3 * Len(Fallback) + 4
    [] step = "search" -> 3 * Len(Fallback) + 1
    [] step = "verify" -> 3 * tries + 3
    [] step = "create" -> 3 * tries + 2
    [] step = "resume" -> 3 * tries + 1
    [] OTHER -> 0

CommandLeft(c) == StepLeft(job[c].step, Cardinality(job[c].rest))

GoesOn ==
  \/ \E r \in Runs : RunLeft(r)' < RunLeft(r)
  \/ \E c \in Commands : CommandLeft(c)' < CommandLeft(c)

WorkFromOutside ==
  /\ \A r \in Runs : RunLeft(r)' > RunLeft(r)
       => PageLoads(r) \/ \E minimised \in BOOLEAN : Start(r, minimised)
  /\ \A c \in Commands : CommandLeft(c)' > CommandLeft(c)
       => \E r \in Runs, named \in Paths \cup {NoPath} : Click(c, r, named)

LeftIsBounded ==
  /\ \A r \in Runs : RunLeft(r) \in 0 .. 8
  /\ \A c \in Commands : CommandLeft(c) \in 0 .. 3 * Len(Fallback) + 5

RestsByItself == [][(Threads => GoesOn) /\ WorkFromOutside]_vars

LEMMA RunLeftOK ==
  ASSUME WInv, NEW r \in Runs
  PROVE  RunLeft(r) \in 0 .. 8
  <1>1. PhaseInv(r) /\ run[r] \in Run
    BY DEF WInv, RunInv, Typed
  <1> QED
    BY <1>1 DEF RunLeft, PhaseLeft, PhaseInv, Early, InLoop, Run, Phase

(* What a step leaves to do of the one start it moves.                     *)
Ahead(x) ==
  PhaseLeft(x.phase) + (IF x.watchdog = "armed" THEN 1 ELSE 0)
    + (IF x.page = "loaded" THEN 1 ELSE 0)

LEMMA MovesOne ==
  ASSUME WInv, NEW r \in Runs, NEW x, run' = [run EXCEPT ![r] = x]
  PROVE  /\ RunLeft(r)' = Ahead(x) /\ RunLeft(r) = Ahead(run[r])
         /\ \A s \in Runs : s # r => RunLeft(s)' = RunLeft(s)
  <1>1. run \in [Runs -> Run]
    BY DEF WInv, Typed
  <1>2. run'[r] = x /\ \A s \in Runs : s # r => run'[s] = run[s]
    BY <1>1
  <1> QED
    BY <1>2 DEF RunLeft, Ahead

LEMMA AheadNat == \A x : Ahead(x) \in Nat
  BY DEF Ahead, PhaseLeft

(* Showing and hiding write the window and its label only.                 *)
LEMMA ShowLeaves ==
  ASSUME WInv, NEW r \in Runs, NEW was, Before(r, was), Show(r, was) \/ Hide(r, was)
  PROVE  /\ RunLeft(r)' = Ahead(was)
         /\ \A s \in Runs : s # r => RunLeft(s)' = RunLeft(s)
  <1>1. \E x : run' = [run EXCEPT ![r] = x] /\ Keeps(x, was)
    BY ShowOK, HideOK DEF Alone
  <1>2. PICK x : run' = [run EXCEPT ![r] = x] /\ Keeps(x, was)
    BY <1>1
  <1>3. Ahead(x) = Ahead(was)
    BY <1>2 DEF Keeps, Ahead
  <1> QED
    BY <1>2, <1>3, MovesOne

LEMMA GoneLowers ==
  ASSUME WInv, NEW r \in Runs, Gone(r), run[r].phase # "off"
  PROVE  /\ RunLeft(r)' < RunLeft(r)
         /\ \A s \in Runs : s # r => RunLeft(s)' = RunLeft(s)
  <1>1. /\ RunLeft(r)' = Ahead(Off) /\ RunLeft(r) = Ahead(run[r])
        /\ \A s \in Runs : s # r => RunLeft(s)' = RunLeft(s)
    BY MovesOne DEF Gone
  <1>2. Ahead(Off) = 0
    BY OffOK DEF Ahead, PhaseLeft
  <1>3. Ahead(run[r]) > 0
    BY DEF Ahead, PhaseLeft, WInv, Typed, Run, Phase
  <1> QED
    BY <1>1, <1>2, <1>3

LEMMA SetUpLowers ==
  ASSUME WInv, NEW r \in Runs, Claim(r) \/ SetUp(r) \/ WatchdogWakes(r)
  PROVE  /\ RunLeft(r)' < RunLeft(r)
         /\ \A s \in Runs : s # r => RunLeft(s)' = RunLeft(s)
  <1>1. /\ run \in [Runs -> Run] /\ run[r] \in Run /\ PhaseInv(r)
    BY DEF WInv, Typed, RunInv
  <1>2. \E x : run' = [run EXCEPT ![r] = x] /\ Ahead(x) < Ahead(run[r])
    <2>1. CASE Claim(r)
      <3>1. PICK phase \in {"focus", "build"} : run' = [run EXCEPT ![r].phase = phase]
        BY <2>1 DEF Claim, AlreadyExists
      <3> DEFINE x == [run[r] EXCEPT !.phase = phase]
      <3>2. x.phase = phase /\ x.watchdog = run[r].watchdog /\ x.page = run[r].page
        BY <1>1 DEF Run
      <3>3. run' = [run EXCEPT ![r] = x]
        BY <3>1
      <3> HIDE DEF x
      <3>4. Ahead(x) < Ahead(run[r])
        BY <2>1, <3>2 DEF Claim, Ahead, PhaseLeft
      <3> QED
        BY <3>3, <3>4
    <2>2. CASE CreateWindow(r)
      <3> DEFINE x == [run[r] EXCEPT !.phase = "tray", !.window = "hidden"]
      <3>2. x.phase = "tray" /\ x.watchdog = run[r].watchdog /\ x.page = run[r].page
        BY <1>1 DEF Run
      <3>3. run' = [run EXCEPT ![r] = x]
        BY <2>2 DEF CreateWindow
      <3> HIDE DEF x
      <3>4. Ahead(x) < Ahead(run[r])
        BY <2>2, <3>2 DEF CreateWindow, Ahead, PhaseLeft
      <3> QED
        BY <3>3, <3>4
    <2>3. CASE BuildTray(r)
      <3> DEFINE x == [run[r] EXCEPT !.phase = "manage"]
                 y == Serving(run[r])
      <3>2. x.phase = "manage" /\ x.watchdog = run[r].watchdog /\ x.page = run[r].page
        BY <1>1 DEF Run
      <3>3. y.phase = "loop" /\ y.watchdog = "armed" /\ y.page = run[r].page
        BY <1>1 DEF Run, Serving
      <3>4. run' = [run EXCEPT ![r] = x] \/ run' = [run EXCEPT ![r] = y]
        BY <2>3 DEF BuildTray
      <3> HIDE DEF x, y
      <3>5. Ahead(x) < Ahead(run[r]) /\ Ahead(y) < Ahead(run[r])
        BY <2>3, <3>2, <3>3 DEF BuildTray, Ahead, PhaseLeft
      <3> QED
        BY <3>4, <3>5
    <2>4. CASE Manage(r)
      <3> DEFINE x == [run[r] EXCEPT !.phase = "query", !.managed = TRUE]
      <3>2. x.phase = "query" /\ x.watchdog = run[r].watchdog /\ x.page = run[r].page
        BY <1>1 DEF Run
      <3>3. run' = [run EXCEPT ![r] = x]
        BY <2>4 DEF Manage
      <3> HIDE DEF x
      <3>4. Ahead(x) < Ahead(run[r])
        BY <2>4, <3>2 DEF Manage, Ahead, PhaseLeft
      <3> QED
        BY <3>3, <3>4
    <2>5. CASE QueryWindow(r)
      <3>1. PICK ok \in BOOLEAN :
              run' = [run EXCEPT ![r].phase = "label", ![r].seen = ok /\ Visible(r)]
        BY <2>5 DEF QueryWindow
      <3> DEFINE x == [run[r] EXCEPT !.phase = "label", !.seen = ok /\ Visible(r)]
      <3>2. x.phase = "label" /\ x.watchdog = run[r].watchdog /\ x.page = run[r].page
        BY <1>1 DEF Run
      <3>3. run' = [run EXCEPT ![r] = x]
        BY <3>1
      <3> HIDE DEF x
      <3>4. Ahead(x) < Ahead(run[r])
        BY <2>5, <3>2 DEF QueryWindow, Ahead, PhaseLeft
      <3> QED
        BY <3>3, <3>4
    <2>6. CASE SetLabel(r)
      <3> DEFINE x == [Serving(run[r]) EXCEPT !.label = Label(run[r].seen)]
      <3>2. x.phase = "loop" /\ x.watchdog = "armed" /\ x.page = run[r].page
        BY <1>1 DEF Run, Serving
      <3>3. run' = [run EXCEPT ![r] = x]
        BY <2>6 DEF SetLabel
      <3> HIDE DEF x
      <3>4. Ahead(x) < Ahead(run[r])
        BY <2>6, <3>2 DEF SetLabel, Ahead, PhaseLeft
      <3> QED
        BY <3>3, <3>4
    <2>7. CASE WatchdogWakes(r)
      <3> DEFINE x == [run[r] EXCEPT !.watchdog = "done", !.ending = @ \/ run[r].page = "loading"]
      <3>2. x.phase = run[r].phase /\ x.watchdog = "done" /\ x.page = run[r].page
        BY <1>1 DEF Run
      <3>3. run' = [run EXCEPT ![r] = x]
        BY <2>7 DEF WatchdogWakes
      <3> HIDE DEF x
      <3>4. run[r].watchdog = "armed" /\ run[r].phase = "loop"
        BY <1>1, <2>7 DEF WatchdogWakes, PhaseInv, InLoop
      <3>5. Ahead(x) < Ahead(run[r])
        BY <3>2, <3>4 DEF Ahead, PhaseLeft
      <3> QED
        BY <3>3, <3>5
    <2> QED
      BY <2>1, <2>2, <2>3, <2>4, <2>5, <2>6, <2>7 DEF SetUp
  <1> QED
    BY <1>2, MovesOne

LEMMA FocusLowers ==
  ASSUME WInv, NEW r \in Runs, Focus(r)
  PROVE  /\ RunLeft(r)' < RunLeft(r)
         /\ \A s \in Runs : s # r => RunLeft(s)' = RunLeft(s)
  <1>1. run \in [Runs -> Run] /\ run[r].phase = "focus" /\ run[r] \in Run
    BY DEF Focus, WInv, Typed
  <1>2. Ahead(Off) = 0 /\ Ahead(run[r]) > 0
    BY <1>1, OffOK DEF Ahead, PhaseLeft, Run
  <1>3. CASE run' = [run EXCEPT ![r] = Off]
    BY <1>2, <1>3, MovesOne
  <1>4. ASSUME NEW i \in Titled, run' = [run EXCEPT ![r] = Off, ![i].window = "visible"]
        PROVE  /\ RunLeft(r)' < RunLeft(r)
               /\ \A s \in Runs : s # r => RunLeft(s)' = RunLeft(s)
    <2> DEFINE x == [run[i] EXCEPT !.window = "visible"]
    <2>1. i \in Runs /\ i # r
      BY <1>1 DEF Titled, WInv, RunInv, PhaseInv, Early
    <2>2. /\ x.phase = run[i].phase /\ x.watchdog = run[i].watchdog /\ x.page = run[i].page
      BY <1>1, <2>1 DEF Run
    <2>3. run' = [run EXCEPT ![r] = Off, ![i] = x]
      BY <1>1, <1>4, <2>1
    <2> HIDE DEF x
    <2>4. /\ run'[r] = Off /\ run'[i] = x
          /\ \A s \in Runs : s # r /\ s # i => run'[s] = run[s]
      BY <1>1, <2>1, <2>3
    <2>5. RunLeft(r)' = Ahead(Off) /\ RunLeft(r) = Ahead(run[r])
      BY <2>4 DEF RunLeft, Ahead
    <2>6. \A s \in Runs : s # r => RunLeft(s)' = RunLeft(s)
      BY <2>2, <2>4 DEF RunLeft
    <2> QED
      BY <1>2, <2>5, <2>6
  <1> QED
    BY <1>3, <1>4 DEF Focus

LEMMA PageActsLowers ==
  ASSUME WInv, NEW r \in Runs, PageActs(r)
  PROVE  /\ RunLeft(r)' < RunLeft(r)
         /\ \A s \in Runs : s # r => RunLeft(s)' = RunLeft(s)
  <1> DEFINE was == [run[r] EXCEPT !.page = "handled"]
  <1>1. Before(r, was) /\ (Show(r, was) \/ Hide(r, was)) /\ run[r].page = "loaded"
    BY DEF PageActs, Before
  <1>2. was.phase = run[r].phase /\ was.watchdog = run[r].watchdog /\ was.page = "handled"
        /\ run[r] \in Run
    BY DEF WInv, Typed, Run
  <1> HIDE DEF was
  <1>3. /\ RunLeft(r)' = Ahead(was) /\ RunLeft(r) = Ahead(run[r])
        /\ \A s \in Runs : s # r => RunLeft(s)' = RunLeft(s)
    BY <1>1, ShowLeaves DEF RunLeft, Ahead
  <1>4. Ahead(was) < Ahead(run[r])
    BY <1>1, <1>2 DEF Ahead, PhaseLeft
  <1> QED
    BY <1>3, <1>4

(* A step of a program's own brings it nearer its rest, and leaves the     *)
(* other programs where they are.                                          *)
LEMMA WindowStepLowers ==
  ASSUME WInv, NEW r \in Runs, WindowStep(r) \/ Stops(r)
  PROVE  /\ RunLeft(r)' < RunLeft(r)
         /\ \A s \in Runs : s # r => RunLeft(s)' = RunLeft(s)
  <1>1. CASE Stops(r)
    <2>1. Gone(r) /\ run[r].phase # "off"
      BY <1>1 DEF Stops, Ends, SetUpFails, Killed, InLoop
    <2> QED
      BY <2>1, GoneLowers
  <1> QED
    BY <1>1, SetUpLowers, FocusLowers, PageActsLowers DEF WindowStep

(* What the user does at a window leaves the program nothing to do by      *)
(* itself but to end, which it had to do anyway.                           *)
LEMMA EventLeaves ==
  ASSUME WInv, NEW r \in Runs, WindowEvent(r), ~\E minimised \in BOOLEAN : Start(r, minimised)
  PROVE  \A s \in Runs : RunLeft(s)' = RunLeft(s)
  <1>1. /\ run \in [Runs -> Run] /\ run[r] \in Run /\ Before(r, run[r])
        /\ RunLeft(r) = Ahead(run[r])
    BY DEF WInv, Typed, Before, RunLeft, Ahead
  <1>2. CASE Show(r, run[r]) \/ Hide(r, run[r])
    BY <1>1, <1>2, ShowLeaves
  <1>3. CASE Iconify(r)
    <2> DEFINE x == [run[r] EXCEPT !.window = IF @ = "visible" THEN "iconic" ELSE "visible"]
    <2>1. run' = [run EXCEPT ![r] = x]
      BY <1>3 DEF Iconify
    <2>2. Ahead(x) = Ahead(run[r])
      BY <1>1 DEF Run, Ahead
    <2> HIDE DEF x
    <2> QED
      BY <2>1, <2>2, MovesOne
  <1>4. CASE Quit(r)
    <2> DEFINE x == [run[r] EXCEPT !.quitting = TRUE, !.ending = TRUE]
    <2>1. run' = [run EXCEPT ![r] = x]
      BY <1>4 DEF Quit
    <2>2. Ahead(x) = Ahead(run[r])
      BY <1>1 DEF Run, Ahead
    <2> HIDE DEF x
    <2> QED
      BY <2>1, <2>2, MovesOne
  <1>5. CASE run' = [run EXCEPT ![r].window = "none", ![r].ending = TRUE]
    <2> DEFINE x == [run[r] EXCEPT !.window = "none", !.ending = TRUE]
    <2>1. run' = [run EXCEPT ![r] = x]
      BY <1>5
    <2>2. Ahead(x) = Ahead(run[r])
      BY <1>1 DEF Run, Ahead
    <2> HIDE DEF x
    <2> QED
      BY <2>1, <2>2, MovesOne
  <1> QED
    BY <1>2, <1>3, <1>4, <1>5 DEF WindowEvent, Toggle, DoubleClick, CloseRequested

LEMMA WindowWork ==
  ASSUME WInv, [WindowNext]_windowVars, NEW s \in Runs, RunLeft(s)' > RunLeft(s)
  PROVE  PageLoads(s) \/ \E minimised \in BOOLEAN : Start(s, minimised)
  <1>1. RunLeft(s) \in Nat /\ RunLeft(s)' \in Nat
    BY AheadNat DEF RunLeft, Ahead
  <1>2. CASE UNCHANGED windowVars
    <2>1. RunLeft(s)' = RunLeft(s)
      BY <1>2 DEF windowVars, RunLeft
    <2> QED
      BY <1>1, <2>1
  <1>3. ASSUME NEW r \in Runs, WindowStep(r) \/ Stops(r)
        PROVE  FALSE
    <2>1. RunLeft(s)' < RunLeft(s) \/ RunLeft(s)' = RunLeft(s)
      BY <1>3, WindowStepLowers
    <2> QED
      BY <1>1, <2>1
  <1>4. ASSUME NEW r \in Runs, WindowEvent(r)
        PROVE  \E minimised \in BOOLEAN : Start(s, minimised)
    <2>1. PICK minimised \in BOOLEAN : Start(r, minimised)
      BY <1>1, <1>4, EventLeaves
    <2>2. CASE r = s
      BY <2>1, <2>2
    <2>3. CASE r # s
      <3>1. run' = [run EXCEPT ![r] = [run[r] EXCEPT !.phase = "start", !.minimised = minimised]]
        BY <2>1 DEF Start
      <3>2. RunLeft(s)' = RunLeft(s)
        BY <2>3, <3>1, MovesOne
      <3> QED
        BY <1>1, <3>2
    <2> QED
      BY <2>2, <2>3
  <1>5. ASSUME NEW r \in Runs, PageLoads(r)
        PROVE  PageLoads(s)
    <2>1. CASE r # s
      <3>1. run' = [run EXCEPT ![r] = [run[r] EXCEPT !.page = "loaded"]]
        BY <1>5 DEF PageLoads
      <3>2. RunLeft(s)' = RunLeft(s)
        BY <2>1, <3>1, MovesOne
      <3> QED
        BY <1>1, <3>2
    <2> QED
      BY <1>5, <2>1
  <1> QED
    BY <1>2, <1>3, <1>4, <1>5 DEF WindowNext

(* The candidates still to try are finitely many, whichever they are.      *)
LEMMA CandidatesFinite ==
  ASSUME NEW places \in SUBSET DOMAIN Fallback
  PROVE  /\ IsFiniteSet(places) /\ Cardinality(places) \in 0 .. Len(Fallback)
         /\ Len(Fallback) \in Nat
  <1>1. Len(Fallback) \in Nat /\ DOMAIN Fallback = 1 .. Len(Fallback)
    OBVIOUS
  <1>2. IsFiniteSet(DOMAIN Fallback) /\ Cardinality(DOMAIN Fallback) = Len(Fallback)
    <2>1. 1 \in Int /\ Len(Fallback) \in Int
      BY <1>1
    <2>2. /\ IsFiniteSet(1 .. Len(Fallback))
          /\ Cardinality(1 .. Len(Fallback))
               = IF 1 > Len(Fallback) THEN 0 ELSE Len(Fallback) - 1 + 1
      BY <2>1, FS_Interval
    <2>3. (IF 1 > Len(Fallback) THEN 0 ELSE Len(Fallback) - 1 + 1) = Len(Fallback)
      BY <1>1
    <2> QED
      BY <1>1, <2>2, <2>3
  <1>3. IsFiniteSet(places) /\ Cardinality(places) <= Len(Fallback)
    BY <1>2, FS_Subset
  <1> QED
    BY <1>1, <1>3, FS_CardinalityType

LEMMA StepLeftOK ==
  ASSUME NEW step, NEW rest \in SUBSET DOMAIN Fallback
  PROVE  /\ StepLeft(step, Cardinality(rest)) \in Nat
         /\ StepLeft(step, Cardinality(rest)) <= 3 * Len(Fallback) + 5
  <1> DEFINE n == Len(Fallback)
             k == Cardinality(rest)
  <1>1. n \in Nat /\ k \in Nat /\ k <= n
    BY CandidatesFinite
  <1> SUFFICES StepLeft(step, k) \in Nat /\ StepLeft(step, k) <= 3 * n + 5
    OBVIOUS
  <1>2. StepLeft(step, k) \in {3 * n + 5, 3 * n + 4, 3 * n + 1, 3 * k + 3, 3 * k + 2, 3 * k + 1, 0}
    BY DEF StepLeft
  <1> HIDE DEF n, k
  <1> QED
    BY <1>1, <1>2

LEMMA TriesOK ==
  ASSUME GInv, NEW c \in Commands
  PROVE  Cardinality(job[c].rest) \in 0 .. Len(Fallback) /\ Len(Fallback) \in Nat
  <1>1. job[c].rest \in SUBSET DOMAIN Fallback
    BY DEF GInv, LaunchTypeOK, Job
  <1> QED
    BY <1>1, CandidatesFinite

LEMMA CommandLeftOK ==
  ASSUME GInv, NEW c \in Commands
  PROVE  CommandLeft(c) \in 0 .. 3 * Len(Fallback) + 5
  <1>1. job[c].rest \in SUBSET DOMAIN Fallback /\ Len(Fallback) \in Nat
    BY TriesOK DEF GInv, LaunchTypeOK, Job
  <1> QED
    BY <1>1, StepLeftOK DEF CommandLeft

(* A command that turns to the next candidate has three steps less to do.  *)
LEMMA TryFirstLeaves ==
  ASSUME GInv, NEW c \in Commands, AtWork(c), NEW places \in SUBSET DOMAIN Fallback,
         TryFirst(c, places)
  PROVE  CommandLeft(c)' = 3 * Cardinality(places) /\ OthersStay(c)
  <1>1. PICK i \in places : Try(c, Fallback[i], places \ {i})
    BY DEF TryFirst
  <1>2. job'[c].step = "verify" /\ job'[c].rest = places \ {i} /\ OthersStay(c)
    BY <1>1, FallbackOK, TryOK
  <1>3. Cardinality(places \ {i}) = Cardinality(places) - 1 /\ Cardinality(places) \in Nat
    BY <1>1, CandidatesFinite, FS_RemoveElement
  <1>4. CommandLeft(c)' = 3 * (Cardinality(places) - 1) + 3
    BY <1>2, <1>3 DEF CommandLeft, StepLeft
  <1> QED
    BY <1>2, <1>3, <1>4

LEMMA FinishLeaves ==
  ASSUME GInv, NEW c \in Commands, AtWork(c), NEW answer \in Answer, Finish(c, answer)
  PROVE  CommandLeft(c)' = 0 /\ OthersStay(c)
  BY FinishOK DEF CommandLeft, StepLeft

LEMMA RejectLeaves ==
  ASSUME GInv, NEW c \in Commands, AtWork(c), Reject(c)
  PROVE  CommandLeft(c)' \in 0 .. 3 * Cardinality(job[c].rest) /\ OthersStay(c)
  <1>1. job[c].rest \in SUBSET DOMAIN Fallback /\ Cardinality(job[c].rest) \in Nat
    BY TriesOK DEF GInv, LaunchTypeOK, Job
  <1>2. CASE job[c].rest = {}
    <2>1. CommandLeft(c)' = 0 /\ OthersStay(c)
      BY <1>2, FinishLeaves DEF Reject, Answer
    <2> QED
      BY <1>1, <2>1
  <1>3. CASE job[c].rest # {}
    <2>1. CommandLeft(c)' = 3 * Cardinality(job[c].rest) /\ OthersStay(c)
      BY <1>1, <1>3, TryFirstLeaves DEF Reject
    <2> QED
      BY <1>1, <2>1
  <1> QED
    BY <1>2, <1>3

(* A command's step brings it nearer its answer, and leaves the others     *)
(* where they are.                                                         *)
LEMMA LaunchStepLowers ==
  ASSUME GInv, NEW c \in Commands, LaunchStep(c)
  PROVE  CommandLeft(c)' < CommandLeft(c) /\ OthersStay(c)
  <1>1. /\ job \in [Commands -> Job] /\ LaunchTypeOK
        /\ Cardinality(job[c].rest) \in 0 .. Len(Fallback) /\ Len(Fallback) \in Nat
    BY TriesOK DEF GInv, LaunchTypeOK
  <1>2. CASE TryClaim(c)
    <2>1. CommandLeft(c) = 3 * Len(Fallback) + 5
      BY <1>2 DEF TryClaim, CommandLeft, StepLeft
    <2>2. CASE GoTo(c, "choose")
      <3>1. job'[c].step = "choose" /\ OthersStay(c)
        BY <1>1, <2>2, GoToOK DEF Step
      <3>2. CommandLeft(c)' = 3 * Len(Fallback) + 4
        BY <3>1 DEF CommandLeft, StepLeft
      <3> QED
        BY <1>1, <2>1, <3>1, <3>2
    <2>3. CASE job' = [job EXCEPT ![c] = Ended("preparing")]
      <3>1. job'[c].step = "done" /\ OthersStay(c)
        BY <1>1, <2>3, EndedOK DEF OthersStay, Answer
      <3>2. CommandLeft(c)' = 0
        BY <3>1 DEF CommandLeft, StepLeft
      <3> QED
        BY <1>1, <2>1, <3>1, <3>2
    <2> QED
      BY <1>2, <2>2, <2>3 DEF TryClaim
  <1>3. CASE Choose(c)
    <2>1. CommandLeft(c) = 3 * Len(Fallback) + 4 /\ AtWork(c)
      BY <1>3 DEF Choose, CommandLeft, StepLeft, AtWork
    <2>2. CASE Finish(c, "running")
      <3>1. CommandLeft(c)' = 0 /\ OthersStay(c)
        BY <2>1, <2>2, FinishLeaves DEF Answer
      <3> QED
        BY <1>1, <2>1, <3>1
    <2>3. CASE job[c].named # NoPath /\ Try(c, job[c].named, {})
      <3>1. job[c].named \in Paths
        BY <1>1, <2>3 DEF Job
      <3>2. job'[c].step = "verify" /\ job'[c].rest = {} /\ OthersStay(c)
        BY <2>1, <2>3, <3>1, TryOK
      <3>3. CommandLeft(c)' = 3
        BY <3>2, FS_EmptySet DEF CommandLeft, StepLeft
      <3> QED
        BY <1>1, <2>1, <3>2, <3>3
    <2>4. CASE job' = [job EXCEPT ![c].step = "search", ![c].named = NoPath]
      <3>1. job'[c].step = "search" /\ OthersStay(c)
        BY <1>1, <2>4 DEF OthersStay, Job
      <3>2. CommandLeft(c)' = 3 * Len(Fallback) + 1
        BY <3>1 DEF CommandLeft, StepLeft
      <3> QED
        BY <1>1, <2>1, <3>1, <3>2
    <2> QED
      BY <1>3, <2>2, <2>3, <2>4 DEF Choose
  <1>4. CASE Search(c)
    <2>1. CommandLeft(c) = 3 * Len(Fallback) + 1 /\ AtWork(c)
      BY <1>4 DEF Search, CommandLeft, StepLeft, AtWork
    <2>2. CASE Finish(c, "not found")
      <3>1. CommandLeft(c)' = 0 /\ OthersStay(c)
        BY <2>1, <2>2, FinishLeaves DEF Answer
      <3> QED
        BY <1>1, <2>1, <3>1
    <2>3. CASE TryFirst(c, Existing)
      <3>1. Existing \in SUBSET DOMAIN Fallback
        BY DEF Existing
      <3>2. Cardinality(Existing) \in 0 .. Len(Fallback)
        BY <3>1, CandidatesFinite
      <3>3. CommandLeft(c)' = 3 * Cardinality(Existing) /\ OthersStay(c)
        BY <2>1, <2>3, <3>1, TryFirstLeaves
      <3> QED
        BY <1>1, <2>1, <3>2, <3>3
    <2> QED
      BY <1>4, <2>2, <2>3 DEF Search
  <1>5. CASE Verify(c) \/ Create(c) \/ Discard(c)
    <2>1. AtWork(c) /\ CommandLeft(c) > 3 * Cardinality(job[c].rest)
      BY <1>1, <1>5 DEF Verify, Create, Discard, CommandLeft, StepLeft, AtWork
    <2>2. CASE Reject(c)
      BY <1>1, <2>1, <2>2, RejectLeaves DEF CommandLeft, StepLeft
    <2>3. CASE Verify(c) /\ GoTo(c, "create")
      <3>1. job'[c].step = "create" /\ job'[c].rest = job[c].rest /\ OthersStay(c)
        BY <1>1, <2>3, GoToOK DEF Step
      <3>2. CommandLeft(c)' = 3 * Cardinality(job[c].rest) + 2
        BY <3>1 DEF CommandLeft, StepLeft
      <3>3. CommandLeft(c) = 3 * Cardinality(job[c].rest) + 3
        BY <2>3 DEF Verify, CommandLeft, StepLeft
      <3> QED
        BY <1>1, <3>1, <3>2, <3>3
    <2>4. CASE Create(c) /\ GoTo(c, "resume")
      <3>1. job'[c].step = "resume" /\ job'[c].rest = job[c].rest /\ OthersStay(c)
        BY <1>1, <2>4, GoToOK DEF Step
      <3>2. CommandLeft(c)' = 3 * Cardinality(job[c].rest) + 1
        BY <3>1 DEF CommandLeft, StepLeft
      <3>3. CommandLeft(c) = 3 * Cardinality(job[c].rest) + 2
        BY <2>4 DEF Create, CommandLeft, StepLeft
      <3> QED
        BY <1>1, <3>1, <3>2, <3>3
    <2> QED
      BY <1>5, <2>2, <2>3, <2>4 DEF Verify, Create, Discard
  <1>6. CASE Resume(c)
    <2>1. AtWork(c) /\ CommandLeft(c) > 0 /\ Finish(c, "started")
      BY <1>1, <1>6 DEF Resume, CommandLeft, StepLeft, AtWork
    <2>2. CommandLeft(c)' = 0 /\ OthersStay(c)
      BY <2>1, FinishLeaves DEF Answer
    <2> QED
      BY <2>1, <2>2
  <1> QED
    BY <1>2, <1>3, <1>4, <1>5, <1>6 DEF LaunchStep

LEMMA LaunchWork ==
  ASSUME GInv, [LaunchNext]_launchVars, NEW d \in Commands, CommandLeft(d)' > CommandLeft(d)
  PROVE  \E r \in Programs, named \in Paths \cup {NoPath} : Click(d, r, named)
  <1>1. CommandLeft(d) \in Nat /\ job \in [Commands -> Job]
    BY CommandLeftOK, TriesOK DEF GInv, LaunchTypeOK
  <1>2. job'[d] # job[d]
    BY <1>1 DEF CommandLeft
  <1>3. ASSUME NEW c \in Commands, LaunchStep(c)
        PROVE  FALSE
    <2>1. CommandLeft(c)' < CommandLeft(c) /\ OthersStay(c)
      BY <1>3, LaunchStepLowers
    <2>2. c = d
      BY <1>2, <2>1 DEF OthersStay
    <2>3. job'[d].rest \in SUBSET DOMAIN Fallback
      BY <1>3, LaunchStepOK DEF LaunchNext, GInv, LaunchTypeOK, Job
    <2>4. CommandLeft(d)' \in Nat
      BY <2>3, StepLeftOK DEF CommandLeft
    <2> QED
      BY <1>1, <2>1, <2>2, <2>4
  <1>4. ASSUME NEW r \in Programs, LaunchEnds(r)
        PROVE  FALSE
    <2>1. job'[d] = Ended("none")
      BY <1>2, <1>4 DEF LaunchEnds
    <2>2. CommandLeft(d)' = 0
      BY <2>1, EndedOK DEF CommandLeft, StepLeft, Answer
    <2> QED
      BY <1>1, <2>2
  <1>5. ASSUME NEW c \in Commands, NEW r \in Programs, NEW named \in Paths \cup {NoPath},
               Click(c, r, named)
        PROVE  Click(d, r, named)
    <2>1. c # d => job'[d] = job[d]
      BY <1>1, <1>5 DEF Click
    <2> QED
      BY <1>2, <1>5, <2>1
  <1>6. ~UNCHANGED job
    BY <1>2
  <1> QED
    BY <1>3, <1>4, <1>5, <1>6 DEF LaunchNext, Clicks, FileChanges, launchVars

(* A thread's step lowers the number of its own program or command.        *)
LEMMA ThreadGoesOn ==
  ASSUME WInv, GInv, Threads
  PROVE  GoesOn
  <1>1. ASSUME NEW r \in Runs, MainThread(r) \/ PageThread(r) \/ Watchdog(r) \/ Exits(r)
        PROVE  GoesOn
    <2>1. WindowStep(r) \/ Stops(r)
      BY <1>1 DEF MainThread, PageThread, Watchdog, Exits, WindowStep, Stops
    <2> QED
      BY <2>1, WindowStepLowers DEF GoesOn
  <1>2. ASSUME NEW c \in Commands, PoolThread(c)
        PROVE  GoesOn
    BY <1>2, LaunchStepLowers DEF PoolThread, GoesOn
  <1> QED
    BY <1>1, <1>2 DEF Threads

(* What a program or a command has left to do by itself is bounded, by a   *)
(* number that its candidates alone decide (launch_game tries each once).  *)
THEOREM WorkIsBounded == Spec => []LeftIsBounded
  <1>1. WInv /\ GInv => LeftIsBounded
    BY RunLeftOK, CommandLeftOK DEF LeftIsBounded
  <1> QED
    BY <1>1, IsItsComponents, WindowSafe, LaunchSafe, PTL

(* Every step of a thread lowers what its program or its command has left, *)
(* and nothing raises it but a start, a page's load and a click: between   *)
(* two of those the threads come to rest by themselves (setup,             *)
(* start_webview_readiness_watchdog, launch_game).                         *)
THEOREM ComesToRest == Spec => RestsByItself
  <1>1. WInv /\ GInv /\ [Next]_vars => [(Threads => GoesOn) /\ WorkFromOutside]_vars
    <2> SUFFICES ASSUME WInv, GInv, [Next]_vars
                 PROVE  (Threads => GoesOn) /\ WorkFromOutside
      OBVIOUS
    <2>1. Threads => GoesOn
      BY ThreadGoesOn
    <2>2. WorkFromOutside
      BY NextIsStep, WindowWork, LaunchWork DEF WorkFromOutside
    <2> QED
      BY <2>1, <2>2
  <1> QED
    BY <1>1, IsItsComponents, WindowSafe, LaunchSafe, PTL DEF Spec, RestsByItself
=============================================================================
