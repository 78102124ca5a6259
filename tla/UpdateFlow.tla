----------------------------- MODULE UpdateFlow -----------------------------
(***************************************************************************)
(* In-app update: the page's check button and its alert timer both run     *)
(* check_latest_release, which leaves what it found in PendingUpdateState; *)
(* the install button installs what is found there.  Commands are          *)
(* asynchronous: they may reach PendingUpdateState in another order than   *)
(* the page sent them, the network answers when it likes, and the page     *)
(* takes only the answer to the last command it sent of the domain         *)
(* "update".  An alert is recorded in the settings file, so that the same  *)
(* version is not announced again.                                         *)
(***************************************************************************)
EXTENDS Integers, FiniteSets

CONSTANTS
  Checks,        \* check commands in flight at once
  Alerters,      \* the one that may be an alert check, or none
  MaxVersion,    \* bound: releases; 0 is the version that is installed at first
  Unusable,      \* releases whose download URL is not allowed
  MaxCommands,   \* bound: commands the page sends
  MaxFaults,     \* bound: failed requests, downloads and saves
  MaxToggles,    \* bound: times the user turns alerts on or off
  MaxRestarts    \* bound: exits or crashes of the program

ASSUME UpdateAssumption ==
  /\ Alerters \subseteq Checks /\ \A a, b \in Alerters : a = b
  /\ {MaxVersion, MaxCommands, MaxFaults, MaxToggles, MaxRestarts} \subseteq Nat
  /\ Unusable \subseteq 1..MaxVersion
  /\ {"nobody", "user"} \cap Checks = {}

VARIABLES
  published,   \* latest release on the server; it is never taken back
  installed,   \* version of the program
  pending,     \* PendingUpdateInner.pending, 0 for none
  generation,  \* PendingUpdateInner.check_generation
  checks,      \* the check commands
  install,     \* the install command
  file,        \* the settings file: alerts on or off, last version announced
  guard,       \* who holds the settings write lock, and what it loaded
  page,        \* the page: last ticket of the domain, offered version, pendingRef
  alerts,      \* history: how often each version was announced
  newest,      \* history: newest version that was ever pending
  toggles, faults, restarts

server == <<published, installed>>
state == <<pending, generation, newest>>
store == <<file, guard>>
budget == <<toggles, faults, restarts>>
vars == <<server, state, checks, install, store, page, alerts, budget>>

Versions == 0..MaxVersion

NoVersion == 0

File == [enabled : BOOLEAN, notified : Versions]

(* A command holds the page's ticket and, once it has begun, a generation  *)
(* and the version it found.  Its answer is an offer, unless it was        *)
(* rejected: then the page keeps the offer it has.                         *)
Check ==
  [at : {"idle", "sent", "fetching", "fetched", "alerting", "saving", "answered"},
   alert : BOOLEAN, ticket : Nat, generation : Nat, version : Versions,
   offer : Versions, rejected : BOOLEAN]

NoCheck == [at |-> "idle", alert |-> FALSE, ticket |-> 0, generation |-> 0,
            version |-> NoVersion, offer |-> NoVersion, rejected |-> FALSE]

Install == [at : {"idle", "sent", "downloading", "answered"}, version : Versions]

NoInstall == [at |-> "idle", version |-> NoVersion]

Unguarded == [by |-> "nobody", loaded |-> [enabled |-> FALSE, notified |-> NoVersion]]

Guard == [by : {"nobody", "user"} \cup Checks, loaded : File]

NewPage == [ticket |-> 0, offered |-> NoVersion, busy |-> FALSE]

Fault == faults < MaxFaults /\ faults' = faults + 1 /\ UNCHANGED <<toggles, restarts>>

NoFault == UNCHANGED budget

Update(c, check) == checks' = [checks EXCEPT ![c] = check]

Answer(c, offer) == Update(c, [checks[c] EXCEPT !.at = "answered", !.offer = offer])

Reject(c) == Update(c, [checks[c] EXCEPT !.at = "answered", !.rejected = TRUE])

-----------------------------------------------------------------------------
(* The page.  A button works only when no button command is in flight      *)
(* (pendingRef); every command of the domain takes the next ticket.        *)
SendCheck(c, alert) ==
  /\ page.ticket < MaxCommands
  /\ checks[c].at = "idle" /\ ~page.busy
  /\ alert => c \in Alerters /\ file.enabled
  /\ page' = [page EXCEPT !.ticket = @ + 1, !.busy = ~alert]
  /\ Update(c, [NoCheck EXCEPT !.at = "sent", !.alert = alert, !.ticket = page.ticket + 1])
  /\ UNCHANGED <<server, state, install, store, alerts, budget>>

SendInstall ==
  /\ page.ticket < MaxCommands
  /\ ~page.busy /\ page.offered # NoVersion
  /\ page' = [page EXCEPT !.ticket = @ + 1, !.busy = TRUE]
  /\ install' = [NoInstall EXCEPT !.at = "sent"]
  /\ UNCHANGED <<server, state, checks, store, alerts, budget>>

(* Only the answer to the last command sent is applied; an answered button *)
(* command frees the buttons in any case.                                  *)
Deliver(c) ==
  LET applied == checks[c].ticket = page.ticket /\ ~checks[c].rejected IN
  /\ checks[c].at = "answered"
  /\ page' = [page EXCEPT !.offered = IF applied THEN checks[c].offer ELSE @,
                          !.busy = @ /\ checks[c].alert]
  /\ Update(c, NoCheck)
  /\ UNCHANGED <<server, state, install, store, alerts, budget>>

DeliverInstall ==
  /\ install.at = "answered"
  /\ page' = [page EXCEPT !.busy = FALSE]
  /\ install' = NoInstall
  /\ UNCHANGED <<server, state, checks, store, alerts, budget>>

-----------------------------------------------------------------------------
(* check_update_alert reads the settings before it checks.                 *)
AlertsOff(c) ==
  /\ checks[c].at = "sent" /\ checks[c].alert /\ ~file.enabled
  /\ Answer(c, NoVersion)
  /\ UNCHANGED <<server, state, install, store, page, alerts, budget>>

BeginCheck(c) ==
  /\ checks[c].at = "sent"
  /\ checks[c].alert => file.enabled
  /\ generation' = generation + 1
  /\ Update(c, [checks[c] EXCEPT !.at = "fetching", !.generation = generation + 1])
  /\ UNCHANGED <<server, pending, newest, install, store, page, alerts, budget>>

(* What replaces the pending update: the latest release, if it is newer    *)
(* and may be downloaded.                                                  *)
Found == IF published > installed /\ published \notin Unusable THEN published ELSE NoVersion

Fetch(c) ==
  /\ checks[c].at = "fetching"
  /\ \/ Update(c, [checks[c] EXCEPT !.at = "fetched", !.version = Found]) /\ NoFault
     \/ Answer(c, NoVersion) /\ Fault
  /\ UNCHANGED <<server, state, install, store, page, alerts>>

(* Fault: an overtaken check leaves its result all the same.               *)
AnyGeneration(c) == TRUE

CheckIsCurrent(c) == checks[c].generation = generation

Larger(a, b) == IF a > b THEN a ELSE b

(* replace_if_current, and the answer of a check that announces nothing.   *)
Replace(c) ==
  /\ checks[c].at = "fetched"
  /\ CheckIsCurrent(c)
  /\ pending' = checks[c].version
  /\ newest' = Larger(newest, checks[c].version)
  /\ IF checks[c].alert /\ checks[c].version # NoVersion
     THEN Update(c, [checks[c] EXCEPT !.at = "alerting"])
     ELSE Answer(c, checks[c].version)
  /\ UNCHANGED <<server, generation, install, store, page, alerts, budget>>

CheckIsStale(c) ==
  /\ checks[c].at = "fetched"
  /\ ~CheckIsCurrent(c)
  /\ Answer(c, NoVersion)
  /\ UNCHANGED <<server, state, install, store, page, alerts, budget>>

(* Fault: the version is not compared with the last one announced.         *)
EverFresh(c, loaded) == loaded.enabled

(* should_alert_for_update *)
ShouldAlert(c, loaded) == loaded.enabled /\ loaded.notified # checks[c].version

(* The read-modify-write of the settings, under their write lock.          *)
LoadForAlert(c) ==
  /\ checks[c].at = "alerting" /\ guard.by = "nobody"
  /\ IF ShouldAlert(c, file)
     THEN /\ guard' = [by |-> c, loaded |-> file]
          /\ Update(c, [checks[c] EXCEPT !.at = "saving"])
     ELSE /\ UNCHANGED guard
          /\ Answer(c, checks[c].version)
  /\ UNCHANGED <<server, state, install, file, page, alerts, budget>>

SaveAlert(c) ==
  /\ checks[c].at = "saving"
  /\ file' = [guard.loaded EXCEPT !.notified = checks[c].version]
  /\ alerts' = [alerts EXCEPT ![checks[c].version] = @ + 1]
  /\ guard' = Unguarded
  /\ Answer(c, checks[c].version)
  /\ UNCHANGED <<server, state, install, page, budget>>

(* The save fails, and the page ignores the rejected command.              *)
SaveAlertFails(c) ==
  /\ checks[c].at = "saving"
  /\ Fault
  /\ guard' = Unguarded
  /\ Reject(c)
  /\ UNCHANGED <<server, state, install, file, page, alerts>>

(* set_setting turns alerts on or off: load, change one field, save.       *)
LoadToggle ==
  /\ toggles < MaxToggles /\ toggles' = toggles + 1
  /\ guard.by = "nobody"
  /\ guard' = [by |-> "user", loaded |-> file]
  /\ UNCHANGED <<server, state, checks, install, file, page, alerts, faults, restarts>>

SaveToggle ==
  /\ guard.by = "user"
  /\ \/ file' = [guard.loaded EXCEPT !.enabled = ~@] /\ NoFault
     \/ UNCHANGED file /\ Fault
  /\ guard' = Unguarded
  /\ UNCHANGED <<server, state, checks, install, page, alerts>>

-----------------------------------------------------------------------------
(* install_pending_update: the update is taken, and put back when the      *)
(* download or the installer fails and no check has found another one.     *)
TakeUpdate ==
  /\ install.at = "sent"
  /\ install' = IF pending = NoVersion THEN [install EXCEPT !.at = "answered"]
                ELSE [at |-> "downloading", version |-> pending]
  /\ pending' = NoVersion
  /\ UNCHANGED <<server, generation, newest, checks, store, page, alerts, budget>>

(* Fault: the failed update replaces one found meanwhile.                  *)
RestoreAlways == install.version

(* Fault: the failed update is lost.                                       *)
NeverRestore == pending

RestoreIfEmpty == IF pending = NoVersion THEN install.version ELSE pending

(* Fault: a failed install is never answered.                              *)
Unanswered == NoInstall

Rejected == [install EXCEPT !.at = "answered"]

InstallFails ==
  /\ install.at = "downloading"
  /\ Fault
  /\ pending' = RestoreIfEmpty
  /\ install' = Rejected
  /\ UNCHANGED <<server, generation, newest, checks, store, page, alerts>>

(* The installer ends the program and starts the new version: the process  *)
(* keeps nothing but the settings file.                                    *)
Reborn ==
  /\ pending' = NoVersion /\ generation' = 0 /\ newest' = NoVersion
  /\ checks' = [c \in Checks |-> NoCheck]
  /\ install' = NoInstall
  /\ guard' = Unguarded
  /\ page' = NewPage

InstallSucceeds ==
  /\ install.at = "downloading"
  /\ installed' = install.version
  /\ Reborn
  /\ UNCHANGED <<published, file, alerts, budget>>

Restart ==
  /\ restarts < MaxRestarts /\ restarts' = restarts + 1
  /\ Reborn
  /\ UNCHANGED <<server, file, alerts, toggles, faults>>

Publish ==
  /\ published < MaxVersion
  /\ published' = published + 1
  /\ UNCHANGED <<installed, state, checks, install, store, page, alerts, budget>>

Init ==
  /\ published = 0 /\ installed = 0
  /\ pending = NoVersion /\ generation = 0 /\ newest = NoVersion
  /\ checks = [c \in Checks |-> NoCheck]
  /\ install = NoInstall
  /\ file = [enabled |-> TRUE, notified |-> NoVersion]
  /\ guard = Unguarded
  /\ page = NewPage
  /\ alerts = [v \in Versions |-> 0]
  /\ toggles = 0 /\ faults = 0 /\ restarts = 0

Run(c) ==
  \/ AlertsOff(c) \/ BeginCheck(c) \/ Fetch(c) \/ Replace(c) \/ CheckIsStale(c)
  \/ LoadForAlert(c) \/ SaveAlert(c) \/ SaveAlertFails(c) \/ Deliver(c)

RunInstall == TakeUpdate \/ InstallFails \/ InstallSucceeds \/ DeliverInstall

Next ==
  \/ \E c \in Checks : Run(c) \/ \E alert \in BOOLEAN : SendCheck(c, alert)
  \/ SendInstall \/ RunInstall
  \/ LoadToggle \/ SaveToggle \/ Publish \/ Restart

Spec == Init /\ [][Next]_vars

(* Requests have timeouts (15 seconds for the metadata, 10 minutes for a   *)
(* download), so a command in flight always goes on.                       *)
Fairness ==
  /\ \A c \in Checks : WF_vars(Run(c))
  /\ WF_vars(RunInstall) /\ WF_vars(SaveToggle)

FairSpec == Spec /\ Fairness
-----------------------------------------------------------------------------
TypeOK ==
  /\ published \in Versions /\ installed \in Versions
  /\ pending \in Versions /\ generation \in Nat /\ newest \in Versions
  /\ checks \in [Checks -> Check]
  /\ install \in Install
  /\ file \in File
  /\ guard \in Guard
  /\ page \in [ticket : Nat, offered : Versions, busy : BOOLEAN]
  /\ alerts \in [Versions -> Nat]
  /\ toggles \in Nat /\ faults \in Nat /\ restarts \in Nat

(* What can be installed is the newest version any check has found: a slow *)
(* check or a failed install never brings an older one back                *)
(* (replace_if_current, restore_if_empty).                                 *)
NeverOlder == pending \in {NoVersion, newest}

(* When the page offers an update and waits for no command, there is one   *)
(* to install, also after an install failed (restore_if_empty).  Only a    *)
(* release that may not be downloaded takes it away behind the page's back.*)
OfferedIsPending ==
  page.offered # NoVersion /\ ~page.busy =>
    pending # NoVersion \/ \E v \in Unusable : v <= published

(* A version is announced at most once, across restarts and changes of the *)
(* settings (the comment above last_update_notified_version), provided one *)
(* alert check has been answered before the next one is sent.              *)
AlertOnce == \A v \in Versions : alerts[v] <= 1

(* The buttons come back: every button command is answered, or its program *)
(* is gone (the finally of runCommand).                                    *)
ButtonsComeBack == page.busy ~> ~page.busy
=============================================================================
