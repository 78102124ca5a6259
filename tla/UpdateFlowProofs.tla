-------------------------- MODULE UpdateFlowProofs ---------------------------
(***************************************************************************)
(* What can be installed is the newest version found, what is offered can  *)
(* be installed, and nothing is announced twice, for any number of checks, *)
(* releases, commands, faults and restarts.                                *)
(***************************************************************************)
EXTENDS UpdateFlow, TLAPS

Begun(c) == checks[c].at \in {"fetching", "fetched"}

InFlight(c) == checks[c].at \in {"sent", "fetching", "fetched"}

Announcing(c) == checks[c].at \in {"alerting", "saving"}

(* A release that may not be downloaded is out.                            *)
Withdrawn == \E v \in Unusable : v <= published

Newer(v) == v # NoVersion => installed < v /\ v <= published

(* Of the checks at work one at most is of the last generation.            *)
GenInv ==
  /\ \A c \in Checks : checks[c].generation <= generation
  /\ \A c, d \in Checks :
       Begun(c) /\ Begun(d) /\ checks[c].generation = checks[d].generation => c = d

(* Only an alert check announces, and an offer is an answer.               *)
AlertInv ==
  \A c \in Checks :
    /\ checks[c].alert => c \in Alerters
    /\ Announcing(c) => checks[c].alert /\ checks[c].version # NoVersion
    /\ checks[c].at # "answered" => checks[c].offer = NoVersion

(* Who saves holds the settings lock, and the file is as it was loaded.    *)
GuardInv ==
  /\ guard.by # "nobody" => guard.loaded = file
  /\ \A c \in Checks : checks[c].at = "saving" => guard.by = c
  /\ \A c \in Checks : checks[c].at = "saving" => checks[c].version # file.notified

(* Every version that is found lies between the installed and the latest.  *)
FoundInv ==
  /\ installed <= published /\ newest <= published /\ file.notified <= published
  /\ Newer(pending) /\ Newer(install.version) /\ Newer(page.offered)
  /\ \A c \in Checks : Newer(checks[c].version) /\ Newer(checks[c].offer)

(* What may replace the pending update is as new as anything found.        *)
NewInv ==
  /\ NeverOlder
  /\ \A c \in Checks :
       checks[c].at = "fetched" /\ CheckIsCurrent(c) /\ checks[c].version # NoVersion =>
         newest <= checks[c].version

(* One button command at a time, and the page knows of it.                 *)
BusyInv ==
  /\ ~page.busy => install.at = "idle" /\ \A c \in Checks : checks[c].at # "idle" => checks[c].alert
  /\ install.at # "idle" => \A c \in Checks : checks[c].at # "idle" => checks[c].alert
  /\ \A c, d \in Checks :
       checks[c].at # "idle" /\ checks[d].at # "idle" /\ ~checks[c].alert /\ ~checks[d].alert => c = d

(* What is being installed is the newest version found, or a newer one is  *)
(* pending and no check can replace that.                                  *)
DownInv ==
  install.at = "downloading" =>
    /\ install.version # NoVersion
    /\ \/ install.version = newest
       \/ pending = newest /\ pending # NoVersion /\ \A c \in Checks : ~InFlight(c)

(* An offer, or an answer that will be one.                                *)
Offers ==
  page.offered # NoVersion \/ \E c \in Checks : checks[c].offer # NoVersion \/ Announcing(c)

Installable == pending # NoVersion \/ install.at = "downloading"

OfferInv == Withdrawn \/ (Offers => Installable)

(* A check that found nothing while it may replace the pending update did  *)
(* so when there was nothing.                                              *)
NoneInv ==
  \A c \in Checks :
    checks[c].at = "fetched" /\ CheckIsCurrent(c) /\ checks[c].version = NoVersion =>
      Withdrawn \/ (~Offers /\ ~Installable)

(* Versions are announced in their order.                                  *)
OnceInv ==
  /\ AlertOnce
  /\ \A v \in Versions : alerts[v] >= 1 => v <= file.notified
  /\ \A c \in Checks :
       checks[c].alert /\ checks[c].version # NoVersion
         /\ checks[c].at \in {"fetched", "alerting", "saving"} => file.notified <= checks[c].version

IInv ==
  /\ TypeOK /\ GenInv /\ AlertInv /\ GuardInv /\ FoundInv /\ NewInv
  /\ BusyInv /\ DownInv /\ OfferInv /\ NoneInv /\ OnceInv

USE UpdateAssumption

-----------------------------------------------------------------------------
LEMMA UpdateOK ==
  ASSUME TypeOK, NEW c \in Checks, NEW x \in Check, Update(c, x)
  PROVE  /\ checks' \in [Checks -> Check] /\ checks'[c] = x
         /\ \A d \in Checks : d # c => checks'[d] = checks[d]
  BY DEF TypeOK, Update

LEMMA NoCheckOK ==
  /\ NoCheck \in Check /\ NoCheck.at = "idle" /\ ~NoCheck.alert /\ NoCheck.generation = 0
  /\ NoCheck.version = NoVersion /\ NoCheck.offer = NoVersion
  BY DEF NoCheck, Check, Versions, NoVersion

LEMMA Typing ==
  ASSUME IInv
  PROVE  /\ published \in Nat /\ installed \in Nat /\ pending \in Nat /\ newest \in Nat
         /\ generation \in Nat /\ checks \in [Checks -> Check] /\ install \in Install
         /\ file \in File /\ guard \in Guard /\ NoVersion \in Nat /\ Versions \subseteq Nat
         /\ NoVersion \in Versions
  BY DEF IInv, TypeOK, Versions, NoVersion

LEMMA CheckTyping ==
  ASSUME IInv, NEW c \in Checks
  PROVE  /\ checks[c] \in Check /\ checks[c].version \in Nat /\ checks[c].offer \in Nat
         /\ checks[c].generation \in Nat /\ checks[c].version \in Versions
         /\ checks[c].offer \in Versions
  BY DEF IInv, TypeOK, Versions, Check

LEMMA InitOK == Init => IInv
  <1> SUFFICES ASSUME Init PROVE IInv
    OBVIOUS
  <1>1. \A c \in Checks : checks[c] = NoCheck
    BY DEF Init
  <1>2. TypeOK
    <2>1. checks \in [Checks -> Check]
      BY NoCheckOK DEF Init
    <2>2. install \in Install /\ file \in File /\ guard \in Guard
      BY DEF Init, Install, NoInstall, File, Guard, Unguarded, Versions, NoVersion
    <2>3. page \in [ticket : Nat, offered : Versions, busy : BOOLEAN]
      BY DEF Init, NewPage, Versions, NoVersion
    <2>4. alerts \in [Versions -> Nat]
      BY DEF Init
    <2>5. {published, installed, pending, newest} \subseteq Versions
      BY DEF Init, Versions, NoVersion
    <2>6. {generation, toggles, faults, restarts} \subseteq Nat
      BY DEF Init
    <2> QED
      BY <2>1, <2>2, <2>3, <2>4, <2>5, <2>6 DEF TypeOK
  <1>3. GenInv /\ AlertInv /\ GuardInv
    BY <1>1, NoCheckOK DEF Init, GenInv, AlertInv, GuardInv, Begun, Announcing, Unguarded
  <1>4. FoundInv /\ NewInv
    BY <1>1, NoCheckOK DEF Init, FoundInv, NewInv, Newer, NeverOlder, NoVersion, NoInstall, NewPage
  <1>5. BusyInv /\ DownInv
    BY <1>1, NoCheckOK DEF Init, BusyInv, DownInv, NoInstall, NewPage
  <1>6. OfferInv /\ NoneInv
    BY <1>1, NoCheckOK DEF Init, OfferInv, NoneInv, Offers, Announcing, NewPage
  <1>7. OnceInv
    BY <1>1, NoCheckOK DEF Init, OnceInv, AlertOnce, NoVersion
  <1> QED
    BY <1>2, <1>3, <1>4, <1>5, <1>6, <1>7 DEF IInv

-----------------------------------------------------------------------------
(* A step of one check that leaves page and install command alone keeps    *)
(* who is who.                                                             *)
LEMMA CheckStep ==
  ASSUME IInv, NEW c \in Checks, NEW x \in Check, Update(c, x),
         UNCHANGED <<generation, install, page>>,
         x.at # "idle", checks[c].at # "idle", x.at # "sent",
         x.alert = checks[c].alert, x.generation = checks[c].generation,
         x.at \in {"fetching", "fetched"} => Begun(c),
         x.at \in {"alerting", "saving"} => x.alert /\ x.version # NoVersion,
         x.at # "answered" => x.offer = NoVersion
  PROVE  GenInv' /\ AlertInv' /\ BusyInv' /\ (pending' = pending /\ newest' = newest => DownInv')
  <1>1. /\ checks' \in [Checks -> Check] /\ checks'[c] = x
        /\ \A d \in Checks : d # c => checks'[d] = checks[d]
    BY UpdateOK DEF IInv
  <1>2. GenInv'
    BY <1>1 DEF IInv, GenInv, Begun
  <1>3. AlertInv'
    BY <1>1 DEF IInv, AlertInv, Announcing
  <1>4. BusyInv'
    BY <1>1 DEF IInv, BusyInv
  <1>5. pending' = pending /\ newest' = newest => DownInv'
    BY <1>1 DEF IInv, DownInv, InFlight, Begun
  <1> QED
    BY <1>2, <1>3, <1>4, <1>5

(* A check that is through with nothing to offer.                          *)
LEMMA NothingOK ==
  ASSUME IInv, NEW c \in Checks, NEW x \in Check, Update(c, x),
         UNCHANGED <<server, state, install, page, alerts, file>>,
         x.at = "answered", x.offer = NoVersion, x.alert = checks[c].alert,
         x.generation = checks[c].generation, x.version = checks[c].version,
         checks[c].at # "idle", guard' \in Guard,
         toggles' \in Nat, faults' \in Nat, restarts' \in Nat,
         guard' = guard \/ (checks[c].at = "saving" /\ guard' = Unguarded)
  PROVE  IInv'
  <1>1. /\ checks' \in [Checks -> Check] /\ checks'[c] = x
        /\ \A d \in Checks : d # c => checks'[d] = checks[d]
    BY UpdateOK DEF IInv
  <1>2. /\ UNCHANGED <<published, installed, pending, generation, newest>>
        /\ published' = published /\ installed' = installed /\ pending' = pending
        /\ generation' = generation /\ newest' = newest
    BY DEF server, state
  <1>3. TypeOK'
    BY <1>1, <1>2 DEF IInv, TypeOK
  <1>4. GenInv' /\ AlertInv' /\ BusyInv' /\ DownInv'
    BY <1>2, CheckStep
  <1>5. GuardInv'
    BY <1>1 DEF IInv, GuardInv, Unguarded
  <1>6. FoundInv'
    BY <1>1, <1>2 DEF IInv, FoundInv, Newer
  <1>7. NewInv'
    BY <1>1, <1>2 DEF IInv, NewInv, NeverOlder, CheckIsCurrent
  <1>8. Offers' => Offers
    BY <1>1 DEF Offers, Announcing
  <1>9. Withdrawn' = Withdrawn /\ (Installable' <=> Installable)
    BY <1>2 DEF Withdrawn, Installable
  <1>10. OfferInv'
    BY <1>8, <1>9 DEF IInv, OfferInv
  <1>11. NoneInv'
    BY <1>1, <1>2, <1>8, <1>9 DEF IInv, NoneInv, CheckIsCurrent
  <1>12. OnceInv'
    BY <1>1 DEF IInv, OnceInv, AlertOnce
  <1> QED
    BY <1>3, <1>4, <1>5, <1>6, <1>7, <1>10, <1>11, <1>12 DEF IInv

(* The records a check's answer is made of.                                *)
LEMMA AnswerOK ==
  ASSUME IInv, NEW c \in Checks, NEW offer \in Versions
  PROVE  LET x == [checks[c] EXCEPT !.at = "answered", !.offer = offer]
             y == [checks[c] EXCEPT !.at = "answered", !.rejected = TRUE]
         IN  /\ x \in Check /\ x.at = "answered" /\ x.offer = offer /\ x.alert = checks[c].alert
             /\ x.generation = checks[c].generation /\ x.version = checks[c].version
             /\ y \in Check /\ y.at = "answered" /\ y.offer = checks[c].offer
             /\ y.alert = checks[c].alert
             /\ y.generation = checks[c].generation /\ y.version = checks[c].version
  BY CheckTyping DEF Check

LEMMA BudgetOK ==
  ASSUME IInv, NoFault \/ Fault
  PROVE  toggles' \in Nat /\ faults' \in Nat /\ restarts' \in Nat
  BY DEF IInv, TypeOK, NoFault, Fault, budget

LEMMA EmptyAnswerOK ==
  ASSUME IInv, NEW c \in Checks, checks[c].at # "idle", Answer(c, NoVersion),
         UNCHANGED <<server, state, install, store, page, alerts>>, NoFault \/ Fault
  PROVE  IInv'
  <1> DEFINE x == [checks[c] EXCEPT !.at = "answered", !.offer = NoVersion]
  <1>1. /\ x \in Check /\ x.at = "answered" /\ x.offer = NoVersion /\ x.alert = checks[c].alert
        /\ x.generation = checks[c].generation /\ x.version = checks[c].version
    BY AnswerOK, Typing
  <1>2. Update(c, x)
    BY DEF Answer
  <1> HIDE DEF x
  <1>3. guard' = guard /\ file' = file /\ guard' \in Guard
    BY Typing DEF store
  <1> QED
    BY <1>1, <1>2, <1>3, BudgetOK, NothingOK

LEMMA AlertsOffOK ==
  ASSUME IInv, NEW c \in Checks, AlertsOff(c)
  PROVE  IInv'
  BY EmptyAnswerOK DEF AlertsOff, NoFault

LEMMA StaleOK ==
  ASSUME IInv, NEW c \in Checks, CheckIsStale(c)
  PROVE  IInv'
  BY EmptyAnswerOK DEF CheckIsStale, NoFault

LEMMA SaveAlertFailsOK ==
  ASSUME IInv, NEW c \in Checks, SaveAlertFails(c)
  PROVE  IInv'
  <1> DEFINE y == [checks[c] EXCEPT !.at = "answered", !.rejected = TRUE]
  <1>0. checks[c].at = "saving" /\ checks[c].offer = NoVersion
    BY DEF SaveAlertFails, IInv, AlertInv
  <1>1. /\ y \in Check /\ y.at = "answered" /\ y.offer = NoVersion /\ y.alert = checks[c].alert
        /\ y.generation = checks[c].generation /\ y.version = checks[c].version
    BY <1>0, AnswerOK, Typing
  <1>2. Update(c, y) /\ guard' = Unguarded
    BY DEF SaveAlertFails, Reject
  <1> HIDE DEF y
  <1>3. Unguarded \in Guard
    BY DEF Unguarded, Guard, File, Versions, NoVersion
  <1> QED
    BY <1>0, <1>1, <1>2, <1>3, BudgetOK, NothingOK DEF SaveAlertFails

-----------------------------------------------------------------------------
LEMMA BeginOK ==
  ASSUME IInv, NEW c \in Checks, BeginCheck(c)
  PROVE  IInv'
  <1> DEFINE x == [checks[c] EXCEPT !.at = "fetching", !.generation = generation + 1]
  <1>1. /\ x \in Check /\ x.at = "fetching" /\ x.generation = generation + 1
        /\ x.alert = checks[c].alert /\ x.version = checks[c].version /\ x.offer = checks[c].offer
    <2>1. checks[c] \in Check /\ generation + 1 \in Nat
      BY CheckTyping, Typing
    <2> QED
      BY <2>1 DEF Check
  <1>2. /\ Update(c, x) /\ checks[c].at = "sent" /\ generation' = generation + 1
        /\ UNCHANGED <<published, installed, pending, newest, install, file, guard, page, alerts>>
        /\ UNCHANGED <<toggles, faults, restarts>>
    BY DEF BeginCheck, server, store, budget
  <1> HIDE DEF x
  <1>3. /\ checks' \in [Checks -> Check] /\ checks'[c] = x
        /\ \A d \in Checks : d # c => checks'[d] = checks[d]
    BY <1>1, <1>2, UpdateOK DEF IInv
  <1>4. \A d \in Checks : checks[d].generation \in Nat /\ checks[d].generation <= generation
    BY CheckTyping DEF IInv, GenInv
  <1>5. TypeOK'
    BY <1>2, <1>3, Typing DEF IInv, TypeOK
  <1>6. GenInv'
    BY <1>1, <1>2, <1>3, <1>4, Typing DEF IInv, GenInv, Begun
  <1>7. AlertInv' /\ GuardInv'
    BY <1>1, <1>2, <1>3 DEF IInv, AlertInv, GuardInv, Announcing
  <1>8. FoundInv'
    BY <1>1, <1>2, <1>3 DEF IInv, FoundInv, Newer
  <1>9. \A d \in Checks : checks'[d].at = "fetched" => ~CheckIsCurrent(d)'
    BY <1>1, <1>2, <1>3, <1>4, Typing DEF CheckIsCurrent
  <1>10. NewInv' /\ NoneInv'
    BY <1>2, <1>9 DEF IInv, NewInv, NoneInv, NeverOlder
  <1>11. BusyInv' /\ DownInv'
    BY <1>1, <1>2, <1>3 DEF IInv, BusyInv, DownInv, InFlight
  <1>12. OfferInv'
    BY <1>1, <1>2, <1>3 DEF IInv, OfferInv, Offers, Announcing, Installable, Withdrawn
  <1>13. OnceInv'
    BY <1>1, <1>2, <1>3 DEF IInv, OnceInv, AlertOnce
  <1> QED
    BY <1>5, <1>6, <1>7, <1>8, <1>10, <1>11, <1>12, <1>13 DEF IInv

(* What is found is the latest release, or there is nothing to find.       *)
LEMMA FoundOK ==
  ASSUME IInv
  PROVE  /\ Found \in Versions /\ Newer(Found)
         /\ Found # NoVersion => Found = published
         /\ Found = NoVersion => Withdrawn \/ published = installed
  <1>1. published \in Versions /\ published \in Nat /\ installed \in Nat /\ installed <= published
    BY Typing DEF IInv, TypeOK, FoundInv
  <1>2. published \in Unusable => Withdrawn
    BY <1>1 DEF Withdrawn
  <1>3. CASE published > installed /\ published \notin Unusable
    BY <1>1, <1>3 DEF Found, Newer, NoVersion
  <1>4. CASE ~(published > installed /\ published \notin Unusable)
    <2>1. Found = NoVersion /\ (published \in Unusable \/ published = installed)
      BY <1>1, <1>4 DEF Found
    <2> QED
      BY <1>2, <2>1, Typing DEF Newer
  <1> QED
    BY <1>3, <1>4

LEMMA FetchOK ==
  ASSUME IInv, NEW c \in Checks, Fetch(c)
  PROVE  IInv'
  <1>1. CASE Answer(c, NoVersion) /\ Fault
    BY <1>1, EmptyAnswerOK DEF Fetch
  <1>2. CASE Update(c, [checks[c] EXCEPT !.at = "fetched", !.version = Found]) /\ NoFault
    <2> DEFINE x == [checks[c] EXCEPT !.at = "fetched", !.version = Found]
    <2>1. /\ x \in Check /\ x.at = "fetched" /\ x.generation = checks[c].generation
          /\ x.alert = checks[c].alert /\ x.version = Found /\ x.offer = checks[c].offer
      BY CheckTyping, FoundOK DEF Check
    <2>2. /\ Update(c, x) /\ checks[c].at = "fetching"
          /\ UNCHANGED <<published, installed, pending, generation, newest, install, file, guard,
                         page, alerts>>
          /\ UNCHANGED <<toggles, faults, restarts>>
      BY <1>2 DEF Fetch, NoFault, server, state, store, budget
    <2> HIDE DEF x
    <2>3. /\ checks' \in [Checks -> Check] /\ checks'[c] = x
          /\ \A d \in Checks : d # c => checks'[d] = checks[d]
      BY <2>1, <2>2, UpdateOK DEF IInv
    <2>4. TypeOK'
      BY <2>2, <2>3 DEF IInv, TypeOK
    <2>5. checks[c].offer = NoVersion
      BY <2>2 DEF IInv, AlertInv
    <2>6. GenInv' /\ AlertInv' /\ BusyInv' /\ DownInv'
      BY <2>1, <2>2, <2>5, CheckStep DEF Begun
    <2>7. GuardInv'
      BY <2>1, <2>2, <2>3 DEF IInv, GuardInv
    <2>8. FoundInv'
      BY <2>1, <2>2, <2>3, FoundOK DEF IInv, FoundInv, Newer
    <2>9. newest <= published /\ file.notified <= published
      BY DEF IInv, FoundInv
    <2>10. NewInv'
      BY <2>1, <2>2, <2>3, <2>9, FoundOK DEF IInv, NewInv, NeverOlder, CheckIsCurrent
    <2>11. (Offers' <=> Offers) /\ (Installable' <=> Installable) /\ (Withdrawn' <=> Withdrawn)
      BY <2>1, <2>2, <2>3 DEF Offers, Announcing, Installable, Withdrawn
    <2>12. OfferInv'
      BY <2>11 DEF IInv, OfferInv
    <2>13. published = installed => ~Offers /\ ~Installable
      <3> SUFFICES ASSUME published = installed PROVE ~Offers /\ ~Installable
        OBVIOUS
      <3>1. \A v \in Nat : Newer(v) => v = NoVersion
        BY Typing DEF Newer
      <3>2. pending = NoVersion /\ page.offered = NoVersion /\ install.version = NoVersion
        BY <3>1, Typing DEF IInv, TypeOK, FoundInv, Install, Versions
      <3>3. \A d \in Checks : checks[d].offer = NoVersion /\ checks[d].version = NoVersion
        BY <3>1, CheckTyping DEF IInv, FoundInv
      <3> QED
        BY <3>2, <3>3 DEF IInv, Offers, Installable, AlertInv, DownInv
    <2>14. NoneInv'
      BY <2>1, <2>2, <2>3, <2>11, <2>13, FoundOK DEF IInv, NoneInv, CheckIsCurrent
    <2>15. OnceInv'
      BY <2>1, <2>2, <2>3, <2>9, FoundOK DEF IInv, OnceInv, AlertOnce
    <2> QED
      BY <2>4, <2>6, <2>7, <2>8, <2>10, <2>12, <2>14, <2>15 DEF IInv
  <1> QED
    BY <1>1, <1>2 DEF Fetch

(* The last check replaces the pending update.                             *)
LEMMA ReplaceOK ==
  ASSUME IInv, NEW c \in Checks, Replace(c)
  PROVE  IInv'
  <1> DEFINE v == checks[c].version
  <1>1. /\ checks[c].at = "fetched" /\ CheckIsCurrent(c) /\ checks[c].offer = NoVersion
        /\ pending' = v /\ newest' = Larger(newest, v)
        /\ UNCHANGED <<published, installed, generation, install, file, guard, page, alerts>>
        /\ UNCHANGED <<toggles, faults, restarts>>
    BY DEF Replace, server, store, budget, IInv, AlertInv
  <1>2. PICK x \in Check :
          /\ Update(c, x) /\ x.generation = checks[c].generation /\ x.alert = checks[c].alert
          /\ x.version = v
          /\ \/ x.at = "alerting" /\ x.alert /\ v # NoVersion /\ x.offer = NoVersion
             \/ x.at = "answered" /\ x.offer = v
    <2>1. CASE checks[c].alert /\ v # NoVersion
      <3> DEFINE y == [checks[c] EXCEPT !.at = "alerting"]
      <3>1. /\ y \in Check /\ y.generation = checks[c].generation /\ y.alert = checks[c].alert
            /\ y.version = v /\ y.at = "alerting" /\ y.offer = checks[c].offer
        BY CheckTyping DEF Check
      <3>2. Update(c, y)
        BY <2>1 DEF Replace
      <3> HIDE DEF y
      <3> QED
        BY <1>1, <2>1, <3>1, <3>2
    <2>2. CASE ~(checks[c].alert /\ v # NoVersion)
      <3> DEFINE y == [checks[c] EXCEPT !.at = "answered", !.offer = v]
      <3>1. /\ y \in Check /\ y.generation = checks[c].generation /\ y.alert = checks[c].alert
            /\ y.version = v /\ y.at = "answered" /\ y.offer = v
        BY CheckTyping DEF Check
      <3>2. Update(c, y)
        BY <2>2 DEF Replace, Answer
      <3> HIDE DEF y
      <3> QED
        BY <3>1, <3>2
    <2> QED
      BY <2>1, <2>2
  <1>3. v \in Nat /\ v \in Versions /\ newest \in Nat /\ newest \in Versions
    BY CheckTyping, Typing DEF IInv, TypeOK
  <1>4. v # NoVersion => newest' = v /\ newest <= v
    BY <1>1, <1>3 DEF IInv, NewInv, Larger
  <1>5. v = NoVersion => newest' = newest
    BY <1>1, <1>3 DEF Larger, NoVersion
  <1> HIDE DEF v
  <1>6. /\ checks' \in [Checks -> Check] /\ checks'[c] = x
        /\ \A d \in Checks : d # c => checks'[d] = checks[d]
    BY <1>2, UpdateOK DEF IInv
  <1>7. TypeOK'
    BY <1>1, <1>3, <1>4, <1>5, <1>6 DEF IInv, TypeOK
  <1>8. GenInv' /\ AlertInv' /\ BusyInv'
    BY <1>1, <1>2, CheckStep
  <1>9. GuardInv'
    BY <1>1, <1>2, <1>6 DEF IInv, GuardInv
  <1>10. Newer(v)
    BY DEF IInv, FoundInv, v
  <1>11. FoundInv'
    BY <1>1, <1>2, <1>4, <1>5, <1>6, <1>10 DEF IInv, FoundInv, Newer
  <1>12. \A d \in Checks : checks'[d].at = "fetched" => ~CheckIsCurrent(d)'
    <2>1. \A d \in Checks : d # c /\ checks[d].at = "fetched" => checks[d].generation # generation
      BY <1>1 DEF IInv, GenInv, Begun, CheckIsCurrent
    <2> QED
      BY <1>1, <1>2, <1>6, <2>1 DEF CheckIsCurrent
  <1>13. NewInv' /\ NoneInv'
    BY <1>1, <1>4, <1>5, <1>12 DEF IInv, NewInv, NoneInv, NeverOlder
  <1>14. DownInv'
    <2> SUFFICES ASSUME install.at = "downloading"
                 PROVE  DownInv'
      BY <1>1 DEF DownInv
    <2>1. install.version # NoVersion /\ install.version = newest
      BY <1>1 DEF IInv, DownInv, InFlight
    <2>2. \A d \in Checks : InFlight(d) => d = c
      BY <1>1 DEF IInv, BusyInv, AlertInv, InFlight
    <2>3. \A d \in Checks : ~InFlight(d)'
      BY <1>2, <1>6, <2>2 DEF InFlight
    <2> QED
      BY <1>1, <1>4, <1>5, <2>1, <2>3 DEF DownInv
  <1>15. OfferInv'
    <2>1. Withdrawn' <=> Withdrawn
      BY <1>1 DEF Withdrawn
    <2>2. CASE v # NoVersion
      BY <1>1, <2>2 DEF OfferInv, Installable
    <2>3. CASE v = NoVersion
      <3>1. Withdrawn \/ ~Offers
        BY <1>1, <2>3 DEF IInv, NoneInv, v
      <3>2. Offers' => Offers
        BY <1>1, <1>2, <1>6, <2>3 DEF Offers, Announcing
      <3> QED
        BY <2>1, <3>1, <3>2 DEF OfferInv
    <2> QED
      BY <2>2, <2>3
  <1>16. OnceInv'
    BY <1>1, <1>2, <1>6 DEF IInv, OnceInv, AlertOnce, v
  <1> QED
    BY <1>7, <1>8, <1>9, <1>11, <1>13, <1>14, <1>15, <1>16 DEF IInv

-----------------------------------------------------------------------------
(* The announcement: loaded under the lock, saved, and then an answer.     *)
LEMMA LoadForAlertOK ==
  ASSUME IInv, NEW c \in Checks, LoadForAlert(c)
  PROVE  IInv'
  <1>1. /\ checks[c].at = "alerting" /\ guard.by = "nobody" /\ checks[c].offer = NoVersion
        /\ checks[c].alert /\ checks[c].version # NoVersion
        /\ UNCHANGED <<published, installed, pending, generation, newest, install, file, page,
                       alerts>>
        /\ UNCHANGED <<toggles, faults, restarts>>
    BY DEF LoadForAlert, server, state, budget, IInv, AlertInv, Announcing
  <1>2. PICK x \in Check :
          /\ Update(c, x) /\ x.generation = checks[c].generation /\ x.alert = checks[c].alert
          /\ x.version = checks[c].version
          /\ \/ /\ x.at = "saving" /\ x.offer = NoVersion /\ guard' = [by |-> c, loaded |-> file]
                /\ checks[c].version # file.notified
             \/ x.at = "answered" /\ x.offer = checks[c].version /\ guard' = guard
    <2>1. CASE ShouldAlert(c, file)
      <3> DEFINE y == [checks[c] EXCEPT !.at = "saving"]
      <3>1. /\ y \in Check /\ y.generation = checks[c].generation /\ y.alert = checks[c].alert
            /\ y.version = checks[c].version /\ y.at = "saving" /\ y.offer = checks[c].offer
        BY CheckTyping DEF Check
      <3>2. Update(c, y) /\ guard' = [by |-> c, loaded |-> file]
        BY <2>1 DEF LoadForAlert
      <3>3. checks[c].version # file.notified
        BY <2>1 DEF ShouldAlert
      <3> HIDE DEF y
      <3> QED
        BY <1>1, <3>1, <3>2, <3>3
    <2>2. CASE ~ShouldAlert(c, file)
      <3> DEFINE y == [checks[c] EXCEPT !.at = "answered", !.offer = checks[c].version]
      <3>1. /\ y \in Check /\ y.generation = checks[c].generation /\ y.alert = checks[c].alert
            /\ y.version = checks[c].version /\ y.at = "answered"
            /\ y.offer = checks[c].version
        BY CheckTyping DEF Check
      <3>2. Update(c, y) /\ guard' = guard
        BY <2>2 DEF LoadForAlert, Answer
      <3> HIDE DEF y
      <3> QED
        BY <3>1, <3>2
    <2> QED
      BY <2>1, <2>2
  <1>3. /\ checks' \in [Checks -> Check] /\ checks'[c] = x
        /\ \A d \in Checks : d # c => checks'[d] = checks[d]
    BY <1>2, UpdateOK DEF IInv
  <1>4. TypeOK'
    <2>1. guard' \in Guard
      BY <1>2, Typing DEF Guard
    <2> QED
      BY <1>1, <1>3, <2>1 DEF IInv, TypeOK
  <1>5. GenInv' /\ AlertInv' /\ BusyInv' /\ DownInv'
    BY <1>1, <1>2, CheckStep
  <1>6. GuardInv'
    <2>1. \A d \in Checks : checks[d].at # "saving"
      BY <1>1 DEF IInv, GuardInv
    <2> QED
      BY <1>1, <1>2, <1>3, <2>1 DEF IInv, GuardInv
  <1>7. FoundInv'
    BY <1>1, <1>2, <1>3 DEF IInv, FoundInv, Newer
  <1>8. NewInv'
    BY <1>1, <1>2, <1>3 DEF IInv, NewInv, NeverOlder, CheckIsCurrent
  <1>9. (Offers' <=> Offers) /\ (Installable' <=> Installable) /\ (Withdrawn' <=> Withdrawn)
    BY <1>1, <1>2, <1>3 DEF Offers, Announcing, Installable, Withdrawn
  <1>10. OfferInv'
    BY <1>9 DEF IInv, OfferInv
  <1>11. NoneInv'
    BY <1>1, <1>2, <1>3, <1>9 DEF IInv, NoneInv, CheckIsCurrent
  <1>12. OnceInv'
    BY <1>1, <1>2, <1>3 DEF IInv, OnceInv, AlertOnce
  <1> QED
    BY <1>4, <1>5, <1>6, <1>7, <1>8, <1>10, <1>11, <1>12 DEF IInv

LEMMA SaveAlertOK ==
  ASSUME IInv, NEW c \in Checks, SaveAlert(c)
  PROVE  IInv'
  <1> DEFINE v == checks[c].version
             x == [checks[c] EXCEPT !.at = "answered", !.offer = v]
  <1>1. /\ checks[c].at = "saving" /\ checks[c].alert /\ v # NoVersion /\ guard.by = c
        /\ guard.loaded = file /\ v # file.notified /\ file.notified <= v
    BY DEF SaveAlert, IInv, AlertInv, GuardInv, Announcing, OnceInv
  <1>2. v \in Nat /\ v \in Versions /\ file.notified \in Nat
    BY CheckTyping, Typing DEF File, Versions
  <1>3. /\ file' = [file EXCEPT !.notified = v] /\ guard' = Unguarded
        /\ alerts' = [alerts EXCEPT ![v] = @ + 1]
        /\ UNCHANGED <<published, installed, pending, generation, newest, install, page>>
        /\ UNCHANGED <<toggles, faults, restarts>>
    BY <1>1 DEF SaveAlert, server, state, budget
  <1>4. /\ x \in Check /\ x.at = "answered" /\ x.offer = v /\ x.alert = checks[c].alert
        /\ x.generation = checks[c].generation /\ x.version = v
    BY CheckTyping DEF Check
  <1>5. Update(c, x)
    BY DEF SaveAlert, Answer
  <1>6. file' \in File /\ file'.notified = v
    BY <1>2, <1>3, Typing DEF File
  <1> HIDE DEF x
  <1>7. /\ checks' \in [Checks -> Check] /\ checks'[c] = x
        /\ \A d \in Checks : d # c => checks'[d] = checks[d]
    BY <1>4, <1>5, UpdateOK DEF IInv
  <1>8. alerts' \in [Versions -> Nat]
    BY <1>2, <1>3 DEF IInv, TypeOK
  <1>9. TypeOK'
    <2>1. guard' \in Guard
      BY <1>3 DEF Unguarded, Guard, File, Versions, NoVersion
    <2> QED
      BY <1>3, <1>6, <1>7, <1>8, <2>1 DEF IInv, TypeOK
  <1>10. GenInv' /\ AlertInv' /\ BusyInv' /\ DownInv'
    BY <1>1, <1>3, <1>4, <1>5, CheckStep
  <1>11. GuardInv'
    <2>1. \A d \in Checks : checks[d].at = "saving" => d = c
      BY <1>1 DEF IInv, GuardInv
    <2> QED
      BY <1>3, <1>4, <1>7, <2>1 DEF GuardInv, Unguarded
  <1>12. v <= published
    BY <1>1 DEF IInv, FoundInv, Newer
  <1> HIDE DEF v
  <1>13. FoundInv'
    BY <1>1, <1>3, <1>4, <1>6, <1>7, <1>12 DEF IInv, FoundInv, Newer, v
  <1>14. NewInv'
    BY <1>3, <1>4, <1>7 DEF IInv, NewInv, NeverOlder, CheckIsCurrent
  <1>15. (Offers' <=> Offers) /\ (Installable' <=> Installable) /\ (Withdrawn' <=> Withdrawn)
    BY <1>1, <1>3, <1>4, <1>7 DEF Offers, Announcing, Installable, Withdrawn
  <1>16. OfferInv'
    BY <1>15 DEF IInv, OfferInv
  <1>17. NoneInv'
    BY <1>3, <1>4, <1>7, <1>15 DEF IInv, NoneInv, CheckIsCurrent
  <1>18. OnceInv'
    <2>1. alerts[v] = 0
      BY <1>1, <1>2 DEF IInv, OnceInv, TypeOK
    <2>2. \A w \in Versions :
            /\ w \in Nat /\ alerts[w] \in Nat
            /\ alerts'[w] = IF w = v THEN 1 ELSE alerts[w]
      BY <1>2, <1>3, <2>1, Typing DEF IInv, TypeOK
    <2>3. \A w \in Versions : alerts'[w] <= 1 /\ (alerts'[w] >= 1 => w <= v)
      BY <1>1, <1>2, <2>2 DEF IInv, OnceInv, AlertOnce
    <2>4. \A d \in Checks : d # c => ~checks[d].alert
      BY <1>1 DEF IInv, AlertInv
    <2>5. \A d \in Checks : checks'[d].alert => checks'[d].at = "answered"
      BY <1>4, <1>7, <2>4
    <2> QED
      BY <1>6, <2>3, <2>5 DEF OnceInv, AlertOnce
  <1> QED
    BY <1>9, <1>10, <1>11, <1>13, <1>14, <1>16, <1>17, <1>18 DEF IInv

-----------------------------------------------------------------------------
(* A command that is sent has found nothing yet.                           *)
LEMMA SendCheckOK ==
  ASSUME IInv, NEW c \in Checks, NEW alert \in BOOLEAN, SendCheck(c, alert)
  PROVE  IInv'
  <1> DEFINE x == [NoCheck EXCEPT !.at = "sent", !.alert = alert, !.ticket = page.ticket + 1]
  <1>1. /\ checks[c].at = "idle" /\ ~page.busy /\ (alert => c \in Alerters)
        /\ page' = [page EXCEPT !.ticket = @ + 1, !.busy = ~alert] /\ Update(c, x)
        /\ UNCHANGED <<published, installed, pending, generation, newest, install, file, guard,
                       alerts>>
        /\ UNCHANGED <<toggles, faults, restarts>>
    BY DEF SendCheck, server, state, store, budget
  <1>2. page \in [ticket : Nat, offered : Versions, busy : BOOLEAN] /\ page.ticket + 1 \in Nat
    BY DEF IInv, TypeOK
  <1>3. /\ page' \in [ticket : Nat, offered : Versions, busy : BOOLEAN]
        /\ page'.offered = page.offered /\ page'.busy = ~alert
    BY <1>1, <1>2
  <1>4. /\ x \in Check /\ x.at = "sent" /\ x.alert = alert /\ x.generation = 0
        /\ x.version = NoVersion /\ x.offer = NoVersion
    BY <1>2, Typing DEF NoCheck, Check
  <1> HIDE DEF x
  <1>5. /\ checks' \in [Checks -> Check] /\ checks'[c] = x
        /\ \A d \in Checks : d # c => checks'[d] = checks[d]
    BY <1>1, <1>4, UpdateOK DEF IInv
  <1>6. TypeOK'
    BY <1>1, <1>3, <1>5 DEF IInv, TypeOK
  <1>7. GenInv'
    BY <1>1, <1>4, <1>5, Typing DEF IInv, GenInv, Begun
  <1>8. AlertInv' /\ GuardInv'
    BY <1>1, <1>4, <1>5 DEF IInv, AlertInv, GuardInv, Announcing
  <1>9. FoundInv'
    BY <1>1, <1>3, <1>4, <1>5 DEF IInv, FoundInv, Newer
  <1>10. NewInv'
    BY <1>1, <1>4, <1>5 DEF IInv, NewInv, NeverOlder, CheckIsCurrent
  <1>11. install.at = "idle" /\ \A d \in Checks : checks[d].at # "idle" => checks[d].alert
    BY <1>1 DEF IInv, BusyInv
  <1>12. BusyInv' /\ DownInv'
    BY <1>1, <1>3, <1>4, <1>5, <1>11 DEF BusyInv, DownInv
  <1>13. Offers' => Offers
    BY <1>1, <1>3, <1>4, <1>5 DEF Offers, Announcing
  <1>14. OfferInv' /\ NoneInv'
    BY <1>1, <1>4, <1>5, <1>13
    DEF IInv, OfferInv, NoneInv, CheckIsCurrent, Installable, Withdrawn
  <1>15. OnceInv'
    BY <1>1, <1>4, <1>5 DEF IInv, OnceInv, AlertOnce
  <1> QED
    BY <1>6, <1>7, <1>8, <1>9, <1>10, <1>12, <1>14, <1>15 DEF IInv

(* The page offers only what it was answered, and an answered button       *)
(* command was the only one.                                               *)
LEMMA DeliverOK ==
  ASSUME IInv, NEW c \in Checks, Deliver(c)
  PROVE  IInv'
  <1>1. /\ checks[c].at = "answered" /\ Update(c, NoCheck)
        /\ UNCHANGED <<published, installed, pending, generation, newest, install, file, guard,
                       alerts>>
        /\ UNCHANGED <<toggles, faults, restarts>>
    BY DEF Deliver, server, state, store, budget
  <1>2. /\ page \in [ticket : Nat, offered : Versions, busy : BOOLEAN]
        /\ checks[c].alert \in BOOLEAN
    BY CheckTyping DEF IInv, TypeOK, Check
  <1>3. PICK offered \in {page.offered, checks[c].offer} :
          page' = [page EXCEPT !.offered = offered, !.busy = @ /\ checks[c].alert]
    BY DEF Deliver
  <1>4. offered \in Versions
    BY <1>2, <1>3, CheckTyping
  <1>5. /\ page' \in [ticket : Nat, offered : Versions, busy : BOOLEAN]
        /\ page'.offered = offered /\ page'.busy = (page.busy /\ checks[c].alert)
    BY <1>2, <1>3, <1>4
  <1>6. /\ checks' \in [Checks -> Check] /\ checks'[c] = NoCheck
        /\ \A d \in Checks : d # c => checks'[d] = checks[d]
    BY <1>1, NoCheckOK, UpdateOK DEF IInv
  <1>7. TypeOK'
    BY <1>1, <1>5, <1>6 DEF IInv, TypeOK
  <1>8. GenInv'
    BY <1>1, <1>6, NoCheckOK, Typing DEF IInv, GenInv, Begun
  <1>9. AlertInv' /\ GuardInv'
    BY <1>1, <1>6, NoCheckOK DEF IInv, AlertInv, GuardInv, Announcing
  <1>10. FoundInv'
    BY <1>1, <1>3, <1>5, <1>6, NoCheckOK DEF IInv, FoundInv, Newer
  <1>11. NewInv'
    BY <1>1, <1>6, NoCheckOK DEF IInv, NewInv, NeverOlder, CheckIsCurrent
  <1>12. BusyInv'
    BY <1>1, <1>2, <1>5, <1>6, NoCheckOK DEF IInv, BusyInv
  <1>13. DownInv'
    BY <1>1, <1>6, NoCheckOK DEF IInv, DownInv, InFlight
  <1>14. Offers' => Offers
    BY <1>3, <1>5, <1>6, NoCheckOK DEF Offers, Announcing
  <1>15. OfferInv' /\ NoneInv'
    BY <1>1, <1>6, <1>14, NoCheckOK
    DEF IInv, OfferInv, NoneInv, CheckIsCurrent, Installable, Withdrawn
  <1>16. OnceInv'
    BY <1>1, <1>6, NoCheckOK DEF IInv, OnceInv, AlertOnce
  <1> QED
    BY <1>7, <1>8, <1>9, <1>10, <1>11, <1>12, <1>13, <1>15, <1>16 DEF IInv

-----------------------------------------------------------------------------
(* The steps that leave the checks alone.                                  *)
Others == UNCHANGED <<checks, alerts, generation, newest>>

LEMMA SendInstallOK ==
  ASSUME IInv, SendInstall
  PROVE  IInv'
  <1>1. /\ ~page.busy /\ page' = [page EXCEPT !.ticket = @ + 1, !.busy = TRUE]
        /\ install' = [NoInstall EXCEPT !.at = "sent"] /\ Others
        /\ UNCHANGED <<published, installed, pending, file, guard, toggles, faults, restarts>>
    BY DEF SendInstall, Others, server, state, store, budget
  <1>2. page \in [ticket : Nat, offered : Versions, busy : BOOLEAN] /\ page.ticket + 1 \in Nat
    BY DEF IInv, TypeOK
  <1>3. /\ page' \in [ticket : Nat, offered : Versions, busy : BOOLEAN]
        /\ page'.offered = page.offered /\ page'.busy
    BY <1>1, <1>2
  <1>4. install' \in Install /\ install'.at = "sent" /\ install'.version = NoVersion
    BY <1>1, Typing DEF NoInstall, Install
  <1>5. install.at = "idle" /\ \A c \in Checks : checks[c].at # "idle" => checks[c].alert
    BY <1>1 DEF IInv, BusyInv
  <1>6. TypeOK'
    BY <1>1, <1>3, <1>4 DEF IInv, TypeOK, Others
  <1>7. GenInv' /\ AlertInv' /\ GuardInv' /\ OnceInv'
    BY <1>1 DEF IInv, GenInv, AlertInv, GuardInv, OnceInv, AlertOnce, Begun, Announcing, Others
  <1>8. FoundInv' /\ NewInv'
    BY <1>1, <1>3, <1>4 DEF IInv, FoundInv, Newer, NewInv, NeverOlder, CheckIsCurrent, Others
  <1>9. BusyInv' /\ DownInv'
    BY <1>1, <1>3, <1>4, <1>5 DEF BusyInv, DownInv, Others
  <1>10. (Offers' <=> Offers) /\ (Installable' <=> Installable) /\ (Withdrawn' <=> Withdrawn)
    BY <1>1, <1>3, <1>4, <1>5 DEF Offers, Announcing, Installable, Withdrawn, Others
  <1>11. OfferInv' /\ NoneInv'
    BY <1>1, <1>10 DEF IInv, OfferInv, NoneInv, CheckIsCurrent, Others
  <1> QED
    BY <1>6, <1>7, <1>8, <1>9, <1>11 DEF IInv

LEMMA DeliverInstallOK ==
  ASSUME IInv, DeliverInstall
  PROVE  IInv'
  <1>1. /\ install.at = "answered" /\ page' = [page EXCEPT !.busy = FALSE]
        /\ install' = NoInstall /\ Others
        /\ UNCHANGED <<published, installed, pending, file, guard, toggles, faults, restarts>>
    BY DEF DeliverInstall, Others, server, state, store, budget
  <1>2. /\ page' \in [ticket : Nat, offered : Versions, busy : BOOLEAN]
        /\ page'.offered = page.offered /\ ~page'.busy
    BY <1>1 DEF IInv, TypeOK
  <1>3. install' \in Install /\ install'.at = "idle" /\ install'.version = NoVersion
    BY <1>1, Typing DEF NoInstall, Install
  <1>4. TypeOK'
    BY <1>1, <1>2, <1>3 DEF IInv, TypeOK, Others
  <1>5. GenInv' /\ AlertInv' /\ GuardInv' /\ OnceInv'
    BY <1>1 DEF IInv, GenInv, AlertInv, GuardInv, OnceInv, AlertOnce, Begun, Announcing, Others
  <1>6. FoundInv' /\ NewInv'
    BY <1>1, <1>2, <1>3 DEF IInv, FoundInv, Newer, NewInv, NeverOlder, CheckIsCurrent, Others
  <1>7. BusyInv' /\ DownInv'
    BY <1>1, <1>2, <1>3 DEF IInv, BusyInv, DownInv, Others
  <1>8. (Offers' <=> Offers) /\ (Installable' <=> Installable) /\ (Withdrawn' <=> Withdrawn)
    BY <1>1, <1>2, <1>3 DEF Offers, Announcing, Installable, Withdrawn, Others
  <1>9. OfferInv' /\ NoneInv'
    BY <1>1, <1>8 DEF IInv, OfferInv, NoneInv, CheckIsCurrent, Others
  <1> QED
    BY <1>4, <1>5, <1>6, <1>7, <1>9 DEF IInv

(* The settings' other writer holds the lock from its load to its save.    *)
LEMMA ToggleOK ==
  ASSUME IInv, LoadToggle \/ SaveToggle
  PROVE  IInv'
  <1>1. Others /\ UNCHANGED <<published, installed, pending, install, page>>
    BY DEF LoadToggle, SaveToggle, Others, server, state
  <1>2. toggles' \in Nat /\ faults' \in Nat /\ restarts' \in Nat
    <2>1. CASE LoadToggle
      BY <2>1 DEF LoadToggle, IInv, TypeOK
    <2>2. CASE SaveToggle
      BY <2>2, BudgetOK DEF SaveToggle
    <2> QED
      BY <2>1, <2>2
  <1>3. \A c \in Checks : checks[c].at # "saving"
    BY DEF IInv, GuardInv, LoadToggle, SaveToggle
  <1>4. /\ file' \in File /\ file'.notified = file.notified
        /\ guard' \in Guard /\ (guard'.by # "nobody" => guard'.loaded = file')
    <2>1. CASE LoadToggle
      BY <2>1, Typing DEF LoadToggle, Guard
    <2>2. CASE SaveToggle
      <3>1. file' \in File /\ file'.notified = file.notified
        BY <2>2, Typing DEF SaveToggle, IInv, GuardInv, File
      <3>2. guard' = Unguarded /\ Unguarded \in Guard /\ Unguarded.by = "nobody"
        BY <2>2 DEF SaveToggle, Unguarded, Guard, File, Versions, NoVersion
      <3> QED
        BY <3>1, <3>2
    <2> QED
      BY <2>1, <2>2
  <1>5. TypeOK'
    BY <1>1, <1>2, <1>4 DEF IInv, TypeOK, Others
  <1>6. GenInv' /\ AlertInv' /\ GuardInv'
    BY <1>1, <1>3, <1>4 DEF IInv, GenInv, AlertInv, GuardInv, Begun, Announcing, Others
  <1>7. FoundInv' /\ NewInv'
    BY <1>1, <1>4 DEF IInv, FoundInv, Newer, NewInv, NeverOlder, CheckIsCurrent, Others
  <1>8. BusyInv' /\ DownInv'
    BY <1>1 DEF IInv, BusyInv, DownInv, InFlight, Others
  <1>9. OfferInv' /\ NoneInv'
    BY <1>1 DEF IInv, OfferInv, NoneInv, CheckIsCurrent, Offers, Announcing, Installable,
                Withdrawn, Others
  <1>10. OnceInv'
    BY <1>1, <1>4 DEF IInv, OnceInv, AlertOnce, Others
  <1> QED
    BY <1>5, <1>6, <1>7, <1>8, <1>9, <1>10 DEF IInv

-----------------------------------------------------------------------------
(* What is taken is downloading, and what fails is put back.               *)
LEMMA TakeOK ==
  ASSUME IInv, TakeUpdate
  PROVE  IInv'
  <1>1. /\ install.at = "sent" /\ pending' = NoVersion /\ Others
        /\ UNCHANGED <<published, installed, page, file, guard, toggles, faults, restarts>>
    BY DEF TakeUpdate, Others, server, store, budget
  <1>2. pending \in Versions
    BY DEF IInv, TypeOK
  <1>3. /\ install' \in Install
        /\ \/ /\ pending = NoVersion /\ install'.at = "answered"
              /\ install'.version = install.version
           \/ /\ pending # NoVersion /\ install'.at = "downloading"
              /\ install'.version = pending
    BY <1>2, Typing DEF TakeUpdate, Install
  <1>4. TypeOK'
    BY <1>1, <1>3, Typing DEF IInv, TypeOK, Others
  <1>5. GenInv' /\ AlertInv' /\ GuardInv' /\ OnceInv'
    BY <1>1 DEF IInv, GenInv, AlertInv, GuardInv, OnceInv, AlertOnce, Begun, Announcing, Others
  <1>6. FoundInv' /\ NewInv'
    BY <1>1, <1>3 DEF IInv, FoundInv, Newer, NewInv, NeverOlder, CheckIsCurrent, Others
  <1>7. BusyInv' /\ DownInv'
    BY <1>1, <1>3 DEF IInv, BusyInv, DownInv, NewInv, NeverOlder, Others
  <1>8. (Offers' <=> Offers) /\ (Installable' <=> Installable) /\ (Withdrawn' <=> Withdrawn)
    BY <1>1, <1>3 DEF Offers, Announcing, Installable, Withdrawn, Others
  <1>9. OfferInv' /\ NoneInv'
    BY <1>1, <1>8 DEF IInv, OfferInv, NoneInv, CheckIsCurrent, Others
  <1> QED
    BY <1>4, <1>5, <1>6, <1>7, <1>9 DEF IInv

LEMMA InstallFailsOK ==
  ASSUME IInv, InstallFails
  PROVE  IInv'
  <1>1. /\ install.at = "downloading" /\ pending' = RestoreIfEmpty /\ Others
        /\ UNCHANGED <<published, installed, page, file, guard>>
    BY DEF InstallFails, Others, server, store
  <1>2. toggles' \in Nat /\ faults' \in Nat /\ restarts' \in Nat
    BY BudgetOK DEF InstallFails
  <1>3. /\ install' \in Install /\ install'.at = "answered" /\ install'.version = install.version
        /\ install.version \in Versions /\ pending \in Versions
    BY Typing DEF InstallFails, Rejected, Install, IInv, TypeOK
  <1>4. pending' = newest /\ pending' # NoVersion
    BY <1>1 DEF RestoreIfEmpty, IInv, DownInv, NewInv, NeverOlder
  <1>5. pending' \in {pending, install.version}
    BY <1>1 DEF RestoreIfEmpty
  <1>6. TypeOK'
    BY <1>1, <1>2, <1>3, <1>5 DEF IInv, TypeOK, Others
  <1>7. GenInv' /\ AlertInv' /\ GuardInv' /\ OnceInv'
    BY <1>1 DEF IInv, GenInv, AlertInv, GuardInv, OnceInv, AlertOnce, Begun, Announcing, Others
  <1>8. FoundInv'
    BY <1>1, <1>3, <1>5 DEF IInv, FoundInv, Newer, Others
  <1>9. NewInv'
    BY <1>1, <1>4 DEF IInv, NewInv, NeverOlder, CheckIsCurrent, Others
  <1>10. BusyInv' /\ DownInv'
    BY <1>1, <1>3 DEF IInv, BusyInv, DownInv, Others
  <1>11. (Offers' <=> Offers) /\ Installable' /\ Installable /\ (Withdrawn' <=> Withdrawn)
    BY <1>1, <1>4 DEF Offers, Announcing, Installable, Withdrawn, Others
  <1>12. OfferInv' /\ NoneInv'
    BY <1>1, <1>11 DEF IInv, OfferInv, NoneInv, CheckIsCurrent, Others
  <1> QED
    BY <1>6, <1>7, <1>8, <1>9, <1>10, <1>12 DEF IInv

(* The next process knows nothing but the settings file.                   *)
LEMMA RebornOK ==
  ASSUME IInv, Reborn, installed' \in Versions, installed' <= published,
         UNCHANGED <<published, file, alerts>>,
         toggles' \in Nat, faults' \in Nat, restarts' \in Nat
  PROVE  IInv'
  <1>1. /\ pending' = NoVersion /\ generation' = 0 /\ newest' = NoVersion
        /\ install' = NoInstall /\ guard' = Unguarded /\ page' = NewPage
        /\ \A c \in Checks : checks'[c] = NoCheck
    BY DEF Reborn
  <1>2. TypeOK'
    <2>1. checks' \in [Checks -> Check]
      BY NoCheckOK DEF Reborn
    <2>2. /\ install' \in Install /\ guard' \in Guard
          /\ page' \in [ticket : Nat, offered : Versions, busy : BOOLEAN]
      BY <1>1, Typing DEF NoInstall, Install, Unguarded, Guard, File, NewPage
    <2> QED
      BY <1>1, <2>1, <2>2, Typing DEF IInv, TypeOK
  <1>3. GenInv' /\ AlertInv' /\ GuardInv'
    BY <1>1, NoCheckOK DEF GenInv, AlertInv, GuardInv, Begun, Announcing, Unguarded
  <1>4. FoundInv'
    BY <1>1, NoCheckOK, Typing
    DEF IInv, TypeOK, FoundInv, Newer, NoVersion, NoInstall, NewPage, Versions
  <1>5. NewInv' /\ BusyInv' /\ DownInv'
    BY <1>1, NoCheckOK DEF NewInv, NeverOlder, BusyInv, DownInv, NoInstall, NewPage
  <1>6. OfferInv' /\ NoneInv'
    BY <1>1, NoCheckOK DEF OfferInv, NoneInv, Offers, Announcing, NewPage
  <1>7. OnceInv'
    BY <1>1, NoCheckOK DEF IInv, OnceInv, AlertOnce
  <1> QED
    BY <1>2, <1>3, <1>4, <1>5, <1>6, <1>7 DEF IInv

LEMMA SucceedsOK ==
  ASSUME IInv, InstallSucceeds
  PROVE  IInv'
  <1>1. install.version \in Versions /\ install.version <= published
    BY Typing DEF InstallSucceeds, IInv, DownInv, FoundInv, Newer, Install
  <1> QED
    BY <1>1, RebornOK DEF InstallSucceeds, budget, IInv, TypeOK

LEMMA RestartOK ==
  ASSUME IInv, Restart
  PROVE  IInv'
  BY RebornOK DEF Restart, server, IInv, TypeOK, FoundInv

LEMMA PublishOK ==
  ASSUME IInv, Publish
  PROVE  IInv'
  <1>1. /\ published < MaxVersion /\ published' = published + 1 /\ Others
        /\ UNCHANGED <<installed, pending, install, page, file, guard>>
        /\ UNCHANGED <<toggles, faults, restarts>>
    BY DEF Publish, Others, state, store, budget
  <1>2. published' \in Versions /\ published' \in Nat /\ published \in Nat /\ published <= published'
    BY <1>1 DEF IInv, TypeOK, Versions
  <1>3. \A n \in Nat : n <= published => n <= published'
    BY <1>1, <1>2
  <1>4. TypeOK'
    BY <1>1, <1>2 DEF IInv, TypeOK, Others
  <1>5. GenInv' /\ AlertInv' /\ GuardInv' /\ OnceInv'
    BY <1>1 DEF IInv, GenInv, AlertInv, GuardInv, OnceInv, AlertOnce, Begun, Announcing, Others
  <1>6. FoundInv'
    <2>1. /\ installed <= published' /\ newest <= published' /\ file.notified <= published'
      BY <1>3, Typing DEF IInv, FoundInv, File
    <2>2. \A v \in Versions : Newer(v) => Newer(v)'
      BY <1>1, <1>3, Typing DEF Newer
    <2>3. /\ pending \in Versions /\ install.version \in Versions /\ page.offered \in Versions
      BY Typing DEF IInv, TypeOK, Install
    <2>4. \A c \in Checks : checks[c].version \in Versions /\ checks[c].offer \in Versions
      BY CheckTyping
    <2> QED
      BY <1>1, <2>1, <2>2, <2>3, <2>4 DEF IInv, FoundInv, Others
  <1>7. NewInv' /\ BusyInv' /\ DownInv'
    BY <1>1 DEF IInv, NewInv, NeverOlder, CheckIsCurrent, BusyInv, DownInv, InFlight, Others
  <1>8. Withdrawn => Withdrawn'
    BY <1>2, <1>3 DEF Withdrawn
  <1>9. (Offers' <=> Offers) /\ (Installable' <=> Installable)
    BY <1>1 DEF Offers, Announcing, Installable, Others
  <1>10. OfferInv' /\ NoneInv'
    BY <1>1, <1>8, <1>9 DEF IInv, OfferInv, NoneInv, CheckIsCurrent, Others
  <1> QED
    BY <1>4, <1>5, <1>6, <1>7, <1>10 DEF IInv

LEMMA StutterOK == IInv /\ UNCHANGED vars => IInv'
  <1> SUFFICES ASSUME IInv, UNCHANGED vars PROVE IInv'
    OBVIOUS
  <1>1. /\ Others
        /\ UNCHANGED <<published, installed, pending, install, page, file, guard>>
        /\ UNCHANGED <<toggles, faults, restarts>>
    BY DEF vars, server, state, store, budget, Others
  <1>2. TypeOK' /\ GenInv' /\ AlertInv' /\ GuardInv'
    BY <1>1 DEF IInv, TypeOK, GenInv, AlertInv, GuardInv, Begun, Announcing, Others
  <1>3. FoundInv' /\ NewInv' /\ BusyInv' /\ DownInv'
    BY <1>1 DEF IInv, FoundInv, Newer, NewInv, NeverOlder, CheckIsCurrent, BusyInv, DownInv,
                InFlight, Others
  <1>4. OfferInv' /\ NoneInv' /\ OnceInv'
    BY <1>1 DEF IInv, OfferInv, NoneInv, CheckIsCurrent, Offers, Announcing, Installable,
                Withdrawn, OnceInv, AlertOnce, Others
  <1> QED
    BY <1>2, <1>3, <1>4 DEF IInv

-----------------------------------------------------------------------------
LEMMA StepOK == IInv /\ [Next]_vars => IInv'
  <1> SUFFICES ASSUME IInv, [Next]_vars PROVE IInv'
    OBVIOUS
  <1>1. ASSUME NEW c \in Checks, Run(c) PROVE IInv'
    BY <1>1, AlertsOffOK, BeginOK, FetchOK, ReplaceOK, StaleOK, LoadForAlertOK, SaveAlertOK,
       SaveAlertFailsOK, DeliverOK DEF Run
  <1>2. ASSUME NEW c \in Checks, NEW alert \in BOOLEAN, SendCheck(c, alert) PROVE IInv'
    BY <1>2, SendCheckOK
  <1>3. CASE RunInstall
    BY <1>3, TakeOK, InstallFailsOK, SucceedsOK, DeliverInstallOK DEF RunInstall
  <1> QED
    BY <1>1, <1>2, <1>3, SendInstallOK, ToggleOK, PublishOK, RestartOK, StutterOK DEF Next

(* The invariant holds in every state.                                     *)
THEOREM Always == Spec => []IInv
  BY InitOK, StepOK, PTL DEF Spec

(* Every variable keeps its type, whatever the checks, the installs and    *)
(* the settings' writers do to one another.                                *)
THEOREM UpdateTyped == Spec => []TypeOK
  <1>1. IInv => TypeOK
    BY DEF IInv
  <1> QED
    BY <1>1, Always, PTL

(* What can be installed is the newest version found: neither a check that *)
(* was overtaken (replace_if_current) nor an install that failed           *)
(* (restore_if_empty) brings an older one back.                            *)
THEOREM NeverGoesBack == Spec => []NeverOlder
  <1>1. IInv => NeverOlder
    BY DEF IInv, NewInv
  <1> QED
    BY <1>1, Always, PTL

(* What the page offers and could be asked for can be installed, unless a  *)
(* release that may not be downloaded is out.                              *)
THEOREM OfferStands == Spec => []OfferedIsPending
  <1>1. IInv => OfferedIsPending
    BY DEF IInv, BusyInv, OfferInv, Offers, Installable, Withdrawn, OfferedIsPending
  <1> QED
    BY <1>1, Always, PTL

(* No version is announced twice, also across restarts: what is announced  *)
(* is in the settings file before its check is answered.                   *)
THEOREM AnnouncedOnce == Spec => []AlertOnce
  <1>1. IInv => AlertOnce
    BY DEF IInv, OnceInv
  <1> QED
    BY <1>1, Always, PTL

-----------------------------------------------------------------------------
(***************************************************************************)
(* The part of ButtonsComeBack that is safety: the page waits for a button *)
(* command exactly as long as there is one, the settings lock is held by   *)
(* somebody who is saving, and every command in flight comes nearer its    *)
(* answer with each of its steps.                                          *)
(***************************************************************************)
ButtonCheck(c) == checks[c].at # "idle" /\ ~checks[c].alert

(* pendingRef is set if and only if a button command is in flight.         *)
BusyIsOwned ==
  page.busy <=> install.at # "idle" \/ \E c \in Checks : ButtonCheck(c)

LockIsOwned == \A c \in Checks : guard.by = c => checks[c].at = "saving"

(* The steps to the answer, and its delivery.                              *)
StepsLeft(at) ==
  CASE at = "sent" -> 6
    [] at = "fetching" -> 5
    [] at = "fetched" -> 4
    [] at = "alerting" -> 3
    [] at \in {"saving", "downloading"} -> 2
    [] at = "answered" -> 1
    [] OTHER -> 0

CommandsGoOn ==
  [][/\ \A c \in Checks :
          /\ Run(c) => StepsLeft(checks[c].at)' < StepsLeft(checks[c].at)
          /\ StepsLeft(checks[c].at)' > StepsLeft(checks[c].at)
               => \E alert \in BOOLEAN : SendCheck(c, alert)
     /\ RunInstall => StepsLeft(install.at)' < StepsLeft(install.at)
     /\ StepsLeft(install.at)' > StepsLeft(install.at) => SendInstall]_vars

LEMMA StepsOK == \A at : StepsLeft(at) \in Nat
  BY DEF StepsLeft

(* What a step of a check makes of it: nearer its answer, until delivered  *)
(* of the same sender, and saving only with the lock.                      *)
Nearer(c, x) ==
  /\ Update(c, x) /\ StepsLeft(x.at) < StepsLeft(checks[c].at)
  /\ IF x.at = "idle" THEN Deliver(c)
     ELSE x.alert = checks[c].alert /\ UNCHANGED <<install, page>>
  /\ \/ guard' = guard /\ checks[c].at # "saving"
     \/ guard'.by = c /\ x.at = "saving"
     \/ guard'.by = "nobody"

LEMMA RunMoves ==
  ASSUME IInv, NEW c \in Checks, Run(c)
  PROVE  \E x \in Check : Nearer(c, x)
  <1>1. checks[c] \in Check /\ NoVersion \in Versions /\ Found \in Versions /\ generation + 1 \in Nat
    BY Typing, CheckTyping, FoundOK
  <1>2. ASSUME NEW offer \in Versions, Answer(c, offer), checks[c].at \notin {"idle", "answered"},
               UNCHANGED <<install, page>>,
               (guard' = guard /\ checks[c].at # "saving") \/ guard' = Unguarded
        PROVE  \E x \in Check : Nearer(c, x)
    <2> DEFINE x == [checks[c] EXCEPT !.at = "answered", !.offer = offer]
    <2>1. x \in Check /\ x.at = "answered" /\ x.alert = checks[c].alert
      BY AnswerOK
    <2>2. Update(c, x)
      BY <1>2 DEF Answer
    <2> HIDE DEF x
    <2>3. StepsLeft(x.at) < StepsLeft(checks[c].at)
      BY <1>1, <1>2, <2>1 DEF StepsLeft, Check
    <2> QED
      BY <1>2, <2>1, <2>2, <2>3 DEF Nearer, Unguarded
  <1>3. CASE AlertsOff(c)
    BY <1>1, <1>2, <1>3 DEF AlertsOff, store
  <1>4. CASE BeginCheck(c)
    <2> DEFINE x == [checks[c] EXCEPT !.at = "fetching", !.generation = generation + 1]
    <2>1. x \in Check /\ x.at = "fetching" /\ x.alert = checks[c].alert
      BY <1>1 DEF Check
    <2>2. Update(c, x) /\ checks[c].at = "sent" /\ UNCHANGED <<install, page, guard>>
      BY <1>4 DEF BeginCheck, store
    <2> HIDE DEF x
    <2> QED
      BY <2>1, <2>2 DEF Nearer, StepsLeft
  <1>5. CASE Fetch(c)
    <2> DEFINE x == [checks[c] EXCEPT !.at = "fetched", !.version = Found]
    <2>1. x \in Check /\ x.at = "fetched" /\ x.alert = checks[c].alert
      BY <1>1 DEF Check
    <2>2. /\ Update(c, x) \/ Answer(c, NoVersion)
          /\ checks[c].at = "fetching" /\ UNCHANGED <<install, page, guard>>
      BY <1>5 DEF Fetch, store
    <2> HIDE DEF x
    <2>3. CASE Update(c, x)
      BY <2>1, <2>2, <2>3 DEF Nearer, StepsLeft
    <2> QED
      BY <1>1, <1>2, <2>2, <2>3
  <1>6. CASE Replace(c)
    <2> DEFINE x == [checks[c] EXCEPT !.at = "alerting"]
    <2>1. x \in Check /\ x.at = "alerting" /\ x.alert = checks[c].alert
      BY <1>1 DEF Check
    <2>2. /\ Update(c, x) \/ Answer(c, checks[c].version)
          /\ checks[c].at = "fetched" /\ UNCHANGED <<install, page, guard>>
      BY <1>6 DEF Replace, store
    <2> HIDE DEF x
    <2>3. CASE Update(c, x)
      BY <2>1, <2>2, <2>3 DEF Nearer, StepsLeft
    <2> QED
      BY <1>2, <2>2, <2>3, CheckTyping
  <1>7. CASE CheckIsStale(c)
    BY <1>1, <1>2, <1>7 DEF CheckIsStale, store
  <1>8. CASE LoadForAlert(c)
    <2> DEFINE x == [checks[c] EXCEPT !.at = "saving"]
    <2>1. x \in Check /\ x.at = "saving" /\ x.alert = checks[c].alert
      BY <1>1 DEF Check
    <2>2. /\ \/ Update(c, x) /\ guard'.by = c
             \/ Answer(c, checks[c].version) /\ guard' = guard
          /\ checks[c].at = "alerting" /\ UNCHANGED <<install, page>>
      BY <1>8 DEF LoadForAlert, state
    <2> HIDE DEF x
    <2>3. CASE Update(c, x) /\ guard'.by = c
      BY <2>1, <2>2, <2>3 DEF Nearer, StepsLeft
    <2> QED
      BY <1>2, <2>2, <2>3, CheckTyping
  <1>9. CASE SaveAlert(c)
    BY <1>2, <1>9, CheckTyping DEF SaveAlert
  <1>10. CASE SaveAlertFails(c)
    <2> DEFINE y == [checks[c] EXCEPT !.at = "answered", !.rejected = TRUE]
    <2>1. y \in Check /\ y.at = "answered" /\ y.alert = checks[c].alert
      BY <1>1, AnswerOK
    <2>2. /\ Update(c, y) /\ checks[c].at = "saving" /\ guard'.by = "nobody"
          /\ UNCHANGED <<install, page>>
      BY <1>10 DEF SaveAlertFails, Reject, Unguarded
    <2> HIDE DEF y
    <2> QED
      BY <2>1, <2>2 DEF Nearer, StepsLeft
  <1>11. CASE Deliver(c)
    <2>1. NoCheck \in Check /\ NoCheck.at = "idle"
      BY NoCheckOK
    <2>2. Update(c, NoCheck) /\ checks[c].at = "answered" /\ guard' = guard
      BY <1>11 DEF Deliver, store
    <2> QED
      BY <1>11, <2>1, <2>2 DEF Nearer, StepsLeft
  <1> QED
    BY <1>3, <1>4, <1>5, <1>6, <1>7, <1>8, <1>9, <1>10, <1>11 DEF Run

LEMMA InstallMoves ==
  ASSUME IInv, RunInstall
  PROVE  StepsLeft(install.at)' < StepsLeft(install.at)
  <1>1. CASE TakeUpdate
    <2>1. install.at = "sent" /\ install'.at \in {"answered", "downloading"}
      BY <1>1, Typing DEF TakeUpdate, Install
    <2> QED
      BY <2>1 DEF StepsLeft
  <1>2. CASE InstallFails
    <2>1. install.at = "downloading" /\ install'.at = "answered"
      BY <1>2, Typing DEF InstallFails, Rejected, Install
    <2> QED
      BY <2>1 DEF StepsLeft
  <1>3. CASE InstallSucceeds
    <2>1. install.at = "downloading" /\ install'.at = "idle"
      BY <1>3 DEF InstallSucceeds, Reborn, NoInstall
    <2> QED
      BY <2>1 DEF StepsLeft
  <1>4. CASE DeliverInstall
    <2>1. install.at = "answered" /\ install'.at = "idle"
      BY <1>4 DEF DeliverInstall, NoInstall
    <2> QED
      BY <2>1 DEF StepsLeft
  <1> QED
    BY <1>1, <1>2, <1>3, <1>4 DEF RunInstall

-----------------------------------------------------------------------------
OwnInv == BusyIsOwned /\ LockIsOwned

LEMMA OwnInitOK == Init => OwnInv
  BY NoCheckOK DEF Init, OwnInv, BusyIsOwned, LockIsOwned, ButtonCheck, NewPage, NoInstall, Unguarded

LEMMA OwnRunOK ==
  ASSUME IInv, OwnInv, NEW c \in Checks, Run(c)
  PROVE  OwnInv'
  <1>1. PICK x \in Check : Nearer(c, x)
    BY RunMoves
  <1>2. /\ checks'[c] = x /\ \A d \in Checks : d # c => checks'[d] = checks[d]
    BY <1>1, UpdateOK DEF Nearer, IInv
  <1>3. LockIsOwned'
    BY <1>1, <1>2 DEF Nearer, OwnInv, LockIsOwned
  <1>4. checks[c].at # "idle"
    BY <1>1, StepsOK DEF Nearer, StepsLeft
  <1>5. BusyIsOwned'
    <2>1. CASE x.at # "idle"
      BY <1>1, <1>2, <1>4, <2>1 DEF Nearer, OwnInv, BusyIsOwned, ButtonCheck
    <2>2. CASE Deliver(c) /\ x.at = "idle"
      <3>1. install' = install /\ page'.busy = (page.busy /\ checks[c].alert)
        BY <2>2 DEF Deliver, IInv, TypeOK
      <3>2. CASE checks[c].alert
        <4>1. \A d \in Checks : ButtonCheck(d)' <=> ButtonCheck(d)
          BY <1>2, <2>2, <3>2 DEF ButtonCheck
        <4> QED
          BY <3>1, <3>2, <4>1 DEF OwnInv, BusyIsOwned, IInv, TypeOK
      <3>3. CASE ~checks[c].alert
        <4>1. install.at = "idle" /\ \A d \in Checks : d # c => ~ButtonCheck(d)
          BY <1>4, <3>3 DEF IInv, BusyInv, ButtonCheck
        <4>2. \A d \in Checks : ~ButtonCheck(d)'
          BY <1>2, <2>2, <4>1 DEF ButtonCheck
        <4> QED
          BY <3>1, <3>3, <4>1, <4>2 DEF BusyIsOwned
      <3> QED
        BY <3>2, <3>3
    <2> QED
      BY <1>1, <2>1, <2>2 DEF Nearer
  <1> QED
    BY <1>3, <1>5 DEF OwnInv

LEMMA OwnSendOK ==
  ASSUME IInv, OwnInv, NEW c \in Checks, NEW alert \in BOOLEAN, SendCheck(c, alert)
  PROVE  OwnInv'
  <1> DEFINE x == [NoCheck EXCEPT !.at = "sent", !.alert = alert, !.ticket = page.ticket + 1]
  <1>1. /\ Update(c, x) /\ checks[c].at = "idle" /\ ~page.busy
        /\ page'.busy = ~alert /\ install' = install /\ guard' = guard
    BY DEF SendCheck, store, IInv, TypeOK
  <1>2. x \in Check /\ x.at = "sent" /\ x.alert = alert
    <2>1. page.ticket + 1 \in Nat
      BY DEF IInv, TypeOK
    <2> QED
      BY <2>1, NoCheckOK DEF Check
  <1> HIDE DEF x
  <1>3. /\ checks'[c] = x /\ \A d \in Checks : d # c => checks'[d] = checks[d]
    BY <1>1, <1>2, UpdateOK DEF IInv
  <1>4. LockIsOwned'
    BY <1>1, <1>3 DEF OwnInv, LockIsOwned
  <1>5. install.at = "idle" /\ \A d \in Checks : ~ButtonCheck(d)
    BY <1>1 DEF OwnInv, BusyIsOwned
  <1>6. \A d \in Checks : ButtonCheck(d)' <=> (d = c /\ ~alert)
    BY <1>2, <1>3, <1>5 DEF ButtonCheck
  <1>7. BusyIsOwned'
    BY <1>1, <1>5, <1>6 DEF BusyIsOwned
  <1> QED
    BY <1>4, <1>7 DEF OwnInv

LEMMA OwnInstallOK ==
  ASSUME IInv, OwnInv, TakeUpdate \/ InstallFails \/ DeliverInstall \/ SendInstall
  PROVE  OwnInv'
  <1>1. checks' = checks /\ guard' = guard
    BY DEF TakeUpdate, InstallFails, DeliverInstall, SendInstall, store
  <1>2. LockIsOwned' /\ \A c \in Checks : ButtonCheck(c)' <=> ButtonCheck(c)
    BY <1>1 DEF OwnInv, LockIsOwned, ButtonCheck
  <1>3. CASE TakeUpdate \/ InstallFails
    <2>1. install.at # "idle" /\ install'.at # "idle" /\ page' = page
      BY <1>3, Typing DEF TakeUpdate, InstallFails, Rejected, Install
    <2> QED
      BY <1>2, <2>1 DEF OwnInv, BusyIsOwned
  <1>4. CASE DeliverInstall
    <2>1. install.at # "idle" /\ install'.at = "idle" /\ ~page'.busy
      BY <1>4 DEF DeliverInstall, NoInstall, IInv, TypeOK
    <2>2. \A c \in Checks : ~ButtonCheck(c)
      BY <2>1 DEF IInv, BusyInv, ButtonCheck
    <2> QED
      BY <1>2, <2>1, <2>2 DEF OwnInv, BusyIsOwned
  <1>5. CASE SendInstall
    <2>1. install'.at = "sent" /\ page'.busy
      BY <1>5 DEF SendInstall, NoInstall, IInv, TypeOK
    <2> QED
      BY <1>2, <2>1 DEF OwnInv, BusyIsOwned
  <1> QED
    BY <1>3, <1>4, <1>5

LEMMA OwnStepOK == IInv /\ OwnInv /\ [Next]_vars => OwnInv'
  <1> SUFFICES ASSUME IInv, OwnInv, [Next]_vars PROVE OwnInv'
    OBVIOUS
  <1>1. CASE Reborn
    BY <1>1, NoCheckOK
    DEF Reborn, OwnInv, BusyIsOwned, LockIsOwned, ButtonCheck, NewPage, NoInstall, Unguarded
  <1>2. CASE LoadToggle \/ SaveToggle
    BY <1>2 DEF LoadToggle, SaveToggle, Unguarded, OwnInv, BusyIsOwned, LockIsOwned, ButtonCheck
  <1>3. CASE Publish \/ UNCHANGED vars
    BY <1>3 DEF Publish, vars, store, OwnInv, BusyIsOwned, LockIsOwned, ButtonCheck
  <1> QED
    BY <1>1, <1>2, <1>3, OwnRunOK, OwnSendOK, OwnInstallOK
    DEF Next, RunInstall, InstallSucceeds, Restart

LEMMA Owned == Spec => []OwnInv
  BY Always, OwnInitOK, OwnStepOK, PTL DEF Spec

(* The page waits for a button command exactly as long as one is in        *)
(* flight, through answers, rejections and restarts in any order           *)
(* (runCommand, which takes pendingRef back in its finally).               *)
THEOREM NoButtonIsForgotten == Spec => []BusyIsOwned
  <1>1. OwnInv => BusyIsOwned
    BY DEF OwnInv
  <1> QED
    BY <1>1, Owned, PTL

(* No check keeps the settings' write lock after its save, made or failed  *)
(* (settings::write_lock).                                                 *)
THEOREM LockIsLetGo == Spec => []LockIsOwned
  <1>1. OwnInv => LockIsOwned
    BY DEF OwnInv
  <1> QED
    BY <1>1, Owned, PTL

LEMMA ChecksGoOn ==
  ASSUME IInv, [Next]_vars, NEW c \in Checks
  PROVE  /\ Run(c) => StepsLeft(checks[c].at)' < StepsLeft(checks[c].at)
         /\ StepsLeft(checks[c].at)' > StepsLeft(checks[c].at)
              => \E alert \in BOOLEAN : SendCheck(c, alert)
  <1>1. ASSUME NEW d \in Checks, Run(d)
        PROVE  /\ c = d => StepsLeft(checks[c].at)' < StepsLeft(checks[c].at)
               /\ c # d => checks'[c] = checks[c]
    <2>1. PICK x \in Check : Nearer(d, x)
      BY <1>1, RunMoves
    <2>2. checks'[d] = x /\ \A e \in Checks : e # d => checks'[e] = checks[e]
      BY <2>1, UpdateOK DEF Nearer, IInv
    <2> QED
      BY <2>1, <2>2 DEF Nearer
  <1>2. StepsLeft(checks[c].at) \in Nat /\ StepsLeft(checks[c].at)' \in Nat
    BY StepsOK
  <1>3. ASSUME StepsLeft(checks[c].at)' > StepsLeft(checks[c].at)
        PROVE  \E alert \in BOOLEAN : SendCheck(c, alert)
    <2>1. checks'[c] # checks[c]
      BY <1>2, <1>3
    <2>2. ~\E d \in Checks : Run(d)
      BY <1>1, <1>2, <1>3, <2>1
    <2>3. ~Reborn
      <3>1. Reborn => StepsLeft(checks[c].at)' = 0
        BY NoCheckOK DEF Reborn, StepsLeft
      <3> QED
        BY <1>2, <1>3, <3>1
    <2>4. checks' # checks
      BY <2>1
    <2>5. PICK d \in Checks, alert \in BOOLEAN : SendCheck(d, alert)
      BY <2>2, <2>3, <2>4
      DEF Next, SendInstall, RunInstall, TakeUpdate, InstallFails, InstallSucceeds, DeliverInstall,
          LoadToggle, SaveToggle, Publish, Restart, vars
    <2>6. d # c => checks'[c] = checks[c]
      BY <2>5, Typing DEF SendCheck, Update
    <2> QED
      BY <2>1, <2>5, <2>6
  <1> QED
    BY <1>1, <1>3

LEMMA InstallGoesOn ==
  ASSUME IInv, [Next]_vars, StepsLeft(install.at)' > StepsLeft(install.at)
  PROVE  SendInstall
  <1>1. StepsLeft(install.at) \in Nat /\ StepsLeft(install.at)' \in Nat
    BY StepsOK
  <1>2. install' # install
    BY <1>1
  <1>3. ~RunInstall
    BY <1>1, InstallMoves
  <1>4. ~Reborn
    <2>1. Reborn => StepsLeft(install.at)' = 0
      BY DEF Reborn, NoInstall, StepsLeft
    <2> QED
      BY <1>1, <2>1
  <1>5. ~\E c \in Checks : Run(c)
    BY <1>2 DEF Run, AlertsOff, BeginCheck, Fetch, Replace, CheckIsStale, LoadForAlert, SaveAlert,
                SaveAlertFails, Deliver
  <1>6. ~\E c \in Checks, alert \in BOOLEAN : SendCheck(c, alert)
    BY <1>2 DEF SendCheck
  <1> QED
    BY <1>2, <1>3, <1>4, <1>5, <1>6 DEF Next, LoadToggle, SaveToggle, Publish, Restart, vars

(* A check is at most six steps from the page that asked for it, an        *)
(* install three; each step is one of those, and only the page's own       *)
(* command starts another: what is answered has nothing left to wait for   *)
(* (check_latest_release, install_pending_update).                         *)
THEOREM CommandsComeBack == Spec => CommandsGoOn
  <1>1. IInv /\ [Next]_vars
          => [/\ \A c \in Checks :
                   /\ Run(c) => StepsLeft(checks[c].at)' < StepsLeft(checks[c].at)
                   /\ StepsLeft(checks[c].at)' > StepsLeft(checks[c].at)
                        => \E alert \in BOOLEAN : SendCheck(c, alert)
              /\ RunInstall => StepsLeft(install.at)' < StepsLeft(install.at)
              /\ StepsLeft(install.at)' > StepsLeft(install.at) => SendInstall]_vars
    BY ChecksGoOn, InstallMoves, InstallGoesOn
  <1> QED
    BY <1>1, Always, PTL DEF Spec, CommandsGoOn
=============================================================================
