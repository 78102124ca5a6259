----------------------------- MODULE ConfigStore -----------------------------
(***************************************************************************)
(* The JSON files under %APPDATA%: settings.json and schedules.json follow *)
(* the same protocol.  A command that changes one holds the file's write   *)
(* lock while it loads the file, changes it and replaces it by way of a    *)
(* temporary file.  Everybody else loads it without the lock.  A loader    *)
(* that finds no file, cannot read it or cannot parse it goes on with the  *)
(* defaults; one that cannot parse it first renames it out of the way.     *)
(***************************************************************************)
EXTENDS Integers

CONSTANTS
  Writers,       \* commands that save; each changes a field of its own
  Readers,       \* threads that load without the lock
  Initial,       \* states the file may be in when the program is first started
  MaxSaves,      \* bound: saves of one field
  MaxFaults,     \* bound: failed reads and writes
  MaxRestarts    \* bound: exits or crashes of the program

ASSUME StoreAssumption ==
  /\ "nobody" \notin Writers
  /\ Writers \cap Readers = {}
  /\ Initial \subseteq {"absent", "broken", "good"}
  /\ {MaxSaves, MaxFaults, MaxRestarts} \subseteq Nat

VARIABLES
  file,       \* the file under its own name
  tmp,        \* its temporary file
  lock,       \* WRITE_LOCK
  threads,    \* how far each command is, and what it read
  saved,      \* history: what the last save that succeeded left in the file
  damaged,    \* history: the file was unreadable at some time
  faults, restarts

vars == <<file, tmp, lock, threads, saved, damaged, faults, restarts>>

Values == [Writers -> 0..MaxSaves]

Default == [w \in Writers |-> 0]

(* A file's value means something only when the file is whole.             *)
File == [state : {"absent", "broken", "good"}, value : Values]

Absent == [state |-> "absent", value |-> Default]

Broken == [state |-> "broken", value |-> Default]

Whole(value) == [state |-> "good", value |-> value]

(* What a loader makes of the file.                                        *)
Parsed == IF file.state = "good" THEN file.value ELSE Default

Threads == Writers \cup Readers

Stage == {"idle", "reading", "unparsed", "loaded", "created", "written"}

Thread == [at : Stage, value : Values]

Idle == [at |-> "idle", value |-> Default]

Go(t, stage, value) == threads' = [threads EXCEPT ![t] = [at |-> stage, value |-> value]]

Fault == faults < MaxFaults /\ faults' = faults + 1 /\ UNCHANGED restarts

Unlock(t) == lock' = IF t \in Writers THEN "nobody" ELSE lock

-----------------------------------------------------------------------------
(* Fault: the lock is not taken.                                           *)
NotLocked == TRUE

(* Fault: the lock covers the save and not the load before it.             *)
LockedForSaving == lock = "nobody" \/ tmp.state = "absent"

LockFree == lock = "nobody"

(* update_settings, persist_last_user_mode, the alert's record and the     *)
(* three commands on schedule rules begin by taking the write lock.        *)
BeginSave(w) ==
  /\ threads[w].at = "idle"
  /\ LockFree
  /\ file.value[w] < MaxSaves
  /\ lock' = w
  /\ Go(w, "reading", Default)
  /\ UNCHANGED <<file, tmp, saved, damaged, faults, restarts>>

BeginLoad(r) ==
  /\ threads[r].at = "idle"
  /\ Go(r, "reading", Default)
  /\ UNCHANGED <<file, tmp, lock, saved, damaged, faults, restarts>>

(* What a loader does once it has the content: a reader is done.           *)
Loaded(t, value) == IF t \in Writers THEN Go(t, "loaded", value) ELSE Go(t, "idle", Default)

(* read_to_string, and parsing what it returned.                           *)
Read(t) ==
  /\ threads[t].at = "reading"
  /\ IF file.state = "broken" THEN Go(t, "unparsed", Default) ELSE Loaded(t, file.value)
  /\ UNCHANGED <<file, tmp, lock, saved, damaged, faults, restarts>>

ReadFails(t) ==
  /\ threads[t].at = "reading"
  /\ Fault
  /\ Loaded(t, Default)
  /\ damaged' = TRUE
  /\ UNCHANGED <<file, tmp, lock, saved>>

(* backup_broken renames whatever bears the file's name by now; nobody     *)
(* looks at whether that worked.                                           *)
Backup(t) ==
  /\ threads[t].at = "unparsed"
  /\ \/ file' = Absent /\ UNCHANGED <<faults, restarts>>
     \/ Fault /\ UNCHANGED file
  /\ Loaded(t, Default)
  /\ UNCHANGED <<tmp, lock, saved, damaged>>

-----------------------------------------------------------------------------
(* atomic_write                                                            *)
Create(w) ==
  /\ threads[w].at = "loaded"
  /\ tmp' = Broken
  /\ Go(w, "created", threads[w].value)
  /\ UNCHANGED <<file, lock, saved, damaged, faults, restarts>>

(* Fault: the change is applied twice.                                     *)
ChangedTwice(w) == [threads[w].value EXCEPT ![w] = @ + 2]

Changed(w) == [threads[w].value EXCEPT ![w] = @ + 1]

Write(w) ==
  /\ threads[w].at = "created"
  /\ tmp' = Whole(Changed(w))
  /\ Go(w, "written", threads[w].value)
  /\ UNCHANGED <<file, lock, saved, damaged, faults, restarts>>

Replace(w) ==
  /\ threads[w].at = "written"
  /\ file' = tmp
  /\ saved' = tmp.value
  /\ tmp' = Absent
  /\ Go(w, "idle", Default)
  /\ Unlock(w)
  /\ UNCHANGED <<damaged, faults, restarts>>

(* Any of the three steps may fail; the command is rejected and what is in *)
(* the temporary file stays there.                                         *)
SaveFails(w) ==
  /\ threads[w].at \in {"loaded", "created", "written"}
  /\ Fault
  /\ Go(w, "idle", Default)
  /\ Unlock(w)
  /\ UNCHANGED <<file, tmp, saved, damaged>>

(* The program exits or dies at any point; the files stay.                 *)
Restart ==
  /\ restarts < MaxRestarts
  /\ restarts' = restarts + 1
  /\ lock' = "nobody"
  /\ threads' = [t \in Threads |-> Idle]
  /\ UNCHANGED <<file, tmp, saved, damaged, faults>>

Init ==
  /\ file \in {[state |-> s, value |-> Default] : s \in Initial}
  /\ tmp = Absent
  /\ saved = Default
  /\ lock = "nobody"
  /\ threads = [t \in Threads |-> Idle]
  /\ damaged = (file.state = "broken")
  /\ faults = 0 /\ restarts = 0

Load(t) == Read(t) \/ ReadFails(t) \/ Backup(t)

SaveStep(w) == BeginSave(w) \/ Create(w) \/ Write(w) \/ Replace(w) \/ SaveFails(w)

Next ==
  \/ \E w \in Writers : SaveStep(w)
  \/ \E r \in Readers : BeginLoad(r)
  \/ \E t \in Threads : Load(t)
  \/ Restart

Spec == Init /\ [][Next]_vars
-----------------------------------------------------------------------------
TypeOK ==
  /\ file \in File /\ tmp \in File
  /\ lock \in Writers \cup {"nobody"}
  /\ threads \in [Threads -> Thread]
  /\ saved \in Values
  /\ damaged \in BOOLEAN
  /\ faults \in Nat /\ restarts \in Nat

(* A command that is about to replace the file replaces it by what it      *)
(* wrote itself: two commands never share the temporary file (the last     *)
(* line of the comment above atomic_write).                                *)
TmpIsOwn ==
  \A w \in Writers : threads[w].at = "written" => tmp = Whole(Changed(w))

(* No save is lost, torn or half visible, whichever commands run at the    *)
(* same time and wherever the program dies: the file implements a record   *)
(* that is changed one field at a time (the comments above WRITE_LOCK and  *)
(* atomic_write).  After damage a loader that renames the file late may    *)
(* take a good one away: the record is then the defaults.                  *)
Record ==
  INSTANCE DurableRecord WITH
    Fields <- Writers,
    record <- Parsed

RecordSpec == Record!Spec
=============================================================================
