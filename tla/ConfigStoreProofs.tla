-------------------------- MODULE ConfigStoreProofs --------------------------
(***************************************************************************)
(* The settings files keep their promise, for any number of commands and   *)
(* readers, failures and restarts: ConfigStore implements DurableRecord.   *)
(***************************************************************************)
EXTENDS ConfigStore, TLAPS

(* The write lock belongs to the command that is under way.                *)
LockInv == \A w \in Writers : threads[w].at # "idle" <=> lock = w

(* A whole file holds what was saved last; one that cannot be parsed is    *)
(* damage that has been noted.                                             *)
FileInv ==
  /\ file.state = "good" => file.value = saved
  /\ file.state # "good" => file.value = Default
  /\ file.state = "broken" => damaged
  /\ \A t \in Threads : threads[t].at = "unparsed" => damaged

HasLoaded(w) == threads[w].at \in {"loaded", "created", "written"}

(* What the command that holds the lock has loaded is what the file says,  *)
(* as long as the file was never damaged.                                  *)
ValueInv ==
  \A w \in Writers : HasLoaded(w) =>
    \/ threads[w].value = Parsed
    \/ (damaged /\ threads[w].value \in {Default, saved})

(* There is room below the bound for the save under way.                   *)
RoomInv ==
  \A w \in Writers :
    /\ threads[w].at # "idle" => 0 < MaxSaves /\ file.value[w] < MaxSaves
    /\ HasLoaded(w) => threads[w].value[w] < MaxSaves

IInv == TypeOK /\ LockInv /\ FileInv /\ ValueInv /\ RoomInv /\ TmpIsOwn

USE StoreAssumption

LEMMA ValuesOK ==
  /\ Default \in Values
  /\ Absent \in File /\ Broken \in File
  /\ Absent.state = "absent" /\ Broken.state = "broken"
  /\ Absent.value = Default
  /\ \A v \in Values : Whole(v) \in File /\ Whole(v).state = "good" /\ Whole(v).value = v
  /\ \A s \in Initial : [state |-> s, value |-> Default] \in File
  /\ MaxSaves \in Nat /\ MaxFaults \in Nat /\ MaxRestarts \in Nat
  BY DEF Default, Values, Absent, Broken, Whole, File

(* How one thread's move changes the others' places: not at all.           *)
LEMMA Moves ==
  ASSUME TypeOK, NEW t \in Threads, NEW stage \in Stage, NEW value \in Values, Go(t, stage, value)
  PROVE  /\ threads' \in [Threads -> Thread]
         /\ threads'[t].at = stage /\ threads'[t].value = value
         /\ \A u \in Threads : u # t => threads'[u] = threads[u]
  BY DEF TypeOK, Go, Thread

LEMMA ChangedOK ==
  ASSUME TypeOK, NEW w \in Writers, threads[w].value[w] < MaxSaves
  PROVE  Changed(w) \in Values
  <1>1. threads[w].value \in Values
    BY DEF TypeOK, Threads, Thread
  <1> QED
    BY <1>1, ValuesOK DEF Changed, Values

LEMMA InitOK == Init => IInv
  <1> SUFFICES ASSUME Init PROVE IInv
    OBVIOUS
  <1>1. /\ file \in File /\ file.value = Default
        /\ \A t \in Threads : threads[t] = Idle
        /\ threads \in [Threads -> Thread]
    BY ValuesOK DEF Init, Thread, Idle, Stage
  <1>2. TypeOK
    BY <1>1, ValuesOK DEF Init, TypeOK
  <1>3. LockInv
    BY <1>1 DEF Init, LockInv, Idle, Threads
  <1>4. FileInv
    BY <1>1 DEF Init, FileInv, Idle
  <1>5. ValueInv /\ RoomInv /\ TmpIsOwn
    BY <1>1 DEF ValueInv, RoomInv, TmpIsOwn, HasLoaded, Idle, Threads
  <1> QED
    BY <1>2, <1>3, <1>4, <1>5 DEF IInv

(* A command takes the lock.                                               *)
LEMMA BeginSaveOK ==
  ASSUME IInv, NEW w \in Writers, BeginSave(w)
  PROVE  IInv'
  <1>1. /\ w \in Threads /\ "reading" \in Stage
        /\ Go(w, "reading", Default)
    BY DEF Threads, Stage, BeginSave
  <1>2. /\ threads' \in [Threads -> Thread]
        /\ threads'[w].at = "reading"
        /\ \A u \in Threads : u # w => threads'[u] = threads[u]
    BY <1>1, Moves, ValuesOK DEF IInv
  <1>3. /\ \A u \in Writers : threads[u].at = "idle"
        /\ lock' = w /\ file' = file /\ tmp' = tmp /\ saved' = saved /\ damaged' = damaged
        /\ faults' = faults /\ restarts' = restarts
    BY DEF BeginSave, LockFree, IInv, LockInv
  <1>4. TypeOK'
    BY <1>2, <1>3 DEF IInv, TypeOK
  <1>5. LockInv'
    BY <1>2, <1>3 DEF LockInv, Threads
  <1>6. FileInv'
    BY <1>2, <1>3 DEF IInv, FileInv, Default
  <1>7. file.value[w] \in Nat /\ file.value[w] < MaxSaves
    BY ValuesOK DEF BeginSave, IInv, TypeOK, File, Values
  <1>8. /\ \A u \in Writers : ~HasLoaded(u)'
        /\ \A u \in Writers : u # w => threads'[u].at = "idle"
    BY <1>2, <1>3 DEF HasLoaded, Threads
  <1>9. ValueInv' /\ RoomInv' /\ TmpIsOwn'
    BY <1>3, <1>7, <1>8, ValuesOK DEF ValueInv, RoomInv, TmpIsOwn, HasLoaded
  <1> QED
    BY <1>4, <1>5, <1>6, <1>9 DEF IInv

(* A thread starts to load the file.                                       *)
LEMMA BeginLoadOK ==
  ASSUME IInv, NEW r \in Readers, BeginLoad(r)
  PROVE  IInv'
  <1>1. /\ r \in Threads /\ r \notin Writers /\ "reading" \in Stage
        /\ Go(r, "reading", Default)
    BY DEF Threads, Stage, BeginLoad
  <1>2. /\ threads' \in [Threads -> Thread]
        /\ threads'[r].at = "reading"
        /\ \A u \in Threads : u # r => threads'[u] = threads[u]
    BY <1>1, Moves, ValuesOK DEF IInv
  <1>3. /\ \A u \in Writers : threads'[u] = threads[u]
        /\ lock' = lock /\ file' = file /\ tmp' = tmp /\ saved' = saved /\ damaged' = damaged
        /\ faults' = faults /\ restarts' = restarts
    BY <1>1, <1>2 DEF BeginLoad, Threads
  <1>4. TypeOK'
    BY <1>2, <1>3 DEF IInv, TypeOK
  <1>5. FileInv'
    BY <1>2, <1>3 DEF IInv, FileInv, Default
  <1>6. LockInv' /\ ValueInv' /\ RoomInv' /\ TmpIsOwn'
    BY <1>3 DEF IInv, LockInv, ValueInv, RoomInv, TmpIsOwn, HasLoaded, Parsed, Changed, Default, Whole
  <1> QED
    BY <1>4, <1>5, <1>6 DEF IInv

(* The three ways a load may go: what they have in common.                 *)
LEMMA LoadOK ==
  ASSUME IInv, NEW t \in Threads, Load(t)
  PROVE  IInv'
  <1>1. /\ threads[t].at \in {"reading", "unparsed"}
        /\ lock' = lock /\ tmp' = tmp /\ saved' = saved
        /\ file' \in {file, Absent} /\ (file' # file => damaged)
        /\ damaged' \in BOOLEAN /\ (damaged => damaged')
        /\ faults' \in Nat /\ restarts' \in Nat
    <2>1. CASE Read(t)
      BY <2>1 DEF Read, IInv, TypeOK
    <2>2. CASE ReadFails(t)
      BY <2>2 DEF ReadFails, Fault, IInv, TypeOK
    <2>3. CASE Backup(t)
      BY <2>3 DEF Backup, Fault, IInv, TypeOK, FileInv
    <2> QED
      BY <2>1, <2>2, <2>3 DEF Load
  <1>2. PICK stage \in Stage, value \in Values :
          /\ Go(t, stage, value)
          /\ stage = "unparsed" => damaged
          /\ t \in Writers => stage \in {"unparsed", "loaded"}
          /\ stage = "loaded" => t \in Writers
          /\ stage # "unparsed" /\ t \in Writers => value = file.value \/ (damaged' /\ value = Default)
          /\ stage # "unparsed" /\ t \in Writers => value = file'.value \/ (damaged' /\ value = Default)
    <2>1. CASE Read(t)
      BY <2>1, ValuesOK DEF Read, Loaded, Stage, IInv, TypeOK, File, FileInv
    <2>2. CASE ReadFails(t)
      BY <2>2, ValuesOK DEF ReadFails, Loaded, Stage
    <2>3. CASE Backup(t)
      BY <2>3, <1>1, ValuesOK DEF Backup, Loaded, Stage, IInv, FileInv
    <2> QED
      BY <2>1, <2>2, <2>3 DEF Load
  <1>3. /\ threads' \in [Threads -> Thread]
        /\ threads'[t].at = stage /\ threads'[t].value = value
        /\ \A u \in Threads : u # t => threads'[u] = threads[u]
    BY <1>2, Moves DEF IInv
  <1>4. file' \in File /\ Parsed' \in {Parsed, Default} /\ (Parsed' # Parsed => damaged)
    BY <1>1, ValuesOK DEF IInv, TypeOK, Parsed
  <1>5. TypeOK'
    BY <1>1, <1>3, <1>4 DEF IInv, TypeOK
  <1>6. LockInv'
    BY <1>1, <1>2, <1>3 DEF IInv, LockInv, Threads
  <1>7. FileInv'
    BY <1>1, <1>2, <1>3, ValuesOK DEF IInv, FileInv, Default
  <1>8. ASSUME NEW u \in Writers
        PROVE  /\ HasLoaded(u)' => threads'[u].value = Parsed' \/ (damaged' /\ threads'[u].value \in {Default, saved'})
               /\ threads'[u].at # "idle" => 0 < MaxSaves /\ file'.value[u] < MaxSaves
               /\ HasLoaded(u)' => threads'[u].value[u] < MaxSaves
               /\ threads'[u].at = "written" => u # t
    <2>1. CASE u = t
      <3>1. threads[t].at # "idle" /\ 0 < MaxSaves /\ file.value[t] < MaxSaves
        BY <1>1, <2>1 DEF IInv, RoomInv
      <3>2. file'.value[t] < MaxSaves /\ Default[t] < MaxSaves
        BY <1>1, <2>1, <3>1, ValuesOK DEF Default
      <3>3. ~HasLoaded(t)' \/ value = file'.value \/ (damaged' /\ value = Default)
        BY <1>2, <1>3, <2>1 DEF HasLoaded
      <3>4. file'.value \in {Parsed', Default, saved'}
        BY <1>7 DEF FileInv, Parsed
      <3>5. HasLoaded(t)' => value = Parsed' \/ (damaged' /\ value = Default)
        BY <1>7, <3>3 DEF FileInv, Parsed, Default
      <3> QED
        BY <1>2, <1>3, <2>1, <3>1, <3>2, <3>3, <3>5
    <2>2. CASE u # t
      <3>1. threads'[u] = threads[u]
        BY <1>3, <2>2 DEF Threads
      <3>2. HasLoaded(u) => threads[u].value \in {Parsed, Parsed'} \/ (damaged /\ threads[u].value \in {Default, saved})
        BY DEF IInv, ValueInv
      <3>3. Parsed' # Parsed => Parsed \in {Default, saved}
        BY DEF IInv, FileInv, Parsed
      <3>4. threads[u].at # "idle" => 0 < MaxSaves /\ file'.value[u] < MaxSaves
        BY <1>1, ValuesOK DEF IInv, RoomInv, Default
      <3> QED
        BY <1>1, <1>4, <2>2, <3>1, <3>2, <3>3, <3>4 DEF HasLoaded, IInv, RoomInv
    <2> QED
      BY <2>1, <2>2
  <1>9. ValueInv' /\ RoomInv'
    BY <1>8 DEF ValueInv, RoomInv, HasLoaded, Default
  <1>10. TmpIsOwn'
    BY <1>1, <1>3, <1>8 DEF IInv, TmpIsOwn, Changed, Threads, Whole
  <1> QED
    BY <1>5, <1>6, <1>7, <1>9, <1>10 DEF IInv

(* What a writer's own move leaves of the other commands: they are idle.   *)
LEMMA OthersIdle ==
  ASSUME IInv, NEW w \in Writers, threads[w].at # "idle"
  PROVE  lock = w /\ \A u \in Writers : u # w => threads[u].at = "idle"
  BY DEF IInv, LockInv

(* The steps of atomic_write before the rename.                            *)
LEMMA PrepareOK ==
  ASSUME IInv, NEW w \in Writers, Create(w) \/ Write(w)
  PROVE  IInv'
  <1>1. /\ w \in Threads
        /\ threads[w].value \in Values /\ threads[w].value[w] < MaxSaves
        /\ HasLoaded(w)
    BY DEF Create, Write, HasLoaded, IInv, RoomInv, TypeOK, Threads, Thread
  <1>2. PICK stage \in {"created", "written"} : Go(w, stage, threads[w].value)
    BY DEF Create, Write
  <1>3. /\ threads' \in [Threads -> Thread]
        /\ threads'[w].at = stage /\ threads'[w].value = threads[w].value
        /\ \A u \in Threads : u # w => threads'[u] = threads[u]
    BY <1>1, <1>2, Moves DEF IInv, Stage
  <1>4. /\ tmp' \in File
        /\ stage = "written" => tmp' = Whole(Changed(w))
    <2>1. CASE Create(w)
      <3>1. threads'[w].at = "created"
        BY <1>1, <2>1, Moves DEF Create, IInv, Stage
      <3> QED
        BY <1>3, <2>1, <3>1, ValuesOK DEF Create
    <2>2. CASE Write(w)
      BY <1>1, <2>2, ChangedOK, ValuesOK DEF Write, IInv
    <2> QED
      BY <2>1, <2>2
  <1>5. /\ lock' = lock /\ file' = file /\ saved' = saved /\ damaged' = damaged
        /\ faults' = faults /\ restarts' = restarts
    BY DEF Create, Write
  <1>6. \A u \in Writers : u # w => threads[u].at = "idle" /\ threads'[u].at = "idle"
    BY <1>1, <1>3, OthersIdle DEF Threads, HasLoaded
  <1>7. TypeOK'
    BY <1>3, <1>4, <1>5 DEF IInv, TypeOK
  <1>8. LockInv'
    BY <1>1, <1>2, <1>3, <1>5, <1>6, OthersIdle DEF LockInv, HasLoaded
  <1>9. FileInv'
    BY <1>2, <1>3, <1>5 DEF IInv, FileInv, Default
  <1>10. ValueInv' /\ RoomInv'
    BY <1>1, <1>3, <1>5, <1>6 DEF IInv, ValueInv, RoomInv, HasLoaded, Parsed, Default
  <1>11. TmpIsOwn'
    BY <1>3, <1>4, <1>6 DEF TmpIsOwn, Changed, Whole
  <1> QED
    BY <1>7, <1>8, <1>9, <1>10, <1>11 DEF IInv

(* The end of a save, one way or the other.                                *)
LEMMA EndOK ==
  ASSUME IInv, NEW w \in Writers, Replace(w) \/ SaveFails(w)
  PROVE  IInv'
  <1>1. /\ w \in Threads /\ HasLoaded(w) /\ Go(w, "idle", Default) /\ Unlock(w)
        /\ tmp' \in {tmp, Absent} /\ damaged' = damaged
        /\ faults' \in Nat /\ restarts' \in Nat
    BY DEF Replace, SaveFails, Fault, HasLoaded, Threads, IInv, TypeOK
  <1>2. /\ threads' \in [Threads -> Thread]
        /\ threads'[w].at = "idle"
        /\ \A u \in Threads : u # w => threads'[u] = threads[u]
    BY <1>1, Moves, ValuesOK DEF IInv, Stage
  <1>3. \A u \in Writers : threads'[u].at = "idle"
    BY <1>1, <1>2, OthersIdle DEF Threads, HasLoaded
  <1>4. lock' = "nobody"
    BY <1>1 DEF Unlock
  <1>5. /\ file' \in File /\ saved' \in Values
        /\ \/ file' = file /\ saved' = saved
           \/ file'.state = "good" /\ file'.value = saved'
    <2>1. CASE Replace(w)
      <3>1. threads[w].value[w] < MaxSaves /\ tmp = Whole(Changed(w))
        BY <1>1, <2>1 DEF Replace, IInv, RoomInv, TmpIsOwn
      <3>2. Changed(w) \in Values
        BY <3>1, ChangedOK DEF IInv
      <3> QED
        BY <2>1, <3>1, <3>2, ValuesOK DEF Replace
    <2>2. CASE SaveFails(w)
      BY <2>2 DEF SaveFails, IInv, TypeOK
    <2> QED
      BY <2>1, <2>2
  <1>6. TypeOK'
    BY <1>1, <1>2, <1>4, <1>5, ValuesOK DEF IInv, TypeOK
  <1>7. LockInv'
    BY <1>3, <1>4 DEF LockInv
  <1>8. FileInv'
    BY <1>1, <1>2, <1>5 DEF IInv, FileInv, Default
  <1>9. ValueInv' /\ RoomInv' /\ TmpIsOwn'
    BY <1>3 DEF ValueInv, RoomInv, TmpIsOwn, HasLoaded
  <1> QED
    BY <1>6, <1>7, <1>8, <1>9 DEF IInv

LEMMA RestartOK ==
  ASSUME IInv, Restart
  PROVE  IInv'
  <1>1. /\ \A t \in Threads : threads'[t].at = "idle"
        /\ threads' \in [Threads -> Thread]
    BY ValuesOK DEF Restart, Idle, Thread, Stage
  <1>2. TypeOK'
    BY <1>1 DEF Restart, IInv, TypeOK
  <1>3. LockInv'
    BY <1>1 DEF Restart, LockInv, Threads
  <1>4. FileInv'
    BY <1>1 DEF Restart, IInv, FileInv, Default
  <1>5. ValueInv' /\ RoomInv' /\ TmpIsOwn'
    BY <1>1 DEF ValueInv, RoomInv, TmpIsOwn, HasLoaded, Threads
  <1> QED
    BY <1>2, <1>3, <1>4, <1>5 DEF IInv

LEMMA StutterOK ==
  ASSUME IInv, UNCHANGED vars
  PROVE  IInv'
  BY DEF vars, IInv, TypeOK, LockInv, FileInv, ValueInv, RoomInv, TmpIsOwn, HasLoaded,
         Parsed, Changed, Default, Whole, File, Thread, Threads, Stage, Values

(* The invariant of the whole module.                                      *)
THEOREM Inductive == Spec => []IInv
  <1>1. ASSUME IInv, [Next]_vars PROVE IInv'
    <2>1. CASE UNCHANGED vars
      BY <1>1, <2>1, StutterOK
    <2>2. ASSUME NEW w \in Writers, SaveStep(w) PROVE IInv'
      BY <1>1, <2>2, BeginSaveOK, PrepareOK, EndOK DEF SaveStep
    <2>3. ASSUME NEW r \in Readers, BeginLoad(r) PROVE IInv'
      BY <1>1, <2>3, BeginLoadOK
    <2>4. ASSUME NEW t \in Threads, Load(t) PROVE IInv'
      BY <1>1, <2>4, LoadOK
    <2>5. CASE Restart
      BY <1>1, <2>5, RestartOK
    <2> QED
      BY <1>1, <2>1, <2>2, <2>3, <2>4, <2>5 DEF Next
  <1> QED
    BY <1>1, InitOK, PTL DEF Spec

(* Every value stays in its set, however the steps interleave.             *)
THEOREM StoreTyped == Spec => []TypeOK
  <1>1. IInv => TypeOK
    BY DEF IInv
  <1> QED
    BY <1>1, Inductive, PTL

(* The temporary file a command renames holds what that command wrote: the *)
(* claim made above atomic_write.                                          *)
THEOREM TmpNeverShared == Spec => []TmpIsOwn
  <1>1. IInv => TmpIsOwn
    BY DEF IInv
  <1> QED
    BY <1>1, Inductive, PTL

(* A save that succeeds changes one field of the record; after damage it   *)
(* may start from the defaults or from the last record saved.              *)
LEMMA ReplaceSaves ==
  ASSUME IInv, NEW w \in Writers, Replace(w)
  PROVE  Record!Save(w)
  <1>1. threads[w].value[w] < MaxSaves /\ tmp = Whole(Changed(w))
    BY DEF Replace, HasLoaded, IInv, RoomInv, TmpIsOwn
  <1>2. file'.state = "good" /\ file'.value = Changed(w) /\ saved' = Changed(w)
    BY <1>1, ChangedOK, ValuesOK DEF Replace, IInv
  <1>3. Parsed' = Changed(w) /\ saved' = Parsed' /\ UNCHANGED damaged
    BY <1>2 DEF Replace, Parsed
  <1>4. Changed(w) = Record!Changed(threads[w].value, w)
    BY DEF Changed, Record!Changed
  <1>5. \/ threads[w].value = Parsed
        \/ damaged /\ threads[w].value \in {Record!Default, saved}
    BY DEF Replace, HasLoaded, IInv, ValueInv, Default, Record!Default
  <1> QED
    BY <1>3, <1>4, <1>5 DEF Record!Save

(* Every other step leaves the record alone, notes damage, or drops the    *)
(* record once there has been damage.                                      *)
LEMMA OthersKeep ==
  ASSUME IInv, [Next]_vars, \A w \in Writers : ~Replace(w)
  PROVE  Record!ReadFails \/ Record!Forget \/ UNCHANGED <<Parsed, saved, damaged>>
  <1>1. CASE UNCHANGED vars
    BY <1>1 DEF vars, Parsed, Default
  <1>2. ASSUME NEW w \in Writers, BeginSave(w) \/ Create(w) \/ Write(w) \/ SaveFails(w)
        PROVE  UNCHANGED <<Parsed, saved, damaged>>
    BY <1>2 DEF BeginSave, Create, Write, SaveFails, Parsed, Default
  <1>3. ASSUME NEW r \in Readers, BeginLoad(r)
        PROVE  UNCHANGED <<Parsed, saved, damaged>>
    BY <1>3 DEF BeginLoad, Parsed, Default
  <1>4. ASSUME NEW t \in Threads, Read(t)
        PROVE  UNCHANGED <<Parsed, saved, damaged>>
    BY <1>4 DEF Read, Parsed, Default
  <1>5. ASSUME NEW t \in Threads, ReadFails(t)
        PROVE  Record!ReadFails
    BY <1>5 DEF ReadFails, Parsed, Default, Record!ReadFails
  <1>6. ASSUME NEW t \in Threads, Backup(t)
        PROVE  Record!Forget \/ UNCHANGED <<Parsed, saved, damaged>>
    <2>1. damaged /\ UNCHANGED <<saved, damaged>>
      BY <1>6 DEF Backup, IInv, FileInv
    <2>2. CASE file' = Absent
      BY <2>1, <2>2, ValuesOK DEF Parsed, Default, Record!Forget, Record!Default
    <2>3. CASE UNCHANGED file
      BY <2>1, <2>3 DEF Parsed, Default
    <2> QED
      BY <1>6, <2>2, <2>3 DEF Backup
  <1>7. CASE Restart
    BY <1>7 DEF Restart, Parsed, Default
  <1> QED
    BY <1>1, <1>2, <1>3, <1>4, <1>5, <1>6, <1>7 DEF Next, SaveStep, Load

(* No save is lost or torn, for any number of commands and readers,        *)
(* failures and restarts: the file implements the record.                  *)
THEOREM FileIsRecord == Spec => RecordSpec
  <1>1. Init => Record!Init
    <2> SUFFICES ASSUME Init PROVE Record!Init
      OBVIOUS
    <2>1. damaged \in BOOLEAN
      BY InitOK DEF IInv, TypeOK
    <2>2. file.value = Default /\ saved = Default
      BY DEF Init
    <2> QED
      BY <2>1, <2>2 DEF Parsed, Default, Record!Init, Record!Default
  <1>2. ASSUME IInv, [Next]_vars
        PROVE  [Record!Next]_<<Parsed, saved, damaged>>
    <2>1. CASE \E w \in Writers : Replace(w)
      BY <1>2, <2>1, ReplaceSaves DEF Record!Next
    <2>2. CASE \A w \in Writers : ~Replace(w)
      BY <1>2, <2>2, OthersKeep DEF Record!Next
    <2> QED
      BY <2>1, <2>2
  <1> QED
    BY <1>1, <1>2, Inductive, PTL DEF Spec, RecordSpec, Record!Spec
=============================================================================
