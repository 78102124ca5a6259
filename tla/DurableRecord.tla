---------------------------- MODULE DurableRecord ----------------------------
(***************************************************************************)
(* What a settings file promises: it is one record, changed one field at a *)
(* time and in one step, whoever saves and whenever the program dies.      *)
(* Only when the file was damaged or could not be read may the record fall *)
(* back to the defaults; a save then starts from the defaults or from the  *)
(* last record saved, and never from an older one.                         *)
(***************************************************************************)
EXTENDS Naturals

CONSTANT Fields

VARIABLES
  record,    \* how often each field was changed
  saved,     \* the last record saved
  damaged    \* the file was unreadable at some time

Default == [f \in Fields |-> 0]

Changed(from, f) == [from EXCEPT ![f] = @ + 1]

Init == record = Default /\ saved = Default /\ damaged \in BOOLEAN

Save(f) ==
  /\ \/ record' = Changed(record, f)
     \/ damaged /\ record' \in {Changed(Default, f), Changed(saved, f)}
  /\ saved' = record'
  /\ UNCHANGED damaged

ReadFails == damaged' = TRUE /\ UNCHANGED <<record, saved>>

Forget == damaged /\ record' = Default /\ UNCHANGED <<saved, damaged>>

Next == (\E f \in Fields : Save(f)) \/ ReadFails \/ Forget

Spec == Init /\ [][Next]_<<record, saved, damaged>>
=============================================================================
