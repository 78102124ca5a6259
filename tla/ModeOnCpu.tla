------------------------------ MODULE ModeOnCpu ------------------------------
(***************************************************************************)
(* ModeControl over the masks of CpuAffinity: what the modes of its two    *)
(* attributes mean on a real processor, for every detection of every       *)
(* machine of Machines.  It shows that a mode can be set, that it means    *)
(* what it says, and that the modes may stand for the pairs in the model.  *)
(***************************************************************************)
EXTENDS ModeControl, Sequences

CONSTANTS
  High,
  Bits,       \* width of a mask
  Machines    \* sequences of cores, [class, mask]

Cpu == INSTANCE CpuAffinity

Processors(cores) == Cpu!MasksOf(cores, DOMAIN cores)

Count(cores) == Cardinality(Processors(cores))

(* Cores share no processor, and the processors are numbered from 0.       *)
IsMachine(cores) ==
  /\ cores \in Seq([class : Nat, mask : (SUBSET Nat) \ {{}}]) /\ cores # <<>>
  /\ \A i, j \in DOMAIN cores : i # j => cores[i].mask \cap cores[j].mask = {}
  /\ \E n \in 1 .. Bits : Processors(cores) = 0 .. n - 1

ASSUME ModeOnCpuAssumption ==
  /\ Modes = {High, Normal, LowPower}
  /\ High # Normal /\ High # LowPower /\ Normal # LowPower
  /\ Bits \in Nat
  /\ \A cores \in Machines : IsMachine(cores)

(* detect_cpu_info: either enumeration of the cores may fail, and so may   *)
(* the count of the processors.                                            *)
Detections(cores) ==
  [ex : {Cpu!ClassifyCores(cores), None}, fallback : {Count(cores), 1},
   legacy : {Cardinality(DOMAIN cores), None}]

Info(d) == Cpu!BuildCpuInfo(d.ex, d.fallback, d.legacy)

(* The cores were counted, in one way or another, and the processors too.  *)
Counted(d, cores) ==
  d.ex # None \/ (d.legacy # None /\ d.fallback = Count(cores))

-----------------------------------------------------------------------------
Fit ==
  [m \in Modes |->
     \A cores \in Machines : \A d \in Detections(cores) :
       Cpu!Applicable(Cpu!Mask(m, Info(d)), Count(cores))]

(* The game always runs on processors that the machine has, whatever the   *)
(* detection of the processor brought (calc_high_affinity and the like).   *)
MasksFit == proc # 0 => Fit[affinity]

Fast(cores) ==
  {i \in DOMAIN cores : \A j \in DOMAIN cores : cores[j].class <= cores[i].class}

IsHybrid(cores) == Fast(cores) # DOMAIN cores

IsUniform(cores) ==
  \A i, j \in DOMAIN cores : /\ cores[i].class = cores[j].class
                             /\ Cardinality(cores[i].mask) = Cardinality(cores[j].mask)

(* The processors are numbered core by core.                               *)
IsInOrder(cores) ==
  \A i, j \in DOMAIN cores :
    i < j => \A a \in cores[i].mask, b \in cores[j].mask : a < b

CoresOf(mask, cores) == {i \in DOMAIN cores : cores[i].mask \cap mask # {}}

(* On P- and E-cores: high performance is the P-cores with all their       *)
(* threads, low power the E-cores.  On equal cores: one thread of each     *)
(* core, and the last core.                                                *)
AsPromised(m, mask, cores) ==
  IF IsHybrid(cores)
  THEN /\ m = High => mask = UNION {cores[i].mask : i \in Fast(cores)}
       /\ m = LowPower => mask = Processors(cores) \ UNION {cores[i].mask : i \in Fast(cores)}
  ELSE /\ m = High => \A i \in DOMAIN cores : Cardinality(mask \cap cores[i].mask) = 1
       /\ m = LowPower => CoresOf(mask, cores) = {Len(cores)}

Kept ==
  [m \in Modes |->
     \A cores \in Machines : \A d \in Detections(cores) :
       (IF IsHybrid(cores) THEN d.ex # None
        ELSE IsUniform(cores) /\ IsInOrder(cores) /\ Counted(d, cores))
         => AsPromised(m, Cpu!Mask(m, Info(d)), cores)]

(* A game in a mode runs on the cores the mode promises (the table of      *)
(* modes and the section on P- and E-cores of README.md), on machines      *)
(* whose cores could be told apart, or are equal and numbered in order.    *)
CoresAsPromised == proc # 0 => Kept[affinity]

Readings ==
  [p \in Modes |-> [a \in Modes |->
     {[mode |-> Cpu!ModeFromPriorityAndAffinity(Cpu!PriorityClass(p), Cpu!Mask(a, Info(d)), Info(d)),
       same |-> Cpu!Mask(p, Info(d)) = Cpu!Mask(a, Info(d))] :
        d \in UNION {Detections(cores) : cores \in Machines}}]]

(* The mode read back from the game is the one the model reads: the last   *)
(* one set, and none while the two attributes are of different modes,      *)
(* unless both modes have the same mask (query_current_mode).              *)
ReadBackAgrees ==
  proc # 0 => \A r \in Readings[priority][affinity] :
                r.mode = IF r.same THEN priority ELSE CurrentMode
=============================================================================
