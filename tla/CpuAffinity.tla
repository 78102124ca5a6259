----------------------------- MODULE CpuAffinity -----------------------------
(***************************************************************************)
(* The processor as backend/process.rs describes it, and the affinity mask *)
(* and priority class of each mode.  A mask is the set of the processors   *)
(* whose bit is set.                                                       *)
(***************************************************************************)
EXTENDS Integers, Sequences, FiniteSets

CONSTANTS
  High, Normal, LowPower,   \* OptimizeMode
  None,                     \* Option::None
  Bits                      \* width of a mask

Least(a, b) == IF a <= b THEN a ELSE b

Largest(a, b) == IF a <= b THEN b ELSE a

-----------------------------------------------------------------------------
(* A core is its efficiency class and its processors.  The fastest class   *)
(* are the P-cores, all others the E-cores.                                *)
MasksOf(cores, I) == UNION {cores[i].mask : i \in I}

(* The threads of all cores, counted core by core.                         *)
ThreadsOf(cores) ==
  LET I == DOMAIN cores
  IN  {x \in I \X MasksOf(cores, I) : x[2] \in cores[x[1]].mask}

ClassifyCores(cores) ==
  LET I == DOMAIN cores
      fast == {i \in I : \A j \in I : cores[j].class <= cores[i].class}
  IN  [p |-> MasksOf(cores, fast), e |-> MasksOf(cores, I \ fast), physical |-> Len(cores),
       logical |-> Cardinality(ThreadsOf(cores))]

(* ex is what ClassifyCores made of the cores, None if Windows did not     *)
(* enumerate them; legacy is the older count of the cores, None likewise.  *)
BuildCpuInfo(ex, fallback, legacy) ==
  LET hybrid == ex # None /\ ex.e # {}
      counted == CASE hybrid      -> ex.physical
                   [] ex = None   -> IF legacy = None THEN Largest(fallback \div 2, 1) ELSE legacy
                   [] OTHER       -> IF legacy = None THEN ex.physical ELSE legacy
  IN  [physical |-> IF ex = None THEN counted ELSE Largest(counted, 1),
       logical  |-> IF ex = None THEN fallback ELSE Largest(ex.logical, fallback),
       p |-> IF hybrid THEN ex.p ELSE {}, e |-> IF hybrid THEN ex.e ELSE {}, hybrid |-> hybrid]

-----------------------------------------------------------------------------
(* Fault: the first processors, whatever core they belong to.              *)
FirstProcessors(info) ==
  IF info.hybrid /\ info.p # {} THEN info.p ELSE 0 .. Least(info.physical, Bits) - 1

(* The P-cores, or else the first thread of each core.                     *)
CalcHighAffinity(info) ==
  LET threads == Largest(info.logical \div info.physical, 1)
  IN  IF info.hybrid /\ info.p # {} THEN info.p
      ELSE IF info.physical = 0 THEN {}
      ELSE {Least(i * threads, Bits - 1) : i \in 0 .. Least(info.physical, Bits) - 1}

CalcNormalAffinity(info) == 0 .. Least(info.logical, Bits) - 1

(* Fault: processors are counted from one.                                 *)
LastFromOne(info) ==
  IF info.hybrid /\ info.e # {} THEN info.e ELSE {Least(info.logical, Bits)}

(* The E-cores, or else the threads of the last core.                      *)
CalcLowPowerAffinity(info) ==
  LET n == Least(info.logical, Bits)
  IN  IF info.hybrid /\ info.e # {} THEN info.e
      ELSE IF n < 2 THEN {0}
      ELSE IF info.logical \div Largest(info.physical, 1) >= 2 THEN {n - 2, n - 1}
      ELSE {n - 1}

(* What a mode sets: mode_params.                                          *)
Mask(mode, info) ==
  CASE mode = High     -> CalcHighAffinity(info)
    [] mode = Normal   -> CalcNormalAffinity(info)
    [] mode = LowPower -> CalcLowPowerAffinity(info)

PriorityClass(mode) ==
  CASE mode = High -> "high" [] mode = Normal -> "normal" [] mode = LowPower -> "idle"

(* Fault: the priority class alone tells the mode.                         *)
ModeFromPriority(class, mask, info) ==
  CASE class = "high" -> High [] class = "normal" -> Normal [] class = "idle" -> LowPower
    [] OTHER -> None

ModeFromPriorityAndAffinity(class, mask, info) ==
  CASE class = "high"   /\ mask = CalcHighAffinity(info)     -> High
    [] class = "normal" /\ mask = CalcNormalAffinity(info)   -> Normal
    [] class = "idle"   /\ mask = CalcLowPowerAffinity(info) -> LowPower
    [] OTHER -> None

-----------------------------------------------------------------------------
(* A mask that SetProcessAffinityMask accepts on n processors.             *)
Applicable(mask, n) == mask # {} /\ mask \subseteq 0 .. n - 1
=============================================================================
