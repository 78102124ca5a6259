--------------------------- MODULE ModeOnCpuProofs ---------------------------
(***************************************************************************)
(* Proofs about CpuAffinity and ModeOnCpu: for machines of any number of   *)
(* cores and processors up to the width of a mask, whatever part of their  *)
(* detection fails.                                                        *)
(***************************************************************************)
EXTENDS ModeOnCpu, ModeControlProofs, FiniteSetTheorems

-----------------------------------------------------------------------------
LEMMA Named == High # Normal /\ High # LowPower /\ Normal # LowPower
  BY ModeOnCpuAssumption

LEMMA Width == Bits \in Nat
  BY ModeOnCpuAssumption

(* What Windows may answer on a machine of n processors: the cores as      *)
(* ClassifyCores sums them up, or a failure, and likewise the two counts.  *)
Summaries(n) ==
  [p : SUBSET (0 .. n - 1), e : SUBSET (0 .. n - 1), physical : 1 .. n, logical : 1 .. n]

Descriptions(n) ==
  [p : SUBSET (0 .. n - 1), e : SUBSET (0 .. n - 1), physical : 1 .. n, logical : 1 .. n,
   hybrid : BOOLEAN]

LEMMA Described ==
  ASSUME NEW n \in Nat \ {0}, NEW ex \in Summaries(n) \cup {None},
         NEW fallback \in 1 .. n, NEW legacy \in 1 .. n \cup {None}
  PROVE  Cpu!BuildCpuInfo(ex, fallback, legacy) \in Descriptions(n)
<1>1. CASE ex = None
  <2>1. ~(ex # None /\ ex.e # {}) BY <1>1
  <2>2. Cpu!Largest(fallback \div 2, 1) \in 1 .. n BY DEF Cpu!Largest
  <2>3. (IF legacy = None THEN Cpu!Largest(fallback \div 2, 1) ELSE legacy) \in 1 .. n BY <2>2
  <2> QED BY <1>1, <2>1, <2>3 DEF Cpu!BuildCpuInfo, Descriptions
<1>2. CASE ex # None
  <2>1. ex \in Summaries(n) BY <1>2
  <2>2. Cpu!Largest(ex.logical, fallback) \in 1 .. n BY <2>1 DEF Summaries, Cpu!Largest
  <2>3. CASE ex.e # {}
    <3>1. Cpu!Largest(ex.physical, 1) \in 1 .. n BY <2>1 DEF Summaries, Cpu!Largest
    <3> QED BY <1>2, <2>1, <2>2, <2>3, <3>1 DEF Cpu!BuildCpuInfo, Descriptions, Summaries
  <2>4. CASE ex.e = {}
    <3> DEFINE c == IF legacy = None THEN ex.physical ELSE legacy
    <3>1. c \in 1 .. n BY <2>1 DEF Summaries
    <3>2. Cpu!Largest(c, 1) \in 1 .. n BY <3>1 DEF Cpu!Largest
    <3> QED BY <1>2, <2>2, <2>4, <3>2 DEF Cpu!BuildCpuInfo, Descriptions
  <2> QED BY <2>3, <2>4
<1> QED BY <1>1, <1>2

(* The first threads of c cores of k threads each, out of l processors.    *)
LEMMA FirstThreads ==
  ASSUME NEW c \in Nat \ {0}, NEW l \in Nat \ {0}, NEW i \in 0 .. c - 1
  PROVE  /\ i * Cpu!Largest(l \div c, 1) \in Nat
         /\ i * Cpu!Largest(l \div c, 1) < l \/ i * Cpu!Largest(l \div c, 1) < c
<1> DEFINE k == l \div c
<1>1. k \in Nat /\ c * k <= l OBVIOUS
<1>2. CASE k <= 1 BY <1>1, <1>2 DEF Cpu!Largest
<1>3. CASE k > 1
  <2>1. Cpu!Largest(k, 1) = k BY <1>1, <1>3 DEF Cpu!Largest
  <2>2. i * k \in Nat BY <1>1
  <2>3. (c - i) * k >= k
    <3>1. c - i >= 1 OBVIOUS
    <3> QED BY <1>1, <3>1
  <2>4. (c - i) * k = c * k - i * k BY <1>1
  <2>5. c * k \in Nat BY <1>1
  <2>6. i * k < l BY <1>1, <1>3, <2>2, <2>3, <2>4, <2>5
  <2> QED BY <2>1, <2>2, <2>6
<1> QED BY <1>1, <1>2, <1>3

(* Whatever Windows told of the processor, the mask of every mode is one   *)
(* that SetProcessAffinityMask accepts, up to as many processors as a mask *)
(* has bits: calc_high_affinity and the like on what                       *)
(* build_cpu_info_from_detection answers.                                  *)
THEOREM EveryMaskFits ==
  ASSUME NEW n \in Nat \ {0}, n <= Bits,
         NEW ex \in Summaries(n) \cup {None},
         NEW fallback \in 1 .. n, NEW legacy \in 1 .. n \cup {None},
         NEW mode \in {High, Normal, LowPower}
  PROVE  Cpu!Applicable(Cpu!Mask(mode, Cpu!BuildCpuInfo(ex, fallback, legacy)), n)
<1> DEFINE info == Cpu!BuildCpuInfo(ex, fallback, legacy)
<1>1. info \in Descriptions(n) BY Described
<1> HIDE DEF info
<1>2. /\ info.p \subseteq 0 .. n - 1 /\ info.e \subseteq 0 .. n - 1
      /\ info.physical \in 1 .. n /\ info.logical \in 1 .. n
  BY <1>1 DEF Descriptions
<1>3. Cpu!Applicable(Cpu!CalcHighAffinity(info), n)
  <2>1. CASE info.hybrid /\ info.p # {} BY <1>2, <2>1 DEF Cpu!CalcHighAffinity, Cpu!Applicable
  <2>2. CASE ~(info.hybrid /\ info.p # {})
    <3> DEFINE c == info.physical
               k == Cpu!Largest(info.logical \div c, 1)
               mask == {Cpu!Least(i * k, Bits - 1) : i \in 0 .. Cpu!Least(c, Bits) - 1}
    <3>1. Cpu!Least(c, Bits) = c BY <1>2, Width DEF Cpu!Least
    <3>2. Cpu!CalcHighAffinity(info) = mask BY <1>2, <2>2 DEF Cpu!CalcHighAffinity
    <3>3. ASSUME NEW i \in 0 .. c - 1 PROVE Cpu!Least(i * k, Bits - 1) \in 0 .. n - 1
      <4>1. c \in Nat \ {0} /\ info.logical \in Nat \ {0} BY <1>2
      <4> HIDE DEF c
      <4>2. i * k \in Nat /\ (i * k < info.logical \/ i * k < c) BY <4>1, FirstThreads
      <4> HIDE DEF k
      <4> USE DEF c
      <4>3. i * k < n BY <1>2, <4>2
      <4> QED BY <4>2, <4>3, Width DEF Cpu!Least
    <3>4. mask \subseteq 0 .. n - 1 BY <3>1, <3>3
    <3>5. 0 \in 0 .. Cpu!Least(c, Bits) - 1 BY <1>2, <3>1
    <3>6. mask # {} BY <3>5
    <3> QED BY <3>2, <3>4, <3>6 DEF Cpu!Applicable
  <2> QED BY <2>1, <2>2
<1>4. Cpu!Applicable(Cpu!CalcNormalAffinity(info), n)
  <2>1. Cpu!Least(info.logical, Bits) = info.logical BY <1>2, Width DEF Cpu!Least
  <2>2. 0 \in 0 .. info.logical - 1 /\ 0 .. info.logical - 1 \subseteq 0 .. n - 1 BY <1>2
  <2> QED BY <2>1, <2>2 DEF Cpu!CalcNormalAffinity, Cpu!Applicable
<1>5. Cpu!Applicable(Cpu!CalcLowPowerAffinity(info), n)
  <2>1. CASE info.hybrid /\ info.e # {} BY <1>2, <2>1 DEF Cpu!CalcLowPowerAffinity, Cpu!Applicable
  <2>2. CASE ~(info.hybrid /\ info.e # {})
    <3>1. Cpu!Least(info.logical, Bits) = info.logical BY <1>2, Width DEF Cpu!Least
    <3>2. CASE info.logical < 2
      BY <1>2, <2>2, <3>1, <3>2 DEF Cpu!CalcLowPowerAffinity, Cpu!Applicable
    <3>3. CASE info.logical >= 2
      <4> DEFINE l == info.logical
      <4>1. /\ {l - 2, l - 1} \subseteq 0 .. n - 1
            /\ {l - 1} \subseteq 0 .. n - 1
        BY <1>2, <3>3
      <4>2. Cpu!CalcLowPowerAffinity(info) \in {{l - 2, l - 1}, {l - 1}}
        BY <1>2, <2>2, <3>1, <3>3 DEF Cpu!CalcLowPowerAffinity
      <4> QED BY <4>1, <4>2 DEF Cpu!Applicable
    <3> QED BY <1>2, <3>2, <3>3
  <2> QED BY <2>1, <2>2
<1>6. Cpu!Applicable(Cpu!Mask(mode, info), n)
  <2>1. CASE mode = High BY <1>3, <2>1, Named DEF Cpu!Mask
  <2>2. CASE mode = Normal BY <1>4, <2>2, Named DEF Cpu!Mask
  <2>3. CASE mode = LowPower BY <1>5, <2>3, Named DEF Cpu!Mask
  <2> QED BY <2>1, <2>2, <2>3
<1> QED BY <1>6 DEF info

-----------------------------------------------------------------------------
(* A machine: its cores, their number and that of its processors.          *)
Core == [class : Nat, mask : (SUBSET Nat) \ {{}}]

LEMMA MachineIs ==
  ASSUME NEW cores \in Machines
  PROVE  /\ Len(cores) \in Nat \ {0} /\ DOMAIN cores = 1 .. Len(cores)
         /\ \A i \in DOMAIN cores : /\ cores[i].class \in Nat
                                    /\ cores[i].mask \subseteq Nat /\ cores[i].mask # {}
         /\ \A i, j \in DOMAIN cores : i # j => cores[i].mask \cap cores[j].mask = {}
         /\ Count(cores) \in Nat \ {0} /\ Count(cores) <= Bits
         /\ Processors(cores) = 0 .. Count(cores) - 1
<1>1. IsMachine(cores)
  BY ModeOnCpuAssumption
<1>2. cores \in Seq(Core) /\ cores # <<>>
  BY <1>1 DEF IsMachine, Core
<1>3. Len(cores) \in Nat \ {0} /\ DOMAIN cores = 1 .. Len(cores)
  BY <1>2
<1>4. \A i \in DOMAIN cores : cores[i] \in Core
  BY <1>2
<1>5. PICK n \in 1 .. Bits : Processors(cores) = 0 .. n - 1
  BY <1>1 DEF IsMachine
<1>6. Count(cores) = n
  BY <1>5, Width, FS_Interval DEF Count
<1> QED
  BY <1>1, <1>3, <1>4, <1>5, <1>6, Width DEF IsMachine, Core

LEMMA InSome ==
  ASSUME NEW cores, NEW I, NEW q
  PROVE  q \in Cpu!MasksOf(cores, I) <=> \E i \in I : q \in cores[i].mask
  BY DEF Cpu!MasksOf

(* The processors are as many as they are counted, and no fewer than the   *)
(* cores.                                                                  *)
LEMMA CountIs ==
  ASSUME NEW cores \in Machines
  PROVE  /\ Len(cores) \in 1 .. Count(cores) /\ IsFiniteSet(Processors(cores))
         /\ Cardinality(DOMAIN cores) = Len(cores)
<1> DEFINE c == Len(cores)
           n == Count(cores)
           P == Processors(cores)
           f == [i \in 1 .. c |-> CHOOSE q \in cores[i].mask : TRUE]
<1>1. c \in Nat \ {0} /\ DOMAIN cores = 1 .. c /\ P = 0 .. n - 1
  BY MachineIs
<1>2. \A i \in 1 .. c : f[i] \in cores[i].mask
  BY <1>1, MachineIs
<1>3. \A i \in 1 .. c : f[i] \in P
  BY <1>1, <1>2, InSome DEF Processors
<1>4. ASSUME NEW i \in 1 .. c, NEW j \in 1 .. c, f[i] = f[j] PROVE i = j
  BY <1>1, <1>2, <1>4, MachineIs
<1>5. f \in Injection(1 .. c, P)
  BY <1>3, <1>4 DEF Injection, IsInjective
<1>6. n \in Nat \ {0} /\ Cardinality(P) = n
  BY MachineIs DEF Count
<1>7. IsFiniteSet(P)
  BY <1>1, <1>6, FS_Interval
<1>8. Cardinality(1 .. c) = c
  BY <1>1, FS_Interval
<1>9. Cardinality(1 .. c) <= Cardinality(P)
  BY <1>5, <1>7, FS_Injection
<1> QED
  BY <1>1, <1>6, <1>7, <1>8, <1>9

(* The number of elements is the same seen from CpuAffinity.               *)
LEMMA SameCount ==
  ASSUME NEW S PROVE Cpu!Cardinality(S) = Cardinality(S)
BY Zenon DEF Cpu!Cardinality, Cardinality

(* No two cores share a thread: there are as many as there are processors. *)
LEMMA ThreadsCounted ==
  ASSUME NEW cores \in Machines
  PROVE  Cardinality(Cpu!ThreadsOf(cores)) = Count(cores)
<1> DEFINE T == Cpu!ThreadsOf(cores)
           P == Processors(cores)
           f == [x \in T |-> x[2]]
<1>1. P = Cpu!MasksOf(cores, DOMAIN cores)
  BY DEF Processors
<1>2. \A x \in T : x \in (DOMAIN cores) \X P /\ x[2] \in cores[x[1]].mask
  BY <1>1 DEF Cpu!ThreadsOf
<1>3. ASSUME NEW q \in P PROVE \E x \in T : x[2] = q
  <2>1. PICK i \in DOMAIN cores : q \in cores[i].mask
    BY <1>1, InSome
  <2>2. <<i, q>> \in T
    BY <1>1, <2>1 DEF Cpu!ThreadsOf
  <2> QED BY <2>2
<1>4. ASSUME NEW x \in T, NEW y \in T, x[2] = y[2] PROVE x = y
  <2>1. x[1] = y[1]
    BY <1>2, <1>4, MachineIs
  <2>2. x = <<x[1], x[2]>> /\ y = <<y[1], y[2]>>
    BY <1>2
  <2> QED BY <1>4, <2>1, <2>2
<1> HIDE DEF T
<1>5. f \in Injection(T, P)
  BY <1>2, <1>4 DEF Injection, IsInjective
<1>6. f \in Surjection(T, P)
  BY <1>2, <1>3 DEF Surjection
<1>7. IsFiniteSet(P)
  BY CountIs
<1>8. Cardinality(T) = Cardinality(P)
  BY <1>5, <1>6, <1>7, FS_Injection
<1> QED BY <1>8 DEF Count, T

LEMMA Classified ==
  ASSUME NEW cores \in Machines
  PROVE  LET ex == Cpu!ClassifyCores(cores)
         IN  /\ ex \in Summaries(Count(cores))
             /\ ex.p = Cpu!MasksOf(cores, Fast(cores))
             /\ ex.e = Cpu!MasksOf(cores, (DOMAIN cores) \ Fast(cores))
             /\ ex.physical = Len(cores) /\ ex.logical = Count(cores)
<1> DEFINE ex == Cpu!ClassifyCores(cores)
           n == Count(cores)
<1>1. ex = [p |-> Cpu!MasksOf(cores, Fast(cores)),
            e |-> Cpu!MasksOf(cores, (DOMAIN cores) \ Fast(cores)),
            physical |-> Len(cores), logical |-> n]
  <2>1. Cpu!Cardinality(Cpu!ThreadsOf(cores)) = n
    BY ThreadsCounted, SameCount
  <2> HIDE DEF n
  <2> QED BY <2>1, Zenon DEF Cpu!ClassifyCores, Fast, ex
<1> HIDE DEF ex
<1>2. \A I \in SUBSET DOMAIN cores : Cpu!MasksOf(cores, I) \subseteq 0 .. n - 1
  <2> SUFFICES ASSUME NEW I \in SUBSET DOMAIN cores, NEW q \in Cpu!MasksOf(cores, I)
               PROVE  q \in 0 .. n - 1
    OBVIOUS
  <2>1. PICK i \in I : q \in cores[i].mask
    BY InSome
  <2>2. q \in Processors(cores)
    BY <2>1, InSome DEF Processors
  <2> QED BY <2>2, MachineIs
<1>3. Fast(cores) \in SUBSET DOMAIN cores
  BY DEF Fast
<1>4. Len(cores) \in 1 .. n /\ n \in 1 .. n
  BY CountIs, MachineIs
<1>5. ex \in Summaries(n)
  BY <1>1, <1>2, <1>3, <1>4 DEF Summaries
<1> QED
  BY <1>1, <1>5 DEF ex

(* Whatever part of the detection fails, what it brings describes the      *)
(* machine.                                                                *)
LEMMA Detected ==
  ASSUME NEW cores \in Machines, NEW d \in Detections(cores)
  PROVE  /\ d.ex \in {Cpu!ClassifyCores(cores), None}
         /\ d.fallback \in {Count(cores), 1} /\ d.fallback \in 1 .. Count(cores)
         /\ d.legacy \in {Len(cores), None}
         /\ d.ex \in Summaries(Count(cores)) \cup {None}
         /\ d.legacy \in 1 .. Count(cores) \cup {None}
<1>1. /\ d.ex \in {Cpu!ClassifyCores(cores), None}
      /\ d.fallback \in {Count(cores), 1}
      /\ d.legacy \in {Len(cores), None}
  BY CountIs DEF Detections
<1>2. Count(cores) \in Nat \ {0} /\ Len(cores) \in 1 .. Count(cores)
  BY CountIs, MachineIs
<1>3. d.fallback \in 1 .. Count(cores)
  BY <1>1, <1>2
<1>4. Cpu!ClassifyCores(cores) \in Summaries(Count(cores))
  BY Classified
<1> QED
  BY <1>1, <1>2, <1>3, <1>4

(* The mask a mode sets is one the machine accepts.                        *)
LEMMA AllFit ==
  ASSUME NEW m \in Modes PROVE Fit[m]
<1> SUFFICES ASSUME NEW cores \in Machines, NEW d \in Detections(cores)
             PROVE  Cpu!Applicable(Cpu!Mask(m, Info(d)), Count(cores))
  BY DEF Fit
<1>1. m \in {High, Normal, LowPower}
  BY ModeOnCpuAssumption
<1>2. Count(cores) \in Nat \ {0} /\ Count(cores) <= Bits
  BY MachineIs
<1> QED
  BY <1>1, <1>2, Detected, EveryMaskFits DEF Info

(* A game runs on processors that the machine has, whatever the detection  *)
(* brought (mode_params over calc_high_affinity and the like).             *)
THEOREM ModesFit == Spec => []MasksFit
<1>1. TypeOK => MasksFit
  BY AllFit DEF TypeOK, MasksFit
<1> QED BY <1>1, TypeCorrect, PTL

-----------------------------------------------------------------------------
(* The mode that is read back.                                             *)
LEMMA ReadBackIs ==
  ASSUME NEW p \in Modes, NEW a \in Modes, NEW info
  PROVE  Cpu!ModeFromPriorityAndAffinity(Cpu!PriorityClass(p), Cpu!Mask(a, info), info)
           = IF Cpu!Mask(p, info) = Cpu!Mask(a, info) THEN p ELSE None
<1>1. p \in {High, Normal, LowPower}
  BY ModeOnCpuAssumption
<1>2. CASE p = High
  <2>1. Cpu!PriorityClass(p) = "high" /\ Cpu!Mask(p, info) = Cpu!CalcHighAffinity(info)
    BY <1>2, Named DEF Cpu!PriorityClass, Cpu!Mask
  <2> QED BY <1>2, <2>1 DEF Cpu!ModeFromPriorityAndAffinity
<1>3. CASE p = Normal
  <2>1. Cpu!PriorityClass(p) = "normal" /\ Cpu!Mask(p, info) = Cpu!CalcNormalAffinity(info)
    BY <1>3, Named DEF Cpu!PriorityClass, Cpu!Mask
  <2> QED BY <1>3, <2>1 DEF Cpu!ModeFromPriorityAndAffinity
<1>4. CASE p = LowPower
  <2>1. Cpu!PriorityClass(p) = "idle" /\ Cpu!Mask(p, info) = Cpu!CalcLowPowerAffinity(info)
    BY <1>4, Named DEF Cpu!PriorityClass, Cpu!Mask
  <2> QED BY <1>4, <2>1 DEF Cpu!ModeFromPriorityAndAffinity
<1> QED BY <1>1, <1>2, <1>3, <1>4

LEMMA ReadBackOf ==
  ASSUME NEW p \in Modes, NEW a \in Modes, NEW r \in Readings[p][a]
  PROVE  r.mode = (IF r.same THEN p ELSE None) /\ r.same \in BOOLEAN /\ (p = a => r.same)
<1> DEFINE D == UNION {Detections(cores) : cores \in Machines}
           R(d) == [mode |-> Cpu!ModeFromPriorityAndAffinity(Cpu!PriorityClass(p),
                               Cpu!Mask(a, Info(d)), Info(d)),
                    same |-> Cpu!Mask(p, Info(d)) = Cpu!Mask(a, Info(d))]
<1>1. Readings[p][a] = {R(d) : d \in D}
  BY DEF Readings
<1>2. PICK d \in D : r = R(d)
  BY <1>1
<1>3. /\ r.mode = Cpu!ModeFromPriorityAndAffinity(Cpu!PriorityClass(p),
                     Cpu!Mask(a, Info(d)), Info(d))
      /\ r.same = (Cpu!Mask(p, Info(d)) = Cpu!Mask(a, Info(d)))
  BY <1>2
<1>4. r.mode = (IF Cpu!Mask(p, Info(d)) = Cpu!Mask(a, Info(d)) THEN p ELSE None)
  BY <1>3, ReadBackIs
<1> QED BY <1>3, <1>4

(* The mode read back from the game's priority class and affinity is the   *)
(* one last set, and none while they are of two modes, unless the two have *)
(* the same mask (query_current_mode).                                     *)
THEOREM ReadBackIsTrue == Spec => []ReadBackAgrees
<1>1. TypeOK => ReadBackAgrees
  <2>1. ASSUME TypeOK, proc # 0, NEW r \in Readings[priority][affinity]
        PROVE  r.mode = IF r.same THEN priority ELSE CurrentMode
    <3>1. priority \in Modes /\ affinity \in Modes
      BY <2>1 DEF TypeOK
    <3>2. CASE r.same
      BY <2>1, <3>1, <3>2, ReadBackOf
    <3>3. CASE ~r.same
      <4>1. r.mode = None /\ priority # affinity
        BY <2>1, <3>1, <3>3, ReadBackOf
      <4> QED BY <3>3, <4>1 DEF CurrentMode
    <3> QED BY <3>2, <3>3
  <2> QED BY <2>1 DEF ReadBackAgrees
<1> QED BY <1>1, TypeCorrect, PTL

-----------------------------------------------------------------------------
(* The mode means what it says.                                            *)
LEMMA LeastExists ==
  ASSUME NEW S \in SUBSET Nat, S # {}
  PROVE  \E l \in S : \A x \in S : l <= x
<1> DEFINE Less == OpToRel(<, Nat)
<1>1. \A x, y \in Nat : <<x, y>> \in Less <=> x < y
  BY DEF OpToRel
<1>2. IsWellFoundedOn(Less, Nat)
  BY NatLessThanWellFounded
<1> HIDE DEF Less
<1>3. PICK l \in S : \A y \in S : ~(<<y, l>> \in Less)
  BY <1>2, WFMin
<1>4. ASSUME NEW x \in S PROVE l <= x
  <2>1. ~(x < l)
    BY <1>1, <1>3
  <2> QED BY <2>1
<1> QED BY <1>4

LEMMA GreatestExists ==
  ASSUME NEW S \in SUBSET Nat, S # {}, NEW bound \in Nat, \A x \in S : x <= bound
  PROVE  \E g \in S : \A x \in S : x <= g
<1> DEFINE Below == {bound - x : x \in S}
<1>1. Below \in SUBSET Nat /\ Below # {}
  <2>1. ASSUME NEW x \in S PROVE bound - x \in Nat
    OBVIOUS
  <2> QED BY <2>1
<1> HIDE DEF Below
<1>2. PICK l \in Below : \A y \in Below : l <= y
  BY <1>1, LeastExists
<1>3. PICK g \in S : l = bound - g
  BY DEF Below
<1>4. \A x \in S : bound - x \in Below
  BY DEF Below
<1>5. \A x \in S : bound - g <= bound - x
  BY <1>2, <1>3, <1>4
<1> QED
  BY <1>3, <1>5

(* Some cores are the fastest.                                             *)
LEMMA SomeFast ==
  ASSUME NEW cores \in Machines PROVE Fast(cores) # {}
<1> DEFINE c == Len(cores)
           Beats(b, i) == \A j \in b .. c : cores[j].class <= cores[i].class
           From == {b \in 1 .. c : \E i \in 1 .. c : Beats(b, i)}
<1>1. c \in Nat \ {0} /\ DOMAIN cores = 1 .. c /\ \A i \in 1 .. c : cores[i].class \in Nat
  BY MachineIs
<1> HIDE DEF c
<1>2. c \in From
  <2>1. \A j \in c .. c : j = c
    BY <1>1
  <2>2. Beats(c, c)
    BY <1>1, <2>1
  <2> QED BY <1>1, <2>2
<1>3. From \in SUBSET Nat /\ From # {}
  BY <1>1, <1>2
<1>4. PICK b \in From : \A x \in From : b <= x
  <2> HIDE DEF From
  <2> QED BY <1>3, LeastExists
<1>5. PICK i \in 1 .. c : Beats(b, i)
  OBVIOUS
<1>6. b \in 1 .. c
  OBVIOUS
<1>7. b = 1
  <2> SUFFICES ASSUME b # 1 PROVE FALSE
    OBVIOUS
  <2>1. b - 1 \in 1 .. c /\ \A j \in b - 1 .. c : j = b - 1 \/ j \in b .. c
    BY <1>1, <1>6
  <2>2. CASE cores[b - 1].class <= cores[i].class
    <3>1. Beats(b - 1, i)
      BY <1>5, <2>1, <2>2
    <3>2. b - 1 \in From
      BY <2>1, <3>1
    <3> QED BY <1>4, <1>6, <3>2
  <2>3. CASE cores[i].class <= cores[b - 1].class
    <3>1. \A j \in b .. c : cores[j].class <= cores[b - 1].class
      BY <1>1, <1>5, <1>6, <2>1, <2>3
    <3>2. Beats(b - 1, b - 1)
      BY <1>1, <2>1, <3>1
    <3>3. b - 1 \in From
      BY <2>1, <3>2
    <3> QED BY <1>4, <1>6, <3>3
  <2> QED BY <1>1, <2>1, <2>2, <2>3
<1>8. i \in Fast(cores)
  BY <1>1, <1>5, <1>7 DEF Fast
<1> QED BY <1>8

(* Equal cores that are numbered in order have consecutive processors, the *)
(* same number each: a first core that has others leaves a gap or overlaps.*)
LEMMA Blocks ==
  ASSUME NEW cores \in Machines, IsUniform(cores), IsInOrder(cores)
  PROVE  \E t \in Nat \ {0} : /\ Count(cores) = Len(cores) * t
                              /\ \A i \in 1 .. Len(cores) :
                                   cores[i].mask = (i - 1) * t .. i * t - 1
<1> DEFINE c == Len(cores)
           n == Count(cores)
           mask(i) == cores[i].mask
           t == Cardinality(mask(1))
           Block(i) == (i - 1) * t .. i * t - 1
           Others == {i \in 1 .. c : mask(i) # Block(i)}
<1>1. /\ c \in Nat \ {0} /\ DOMAIN cores = 1 .. c /\ n \in Nat \ {0}
      /\ \A i \in 1 .. c : mask(i) # {}
      /\ Processors(cores) = 0 .. n - 1
  BY MachineIs
<1>2. \A i \in 1 .. c : mask(i) \subseteq 0 .. n - 1
  BY <1>1, InSome DEF Processors
<1>3. \A q \in 0 .. n - 1 : \E i \in 1 .. c : q \in mask(i)
  BY <1>1, InSome DEF Processors
<1>4. \A i, j \in 1 .. c : i < j => \A a \in mask(i), b \in mask(j) : a < b
  BY <1>1 DEF IsInOrder
<1>5. \A i \in 1 .. c : Cardinality(mask(i)) = t
  BY <1>1 DEF IsUniform
<1>6. t \in Nat \ {0}
  <2>1. 1 \in 1 .. c /\ IsFiniteSet(0 .. n - 1)
    BY <1>1, FS_Interval
  <2>2. IsFiniteSet(mask(1)) /\ mask(1) # {}
    BY <1>1, <1>2, <2>1, FS_Subset
  <2> QED BY <2>2, FS_CardinalityType, FS_EmptySet
<1> HIDE DEF c, n, mask, t
<1>7. Others = {}
  <2> SUFFICES ASSUME Others # {} PROVE FALSE
    OBVIOUS
  <2>1. PICK i \in Others : \A j \in Others : i <= j
    <3>1. Others \in SUBSET Nat
      BY <1>1
    <3> HIDE DEF Others
    <3> QED BY <3>1, LeastExists
  <2>2. i \in 1 .. c /\ mask(i) # Block(i)
    OBVIOUS
  <2>3. \A j \in 1 .. c : j < i => mask(j) = Block(j)
    BY <2>1, <2>2
  <2> DEFINE low == (i - 1) * t
  <2>4. low \in Nat /\ i * t = low + t
    BY <1>6, <2>2
  <2>5. i # 1 => /\ i - 1 \in 1 .. c /\ low - 1 \in mask(i - 1)
                 /\ \A q \in mask(i - 1) : q < low
    <3> SUFFICES ASSUME i # 1
                 PROVE  /\ i - 1 \in 1 .. c /\ low - 1 \in mask(i - 1)
                        /\ \A q \in mask(i - 1) : q < low
      OBVIOUS
    <3>1. i - 1 \in 1 .. c /\ i - 1 < i
      BY <1>1, <2>2
    <3>2. mask(i - 1) = ((i - 1) - 1) * t .. low - 1
      BY <2>3, <3>1
    <3>3. ((i - 1) - 1) * t = low - t /\ low >= t
      <4>1. i - 2 \in Nat /\ (i - 2) * t \in Nat
        BY <1>6, <2>2
      <4>2. low = (i - 2) * t + t /\ (i - 1) - 1 = i - 2
        BY <1>6, <2>2
      <4> QED BY <1>6, <4>1, <4>2
    <3> HIDE DEF low
    <3> QED BY <1>6, <2>4, <3>1, <3>2, <3>3
  <2>6. i = 1 => low = 0
    BY <1>6
  <2> HIDE DEF low
  <2>7. \A b \in mask(i) : low <= b
    <3> SUFFICES ASSUME NEW b \in mask(i) PROVE low <= b
      OBVIOUS
    <3>1. b \in Nat
      BY <1>1, <1>2, <2>2
    <3>2. CASE i = 1
      BY <2>6, <3>1, <3>2
    <3>3. CASE i # 1
      <4>1. low - 1 < b
        BY <1>1, <1>4, <2>2, <2>5, <3>3
      <4> QED BY <2>4, <3>1, <4>1
    <3> QED BY <3>2, <3>3
  <2>8. ASSUME NEW b \in mask(i), NEW q \in low .. b PROVE q \in mask(i)
    <3>1. b \in 0 .. n - 1 /\ q \in 0 .. n - 1
      BY <1>1, <1>2, <2>2, <2>4
    <3>2. PICK j \in 1 .. c : q \in mask(j)
      BY <1>3, <3>1
    <3>3. ~(i < j)
      BY <1>4, <2>2, <3>1, <3>2
    <3>4. ~(j < i)
      <4> SUFFICES ASSUME j < i PROVE FALSE
        OBVIOUS
      <4>1. i # 1
        BY <1>1, <2>2
      <4>2. j = i - 1 \/ j < i - 1
        BY <1>1, <2>2
      <4>3. q < low
        BY <1>4, <2>4, <2>5, <3>1, <3>2, <4>1, <4>2
      <4> QED BY <2>4, <3>1, <4>3
    <3>5. i = j
      BY <1>1, <2>2, <3>3, <3>4
    <3> QED BY <3>2, <3>5
  <2>9. PICK g \in mask(i) : \A x \in mask(i) : x <= g
    <3>1. mask(i) \in SUBSET Nat /\ \A x \in mask(i) : x <= n
      BY <1>1, <1>2, <2>2
    <3> QED BY <1>1, <2>2, <3>1, GreatestExists
  <2>10. g \in Nat /\ low <= g
    BY <1>1, <1>2, <2>2, <2>7
  <2>11. mask(i) = low .. g
    <3>1. ASSUME NEW x \in mask(i) PROVE x \in low .. g
      <4>1. x \in Nat
        BY <1>1, <1>2, <2>2
      <4> QED BY <2>4, <2>7, <2>9, <2>10, <4>1
    <3> QED BY <2>8, <3>1
  <2>12. t = g - low + 1
    <3>1. Cardinality(low .. g) = g - low + 1
      BY <2>4, <2>10, FS_Interval
    <3> QED BY <1>5, <2>2, <2>11, <3>1
  <2>13. mask(i) = Block(i)
    <3>1. g = i * t - 1
      BY <1>6, <2>2, <2>4, <2>10, <2>12
    <3> QED BY <2>11, <3>1 DEF low
  <2> QED BY <2>2, <2>13
<1>8. \A i \in 1 .. c : mask(i) = (i - 1) * t .. i * t - 1
  BY <1>7
<1>9. n = c * t
  <2> DEFINE last == c * t - 1
  <2>1. c * t \in Nat /\ (c - 1) * t = c * t - t /\ (c - 1) * t \in Nat
    BY <1>1, <1>6
  <2>2. mask(c) = (c - 1) * t .. last
    BY <1>1, <1>8
  <2> HIDE DEF last
  <2>3. last = c * t - 1 /\ last \in mask(c) /\ \A q \in mask(c) : q <= last
    BY <1>6, <2>1, <2>2 DEF last
  <2>4. last \in 0 .. n - 1
    BY <1>1, <1>2, <2>3
  <2>5. PICK k \in 1 .. c : n - 1 \in mask(k)
    BY <1>1, <1>3
  <2>6. k = c
    <3> SUFFICES ASSUME k < c PROVE FALSE
      BY <1>1
    <3>1. n - 1 < last
      BY <1>1, <1>4, <2>3, <2>5
    <3> QED BY <1>1, <2>4, <3>1
  <2>7. n - 1 <= last
    BY <2>3, <2>5, <2>6
  <2> QED BY <1>1, <2>1, <2>3, <2>4, <2>7
<1> QED
  BY <1>6, <1>8, <1>9 DEF c, n, mask

(* Machines of equal cores in order: however the cores were counted, all   *)
(* are known, and all processors.                                          *)
LEMMA EqualCores ==
  ASSUME NEW cores \in Machines, NEW d \in Detections(cores), IsUniform(cores),
         Counted(d, cores)
  PROVE  /\ ~Info(d).hybrid /\ Info(d).physical = Len(cores)
         /\ Info(d).logical = Count(cores)
<1> DEFINE c == Len(cores)
           n == Count(cores)
<1>1. c \in Nat \ {0} /\ n \in Nat \ {0}
  BY MachineIs
<1>2. /\ d.ex \in {Cpu!ClassifyCores(cores), None}
      /\ d.fallback \in {n, 1} /\ d.legacy \in {c, None}
  BY Detected
<1>3. CASE d.ex = None
  <2>1. d.legacy = c /\ d.legacy # None /\ d.fallback = n
    BY <1>2, <1>3 DEF Counted
  <2> QED BY <1>3, <2>1 DEF Info, Cpu!BuildCpuInfo
<1>4. CASE d.ex # None
  <2>1. d.ex = Cpu!ClassifyCores(cores)
    BY <1>2, <1>4
  <2>2. (DOMAIN cores) \ Fast(cores) = {}
    <3>1. ASSUME NEW i \in DOMAIN cores, NEW j \in DOMAIN cores
          PROVE  cores[j].class <= cores[i].class
      <4>1. cores[j].class = cores[i].class /\ cores[i].class \in Nat
        BY MachineIs DEF IsUniform
      <4> QED BY <4>1
    <3> QED BY <3>1 DEF Fast
  <2>3. d.ex.e = {} /\ d.ex.physical = c /\ d.ex.logical = n
    <3>1. d.ex.e = Cpu!MasksOf(cores, {}) /\ d.ex.physical = c /\ d.ex.logical = n
      BY <2>1, <2>2, Classified
    <3> QED BY <3>1 DEF Cpu!MasksOf
  <2>4. (IF d.legacy = None THEN d.ex.physical ELSE d.legacy) = c
    BY <1>2, <2>3
  <2>5. Cpu!Largest(c, 1) = c /\ Cpu!Largest(n, d.fallback) = n
    <3> HIDE DEF c, n
    <3> QED BY <1>1, <1>2 DEF Cpu!Largest
  <2> DEFINE info == Cpu!BuildCpuInfo(d.ex, d.fallback, d.legacy)
  <2>6. ~info.hybrid /\ info.logical = Cpu!Largest(d.ex.logical, d.fallback)
    BY <1>4, <2>3 DEF Cpu!BuildCpuInfo
  <2>7. info.physical = Cpu!Largest(IF d.legacy = None THEN d.ex.physical ELSE d.legacy, 1)
    BY <1>4, <2>3 DEF Cpu!BuildCpuInfo
  <2> QED BY <2>3, <2>4, <2>5, <2>6, <2>7 DEF Info
<1> QED BY <1>3, <1>4

LEMMA KeptOnEqualCores ==
  ASSUME NEW cores \in Machines, NEW d \in Detections(cores), IsUniform(cores),
         IsInOrder(cores), Counted(d, cores)
  PROVE  /\ \A j \in DOMAIN cores :
              Cardinality(Cpu!CalcHighAffinity(Info(d)) \cap cores[j].mask) = 1
         /\ CoresOf(Cpu!CalcLowPowerAffinity(Info(d)), cores) = {Len(cores)}
<1> DEFINE info == Info(d)
           c == Len(cores)
           n == Count(cores)
<1>1. ~info.hybrid /\ info.physical = c /\ info.logical = n
  BY EqualCores
<1>2. /\ c \in Nat \ {0} /\ DOMAIN cores = 1 .. c
      /\ n \in Nat \ {0} /\ n <= Bits
      /\ \A i, j \in 1 .. c : i # j => cores[i].mask \cap cores[j].mask = {}
  BY MachineIs
<1>3. c <= n
  BY CountIs
<1>4. PICK t \in Nat \ {0} : /\ n = c * t
                             /\ \A i \in 1 .. c : cores[i].mask = (i - 1) * t .. i * t - 1
  BY Blocks
<1> HIDE DEF info, c, n
<1>5. n \div c = t
  BY <1>2, <1>4
<1>6. Cpu!Least(n, Bits) = n /\ Cpu!Least(c, Bits) = c /\ Cpu!Largest(c, 1) = c
  BY <1>2, <1>3, Width DEF Cpu!Least, Cpu!Largest
<1>7. \A i \in 1 .. c : cores[i].mask \subseteq 0 .. n - 1
  <2> SUFFICES ASSUME NEW i \in 1 .. c, NEW q \in cores[i].mask PROVE q \in 0 .. n - 1
    OBVIOUS
  <2>1. q \in Processors(cores)
    BY <1>2, InSome DEF Processors
  <2> QED BY <2>1, MachineIs DEF n
<1>8. ASSUME NEW j \in DOMAIN cores
      PROVE  Cardinality(Cpu!CalcHighAffinity(info) \cap cores[j].mask) = 1
  <2> DEFINE first(i) == i * t
  <2>1. \A i \in 0 .. c - 1 : /\ first(i) \in cores[i + 1].mask
                              /\ Cpu!Least(first(i), Bits - 1) = first(i)
    <3> SUFFICES ASSUME NEW i \in 0 .. c - 1
                 PROVE  /\ first(i) \in cores[i + 1].mask
                        /\ Cpu!Least(first(i), Bits - 1) = first(i)
      OBVIOUS
    <3>1. i + 1 \in 1 .. c /\ (i + 1) - 1 = i
      BY <1>2
    <3>2. first(i) \in Nat /\ (i + 1) * t = first(i) + t
      OBVIOUS
    <3>3. cores[i + 1].mask = first(i) .. (first(i) + t) - 1
      BY <1>4, <3>1, <3>2
    <3> HIDE DEF first
    <3>4. first(i) \in cores[i + 1].mask
      BY <3>2, <3>3
    <3>5. first(i) \in 0 .. n - 1
      BY <1>7, <3>1, <3>4
    <3> QED BY <1>2, <3>4, <3>5, Width DEF Cpu!Least
  <2>2. Cpu!CalcHighAffinity(info) = {first(i) : i \in 0 .. c - 1}
    <3>1. Cpu!Largest(t, 1) = t
      BY DEF Cpu!Largest
    <3>2. Cpu!CalcHighAffinity(info) = {Cpu!Least(i * t, Bits - 1) : i \in 0 .. c - 1}
      BY <1>1, <1>2, <1>5, <1>6, <3>1 DEF Cpu!CalcHighAffinity
    <3> QED BY <2>1, <3>2
  <2>3. Cpu!CalcHighAffinity(info) \cap cores[j].mask = {first(j - 1)}
    <3>1. j - 1 \in 0 .. c - 1 /\ (j - 1) + 1 = j /\ j \in 1 .. c
      BY <1>2
    <3> HIDE DEF first
    <3>2. first(j - 1) \in Cpu!CalcHighAffinity(info) \cap cores[j].mask
      BY <2>1, <2>2, <3>1
    <3>3. ASSUME NEW i \in 0 .. c - 1, first(i) \in cores[j].mask PROVE i = j - 1
      <4>1. i + 1 \in 1 .. c /\ first(i) \in cores[i + 1].mask
        BY <1>2, <2>1
      <4>2. i + 1 = j
        BY <1>2, <3>1, <3>3, <4>1
      <4> QED BY <3>1, <4>2
    <3> QED BY <2>2, <3>2, <3>3
  <2> QED BY <2>3, FS_Singleton
<1>9. CoresOf(Cpu!CalcLowPowerAffinity(info), cores) = {c}
  <2>1. c \in 1 .. c /\ c * t = n /\ (c - 1) * t = n - t /\ n - t \in Nat
    <3>1. c - 1 \in Nat /\ (c - 1) * t \in Nat /\ (c - 1) * t = c * t - t
      BY <1>2, <1>4
    <3> QED BY <1>2, <1>4, <3>1
  <2>2. cores[c].mask = n - t .. n - 1
    BY <1>4, <2>1
  <2>3. ASSUME NEW mask \in SUBSET cores[c].mask, mask # {}
        PROVE  CoresOf(mask, cores) = {c}
    BY <1>2, <2>1, <2>3 DEF CoresOf
  <2>4. CASE n < 2
    <3>1. Cpu!CalcLowPowerAffinity(info) = {0}
      BY <1>1, <1>6, <2>4 DEF Cpu!CalcLowPowerAffinity
    <3>2. 0 \in cores[c].mask
      BY <1>2, <2>1, <2>2, <2>4
    <3> QED BY <2>3, <3>1, <3>2
  <2>5. CASE n >= 2 /\ t >= 2
    <3>1. Cpu!CalcLowPowerAffinity(info) = {n - 2, n - 1}
      BY <1>1, <1>2, <1>5, <1>6, <2>5 DEF Cpu!CalcLowPowerAffinity
    <3>2. n - 2 \in cores[c].mask /\ n - 1 \in cores[c].mask
      BY <1>2, <2>1, <2>2, <2>5
    <3> QED BY <2>3, <3>1, <3>2
  <2>6. CASE n >= 2 /\ t < 2
    <3>1. Cpu!CalcLowPowerAffinity(info) = {n - 1}
      BY <1>1, <1>2, <1>5, <1>6, <2>6 DEF Cpu!CalcLowPowerAffinity
    <3>2. n - 1 \in cores[c].mask
      BY <1>2, <2>1, <2>2
    <3> QED BY <2>3, <3>1, <3>2
  <2> QED BY <1>2, <2>4, <2>5, <2>6
<1> QED BY <1>8, <1>9 DEF info, c

LEMMA KeptOnHybrids ==
  ASSUME NEW cores \in Machines, NEW d \in Detections(cores), IsHybrid(cores), d.ex # None
  PROVE  /\ Cpu!CalcHighAffinity(Info(d)) = UNION {cores[i].mask : i \in Fast(cores)}
         /\ Cpu!CalcLowPowerAffinity(Info(d)) =
              Processors(cores) \ UNION {cores[i].mask : i \in Fast(cores)}
<1> DEFINE I == DOMAIN cores
           F == Fast(cores)
           p == Cpu!MasksOf(cores, F)
           e == Cpu!MasksOf(cores, I \ F)
<1>1. F \subseteq I /\ F # {} /\ I \ F # {}
  BY SomeFast DEF Fast, IsHybrid
<1>2. \A i \in I : cores[i].mask # {}
  BY MachineIs
<1>3. p # {} /\ e # {}
  <2>1. ASSUME NEW i \in I PROVE \E q : q \in cores[i].mask
    BY <1>2
  <2>2. PICK i \in F, j \in I \ F : TRUE
    BY <1>1
  <2>3. (\E q : q \in p) /\ (\E q : q \in e)
    BY <1>1, <2>1, <2>2, InSome
  <2> QED BY <2>3
<1>4. d.ex.p = p /\ d.ex.e = e
  <2>1. d.ex = Cpu!ClassifyCores(cores)
    BY Detected
  <2> QED BY <2>1, Classified
<1>5. Info(d).hybrid /\ Info(d).p = p /\ Info(d).e = e
  <2> HIDE DEF p, e
  <2> QED BY <1>3, <1>4 DEF Info, Cpu!BuildCpuInfo
<1>6. e = Processors(cores) \ p
  <2>1. \A i, j \in I : i # j => cores[i].mask \cap cores[j].mask = {}
    BY MachineIs
  <2>2. ASSUME NEW q PROVE q \in e <=> q \in Processors(cores) \ p
    <3>1. q \in Processors(cores) <=> \E i \in I : q \in cores[i].mask
      BY InSome DEF Processors
    <3>2. q \in p <=> \E i \in F : q \in cores[i].mask
      BY InSome
    <3>3. q \in e <=> \E i \in I \ F : q \in cores[i].mask
      BY InSome
    <3> HIDE DEF I, F, p, e
    <3> QED BY <1>1, <2>1, <3>1, <3>2, <3>3
  <2> QED BY <2>2
<1>7. p = UNION {cores[i].mask : i \in F}
  BY DEF Cpu!MasksOf
<1> HIDE DEF p, e
<1> QED
  BY <1>3, <1>5, <1>6, <1>7 DEF Cpu!CalcHighAffinity, Cpu!CalcLowPowerAffinity

LEMMA AllKept ==
  ASSUME NEW m \in Modes PROVE Kept[m]
<1> SUFFICES ASSUME NEW cores \in Machines, NEW d \in Detections(cores),
                    IF IsHybrid(cores) THEN d.ex # None
                    ELSE IsUniform(cores) /\ IsInOrder(cores) /\ Counted(d, cores)
             PROVE  AsPromised(m, Cpu!Mask(m, Info(d)), cores)
  BY DEF Kept
<1>1. m = High => Cpu!Mask(m, Info(d)) = Cpu!CalcHighAffinity(Info(d))
  BY Named DEF Cpu!Mask
<1>2. m = LowPower => Cpu!Mask(m, Info(d)) = Cpu!CalcLowPowerAffinity(Info(d))
  BY Named DEF Cpu!Mask
<1>3. CASE IsHybrid(cores)
  BY <1>1, <1>2, <1>3, KeptOnHybrids DEF AsPromised
<1>4. CASE ~IsHybrid(cores)
  BY <1>1, <1>2, <1>4, KeptOnEqualCores DEF AsPromised
<1> QED BY <1>3, <1>4

(* A game in a mode runs on the cores the mode promises: on P- and E-cores *)
(* that were told apart high performance is the P-cores and low power the  *)
(* rest, on equal cores in order one thread of each, and the last core     *)
(* (classify_cores, build_cpu_info_from_detection, calc_high_affinity,     *)
(* calc_low_power_affinity).                                               *)
THEOREM ModesKeepTheirPromise == Spec => []CoresAsPromised
<1>1. TypeOK => CoresAsPromised
  BY AllKept DEF TypeOK, CoresAsPromised
<1> QED BY <1>1, TypeCorrect, PTL
=============================================================================
