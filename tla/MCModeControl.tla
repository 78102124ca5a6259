--------------------------- MODULE MCModeControl ---------------------------
(* Small instances of ModeControl for TLC.                                 *)
EXTENDS ModeOnCpu

Setting(autos, defaults) == {[auto |-> a, user |-> None, default |-> d] :
                              a \in autos, d \in defaults}

(* The user turns automatic low power on and off and picks a default mode. *)
MCChoices == Setting(BOOLEAN, {None, High})

(* Automatic low power stays on, no default mode.                          *)
MCAutoOnly == Setting({TRUE}, {None})

(* Either that, or a default mode and no automatic low power.              *)
MCAutoOrDefault == MCAutoOnly \cup Setting({FALSE}, {LowPower})

(* The user turns automatic low power on and off; no default mode.         *)
MCAutoToggled == Setting(BOOLEAN, {None})

MCBothReset == {{"priority", "affinity"}}

MCAnyReset == (SUBSET {"priority", "affinity"}) \ {{}}

(* Machines of up to four cores of two speeds, of one or two threads each, *)
(* whose processors are numbered core by core, or the first threads of all *)
(* cores before the second ones.                                           *)
MCMachines ==
  LET Kinds == [class : {0, 1}, threads : {1, 2}]
      Up(kinds, i, t) == Cardinality({x \in (1 .. i) \X {1, 2} :
                                       kinds[x[1]].threads >= x[2] /\ x[2] <= t})
      InOrder(kinds, i) == Up(kinds, i - 1, 2) .. Up(kinds, i, 2) - 1
      Spread(kinds, i) ==
        {i - 1} \cup IF kinds[i].threads = 1 THEN {}
                     ELSE {Len(kinds) + Up(kinds, i - 1, 2) - (i - 1)}
      Cores(kinds, Masks(_, _)) ==
        [i \in DOMAIN kinds |-> [class |-> kinds[i].class, mask |-> Masks(kinds, i)]]
  IN  UNION {{Cores(kinds, InOrder), Cores(kinds, Spread)} :
               kinds \in UNION {[1 .. c -> Kinds] : c \in 1 .. 4}}
=============================================================================
