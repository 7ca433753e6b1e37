------------------------------ MODULE RigConfigMC ------------------------------
(***************************************************************************)
(* The configs imported when RigConfig is checked: an empty one and one    *)
(* that has everything, each as it is and with one of its fields changed   *)
(* at will.                                                                *)
(***************************************************************************)
EXTENDS RigConfig

CONSTANTS
  r1,  \* a rig besides "default"
  a1   \* an address

ASSUME NamedAssumption == r1 \in Rigs /\ a1 \in Addresses

FullConfig ==
  [wallet |-> a1, worker |-> <<>>, pool |-> TRUE,
   enabled |-> TRUE, subaddress |-> a1, rigs |-> [r \in {r1} |-> a1]]

Nearby(c) ==
  {c} \cup {[c EXCEPT !.wallet = a] : a \in Entered}
      \cup {[c EXCEPT !.pool = FALSE], [c EXCEPT !.enabled = ~@]}
      \cup {[c EXCEPT !.subaddress = a] : a \in Entered}
      \cup {[c EXCEPT !.rigs = rigs] : rigs \in RigMaps}

MCImported == Nearby(DefaultConfig) \cup Nearby(FullConfig)

=============================================================================
