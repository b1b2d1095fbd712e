--------------------------- MODULE Validate_proofs ---------------------------
(***************************************************************************)
(* Proofs about Validate, for every set of machines, regions and sizes and *)
(* every configuration of the machines.                                    *)
(***************************************************************************)
EXTENDS Validate, TLAPS

LEMMA InitType == Init => TypeOK
  BY DEF Init, TypeOK, Outcomes

LEMMA StepType == TypeOK /\ [Next]_vars => TypeOK'
<1> SUFFICES ASSUME TypeOK, [Next]_vars PROVE TypeOK'
  OBVIOUS
<1> USE DEF TypeOK, Outcomes
<1>1. ASSUME NEW m \in Machines, Call(m) PROVE TypeOK'
  BY <1>1 DEF Call
<1>2. ASSUME NEW m \in Machines, ValidateRegions(m) PROVE TypeOK'
  BY <1>2 DEF ValidateRegions, Return
<1>3. ASSUME NEW m \in Machines, ValidateSizes(m) PROVE TypeOK'
  BY <1>3 DEF ValidateSizes, Return
<1>4. CASE CatalogueChange
  BY <1>4 DEF CatalogueChange
<1>5. CASE UNCHANGED vars
  BY <1>5 DEF vars
<1>6. QED
  BY <1>1, <1>2, <1>3, <1>4, <1>5 DEF Next

(***************************************************************************)
(* Every reachable state of Validate is well typed: the catalogue stays    *)
(* consistent and every call is at one of its two request steps or idle.   *)
(***************************************************************************)
THEOREM TypeCorrect == Spec => []TypeOK
  BY InitType, StepType, PTL DEF Spec

=============================================================================
