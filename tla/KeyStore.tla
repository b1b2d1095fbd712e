------------------------------ MODULE KeyStore ------------------------------
(***************************************************************************)
(* What the SSH keypair bootstrap promises its callers, without the API    *)
(* server's requests, key generation or encoding: one write-once store of  *)
(* the control plane's key.  The store is either Absent, a key, or a value *)
(* that is not a key (a corrupt secret); only an absent store is ever      *)
(* written, and a caller is only ever handed the stored key.               *)
(*                                                                         *)
(* holds[c] is the key caller c has been handed and still uses, or NoKey.  *)
(***************************************************************************)
EXTENDS TLAPS

CONSTANTS
    Callers,   \* controller processes
    Keys,      \* the keys that may be stored
    NoKey,     \* no key
    Absent,    \* nothing stored
    Values     \* every value the store may hold, Absent and corrupt ones too

VARIABLES store, holds

kvars == <<store, holds>>

TypeOK ==
    /\ store \in Values
    /\ holds \in [Callers -> Keys \cup {NoKey}]

Init ==
    /\ store \in Values
    /\ holds = [c \in Callers |-> NoKey]

\* A key is written to an absent store, and nobody is handed it yet.
Store ==
    /\ store = Absent
    /\ \E k \in Keys : store' = k
    /\ UNCHANGED holds

\* Caller c writes a key to an absent store and is handed it.
StoreAndHand(c) ==
    /\ store = Absent
    /\ \E k \in Keys : store' = k /\ holds' = [holds EXCEPT ![c] = k]

\* Caller c is handed the stored key.
Hand(c) ==
    /\ store \in Keys
    /\ holds' = [holds EXCEPT ![c] = store]
    /\ UNCHANGED store

\* Caller c stops using its key (the process restarts).
Drop(c) ==
    /\ holds' = [holds EXCEPT ![c] = NoKey]
    /\ UNCHANGED store

Next == Store \/ \E c \in Callers : StoreAndHand(c) \/ Hand(c) \/ Drop(c)

Spec == Init /\ [][Next]_kvars

-----------------------------------------------------------------------------
(***************************************************************************)
(* The singleton promise: every key a caller holds is the stored one.      *)
(***************************************************************************)
HoldsStored == \A c \in Callers : holds[c] # NoKey => holds[c] = store

(***************************************************************************)
(* For any callers and keys, in every behaviour of the store, every caller *)
(* that holds a key holds the stored key.                                  *)
(***************************************************************************)
THEOREM StoreSafety ==
    ASSUME Keys \subseteq Values, Absent \in Values,
           Absent \notin Keys \cup {NoKey}, NoKey \notin Keys
    PROVE  Spec => []HoldsStored
<1> DEFINE Inv == TypeOK /\ HoldsStored
<1>1. Init => Inv
  BY DEF Init, TypeOK, HoldsStored
<1>2. Inv /\ [Next]_kvars => Inv'
  <2> SUFFICES ASSUME Inv, [Next]_kvars PROVE Inv'
    OBVIOUS
  <2> USE DEF TypeOK, HoldsStored
  <2>1. CASE Store
    \* Nobody holds a key while the store is absent.
    <3>1. \A c \in Callers : holds[c] = NoKey
      BY <2>1 DEF Store
    <3>2. QED
      BY <2>1, <3>1 DEF Store
  <2>2. ASSUME NEW c \in Callers, StoreAndHand(c) PROVE Inv'
    <3>1. \A d \in Callers : holds[d] = NoKey
      BY <2>2 DEF StoreAndHand
    <3>2. QED
      BY <2>2, <3>1 DEF StoreAndHand
  <2>3. ASSUME NEW c \in Callers, Hand(c) PROVE Inv'
    BY <2>3 DEF Hand
  <2>4. ASSUME NEW c \in Callers, Drop(c) PROVE Inv'
    BY <2>4 DEF Drop
  <2>5. CASE UNCHANGED kvars
    BY <2>5 DEF kvars
  <2>6. QED
    BY <2>1, <2>2, <2>3, <2>4, <2>5 DEF Next
<1>3. QED
  BY <1>1, <1>2, PTL DEF Spec

=============================================================================
