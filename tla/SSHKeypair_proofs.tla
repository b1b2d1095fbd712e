-------------------------- MODULE SSHKeypair_proofs --------------------------
(***************************************************************************)
(* Proofs about SSHKeypair for every set of callers and keys.              *)
(***************************************************************************)
EXTENDS SSHKeypair, TLAPS

(***************************************************************************)
(* keyFromSecret returns an Outcome for every stored value, and returns    *)
(* "ok" only with the stored key itself.                                   *)
(***************************************************************************)
LEMMA KeyFromSecretType ==
    ASSUME NEW s \in SecretValues \ {Absent}
    PROVE  /\ keyFromSecret(s) \in Outcome
           /\ keyFromSecret(s).kind = "ok" => keyFromSecret(s).key = s
  BY KeysAssumption DEF keyFromSecret, SecretValues, Corrupt, Outcome, Kinds, Ret

(***************************************************************************)
(* Type correctness: the inductive step, one case per action.              *)
(***************************************************************************)
LEMMA TypeStep == TypeOK /\ [Next]_vars => TypeOK'
<1> SUFFICES ASSUME TypeOK, [Next]_vars PROVE TypeOK'
  OBVIOUS
<1>1. ASSUME NEW c \in Callers, Get(c) PROVE TypeOK'
  <2>1. FreshKeys \subseteq Keys
    BY DEF FreshKeys
  <2>2. CASE secret # Absent
    BY <1>1, <2>1, KeyFromSecretType, KeysAssumption
       DEF Get, TypeOK, Outcome, Kinds, Ret
  <2>3. CASE secret = Absent
    BY <1>1, <2>1, <2>3, KeysAssumption
       DEF Get, TypeOK, Outcome, Kinds, Ret
  <2>4. QED
    BY <2>2, <2>3
<1>2. ASSUME NEW c \in Callers, CreateSecret(c) PROVE TypeOK'
  BY <1>2, KeysAssumption
     DEF CreateSecret, TypeOK, SecretValues, Outcome, Kinds, Ret
<1>3. ASSUME NEW c \in Callers, Restart(c) PROVE TypeOK'
  BY <1>3, KeysAssumption DEF Restart, TypeOK, NoResult, Outcome, Kinds, Ret
<1>4. CASE UNCHANGED vars
  BY <1>4 DEF vars, TypeOK
<1>5. QED
  BY <1>1, <1>2, <1>3, <1>4 DEF Next

(***************************************************************************)
(* Every state of every behaviour is well typed.                           *)
(***************************************************************************)
THEOREM TypeCorrect == Spec => []TypeOK
<1>1. Init => TypeOK
  BY KeysAssumption DEF Init, TypeOK, NoResult, Ret, Outcome, Kinds
<1>2. QED
  BY <1>1, TypeStep, PTL DEF Spec

-----------------------------------------------------------------------------
(***************************************************************************)
(* The inductive invariant behind KeyAgreement: TypeOK is needed to know   *)
(* that a returned key is never Absent, so that no caller holds an "ok"    *)
(* result while the secret is still absent and about to be written.        *)
(***************************************************************************)
IInv == TypeOK /\ KeyAgreement

LEMMA AgreementStep == IInv /\ [Next]_vars => KeyAgreement'
<1> SUFFICES ASSUME IInv, [Next]_vars, TypeOK' PROVE KeyAgreement'
  BY TypeStep DEF IInv
<1> USE DEF IInv
<1>1. ASSUME NEW c \in Callers, Get(c) PROVE KeyAgreement'
  <2>1. CASE secret # Absent
    BY <1>1, <2>1, KeyFromSecretType
       DEF Get, KeyAgreement, TypeOK, SecretValues, Ret
  <2>2. CASE secret = Absent
    BY <1>1, <2>2 DEF Get, KeyAgreement, TypeOK, Ret
  <2>3. QED
    BY <2>1, <2>2
<1>2. ASSUME NEW c \in Callers, CreateSecret(c) PROVE KeyAgreement'
  <2>1. CASE secret = Absent
    \* No caller holds an "ok" result yet: its key would be Absent.
    <3>1. \A d \in Callers : result[d].kind # "ok"
      BY <2>1, KeysAssumption DEF KeyAgreement, TypeOK, Outcome
    <3>2. QED
      BY <1>2, <2>1, <3>1 DEF CreateSecret, KeyAgreement, TypeOK, Ret
  <2>2. CASE secret # Absent
    BY <1>2, <2>2 DEF CreateSecret, KeyAgreement, TypeOK, Ret
  <2>3. QED
    BY <2>1, <2>2
<1>3. ASSUME NEW c \in Callers, Restart(c) PROVE KeyAgreement'
  BY <1>3 DEF Restart, KeyAgreement, TypeOK, NoResult, Ret
<1>4. CASE UNCHANGED vars
  BY <1>4 DEF vars, KeyAgreement
<1>5. QED
  BY <1>1, <1>2, <1>3, <1>4 DEF Next

(***************************************************************************)
(* Keypair singleton: in every behaviour, every caller that received a     *)
(* key from EnsureSSHKeypairSecret holds the key stored in the secret.     *)
(***************************************************************************)
THEOREM KeypairSingleton == Spec => []KeyAgreement
<1>1. Init => IInv
  BY KeysAssumption DEF Init, IInv, TypeOK, KeyAgreement, NoResult, Ret,
                        Outcome, Kinds
<1>2. IInv /\ [Next]_vars => IInv'
  BY TypeStep, AgreementStep DEF IInv
<1>3. IInv => KeyAgreement
  BY DEF IInv
<1>4. QED
  BY <1>1, <1>2, <1>3, PTL DEF Spec

-----------------------------------------------------------------------------
(***************************************************************************)
(* The refinement of KeyStore.  A call in flight has not returned yet:     *)
(* Restart and Init clear the result, and only the end of a call sets it.  *)
(* Without this, a Get that fails would look like a caller dropping a key  *)
(* it was never handed, and a Create like one handed a second key.         *)
(***************************************************************************)
Pending == \A c \in Callers : pc[c] \in {"get", "create"} => result[c] = NoResult

RInv == TypeOK /\ Pending

LEMMA PendingStep == RInv /\ [Next]_vars => Pending'
<1> SUFFICES ASSUME RInv, [Next]_vars PROVE Pending'
  OBVIOUS
<1> USE DEF RInv, Pending
<1>1. ASSUME NEW c \in Callers, Get(c) PROVE Pending'
  BY <1>1 DEF Get, TypeOK
<1>2. ASSUME NEW c \in Callers, CreateSecret(c) PROVE Pending'
  BY <1>2 DEF CreateSecret, TypeOK
<1>3. ASSUME NEW c \in Callers, Restart(c) PROVE Pending'
  BY <1>3 DEF Restart, TypeOK
<1>4. CASE UNCHANGED vars
  BY <1>4 DEF vars
<1>5. QED
  BY <1>1, <1>2, <1>3, <1>4 DEF Next

LEMMA RInvHolds == Spec => []RInv
<1>1. Init => RInv
  BY KeysAssumption DEF Init, RInv, Pending, TypeOK, NoResult, Ret, Outcome, Kinds
<1>2. RInv /\ [Next]_vars => RInv'
  BY TypeStep, PendingStep DEF RInv
<1>3. QED
  BY <1>1, <1>2, PTL DEF Spec

(***************************************************************************)
(* keyFromSecret returns "ok" only for a stored key, and with that key.    *)
(***************************************************************************)
LEMMA KeyFromSecretOk ==
    ASSUME NEW s \in SecretValues \ {Absent}, keyFromSecret(s).kind = "ok"
    PROVE  s \in Keys /\ keyFromSecret(s).key = s
  BY DEF keyFromSecret, SecretValues, Corrupt, Ret

(***************************************************************************)
(* How a call's return changes what the callers hold.                      *)
(***************************************************************************)
LEMMA HeldUpdate ==
    ASSUME TypeOK, NEW c \in Callers, NEW r, result' = [result EXCEPT ![c] = r]
    PROVE  heldKey' = [heldKey EXCEPT ![c] = IF r.kind = "ok" THEN r.key ELSE NoKey]
  BY DEF heldKey, TypeOK

\* A call that returns without a key, from a call in flight, changes nobody's key.
LEMMA HeldKeep ==
    ASSUME TypeOK, NEW c \in Callers, result[c] = NoResult, NEW r, r.kind # "ok",
           result' = [result EXCEPT ![c] = r]
    PROVE  heldKey' = heldKey
  BY DEF heldKey, TypeOK, NoResult, Ret

LEMMA RefineStep == RInv /\ [Next]_vars => [KS!Next]_KS!kvars
<1> SUFFICES ASSUME RInv, [Next]_vars PROVE [KS!Next]_KS!kvars
  OBVIOUS
<1> USE DEF RInv
<1>0. TypeOK
  OBVIOUS
<1>1. ASSUME NEW c \in Callers, Get(c) PROVE [KS!Next]_KS!kvars
  <2>1. result[c] = NoResult
    BY <1>1 DEF Get, Pending
  <2>2. CASE result' = [result EXCEPT ![c] = Ret("transport", NoKey)]
    BY <1>1, <2>1, <2>2, HeldKeep DEF Get, Ret, KS!kvars
  <2>3. CASE secret = Absent /\ result' = [result EXCEPT ![c] = Ret("keygen", NoKey)]
    BY <1>1, <2>1, <2>3, HeldKeep DEF Get, Ret, KS!kvars
  <2>4. CASE secret = Absent /\ UNCHANGED result
    BY <1>1, <2>4 DEF Get, heldKey, KS!kvars
  <2>5. CASE secret # Absent /\ result' = [result EXCEPT ![c] = keyFromSecret(secret)]
    <3>1. secret \in SecretValues \ {Absent}
      BY <2>5 DEF TypeOK
    <3>2. CASE keyFromSecret(secret).kind = "ok"
      <4>1. secret \in Keys /\ heldKey' = [heldKey EXCEPT ![c] = secret]
        BY <2>5, <3>1, <3>2, KeyFromSecretOk, HeldUpdate
      <4>2. KS!Hand(c)
        BY <1>1, <4>1 DEF Get, KS!Hand
      <4>3. QED
        BY <4>2 DEF KS!Next
    <3>3. CASE keyFromSecret(secret).kind # "ok"
      BY <1>1, <2>1, <2>5, <3>3, HeldKeep DEF Get, KS!kvars
    <3>4. QED
      BY <3>2, <3>3
  <2>6. QED
    BY <1>1, <2>2, <2>3, <2>4, <2>5 DEF Get
<1>2. ASSUME NEW c \in Callers, CreateSecret(c) PROVE [KS!Next]_KS!kvars
  <2>1. result[c] = NoResult /\ gen[c] \in Keys
    BY <1>2 DEF CreateSecret, Pending, TypeOK
  <2>2. CASE secret = Absent /\ secret' = gen[c]
             /\ result' = [result EXCEPT ![c] = Ret("ok", gen[c])]
    <3>1. heldKey' = [heldKey EXCEPT ![c] = gen[c]]
      <4>1. heldKey' = [heldKey EXCEPT ![c] = IF Ret("ok", gen[c]).kind = "ok"
                                              THEN Ret("ok", gen[c]).key ELSE NoKey]
        BY <1>0, <2>2, HeldUpdate
      <4>2. QED
        BY <4>1 DEF Ret
    <3>2. KS!StoreAndHand(c)
      BY <2>1, <2>2, <3>1 DEF KS!StoreAndHand
    <3>3. QED
      BY <3>2 DEF KS!Next
  <2>3. CASE secret # Absent /\ UNCHANGED secret
             /\ result' = [result EXCEPT ![c] = Ret("conflict", NoKey)]
    BY <2>1, <2>3, HeldKeep DEF Ret, KS!kvars
  <2>4. CASE secret' \in {secret, IF secret = Absent THEN gen[c] ELSE secret}
             /\ result' = [result EXCEPT ![c] = Ret("transport", NoKey)]
    <3>1. heldKey' = heldKey
      BY <2>1, <2>4, HeldKeep DEF Ret
    <3>2. CASE secret' = secret
      BY <3>1, <3>2 DEF KS!kvars
    <3>3. CASE secret' # secret
      <4>1. secret = Absent /\ secret' = gen[c]
        BY <2>4, <3>3
      <4>2. KS!Store
        BY <2>1, <3>1, <4>1 DEF KS!Store
      <4>3. QED
        BY <4>2 DEF KS!Next
    <3>4. QED
      BY <3>2, <3>3
  <2>5. QED
    BY <1>2, <2>2, <2>3, <2>4 DEF CreateSecret
<1>3. ASSUME NEW c \in Callers, Restart(c) PROVE [KS!Next]_KS!kvars
  <2>1. heldKey' = [heldKey EXCEPT ![c] = NoKey]
    <3>1. heldKey' = [heldKey EXCEPT ![c] = IF NoResult.kind = "ok"
                                            THEN NoResult.key ELSE NoKey]
      BY <1>0, <1>3, HeldUpdate DEF Restart
    <3>2. QED
      BY <3>1 DEF NoResult, Ret
  <2>2. KS!Drop(c)
    BY <1>3, <2>1 DEF Restart, KS!Drop
  <2>3. QED
    BY <2>2 DEF KS!Next
<1>4. CASE UNCHANGED vars
  BY <1>4 DEF vars, heldKey, KS!kvars
<1>5. QED
  BY <1>1, <1>2, <1>3, <1>4 DEF Next

(***************************************************************************)
(* For any callers and keys, the bootstrap implements the write-once key   *)
(* store: the secret is written only while absent, and every call returns  *)
(* the stored key or no key.                                               *)
(***************************************************************************)
THEOREM Refinement == Spec => KeyStoreSpec
<1>1. Init => KS!Init
  BY KeysAssumption DEF Init, KS!Init, heldKey, NoResult, Ret
<1>2. QED
  BY <1>1, RInvHolds, RefineStep, PTL DEF Spec, KeyStoreSpec, KS!Spec

=============================================================================
