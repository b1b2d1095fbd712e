----------------------------- MODULE SSHKeypair -----------------------------
(***************************************************************************)
(* EnsureSSHKeypairSecret and keyFromSecret of src/pkg/ssh/configmap.go.   *)
(*                                                                         *)
(* Several controller processes (Callers) start at the same time and each  *)
(* calls EnsureSSHKeypairSecret once per start.  The only shared state is  *)
(* the Kubernetes secret "machine-controller-ssh-key" in kube-system,      *)
(* modelled by the variable secret: either Absent, or the data stored      *)
(* under the key "id_rsa".  A stored value is either a valid PEM-encoded   *)
(* PKCS#1 private key (a member of Keys) or one of three corrupt forms:    *)
(*   "no_index" : the secret exists but has no "id_rsa" entry,             *)
(*   "not_pem"  : the entry holds bytes that pem.Decode rejects,           *)
(*   "bad_der"  : a PEM block whose body x509 cannot parse.                *)
(* The API server is reached over the network, so every call may fail     *)
(* with a transport error, and a Create that fails that way may or may    *)
(* not have been applied.                                                  *)
(***************************************************************************)
EXTENDS Naturals, FiniteSets

CONSTANTS
    Callers,        \* controller processes calling EnsureSSHKeypairSecret
    Keys,           \* RSA private keys NewPrivateKey can produce
    NoKey,          \* the nil *rsa.PrivateKey
    Absent,         \* the secret does not exist (IsNotFound)
    InitialSecrets  \* what the store may hold when the callers start

Corrupt == {"no_index", "not_pem", "bad_der"}

SecretValues == {Absent} \cup Corrupt \cup Keys

ASSUME KeysAssumption ==
    /\ NoKey \notin Keys
    /\ Absent \notin Keys \cup Corrupt \cup {NoKey}
    /\ InitialSecrets \subseteq SecretValues
    /\ IsFiniteSet(Callers)
    /\ IsFiniteSet(Keys)
    /\ Cardinality(Keys) > Cardinality(Callers)

(***************************************************************************)
(* What a call returns: the key, or an error of one kind.  "panic" is the  *)
(* nil-pointer dereference that ends the process.                          *)
(***************************************************************************)
Kinds == {"none", "ok", "transport", "keygen", "conflict", "corrupt", "panic"}

Outcome == [kind : Kinds, key : Keys \cup {NoKey}]

Ret(kind, key) == [kind |-> kind, key |-> key]

NoResult == Ret("none", NoKey)

VARIABLES
    secret,  \* secret.Data["id_rsa"] in kube-system, or Absent
    pc,      \* where each caller is: "get", "create" or "done"
    gen,     \* the key a caller generated and is about to store
    result   \* what each caller's last call returned

vars == <<secret, pc, gen, result>>

TypeOK ==
    /\ secret \in SecretValues
    /\ pc \in [Callers -> {"get", "create", "done"}]
    /\ gen \in [Callers -> Keys \cup {NoKey}]
    /\ result \in [Callers -> Outcome]
    /\ \A c \in Callers : pc[c] = "create" => gen[c] \in Keys

Init ==
    /\ secret \in InitialSecrets
    /\ pc = [c \in Callers |-> "get"]
    /\ gen = [c \in Callers |-> NoKey]
    /\ result = [c \in Callers |-> NoResult]

(***************************************************************************)
(* keyFromSecret: the "id_rsa" entry missing is an error; pem.Decode       *)
(* returns a nil block for bytes that are not PEM, and decoded.Bytes then  *)
(* dereferences nil; a PEM block x509 cannot parse is an error.            *)
(***************************************************************************)
keyFromSecret(s) ==
    CASE s \in Keys      -> Ret("ok", s)
      [] s = "no_index"  -> Ret("corrupt", NoKey)
      [] s = "not_pem"   -> Ret("panic", NoKey)
      [] s = "bad_der"   -> Ret("corrupt", NoKey)

(***************************************************************************)
(* A freshly generated RSA key differs from every key in use.              *)
(***************************************************************************)
FreshKeys ==
    Keys \ ({secret} \cup {gen[c] : c \in Callers} \cup {result[c].key : c \in Callers})

(***************************************************************************)
(* Mutant of Get: the NotFound path goes on to the Create without a key.   *)
(***************************************************************************)
Get_nokey(c) ==
    /\ pc[c] = "get"
    /\ \/ /\ result' = [result EXCEPT ![c] = Ret("transport", NoKey)]
          /\ pc' = [pc EXCEPT ![c] = "done"]
       \/ /\ secret = Absent
          /\ pc' = [pc EXCEPT ![c] = "create"]
          /\ UNCHANGED result
       \/ /\ secret # Absent
          /\ result' = [result EXCEPT ![c] = keyFromSecret(secret)]
          /\ pc' = [pc EXCEPT ![c] = "done"]
    /\ UNCHANGED <<secret, gen>>

(***************************************************************************)
(* The Get of the secret and what follows it up to the Create: a transport *)
(* error is returned; NotFound generates a key (NewPrivateKey may fail);   *)
(* an existing secret is decoded by keyFromSecret.                         *)
(***************************************************************************)
Get(c) ==
    /\ pc[c] = "get"
    /\ \/ /\ result' = [result EXCEPT ![c] = Ret("transport", NoKey)]
          /\ pc' = [pc EXCEPT ![c] = "done"]
          /\ UNCHANGED gen
       \/ /\ secret = Absent
          /\ result' = [result EXCEPT ![c] = Ret("keygen", NoKey)]
          /\ pc' = [pc EXCEPT ![c] = "done"]
          /\ UNCHANGED gen
       \/ /\ secret = Absent
          /\ \E k \in FreshKeys : gen' = [gen EXCEPT ![c] = k]
          /\ pc' = [pc EXCEPT ![c] = "create"]
          /\ UNCHANGED result
       \/ /\ secret # Absent
          /\ result' = [result EXCEPT ![c] = keyFromSecret(secret)]
          /\ pc' = [pc EXCEPT ![c] = "done"]
          /\ UNCHANGED gen
    /\ UNCHANGED secret

(***************************************************************************)
(* Mutant of CreateSecret: an Update that overwrites an existing secret.  *)
(***************************************************************************)
CreateSecret_overwrite(c) ==
    /\ pc[c] = "create"
    /\ secret' = gen[c]
    /\ result' = [result EXCEPT ![c] = Ret("ok", gen[c])]
    /\ pc' = [pc EXCEPT ![c] = "done"]
    /\ gen' = [gen EXCEPT ![c] = NoKey]

(***************************************************************************)
(* Secrets(...).Create(&secret): the API server refuses it with            *)
(* AlreadyExists when the secret exists, and the error is returned as it   *)
(* is.  A transport error may hide a write that was applied.  On success   *)
(* the generated key is returned.                                          *)
(***************************************************************************)
CreateSecret(c) ==
    /\ pc[c] = "create"
    /\ \/ /\ secret = Absent
          /\ secret' = gen[c]
          /\ result' = [result EXCEPT ![c] = Ret("ok", gen[c])]
       \/ /\ secret # Absent
          /\ result' = [result EXCEPT ![c] = Ret("conflict", NoKey)]
          /\ UNCHANGED secret
       \/ /\ secret' \in {secret, IF secret = Absent THEN gen[c] ELSE secret}
          /\ result' = [result EXCEPT ![c] = Ret("transport", NoKey)]
    /\ pc' = [pc EXCEPT ![c] = "done"]
    /\ gen' = [gen EXCEPT ![c] = NoKey]

(***************************************************************************)
(* The process is restarted and calls EnsureSSHKeypairSecret again.        *)
(***************************************************************************)
Restart(c) ==
    /\ pc[c] = "done"
    /\ pc' = [pc EXCEPT ![c] = "get"]
    /\ result' = [result EXCEPT ![c] = NoResult]
    /\ UNCHANGED <<secret, gen>>

Next == \E c \in Callers : Get(c) \/ CreateSecret(c) \/ Restart(c)

Spec == Init /\ [][Next]_vars

(***************************************************************************)
(* The refinement mapping to KeyStore: the store is the secret, and a      *)
(* caller holds the key its last call returned with success.               *)
(***************************************************************************)
heldKey == [c \in Callers |-> IF result[c].kind = "ok" THEN result[c].key ELSE NoKey]

KS == INSTANCE KeyStore WITH Values <- SecretValues, store <- secret, holds <- heldKey

-----------------------------------------------------------------------------
(***************************************************************************)
(* The bootstrap implements a write-once key store: the secret is written  *)
(* only while absent, by one Create, and a call returns only the stored    *)
(* key, whatever the races between first creators, lost responses and     *)
(* restarts.                                                               *)
(***************************************************************************)
KeyStoreSpec == KS!Spec

(***************************************************************************)
(* Keypair singleton: every caller that EnsureSSHKeypairSecret returned a  *)
(* key to holds the key stored in the secret, however the Get/Create of    *)
(* concurrent first creators and lost responses interleave.                *)
(***************************************************************************)
KeyAgreement ==
    \A c \in Callers : result[c].kind = "ok" => result[c].key = secret

(***************************************************************************)
(* Spec section 4.2 step 4: a caller that loses the race to create the     *)
(* secret re-reads it and uses the winner's key instead of failing.  The   *)
(* code returns the AlreadyExists error.                                   *)
(***************************************************************************)
ConflictResolved == \A c \in Callers : result[c].kind # "conflict"

(***************************************************************************)
(* Spec section 4.2 step 3: a stored value that is not a valid encoded key *)
(* is reported as an error (KeypairCorruptError).  keyFromSecret           *)
(* dereferences the nil block pem.Decode returns for non-PEM bytes.        *)
(***************************************************************************)
CorruptIsError == \A c \in Callers : result[c].kind # "panic"

=============================================================================
