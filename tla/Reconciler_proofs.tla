-------------------------- MODULE Reconciler_proofs --------------------------
(***************************************************************************)
(* Proofs about the provider driven by the reconciler, for every set of    *)
(* machines, naming, quota and poll bound.  Every step of the reconciler   *)
(* is a step of the provider (a Reconcile pass is one of the calls the     *)
(* provider accepts) or leaves the provider alone (a Machine deletion), so *)
(* the provider's invariants and its refinement of DropletAccount carry    *)
(* over to the composition, without its fairness.                         *)
(***************************************************************************)
EXTENDS Reconciler, DigitalOcean_proofs

\* The call a reconcile pass makes is one the provider accepts.
LEMMA NextCallType == \A m \in Machines : NextCall(m) \in {"keys_get", "get", "del_get"}
  BY DEF NextCall

\* Each step of the composition is a step of the provider or leaves it alone.
LEMMA ProviderView == [RNext]_rvars => [Next]_vars
<1> SUFFICES ASSUME [RNext]_rvars PROVE [Next]_vars
  OBVIOUS
<1>1. ASSUME NEW m \in Machines, Reconcile(m) PROVE Call(m)
  BY <1>1, NextCallType DEF Reconcile, Call
<1>2. ASSUME NEW m \in Machines, RequestDelete(m) PROVE UNCHANGED vars
  BY <1>2 DEF RequestDelete
<1>3. CASE ProviderStep
  BY <1>3 DEF ProviderStep, Next
<1>4. CASE UNCHANGED rvars
  BY <1>4 DEF rvars
<1>5. QED
  BY <1>1, <1>2, <1>3, <1>4 DEF RNext, Next

\* The provider's inductive invariant holds in every state of the composition.
LEMMA RInvComposed == RSpec => []RInv
<1>1. RInit => RInv
  BY TypeInit DEF RInit, Init, RInv, InFlight, NoResult
<1>2. RInv /\ [RNext]_rvars => RInv'
  BY ProviderView, TypeStep, InFlightStep DEF RInv
<1>3. QED
  BY <1>1, <1>2, PTL DEF RSpec

(***************************************************************************)
(* Driven by the reconciler, whatever the order of reconcile passes,       *)
(* Machine deletions, polls, restarts and outside deletes, the provider    *)
(* still implements DropletAccount.                                        *)
(***************************************************************************)
THEOREM ComposedRefinement == RSpec => AccountSpec
<1>1. RInit => Account!Init
  BY AccountInit DEF RInit
<1>2. RInv /\ [RNext]_rvars => [Account!Next]_Account!avars
  BY ProviderView, RefineStep
<1>3. QED
  BY <1>1, <1>2, RInvComposed, PTL DEF RSpec, AccountSpec, Account!Spec

\* The account's promise holds of the composition.
LEMMA ComposedPromise == RSpec => []Account!OwnersValid
<1>1. /\ MaxDroplets \in Nat
      /\ {m \in Machines : SlugOK(m)} \subseteq Machines
      /\ Account!Nobody \notin Machines
  BY ConstAssumption DEF Account!Nobody
<1>2. AccountSpec => []Account!OwnersValid
  BY <1>1, Account!AccountSafety DEF AccountSpec
<1>3. QED
  BY <1>2, ComposedRefinement

(***************************************************************************)
(* Under the reconciler, no machine whose providerConfig does not decode,  *)
(* or names an OS without an image, ever gets a droplet.                   *)
(***************************************************************************)
THEOREM ComposedValidConfigOnly == RSpec => []DropletsOnlyForValidConfig
<1>1. RInv => TypeOK
  BY DEF RInv
<1>2. QED
  BY <1>1, ValidFromAccount, RInvComposed, ComposedPromise, PTL

=============================================================================
