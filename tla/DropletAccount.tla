--------------------------- MODULE DropletAccount ---------------------------
(***************************************************************************)
(* What the DigitalOcean provider promises the reconciler about the        *)
(* droplets of the account, with the polling, the key registry and the     *)
(* transport failures left out.                                            *)
(*                                                                         *)
(* owner[i] is the machine whose UID tag droplet i carries, or Nobody when *)
(* no droplet has id i.  held[m] is the droplet id machine m's call holds: *)
(* the one its Get returned, or the one its Delete is about to delete (0   *)
(* for none).  The provider launches droplets only for machines whose      *)
(* configuration it accepts (Valid), at ids never used before; it answers  *)
(* a lookup with a droplet only while the machine has one of its own, but  *)
(* the droplet it hands out may be any droplet of the account; it deletes  *)
(* only the droplet the machine holds.  Droplets may vanish at any time.   *)
(***************************************************************************)
EXTENDS Naturals, TLAPS

CONSTANTS
    Machines,     \* machine UIDs
    Valid,        \* machines whose providerConfig Create accepts
    MaxDroplets   \* ids are 1 .. MaxDroplets

Ids == 1 .. MaxDroplets

Nobody == "none"

VARIABLES owner, issued, held

avars == <<owner, issued, held>>

TypeOK ==
    /\ owner \in [Ids -> Machines \cup {Nobody}]
    /\ issued \in 1 .. MaxDroplets + 1
    /\ held \in [Machines -> 0 .. MaxDroplets]

Init ==
    /\ owner = [i \in Ids |-> Nobody]
    /\ issued = 1
    /\ held = [m \in Machines |-> 0]

\* A droplet is created for a machine the provider accepts, at a fresh id.
Launch(m) ==
    /\ m \in Valid
    /\ issued <= MaxDroplets
    /\ owner' = [owner EXCEPT ![issued] = m]
    /\ issued' = issued + 1
    /\ UNCHANGED held

\* While machine m has a droplet, a lookup hands it some droplet of the account.
Lookup(m) ==
    /\ \E j \in Ids : owner[j] = m
    /\ \E i \in {j \in Ids : owner[j] # Nobody} : held' = [held EXCEPT ![m] = i]
    /\ UNCHANGED <<owner, issued>>

\* Machine m deletes the droplet it holds.
Remove(m) ==
    /\ held[m] # 0
    /\ owner' = [owner EXCEPT ![held[m]] = Nobody]
    /\ held' = [held EXCEPT ![m] = 0]
    /\ UNCHANGED issued

\* Some machines' calls let go of what they hold.
Release ==
    /\ \E f \in [Machines -> 0 .. MaxDroplets] :
          /\ \A m \in Machines : f[m] \in {0, held[m]}
          /\ held' = f
    /\ UNCHANGED <<owner, issued>>

\* A droplet is destroyed outside the provider.
Vanish(i) ==
    /\ owner[i] # Nobody
    /\ owner' = [owner EXCEPT ![i] = Nobody]
    /\ UNCHANGED <<issued, held>>

Next ==
    \/ \E m \in Machines : Launch(m) \/ Lookup(m) \/ Remove(m)
    \/ Release
    \/ \E i \in Ids : Vanish(i)

Spec == Init /\ [][Next]_avars

-----------------------------------------------------------------------------
(***************************************************************************)
(* What the account promises: every droplet belongs to a machine whose     *)
(* configuration is valid, even though a lookup may hand a machine another *)
(* machine's droplet and a Remove may delete it.                          *)
(***************************************************************************)
OwnersValid == \A i \in Ids : owner[i] \in Valid \cup {Nobody}

\* The inductive invariant: ids from issued on are free, so a launch at
\* issued never takes over a droplet that exists.
AccountInv ==
    /\ TypeOK
    /\ OwnersValid
    /\ \A i \in Ids : i >= issued => owner[i] = Nobody

(***************************************************************************)
(* For every set of machines and every quota, droplets exist only for      *)
(* valid machines.                                                         *)
(***************************************************************************)
THEOREM AccountSafety ==
    ASSUME MaxDroplets \in Nat, Valid \subseteq Machines, Nobody \notin Machines
    PROVE  Spec => []OwnersValid
<1>1. Init => AccountInv
  BY DEF Init, AccountInv, TypeOK, OwnersValid, Ids
<1>2. AccountInv /\ [Next]_avars => AccountInv'
  <2> SUFFICES ASSUME AccountInv, [Next]_avars PROVE AccountInv'
    OBVIOUS
  <2> USE DEF AccountInv, TypeOK, OwnersValid, Ids
  <2>1. ASSUME NEW m \in Machines, Launch(m) PROVE AccountInv'
    BY <2>1 DEF Launch
  <2>2. ASSUME NEW m \in Machines, Lookup(m) PROVE AccountInv'
    BY <2>2 DEF Lookup
  <2>3. ASSUME NEW m \in Machines, Remove(m) PROVE AccountInv'
    BY <2>3 DEF Remove
  <2>4. CASE Release
    BY <2>4 DEF Release
  <2>5. ASSUME NEW i \in Ids, Vanish(i) PROVE AccountInv'
    BY <2>5 DEF Vanish
  <2>6. CASE UNCHANGED avars
    BY <2>6 DEF avars
  <2>7. QED
    BY <2>1, <2>2, <2>3, <2>4, <2>5, <2>6 DEF Next
<1>3. AccountInv => OwnersValid
  BY DEF AccountInv
<1>4. QED
  BY <1>1, <1>2, <1>3, PTL DEF Spec

=============================================================================
