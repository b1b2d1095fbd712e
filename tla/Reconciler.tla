----------------------------- MODULE Reconciler -----------------------------
(***************************************************************************)
(* The DigitalOcean provider driven by the reconciler of the machine       *)
(* controller, which lives outside this repository and is modelled from    *)
(* the control flow of spec section 2 and the error policy of section 7:   *)
(* it calls Get repeatedly, calls Create when Get reports the instance     *)
(* absent, re-runs Get after every Create whatever Create returned, and    *)
(* once the machine is deleted calls Delete until Delete succeeds.         *)
(* One call per machine is in flight at a time.                            *)
(***************************************************************************)
EXTENDS DigitalOcean

VARIABLE desired   \* "present", or "absent" once the Machine is deleted

rvars == <<vars, desired>>

RInit ==
    /\ Init
    /\ desired = [m \in Machines |-> "present"]

\* The reconciler is done with a machine: deleted, and Delete succeeded.
Finished(m) ==
    /\ desired[m] = "absent"
    /\ result[m].op = "delete" /\ result[m].outcome = "ok"

\* The provider call the reconciler makes next for machine m.
NextCall(m) ==
    CASE desired[m] = "absent"                                     -> "del_get"
      [] result[m].op = "get" /\ result[m].outcome = "notfound" -> "keys_get"
      [] OTHER                                                   -> "get"

\* A reconcile pass of machine m: the call its last result calls for.
Reconcile(m) ==
    /\ pc[m] = "idle"
    /\ ~Finished(m)
    /\ pc' = [pc EXCEPT ![m] = NextCall(m)]
    /\ result' = [result EXCEPT ![m] = NoResult]
    /\ UNCHANGED <<droplets, nextId, keyRegistered, did, polls, panicked, desired>>

\* The user deletes the Machine object.
RequestDelete(m) ==
    /\ desired[m] = "present"
    /\ desired' = [desired EXCEPT ![m] = "absent"]
    /\ UNCHANGED vars

\* The provider's steps and DigitalOcean's own, as in DigitalOcean.
ProviderStep ==
    /\ \/ \E m \in Machines :
             \/ KeysGet(m) \/ KeysCreate(m) \/ DropletCreate(m) \/ CreatePoll(m)
             \/ GetDroplets(m) \/ DeleteGet(m) \/ DeleteCall(m)
       \/ \E i \in DropletIds : DropletActive(i) \/ DropletGone(i)
       \/ Restart
    /\ UNCHANGED desired

RNext ==
    \/ \E m \in Machines : Reconcile(m) \/ RequestDelete(m)
    \/ ProviderStep

RSpec == RInit /\ [][RNext]_rvars

-----------------------------------------------------------------------------
(***************************************************************************)
(* Spec sections 1 and 4.4: the UID tag lets repeated reconcile passes     *)
(* recognise an instance that already exists, so no machine ever has two   *)
(* droplets.  Get cannot see a droplet whose tags are not applied yet, so  *)
(* after a Create that failed on the wire but was applied, or returned     *)
(* early, the next Get reports absence and Create runs again.              *)
(***************************************************************************)
NoDuplicateDroplets ==
    \A i, j \in DropletIds :
        i # j /\ droplets[i] # NoDroplet /\ droplets[j] # NoDroplet
            => droplets[i].uid # droplets[j].uid

(***************************************************************************)
(* Spec section 1: the provider tears an instance down on request.  Once   *)
(* Delete has succeeded for a deleted machine, no droplet of it is left.   *)
(* Delete removes only what Get finds: nothing while no droplet is tagged  *)
(* yet, and once one is, the last droplet of the whole list, which may be  *)
(* another machine's, so the machine's own droplet may stay.               *)
(***************************************************************************)
DeleteLeavesNothing ==
    \A m \in Machines :
        Finished(m) => \A i \in DropletIds : droplets[i] = NoDroplet \/ droplets[i].uid # m

=============================================================================
