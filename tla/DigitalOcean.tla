---------------------------- MODULE DigitalOcean ----------------------------
(***************************************************************************)
(* The DigitalOcean provider of src/unnamed/part_000 (package              *)
(* digitalocean): Create, Get and Delete of droplets, with the SSH key     *)
(* registration ensureSSHKeysExist and the confirmation poll of Create.    *)
(*                                                                         *)
(* The controller reconciles machines concurrently, one call in flight per *)
(* machine (the work queue never hands the same key to two workers), and  *)
(* which call it makes next is left open: any of Create, Get or Delete may *)
(* follow any other.  The DigitalOcean account is shared by all of them:   *)
(* the droplets, and the account's SSH key registry, which holds at most   *)
(* the controller's one public key (keyRegistered).                        *)
(*                                                                         *)
(* A droplet is created untagged with status "new"; DigitalOcean applies   *)
(* its tags, among them the machine UID, when it becomes "active" (the     *)
(* comment above wait.Poll in Create), so a droplet's tags are visible     *)
(* exactly when its status is no longer "new".  Droplet names are the      *)
(* machines' spec names, and two machines may share a name.                *)
(***************************************************************************)
EXTENDS Naturals, FiniteSets

CONSTANTS
    Machines,     \* machine UIDs
    MachineName,  \* machine.Spec.Name of each machine
    Config,       \* how each machine's providerConfig decodes
    MaxDroplets,  \* droplet quota of the account; ids are 1..MaxDroplets
    MaxPolls      \* createCheckTimeout / createCheckPeriod

ConfigKinds == {"ok", "bad_json", "bad_os"}

ASSUME ConstAssumption ==
    /\ IsFiniteSet(Machines)
    /\ "none" \notin Machines
    /\ Config \in [Machines -> ConfigKinds]
    /\ MaxDroplets \in Nat \ {0}
    /\ MaxPolls \in Nat \ {0}

DropletIds == 1 .. MaxDroplets

NoDroplet == [uid |-> "none", status |-> "none"]

Statuses == {"new", "active", "off"}

Droplet == [uid : Machines, status : Statuses]

Ops == {"none", "create", "get", "delete"}

Outcomes == {"none", "ok", "notfound", "err"}

\* instance.State of the handle a call returns ("none": no handle).
States == {"none", "Starting", "Running", "Stopped"}

Result == [op : Ops, outcome : Outcomes, id : 0 .. MaxDroplets, state : States]

Steps == {"idle", "keys_get", "keys_create", "droplet_create", "poll",
          "get", "del_get", "del_call"}

VARIABLES
    droplets,       \* the droplets of the account, by id
    nextId,         \* the id DigitalOcean gives the next droplet
    keyRegistered,  \* the controller's public key is in the key registry
    pc,             \* the step each machine's call is at
    did,            \* the droplet id a call holds (created, or to delete)
    polls,          \* condition checks wait.Poll has made so far
    result,         \* what each machine's last call returned
    panicked        \* a nil dereference has ended the process

vars == <<droplets, nextId, keyRegistered, pc, did, polls, result, panicked>>

TypeOK ==
    /\ droplets \in [DropletIds -> Droplet \cup {NoDroplet}]
    /\ nextId \in 1 .. MaxDroplets + 1
    /\ keyRegistered \in BOOLEAN
    /\ pc \in [Machines -> Steps]
    /\ did \in [Machines -> 0 .. MaxDroplets]
    /\ polls \in [Machines -> 0 .. MaxPolls]
    /\ result \in [Machines -> Result]
    /\ panicked \in BOOLEAN

NoResult == [op |-> "none", outcome |-> "none", id |-> 0, state |-> "none"]

Init ==
    /\ droplets = [i \in DropletIds |-> NoDroplet]
    /\ nextId = 1
    /\ keyRegistered \in BOOLEAN
    /\ pc = [m \in Machines |-> "idle"]
    /\ did = [m \in Machines |-> 0]
    /\ polls = [m \in Machines |-> 0]
    /\ result = [m \in Machines |-> NoResult]
    /\ panicked = FALSE

-----------------------------------------------------------------------------
(* Helpers translated from the provider.                                   *)

\* getConfig: both json.Unmarshal calls succeed.
ParseOK(m) == Config[m] # "bad_json"

\* getSlugForOS: only Ubuntu and CoreOS have an image slug.
SlugOK(m) == Config[m] = "ok"

\* The droplet's tags are set, and so visible, once it is running.
Tagged(d) == d.status \in {"active", "off"}

\* Mutant of Matches: the droplet name alone identifies the machine.
Matches_byname(m) ==
    {i \in DropletIds : /\ droplets[i] # NoDroplet
                        /\ MachineName[droplets[i].uid] = MachineName[m]}

\* Get's filter over Droplets.List: same name and the UID among the tags.
Matches(m) ==
    {i \in DropletIds : /\ droplets[i] # NoDroplet
                        /\ MachineName[droplets[i].uid] = MachineName[m]
                        /\ Tagged(droplets[i])
                        /\ droplets[i].uid = m}

\* Droplets.List: every droplet of the account, in an order the API leaves open.
Listed == {i \in DropletIds : droplets[i] # NoDroplet}

(***************************************************************************)
(* The droplet Get's d points at after its loop.  d = &droplet takes the   *)
(* address of the range variable, which Go before 1.22 reuses for every   *)
(* element: once any droplet matched, d holds the last droplet of the      *)
(* whole list, whoever's it is, and any listed droplet may come last.      *)
(***************************************************************************)
Found(m) == IF Matches(m) = {} THEN {} ELSE Listed

\* doInstance.Status: DigitalOcean's status vocabulary onto instance.State.
doStatus(s) ==
    CASE s = "new"    -> "Starting"
      [] s = "active" -> "Running"
      [] OTHER        -> "Stopped"

(***************************************************************************)
(* The state of the doInstance a successful call returns: Get wraps the    *)
(* droplet it found in the list; Create wraps the droplet of the           *)
(* Droplets.Create response, which is "new", whatever the poll read.       *)
(***************************************************************************)
Handle(op, outcome, id) ==
    CASE outcome = "ok" /\ op = "get"    -> doStatus(droplets[id].status)
      [] outcome = "ok" /\ op = "create" -> doStatus("new")
      [] OTHER                           -> "none"

\* A call of machine m returns.
Return(m, op, outcome, id) ==
    /\ pc' = [pc EXCEPT ![m] = "idle"]
    /\ result' = [result EXCEPT ![m] = [op |-> op, outcome |-> outcome, id |-> id,
                                        state |-> Handle(op, outcome, id)]]
    /\ did' = [did EXCEPT ![m] = 0]
    /\ polls' = [polls EXCEPT ![m] = 0]

\* A panic, or any restart, ends every call in flight.
AllCallsLost ==
    /\ pc' = [m \in Machines |-> "idle"]
    /\ did' = [m \in Machines |-> 0]
    /\ polls' = [m \in Machines |-> 0]
    /\ result' = [m \in Machines |-> NoResult]

-----------------------------------------------------------------------------
(* The controller calls into the provider.                                 *)

Call(m) ==
    /\ pc[m] = "idle"
    /\ \E s \in {"keys_get", "get", "del_get"} : pc' = [pc EXCEPT ![m] = s]
    /\ result' = [result EXCEPT ![m] = NoResult]
    /\ UNCHANGED <<droplets, nextId, keyRegistered, did, polls, panicked>>

\* Mutant of KeysGet: getSlugForOS is not consulted.
KeysGet_noslug(m) ==
    /\ pc[m] = "keys_get"
    /\ \/ /\ ~ParseOK(m)
          /\ Return(m, "create", "err", 0)
       \/ /\ ParseOK(m)
          /\ keyRegistered
          /\ pc' = [pc EXCEPT ![m] = "droplet_create"]
          /\ UNCHANGED <<did, polls, result>>
       \/ /\ ParseOK(m)
          /\ ~keyRegistered
          /\ pc' = [pc EXCEPT ![m] = "keys_create"]
          /\ UNCHANGED <<did, polls, result>>
    /\ UNCHANGED <<droplets, nextId, keyRegistered, panicked>>

(***************************************************************************)
(* Create, up to and including GetByFingerprint in ensureSSHKeysExist.     *)
(* A found key goes on to getSlugForOS and the droplet create; 404 goes to *)
(* the key create; any other error is returned.                            *)
(***************************************************************************)
KeysGet(m) ==
    /\ pc[m] = "keys_get"
    /\ \/ /\ ~ParseOK(m)
          /\ Return(m, "create", "err", 0)
       \/ /\ ParseOK(m)
          /\ Return(m, "create", "err", 0)
       \/ /\ ParseOK(m)
          /\ keyRegistered
          /\ IF SlugOK(m)
               THEN /\ pc' = [pc EXCEPT ![m] = "droplet_create"]
                    /\ UNCHANGED <<did, polls, result>>
               ELSE Return(m, "create", "err", 0)
       \/ /\ ParseOK(m)
          /\ ~keyRegistered
          /\ pc' = [pc EXCEPT ![m] = "keys_create"]
          /\ UNCHANGED <<did, polls, result>>
    /\ UNCHANGED <<droplets, nextId, keyRegistered, panicked>>

(***************************************************************************)
(* Keys.Create after a 404: its error is dropped, and dokey.Fingerprint    *)
(* is read from the nil key it returns with an error.  DigitalOcean        *)
(* refuses a key already in the registry ("SSH Key is already in use"); a  *)
(* transport error may hide a create that was applied.                     *)
(***************************************************************************)
KeysCreate(m) ==
    /\ pc[m] = "keys_create"
    /\ \/ /\ ~keyRegistered
          /\ keyRegistered' = TRUE
          /\ IF SlugOK(m)
               THEN /\ pc' = [pc EXCEPT ![m] = "droplet_create"]
                    /\ UNCHANGED <<did, polls, result>>
               ELSE Return(m, "create", "err", 0)
          /\ UNCHANGED panicked
       \/ /\ keyRegistered
          /\ panicked' = TRUE
          /\ AllCallsLost
          /\ UNCHANGED keyRegistered
       \/ /\ keyRegistered' \in {keyRegistered, TRUE}
          /\ panicked' = TRUE
          /\ AllCallsLost
    /\ UNCHANGED <<droplets, nextId>>

(***************************************************************************)
(* Droplets.Create with the UID among the tags.  Past the quota it is      *)
(* refused; a transport error may hide a droplet that was created.         *)
(***************************************************************************)
NewDroplet(m) ==
    /\ nextId <= MaxDroplets
    /\ droplets' = [droplets EXCEPT ![nextId] = [uid |-> m, status |-> "new"]]
    /\ nextId' = nextId + 1

DropletCreate(m) ==
    /\ pc[m] = "droplet_create"
    /\ \/ /\ NewDroplet(m)
          /\ pc' = [pc EXCEPT ![m] = "poll"]
          /\ did' = [did EXCEPT ![m] = nextId]
          /\ polls' = [polls EXCEPT ![m] = 0]
          /\ UNCHANGED result
       \/ /\ nextId > MaxDroplets
          /\ Return(m, "create", "err", 0)
          /\ UNCHANGED <<droplets, nextId>>
       \/ /\ NewDroplet(m) \/ UNCHANGED <<droplets, nextId>>
          /\ Return(m, "create", "err", 0)
    /\ UNCHANGED <<keyRegistered, panicked>>

(***************************************************************************)
(* Mutants of CreatePoll: the count before the check compared with <=    *)
(* (one check past the timeout); no timeout at all.                         *)
(***************************************************************************)
CreatePoll_offbyone(m) ==
    /\ pc[m] = "poll"
    /\ \/ Return(m, "create", "ok", did[m])
       \/ /\ droplets[did[m]] # NoDroplet
          /\ ~Tagged(droplets[did[m]])
          /\ IF polls[m] <= MaxPolls
               THEN /\ polls' = [polls EXCEPT ![m] = polls[m] + 1]
                    /\ UNCHANGED <<pc, did, result>>
               ELSE Return(m, "create", "ok", did[m])
    /\ UNCHANGED <<droplets, nextId, keyRegistered, panicked>>

CreatePoll_forever(m) ==
    /\ pc[m] = "poll"
    /\ \/ /\ droplets[did[m]] # NoDroplet
          /\ Tagged(droplets[did[m]])
          /\ Return(m, "create", "ok", did[m])
       \/ /\ droplets[did[m]] # NoDroplet
          /\ ~Tagged(droplets[did[m]])
          /\ UNCHANGED <<pc, did, polls, result>>
    /\ UNCHANGED <<droplets, nextId, keyRegistered, panicked>>

(***************************************************************************)
(* One condition check of wait.Poll: Droplets.Get(droplet.ID).  An error   *)
(* (the droplet is gone, or transport) sleeps and ends the poll with that  *)
(* error; the UID among the tags ends it with success; otherwise it polls  *)
(* again until createCheckTimeout.  Create ignores the poll's error and   *)
(* returns the droplet it created in every case.                           *)
(***************************************************************************)
CreatePoll(m) ==
    /\ pc[m] = "poll"
    /\ \/ Return(m, "create", "ok", did[m])
       \/ /\ droplets[did[m]] # NoDroplet
          /\ Tagged(droplets[did[m]])
          /\ Return(m, "create", "ok", did[m])
       \/ /\ droplets[did[m]] # NoDroplet
          /\ ~Tagged(droplets[did[m]])
          /\ IF polls[m] + 1 < MaxPolls
               THEN /\ polls' = [polls EXCEPT ![m] = polls[m] + 1]
                    /\ UNCHANGED <<pc, did, result>>
               ELSE Return(m, "create", "ok", did[m])
    /\ UNCHANGED <<droplets, nextId, keyRegistered, panicked>>

(***************************************************************************)
(* Get: Droplets.List, the loop over it, and the droplet d points at, or   *)
(* InstanceNotFoundErr when no droplet has the machine's name and UID tag. *)
(***************************************************************************)
GetDroplets(m) ==
    /\ pc[m] = "get"
    /\ \/ Return(m, "get", "err", 0)
       \/ /\ ParseOK(m)
          /\ Matches(m) = {}
          /\ Return(m, "get", "notfound", 0)
       \/ /\ ParseOK(m)
          /\ \E i \in Found(m) : Return(m, "get", "ok", i)
    /\ UNCHANGED <<droplets, nextId, keyRegistered, panicked>>

(***************************************************************************)
(* Delete, up to its call of Get: InstanceNotFoundErr is success, another  *)
(* error is returned, the droplet Get returned is deleted next.            *)
(***************************************************************************)
DeleteGet(m) ==
    /\ pc[m] = "del_get"
    /\ \/ Return(m, "delete", "err", 0)
       \/ /\ ParseOK(m)
          /\ Matches(m) = {}
          /\ Return(m, "delete", "ok", 0)
       \/ /\ ParseOK(m)
          /\ \E i \in Found(m) :
                /\ pc' = [pc EXCEPT ![m] = "del_call"]
                /\ did' = [did EXCEPT ![m] = i]
          /\ UNCHANGED <<polls, result>>
    /\ UNCHANGED <<droplets, nextId, keyRegistered, panicked>>

(***************************************************************************)
(* Droplets.Delete(doID): a droplet already gone answers 404, and godo's   *)
(* error for it is returned as it is; a transport error may hide a delete  *)
(* that was applied.                                                       *)
(***************************************************************************)
DeleteCall(m) ==
    /\ pc[m] = "del_call"
    /\ \/ /\ droplets[did[m]] # NoDroplet
          /\ droplets' = [droplets EXCEPT ![did[m]] = NoDroplet]
          /\ Return(m, "delete", "ok", did[m])
       \/ /\ droplets[did[m]] = NoDroplet
          /\ Return(m, "delete", "notfound", did[m])
          /\ UNCHANGED droplets
       \/ /\ droplets' \in {droplets, [droplets EXCEPT ![did[m]] = NoDroplet]}
          /\ Return(m, "delete", "err", did[m])
    /\ UNCHANGED <<nextId, keyRegistered, panicked>>

-----------------------------------------------------------------------------
(* What DigitalOcean and the cluster do on their own.                      *)

\* A new droplet starts running, and its tags become visible.
DropletActive(i) ==
    /\ droplets[i] # NoDroplet
    /\ droplets[i].status = "new"
    /\ droplets' = [droplets EXCEPT ![i].status = "active"]
    /\ UNCHANGED <<nextId, keyRegistered, pc, did, polls, result, panicked>>

\* A running droplet is powered off, or destroyed, outside the controller.
DropletGone(i) ==
    /\ droplets[i] # NoDroplet
    /\ \/ /\ droplets[i].status = "active"
          /\ droplets' = [droplets EXCEPT ![i].status = "off"]
       \/ droplets' = [droplets EXCEPT ![i] = NoDroplet]
    /\ UNCHANGED <<nextId, keyRegistered, pc, did, polls, result, panicked>>

\* The controller process is restarted (evicted, upgraded, OOM-killed).
Restart ==
    /\ AllCallsLost
    /\ UNCHANGED <<droplets, nextId, keyRegistered, panicked>>

Next ==
    \/ \E m \in Machines :
          \/ Call(m) \/ KeysGet(m) \/ KeysCreate(m) \/ DropletCreate(m)
          \/ CreatePoll(m) \/ GetDroplets(m) \/ DeleteGet(m) \/ DeleteCall(m)
    \/ \E i \in DropletIds : DropletActive(i) \/ DropletGone(i)
    \/ Restart

(***************************************************************************)
(* A call in flight is never starved: each runs in its own worker and      *)
(* every API call returns (the HTTP client gives up).  Starting calls,     *)
(* DigitalOcean's progress and restarts are not assumed to happen.         *)
(***************************************************************************)
Fairness ==
    \A m \in Machines :
        /\ WF_vars(KeysGet(m)) /\ WF_vars(KeysCreate(m))
        /\ WF_vars(DropletCreate(m)) /\ WF_vars(CreatePoll(m))
        /\ WF_vars(GetDroplets(m)) /\ WF_vars(DeleteGet(m))
        /\ WF_vars(DeleteCall(m))

Spec == Init /\ [][Next]_vars /\ Fairness

(***************************************************************************)
(* The refinement mapping to DropletAccount: a droplet's owner is the UID  *)
(* among its tags; a machine holds the id its Delete is about to delete,   *)
(* or the id its last Get returned; the valid machines are those whose     *)
(* providerConfig decodes and names an OS with an image.                   *)
(***************************************************************************)
heldBar ==
    [m \in Machines |->
        IF pc[m] = "del_call" THEN did[m]
        ELSE IF result[m].op = "get" /\ result[m].outcome = "ok"
             THEN result[m].id
             ELSE 0]

Account == INSTANCE DropletAccount
             WITH Valid <- {m \in Machines : SlugOK(m)},
                  owner <- [i \in DropletIds |-> droplets[i].uid],
                  issued <- nextId,
                  held <- heldBar

-----------------------------------------------------------------------------
(***************************************************************************)
(* Spec sections 4.3 and 8, identifier-keyed lookup: a droplet that Get    *)
(* returned, or that Delete is about to delete, belongs to the machine     *)
(* (carries its UID), even when another machine has the same name.  Get    *)
(* filters by name and UID, but returns the range variable's address, the *)
(* last droplet of the list, which may be another machine's.              *)
(***************************************************************************)
LookupKeyedByUID ==
    \A m \in Machines :
        /\ pc[m] = "del_call" /\ droplets[did[m]] # NoDroplet
              => droplets[did[m]].uid = m
        /\ result[m].op = "get" /\ result[m].outcome = "ok"
           /\ droplets[result[m].id] # NoDroplet
              => droplets[result[m].id].uid = m

(***************************************************************************)
(* The provider implements DropletAccount: it creates droplets only for    *)
(* valid machines at fresh ids, answers a Get or a Delete with a droplet   *)
(* only while one tagged with the caller's UID exists, and deletes only    *)
(* the droplet Delete resolved, whatever the timing of polls, restarts and *)
(* outside deletes.                                                        *)
(***************************************************************************)
AccountSpec == Account!Spec

(***************************************************************************)
(* Every call into the provider returns: the confirmation poll of Create   *)
(* is bounded by its timeout even if the droplet never becomes active.     *)
(***************************************************************************)
EveryCallReturns ==
    \A m \in Machines : (pc[m] # "idle") ~> (pc[m] = "idle")

(***************************************************************************)
(* Create decodes the providerConfig and checks the operating system       *)
(* before it creates anything: no machine whose providerConfig does not    *)
(* decode, or names an OS without an image, ever gets a droplet.           *)
(***************************************************************************)
DropletsOnlyForValidConfig ==
    \A i \in DropletIds : droplets[i] # NoDroplet => SlugOK(droplets[i].uid)

(***************************************************************************)
(* Spec section 5: once Create has returned success, Get finds the         *)
(* droplet by its UID tag.  Create ignores the error of wait.Poll and      *)
(* returns success after a timeout or a failed status check.               *)
(***************************************************************************)
ConfirmedCreateVisible ==
    \A m \in Machines :
        result[m].op = "create" /\ result[m].outcome = "ok"
           /\ droplets[result[m].id] # NoDroplet
              => Tagged(droplets[result[m].id])

(***************************************************************************)
(* ensureSSHKeysExist never dereferences the nil key Keys.Create returns   *)
(* with an error, as when two machines register the key concurrently.      *)
(***************************************************************************)
NoNilKeyDereference == ~panicked

(***************************************************************************)
(* Spec section 4.3 and the "idempotent delete" property: Delete of a      *)
(* machine whose droplet is already gone returns success.  Delete resolves *)
(* the droplet with Get and then deletes it by id; when the droplet goes   *)
(* away in between, Droplets.Delete answers 404 and that error is returned.*)
(***************************************************************************)
DeleteIdempotent ==
    \A m \in Machines : ~(result[m].op = "delete" /\ result[m].outcome = "notfound")

(***************************************************************************)
(* Spec sections 4.4 and 8: a Create that succeeds returns the confirmed   *)
(* handle, whose state is the normalization of the droplet's status as it  *)
(* is when Create returns.  Create returns the provisional droplet of the  *)
(* Droplets.Create response instead of the one the poll fetched.           *)
(***************************************************************************)
CreateReturnsConfirmedHandle ==
    [][\A m \in Machines :
          (/\ pc[m] = "poll" /\ droplets[did[m]] # NoDroplet
           /\ result'[m].op = "create" /\ result'[m].outcome = "ok")
             => result'[m].state = doStatus(droplets[did[m]].status)]_vars

=============================================================================
