------------------------- MODULE DigitalOcean_proofs -------------------------
(***************************************************************************)
(* Proofs about DigitalOcean for every set of machines, every naming of    *)
(* them, every quota and every poll bound.                                 *)
(***************************************************************************)
EXTENDS DigitalOcean, TLAPS

USE ConstAssumption

(***************************************************************************)
(* Return and AllCallsLost keep the per-machine variables well typed.      *)
(***************************************************************************)
LEMMA ReturnType ==
    ASSUME TypeOK, NEW m \in Machines, NEW op \in Ops, NEW o \in Outcomes,
           NEW id \in 0 .. MaxDroplets, Return(m, op, o, id)
    PROVE  /\ pc' \in [Machines -> Steps]
           /\ did' \in [Machines -> 0 .. MaxDroplets]
           /\ polls' \in [Machines -> 0 .. MaxPolls]
           /\ result' \in [Machines -> Result]
  BY DEF Return, Handle, doStatus, TypeOK, Steps, Result, States

LEMMA LostType ==
    ASSUME AllCallsLost
    PROVE  /\ pc' \in [Machines -> Steps]
           /\ did' \in [Machines -> 0 .. MaxDroplets]
           /\ polls' \in [Machines -> 0 .. MaxPolls]
           /\ result' \in [Machines -> Result]
  BY DEF AllCallsLost, Steps, Result, States, NoResult, Ops, Outcomes

LEMMA MoveType ==
    ASSUME TypeOK, NEW m \in Machines, NEW s \in Steps,
           pc' = [pc EXCEPT ![m] = s], UNCHANGED <<did, polls, result>>
    PROVE  /\ pc' \in [Machines -> Steps]
           /\ did' \in [Machines -> 0 .. MaxDroplets]
           /\ polls' \in [Machines -> 0 .. MaxPolls]
           /\ result' \in [Machines -> Result]
  BY DEF TypeOK

(***************************************************************************)
(* What Get's loop leaves in d: a listed droplet, returned only while a    *)
(* droplet tagged with the caller's UID exists.  Nothing says it is the    *)
(* caller's own.                                                           *)
(***************************************************************************)
LEMMA FoundSpec ==
    ASSUME TypeOK, NEW m \in Machines, NEW i \in Found(m)
    PROVE  /\ i \in DropletIds
           /\ droplets[i] # NoDroplet
           /\ droplets[i].uid # "none"
           /\ \E j \in DropletIds : droplets[j].uid = m
  BY DEF Found, Matches, Listed, TypeOK, Droplet, NoDroplet

\* The shared variables' part of TypeOK.
SharedOK ==
    /\ droplets \in [DropletIds -> Droplet \cup {NoDroplet}]
    /\ nextId \in 1 .. MaxDroplets + 1
    /\ keyRegistered \in BOOLEAN
    /\ panicked \in BOOLEAN

\* The per-machine variables' part of TypeOK.
LocalOK ==
    /\ pc \in [Machines -> Steps]
    /\ did \in [Machines -> 0 .. MaxDroplets]
    /\ polls \in [Machines -> 0 .. MaxPolls]
    /\ result \in [Machines -> Result]

LEMMA TypeSplit == TypeOK' <=> SharedOK' /\ LocalOK'
  BY DEF TypeOK, SharedOK, LocalOK

(***************************************************************************)
(* Type correctness: the inductive step, one case per action and, under    *)
(* it, one per way the action ends.                                        *)
(***************************************************************************)
LEMMA TypeStep == TypeOK /\ [Next]_vars => TypeOK'
<1> SUFFICES ASSUME TypeOK, [Next]_vars PROVE SharedOK' /\ LocalOK'
  BY TypeSplit
<1> USE DEF SharedOK, LocalOK
<1>1. ASSUME NEW m \in Machines, Call(m) PROVE SharedOK' /\ LocalOK'
  BY <1>1 DEF Call, TypeOK, Steps, Result, States, NoResult, Ops, Outcomes
<1>2. ASSUME NEW m \in Machines, KeysGet(m) PROVE SharedOK' /\ LocalOK'
  <2>1. SharedOK'
    BY <1>2 DEF KeysGet, TypeOK
  <2>2. CASE Return(m, "create", "err", 0)
    BY <2>1, <2>2, ReturnType DEF Ops, Outcomes
  <2>3. CASE pc' = [pc EXCEPT ![m] = "droplet_create"] /\ UNCHANGED <<did, polls, result>>
    BY <2>1, <2>3, MoveType DEF Steps
  <2>4. CASE pc' = [pc EXCEPT ![m] = "keys_create"] /\ UNCHANGED <<did, polls, result>>
    BY <2>1, <2>4, MoveType DEF Steps
  <2>5. QED
    BY <1>2, <2>1, <2>2, <2>3, <2>4 DEF KeysGet
<1>3. ASSUME NEW m \in Machines, KeysCreate(m) PROVE SharedOK' /\ LocalOK'
  <2>1. SharedOK'
    BY <1>3 DEF KeysCreate, TypeOK
  <2>2. CASE Return(m, "create", "err", 0)
    BY <2>1, <2>2, ReturnType DEF Ops, Outcomes
  <2>3. CASE pc' = [pc EXCEPT ![m] = "droplet_create"] /\ UNCHANGED <<did, polls, result>>
    BY <2>1, <2>3, MoveType DEF Steps
  <2>4. CASE AllCallsLost
    BY <2>1, <2>4, LostType
  <2>5. QED
    BY <1>3, <2>1, <2>2, <2>3, <2>4 DEF KeysCreate
<1>4. ASSUME NEW m \in Machines, DropletCreate(m) PROVE SharedOK' /\ LocalOK'
  <2>1. CASE NewDroplet(m) /\ pc' = [pc EXCEPT ![m] = "poll"]
             /\ did' = [did EXCEPT ![m] = nextId]
             /\ polls' = [polls EXCEPT ![m] = 0] /\ UNCHANGED result
    BY <2>1, <1>4 DEF NewDroplet, DropletCreate, TypeOK, Droplet, Statuses,
                      DropletIds, Steps
  <2>2. CASE NewDroplet(m) /\ Return(m, "create", "err", 0)
    BY <2>2, <1>4, ReturnType DEF NewDroplet, DropletCreate, TypeOK, Droplet,
                                  Statuses, DropletIds, Ops, Outcomes
  <2>3. CASE UNCHANGED <<droplets, nextId>> /\ Return(m, "create", "err", 0)
    BY <2>3, <1>4, ReturnType DEF DropletCreate, TypeOK, Ops, Outcomes
  <2>4. QED
    BY <1>4, <2>1, <2>2, <2>3 DEF DropletCreate
<1>5. ASSUME NEW m \in Machines, CreatePoll(m) PROVE SharedOK' /\ LocalOK'
  <2>1. SharedOK'
    BY <1>5 DEF CreatePoll, TypeOK
  <2>2. did[m] \in 0 .. MaxDroplets
    BY DEF TypeOK
  <2>3. CASE Return(m, "create", "ok", did[m])
    BY <2>1, <2>2, <2>3, ReturnType DEF Ops, Outcomes
  <2>4. CASE polls[m] + 1 < MaxPolls /\ polls' = [polls EXCEPT ![m] = polls[m] + 1]
             /\ UNCHANGED <<pc, did, result>>
    BY <2>1, <2>4 DEF TypeOK
  <2>5. QED
    BY <1>5, <2>1, <2>3, <2>4 DEF CreatePoll
<1>6. ASSUME NEW m \in Machines, GetDroplets(m) PROVE SharedOK' /\ LocalOK'
  <2>1. SharedOK'
    BY <1>6 DEF GetDroplets, TypeOK
  <2>2. CASE Return(m, "get", "err", 0) \/ Return(m, "get", "notfound", 0)
    BY <2>1, <2>2, ReturnType DEF Ops, Outcomes
  <2>3. CASE \E i \in Found(m) : Return(m, "get", "ok", i)
    <3>1. PICK i \in Found(m) : Return(m, "get", "ok", i)
      BY <2>3
    <3>2. i \in 0 .. MaxDroplets
      BY FoundSpec DEF DropletIds
    <3>3. QED
      BY <2>1, <3>1, <3>2, ReturnType DEF Ops, Outcomes
  <2>4. QED
    BY <1>6, <2>1, <2>2, <2>3 DEF GetDroplets
<1>7. ASSUME NEW m \in Machines, DeleteGet(m) PROVE SharedOK' /\ LocalOK'
  <2>1. SharedOK'
    BY <1>7 DEF DeleteGet, TypeOK
  <2>2. CASE Return(m, "delete", "err", 0) \/ Return(m, "delete", "ok", 0)
    BY <2>1, <2>2, ReturnType DEF Ops, Outcomes
  <2>3. CASE \E i \in Found(m) : /\ pc' = [pc EXCEPT ![m] = "del_call"]
                                 /\ did' = [did EXCEPT ![m] = i]
             /\ UNCHANGED <<polls, result>>
    <3>1. PICK i \in Found(m) : /\ pc' = [pc EXCEPT ![m] = "del_call"]
                                /\ did' = [did EXCEPT ![m] = i]
      BY <2>3
    <3>2. i \in 0 .. MaxDroplets
      BY FoundSpec DEF DropletIds
    <3>3. QED
      BY <2>1, <2>3, <3>1, <3>2 DEF TypeOK, Steps
  <2>4. QED
    BY <1>7, <2>1, <2>2, <2>3 DEF DeleteGet
<1>8. ASSUME NEW m \in Machines, DeleteCall(m) PROVE SharedOK' /\ LocalOK'
  <2>1. did[m] \in 0 .. MaxDroplets
    BY DEF TypeOK
  <2>2. droplets' \in [DropletIds -> Droplet \cup {NoDroplet}]
    BY <1>8 DEF DeleteCall, TypeOK
  <2>3. \E o \in {"ok", "notfound", "err"} : Return(m, "delete", o, did[m])
    BY <1>8 DEF DeleteCall
  <2>4. QED
    BY <1>8, <2>1, <2>2, <2>3, ReturnType DEF DeleteCall, TypeOK, Ops, Outcomes
<1>9. ASSUME NEW i \in DropletIds, DropletActive(i) PROVE SharedOK' /\ LocalOK'
  BY <1>9 DEF DropletActive, TypeOK, Droplet, Statuses
<1>10. ASSUME NEW i \in DropletIds, DropletGone(i) PROVE SharedOK' /\ LocalOK'
  BY <1>10 DEF DropletGone, TypeOK, Droplet, Statuses
<1>11. CASE Restart
  BY <1>11, LostType DEF Restart, TypeOK
<1>12. CASE UNCHANGED vars
  BY <1>12 DEF vars, TypeOK
<1>13. QED
  BY <1>1, <1>2, <1>3, <1>4, <1>5, <1>6, <1>7, <1>8, <1>9, <1>10, <1>11,
     <1>12 DEF Next

\* The initial states are well typed.
LEMMA TypeInit == Init => TypeOK
<1> SUFFICES ASSUME Init PROVE TypeOK
  OBVIOUS
<1>1. droplets \in [DropletIds -> Droplet \cup {NoDroplet}]
  BY DEF Init
<1>2. NoResult \in Result
  BY DEF NoResult, Result, States, Ops, Outcomes
<1>3. nextId \in 1 .. MaxDroplets + 1
  BY DEF Init
<1>4. pc \in [Machines -> Steps] /\ did \in [Machines -> 0 .. MaxDroplets]
      /\ polls \in [Machines -> 0 .. MaxPolls]
  BY DEF Init, Steps
<1>5. result \in [Machines -> Result]
  BY <1>2 DEF Init
<1>6. QED
  BY <1>1, <1>3, <1>4, <1>5 DEF Init, TypeOK

(***************************************************************************)
(* Every state of every behaviour is well typed.                           *)
(***************************************************************************)
THEOREM TypeCorrect == Spec => []TypeOK
  BY TypeInit, TypeStep, PTL DEF Spec

-----------------------------------------------------------------------------
(***************************************************************************)
(* The refinement of DropletAccount.  Besides TypeOK it needs three facts  *)
(* about calls in flight: a call in flight has no result yet (Call clears *)
(* it, and only Return, which ends the call, sets it); a call about to    *)
(* create a droplet has passed getSlugForOS; a Delete about to delete,    *)
(* and a Get that found a droplet, hold the id of a droplet.               *)
(***************************************************************************)
InFlight ==
    \A m \in Machines :
        /\ pc[m] # "idle" => result[m] = NoResult
        /\ pc[m] = "droplet_create" => SlugOK(m)
        /\ pc[m] = "del_call" => did[m] \in DropletIds
        /\ result[m].op = "get" /\ result[m].outcome = "ok"
              => result[m].id \in DropletIds

RInv == TypeOK /\ InFlight

\* Machine m's call is the only one whose per-machine state moves.
Moves(m) ==
    \A n \in Machines \ {m} :
        pc'[n] = pc[n] /\ did'[n] = did[n] /\ result'[n] = result[n]

LEMMA ReturnMoves ==
    ASSUME TypeOK, NEW m \in Machines, NEW op, NEW o, NEW id, Return(m, op, o, id)
    PROVE  Moves(m)
  BY DEF Return, Moves, TypeOK

LEMMA StepMoves ==
    ASSUME TypeOK, NEW m \in Machines, NEW s, pc' = [pc EXCEPT ![m] = s],
           UNCHANGED <<did, result>>
    PROVE  Moves(m)
  BY DEF Moves, TypeOK

LEMMA InFlightStep == RInv /\ [Next]_vars => InFlight'
<1> SUFFICES ASSUME TypeOK, InFlight, [Next]_vars PROVE InFlight'
  BY DEF RInv
<1>1. ASSUME NEW m \in Machines, Call(m) PROVE InFlight'
  BY <1>1 DEF Call, InFlight, TypeOK, NoResult
<1>2. ASSUME NEW m \in Machines, KeysGet(m) PROVE InFlight'
  BY <1>2 DEF KeysGet, Return, InFlight, TypeOK, NoResult
<1>3. ASSUME NEW m \in Machines, KeysCreate(m) PROVE InFlight'
  <2>1. CASE AllCallsLost
    BY <2>1 DEF AllCallsLost, InFlight, NoResult
  <2>2. CASE Return(m, "create", "err", 0)
    BY <1>3, <2>2 DEF KeysCreate, Return, InFlight, TypeOK, NoResult
  <2>3. CASE SlugOK(m) /\ pc' = [pc EXCEPT ![m] = "droplet_create"]
             /\ UNCHANGED <<did, polls, result>>
    BY <1>3, <2>3 DEF KeysCreate, InFlight, TypeOK, NoResult
  <2>4. QED
    BY <1>3, <2>1, <2>2, <2>3 DEF KeysCreate
<1>4. ASSUME NEW m \in Machines, DropletCreate(m) PROVE InFlight'
  BY <1>4 DEF DropletCreate, NewDroplet, Return, InFlight, TypeOK, NoResult
<1>5. ASSUME NEW m \in Machines, CreatePoll(m) PROVE InFlight'
  BY <1>5 DEF CreatePoll, Return, InFlight, TypeOK, NoResult
<1>6. ASSUME NEW m \in Machines, GetDroplets(m) PROVE InFlight'
  <2>1. \A i \in Found(m) : i \in DropletIds
    BY FoundSpec
  <2>2. QED
    BY <1>6, <2>1 DEF GetDroplets, Return, InFlight, TypeOK, NoResult
<1>7. ASSUME NEW m \in Machines, DeleteGet(m) PROVE InFlight'
  <2>1. \A i \in Found(m) : i \in DropletIds
    BY FoundSpec
  <2>2. QED
    BY <1>7, <2>1 DEF DeleteGet, Return, InFlight, TypeOK, NoResult
<1>8. ASSUME NEW m \in Machines, DeleteCall(m) PROVE InFlight'
  BY <1>8 DEF DeleteCall, Return, InFlight, TypeOK, NoResult
<1>9. ASSUME NEW i \in DropletIds, DropletActive(i) \/ DropletGone(i)
      PROVE InFlight'
  BY <1>9 DEF DropletActive, DropletGone, InFlight, NoResult
<1>10. CASE Restart
  BY <1>10 DEF Restart, AllCallsLost, InFlight, NoResult
<1>11. CASE UNCHANGED vars
  BY <1>11 DEF vars, InFlight, NoResult
<1>12. QED
  BY <1>1, <1>2, <1>3, <1>4, <1>5, <1>6, <1>7, <1>8, <1>9, <1>10, <1>11
     DEF Next

\* What a machine holds is an id in range.
LEMMA HeldType == TypeOK => heldBar \in [Machines -> 0 .. MaxDroplets]
  BY DEF heldBar, TypeOK, Result, States

\* A machine that is not about to delete and has no Get result holds nothing.
LEMMA HeldIdle ==
    ASSUME NEW n \in Machines, pc'[n] # "del_call",
           result'[n].op # "get" \/ result'[n].outcome # "ok"
    PROVE  heldBar'[n] = 0
  BY DEF heldBar

(***************************************************************************)
(* A step that leaves the droplets alone, moves only m's call and ends     *)
(* with m holding nothing is a Release of the account.                     *)
(***************************************************************************)
LEMMA LocalRelease ==
    ASSUME TypeOK, TypeOK', NEW m \in Machines, UNCHANGED <<droplets, nextId>>,
           Moves(m), heldBar'[m] = 0
    PROVE  Account!Release
<1>1. \A n \in Machines : heldBar'[n] \in {0, heldBar[n]}
  BY DEF Moves, heldBar
<1>2. heldBar' \in [Machines -> 0 .. MaxDroplets]
  BY DEF heldBar, TypeOK, Result, States
<1>3. QED
  BY <1>1, <1>2 DEF Account!Release

\* A step that ends every call is a Release of the account.
LEMMA LostRelease ==
    ASSUME TypeOK', AllCallsLost, UNCHANGED <<droplets, nextId>>
    PROVE  Account!Release
<1>1. \A n \in Machines : heldBar'[n] = 0
  BY DEF AllCallsLost, heldBar, NoResult
<1>2. heldBar' \in [Machines -> 0 .. MaxDroplets]
  BY <1>1 DEF heldBar
<1>3. QED
  BY <1>1, <1>2 DEF Account!Release

(***************************************************************************)
(* A step that leaves the droplets alone and in which only machine m's     *)
(* call moves, without coming to hold a droplet, is an account step.       *)
(***************************************************************************)
LEMMA LocalQuiet ==
    ASSUME TypeOK, TypeOK', InFlight, NEW m \in Machines,
           UNCHANGED <<droplets, nextId>>, Moves(m), pc'[m] # "del_call",
           \/ pc[m] # "idle" /\ result'[m] = result[m]
           \/ result'[m].op # "get"
           \/ result'[m].outcome # "ok"
    PROVE  Account!Next
<1>1. heldBar'[m] = 0
  BY HeldIdle DEF InFlight, NoResult
<1>2. QED
  BY <1>1, LocalRelease DEF Account!Next

\* Machine m's call goes on to a step other than the delete.
LEMMA MoveQuiet ==
    ASSUME TypeOK, TypeOK', InFlight, NEW m \in Machines,
           NEW s \in Steps \ {"del_call"}, pc[m] # "idle",
           pc' = [pc EXCEPT ![m] = s], UNCHANGED <<did, result, droplets, nextId>>
    PROVE  Account!Next
<1>1. Moves(m) /\ pc'[m] # "del_call"
  BY StepMoves DEF TypeOK
<1>2. QED
  BY <1>1, LocalQuiet

\* Machine m's call returns something other than a found droplet.
LEMMA ReturnQuiet ==
    ASSUME TypeOK, TypeOK', InFlight, NEW m \in Machines, NEW op, NEW o, NEW id,
           op # "get" \/ o # "ok", Return(m, op, o, id),
           UNCHANGED <<droplets, nextId>>
    PROVE  Account!Next
<1>1. Moves(m) /\ pc'[m] = "idle" /\ result'[m].op = op /\ result'[m].outcome = o
  BY ReturnMoves DEF Return, TypeOK
<1>2. QED
  BY <1>1, LocalQuiet

(***************************************************************************)
(* Every step of the provider is a step of DropletAccount, or leaves its   *)
(* owners, issued ids and held ids alone.                                  *)
(***************************************************************************)
LEMMA RefineStep == RInv /\ [Next]_vars => [Account!Next]_Account!avars
<1> SUFFICES ASSUME TypeOK, InFlight, [Next]_vars
             PROVE  Account!Next \/ UNCHANGED Account!avars
  BY DEF RInv
<1>0. TypeOK'
  BY TypeStep
<1>1. ASSUME NEW m \in Machines, Call(m) PROVE Account!Next
  <2>1. Moves(m) /\ pc'[m] # "del_call" /\ result'[m].op # "get"
    BY <1>1 DEF Call, Moves, NoResult, TypeOK
  <2>2. QED
    BY <1>0, <1>1, <2>1, LocalQuiet DEF Call
<1>2. ASSUME NEW m \in Machines, KeysGet(m) PROVE Account!Next
  <2>1. UNCHANGED <<droplets, nextId>> /\ pc[m] # "idle"
    BY <1>2 DEF KeysGet
  <2>2. CASE Return(m, "create", "err", 0)
    BY <1>0, <2>1, <2>2, ReturnQuiet
  <2>3. CASE pc' = [pc EXCEPT ![m] = "droplet_create"] /\ UNCHANGED <<did, polls, result>>
    BY <1>0, <2>1, <2>3, MoveQuiet DEF Steps
  <2>4. CASE pc' = [pc EXCEPT ![m] = "keys_create"] /\ UNCHANGED <<did, polls, result>>
    BY <1>0, <2>1, <2>4, MoveQuiet DEF Steps
  <2>5. QED
    BY <1>2, <2>2, <2>3, <2>4 DEF KeysGet
<1>3. ASSUME NEW m \in Machines, KeysCreate(m) PROVE Account!Next
  <2>1. UNCHANGED <<droplets, nextId>> /\ pc[m] # "idle"
    BY <1>3 DEF KeysCreate
  <2>2. CASE Return(m, "create", "err", 0)
    BY <1>0, <2>1, <2>2, ReturnQuiet
  <2>3. CASE pc' = [pc EXCEPT ![m] = "droplet_create"] /\ UNCHANGED <<did, polls, result>>
    BY <1>0, <2>1, <2>3, MoveQuiet DEF Steps
  <2>4. CASE AllCallsLost
    BY <1>0, <2>1, <2>4, LostRelease DEF Account!Next
  <2>5. QED
    BY <1>3, <2>2, <2>3, <2>4 DEF KeysCreate
<1>4. ASSUME NEW m \in Machines, DropletCreate(m) PROVE Account!Next
  <2>1. CASE NewDroplet(m)
    <3>1. m \in {n \in Machines : SlugOK(n)}
      BY <1>4 DEF DropletCreate, InFlight
    <3>2. nextId \in DropletIds
      BY <2>1 DEF NewDroplet, TypeOK, DropletIds
    <3>3. [i \in DropletIds |-> droplets'[i].uid]
            = [[i \in DropletIds |-> droplets[i].uid] EXCEPT ![nextId] = m]
      BY <2>1, <3>2 DEF NewDroplet, TypeOK
    <3>4. heldBar' = heldBar
      <4>1. pc[m] = "droplet_create" /\ result[m] = NoResult
        BY <1>4 DEF DropletCreate, InFlight
      <4>2. heldBar'[m] = 0 /\ heldBar[m] = 0
        BY <1>4, <4>1 DEF DropletCreate, Return, heldBar, NoResult, TypeOK
      <4>3. \A n \in Machines \ {m} : heldBar'[n] = heldBar[n]
        BY <1>4 DEF DropletCreate, Return, heldBar, TypeOK
      <4>4. QED
        BY <4>2, <4>3 DEF heldBar
    <3>5. Account!Launch(m)
      BY <2>1, <3>1, <3>3, <3>4 DEF NewDroplet, Account!Launch, DropletIds,
                                    Account!Ids
    <3>6. QED
      BY <3>5 DEF Account!Next
  <2>2. CASE UNCHANGED <<droplets, nextId>>
    <3>1. Return(m, "create", "err", 0)
      BY <1>4, <2>2 DEF DropletCreate, NewDroplet, TypeOK
    <3>2. QED
      BY <1>0, <2>2, <3>1, ReturnQuiet
  <2>3. QED
    BY <1>4, <2>1, <2>2 DEF DropletCreate
<1>5. ASSUME NEW m \in Machines, CreatePoll(m) PROVE Account!Next
  <2>1. UNCHANGED <<droplets, nextId>> /\ pc[m] = "poll"
    BY <1>5 DEF CreatePoll
  <2>2. CASE Return(m, "create", "ok", did[m])
    BY <1>0, <2>1, <2>2, ReturnQuiet
  <2>3. CASE UNCHANGED <<pc, did, result>>
    BY <1>0, <2>1, <2>3, LocalQuiet DEF Moves
  <2>4. QED
    BY <1>5, <2>2, <2>3 DEF CreatePoll
<1>6. ASSUME NEW m \in Machines, GetDroplets(m) PROVE Account!Next
  <2>1. UNCHANGED <<droplets, nextId>> /\ pc[m] = "get" /\ result[m] = NoResult
    BY <1>6 DEF GetDroplets, InFlight
  <2>2. CASE Return(m, "get", "err", 0) \/ Return(m, "get", "notfound", 0)
    BY <1>0, <2>1, <2>2, ReturnQuiet
  <2>3. CASE \E i \in Found(m) : Return(m, "get", "ok", i)
    <3>1. PICK i \in Found(m) : Return(m, "get", "ok", i)
      BY <2>3
    <3>2. /\ i \in DropletIds /\ droplets[i].uid # "none"
          /\ \E j \in DropletIds : droplets[j].uid = m
      BY FoundSpec
    <3>3. heldBar' = [heldBar EXCEPT ![m] = i]
      <4>1. heldBar'[m] = i
        BY <3>1 DEF Return, heldBar, TypeOK
      <4>2. \A n \in Machines \ {m} : heldBar'[n] = heldBar[n]
        BY <3>1, ReturnMoves DEF Moves, heldBar
      <4>3. QED
        BY <4>1, <4>2 DEF heldBar
    <3>4. Account!Lookup(m)
      BY <2>1, <3>2, <3>3 DEF Account!Lookup, Account!Ids, Account!Nobody, DropletIds
    <3>5. QED
      BY <3>4 DEF Account!Next
  <2>4. QED
    BY <1>6, <2>2, <2>3 DEF GetDroplets
<1>7. ASSUME NEW m \in Machines, DeleteGet(m) PROVE Account!Next
  <2>1. UNCHANGED <<droplets, nextId>> /\ pc[m] = "del_get" /\ result[m] = NoResult
    BY <1>7 DEF DeleteGet, InFlight
  <2>2. CASE Return(m, "delete", "err", 0) \/ Return(m, "delete", "ok", 0)
    BY <1>0, <2>1, <2>2, ReturnQuiet
  <2>3. CASE \E i \in Found(m) : /\ pc' = [pc EXCEPT ![m] = "del_call"]
                                 /\ did' = [did EXCEPT ![m] = i]
             /\ UNCHANGED <<polls, result>>
    <3>1. PICK i \in Found(m) : /\ pc' = [pc EXCEPT ![m] = "del_call"]
                                /\ did' = [did EXCEPT ![m] = i]
      BY <2>3
    <3>2. /\ i \in DropletIds /\ droplets[i].uid # "none"
          /\ \E j \in DropletIds : droplets[j].uid = m
      BY FoundSpec
    <3>3. heldBar' = [heldBar EXCEPT ![m] = i]
      <4>1. heldBar'[m] = i
        BY <3>1 DEF heldBar, TypeOK
      <4>2. \A n \in Machines \ {m} : heldBar'[n] = heldBar[n]
        BY <2>3, <3>1 DEF heldBar, TypeOK
      <4>3. QED
        BY <4>1, <4>2 DEF heldBar
    <3>4. Account!Lookup(m)
      BY <2>1, <3>2, <3>3 DEF Account!Lookup, Account!Ids, Account!Nobody, DropletIds
    <3>5. QED
      BY <3>4 DEF Account!Next
  <2>4. QED
    BY <1>7, <2>2, <2>3 DEF DeleteGet
<1>8. ASSUME NEW m \in Machines, DeleteCall(m) PROVE Account!Next
  <2>1. pc[m] = "del_call" /\ did[m] \in DropletIds /\ heldBar[m] = did[m]
        /\ UNCHANGED nextId
    BY <1>8 DEF DeleteCall, InFlight, heldBar
  <2>2. PICK o \in {"ok", "notfound", "err"} : Return(m, "delete", o, did[m])
    BY <1>8 DEF DeleteCall
  <2>3. heldBar' = [heldBar EXCEPT ![m] = 0]
    <3>1. heldBar'[m] = 0
      BY <2>2 DEF Return, heldBar, TypeOK
    <3>2. \A n \in Machines \ {m} : heldBar'[n] = heldBar[n]
      BY <2>2, ReturnMoves DEF Moves, heldBar
    <3>3. QED
      BY <3>1, <3>2 DEF heldBar
  <2>4. CASE droplets' = [droplets EXCEPT ![did[m]] = NoDroplet]
    <3>1. [i \in DropletIds |-> droplets'[i].uid]
            = [[i \in DropletIds |-> droplets[i].uid] EXCEPT ![did[m]] = "none"]
      BY <2>1, <2>4 DEF NoDroplet, TypeOK
    <3>2. Account!Remove(m)
      BY <2>1, <2>3, <3>1 DEF Account!Remove, Account!Nobody, DropletIds
    <3>3. QED
      BY <3>2 DEF Account!Next
  <2>5. CASE UNCHANGED droplets
    BY <1>0, <2>1, <2>2, <2>5, ReturnQuiet
  <2>6. QED
    BY <1>8, <2>4, <2>5 DEF DeleteCall
<1>9. ASSUME NEW i \in DropletIds, DropletActive(i) PROVE UNCHANGED Account!avars
  BY <1>9 DEF DropletActive, Account!avars, heldBar, TypeOK, Droplet
<1>10. ASSUME NEW i \in DropletIds, DropletGone(i)
       PROVE Account!Next \/ UNCHANGED Account!avars
  <2>1. droplets[i] \in Droplet
    BY <1>10 DEF DropletGone, TypeOK
  <2>2. UNCHANGED <<nextId, heldBar>>
    BY <1>10 DEF DropletGone, heldBar
  <2>3. CASE droplets' = [droplets EXCEPT ![i].status = "off"]
    BY <2>1, <2>2, <2>3 DEF Account!avars, TypeOK
  <2>4. CASE droplets' = [droplets EXCEPT ![i] = NoDroplet]
    <3>1. Account!Vanish(i)
      BY <2>1, <2>2, <2>4 DEF Account!Vanish, Account!Nobody, NoDroplet,
                              Droplet, TypeOK
    <3>2. QED
      BY <3>1 DEF Account!Next, Account!Ids, DropletIds
  <2>5. QED
    BY <1>10, <2>3, <2>4 DEF DropletGone
<1>11. CASE Restart
  BY <1>0, <1>11, LostRelease DEF Restart, Account!Next
<1>12. CASE UNCHANGED vars
  BY <1>12 DEF vars, Account!avars, heldBar
<1>13. QED
  BY <1>1, <1>2, <1>3, <1>4, <1>5, <1>6, <1>7, <1>8, <1>9, <1>10, <1>11,
     <1>12 DEF Next

\* The initial states map to initial states of the account.
LEMMA AccountInit == Init => Account!Init
  BY DEF Init, Account!Init, Account!Ids, Account!Nobody, DropletIds, NoDroplet,
         heldBar, NoResult

\* RInv holds in every state.
LEMMA RInvHolds == Spec => []RInv
<1>1. Init => RInv
  BY TypeInit DEF Init, RInv, InFlight, NoResult
<1>2. RInv /\ [Next]_vars => RInv'
  BY TypeStep, InFlightStep DEF RInv
<1>3. QED
  BY <1>1, <1>2, PTL DEF Spec

(***************************************************************************)
(* The DigitalOcean provider implements DropletAccount under the mapping   *)
(* heldBar, for every set of machines, naming, quota and poll bound.       *)
(***************************************************************************)
THEOREM Refinement == Spec => AccountSpec
  BY AccountInit, RInvHolds, RefineStep, PTL DEF Spec, AccountSpec, Account!Spec

\* The account's promise holds of the provider.
LEMMA AccountPromise == Spec => []Account!OwnersValid
<1>1. /\ MaxDroplets \in Nat
      /\ {m \in Machines : SlugOK(m)} \subseteq Machines
      /\ Account!Nobody \notin Machines
  BY ConstAssumption DEF Account!Nobody
<1>2. AccountSpec => []Account!OwnersValid
  BY <1>1, Account!AccountSafety DEF AccountSpec
<1>3. QED
  BY <1>2, Refinement

\* In a state, the account's promise on owners is the valid-configuration property.
LEMMA ValidFromAccount == TypeOK /\ Account!OwnersValid => DropletsOnlyForValidConfig
<1> SUFFICES ASSUME TypeOK, Account!OwnersValid, NEW i \in DropletIds,
                    droplets[i] # NoDroplet
             PROVE  SlugOK(droplets[i].uid)
  BY DEF DropletsOnlyForValidConfig
<1>1. droplets[i].uid \in Machines
  BY DEF TypeOK, Droplet
<1>2. [j \in DropletIds |-> droplets[j].uid][i]
        \in {m \in Machines : SlugOK(m)} \cup {"none"}
  BY DEF Account!OwnersValid, Account!Ids, Account!Nobody, DropletIds
<1>3. droplets[i].uid # "none"
  BY <1>1, ConstAssumption
<1>4. QED
  BY <1>2, <1>3

(***************************************************************************)
(* No machine whose providerConfig does not decode, or names an OS without *)
(* an image, ever gets a droplet, for every configuration of the machines, *)
(* whichever droplets Get and Delete pick from the list.                   *)
(***************************************************************************)
THEOREM ValidConfigOnly == Spec => []DropletsOnlyForValidConfig
  BY ValidFromAccount, TypeCorrect, AccountPromise, PTL

=============================================================================
