------------------------------ MODULE Validate ------------------------------
(***************************************************************************)
(* Validate of the DigitalOcean provider (src/unnamed/part_000).           *)
(*                                                                         *)
(* Validate decodes the providerConfig, checks that token, region and size *)
(* are set and that the OS has an image, then reads the account's region   *)
(* list and, in a second request, its size list, and accepts the machine  *)
(* only if its region is listed and its size is available in that region. *)
(* The catalogue is DigitalOcean's and changes on its own, also between    *)
(* the two requests.  A catalogue is consistent the way the API is: a size *)
(* is offered only in listed regions, and only a listed size is available. *)
(***************************************************************************)
EXTENDS Naturals

CONSTANTS
    Machines,    \* machine UIDs
    Config,      \* how each machine's providerConfig decodes, in ConfigKinds
    Regions,     \* region slugs DigitalOcean may list
    Sizes,       \* size slugs DigitalOcean may list
    CfgRegion,   \* c.Region of each machine, in Regions
    CfgSize      \* c.Size of each machine, in Sizes

ConfigKinds == {"ok", "bad_json", "no_field", "bad_os"}

Catalogue ==
    {c \in [regions : SUBSET Regions, sizes : SUBSET Sizes,
            available : SUBSET Sizes, where : [Sizes -> SUBSET Regions]] :
        /\ c.available \subseteq c.sizes
        /\ \A s \in Sizes : c.where[s] \subseteq c.regions}

Outcomes == {"none", "ok", "err"}

VARIABLES
    catalogue,  \* regions and sizes of the account as the API reports them
    pc,         \* "idle", "start" (up to Regions.List) or "sizes"
    result      \* what each machine's last Validate returned

vars == <<catalogue, pc, result>>

TypeOK ==
    /\ catalogue \in Catalogue
    /\ pc \in [Machines -> {"idle", "start", "sizes"}]
    /\ result \in [Machines -> Outcomes]

Init ==
    /\ catalogue \in Catalogue
    /\ pc = [m \in Machines |-> "idle"]
    /\ result = [m \in Machines |-> "none"]

\* Validate of machine m returns.
Return(m, outcome) ==
    /\ pc' = [pc EXCEPT ![m] = "idle"]
    /\ result' = [result EXCEPT ![m] = outcome]

\* The controller calls Validate for a machine spec it has accepted.
Call(m) ==
    /\ pc[m] = "idle"
    /\ pc' = [pc EXCEPT ![m] = "start"]
    /\ result' = [result EXCEPT ![m] = "none"]
    /\ UNCHANGED catalogue

(***************************************************************************)
(* getConfig, the three field checks, getSlugForOS, then Regions.List and  *)
(* the search for c.Region in it.                                          *)
(***************************************************************************)
ValidateRegions(m) ==
    /\ pc[m] = "start"
    /\ \/ /\ Config[m] # "ok"
          /\ Return(m, "err")
       \/ /\ Config[m] = "ok"
          /\ Return(m, "err")
       \/ /\ Config[m] = "ok"
          /\ CfgRegion[m] \notin catalogue.regions
          /\ Return(m, "err")
       \/ /\ Config[m] = "ok"
          /\ CfgRegion[m] \in catalogue.regions
          /\ pc' = [pc EXCEPT ![m] = "sizes"]
          /\ UNCHANGED result
    /\ UNCHANGED catalogue

(***************************************************************************)
(* Sizes.List and the search for c.Size: a transport error, a size that is *)
(* not available, a size not offered in c.Region and a size not listed are *)
(* errors; otherwise Validate accepts the machine.                         *)
(***************************************************************************)
ValidateSizes(m) ==
    /\ pc[m] = "sizes"
    /\ \/ Return(m, "err")
       \/ /\ CfgSize[m] \in catalogue.sizes \ catalogue.available
          /\ Return(m, "err")
       \/ /\ CfgSize[m] \in catalogue.available
          /\ CfgRegion[m] \notin catalogue.where[CfgSize[m]]
          /\ Return(m, "err")
       \/ /\ CfgSize[m] \in catalogue.available
          /\ CfgRegion[m] \in catalogue.where[CfgSize[m]]
          /\ Return(m, "ok")
       \/ /\ CfgSize[m] \notin catalogue.sizes
          /\ Return(m, "err")
    /\ UNCHANGED catalogue

\* DigitalOcean opens or withdraws regions and sizes.
CatalogueChange ==
    /\ catalogue' \in Catalogue \ {catalogue}
    /\ UNCHANGED <<pc, result>>

Next ==
    \/ \E m \in Machines : Call(m) \/ ValidateRegions(m) \/ ValidateSizes(m)
    \/ CatalogueChange

Spec == Init /\ [][Next]_vars

=============================================================================
