# TLA+ verification of machine-controller (k0s fork)

This directory models the provider side of the machine controller: the SSH keypair bootstrap
(`src/pkg/ssh/configmap.go`) and the DigitalOcean provider (`src/unnamed/part_000`, package
`digitalocean`). The modules are checked with TLC on small instances and, where stated, proved
with TLAPS for every value of the constants.

## 1. Inventory

### Components

| Component | Source | State it keeps | Operations |
|---|---|---|---|
| Keypair bootstrapper | `configmap.go` `EnsureSSHKeypairSecret`, `keyFromSecret` | the secret `kube-system/machine-controller-ssh-key`, its `id_rsa` entry | Get secret; on NotFound generate, PEM-encode and Create; otherwise decode |
| Config decoder | `part_000` `getConfig`, `getSlugForOS` | none (pure) | decode envelope and DigitalOcean payload; map OS to image slug |
| Key registration | `part_000` `ensureSSHKeysExist` | the account's SSH key registry | GetByFingerprint; on 404 Keys.Create |
| Provider Create | `part_000` `Create` | droplets of the account | decode, register key, slug, Droplets.Create with the machine UID as tag, confirmation poll |
| Confirmation protocol | `part_000` `Create`, `wait.Poll` | the provisional droplet id, the poll count | Droplets.Get every 10 s until the UID tag shows or 5 min pass |
| Provider Get | `part_000` `Get` | none | Droplets.List, filter by name and UID tag; keeps `&droplet`, the address of the reused range variable, so it returns the last listed droplet once anything matched (Go 1.15) |
| Provider Delete | `part_000` `Delete` | droplets | Get, then Droplets.Delete by id; NotFound is success |
| Provider Validate | `part_000` `Validate` | none (reads the region/size catalogue) | field checks, OS check, region and size availability |
| State normaliser | `part_000` `doInstance.Status` | none | `new`→Starting, `active`→Running, else Stopped |
| Reconciler (external) | spec sections 2 and 7 | per machine: wanted or deleted | Get; Create when Get reports absence; Get after every Create; Delete once deleted |
| CI configuration | `.prow.yaml`, `build-push.yml` | – | not behaviour |

### Interactions

The controller (outside this repository) reconciles machines in parallel, one call in flight per
machine, and may call Create, Get or Delete in any order. All calls share one DigitalOcean account
(droplets and SSH key registry). Each controller process calls `EnsureSSHKeypairSecret` when it
starts; several processes can start at once and share the Kubernetes secret. Every remote call can
fail with a transport error, and a failed write may nevertheless have been applied.

### What is hard

* the Get-then-Create race on the secret and on the key registry (two writers, no lock);
* the confirmation poll: droplets get their tags only once running, the poll's error is discarded,
  and a failed status check ends the poll at once;
* same-named machines: only the UID tag tells their droplets apart;
* partial failures (a create or delete that failed on the wire but was applied) and restarts or
  panics of the controller in the middle of a call;
* a panic in one call ends every call in flight (one process).

### Properties that make each component correct

* Keypair: every caller that got a key holds the stored key (singleton); a losing first creator
  uses the winner's key; a corrupt secret is an error, not a crash.
* Key registration: idempotent, never crashes on a concurrent registration.
* Create: reports success only once Get can find the droplet; creates nothing for an invalid config;
  returns in bounded time.
* Get/Delete: never return or delete another machine's droplet (broken by the range-variable
  aliasing, `do_alias`); Delete of a gone machine succeeds.
* With the reconciler: no machine gets two droplets; a deleted machine keeps none.
* Normaliser: total, unknown statuses map to Stopped.

## 2. Modules

| Module | Models | Notes |
|---|---|---|
| `SSHKeypair` | `EnsureSSHKeypairSecret`, `keyFromSecret` | actions `Get`, `CreateSecret`, `Restart` (environment) |
| `DigitalOcean` | Create, Get, Delete, `ensureSSHKeysExist`, the poll, `doInstance.Status` | actions below |
| `DropletAccount` | what the provider promises the reconciler (abstract) | refined by `DigitalOcean` |
| `KeyStore` | what the keypair bootstrap promises its callers (abstract) | refined by `SSHKeypair` |
| `Validate` | `Validate` with the region/size catalogue | two request steps; proved well typed, no run |
| `Reconciler` | the external reconcile loop composed with `DigitalOcean` | modelled from the spec |
| `SSHKeypair_proofs`, `DigitalOcean_proofs`, `Validate_proofs`, `Reconciler_proofs` | theorems | TLAPS; `DropletAccount` and `KeyStore` hold their own theorem |
| `MC_SSHKeypair`, `MC_DigitalOcean`, `MC_Reconciler` | TLC instances | model values and small sets |

### SSHKeypair

`secret` is `Absent`, a key from `Keys` (a valid PEM PKCS#1 key), or one of `"no_index"` (no `id_rsa`
entry), `"not_pem"` (pem.Decode returns nil) and `"bad_der"` (x509 parse error). Each caller has a
`pc` (`get` → `create` → `done`), the key it generated (`gen`) and its `result`.
`Get(c)` is lines 24–31 and 54–57: a transport error, NotFound (key generation may fail, otherwise a
fresh key is chosen) or `keyFromSecret`. `CreateSecret(c)` is lines 33–52: success when the secret is
still absent, AlreadyExists returned as is, or a transport error that may hide an applied write.
`Restart(c)` is the process calling again; it is not fair.

`KeyStore` is the bootstrap's promise without requests, key generation or encoding: one store
(`Absent`, a key, or a corrupt value) written only while absent, and `holds[c]`, the key caller `c`
was handed. Actions: `Store` (a write nobody is told of, the transport error that hides an applied
Create), `StoreAndHand(c)` (a successful Create), `Hand(c)` (a Get of a stored key), `Drop(c)` (a
restart). `SSHKeypair` maps onto it with `store = secret` and `holds = heldKey`, the key of each
caller's "ok" result; `KeyStoreSpec == KS!Spec` is checked by TLC and proved.

### DigitalOcean

State: `droplets` (id → `[uid, status]` or `NoDroplet`), `nextId`, `keyRegistered`, and per machine
`pc`, `did` (droplet id held), `polls`, `result` (operation, outcome, droplet id and the
`instance.State` of the returned handle), plus `panicked`. A droplet's tags are visible exactly
when its status is not `new` (`Tagged`), as the comment at line 224 says. Droplet names are derived from
their UID's machine name, and the instance gives both machines the same name.

Actions: `Call(m)` (controller starts Create, Get or Delete), `KeysGet(m)` (getConfig, GetByFingerprint,
getSlugForOS), `KeysCreate(m)` (Keys.Create with its error dropped: a refusal or a transport error is
a panic that ends every call, `AllCallsLost`), `DropletCreate(m)` (Droplets.Create, quota refusal,
transport error maybe applied), `CreatePoll(m)` (one condition check of wait.Poll; the poll's error is
ignored and the provisional droplet returned), `GetDroplets(m)`, `DeleteGet(m)`, `DeleteCall(m)`
(godo's 404 for a droplet gone since the Get is returned as an error).
Get's loop (lines 279–284) stores `d = &droplet`; the build uses Go 1.15 (`.prow.yaml`), where the
range variable is one variable reused for every element, so once any droplet matched `d` points at
the last droplet of the whole list. `Matches(m)` is the filter, `Listed` the droplets
Droplets.List returns, and `Found(m)` what Get returns: nothing when nothing matches, otherwise any
listed droplet, since the API leaves the order of the list open and any droplet may come last.
`GetDroplets` and `DeleteGet` return or target a member of `Found(m)`.
Environment: `DropletActive(i)` (DigitalOcean starts the droplet and applies tags), `DropletGone(i)`
(a running droplet powered off, or any droplet destroyed outside the controller), `Restart`.
`doStatus` is `doInstance.Status`; `Handle` is the state of the handle a call returns: Get wraps the
listed droplet, Create the droplet of the Droplets.Create response (line 241), which is `new`.

### DropletAccount (abstract) and the refinement

`DropletAccount` states what the reconciler relies on, without polls, keys or transport: `owner[i]`
(whose UID droplet `i` carries), `issued` (next fresh id), `held[m]` (the droplet a machine's call
holds). Actions: `Launch` (only for valid machines, at a fresh id), `Lookup` (while the machine
owns a droplet, hand it some droplet of the account: the aliasing makes it any listed one),
`Remove` (delete the held droplet), `Release`, `Vanish`. Its invariant `OwnersValid` says every
droplet belongs to a valid machine; it holds although a lookup may cross machines.
`DigitalOcean` maps onto it with `owner = UID tag`, `issued = nextId`, `held = heldBar` (the target
of a Delete about to call Droplets.Delete, or the id of the last successful Get) and
`Valid = SlugOK`; `AccountSpec == Account!Spec` is checked by TLC and proved.

### Validate

`catalogue` holds the listed regions, the listed and the available sizes and, per size, the regions
offering it, consistent the way the API is. `ValidateRegions(m)` is lines 91–130 (decode, field and
OS checks, Regions.List and the region search), `ValidateSizes(m)` lines 132–164 (Sizes.List, the
availability and region checks). `CatalogueChange` may happen between the two. Validate has no
run: it is straight-line, and its verdict rests on the Sizes.List snapshot alone (a consistent
catalogue offers a size only in listed regions), so no interleaving makes a verdict wrong; only
type correctness is proved.

### Reconciler

Extends `DigitalOcean` with `desired[m]`. `Reconcile(m)` replaces `Call(m)`: the next call is
Delete once the machine is deleted, Create after a Get that reported absence, Get otherwise;
it stops after a successful Delete. `RequestDelete(m)` is the user deleting the Machine.

## 3. Runs

| Run | Checks | Shows |
|---|---|---|
| `ssh_keypair` (pass) | `TypeOK`, `KeyAgreement`, `KeyStoreSpec` | 2 processes, 3 keys, store starts empty, valid or corrupt: callers with a key agree with the store; the bootstrap refines `KeyStore` |
| `ssh_conflict` (violation) | `ConflictResolved` | the losing first creator returns AlreadyExists (spec 4.2 step 4 says re-read) |
| `ssh_notpem` (violation) | `CorruptIsError` | non-PEM bytes crash `keyFromSecret` (spec 4.2 step 3 says error) |
| `do_lifecycle` (pass) | `TypeOK`, `AccountSpec`, `EveryCallReturns` | 2 same-named machines, 3 droplet ids, 2 polls: the provider refines `DropletAccount` (fresh ids, valid owners, a lookup only while an own droplet exists, only the resolved droplet deleted); every call returns |
| `do_alias` (violation) | `LookupKeyedByUID` | Get of one machine returns the other same-named machine's droplet: the loop keeps the address of the reused range variable, so the last listed droplet is returned (spec 4.3, 8) |
| `do_badconfig` (pass) | `DropletsOnlyForValidConfig` | a machine with an undecodable config or unsupported OS never gets a droplet |
| `do_confirm` (violation) | `ConfirmedCreateVisible` | Create reports success before the UID tag is visible |
| `do_keyrace` (violation) | `NoNilKeyDereference` | a failed `Keys.Create` (concurrent registration or transport) panics |
| `do_delete404` (violation) | `DeleteIdempotent` | a droplet destroyed between Delete's Get and Droplets.Delete makes Delete fail with 404 |
| `do_handle` (violation) | `CreateReturnsConfirmedHandle` | a confirmed Create of a running droplet returns a handle in state Starting |
| `rec_duplicate` (violation) | `NoDuplicateDroplets` | the reconciler's Get misses an untagged droplet and Create makes a second one |
| `rec_leak` (violation) | `DeleteLeavesNothing` | Delete succeeds while an untagged droplet of the machine keeps running |

Bounds: two callers/machines are the least that race; three keys give each caller a fresh key plus
the stored one (`KeysAssumption`); three droplet ids allow a duplicate for one machine plus one for the
other and reach the quota refusal; `MaxPolls = 2` distinguishes "tagged on the first check", "not
yet, poll again" and the timeout (the code's 30 checks behave the same way, only longer).

Fairness (DigitalOcean only): weak fairness on every step of a call in flight (the call runs
synchronously in its worker). This assumes each HTTP request returns or fails: `getClient` sets no
timeout and the calls use `context.TODO()`, so a request that stalls forever is an environment
failure outside the model. Starting calls, DigitalOcean making a droplet active and restarts are
not fair: nothing in the code forces them. `EveryCallReturns` therefore
holds even if a droplet never becomes active, which is what the poll timeout is for. The
Reconciler runs check safety only and assume no fairness.

Every property of a passing run has a mutant in `PROJECT.json` (a plausible bug in the mapped code)
that TLC finds violating it.

## 4. Proofs

`SSHKeypair_proofs` proves, for any finite sets of callers and keys with
`KeysAssumption`:

* `TypeCorrect`: `Spec => []TypeOK`, from `Init => TypeOK` and the step lemma `TypeStep`
  (one case per action; `KeyFromSecretType` gives the type of `keyFromSecret`).
* `KeypairSingleton`: `Spec => []KeyAgreement`. `KeyAgreement` alone is not inductive: the proof
  uses `IInv == TypeOK /\ KeyAgreement`. The only step that changes the stored value is a
  `CreateSecret` while the secret is `Absent`; `TypeOK` and the assumption `Absent \notin Keys \cup
  {NoKey}` show no caller can hold an "ok" result at that moment, so the new value disagrees with no
  one. A stored key is never overwritten (Create fails with AlreadyExists), so results given out
  earlier stay in agreement.
* `Refinement`: `Spec => KeyStoreSpec`. The invariant is `RInv == TypeOK /\ Pending`, where
  `Pending` says a caller still in `get` or `create` has no result. Without it, a Get that fails
  would be a caller dropping a key it was never handed. `RefineStep` maps each step: a Get that
  decodes a key is `Hand` (lemma `KeyFromSecretOk`: "ok" only for a stored key), a successful
  Create is `StoreAndHand`, a transport error after an applied write is `Store`, a restart is
  `Drop`, and every error return is a stutter (lemmas `HeldUpdate`, `HeldKeep`: how a return
  changes `heldKey`).

`KeyStore` proves `StoreSafety`: every caller holding a key holds the stored one, under the
hypotheses that keys are store values and `Absent`, `NoKey` and the keys are distinct.

`DropletAccount` proves `AccountSafety` (`Spec => []OwnersValid`): for any machines, valid set
and quota, every droplet belongs to a valid machine, whatever droplets lookups hand out. The
inductive invariant `AccountInv` adds that ids from `issued` on are free: without it a `Launch`
could overwrite the owner of a live droplet.

`DigitalOcean_proofs` proves, for any finite set of machines, any naming, any quota and poll
bound (`ConstAssumption`):

* `TypeCorrect`: `Spec => []TypeOK` (lemmas `ReturnType`, `LostType`, `MoveType` type the
  per-machine updates; one step per action and, below it, per way the action ends).
* `Refinement`: `Spec => AccountSpec`. The invariant used is `RInv == TypeOK /\ InFlight`, where
  `InFlight` says a call in flight has no result yet, a droplet create is only reached with a valid
  config, and a Delete target and a Get's returned id are droplet ids. `RefineStep` shows each step
  is an account step or a stutter: `DropletCreate` that creates is `Launch`, a Get returning an id
  or `DeleteGet` resolving one is `Lookup` (lemma `FoundSpec`: what `Found(m)` returns is a listed,
  tagged droplet and the machine has one of its own), `DeleteCall` that deletes is `Remove`, a vanished droplet
  is `Vanish`, and the returns, restarts and panics that drop what a call held are `Release`.
* `ValidConfigOnly`: `Spec => []DropletsOnlyForValidConfig`, from `Account!AccountSafety`
  carried through the refinement (`AccountPromise`) and read back through the mapping in one state
  (`ValidFromAccount`).

`LookupKeyedByUID` is not proved: it is false of the code (`do_alias`).

`Reconciler_proofs` proves that the provider's guarantees survive being driven by the reconciler,
without the provider's fairness (`RSpec` has none). `ProviderView` shows each reconciler step is a
provider step or leaves the provider's variables alone: `Reconcile(m)` is a `Call(m)` (its
`NextCall` is one of the calls the provider accepts), `RequestDelete(m)` changes only `desired`.
The provider's step lemmas `TypeStep`, `InFlightStep` and `RefineStep` then apply unchanged, giving
`ComposedRefinement` (`RSpec => AccountSpec`) and `ComposedValidConfigOnly` (`RSpec => []DropletsOnlyForValidConfig`). The
reconciler's own failures, duplicate droplets and a leak after Delete, are about droplets Get cannot
see; they break neither promise, and stay TLC violations.

`Validate_proofs` proves `TypeCorrect` (`Spec => []TypeOK`): catalogue changes keep the
catalogue consistent, and both request steps return well-typed results.

Only model-checked: the liveness property `EveryCallReturns` of the provider (it needs
fairness and ENABLED, which these provers do not handle) and the violation runs. No safety
invariant or action property of a passing run is only model-checked.

## 5. Plan

1. (done) `SSHKeypair` with its proofs; `DigitalOcean` Create/Get/Delete with the confirmation poll,
   its type invariant proved.
2. (done) The abstract `DropletAccount` and its refinement, proved; idempotent delete; `Validate`
   with its proofs; `doInstance.Status` and the handle state; the `Reconciler` composition.
3. (done) `KeyStore` and the keypair bootstrap's refinement of it; the provider's guarantees
   proved for the reconciler composition.
4. Next: a `Reconciler` variant with the fixes the findings call for (Get matching untagged
   droplets by name and UID through the droplet's creation record, Create returning the polled
   droplet) and a passing duplicate-freedom run for it; the keypair bootstrap composed with Create
   (the public key registered is the stored one).

## 6. Not modelled

CI configuration; client construction and token source; `GetCloudConfig` (constant empty result);
instance name/ID/address formatting; the JSON layout of the config (abstracted to its outcomes);
key generation and PEM/x509 encoding (abstracted to which key or corrupt form is stored); the
content of the catalogue beyond the machine's own region and size; droplets of the account
that no machine created (they are only other candidates for Get's aliasing); pagination (the code
lists one page of 1000 droplets).
