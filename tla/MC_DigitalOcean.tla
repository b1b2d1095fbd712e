-------------------------- MODULE MC_DigitalOcean --------------------------
(* Small instances of DigitalOcean: two machines with the same name.       *)
EXTENDS DigitalOcean, TLC

CONSTANTS m1, m2

MCMachines == {m1, m2}

\* Both machines are called "worker": only the UID tag tells them apart.
MCMachineName == [m \in MCMachines |-> "worker"]

\* Both machines have a valid providerConfig.
MCConfigOK == [m \in MCMachines |-> "ok"]

\* One providerConfig does not decode, the other names an unsupported OS.
MCConfigBad == (m1 :> "bad_json") @@ (m2 :> "bad_os")
=============================================================================
