---------------------------- MODULE MC_Reconciler ----------------------------
(* Small instances of Reconciler: two machines with the same name and a    *)
(* valid providerConfig.                                                   *)
EXTENDS Reconciler, TLC

CONSTANTS m1, m2

MCMachines == {m1, m2}

MCMachineName == [m \in MCMachines |-> "worker"]

MCConfigOK == [m \in MCMachines |-> "ok"]
=============================================================================
