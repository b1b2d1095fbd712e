--------------------------- MODULE MC_SSHKeypair ---------------------------
(* Small instance of SSHKeypair: two controller processes, three keys.     *)
EXTENDS SSHKeypair

CONSTANTS p1, p2, k1, k2, k3

MCCallers == {p1, p2}

MCKeys == {k1, k2, k3}

\* The store starts empty, holding a valid key, or holding any corrupt form.
MCInitialSecrets == {Absent, k1} \cup Corrupt

\* The store starts empty: the first-creator race.
MCEmptyStore == {Absent}

\* The store starts with bytes that are not PEM.
MCNotPEMStore == {"not_pem"}
=============================================================================
