------------------------------ MODULE MCLeaseStore -----------------------------
(***************************************************************************)
(* Instances of the lease store for TLC.                                   *)
(***************************************************************************)
EXTENDS LeaseStore, TLC

CONSTANTS h1, h2

Holders == Permutations({h1, h2})

================================================================================
