--------------------------- MODULE MCLeaseLocker ---------------------------
(***************************************************************************)
(* The lease lock for TLC: hosts named by model values, each running one    *)
(* caller of this lease.                                                   *)
(***************************************************************************)
EXTENDS LeaseLocker, TLC

Hostname == [p \in Caller |-> p]

Hosts == Permutations(Caller)
=============================================================================
