--------------------------- MODULE MCApproval ---------------------------
(***************************************************************************)
(* An upgrade group for TLC: nodes named by model values, which are also    *)
(* their lock identities.                                                  *)
(***************************************************************************)
EXTENDS Approval, TLC

Hostname == [n \in Caller |-> n]

TTLs == 1..Period
=============================================================================
