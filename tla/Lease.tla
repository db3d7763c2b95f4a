------------------------------- MODULE Lease -------------------------------
(***************************************************************************)
(* The Lease object behind every lock group, and what pkg/locker computes   *)
(* from it.                                                                *)
(*                                                                         *)
(* Instants are represented by their distance to the present: the age of a  *)
(* lease is now - RenewTime.  Ages stop growing at AgeCap, above every      *)
(* duration, so that the model is finite and time never ends.  The unit is  *)
(* the precision of LeaseDurationSeconds; the clocks of the hosts agree.    *)
(***************************************************************************)
EXTENDS Integers

CONSTANTS
  Caller,      \* the reconcilers that call the locker, on all hosts
  Identity,    \* lock identities: the hostnames (cmd/main.go gives one per process)
  id,          \* id[p]: the identity under which caller p locks
  NoHolder,    \* HolderIdentity = nil
  NoLease,     \* the Lease object does not exist
  Durations,   \* the TTLs asked for; 0 is a TTL below one second
  Backdate,    \* how far Unlock moves RenewTime into the past (2 hours)
  AgeCap       \* ages saturate here

LeaseSpec == [holder : Identity \cup {NoHolder}, age : 0..AgeCap, dur : Durations \cup {0}]

ASSUME ConstantsAssumption ==
  /\ id \in [Caller -> Identity]
  /\ NoHolder \notin Identity
  /\ NoLease \notin LeaseSpec
  /\ Durations \subseteq Nat
  /\ AgeCap \in Nat
  /\ Backdate \in 0..AgeCap
  /\ \A d \in Durations : d < AgeCap

(* RenewTime + LeaseDurationSeconds is before now.                         *)
isExpired(l) == l.age > l.dur

isHeldByMe(l, p) == l.holder = id[p]

(* Variant: the holder is set to an empty name instead of nil.             *)
ReleasedToNobody(l) == [l EXCEPT !.holder = "", !.age = Backdate]

(* The spec Unlock writes: no holder, renewed two hours ago, and the        *)
(* duration left as it was.                                                *)
Released(l) == [l EXCEPT !.holder = NoHolder, !.age = Backdate]

(* One unit of time passes.                                                *)
Older(n) == IF n < AgeCap THEN n + 1 ELSE n

OlderLease(l) == IF l = NoLease THEN l ELSE [l EXCEPT !.age = Older(@)]

(* A caller that locks under an identity no other caller uses.             *)
Solo(p) == \A q \in Caller \ {p} : id[q] # id[p]
=============================================================================
