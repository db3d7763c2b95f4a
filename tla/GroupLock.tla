----------------------------- MODULE GroupLock -----------------------------
(***************************************************************************)
(* What the Locker interface promises its callers, each operation in one    *)
(* step: a lease that is absent or has run out can be acquired, the holder  *)
(* may enter again, only the holder's identity gives it up.  LeaseLocker    *)
(* implements it request by request.                                       *)
(***************************************************************************)
EXTENDS Lease

VARIABLES
  lease,    \* the Lease object, or NoLease
  grant,    \* the lease as granted to a caller that holds the lock
  deleted   \* an operator has deleted the lease by hand

lockVars == <<lease, grant, deleted>>

LockTypeOK ==
  /\ lease \in LeaseSpec \cup {NoLease}
  /\ grant \in [Caller -> LeaseSpec \cup {NoLease}]
  /\ deleted \in BOOLEAN

LockInit ==
  /\ lease = NoLease
  /\ grant = [p \in Caller |-> NoLease]
  /\ deleted = FALSE

-----------------------------------------------------------------------------
Obtainable == lease # NoLease => isExpired(lease)

Locked(p) == lease # NoLease /\ isHeldByMe(lease, p)

Granted(p, l) == grant' = [grant EXCEPT ![p] = l]

(* A new lease of duration d, renewed a units ago (when the call started).  *)
NewLease(p, d, a) == [holder |-> id[p], age |-> a, dur |-> d]

(* Variant: the lease is taken without a look at its expiry.               *)
AcquireAnyway(p, d, a) ==
  /\ ~Locked(p)
  /\ lease' = NewLease(p, d, a)
  /\ Granted(p, NewLease(p, d, a))
  /\ UNCHANGED deleted

(* LockFor obtains the lease.                                              *)
Acquire(p, d, a) ==
  /\ Obtainable
  /\ ~Locked(p)
  /\ lease' = NewLease(p, d, a)
  /\ Granted(p, NewLease(p, d, a))
  /\ UNCHANGED deleted

(* LockFor finds the lease in its own hands, expired or not.               *)
Reenter(p) ==
  /\ Locked(p)
  /\ Granted(p, lease)
  /\ UNCHANGED <<lease, deleted>>

(* LockFor obtains the lease but its caller is told of an error.           *)
AcquireUnawares(p, d, a) ==
  /\ Obtainable
  /\ ~Locked(p)
  /\ lease' = NewLease(p, d, a)
  /\ Granted(p, NoLease)
  /\ UNCHANGED deleted

(* Unlock gives the lease up.                                              *)
Release(p) ==
  /\ Locked(p)
  /\ lease' = Released(lease)
  /\ Granted(p, NoLease)
  /\ UNCHANGED deleted

(* The caller's protected work ends, or its process dies.                  *)
Leave(p) ==
  /\ Granted(p, NoLease)
  /\ UNCHANGED <<lease, deleted>>

(* An operator deletes a stuck lease, as the runbook says.                 *)
Delete ==
  /\ lease # NoLease
  /\ lease' = NoLease
  /\ deleted' = TRUE
  /\ UNCHANGED grant

LockTick ==
  /\ lease' = OlderLease(lease)
  /\ grant' = [p \in Caller |-> OlderLease(grant[p])]
  /\ UNCHANGED deleted

LockNext ==
  \/ \E p \in Caller, d \in Durations, a \in 0..AgeCap :
       Acquire(p, d, a) \/ AcquireUnawares(p, d, a)
  \/ \E p \in Caller : Reenter(p) \/ Release(p) \/ Leave(p)
  \/ Delete
  \/ LockTick

LockSpec == LockInit /\ [][LockNext]_lockVars

-----------------------------------------------------------------------------
(* The lock was granted to p and the lease it was granted has not run out.  *)
HoldsLive(p) == grant[p] # NoLease /\ ~isExpired(grant[p])

(***************************************************************************)
(* Only one member of a lock group works at a time, as long as each one     *)
(* finishes within its lease (docs/api/configset.md lock_group,             *)
(* docs/api/managednode.md upgrade.group).  Two reconcilers of one host     *)
(* share an identity and release each other's lease, and deleting the      *)
(* lease by hand takes it from a holder at work: both are excluded here.    *)
(***************************************************************************)
MutualExclusion ==
  ~deleted =>
    \A p, q \in Caller :
      p # q /\ Solo(p) /\ Solo(q) /\ HoldsLive(p) => ~HoldsLive(q)
=============================================================================
