---------------------------- MODULE LeaseLocker ----------------------------
(***************************************************************************)
(* The distributed lock of pkg/locker: a Kubernetes Lease object that every *)
(* caller creates, reads and updates through the API server.               *)
(*                                                                         *)
(* Each API request (Create, Get, Update) is one step, so the steps of two  *)
(* callers interleave between a Get and the Update that follows it.  The    *)
(* API server rejects an Update whose copy is not the current version of   *)
(* the object; fresh is the set of callers whose copy is still current,   *)
(* which is all the code can learn from a resourceVersion.                 *)
(*                                                                         *)
(* Instants are ages, as in module Lease: since[p] is now minus the         *)
(* currentMicroTime of the call p is executing.                            *)
(***************************************************************************)
EXTENDS Lease

VARIABLES
  lease,    \* the Lease object, or NoLease
  pc,       \* the API request each caller makes next
  ctxDone,  \* callers whose reconcile context is cancelled or timed out
  since,    \* age of the instant LockFor read at its start
  ttl,      \* the duration LockFor was given
  fresh,    \* callers whose copy of the lease is still the current version
  grant,    \* the lease as granted to a caller LockFor returned nil to
  deleted   \* an operator has deleted the lease by hand

vars == <<lease, pc, ctxDone, since, ttl, fresh, grant, deleted>>

(***************************************************************************)
(* "create", "get" and "update" are the requests of LockFor, "uget" and     *)
(* "uupdate" those of Unlock.  A "held" caller is between the two: it does  *)
(* the work the lock protects.                                             *)
(***************************************************************************)
PC == {"idle", "create", "get", "update", "held", "uget", "uupdate"}

TypeOK ==
  /\ lease \in LeaseSpec \cup {NoLease}
  /\ pc \in [Caller -> PC]
  /\ ctxDone \subseteq Caller
  /\ since \in [Caller -> 0..AgeCap]
  /\ ttl \in [Caller -> Durations \cup {0}]
  /\ fresh \subseteq Caller
  /\ grant \in [Caller -> LeaseSpec \cup {NoLease}]
  /\ deleted \in BOOLEAN

Init ==
  /\ lease = NoLease
  /\ pc = [p \in Caller |-> "idle"]
  /\ ctxDone = {}
  /\ since = [p \in Caller |-> 0]
  /\ ttl = [p \in Caller |-> 0]
  /\ fresh = {}
  /\ grant = [p \in Caller |-> NoLease]
  /\ deleted = FALSE

-----------------------------------------------------------------------------
(* What LockFor and Unlock compute from a lease.                           *)

(* The spec LockFor writes: renewed when the call started, not when the     *)
(* write is made.                                                          *)
lockData(p) == [holder |-> id[p], age |-> since[p], dur |-> ttl[p]]

Locked(p) == lease # NoLease /\ isHeldByMe(lease, p)

-----------------------------------------------------------------------------
(* Steps shared by the requests.                                           *)

Goto(p, label) == pc' = [pc EXCEPT ![p] = label]

(* A write makes every copy read before it stale.                          *)
Write(l) ==
  /\ lease' = l
  /\ fresh' = {}

(* The call returns with an error, or has nothing more to do.  The context  *)
(* ends with the reconcile that made the call.                             *)
Return(p) ==
  /\ Goto(p, "idle")
  /\ ctxDone' = ctxDone \ {p}
  /\ since' = [since EXCEPT ![p] = 0]
  /\ ttl' = [ttl EXCEPT ![p] = 0]
  /\ grant' = [grant EXCEPT ![p] = NoLease]
  /\ UNCHANGED deleted

(* LockFor returns nil: the caller believes it holds l.                    *)
Acquired(p, l) ==
  /\ Goto(p, "held")
  /\ grant' = [grant EXCEPT ![p] = l]
  /\ since' = [since EXCEPT ![p] = 0]
  /\ ttl' = [ttl EXCEPT ![p] = 0]
  /\ UNCHANGED <<ctxDone, deleted>>

-----------------------------------------------------------------------------
(* LockFor.  A reconcile starts it with a context of its own.              *)

LockFor(p, d) ==
  /\ pc[p] = "idle"
  /\ Goto(p, "create")
  /\ ttl' = [ttl EXCEPT ![p] = d]
  /\ UNCHANGED <<lease, ctxDone, since, fresh, grant, deleted>>

(* The API server rejects a duration of zero seconds before it looks the    *)
(* name up.                                                                *)
Create(p) ==
  /\ pc[p] = "create"
  /\ p \notin ctxDone
  /\ ttl[p] > 0
  /\ \/ /\ lease = NoLease
        /\ Write(lockData(p))
        /\ Acquired(p, lockData(p))
     \/ /\ lease # NoLease
        /\ Goto(p, "get")
        /\ UNCHANGED <<lease, ctxDone, since, ttl, fresh, grant, deleted>>

(* Variant: the expiry is not tested before the Update.                    *)
GetUntimed(p) ==
  /\ pc[p] = "get"
  /\ p \notin ctxDone
  /\ lease # NoLease
  /\ \/ /\ isHeldByMe(lease, p)
        /\ Acquired(p, lease)
        /\ UNCHANGED <<lease, fresh>>
     \/ /\ ~isHeldByMe(lease, p)
        /\ Goto(p, "update")
        /\ fresh' = fresh \cup {p}
        /\ UNCHANGED <<lease, ctxDone, since, ttl, grant, deleted>>

(* Variant: a lease already held is renewed.                               *)
GetRenewing(p) ==
  /\ pc[p] = "get"
  /\ p \notin ctxDone
  /\ lease # NoLease
  /\ isHeldByMe(lease, p)
  /\ Write(lockData(p))
  /\ Acquired(p, lockData(p))

(* One turn of the retry loop: who holds the lease decides the outcome, and *)
(* only an expired lease of another identity is worth an Update.            *)
Get(p) ==
  /\ pc[p] = "get"
  /\ p \notin ctxDone
  /\ lease # NoLease
  /\ \/ /\ isHeldByMe(lease, p)
        /\ Acquired(p, lease)
        /\ UNCHANGED <<lease, fresh>>
     \/ /\ ~isHeldByMe(lease, p)
        /\ ~isExpired(lease)
        /\ Return(p)
        /\ UNCHANGED <<lease, fresh>>
     \/ /\ ~isHeldByMe(lease, p)
        /\ isExpired(lease)
        /\ Goto(p, "update")
        /\ fresh' = fresh \cup {p}
        /\ UNCHANGED <<lease, ctxDone, since, ttl, grant, deleted>>

(* Variant: the Update does not carry the resourceVersion it read.          *)
UpdateBlindly(p) ==
  /\ pc[p] = "update"
  /\ p \notin ctxDone
  /\ lease # NoLease
  /\ Write(lockData(p))
  /\ Acquired(p, lockData(p))

Update(p) ==
  /\ pc[p] = "update"
  /\ p \notin ctxDone
  /\ lease # NoLease
  /\ \/ /\ p \in fresh
        /\ Write(lockData(p))
        /\ Acquired(p, lockData(p))
     \/ /\ p \notin fresh
        /\ Goto(p, "get")
        /\ UNCHANGED <<lease, ctxDone, since, ttl, fresh, grant, deleted>>

-----------------------------------------------------------------------------
(* Unlock, called at the end of the protected work ...                     *)

Unlock(p) ==
  /\ pc[p] = "held"
  /\ UNCHANGED <<lease, fresh>>
  /\ \/ /\ p \in ctxDone
        /\ Return(p)
     \/ /\ p \notin ctxDone
        /\ Goto(p, "uget")
        /\ grant' = [grant EXCEPT ![p] = NoLease]
        /\ UNCHANGED <<ctxDone, since, ttl, deleted>>

(* ... or by a reconcile that finds the lease of an earlier one.           *)
UnlockLeftover(p) ==
  /\ pc[p] = "idle"
  /\ Locked(p)
  /\ Goto(p, "uget")
  /\ UNCHANGED <<lease, ctxDone, since, ttl, fresh, grant, deleted>>

(* Variant: the holder is not compared with the caller.                    *)
UnlockAnyones(p) ==
  /\ pc[p] = "uget"
  /\ p \notin ctxDone
  /\ lease # NoLease
  /\ Goto(p, "uupdate")
  /\ fresh' = fresh \cup {p}
  /\ UNCHANGED <<lease, ctxDone, since, ttl, grant, deleted>>

UnlockGet(p) ==
  /\ pc[p] = "uget"
  /\ p \notin ctxDone
  /\ UNCHANGED lease
  /\ \/ /\ ~Locked(p)
        /\ Return(p)
        /\ UNCHANGED fresh
     \/ /\ Locked(p)
        /\ Goto(p, "uupdate")
        /\ fresh' = fresh \cup {p}
        /\ UNCHANGED <<ctxDone, since, ttl, grant, deleted>>

UnlockUpdate(p) ==
  /\ pc[p] = "uupdate"
  /\ p \notin ctxDone
  /\ lease # NoLease
  /\ \/ /\ p \in fresh
        /\ Write(Released(lease))
        /\ Return(p)
     \/ /\ p \notin fresh
        /\ Goto(p, "uget")
        /\ UNCHANGED <<lease, ctxDone, since, ttl, fresh, grant, deleted>>

(* The caller keeps the lease past its work: handleUpgrade leaves it to a   *)
(* later reconcile.                                                        *)
Keep(p) ==
  /\ pc[p] = "held"
  /\ Return(p)
  /\ UNCHANGED <<lease, fresh>>

-----------------------------------------------------------------------------
(* What can go wrong.                                                      *)

(* A request fails and the call returns the error.  An error leaves open    *)
(* whether the API server applied the write.                               *)
Fail(p) ==
  /\ pc[p] \in PC \ {"idle", "held"}
  /\ Return(p)
  /\ \/ /\ fresh' = fresh \ {p}
        /\ UNCHANGED lease
     \/ /\ pc[p] = "create" /\ lease = NoLease /\ ttl[p] > 0
        /\ Write(lockData(p))
     \/ /\ pc[p] = "update" /\ lease # NoLease /\ p \in fresh
        /\ Write(lockData(p))
     \/ /\ pc[p] = "uupdate" /\ lease # NoLease /\ p \in fresh
        /\ Write(Released(lease))

(* The context ends: the loops stop and the next request fails.            *)
Cancel(p) ==
  /\ pc[p] # "idle"
  /\ p \notin ctxDone
  /\ ctxDone' = ctxDone \cup {p}
  /\ UNCHANGED <<lease, pc, since, ttl, fresh, grant, deleted>>

(* The process dies, with everything it knew; the lease survives it.       *)
Crash(p) ==
  /\ pc[p] # "idle"
  /\ Return(p)
  /\ fresh' = fresh \ {p}
  /\ UNCHANGED lease

(* docs/runbooks/NodeManagerUpgradeFailed.md: delete a stuck lease.         *)
DeleteLease ==
  /\ lease # NoLease
  /\ Write(NoLease)
  /\ deleted' = TRUE
  /\ UNCHANGED <<pc, ctxDone, since, ttl, grant>>

-----------------------------------------------------------------------------
Calling(p) == pc[p] \in {"create", "get", "update"}

Tick ==
  /\ lease' = OlderLease(lease)
  /\ grant' = [p \in Caller |-> OlderLease(grant[p])]
  /\ since' = [p \in Caller |-> IF Calling(p) THEN Older(since[p]) ELSE since[p]]
  /\ UNCHANGED <<pc, ctxDone, ttl, fresh, deleted>>

Step(p) ==
  \/ \E d \in Durations : LockFor(p, d)
  \/ Create(p)
  \/ Get(p)
  \/ Update(p)
  \/ Unlock(p)
  \/ UnlockLeftover(p)
  \/ UnlockGet(p)
  \/ UnlockUpdate(p)
  \/ Keep(p)
  \/ Fail(p)
  \/ Cancel(p)
  \/ Crash(p)

Next ==
  \/ \E p \in Caller : Step(p)
  \/ DeleteLease
  \/ Tick

Spec == Init /\ [][Next]_vars

(* Time passes; nothing is assumed of the callers.                         *)
FairSpec == Spec /\ WF_vars(Tick)

-----------------------------------------------------------------------------
(* Properties.                                                             *)

(***************************************************************************)
(* Every step of the request-by-request lock is a step of the atomic one, or *)
(* changes nothing its callers can see: interleaved, retried, failed and     *)
(* half-reported requests never produce a lease the Locker interface does    *)
(* not allow (leaselocker.go:38-186 against locker.go:10-21).               *)
(***************************************************************************)
GL == INSTANCE GroupLock WITH lease <- lease, grant <- grant, deleted <- deleted

ImplementsGroupLock == GL!LockSpec

(***************************************************************************)
(* Only one member of a lock group works at a time, as long as each one     *)
(* finishes within its lease, whatever requests are lost, interleaved or    *)
(* retried (leaselocker.go LockFor/Unlock).                                *)
(***************************************************************************)
MutualExclusion == GL!MutualExclusion

(***************************************************************************)
(* A lease changes hands only through expiry, and loses its holder only to  *)
(* a request of the holder's own identity: an Unlock that comes after the   *)
(* lease was taken over leaves the new holder alone (leaselocker.go:92-101, *)
(* 139-154).                                                               *)
(***************************************************************************)
HandoverStep ==
  lease # NoLease /\ lease' # NoLease /\ lease'.holder # lease.holder =>
    \/ lease'.holder # NoHolder /\ isExpired(lease)
    \/ /\ lease'.holder = NoHolder
       /\ \E p \in Caller : isHeldByMe(lease, p) /\ pc[p] = "uupdate" /\ pc'[p] = "idle"

Handover == [][HandoverStep]_vars

(***************************************************************************)
(* No lease blocks its group forever: whatever becomes of the holder, a     *)
(* lease that is live runs out, since LockFor never renews the lease it     *)
(* finds in its own hands (leaselocker.go:83-90).                          *)
(***************************************************************************)
LeaseRunsOut == []<>GL!Obtainable

(***************************************************************************)
(* A released lease can be taken at once.  leaselocker.go:146 "Prepare to   *)
(* release ownership and explicitly expire the Lease".                     *)
(***************************************************************************)
ReleasedIsObtainable ==
  lease # NoLease /\ lease.holder = NoHolder => GL!Obtainable
=============================================================================
