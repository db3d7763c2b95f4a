------------------------- MODULE LeaseLocker_proofs -------------------------
(***************************************************************************)
(* Proofs about the lease lock, for any callers, identities, durations and  *)
(* backdating.                                                             *)
(***************************************************************************)
EXTENDS LeaseLocker, TLAPS

-----------------------------------------------------------------------------
(* Leases.                                                                  *)

(* Ages and durations of a lease are numbers.                              *)
LEMMA LeaseFields ==
  ASSUME NEW l \in LeaseSpec
  PROVE  l.age \in Nat /\ l.dur \in Nat
<1>1. l.age \in 0..AgeCap /\ l.dur \in Durations \cup {0}
  BY DEF LeaseSpec
<1>2. l.age \in Nat
  BY <1>1, ConstantsAssumption
<1>3. Durations \cup {0} \subseteq Nat
  BY ConstantsAssumption
<1>4. QED
  BY <1>1, <1>2, <1>3

(* What Unlock writes is a lease without a holder.                         *)
LEMMA ReleasedType ==
  ASSUME NEW l \in LeaseSpec
  PROVE  Released(l) \in LeaseSpec /\ Released(l).holder = NoHolder
BY ConstantsAssumption, Zenon DEF Released, LeaseSpec

(* Time makes an age no smaller, and keeps it below the cap.               *)
LEMMA OlderType ==
  ASSUME NEW n \in 0..AgeCap
  PROVE  Older(n) \in 0..AgeCap /\ Older(n) >= n
BY ConstantsAssumption DEF Older

(* Time changes nothing of a lease but its age.                            *)
LEMMA OlderLeaseType ==
  ASSUME NEW l \in LeaseSpec \cup {NoLease}
  PROVE  /\ OlderLease(l) \in LeaseSpec \cup {NoLease}
         /\ OlderLease(l) = NoLease <=> l = NoLease
         /\ l # NoLease => /\ OlderLease(l).holder = l.holder
                           /\ OlderLease(l).dur = l.dur
                           /\ OlderLease(l).age >= l.age
<1>1. CASE l = NoLease
  BY <1>1 DEF OlderLease
<1>2. CASE l \in LeaseSpec
  <2>1. l # NoLease
    BY <1>2, ConstantsAssumption
  <2>2. l.age \in 0..AgeCap
    BY <1>2 DEF LeaseSpec
  <2>3. Older(l.age) \in 0..AgeCap /\ Older(l.age) >= l.age
    BY <2>2, OlderType
  <2>4. OlderLease(l) = [l EXCEPT !.age = Older(l.age)]
    BY <2>1 DEF OlderLease
  <2>5. OlderLease(l) \in LeaseSpec
    BY <1>2, <2>3, <2>4 DEF LeaseSpec
  <2>6. QED
    BY <1>2, <2>1, <2>3, <2>4, <2>5, ConstantsAssumption DEF LeaseSpec
<1>3. QED
  BY <1>1, <1>2

-----------------------------------------------------------------------------
(* The lock.                                                                *)

(***************************************************************************)
(* The requests of a caller build well-formed leases.                      *)
(***************************************************************************)
LEMMA LockDataType ==
  ASSUME TypeOK, NEW p \in Caller
  PROVE  lockData(p) \in LeaseSpec
BY ConstantsAssumption DEF TypeOK, lockData, LeaseSpec

-----------------------------------------------------------------------------
(***************************************************************************)
(* Every step keeps the types.                                             *)
(***************************************************************************)
LEMMA TypeStep == TypeOK /\ [Next]_vars => TypeOK'
<1> SUFFICES ASSUME TypeOK, [Next]_vars
             PROVE  TypeOK'
  OBVIOUS
<1> USE ConstantsAssumption DEF TypeOK
<1>1. ASSUME NEW p \in Caller, NEW d \in Durations, LockFor(p, d)
      PROVE  TypeOK'
  BY <1>1 DEF LockFor, Goto, PC
<1>2. ASSUME NEW p \in Caller, Create(p)
      PROVE  TypeOK'
  BY <1>2, LockDataType DEF Create, Write, Acquired, Goto, PC
<1>3. ASSUME NEW p \in Caller, Get(p)
      PROVE  TypeOK'
  BY <1>3 DEF Get, Acquired, Return, Goto, PC
<1>4. ASSUME NEW p \in Caller, Update(p)
      PROVE  TypeOK'
  BY <1>4, LockDataType DEF Update, Write, Acquired, Goto, PC
<1>5. ASSUME NEW p \in Caller, Unlock(p)
      PROVE  TypeOK'
  BY <1>5 DEF Unlock, Return, Goto, PC
<1>6. ASSUME NEW p \in Caller, UnlockLeftover(p)
      PROVE  TypeOK'
  BY <1>6 DEF UnlockLeftover, Goto, PC
<1>7. ASSUME NEW p \in Caller, UnlockGet(p)
      PROVE  TypeOK'
  BY <1>7 DEF UnlockGet, Return, Goto, PC
<1>8. ASSUME NEW p \in Caller, UnlockUpdate(p)
      PROVE  TypeOK'
  BY <1>8, ReleasedType DEF UnlockUpdate, Write, Return, Goto, PC
<1>9. ASSUME NEW p \in Caller, Keep(p)
      PROVE  TypeOK'
  BY <1>9 DEF Keep, Return, Goto, PC
<1>10. ASSUME NEW p \in Caller, Fail(p)
       PROVE  TypeOK'
  BY <1>10, LockDataType, ReleasedType DEF Fail, Write, Return, Goto, PC
<1>11. ASSUME NEW p \in Caller, Cancel(p)
       PROVE  TypeOK'
  BY <1>11 DEF Cancel
<1>12. ASSUME NEW p \in Caller, Crash(p)
       PROVE  TypeOK'
  BY <1>12 DEF Crash, Return, Goto, PC
<1>13. ASSUME DeleteLease
       PROVE  TypeOK'
  BY <1>13 DEF DeleteLease, Write
<1>14. ASSUME Tick
       PROVE  TypeOK'
  <2>1. lease' \in LeaseSpec \cup {NoLease}
    BY <1>14, OlderLeaseType DEF Tick
  <2>2. grant' \in [Caller -> LeaseSpec \cup {NoLease}]
    BY <1>14, OlderLeaseType DEF Tick
  <2>3. since' \in [Caller -> 0..AgeCap]
    BY <1>14, OlderType DEF Tick
  <2>4. QED
    BY <1>14, <2>1, <2>2, <2>3 DEF Tick
<1>15. CASE UNCHANGED vars
  BY <1>15 DEF vars
<1>16. QED
  BY <1>1, <1>2, <1>3, <1>4, <1>5, <1>6, <1>7, <1>8, <1>9, <1>10, <1>11,
     <1>12, <1>13, <1>14, <1>15 DEF Next, Step

(***************************************************************************)
(* The initial state has the types.                                        *)
(***************************************************************************)
LEMMA TypeInit == Init => TypeOK
<1> SUFFICES ASSUME Init PROVE TypeOK
  OBVIOUS
<1>1. deleted \in BOOLEAN
  BY Zenon DEF Init
<1>2. QED
  BY <1>1, ConstantsAssumption DEF Init, TypeOK, PC

(***************************************************************************)
(* Every variable keeps its type.                                          *)
(***************************************************************************)
THEOREM TypeCorrect == Spec => []TypeOK
BY TypeInit, TypeStep, PTL DEF Spec

-----------------------------------------------------------------------------
(***************************************************************************)
(* The inductive invariant.  A caller past Create asked for a lease of some *)
(* duration; a caller about to write the lease has seen what it must have   *)
(* seen, if its copy is still current; and as long as the lease granted to  *)
(* a solo caller is live, it is the lease the API server holds.            *)
(***************************************************************************)
CallInv == \A p \in Caller : pc[p] \in {"get", "update"} => ttl[p] > 0

CopyInv ==
  \A p \in Caller : p \in fresh =>
    /\ lease # NoLease
    /\ pc[p] = "update" => isExpired(lease) /\ ~isHeldByMe(lease, p)
    /\ pc[p] = "uupdate" => isHeldByMe(lease, p)

GrantInv ==
  \A p \in Caller :
    /\ pc[p] # "held" => grant[p] = NoLease
    /\ pc[p] = "held" => grant[p] # NoLease /\ isHeldByMe(grant[p], p)
    /\ ~deleted /\ Solo(p) /\ GL!HoldsLive(p) => lease = grant[p]

IInv == TypeOK /\ CallInv /\ CopyInv /\ GrantInv

(***************************************************************************)
(* A call keeps the duration it was given until it returns.                *)
(***************************************************************************)
LEMMA CallStep == TypeOK /\ CallInv /\ [Next]_vars => CallInv'
<1> SUFFICES ASSUME TypeOK, CallInv, [Next]_vars
             PROVE  CallInv'
  OBVIOUS
<1> USE DEF TypeOK, CallInv
<1>1. ASSUME NEW p \in Caller, Step(p)
      PROVE  CallInv'
  BY <1>1 DEF Step, LockFor, Create, Get, Update, Unlock, UnlockLeftover, UnlockGet,
     UnlockUpdate, Keep, Fail, Cancel, Crash, Acquired, Return, Goto
<1>2. CASE DeleteLease \/ Tick \/ UNCHANGED vars
  BY <1>2, SMTT(60), ZenonT(60) DEF DeleteLease, Tick, vars
<1>3. QED
  BY <1>1, <1>2 DEF Next

(***************************************************************************)
(* A write only removes copies: no caller is in fresh after it.            *)
(***************************************************************************)
LEMMA CopyStep == IInv /\ [Next]_vars => CopyInv'
<1> SUFFICES ASSUME IInv, [Next]_vars
             PROVE  CopyInv'
  OBVIOUS
<1> USE DEF IInv, TypeOK, CopyInv
<1>1. ASSUME NEW p \in Caller, NEW d \in Durations, LockFor(p, d)
      PROVE  CopyInv'
  BY <1>1 DEF LockFor, Goto
<1>2. ASSUME NEW p \in Caller, Create(p)
      PROVE  CopyInv'
  BY <1>2 DEF Create, Write, Acquired, Goto
<1>3. ASSUME NEW p \in Caller, Get(p)
      PROVE  CopyInv'
  BY <1>3 DEF Get, Acquired, Return, Goto
<1>4. ASSUME NEW p \in Caller, Update(p)
      PROVE  CopyInv'
  BY <1>4 DEF Update, Write, Acquired, Goto
<1>5. ASSUME NEW p \in Caller, Unlock(p)
      PROVE  CopyInv'
  BY <1>5 DEF Unlock, Return, Goto
<1>6. ASSUME NEW p \in Caller, UnlockLeftover(p)
      PROVE  CopyInv'
  BY <1>6 DEF UnlockLeftover, Goto
<1>7. ASSUME NEW p \in Caller, UnlockGet(p)
      PROVE  CopyInv'
  BY <1>7 DEF UnlockGet, Locked, Return, Goto
<1>8. ASSUME NEW p \in Caller, UnlockUpdate(p)
      PROVE  CopyInv'
  BY <1>8 DEF UnlockUpdate, Write, Return, Goto
<1>9. ASSUME NEW p \in Caller, Keep(p)
      PROVE  CopyInv'
  BY <1>9 DEF Keep, Return, Goto
<1>10. ASSUME NEW p \in Caller, Fail(p)
       PROVE  CopyInv'
  BY <1>10 DEF Fail, Write, Return, Goto
<1>11. ASSUME NEW p \in Caller, Cancel(p)
       PROVE  CopyInv'
  BY <1>11 DEF Cancel
<1>12. ASSUME NEW p \in Caller, Crash(p)
       PROVE  CopyInv'
  BY <1>12 DEF Crash, Return, Goto
<1>13. ASSUME DeleteLease
       PROVE  CopyInv'
  BY <1>13 DEF DeleteLease, Write
<1>14. ASSUME Tick
       PROVE  CopyInv'
  <2> SUFFICES ASSUME NEW p \in Caller, p \in fresh
               PROVE  /\ lease' # NoLease
                      /\ pc[p] = "update" => isExpired(lease') /\ ~isHeldByMe(lease', p)
                      /\ pc[p] = "uupdate" => isHeldByMe(lease', p)
    BY <1>14 DEF Tick, isExpired, isHeldByMe
  <2>1. lease \in LeaseSpec /\ lease # NoLease /\ lease' = OlderLease(lease)
    BY <1>14 DEF Tick
  <2>2. /\ lease' \in LeaseSpec /\ lease' # NoLease
        /\ lease'.holder = lease.holder
        /\ lease'.dur = lease.dur
        /\ lease'.age >= lease.age
    BY <2>1, OlderLeaseType
  <2>3. lease.age \in Nat /\ lease'.age \in Nat /\ lease.dur \in Nat
    BY <2>1, <2>2, LeaseFields
  <2>4. QED
    BY <2>2, <2>3 DEF isExpired, isHeldByMe
<1>15. CASE UNCHANGED vars
  BY <1>15, SMTT(60), ZenonT(60) DEF vars
<1>16. QED
  BY <1>1, <1>2, <1>3, <1>4, <1>5, <1>6, <1>7, <1>8, <1>9, <1>10, <1>11,
     <1>12, <1>13, <1>14, <1>15 DEF Next, Step

(***************************************************************************)
(* A live grant of a solo caller survives every step: another identity can  *)
(* write the lease only when it is absent, expired or its own.             *)
(***************************************************************************)
LEMMA GrantStep == IInv /\ [Next]_vars => GrantInv'
<1> SUFFICES ASSUME IInv, [Next]_vars
             PROVE  GrantInv'
  OBVIOUS
<1> USE ConstantsAssumption DEF IInv, TypeOK, CopyInv, GrantInv, isHeldByMe, isExpired, GL!HoldsLive, GL!isExpired
<1>1. ASSUME NEW p \in Caller, NEW d \in Durations, LockFor(p, d)
      PROVE  GrantInv'
  BY <1>1 DEF LockFor, Goto, Solo
<1>2. ASSUME NEW p \in Caller, Create(p)
      PROVE  GrantInv'
  BY <1>2, LockDataType DEF Create, Write, Acquired, Goto, lockData, Solo
<1>3. ASSUME NEW p \in Caller, Get(p)
      PROVE  GrantInv'
  BY <1>3 DEF Get, Acquired, Return, Goto, Solo
<1>4. ASSUME NEW p \in Caller, Update(p)
      PROVE  GrantInv'
  BY <1>4, LockDataType DEF Update, Write, Acquired, Goto, lockData, Solo
<1>5. ASSUME NEW p \in Caller, Unlock(p)
      PROVE  GrantInv'
  BY <1>5 DEF Unlock, Return, Goto, Solo
<1>6. ASSUME NEW p \in Caller, UnlockLeftover(p)
      PROVE  GrantInv'
  BY <1>6 DEF UnlockLeftover, Goto, Solo
<1>7. ASSUME NEW p \in Caller, UnlockGet(p)
      PROVE  GrantInv'
  BY <1>7 DEF UnlockGet, Return, Goto, Solo
<1>8. ASSUME NEW p \in Caller, UnlockUpdate(p)
      PROVE  GrantInv'
  <2>1. CASE p \in fresh
    BY <1>8, <2>1 DEF UnlockUpdate, Write, Return, Goto, Solo
  <2>2. CASE p \notin fresh
    BY <1>8, <2>2 DEF UnlockUpdate, Goto, Solo
  <2>3. QED
    BY <2>1, <2>2
<1>9. ASSUME NEW p \in Caller, Keep(p)
      PROVE  GrantInv'
  BY <1>9 DEF Keep, Return, Goto, Solo
<1>10. ASSUME NEW p \in Caller, Fail(p)
      PROVE  GrantInv'
  BY <1>10 DEF Fail, Write, Return, Goto, Solo
<1>11. ASSUME NEW p \in Caller, Cancel(p)
      PROVE  GrantInv'
  BY <1>11 DEF Cancel, Solo
<1>12. ASSUME NEW p \in Caller, Crash(p)
      PROVE  GrantInv'
  BY <1>12 DEF Crash, Return, Goto, Solo
<1>13. ASSUME DeleteLease
       PROVE  GrantInv'
  BY <1>13 DEF DeleteLease, Write
<1>14. ASSUME Tick
       PROVE  GrantInv'
  <2> SUFFICES ASSUME NEW p \in Caller
               PROVE  /\ pc'[p] # "held" => grant'[p] = NoLease
                      /\ pc'[p] = "held" => grant'[p] # NoLease /\ isHeldByMe(grant'[p], p)
                      /\ ~deleted' /\ Solo(p) /\ GL!HoldsLive(p)' => lease' = grant'[p]
    BY DEF Solo
  <2>1. /\ pc' = pc /\ deleted' = deleted
        /\ lease' = OlderLease(lease)
        /\ grant'[p] = OlderLease(grant[p])
        /\ grant[p] \in LeaseSpec \cup {NoLease}
    BY <1>14 DEF Tick
  <2>2. /\ grant'[p] \in LeaseSpec \cup {NoLease}
        /\ grant'[p] = NoLease <=> grant[p] = NoLease
        /\ grant[p] # NoLease => /\ grant'[p].holder = grant[p].holder
                                 /\ grant'[p].dur = grant[p].dur
                                 /\ grant'[p].age >= grant[p].age
    BY <2>1, OlderLeaseType
  <2>3. GL!HoldsLive(p)' => GL!HoldsLive(p)
    <3> SUFFICES ASSUME grant'[p] # NoLease, ~(grant'[p].age > grant'[p].dur)
                 PROVE  ~(grant[p].age > grant[p].dur)
      BY <2>2
    <3>1. grant[p] \in LeaseSpec /\ grant'[p] \in LeaseSpec
      BY <2>1, <2>2
    <3>2. grant[p].age \in Nat /\ grant[p].dur \in Nat /\ grant'[p].age \in Nat
      BY <3>1, LeaseFields
    <3>3. QED
      BY <2>2, <3>1, <3>2
  <2>4. QED
    BY <2>1, <2>2, <2>3
<1>15. CASE UNCHANGED vars
  BY <1>15 DEF vars
<1>16. QED
  BY <1>1, <1>2, <1>3, <1>4, <1>5, <1>6, <1>7, <1>8, <1>9, <1>10, <1>11,
     <1>12, <1>13, <1>14, <1>15, Zenon DEF Next, Step

-----------------------------------------------------------------------------
(***************************************************************************)
(* The inductive invariant holds in every reachable state.                 *)
(***************************************************************************)
THEOREM Invariance == Spec => []IInv
<1>1. Init => IInv
  <2> SUFFICES ASSUME Init PROVE CallInv /\ CopyInv /\ GrantInv
    BY TypeInit DEF IInv
  <2>1. CallInv /\ CopyInv
    BY DEF Init, CallInv, CopyInv
  <2>2. GrantInv
    BY DEF Init, GrantInv, GL!HoldsLive
  <2>3. QED
    BY <2>1, <2>2
<1>2. IInv /\ [Next]_vars => IInv'
  BY TypeStep, CallStep, CopyStep, GrantStep DEF IInv
<1>3. QED
  BY <1>1, <1>2, PTL DEF Spec

(***************************************************************************)
(* Mutual exclusion of the lock group, for any number of hosts: two solo    *)
(* callers never hold live grants together (leaselocker.go LockFor, Unlock). *)
(* Both grants would be the lease the API server holds, which has one       *)
(* holder.                                                                 *)
(***************************************************************************)
THEOREM LockExclusion == Spec => []MutualExclusion
<1>1. IInv => MutualExclusion
  <2> SUFFICES ASSUME IInv, ~deleted,
                      NEW p \in Caller, NEW q \in Caller,
                      p # q, Solo(p), Solo(q), GL!HoldsLive(p), GL!HoldsLive(q)
               PROVE  FALSE
    BY DEF MutualExclusion, GL!MutualExclusion, GL!Solo, Solo
  <2>1. lease = grant[p] /\ lease = grant[q]
    BY DEF IInv, GrantInv
  <2>2. isHeldByMe(lease, p) /\ isHeldByMe(lease, q)
    BY <2>1, ZenonT(60) DEF IInv, GrantInv, GL!HoldsLive
  <2>3. QED
    BY <2>2 DEF Solo, isHeldByMe
<1>2. QED
  BY <1>1, Invariance, PTL

(***************************************************************************)
(* A lease changes hands only through expiry or its own holder's Unlock.    *)
(***************************************************************************)
LEMMA HandoverOfStep == IInv /\ [Next]_vars => HandoverStep
<1> SUFFICES ASSUME IInv, [Next]_vars
             PROVE  HandoverStep
  OBVIOUS
<1> USE DEF IInv, TypeOK, CopyInv, HandoverStep
<1>1. ASSUME NEW p \in Caller, NEW d \in Durations, LockFor(p, d)
      PROVE  HandoverStep
  BY <1>1 DEF LockFor
<1>2. ASSUME NEW p \in Caller, Create(p)
      PROVE  HandoverStep
  BY <1>2 DEF Create, Write, Acquired, lockData
<1>3. ASSUME NEW p \in Caller, Get(p)
      PROVE  HandoverStep
  BY <1>3 DEF Get, Acquired, Return
<1>4. ASSUME NEW p \in Caller, Update(p)
      PROVE  HandoverStep
  BY <1>4, ConstantsAssumption DEF Update, Write, Acquired, lockData
<1>5. ASSUME NEW p \in Caller, Unlock(p)
      PROVE  HandoverStep
  BY <1>5 DEF Unlock, Return
<1>6. ASSUME NEW p \in Caller, UnlockLeftover(p)
      PROVE  HandoverStep
  BY <1>6 DEF UnlockLeftover
<1>7. ASSUME NEW p \in Caller, UnlockGet(p)
      PROVE  HandoverStep
  BY <1>7 DEF UnlockGet, Return
<1>8. ASSUME NEW p \in Caller, UnlockUpdate(p)
      PROVE  HandoverStep
  <2>1. CASE p \in fresh
    <3>1. isHeldByMe(lease, p) /\ pc[p] = "uupdate" /\ pc'[p] = "idle"
      BY <1>8, <2>1 DEF UnlockUpdate, Return, Goto
    <3>2. lease \in LeaseSpec /\ lease' = Released(lease)
      BY <1>8, <2>1 DEF UnlockUpdate, Write
    <3>3. QED
      BY <3>1, <3>2, ReleasedType
  <2>2. CASE p \notin fresh
    BY <1>8, <2>2 DEF UnlockUpdate
  <2>3. QED
    BY <2>1, <2>2
<1>9. ASSUME NEW p \in Caller, Keep(p)
      PROVE  HandoverStep
  BY <1>9 DEF Keep, Return
<1>10. ASSUME NEW p \in Caller, Fail(p)
       PROVE  HandoverStep
  <2>1. CASE UNCHANGED lease
    BY <2>1
  <2>2. CASE pc[p] = "create" /\ lease = NoLease
    BY <2>2
  <2>3. CASE pc[p] = "update" /\ p \in fresh /\ lease' = lockData(p)
    BY <2>3, ConstantsAssumption DEF lockData
  <2>4. CASE pc[p] = "uupdate" /\ lease # NoLease /\ p \in fresh /\ lease' = Released(lease)
    <3>1. isHeldByMe(lease, p) /\ pc'[p] = "idle"
      BY <1>10, <2>4 DEF Fail, Return, Goto
    <3>2. lease \in LeaseSpec
      BY <2>4
    <3>3. QED
      BY <2>4, <3>1, <3>2, ReleasedType
  <2>5. QED
    BY <1>10, <2>1, <2>2, <2>3, <2>4 DEF Fail, Write
<1>11. ASSUME NEW p \in Caller, Cancel(p)
       PROVE  HandoverStep
  BY <1>11 DEF Cancel
<1>12. ASSUME NEW p \in Caller, Crash(p)
       PROVE  HandoverStep
  BY <1>12 DEF Crash, Return
<1>13. ASSUME DeleteLease
       PROVE  HandoverStep
  BY <1>13 DEF DeleteLease, Write
<1>14. ASSUME Tick
       PROVE  HandoverStep
  BY <1>14, OlderLeaseType DEF Tick
<1>15. CASE UNCHANGED vars
  BY <1>15 DEF vars
<1>16. QED
  BY <1>1, <1>2, <1>3, <1>4, <1>5, <1>6, <1>7, <1>8, <1>9, <1>10, <1>11,
     <1>12, <1>13, <1>14, <1>15 DEF Next, Step

(***************************************************************************)
(* The action property Handover, for any number of hosts.                  *)
(***************************************************************************)
THEOREM LockHandover == Spec => Handover
<1>1. IInv /\ [Next]_vars => [HandoverStep]_vars
  BY HandoverOfStep
<1>2. QED
  BY <1>1, Invariance, PTL DEF Spec, Handover

-----------------------------------------------------------------------------
(***************************************************************************)
(* The atomic operation a step of a caller amounts to.                     *)
(***************************************************************************)
AbstractStep(p) ==
  \/ \E d \in Durations, a \in 0..AgeCap : GL!Acquire(p, d, a) \/ GL!AcquireUnawares(p, d, a)
  \/ GL!Reenter(p) \/ GL!Release(p) \/ GL!Leave(p)
  \/ UNCHANGED <<lease, grant, deleted>>

LEMMA LockDataIsNew ==
  ASSUME TypeOK, NEW p \in Caller, ttl[p] > 0
  PROVE  /\ ttl[p] \in Durations
         /\ since[p] \in 0..AgeCap
         /\ lockData(p) = GL!NewLease(p, ttl[p], since[p])
BY SMTT(60), ZenonT(60) DEF TypeOK, lockData, GL!NewLease

(***************************************************************************)
(* Each request of a caller is one atomic operation, or none.              *)
(***************************************************************************)
LEMMA StepRefines ==
  ASSUME IInv, NEW p \in Caller, Step(p)
  PROVE  AbstractStep(p)
<1> USE DEF IInv, TypeOK, AbstractStep, GL!Granted, GL!Locked, GL!isHeldByMe, isHeldByMe, GL!Obtainable, GL!isExpired, isExpired
<1>1. ASSUME NEW d \in Durations, LockFor(p, d)
      PROVE  AbstractStep(p)
  BY <1>1 DEF LockFor
<1>2. CASE Create(p)
  <2>1. CASE lease = NoLease
    <3>1. GL!Acquire(p, ttl[p], since[p])
      BY <1>2, <2>1, LockDataIsNew DEF Create, Write, Acquired, GL!Acquire
    <3>2. QED
      BY <1>2, <3>1, LockDataIsNew, SMTT(60), ZenonT(60) DEF Create
  <2>2. CASE lease # NoLease
    BY <1>2, <2>2, SMTT(60), ZenonT(60) DEF Create
  <2>3. QED
    BY <2>1, <2>2
<1>3. CASE Get(p)
  <2>1. CASE isHeldByMe(lease, p)
    BY <1>3, <2>1, SMTT(60), ZenonT(60) DEF Get, Acquired, GL!Reenter
  <2>2. CASE ~isHeldByMe(lease, p)
    BY <1>3, <2>2 DEF Get, Return, GL!Leave
  <2>3. QED
    BY <2>1, <2>2, SMTT(60), ZenonT(60)
<1>4. CASE Update(p)
  <2>1. ttl[p] > 0
    BY <1>4 DEF Update, CallInv
  <2>2. CASE p \in fresh
    <3>1. GL!Acquire(p, ttl[p], since[p])
      BY <1>4, <2>1, <2>2, LockDataIsNew DEF Update, Write, Acquired, CopyInv, GL!Acquire
    <3>2. QED
      BY <2>1, <3>1, LockDataIsNew, SMTT(60), ZenonT(60)
  <2>3. CASE p \notin fresh
    BY <1>4, <2>3 DEF Update
  <2>4. QED
    BY <2>2, <2>3
<1>5. CASE Unlock(p)
  BY <1>5 DEF Unlock, Return, GL!Leave
<1>6. CASE UnlockLeftover(p)
  BY <1>6 DEF UnlockLeftover
<1>7. CASE UnlockGet(p)
  BY <1>7 DEF UnlockGet, Return, GL!Leave
<1>8. CASE UnlockUpdate(p)
  <2>1. CASE p \in fresh
    BY <1>8, <2>1 DEF UnlockUpdate, Write, Return, CopyInv, GL!Release, GL!Released, Released
  <2>2. CASE p \notin fresh
    BY <1>8, <2>2 DEF UnlockUpdate
  <2>3. QED
    BY <2>1, <2>2
<1>9. CASE Keep(p)
  BY <1>9 DEF Keep, Return, GL!Leave
<1>10. CASE Fail(p)
  <2>1. grant' = [grant EXCEPT ![p] = NoLease] /\ deleted' = deleted
    BY <1>10 DEF Fail, Return
  <2>2. CASE UNCHANGED lease
    BY <2>1, <2>2 DEF GL!Leave
  <2>3. CASE pc[p] = "create" /\ lease = NoLease /\ ttl[p] > 0 /\ lease' = lockData(p)
    <3>1. GL!AcquireUnawares(p, ttl[p], since[p])
      BY <2>1, <2>3, LockDataIsNew DEF GL!AcquireUnawares
    <3>2. QED
      BY <2>3, <3>1, LockDataIsNew
  <2>4. CASE pc[p] = "update" /\ p \in fresh /\ lease' = lockData(p)
    <3>1. ttl[p] > 0
      BY <2>4 DEF CallInv
    <3>2. GL!AcquireUnawares(p, ttl[p], since[p])
      BY <2>1, <2>4, <3>1, LockDataIsNew DEF CopyInv, GL!AcquireUnawares
    <3>3. QED
      BY <3>1, <3>2, LockDataIsNew
  <2>5. CASE pc[p] = "uupdate" /\ p \in fresh /\ lease' = Released(lease)
    BY <2>1, <2>5 DEF CopyInv, GL!Release, GL!Released, Released
  <2>6. QED
    BY <1>10, <2>2, <2>3, <2>4, <2>5 DEF Fail, Write
<1>11. CASE Cancel(p)
  BY <1>11 DEF Cancel
<1>12. CASE Crash(p)
  BY <1>12 DEF Crash, Return, GL!Leave
<1>13. QED
  BY <1>1, <1>2, <1>3, <1>4, <1>5, <1>6, <1>7, <1>8, <1>9, <1>10, <1>11, <1>12 DEF Step

(***************************************************************************)
(* The request-by-request lock implements the atomic one, for any callers,  *)
(* identities and durations: the refinement mapping is the identity on the  *)
(* lease, the grants and the deletion flag.                                *)
(***************************************************************************)
THEOREM Refinement == Spec => ImplementsGroupLock
<1>1. Init => GL!LockInit
  BY DEF Init, GL!LockInit
<1>2. IInv /\ [Next]_vars => [GL!LockNext]_(GL!lockVars)
  <2> SUFFICES ASSUME IInv, [Next]_vars
               PROVE  [GL!LockNext]_(GL!lockVars)
    OBVIOUS
  <2>1. ASSUME NEW p \in Caller, Step(p)
        PROVE  [GL!LockNext]_(GL!lockVars)
    BY <2>1, StepRefines DEF AbstractStep, GL!LockNext, GL!lockVars
  <2>2. CASE DeleteLease
    BY <2>2 DEF DeleteLease, Write, GL!LockNext, GL!Delete
  <2>3. CASE Tick
    BY <2>3 DEF Tick, OlderLease, Older, GL!LockNext, GL!LockTick, GL!OlderLease, GL!Older
  <2>4. CASE UNCHANGED vars
    BY <2>4 DEF vars, GL!lockVars
  <2>5. QED
    BY <2>1, <2>2, <2>3, <2>4 DEF Next
<1>3. QED
  BY <1>1, <1>2, Invariance, PTL DEF Spec, ImplementsGroupLock, GL!LockSpec
=============================================================================
