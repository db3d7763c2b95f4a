------------------------- MODULE UpgradeGroup_proofs -------------------------
(***************************************************************************)
(* Proofs about upgrade groups, for any nodes, schedules and delays, and      *)
(* about upgrades that are approved by a user, for any sessions and capacity  *)
(* of their channels.                                                      *)
(***************************************************************************)
EXTENDS Approval, TLAPS

(* Time makes an age no smaller, and keeps it below the cap.               *)
LEMMA OlderType ==
  ASSUME NEW n \in 0..AgeCap
  PROVE  Older(n) \in 0..AgeCap /\ Older(n) >= n
BY ConstantsAssumption DEF Older

(* Time leaves the holder of a lease, and a lease that has run out stays so. *)
LEMMA OlderLeaseKept ==
  ASSUME NEW l \in LeaseSpec
  PROVE  /\ OlderLease(l) \in LeaseSpec /\ OlderLease(l).holder = l.holder
         /\ isExpired(l) => isExpired(OlderLease(l))
<1>1. l # NoLease
  BY ConstantsAssumption
<1>2. l.age \in 0..AgeCap /\ l.dur \in Durations \cup {0}
  BY DEF LeaseSpec
<1>3. Older(l.age) \in 0..AgeCap /\ Older(l.age) >= l.age
  BY <1>2, OlderType
<1>4. OlderLease(l) = [l EXCEPT !.age = Older(l.age)]
  BY <1>1 DEF OlderLease
<1>5. OlderLease(l) \in LeaseSpec
  BY <1>3, <1>4 DEF LeaseSpec
<1>6. /\ OlderLease(l).holder = l.holder /\ OlderLease(l).dur = l.dur
      /\ OlderLease(l).age = Older(l.age)
  BY <1>4 DEF LeaseSpec
<1>7. l.age \in Nat /\ Older(l.age) \in Nat /\ l.dur \in Nat
  <2>1. l.age \in Nat /\ Older(l.age) \in Nat
    BY <1>2, <1>3, ConstantsAssumption
  <2>2. Durations \cup {0} \subseteq Nat
    BY ConstantsAssumption
  <2> QED
    BY <1>2, <2>1, <2>2
<1>8. isExpired(l) => isExpired(OlderLease(l))
  BY <1>3, <1>6, <1>7 DEF isExpired
<1> QED
  BY <1>5, <1>6, <1>8

(* An instant that gets older is still an instant.                         *)
LEMMA OlderAgeType ==
  ASSUME NEW a \in Age
  PROVE  OlderAge(a) \in Age
<1>1. CASE a = Never
  BY <1>1 DEF OlderAge, Age
<1>2. CASE a \in 0..AgeCap
  BY <1>2, OlderType, UpgradeAssumption DEF OlderAge, Age
<1>3. QED
  BY <1>1, <1>2 DEF Age

(* The time since the schedule fired stays below the period.               *)
LEMMA PhaseType ==
  ASSUME phase \in 0..Period - 1
  PROVE  (phase + 1) % Period \in 0..Period - 1
BY UpgradeAssumption

(* The lock is asked for until the next occurrence of the schedule.         *)
LEMMA TTLType ==
  ASSUME phase \in 0..Period - 1
  PROVE  lockTTL \in Durations
BY UpgradeAssumption DEF lockTTL

(* A status with another time or mark is a status.                         *)
LEMMA StatusType ==
  ASSUME NEW s \in Status
  PROVE  /\ s.last \in Age
         /\ \A a \in Age : [s EXCEPT !.last = a] \in Status
         /\ \A b \in BOOLEAN : [s EXCEPT !.cordoned = b] \in Status
         /\ \A a \in Age : [s EXCEPT !.last = a].cordoned = s.cordoned
         /\ \A b \in BOOLEAN : [s EXCEPT !.cordoned = b].last = s.last
BY DEF Status

LEMMA NewLeaseType ==
  ASSUME NEW n \in Caller, NEW d \in Durations, NEW a \in 0..AgeCap
  PROVE  /\ NewLease(n, d, a) \in LeaseSpec
         /\ NewLease(n, d, a).holder = id[n]
BY ConstantsAssumption DEF NewLease, LeaseSpec

-----------------------------------------------------------------------------
(***************************************************************************)
(* The inductive invariant.  A node that works has been granted a lease in   *)
(* its name, which either has run out or is the lease as it stands; so two   *)
(* nodes with live leases would have the same name.  A node about to record  *)
(* its cordon is cordoned already, and one about to clear the record is not. *)
(***************************************************************************)
GrantInv(n) ==
  grant[n] # NoLease =>
    grant[n].holder = id[n] /\ (isExpired(grant[n]) \/ lease = grant[n])

LockInv == LockTypeOK /\ \A n \in Caller : GrantInv(n)

CordonInv(n) ==
  /\ pc[n] = "record" => n \in unsched
  /\ pc[n] \in {"drain", "upgrade", "stamp", "reboot"} => n \in unsched /\ mn[n].cordoned

Works(n) ==
  /\ Upgrading(n) => grant[n] # NoLease
  /\ pc[n] = "cordon" => n \in KubeNode
  /\ pc[n] = "clear" => n \notin unsched

UpgradeInv ==
  /\ UpgradeTypeOK
  /\ \A n \in Caller : GrantInv(n)
  /\ \A n \in Caller : Works(n)
  /\ \A n \in KubeNode : CordonInv(n)

(* Every step of UpgradeGroup changes the lock in one of these ways.         *)
LockStep(n) ==
  \/ \E d \in Durations : Acquire(n, d, 0) \/ AcquireUnawares(n, d, 0)
  \/ Reenter(n) \/ Release(n) \/ Leave(n)
  \/ UNCHANGED lockVars

(***************************************************************************)
(* A step of one node keeps the lock's invariant, for that node and for all  *)
(* others: a lease is only taken once it has run out, and only given up     *)
(* under the name of its holder.                                           *)
(***************************************************************************)
LEMMA LockStepInv ==
  ASSUME LockInv, NEW n \in Caller, LockStep(n)
  PROVE  LockInv'
<1> USE DEF LockInv, LockTypeOK, GrantInv, Granted, Locked, isHeldByMe
<1>1. ASSUME NEW d \in Durations, Acquire(n, d, 0) \/ AcquireUnawares(n, d, 0)
      PROVE  LockInv'
  <2> DEFINE l == NewLease(n, d, 0)
  <2>1. l \in LeaseSpec /\ l.holder = id[n]
    BY NewLeaseType, ConstantsAssumption
  <2>2. lease' = l /\ (grant' = [grant EXCEPT ![n] = l] \/ grant' = [grant EXCEPT ![n] = NoLease])
        /\ deleted' = deleted /\ (lease # NoLease => isExpired(lease))
    BY <1>1 DEF Acquire, AcquireUnawares, Obtainable
  <2> HIDE DEF l
  <2>3. LockTypeOK'
    BY <2>1, <2>2
  <2>4. ASSUME NEW p \in Caller
        PROVE  GrantInv(p)'
    <3>1. CASE p = n
      BY <2>1, <2>2, <3>1 DEF isExpired
    <3>2. CASE p # n
      <4>1. grant'[p] = grant[p]
        BY <2>2, <3>2
      <4>2. grant[p] # NoLease => isExpired(grant[p])
        BY <2>2
      <4>3. QED
        BY <4>1, <4>2 DEF isExpired
    <3>3. QED
      BY <3>1, <3>2
  <2>5. QED
    BY <2>3, <2>4
<1>2. CASE Reenter(n)
  BY <1>2 DEF Reenter, isExpired
<1>3. CASE Release(n)
  <2>1. lease \in LeaseSpec /\ lease.holder = id[n] /\ lease' = Released(lease)
        /\ grant' = [grant EXCEPT ![n] = NoLease] /\ deleted' = deleted
    BY <1>3 DEF Release
  <2>2. LockTypeOK'
    <3>1. Released(lease) \in LeaseSpec
      BY <2>1, ConstantsAssumption, Zenon DEF Released, LeaseSpec
    <3> QED
      BY <2>1, <3>1
  <2>3. ASSUME NEW p \in Caller
        PROVE  GrantInv(p)'
    <3>1. CASE p = n
      BY <2>1, <3>1
    <3>2. CASE p # n
      <4>1. id[p] # id[n]
        BY <3>2, HostnameAssumption DEF Solo
      <4>2. grant'[p] = grant[p]
        BY <2>1, <3>2
      <4>3. grant[p] # NoLease => isExpired(grant[p])
        BY <2>1, <4>1
      <4>4. QED
        BY <4>2, <4>3 DEF isExpired
    <3>3. QED
      BY <3>1, <3>2
  <2>4. QED
    BY <2>2, <2>3
<1>4. CASE Leave(n)
  BY <1>4 DEF Leave, isExpired
<1>5. CASE UNCHANGED lockVars
  BY <1>5 DEF lockVars, isExpired
<1>6. QED
  BY <1>1, <1>2, <1>3, <1>4, <1>5 DEF LockStep

(* Time passes for the lease and for what was granted alike.                *)
LEMMA LockTickInv ==
  ASSUME LockInv, LockTick
  PROVE  /\ LockInv'
         /\ \A n \in Caller : grant'[n] = NoLease <=> grant[n] = NoLease
<1> USE DEF LockInv, LockTypeOK, GrantInv
<1>1. lease' = OlderLease(lease) /\ deleted' = deleted
      /\ grant' = [p \in Caller |-> OlderLease(grant[p])]
  BY DEF LockTick
<1>0. ASSUME NEW l \in LeaseSpec \cup {NoLease}
      PROVE  /\ OlderLease(l) \in LeaseSpec \cup {NoLease}
             /\ OlderLease(l) = NoLease <=> l = NoLease
  BY <1>0, OlderLeaseKept, ConstantsAssumption DEF OlderLease
<1>2. LockTypeOK'
  BY <1>0, <1>1
<1>3. \A n \in Caller : grant'[n] = NoLease <=> grant[n] = NoLease
  BY <1>0, <1>1
<1>4. ASSUME NEW p \in Caller
      PROVE  GrantInv(p)'
  <2>1. CASE grant[p] = NoLease
    BY <1>3, <2>1
  <2>2. CASE grant[p] # NoLease
    <3>1. grant[p] \in LeaseSpec /\ grant'[p] = OlderLease(grant[p])
      BY <1>1, <2>2
    <3>2. grant'[p].holder = id[p]
      BY <2>2, <3>1, OlderLeaseKept
    <3>3. CASE isExpired(grant[p])
      <4>1. isExpired(grant'[p])
        BY <3>1, <3>3, OlderLeaseKept
      <4>2. QED
        BY <3>2, <4>1 DEF isExpired
    <3>4. CASE lease = grant[p]
      BY <1>1, <3>1, <3>2, <3>4
    <3>5. QED
      BY <2>2, <3>3, <3>4
  <2>3. QED
    BY <2>1, <2>2
<1>5. QED
  BY <1>2, <1>3, <1>4

-----------------------------------------------------------------------------
(***************************************************************************)
(* What a step of node n has to show: it treats the lock as a node may,      *)
(* keeps the types, leaves the other nodes alone, and keeps the invariant    *)
(* for n itself.                                                           *)
(***************************************************************************)
StateTypeOK ==
  /\ phase \in 0..Period - 1
  /\ pc \in [Caller -> PC]
  /\ mn \in [Caller -> Status]
  /\ cache \in [Caller -> Status]
  /\ seen \in [Caller -> Age]
  /\ unsched \subseteq KubeNode

Alone(n) ==
  \A m \in Caller \ {n} :
    /\ pc'[m] = pc[m] /\ mn'[m] = mn[m] /\ grant'[m] = grant[m]
    /\ m \in unsched' <=> m \in unsched

Cordon(n) == n \in KubeNode => CordonInv(n)

NodeStep(n) ==
  LockStep(n) /\ StateTypeOK' /\ Alone(n) /\ Works(n)' /\ Cordon(n)'

(* The steps that return: the node does not work any more.                  *)
LEMMA ReturnStep ==
  ASSUME UpgradeInv, NEW n \in Caller, Return(n), UNCHANGED <<lease, phase>>,
         mn' \in [Caller -> Status], cache' \in [Caller -> Status], unsched' \subseteq KubeNode,
         \A m \in Caller \ {n} : mn'[m] = mn[m] /\ (m \in unsched' <=> m \in unsched)
  PROVE  NodeStep(n)
<1> USE DEF UpgradeInv, UpgradeTypeOK, Return, Goto
<1>1. LockStep(n)
  BY DEF LockStep, Leave
<1>2. StateTypeOK'
  BY Zenon DEF StateTypeOK, PC, Age
<1>3. Alone(n)
  BY DEF Alone, Granted, LockTypeOK
<1>4. Works(n)' /\ Cordon(n)'
  BY DEF Works, Cordon, CordonInv, Upgrading
<1>5. QED
  BY <1>1, <1>2, <1>3, <1>4 DEF NodeStep

(* A status update of n changes one field of its status.                    *)
LEMMA UpdateStep ==
  ASSUME UpgradeInv, NEW n \in Caller, NEW s \in Status, UpdateStatus(n, s)
  PROVE  /\ mn' \in [Caller -> Status] /\ cache' \in [Caller -> Status]
         /\ mn'[n] = s /\ cache[n] = mn[n] /\ mn[n] \in Status
         /\ \A m \in Caller \ {n} : mn'[m] = mn[m]
BY DEF UpgradeInv, UpgradeTypeOK, UpdateStatus

(***************************************************************************)
(* Every request of a node's reconcile is such a step.                      *)
(***************************************************************************)
LEMMA RequestStep ==
  ASSUME UpgradeInv, NEW n \in Caller,
         Reconcile(n) \/ Proceed(n) \/ CacheSync(n) \/ Restart(n)
  PROVE  NodeStep(n)
<1> USE DEF UpgradeInv, UpgradeTypeOK, Goto, lockVars
<1>0. KubeNode \subseteq Caller /\ mn[n] \in Status /\ cache[n] \in Status /\ 0 \in Age
      /\ Never \in Age /\ (n \in KubeNode => CordonInv(n)) /\ Works(n)
  BY UpgradeAssumption, ConstantsAssumption DEF Age
<1>1. CASE Reconcile(n)
  <2>1. LockStep(n) /\ Alone(n)
    BY <1>1 DEF Reconcile, LockStep, Alone
  <2>2. StateTypeOK'
    BY <1>0, <1>1, StatusType DEF Reconcile, StateTypeOK, PC
  <2>3. Works(n)' /\ Cordon(n)'
    BY <1>1 DEF Reconcile, Works, Cordon, CordonInv, Upgrading
  <2>4. QED
    BY <2>1, <2>2, <2>3 DEF NodeStep
<1>2. CASE UncordonPatch(n)
  <2>1. CASE Continue(n, "clear")
    <3>1. LockStep(n) /\ Alone(n)
      BY <1>2, <2>1 DEF UncordonPatch, Continue, LockStep, Alone
    <3>2. StateTypeOK'
      BY <1>2, <2>1 DEF UncordonPatch, Continue, StateTypeOK, PC
    <3>3. Works(n)' /\ Cordon(n)'
      BY <1>2, <2>1 DEF UncordonPatch, Continue, Works, Cordon, CordonInv, Upgrading
    <3>4. QED
      BY <3>1, <3>2, <3>3 DEF NodeStep
  <2>2. CASE Return(n)
    BY <1>2, <2>2, ReturnStep DEF UncordonPatch
  <2>3. QED
    BY <1>2, <2>1, <2>2 DEF UncordonPatch
<1>3. CASE ClearCordon(n)
  <2>1. UpdateStatus(n, [cache[n] EXCEPT !.cordoned = FALSE])
        /\ [cache[n] EXCEPT !.cordoned = FALSE] \in Status
    BY <1>0, <1>3, StatusType, Zenon DEF ClearCordon
  <2>2. mn' \in [Caller -> Status] /\ cache' \in [Caller -> Status]
        /\ \A m \in Caller \ {n} : mn'[m] = mn[m]
    BY <2>1, UpdateStep
  <2>3. CASE Continue(n, "head")
    <3>1. LockStep(n) /\ Alone(n)
      BY <1>3, <2>2, <2>3 DEF ClearCordon, Continue, LockStep, Alone
    <3>2. StateTypeOK'
      BY <1>3, <2>2, <2>3 DEF ClearCordon, Continue, StateTypeOK, PC
    <3>3. Works(n)' /\ Cordon(n)'
      BY <1>3, <2>3 DEF ClearCordon, Continue, Works, Cordon, CordonInv, Upgrading
    <3>4. QED
      BY <3>1, <3>2, <3>3 DEF NodeStep
  <2>4. CASE Return(n)
    BY <1>3, <2>2, <2>4, ReturnStep DEF ClearCordon
  <2>5. QED
    BY <1>3, <2>3, <2>4 DEF ClearCordon
<1>4. CASE ReleaseLeftover(n)
  <2>1. LockStep(n) /\ Alone(n)
    BY <1>4 DEF ReleaseLeftover, Release, Granted, LockTypeOK, LockStep, Alone
  <2>2. StateTypeOK'
    BY <1>0, <1>4 DEF ReleaseLeftover, StateTypeOK, PC
  <2>3. Works(n)' /\ Cordon(n)'
    BY <1>4 DEF ReleaseLeftover, Works, Cordon, CordonInv, Upgrading
  <2>4. QED
    BY <2>1, <2>2, <2>3 DEF NodeStep
<1>5. CASE UpgradeDue(n)
  <2>1. LockStep(n) /\ Alone(n)
    BY <1>5 DEF UpgradeDue, LockStep, Alone
  <2>2. StateTypeOK'
    BY <1>0, <1>5 DEF UpgradeDue, StateTypeOK, PC
  <2>3. Works(n)' /\ Cordon(n)'
    BY <1>5, SMTT(60), ZenonT(60) DEF UpgradeDue, Works, Cordon, CordonInv, Upgrading
  <2>4. QED
    BY <2>1, <2>2, <2>3, SMTT(60), ZenonT(60) DEF NodeStep
<1>6. CASE LockGroup(n)
  <2>1. lockTTL \in Durations
    BY TTLType
  <2>2. LockStep(n)
    BY <1>6, <2>1 DEF LockGroup, LockStep
  <2>3. Alone(n) /\ StateTypeOK'
    BY <1>6 DEF LockGroup, Acquire, Reenter, AcquireUnawares, Granted, LockTypeOK, Cordons, Alone, StateTypeOK, PC
  <2>4. (Upgrading(n) => grant[n] # NoLease)'
    <3>1. CASE pc'[n] = "idle"
      BY <3>1 DEF Upgrading
    <3>2. CASE Acquire(n, lockTTL, 0)
      <4>1. NewLease(n, lockTTL, 0) # NoLease
        BY <2>1, NewLeaseType, ConstantsAssumption
      <4>2. QED
        BY <3>2, <4>1 DEF Acquire, Granted, LockTypeOK
    <3>3. CASE Reenter(n)
      BY <3>3 DEF Reenter, Locked, Granted, LockTypeOK
    <3>4. QED
      BY <1>6, <3>1, <3>2, <3>3, SMTT(60), ZenonT(60) DEF LockGroup
  <2>5. Cordon(n)' /\ (pc'[n] = "cordon" => n \in KubeNode) /\ pc'[n] # "clear"
    BY <1>6 DEF LockGroup, Cordons, Cordon, CordonInv
  <2>6. QED
    BY <2>2, <2>3, <2>4, <2>5 DEF NodeStep, Works
<1>7. CASE CordonPatch(n)
  <2>1. CASE Continue(n, "record") /\ n \in KubeNode
    <3>1. LockStep(n) /\ Alone(n)
      BY <1>7, <2>1 DEF CordonPatch, Continue, LockStep, Alone
    <3>2. StateTypeOK'
      BY <1>7, <2>1 DEF CordonPatch, Continue, StateTypeOK, PC
    <3>3. Works(n)' /\ Cordon(n)'
      BY <1>0, <1>7, <2>1 DEF CordonPatch, Continue, Works, Cordon, CordonInv, Upgrading
    <3>4. QED
      BY <3>1, <3>2, <3>3 DEF NodeStep
  <2>2. CASE Return(n) /\ n \in KubeNode
    BY <1>7, <2>2, ReturnStep DEF CordonPatch
  <2>3. n \in KubeNode
    BY <1>0, <1>7 DEF CordonPatch, Works
  <2>4. QED
    BY <1>7, <2>1, <2>2, <2>3 DEF CordonPatch
<1>8. CASE RecordCordon(n)
  <2> DEFINE s == [cache[n] EXCEPT !.cordoned = TRUE]
  <2>1. UpdateStatus(n, s) /\ s \in Status /\ s.cordoned
    BY <1>0, <1>8, StatusType, Zenon DEF RecordCordon, Status
  <2> HIDE DEF s
  <2>2. mn' \in [Caller -> Status] /\ cache' \in [Caller -> Status] /\ mn'[n].cordoned
        /\ \A m \in Caller \ {n} : mn'[m] = mn[m]
    BY <2>1, UpdateStep
  <2>3. CASE Continue(n, "drain")
    <3>1. LockStep(n) /\ Alone(n)
      BY <1>8, <2>2, <2>3 DEF RecordCordon, Continue, LockStep, Alone
    <3>2. StateTypeOK'
      BY <1>8, <2>2, <2>3 DEF RecordCordon, Continue, StateTypeOK, PC
    <3>3. Works(n)'
      BY <1>0, <1>8, <2>3 DEF RecordCordon, Continue, Works, Upgrading
    <3>4. Cordon(n)'
      BY <1>0, <1>8, <2>2, <2>3 DEF RecordCordon, Continue, Cordon, CordonInv
    <3>5. QED
      BY <3>1, <3>2, <3>3, <3>4 DEF NodeStep
  <2>4. CASE Return(n)
    BY <1>8, <2>2, <2>4, ReturnStep DEF RecordCordon
  <2>5. QED
    BY <1>8, <2>3, <2>4 DEF RecordCordon
<1>9. CASE Drain(n) \/ Upgrade(n)
  <2>1. LockStep(n) /\ Alone(n)
    BY <1>9 DEF Drain, Upgrade, Continue, LockStep, Alone
  <2>2. StateTypeOK'
    BY <1>9 DEF Drain, Upgrade, Continue, StateTypeOK, PC
  <2>3. Works(n)' /\ Cordon(n)'
    BY <1>0, <1>9 DEF Drain, Upgrade, Continue, Works, Cordon, CordonInv, Upgrading
  <2>4. QED
    BY <2>1, <2>2, <2>3 DEF NodeStep
<1>10. CASE StampUpgrade(n)
  <2> DEFINE s == [cache[n] EXCEPT !.last = 0]
  <2>1. UpdateStatus(n, s) /\ s \in Status /\ s.cordoned = cache[n].cordoned
    BY <1>0, <1>10, StatusType DEF StampUpgrade
  <2> HIDE DEF s
  <2>2. mn' \in [Caller -> Status] /\ cache' \in [Caller -> Status]
        /\ mn'[n].cordoned = mn[n].cordoned
        /\ \A m \in Caller \ {n} : mn'[m] = mn[m]
    BY <2>1, UpdateStep
  <2>3. CASE Continue(n, "reboot")
    <3>1. LockStep(n) /\ Alone(n)
      BY <1>10, <2>2, <2>3 DEF StampUpgrade, Continue, LockStep, Alone
    <3>2. StateTypeOK'
      BY <1>10, <2>2, <2>3 DEF StampUpgrade, Continue, StateTypeOK, PC
    <3>3. Works(n)'
      BY <1>0, <1>10, <2>3 DEF StampUpgrade, Continue, Works, Upgrading
    <3>4. Cordon(n)'
      BY <1>0, <1>10, <2>2, <2>3 DEF StampUpgrade, Continue, Cordon, CordonInv
    <3>5. QED
      BY <3>1, <3>2, <3>3, <3>4 DEF NodeStep
  <2>4. CASE Return(n)
    BY <1>10, <2>2, <2>4, ReturnStep DEF StampUpgrade
  <2>5. QED
    BY <1>10, <2>3, <2>4 DEF StampUpgrade
<1>11. CASE Reboot(n) \/ Fail(n)
  BY <1>11, ReturnStep DEF Reboot, Fail
<1>12. CASE CacheSync(n)
  <2>1. LockStep(n) /\ Alone(n)
    BY <1>12 DEF CacheSync, LockStep, Alone
  <2>2. StateTypeOK'
    BY <1>0, <1>12 DEF CacheSync, StateTypeOK
  <2>3. Works(n)' /\ Cordon(n)'
    BY <1>0, <1>12 DEF CacheSync, Works, Cordon, CordonInv, Upgrading
  <2>4. QED
    BY <2>1, <2>2, <2>3 DEF NodeStep
<1>13. CASE Restart(n)
  BY <1>0, <1>13, ReturnStep DEF Restart
<1>14. QED
  BY <1>1, <1>2, <1>3, <1>4, <1>5, <1>6, <1>7, <1>8, <1>9, <1>10, <1>11, <1>12, <1>13 DEF Proceed

(* A step of one node keeps the invariant for all.                          *)
LEMMA NodeStepInv ==
  ASSUME UpgradeInv, NEW n \in Caller, NodeStep(n)
  PROVE  UpgradeInv'
<1>1. LockInv'
  BY LockStepInv DEF NodeStep, UpgradeInv, UpgradeTypeOK, LockInv
<1>2. UpgradeTypeOK'
  BY <1>1 DEF NodeStep, StateTypeOK, UpgradeTypeOK, LockInv
<1>3. ASSUME NEW m \in Caller
      PROVE  Works(m)'
  <2>1. CASE m = n
    BY <2>1, SMTT(60), ZenonT(60) DEF NodeStep
  <2>2. CASE m # n
    BY <2>2 DEF NodeStep, Alone, UpgradeInv, Works, Upgrading
  <2>3. QED
    BY <2>1, <2>2
<1>4. ASSUME NEW m \in KubeNode
      PROVE  CordonInv(m)'
  <2>1. CASE m = n
    BY <2>1, SMTT(60), ZenonT(60) DEF NodeStep, Cordon
  <2>2. CASE m # n
    BY <2>2, UpgradeAssumption DEF NodeStep, Alone, UpgradeInv, CordonInv
  <2>3. QED
    BY <2>1, <2>2
<1>5. QED
  BY <1>1, <1>2, <1>3, <1>4 DEF UpgradeInv, LockInv

(* Time touches neither the steps that nodes are at nor the marks.           *)
LEMMA TickInv ==
  ASSUME UpgradeInv, Tick
  PROVE  UpgradeInv'
<1>1. LockInv' /\ \A n \in Caller : grant'[n] = NoLease <=> grant[n] = NoLease
  BY LockTickInv DEF Tick, UpgradeInv, UpgradeTypeOK, LockInv
<1>2. \A n \in Caller : [mn[n] EXCEPT !.last = OlderAge(@)] \in Status
                     /\ [mn[n] EXCEPT !.last = OlderAge(@)].cordoned = mn[n].cordoned
                     /\ [cache[n] EXCEPT !.last = OlderAge(@)] \in Status
  BY OlderAgeType, StatusType DEF UpgradeInv, UpgradeTypeOK
<1>3. mn' \in [Caller -> Status] /\ cache' \in [Caller -> Status]
      /\ \A n \in Caller : mn'[n].cordoned = mn[n].cordoned
  BY <1>2, Zenon DEF Tick
<1>4. phase' \in 0..Period - 1 /\ seen' \in [Caller -> Age] /\ pc' = pc /\ unsched' = unsched
  BY PhaseType, OlderAgeType DEF Tick, UpgradeInv, UpgradeTypeOK
<1>5. UpgradeTypeOK'
  BY <1>1, <1>3, <1>4 DEF UpgradeInv, UpgradeTypeOK, LockInv
<1>6. \A n \in Caller : Works(n)'
  BY <1>1, <1>4 DEF UpgradeInv, Works, Upgrading
<1>7. \A n \in KubeNode : CordonInv(n)'
  BY <1>3, <1>4, UpgradeAssumption DEF UpgradeInv, CordonInv
<1>8. QED
  BY <1>1, <1>5, <1>6, <1>7 DEF UpgradeInv, LockInv

-----------------------------------------------------------------------------
(***************************************************************************)
(* The invariant holds of every behaviour, whatever requests fail, however  *)
(* far the caches lag and whenever processes die.                          *)
(***************************************************************************)
THEOREM UpgradeInvariance == Spec => []UpgradeInv
<1>1. Init => UpgradeInv
  <2> SUFFICES ASSUME Init
               PROVE  UpgradeInv
    OBVIOUS
  <2> USE DEF Init, LockInit
  <2>1. UpgradeTypeOK
    <3>1. LockTypeOK
      BY Zenon DEF LockTypeOK
    <3>2. 0 \in 0..Period - 1
      BY UpgradeAssumption
    <3>3. [last |-> Never, cordoned |-> FALSE] \in Status
      BY DEF Status, Age
    <3>4. QED
      BY <3>1, <3>2, <3>3, Zenon DEF UpgradeTypeOK, PC, Age
  <2>2. \A n \in Caller : GrantInv(n) /\ Works(n)
    BY DEF GrantInv, Works, Upgrading
  <2>3. \A n \in KubeNode : CordonInv(n)
    BY UpgradeAssumption DEF CordonInv
  <2>4. QED
    BY <2>1, <2>2, <2>3 DEF UpgradeInv
<1>2. UpgradeInv /\ [Next]_vars => UpgradeInv'
  <2> SUFFICES ASSUME UpgradeInv, [Next]_vars
               PROVE  UpgradeInv'
    OBVIOUS
  <2>1. ASSUME NEW n \in Caller, Reconcile(n) \/ Proceed(n) \/ CacheSync(n) \/ Restart(n)
        PROVE  UpgradeInv'
    BY <2>1, RequestStep, NodeStepInv
  <2>2. CASE Tick
    BY <2>2, TickInv, SMTT(60), ZenonT(60)
  <2>3. CASE UNCHANGED vars
    BY <2>3 DEF vars, UpgradeInv, UpgradeTypeOK, LockTypeOK, GrantInv, isExpired, Works, Upgrading, CordonInv
  <2>4. QED
    BY <2>1, <2>2, <2>3 DEF Next
<1>3. QED
  BY <1>1, <1>2, PTL DEF Spec

(***************************************************************************)
(* Type correctness of the upgrade group.                                  *)
(***************************************************************************)
THEOREM UpgradeTypes == Spec => []UpgradeTypeOK
<1>1. UpgradeInv => UpgradeTypeOK
  BY DEF UpgradeInv
<1>2. QED
  BY <1>1, UpgradeInvariance, PTL

(***************************************************************************)
(* In a group of any size, two nodes are never both between LockFor and the  *)
(* reboot with live leases (handleUpgrade).                                *)
(***************************************************************************)
THEOREM GroupExclusion == Spec => []OneUpgradingInLease
<1>1. UpgradeInv => OneUpgradingInLease
  <2> SUFFICES ASSUME UpgradeInv, NEW p \in Caller, NEW q \in Caller,
                      p # q, Upgrading(p), Upgrading(q),
                      ~isExpired(grant[p]), ~isExpired(grant[q])
               PROVE  FALSE
    BY DEF OneUpgradingInLease
  <2>1. grant[p].holder = id[p] /\ lease = grant[p]
    BY DEF UpgradeInv, GrantInv, Works
  <2>2. grant[q].holder = id[q] /\ lease = grant[q]
    BY DEF UpgradeInv, GrantInv, Works
  <2>3. id[p] # id[q]
    BY HostnameAssumption DEF Solo
  <2>4. QED
    BY <2>1, <2>2, <2>3
<1>2. QED
  BY <1>1, UpgradeInvariance, PTL

(***************************************************************************)
(* A Kubernetes node is drained and upgraded only while it is cordoned and   *)
(* recorded as such (cordonNode, handleUpgrade).                            *)
(***************************************************************************)
THEOREM CordonedWhileUpgraded == Spec => []UpgradedWhileCordoned
<1>1. UpgradeInv => UpgradedWhileCordoned
  BY DEF UpgradeInv, CordonInv, UpgradedWhileCordoned
<1>2. QED
  BY <1>1, UpgradeInvariance, PTL

(* An age is not above the age that follows it.                             *)
LEMMA OlderIsNoYounger ==
  ASSUME NEW a \in Age, a # Never
  PROVE  /\ a <= Older(a) /\ 0 <= Older(a)
         /\ OlderAge(a) = Older(a) /\ Older(a) # Never /\ Older(a) <= Older(a)
<1>1. a \in 0..AgeCap
  BY DEF Age
<1>2. Older(a) \in 0..AgeCap /\ Older(a) >= a
  BY <1>1, OlderType
<1>3. QED
  BY <1>1, <1>2, ConstantsAssumption, UpgradeAssumption DEF OlderAge

(***************************************************************************)
(* No status write undoes another one, although each goes through a copy     *)
(* from a cache that lags (updateNodeStatus, cordonNode, maybeUncordon).    *)
(***************************************************************************)
THEOREM WritesKeepRecords == Spec => RecordsKept
<1>1. UpgradeInv /\ [Next]_vars => [RecordsKeptStep]_vars
  <2> SUFFICES ASSUME UpgradeInv, Next, NEW n \in Caller
               PROVE  /\ mn[n].last # Never => mn'[n].last # Never /\ mn'[n].last <= Older(mn[n].last)
                      /\ mn[n].cordoned /\ ~mn'[n].cordoned => n \notin unsched
    BY DEF RecordsKeptStep
  <2>1. mn \in [Caller -> Status] /\ mn[n] \in Status /\ mn[n].last \in Age /\ Works(n)
    BY StatusType DEF UpgradeInv, UpgradeTypeOK
  <2>2. mn[n].last # Never => mn[n].last <= Older(mn[n].last) /\ 0 <= Older(mn[n].last)
    BY <2>1, OlderIsNoYounger
  <2>3. CASE mn'[n] = mn[n]
    BY <2>2, <2>3
  <2>4. CASE ClearCordon(n)
    <3>1. mn'[n] = [mn[n] EXCEPT !.cordoned = FALSE]
      BY <2>1, <2>4 DEF ClearCordon, UpdateStatus
    <3>2. mn'[n].last = mn[n].last /\ n \notin unsched
      BY <2>1, <2>4, <3>1, StatusType DEF ClearCordon, Works
    <3>3. QED
      BY <2>2, <3>2
  <2>5. CASE RecordCordon(n)
    <3>1. mn'[n] = [mn[n] EXCEPT !.cordoned = TRUE]
      BY <2>1, <2>5 DEF RecordCordon, UpdateStatus
    <3>2. mn'[n].last = mn[n].last /\ mn'[n].cordoned
      BY <2>1, <3>1 DEF Status
    <3>3. QED
      BY <2>2, <3>2
  <2>6. CASE StampUpgrade(n)
    <3>1. mn'[n] = [mn[n] EXCEPT !.last = 0]
      BY <2>1, <2>6 DEF StampUpgrade, UpdateStatus
    <3>2. mn'[n].last = 0 /\ mn'[n].cordoned = mn[n].cordoned
      BY <2>1, <3>1 DEF Status
    <3>3. 0 # Never
      BY UpgradeAssumption
    <3>4. QED
      BY <2>2, <3>2, <3>3
  <2>7. CASE Tick
    <3>1. mn'[n] = [mn[n] EXCEPT !.last = OlderAge(mn[n].last)]
      BY <2>7 DEF Tick
    <3>2. mn'[n].last = OlderAge(mn[n].last) /\ mn'[n].cordoned = mn[n].cordoned
      BY <2>1, <3>1 DEF Status
    <3>3. QED
      BY <2>1, <3>2, OlderIsNoYounger
  <2>8. ASSUME NEW m \in Caller, m # n, ClearCordon(m) \/ RecordCordon(m) \/ StampUpgrade(m)
        PROVE  mn'[n] = mn[n]
    BY <2>1, <2>8, SMTT(60), ZenonT(60) DEF ClearCordon, RecordCordon, StampUpgrade, UpdateStatus
  <2>9. ASSUME NEW m \in Caller,
               Reconcile(m) \/ CacheSync(m) \/ Restart(m) \/ UncordonPatch(m) \/ ReleaseLeftover(m)
               \/ UpgradeDue(m) \/ LockGroup(m) \/ CordonPatch(m) \/ Drain(m) \/ Upgrade(m)
               \/ Reboot(m) \/ Fail(m)
        PROVE  mn'[n] = mn[n]
    BY <2>9, Zenon DEF Reconcile, CacheSync, Restart, UncordonPatch, ReleaseLeftover, UpgradeDue, LockGroup,
                CordonPatch, Drain, Upgrade, Reboot, Fail
  <2>10. QED
    BY <2>3, <2>4, <2>5, <2>6, <2>7, <2>8, <2>9, ZenonT(60) DEF Next, Proceed
<1>2. QED
  BY <1>1, UpgradeInvariance, PTL DEF Spec, RecordsKept

-----------------------------------------------------------------------------
(* Upgrades that are approved by a user.                                    *)

(* What requestUpgradeApproval does in memory leaves the upgrade as it is.   *)
LEMMA AskingIsInvisible ==
  ASSUME NEW n \in Caller,
         WaitForApproval(n) \/ NotifyAgents \/ Answered \/ Deadline \/ Approved
  PROVE  UNCHANGED vars
BY DEF WaitForApproval, NotifyAgents, Answered, Deadline, Approved

(* What a reconcile does, asking or not, is a step of UpgradeGroup.          *)
LEMMA ProceedRefines ==
  ASSUME NEW n \in Caller, AProceed(n)
  PROVE  Proceed(n) \/ UNCHANGED vars
<1>1. CASE WaitForApproval(n) \/ NotifyAgents \/ Answered \/ Deadline \/ Approved
  BY <1>1, AskingIsInvisible
<1>2. CASE Refused(n) \/ NotLocked(n)
  BY <1>2, SMTT(60), ZenonT(60) DEF Refused, NotLocked, Proceed
<1>3. CASE ApprovedLock(n) \/ Unasked(n)
  BY <1>3 DEF ApprovedLock, Unasked, Proceed
<1>4. CASE ApprovedStamp(n)
  BY <1>4 DEF ApprovedStamp, Proceed
<1>5. CASE OtherRequest(n)
  BY <1>5, SMTT(60), ZenonT(60) DEF OtherRequest, Proceed
<1>6. QED
  BY <1>1, <1>2, <1>3, <1>4, <1>5 DEF AProceed

(* The agents and the server's sessions do not touch the upgrade.            *)
LEMMA AgentsAreInvisible ==
  ASSUME \/ \E s \in Session : Subscribe(s) \/ Unsubscribe(s) \/ handleEvent(s) \/ AgentGoes(s)
         \/ \E q \in prompts : NotificationClosed(q) \/ \E a \in {"approve", "deny"} : Answer(q, a)
         \/ runNotify
  PROVE  UNCHANGED vars
BY DEF Subscribe, Unsubscribe, handleEvent, AgentGoes, NotificationClosed, Answer, runNotify

(* A step of the node that is looked at, of its agents or of time is one of   *)
(* UpgradeGroup.                                                           *)
LEMMA NodeRefines == node \in Caller /\ [ANext]_allVars => [Next]_vars /\ (node \in Caller)'
<1> SUFFICES ASSUME node \in Caller, [ANext]_allVars
             PROVE  [Next]_vars /\ node' \in Caller
  OBVIOUS
<1>1. node' \in Caller
  BY DEF ANext, allVars
<1>2. CASE AReconcile(node) \/ ACacheSync(node) \/ ARestart(node)
  BY <1>1, <1>2 DEF AReconcile, ACacheSync, ARestart, Next
<1>3. CASE AProceed(node)
  BY <1>1, <1>3, ProceedRefines DEF Next
<1>4. CASE ATick
  BY <1>1, <1>4 DEF ATick, Next
<1>5. CASE UNCHANGED allVars
  BY <1>1, <1>5 DEF allVars
<1>6. QED
  BY <1>1, <1>2, <1>3, <1>4, <1>5, AgentsAreInvisible DEF ANext

(***************************************************************************)
(* The upgrade with its approval implements the upgrade group: the node that  *)
(* is looked at takes steps of UpgradeGroup, the rest stutters.              *)
(***************************************************************************)
THEOREM ApprovalRefinement == ASpec => ImplementsUpgradeGroup
<1>1. AInit => Init /\ node \in Caller
  BY DEF AInit
<1>2. QED
  BY <1>1, NodeRefines, PTL DEF ASpec, Spec, ImplementsUpgradeGroup

(***************************************************************************)
(* So does the whole group, in which the other nodes upgrade meanwhile: one   *)
(* may take the lease while the user of one node is asked.                  *)
(***************************************************************************)
THEOREM GroupRefinement == GroupSpec => ImplementsUpgradeGroup
<1>1. AInit => Init /\ node \in Caller
  BY DEF AInit
<1>2. node \in Caller /\ [GroupNext]_allVars => [Next]_vars /\ (node \in Caller)'
  <2> SUFFICES ASSUME node \in Caller, [GroupNext]_allVars
               PROVE  [Next]_vars /\ node' \in Caller
    OBVIOUS
  <2>1. CASE [ANext]_allVars
    BY <2>1, NodeRefines
  <2>2. ASSUME NEW m \in Caller \ {node}, OtherNode(m)
        PROVE  [Next]_vars /\ node' \in Caller
    BY <2>2 DEF OtherNode, Next
  <2>3. QED
    BY <2>1, <2>2 DEF GroupNext
<1>3. QED
  BY <1>1, <1>2, PTL DEF GroupSpec, Spec, ImplementsUpgradeGroup

(***************************************************************************)
(* Hence a node that asks its user, for as long as they care to think, weakens *)
(* no guarantee of its group: nodes with live leases exclude each other, and  *)
(* each is cordoned while it upgrades.                                      *)
(***************************************************************************)
THEOREM ApprovedExclusion == GroupSpec => [](OneUpgradingInLease /\ UpgradedWhileCordoned)
BY GroupRefinement, GroupExclusion, CordonedWhileUpgraded, PTL DEF ImplementsUpgradeGroup

-----------------------------------------------------------------------------
(***************************************************************************)
(* The invariant of a request.  From the request to the lock, the reconcile   *)
(* of a desktop stays at the approval; and until the call returns, the        *)
(* server's map has the event that the user is asked about.                  *)
(***************************************************************************)
AskInv ==
  /\ node \in Caller
  /\ ask = [at |-> ask.at, ev |-> ask.ev, left |-> ask.left]
  /\ ask.at # "none" => node \in Desktop /\ pc[node] = "lock"
  /\ ask.at \in {"asked", "wait", "approved", "refused"} => pending = ask.ev

(* The reconcile of one node does not move that of another.                   *)
LEMMA OthersKeepPlace ==
  ASSUME NEW n \in Caller, NEW m \in Caller \ {n}, pc \in [Caller -> PC],
         Reconcile(m) \/ Proceed(m) \/ CacheSync(m) \/ Restart(m)
  PROVE  pc'[n] = pc[n]
<1>1. ASSUME NEW l, Goto(m, l) PROVE pc'[n] = pc[n]
  BY <1>1 DEF Goto
<1>2. CASE Proceed(m)
  <2>1. CASE UncordonPatch(m) \/ ClearCordon(m) \/ ReleaseLeftover(m) \/ UpgradeDue(m) \/ LockGroup(m)
    <3>1. \E l : Goto(m, l)
      BY <2>1, Zenon DEF UncordonPatch, ClearCordon, ReleaseLeftover, UpgradeDue, LockGroup, Fail,
                  Continue, Return
    <3> QED
      BY <1>1, <3>1, Zenon
  <2>2. CASE CordonPatch(m) \/ RecordCordon(m) \/ Drain(m) \/ Upgrade(m) \/ StampUpgrade(m) \/ Reboot(m)
    <3>1. \E l : Goto(m, l)
      BY <2>2, Zenon DEF CordonPatch, RecordCordon, Drain, Upgrade, StampUpgrade, Reboot, Fail, Continue, Return
    <3> QED
      BY <1>1, <3>1, Zenon
  <2>3. CASE Fail(m)
    BY <1>1, <2>3, Zenon DEF Fail, Return
  <2> QED
    BY <1>2, <2>1, <2>2, <2>3, Zenon DEF Proceed
<1> QED
  BY <1>1, <1>2 DEF Reconcile, CacheSync, Restart, Return

(* Every step of the server, the agents and the reconciler keeps it.          *)
LEMMA AskStep ==
  ASSUME AskInv, pc \in [Caller -> PC], [GroupNext]_allVars
  PROVE  AskInv'
<1> USE DEF AskInv
<1>0. NoAsk.at = "none" /\ NoAsk = [at |-> NoAsk.at, ev |-> NoAsk.ev, left |-> NoAsk.left]
  BY DEF NoAsk
<1>1. node' = node
  BY DEF GroupNext, ANext, OtherNode, allVars
<1>2. CASE WaitForApproval(node)
  BY <1>1, <1>2 DEF WaitForApproval, vars
<1>3. CASE NotifyAgents
  BY <1>1, <1>3 DEF NotifyAgents, vars
<1>4. CASE Answered
  BY <1>1, <1>4, Zenon DEF Answered, vars
<1>5. CASE Deadline
  BY <1>1, <1>5 DEF Deadline, vars, serverVars
<1>6. CASE Approved
  BY <1>0, <1>1, <1>6 DEF Approved, vars
<1>7. CASE Refused(node) \/ ApprovedLock(node) \/ NotLocked(node) \/ ARestart(node)
  BY <1>0, <1>1, <1>7 DEF Refused, ApprovedLock, NotLocked, ARestart
<1>8. CASE ApprovedStamp(node)
  BY <1>1, <1>8 DEF ApprovedStamp, StampUpgrade
<1>9. CASE Unasked(node)
  BY <1>1, <1>9 DEF Unasked, approvalVars, serverVars
<1>10. CASE OtherRequest(node)
  <2>1. pc[node] # "lock"
    BY <1>10 DEF OtherRequest, UncordonPatch, ClearCordon, ReleaseLeftover, UpgradeDue,
                 CordonPatch, RecordCordon, Drain, Upgrade, Reboot
  <2> QED
    BY <1>1, <1>10, <2>1 DEF OtherRequest, approvalVars, serverVars
<1>11. CASE AReconcile(node)
  BY <1>1, <1>11 DEF AReconcile, Reconcile, approvalVars, serverVars
<1>12. CASE ACacheSync(node)
  BY <1>1, <1>12 DEF ACacheSync, CacheSync, approvalVars, serverVars
<1>13. CASE ATick
  BY <1>1, <1>13, Zenon DEF ATick, Tick
<1>14. ASSUME \/ \E s \in Session : Subscribe(s) \/ Unsubscribe(s) \/ handleEvent(s) \/ AgentGoes(s)
              \/ \E q \in prompts : NotificationClosed(q) \/ \E a \in {"approve", "deny"} : Answer(q, a)
              \/ runNotify
       PROVE  AskInv'
  <2>1. UNCHANGED <<ask, pending>>
    BY <1>14 DEF Subscribe, Unsubscribe, handleEvent, AgentGoes, NotificationClosed, Answer,
                 runNotify, serverVars
  <2> QED
    BY <1>1, <1>14, <2>1, AgentsAreInvisible DEF vars
<1>15. ASSUME NEW m \in Caller \ {node}, OtherNode(m)
       PROVE  AskInv'
  <2>1. pc'[node] = pc[node]
    BY <1>15, OthersKeepPlace DEF OtherNode
  <2> QED
    BY <1>1, <1>15, <2>1 DEF OtherNode, approvalVars, serverVars
<1>16. CASE UNCHANGED allVars
  BY <1>16 DEF allVars, vars, approvalVars, serverVars
<1> QED
  BY <1>2, <1>3, <1>4, <1>5, <1>6, <1>7, <1>8, <1>9, <1>10, <1>11, <1>12, <1>13, <1>14, <1>15, <1>16, Zenon
     DEF GroupNext, ANext, AProceed

(* Hence it holds throughout, whatever the other nodes of the group do.       *)
LEMMA AskInvariant == GroupSpec => [](AskInv /\ pc \in [Caller -> PC])
<1>1. AInit => AskInv
  BY DEF AInit, AskInv, NoAsk
<1>2. UpgradeTypeOK => pc \in [Caller -> PC]
  BY DEF UpgradeTypeOK
<1>3. GroupSpec => []UpgradeTypeOK
  BY GroupRefinement, UpgradeTypes, PTL DEF ImplementsUpgradeGroup
<1> QED
  BY <1>1, <1>2, <1>3, AskStep, PTL DEF GroupSpec

(* The runs look at one node; the theorems below let the others upgrade too.  *)
LEMMA AloneInGroup == ASpec => GroupSpec
<1>1. ANext => GroupNext
  BY DEF GroupNext
<1> QED
  BY <1>1, PTL DEF ASpec, GroupSpec

(* No answer to a request is turned away while it waits: the event stays in   *)
(* the server's map from WaitForApproval to CancelApproval.                  *)
THEOREM AnswersAreKnown == ASpec \/ GroupSpec => []AnswerIsKnown
<1>1. AskInv => AnswerIsKnown
  BY DEF AskInv, AnswerIsKnown, Waiting
<1> QED
  BY <1>1, AskInvariant, AloneInGroup, PTL

(* A denial that reached the server ends the reconcile without an upgrade.    *)
THEOREM DenialIsFinal == ASpec \/ GroupSpec => DenialHonoured
<1>1. /\ AskInv /\ pc \in [Caller -> PC]
      /\ AskInv' /\ (pc \in [Caller -> PC])'
      /\ [GroupNext]_allVars
      => [(Waiting /\ chan = "deny") \/ ask.at = "refused"
            => ask'.at \notin {"approved", "go"} /\ ~Upgrading(node)']_allVars
  <2> SUFFICES ASSUME AskInv, AskInv', pc \in [Caller -> PC], (pc \in [Caller -> PC])', GroupNext,
                      (Waiting /\ chan = "deny") \/ ask.at = "refused"
               PROVE  ask'.at \notin {"approved", "go"} /\ ~Upgrading(node)'
    BY DEF allVars
  <2>0. NoAsk.at = "none"
    BY DEF NoAsk
  <2>1. /\ ask.at \in {"asked", "wait", "refused"} /\ (ask.at = "refused" \/ chan = "deny")
        /\ pc[node] = "lock" /\ node \in Desktop /\ node \in Caller /\ node' = node
    BY DEF AskInv, Waiting, GroupNext, ANext, OtherNode
  <2>2. SUFFICES ask'.at \in {"asked", "wait", "refused"} \/ (pc'[node] = "idle" /\ ask'.at = "none")
    BY <2>1 DEF AskInv, Upgrading
  <2>3. CASE NotifyAgents
    BY <2>3 DEF NotifyAgents, AskInv
  <2>4. CASE Answered
    BY <2>1, <2>4 DEF Answered, AskInv
  <2>5. CASE Deadline
    BY <2>1, <2>5, ApprovalAssumption, SMTT(60), ZenonT(60) DEF Deadline
  <2>6. CASE Refused(node) \/ ARestart(node)
    BY <2>0, <2>1, <2>6 DEF Refused, ARestart, Fail, Restart, Return, Goto
  <2>7. CASE ATick
    BY <2>1, <2>7 DEF ATick, AskInv
  <2>8. CASE WaitForApproval(node) \/ Approved \/ ApprovedLock(node) \/ NotLocked(node)
    BY <2>0, <2>1, <2>8 DEF WaitForApproval, Approved, ApprovedLock, NotLocked
  <2>9. CASE ApprovedStamp(node) \/ Unasked(node) \/ AReconcile(node)
    BY <2>1, <2>9 DEF ApprovedStamp, StampUpgrade, Unasked, AReconcile, Reconcile
  <2>10. CASE \/ OtherRequest(node) \/ ACacheSync(node)
              \/ \E m \in Caller \ {node} : OtherNode(m)
    BY <2>1, <2>10, SMTT(60), ZenonT(60) DEF OtherRequest, ACacheSync, OtherNode, approvalVars
  <2>11. CASE \/ \E s \in Session : Subscribe(s) \/ Unsubscribe(s) \/ handleEvent(s) \/ AgentGoes(s)
              \/ \E q \in prompts : NotificationClosed(q) \/ \E a \in {"approve", "deny"} : Answer(q, a)
              \/ runNotify
    BY <2>1, <2>11, Zenon DEF Subscribe, Unsubscribe, handleEvent, AgentGoes, NotificationClosed, Answer, runNotify
  <2> QED
    BY <2>3, <2>4, <2>5, <2>6, <2>7, <2>8, <2>9, <2>10, <2>11 DEF GroupNext, ANext, AProceed
<1> QED
  BY <1>1, AskInvariant, AloneInGroup, PTL DEF DenialHonoured, GroupSpec
=============================================================================
