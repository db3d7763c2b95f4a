---------------------------- MODULE UpgradeGroup ----------------------------
(***************************************************************************)
(* Scheduled upgrades of the nodes of one upgrade group: the ManagedNode    *)
(* reconciler of every node, from uncordoning to handleUpgrade's reboot,    *)
(* sharing the group's lease through the lock of module GroupLock.         *)
(*                                                                         *)
(* The reconciler reads its ManagedNode through the informer cache, which   *)
(* lags behind the API server, and writes the status of the copy it read:   *)
(* the API server rejects the write unless that copy is current.  Every     *)
(* request to the API server is one step; the process may die, and a        *)
(* request may fail with or without taking effect, between any two steps.   *)
(*                                                                         *)
(* The lock identity of a node is its hostname, so nodes are the callers   *)
(* of GroupLock.  The cron schedule fires once every Period units of time; *)
(* phase is the time since it last did.                                    *)
(***************************************************************************)
EXTENDS GroupLock

CONSTANTS
  KubeNode,     \* the nodes that are also Kubernetes nodes
  Period,       \* time between two occurrences of spec.upgrade.schedule
  Delay,        \* spec.upgrade.delay
  Forgiveness,  \* cfg.ForgivenessPeriod
  Never         \* LastUpgrade = nil

(* The lock identity of a node is its hostname.                            *)
ASSUME HostnameAssumption == \A n \in Caller : Solo(n)

ASSUME UpgradeAssumption ==
  /\ KubeNode \subseteq Caller
  /\ Period \in Nat \ {0}
  /\ 1..Period \subseteq Durations
  /\ Delay \in 0..AgeCap
  /\ Forgiveness \in 1..Period
  /\ Never \notin Nat

VARIABLES
  phase,      \* time since the schedule last fired
  pc,         \* the next request of each node's reconcile
  mn,         \* the status of each ManagedNode, as the API server has it
  cache,      \* the same, as the node's informer cache has it
  seen,       \* LastUpgrade as the running reconcile read it, until it is tested
  unsched     \* the Kubernetes nodes with spec.unschedulable

vars == <<lease, grant, deleted, phase, pc, mn, cache, seen, unsched>>

Age == 0..AgeCap \cup {Never}

Status == [last : Age, cordoned : BOOLEAN]

(***************************************************************************)
(* "uncordon" and "clear" are the requests of maybeUncordon; "head" is what *)
(* handleUpgrade does before the approval, "lock" the approval and LockFor; *)
(* the lock is held from "cordon" to "reboot".                             *)
(***************************************************************************)
PC == {"idle", "uncordon", "clear", "head", "lock", "cordon", "record", "drain",
       "upgrade", "stamp", "reboot"}

Upgrading(n) == pc[n] \in {"cordon", "record", "drain", "upgrade", "stamp", "reboot"}

UpgradeTypeOK ==
  /\ LockTypeOK
  /\ phase \in 0..Period - 1
  /\ pc \in [Caller -> PC]
  /\ mn \in [Caller -> Status]
  /\ cache \in [Caller -> Status]
  /\ seen \in [Caller -> Age]
  /\ unsched \subseteq KubeNode

Init ==
  /\ LockInit
  /\ phase = 0
  /\ pc = [n \in Caller |-> "idle"]
  /\ mn = [n \in Caller |-> [last |-> Never, cordoned |-> FALSE]]
  /\ cache = mn
  /\ seen = [n \in Caller |-> Never]
  /\ unsched = {}

-----------------------------------------------------------------------------
(* Steps shared by the requests.                                           *)

Goto(n, label) == pc' = [pc EXCEPT ![n] = label]

(* The reconcile goes on to the request at label.                          *)
Continue(n, label) ==
  /\ Goto(n, label)
  /\ UNCHANGED <<grant, deleted, seen>>

(* The reconcile returns, whether with a result or with an error.          *)
Return(n) ==
  /\ Goto(n, "idle")
  /\ seen' = [seen EXCEPT ![n] = Never]
  /\ Granted(n, NoLease)
  /\ UNCHANGED deleted

(* Variant: the update does not carry the resourceVersion of the copy.      *)
UpdateStatusBlindly(n, s) ==
  /\ mn' = [mn EXCEPT ![n] = s]
  /\ UNCHANGED cache

(* A status update of the cached copy; a copy that is not current is        *)
(* rejected, and after a few attempts the reconcile fails (see Fail).       *)
UpdateStatus(n, s) ==
  /\ cache[n] = mn[n]
  /\ mn' = [mn EXCEPT ![n] = s]
  /\ UNCHANGED cache

-----------------------------------------------------------------------------
(* Reconcile: read the ManagedNode, then uncordon what an earlier upgrade   *)
(* cordoned.                                                               *)

(* Variant: nothing is uncordoned.                                         *)
ReconcileCordoned(n) ==
  /\ pc[n] = "idle"
  /\ seen' = [seen EXCEPT ![n] = cache[n].last]
  /\ Goto(n, "head")
  /\ UNCHANGED <<lockVars, phase, mn, cache, unsched>>

Reconcile(n) ==
  /\ pc[n] = "idle"
  /\ seen' = [seen EXCEPT ![n] = cache[n].last]
  /\ Goto(n, IF cache[n].cordoned THEN "uncordon" ELSE "head")
  /\ UNCHANGED <<lockVars, phase, mn, cache, unsched>>

(* A request that takes effect may still be reported as an error.          *)
UncordonPatch(n) ==
  /\ pc[n] = "uncordon"
  /\ unsched' = unsched \ {n}
  /\ Continue(n, "clear") \/ Return(n)
  /\ UNCHANGED <<lease, phase, mn, cache>>

ClearCordon(n) ==
  /\ pc[n] = "clear"
  /\ UpdateStatus(n, [cache[n] EXCEPT !.cordoned = FALSE])
  /\ Continue(n, "head") \/ Return(n)
  /\ UNCHANGED <<lease, phase, unsched>>

-----------------------------------------------------------------------------
(* handleUpgrade.                                                          *)

(* now - next, where next is the first occurrence of the schedule after     *)
(* now - Forgiveness.                                                      *)
SinceNext == IF phase < Forgiveness THEN phase ELSE phase - Period

(* The time until the next occurrence of the schedule.                     *)
lockTTL == Period - phase

(* A lease left by an earlier upgrade is given back, and the reconcile ends *)
(* there.                                                                  *)
ReleaseLeftover(n) ==
  /\ pc[n] = "head"
  /\ Release(n)
  /\ Goto(n, "idle")
  /\ seen' = [seen EXCEPT ![n] = Never]
  /\ UNCHANGED <<phase, mn, cache, unsched>>

(* The upgrade is due.  Locked reports FALSE when it cannot read the lease, *)
(* so that the node gets here with its own lease still in place.            *)
UpgradeDue(n) ==
  /\ pc[n] = "head"
  /\ ~(seen[n] # Never /\ seen[n] < Delay)
  /\ SinceNext < Forgiveness
  /\ Goto(n, "lock")
  /\ seen' = [seen EXCEPT ![n] = Never]
  /\ UNCHANGED <<lockVars, phase, mn, cache, unsched>>

(* Variant: hosts outside the cluster are cordoned as well.                *)
CordonsAll(n) == "cordon"

(* Only a host with a Kubernetes Node object is cordoned and drained.       *)
Cordons(n) == IF n \in KubeNode THEN "cordon" ELSE "upgrade"

(* The user approves, or lets the deadline pass, and LockFor is called.     *)
LockGroup(n) ==
  /\ pc[n] = "lock"
  /\ \/ /\ Acquire(n, lockTTL, 0) \/ Reenter(n)
        /\ Goto(n, Cordons(n))
     \/ /\ AcquireUnawares(n, lockTTL, 0)
        /\ Goto(n, "idle")
  /\ UNCHANGED <<phase, mn, cache, seen, unsched>>

CordonPatch(n) ==
  /\ pc[n] = "cordon"
  /\ unsched' = unsched \cup {n}
  /\ Continue(n, "record") \/ Return(n)
  /\ UNCHANGED <<lease, phase, mn, cache>>

(* Variant: a failure to record the cordon does not end the upgrade.        *)
RecordCordonLeniently(n) ==
  /\ pc[n] = "record"
  /\ \/ UpdateStatus(n, [cache[n] EXCEPT !.cordoned = TRUE])
     \/ UNCHANGED <<mn, cache>>
  /\ Continue(n, "drain")
  /\ UNCHANGED <<lease, phase, unsched>>

RecordCordon(n) ==
  /\ pc[n] = "record"
  /\ UpdateStatus(n, [cache[n] EXCEPT !.cordoned = TRUE])
  /\ Continue(n, "drain") \/ Return(n)
  /\ UNCHANGED <<lease, phase, unsched>>

(* A drain that fails or times out is logged and the upgrade proceeds.      *)
Drain(n) ==
  /\ pc[n] = "drain"
  /\ Continue(n, "upgrade")
  /\ UNCHANGED <<lease, phase, mn, cache, unsched>>

(* Packages, then the operating system.                                    *)
Upgrade(n) ==
  /\ pc[n] = "upgrade"
  /\ Continue(n, "stamp")
  /\ UNCHANGED <<lease, phase, mn, cache, unsched>>

StampUpgrade(n) ==
  /\ pc[n] = "stamp"
  /\ UpdateStatus(n, [cache[n] EXCEPT !.last = 0])
  /\ Continue(n, "reboot") \/ Return(n)
  /\ UNCHANGED <<lease, phase, unsched>>

(* The reboot command only starts the reboot, and its failure is logged:    *)
(* the reconcile returns with the lease in place.                          *)
Reboot(n) ==
  /\ pc[n] = "reboot"
  /\ Return(n)
  /\ UNCHANGED <<lease, phase, mn, cache, unsched>>

(***************************************************************************)
(* Every other way out of the reconcile, which leaves all else as it is:    *)
(* a request failed or kept meeting conflicts; the hold annotation is set,  *)
(* no schedule is set, the delay has not passed, the lease could not be     *)
(* released; no agent is connected or the user said no; another node holds  *)
(* the lease.                                                              *)
(***************************************************************************)
Fail(n) ==
  /\ pc[n] \notin {"idle", "drain", "reboot"}
  /\ Return(n)
  /\ UNCHANGED <<lease, phase, mn, cache, unsched>>

-----------------------------------------------------------------------------
(* The environment.                                                        *)

(* The watch delivers the ManagedNode.                                     *)
CacheSync(n) ==
  /\ cache[n] # mn[n]
  /\ cache' = [cache EXCEPT ![n] = mn[n]]
  /\ UNCHANGED <<lockVars, phase, pc, mn, seen, unsched>>

(* The process dies, by a crash or by the reboot it asked for; a new one    *)
(* lists the ManagedNodes before it reconciles.                            *)
Restart(n) ==
  /\ pc[n] # "idle"
  /\ Return(n)
  /\ cache' = [cache EXCEPT ![n] = mn[n]]
  /\ UNCHANGED <<lease, phase, mn, unsched>>

OlderAge(a) == IF a = Never THEN a ELSE Older(a)

Tick ==
  /\ LockTick
  /\ phase' = (phase + 1) % Period
  /\ mn' = [n \in Caller |-> [mn[n] EXCEPT !.last = OlderAge(@)]]
  /\ cache' = [n \in Caller |-> [cache[n] EXCEPT !.last = OlderAge(@)]]
  /\ seen' = [n \in Caller |-> OlderAge(seen[n])]
  /\ UNCHANGED <<pc, unsched>>

-----------------------------------------------------------------------------
(* What a running reconcile does next.                                     *)
Proceed(n) ==
  \/ UncordonPatch(n)
  \/ ClearCordon(n)
  \/ ReleaseLeftover(n)
  \/ UpgradeDue(n)
  \/ LockGroup(n)
  \/ CordonPatch(n)
  \/ RecordCordon(n)
  \/ Drain(n)
  \/ Upgrade(n)
  \/ StampUpgrade(n)
  \/ Reboot(n)
  \/ Fail(n)

Next ==
  \/ \E n \in Caller : Reconcile(n) \/ Proceed(n) \/ CacheSync(n) \/ Restart(n)
  \/ Tick

Spec == Init /\ [][Next]_vars

(***************************************************************************)
(* Every reconcile ends and, since errors are requeued and the manager      *)
(* resyncs every two minutes, is followed by another one even if the        *)
(* process keeps dying; the watch catches up; uncordoning does not fail     *)
(* every time it is tried.                                                 *)
(***************************************************************************)
Fairness ==
  \A n \in Caller :
    /\ WF_vars(Proceed(n))
    /\ SF_vars(Reconcile(n))
    /\ WF_vars(CacheSync(n))
    /\ SF_vars(UncordonPatch(n))

FairSpec == Spec /\ Fairness

-----------------------------------------------------------------------------
(* Properties.                                                             *)

(***************************************************************************)
(* Two nodes of a group are never both between LockFor and the reboot       *)
(* while both of their leases are live (managednode_controller.go:552-645,  *)
(* docs/api/managednode.md upgrade.group).                                 *)
(***************************************************************************)
OneUpgradingInLease ==
  \A p, q \in Caller :
    p # q /\ Upgrading(p) /\ Upgrading(q) => isExpired(grant[p]) \/ isExpired(grant[q])

(***************************************************************************)
(* While a Kubernetes node is drained, upgraded and told to reboot it takes *)
(* no new pods, and the ManagedNode says so, so that whatever interrupts    *)
(* the upgrade, a later reconcile will uncordon it                          *)
(* (managednode_controller.go:587-645, 929-934).                           *)
(***************************************************************************)
UpgradedWhileCordoned ==
  \A n \in KubeNode :
    pc[n] \in {"drain", "upgrade", "stamp", "reboot"} => n \in unsched /\ mn[n].cordoned

(***************************************************************************)
(* The three status writes go through copies read from the cache, but none  *)
(* undoes another: LastUpgrade never goes back to an older upgrade, and the *)
(* record of a cordon only disappears from a node that is schedulable again *)
(* (managednode_controller.go:622-631, 823-832, 915-924).                  *)
(***************************************************************************)
RecordsKeptStep ==
  \A n \in Caller :
    /\ mn[n].last # Never => mn'[n].last # Never /\ mn'[n].last <= Older(mn[n].last)
    /\ mn[n].cordoned /\ ~mn'[n].cordoned => n \notin unsched

RecordsKept == [][RecordsKeptStep]_vars

(***************************************************************************)
(* A recorded cordon is always undone, however the upgrade ends             *)
(* (managednode_controller.go:928-934).                                    *)
(***************************************************************************)
CordonUndone == \A n \in KubeNode : mn[n].cordoned ~> n \notin unsched

(***************************************************************************)
(* Only one node of the group upgrades at a time.  docs/api/managednode.md  *)
(* upgrade.group: "Only one node in the group upgrades at a time."          *)
(***************************************************************************)
OneUpgrading ==
  \A p, q \in Caller : p # q /\ Upgrading(p) => ~Upgrading(q)

(* An upgrade begins.                                                      *)
Begins(n) == ~Upgrading(n) /\ Upgrading(n)'

(***************************************************************************)
(* An upgrade is found due only within the forgiveness period after its     *)
(* schedule fired.                                                         *)
(* managednode_controller.go:528: "If we are outside of the minute range in *)
(* either direction, return the time which we should check again."          *)
(***************************************************************************)
OnSchedule ==
  [][\A n \in Caller : pc[n] = "head" /\ pc'[n] = "lock" => phase < Forgiveness]_vars

(***************************************************************************)
(* No node starts an upgrade in a slot in which another one has completed   *)
(* its own.  managednode_controller.go:553: "TTL spans until the next       *)
(* schedule occurrence so at most one group member upgrades per slot."      *)
(***************************************************************************)
OnePerSlot ==
  [][\A p, q \in Caller : p # q /\ Begins(p) => mn[q].last = Never \/ mn[q].last > phase]_vars

(***************************************************************************)
(* A node that nodemanager has cordoned, with no upgrade underway, is       *)
(* recorded as such.  managednode_types.go:117: "KubernetesNodeCordoned     *)
(* records when nodemanager cordoned the k8s node for an upgrade. Nil when  *)
(* not cordoned by nodemanager."                                           *)
(***************************************************************************)
CordonRecorded == \A n \in KubeNode : n \in unsched /\ pc[n] = "idle" => mn[n].cordoned
=============================================================================
