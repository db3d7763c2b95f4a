----------------------------- MODULE Jail_proofs -----------------------------
(***************************************************************************)
(* Proofs about the life of a jail, for any specs, templates and releases     *)
(* and any number of edits, failed commands, crashes and reboots.           *)
(***************************************************************************)
EXTENDS Jail, TLAPS

(* The branches of a reconcile and the places in them from which on a part    *)
(* of the work is done.                                                    *)
Deleting == DeleteSteps \cup {"protection", "unfinalize"}
Configured == {"pf", "rc", "stop", "cycle", "start", "bootstrap", "hooks", "status", "update",
               "update stop", "freebsd-update", "update start", "updated"}
Rooted == {"fstab", "conf"} \cup Configured
Ensuring == {"template", "progressing", "release", "root", "snapshot", "clone"} \cup Rooted
Steps == Ensuring \cup Deleting \cup {"idle", "finalizer"}

(* The local variables of a reconcile.  The spec is there once the template  *)
(* is resolved.                                                            *)
JailRun(m) ==
  [at : Steps, job : Job(m) \cup {NoJail}, spec : Merged(m) \cup {Unset}, hooks : BOOLEAN,
   changed : BOOLEAN, up : BOOLEAN]

Datasets ==
  [releases : [Release -> {"none", "partial", "full"}], snaps : SUBSET Release,
   dataset : BOOLEAN, root : Root \cup {Unset}]

JailShape ==
  /\ plan \in Scenario
  /\ jobj \in Job(plan) \cup {NoJail} /\ jcache \in Job(plan) \cup {NoJail}
  /\ tmpl \in JailTemplates(plan) \cup {Unset}
  /\ zfs \in Datasets
  /\ files = [conf |-> files.conf, fstab |-> files.fstab, rc |-> files.rc,
              enabled |-> files.enabled, anchor |-> files.anchor]
  /\ kernel = [jail |-> kernel.jail, aliases |-> kernel.aliases]
  /\ r \in JailRun(plan)
  /\ r.at # "idle" => r.job \in Job(plan)
  /\ r.at \in Ensuring \ {"template"} => r.spec \in Merged(plan)

(* What EnsureJail has done so far is there while it goes on: release and     *)
(* dataset, snapshot, root, fstab and jail.conf.                            *)
Progress ==
  /\ r.at \in {"root", "snapshot", "clone"} => zfs.dataset /\ isExtracted(r.spec.release)
  /\ r.at = "clone" => r.spec.release \in zfs.snaps
  /\ r.at \in {"snapshot", "clone"} => kernel.jail = Unset \/ cut
  /\ r.at \in Rooted => zfs.root # Unset /\ zfs.root.release = r.spec.release
  /\ r.at \in Rooted \ {"fstab"} /\ r.spec.mounts # {} => files.fstab = r.spec.mounts
  /\ r.at \in Configured => files.conf = JailConf(r.spec)

(* The running jail was started from the files as they are.                 *)
FromFiles ==
  /\ files.conf # Unset /\ kernel.jail.conf = files.conf
  /\ files.conf.fstab => kernel.jail.fstab = files.fstab

(* A running jail has a root and was started from the files, unless a stop    *)
(* was lost or is about to come.  A jail.conf that names an fstab has one.   *)
Running ==
  /\ kernel.jail # Unset => cut \/ r.changed \/ FromFiles
  /\ files.conf # Unset /\ files.conf.fstab => files.fstab # Unset

(***************************************************************************)
(* The finalizer.  While the object does not have it, nothing of the jail is  *)
(* on the host; it has it while the jail is made, and also if the cache says  *)
(* so of an object that is not deleted.  While the jail is torn down, object   *)
(* and cache stay deleted, or are a new object that has no finalizer yet.    *)
(* No object is mistaken for one that the cache knows as deleted.           *)
(***************************************************************************)
HasFin(o) == o # NoJail /\ o.fin
Alive(o) == HasFin(o) /\ ~o.deleting

Finalizer ==
  /\ ~HasFin(jobj) => TornDown
  /\ Alive(jcache) => HasFin(jobj)
  /\ r.at \in Ensuring => HasFin(jobj)
  /\ r.at \in Deleting => ~Alive(jobj) /\ ~Alive(jcache)
  /\ jcache # NoJail /\ jcache.deleting => ~Alive(jobj)
  /\ r.at = "finalizer" =>
       /\ ~r.job.fin /\ ~r.job.deleting
       /\ jcache # NoJail /\ jcache.deleting => jobj # NoJail /\ jobj.deleting

(* What DeleteJail has removed so far is gone while it goes on.             *)
TearDown ==
  /\ r.at \in Deleting \ {"protection"} => kernel.jail = Unset \/ cut
  /\ r.at \in Deleting \ {"protection", "remove rc"} => ~files.rc
  /\ r.at \in {"remove fstab", "destroy", "destroy snapshot", "unfinalize"} => files.conf = Unset
  /\ r.at \in {"destroy", "destroy snapshot", "unfinalize"} => files.fstab = Unset
  /\ r.at \in {"destroy snapshot", "unfinalize"} => ~zfs.dataset /\ zfs.root = Unset

(* The inductive invariant.                                                *)
JailInv == JailTypeOK /\ JailShape /\ Progress /\ NeverRootless /\ Running /\ Finalizer /\ TearDown

(* The object is the same, or has another status.                          *)
StatusOnly ==
  \/ jobj' = jobj
  \/ jobj # NoJail /\ jobj' \in Job(plan) /\ jobj'.fin = jobj.fin /\ jobj'.deleting = jobj.deleting

-----------------------------------------------------------------------------
(* A write of the status, by updateStatusWithRetry or for the condition       *)
(* Degraded, leaves finalizer and deletion alone.                           *)
LEMMA StatusWrite ==
  ASSUME JailInv
  PROVE  /\ \A b \in BOOLEAN : SetDegraded(b) => StatusOnly
         /\ WriteStatus([jcache EXCEPT !.progressing = TRUE]) => StatusOnly
         /\ WriteStatus([jcache EXCEPT !.post = TRUE]) => StatusOnly
         /\ WriteStatus([jcache EXCEPT !.updated = TRUE]) => StatusOnly
         /\ \A up \in BOOLEAN, v \in Release :
              WriteStatus([jcache EXCEPT !.progressing = FALSE, !.avail = up, !.degraded = ~up,
                             !.release = v]) => StatusOnly
<1>1. jobj \in Job(plan) \cup {NoJail} /\ jcache \in Job(plan) \cup {NoJail}
  BY DEF JailInv, JailShape
<1>2. ASSUME NEW b \in BOOLEAN, SetDegraded(b) PROVE StatusOnly
  BY <1>1, <1>2, Zenon DEF SetDegraded, StatusOnly, Job
<1>3. ASSUME WriteStatus([jcache EXCEPT !.progressing = TRUE]) PROVE StatusOnly
  BY <1>1, <1>3, Zenon DEF WriteStatus, StatusOnly, Job
<1>4. ASSUME WriteStatus([jcache EXCEPT !.post = TRUE]) PROVE StatusOnly
  BY <1>1, <1>4, Zenon DEF WriteStatus, StatusOnly, Job
<1>5. ASSUME WriteStatus([jcache EXCEPT !.updated = TRUE]) PROVE StatusOnly
  BY <1>1, <1>5, Zenon DEF WriteStatus, StatusOnly, Job
<1>6. ASSUME NEW up \in BOOLEAN, NEW v \in Release,
             WriteStatus([jcache EXCEPT !.progressing = FALSE, !.avail = up, !.degraded = ~up,
                            !.release = v])
      PROVE StatusOnly
  BY <1>1, <1>6, ZenonT(60) DEF WriteStatus, StatusOnly, Job
<1> QED
  BY <1>2, <1>3, <1>4, <1>5, <1>6, Zenon

(* A reconcile may end anywhere, by an error, a conflict or a crash: what it  *)
(* leaves undone is allowed for, and a stop it owed is recorded as lost.     *)
LEMMA ReturnStep ==
  ASSUME JailInv, Return \/ (r' = Idle /\ cut' = cut /\ ~r.changed),
         StatusOnly, UNCHANGED <<plan, tmpl, files, kernel, jedits>>,
         zfs' = zfs \/ (At("release") /\ Interrupted), jcache' \in {jcache, jobj'},
         jfaults' \in 0..plan.faults, lock' \in {"free", "mine", "other"}
  PROVE  JailInv'
<1>1. Idle \in JailRun(plan) /\ Idle.at = "idle" /\ ~Idle.changed
  BY DEF Idle, JailRun, Steps
<1>2. r' = Idle /\ r'.at = "idle" /\ ~r'.changed /\ (cut => cut') /\ (r.changed => cut')
  <2>1. CASE Return
    BY <1>1, <2>1, Zenon DEF Return, JailInv, JailTypeOK
  <2>2. CASE r' = Idle /\ cut' = cut /\ ~r.changed
    BY <1>1, <2>2
  <2> QED
    BY <2>1, <2>2
<1>3. /\ zfs' \in Datasets
      /\ zfs'.root = zfs.root /\ zfs'.dataset = zfs.dataset /\ zfs'.snaps = zfs.snaps
      /\ \A v \in Release : isExtracted(v) => isExtracted(v)'
  BY DEF Interrupted, isExtracted, JailInv, JailShape, Datasets
<1>4. JailShape'
  <2>1. plan' \in Scenario /\ tmpl' \in JailTemplates(plan') \cup {Unset}
    BY DEF JailInv, JailShape
  <2>2. jobj' \in Job(plan') \cup {NoJail} /\ jcache' \in Job(plan') \cup {NoJail}
    BY DEF JailInv, JailShape, StatusOnly
  <2>3. r' \in JailRun(plan') /\ ~(r'.at \in Ensuring)
    BY <1>1, <1>2 DEF Ensuring, Rooted, Configured
  <2> QED
    BY <1>2, <1>3, <2>1, <2>2, <2>3 DEF JailInv, JailShape
<1>5. JailTypeOK'
  BY <1>2, <1>3 DEF JailInv, JailTypeOK, StatusOnly, OtherSteps, Datasets
<1>6. Progress' /\ TearDown'
  BY <1>2 DEF Progress, TearDown, Rooted, Configured, Deleting, DeleteSteps
<1>7. NeverRootless' /\ Running'
  BY <1>2, <1>3 DEF JailInv, NeverRootless, Running, FromFiles
<1>8. Finalizer'
  <2>1. HasFin(jobj') = HasFin(jobj) /\ Alive(jobj') = Alive(jobj)
    BY JailAssumption DEF JailInv, JailShape, StatusOnly, HasFin, Alive
  <2>2. ~HasFin(jobj') => TornDown'
    BY <1>2, <1>3, <2>1 DEF JailInv, Finalizer, TornDown
  <2>3. Alive(jcache') => HasFin(jobj')
    BY <2>1 DEF JailInv, Finalizer, Alive
  <2>4. jcache' # NoJail /\ jcache'.deleting => ~Alive(jobj')
    BY <2>1 DEF JailInv, Finalizer, Alive
  <2> QED
    BY <1>2, <2>2, <2>3, <2>4 DEF Finalizer, Ensuring, Rooted, Configured, Deleting, DeleteSteps
<1> QED
  BY <1>4, <1>5, <1>6, <1>7, <1>8 DEF JailInv

(* A reconcile that goes on to make the jail, or ends, does not tear it down, *)
(* and the object keeps its finalizer.                                      *)
LEMMA EnsuringStep ==
  ASSUME JailInv, StatusOnly, UNCHANGED <<plan, jcache>>, r.at \in Ensuring, r'.at \in Ensuring \cup {"idle"}
  PROVE  Finalizer' /\ TearDown'
<1>1. HasFin(jobj') = HasFin(jobj) /\ Alive(jobj') = Alive(jobj)
  BY JailAssumption DEF JailInv, JailShape, StatusOnly, HasFin, Alive
<1>2. ~(r'.at \in Deleting) /\ r'.at # "finalizer"
  BY DEF Ensuring, Rooted, Configured, Deleting, DeleteSteps
<1> QED
  BY <1>1, <1>2 DEF JailInv, Finalizer, TearDown, Deleting, DeleteSteps

(* One that goes on to tear it down makes nothing.                          *)
LEMMA DeletingStep ==
  ASSUME JailInv, UNCHANGED <<jobj, jcache>>, r.at \in Deleting, r'.at \in Deleting,
         TornDown => TornDown'
  PROVE  Finalizer' /\ Progress'
<1>1. ~(r'.at \in Ensuring) /\ r'.at # "finalizer"
  BY DEF Ensuring, Rooted, Configured, Deleting, DeleteSteps
<1> QED
  BY <1>1 DEF JailInv, Finalizer, Progress, Ensuring, Rooted, Configured

(* Going on to the next step changes nothing else of the reconcile.         *)
LEMMA GotoStep ==
  ASSUME JailInv, plan' = plan, NEW x \in Steps \ {"idle"}, Goto(x)
  PROVE  /\ r' \in JailRun(plan') /\ r'.at = x /\ r' # Idle
         /\ r'.job = r.job /\ r'.spec = r.spec /\ r'.changed = r.changed /\ r'.up = r.up
BY DEF Goto, JailInv, JailShape, JailRun, Idle

(* After StopJail no jail runs, or its failure is recorded as a lost stop.   *)
LEMMA StopStep ==
  ASSUME JailInv, plan' = plan, NEW inets, StopJail(inets)
  PROVE  /\ kernel' = [jail |-> kernel'.jail, aliases |-> kernel'.aliases]
         /\ kernel'.jail = Unset \/ (kernel'.jail = kernel.jail /\ cut')
         /\ cut => cut'
         /\ jfaults' \in 0..plan'.faults
<1>0. kernel = [jail |-> kernel.jail, aliases |-> kernel.aliases] /\ jfaults \in 0..plan.faults
      /\ plan.faults \in Nat
  BY JailAssumption DEF JailInv, JailShape, JailTypeOK
<1>1. CASE kernel' = [Stopped EXCEPT !.aliases = @ \ inets] /\ UNCHANGED <<cut, jfaults>>
  <2>1. Stopped = [jail |-> Unset, aliases |-> Stopped.aliases]
    BY <1>0 DEF Stopped
  <2>2. kernel' = [jail |-> Unset, aliases |-> Stopped.aliases \ inets]
    BY <1>1, <2>1
  <2>3. kernel'.jail = Unset /\ kernel'.aliases = Stopped.aliases \ inets
    BY <2>2
  <2> QED
    BY <1>0, <1>1, <2>2, <2>3, Zenon
<1>2. CASE /\ jfaults < plan.faults /\ jfaults' = jfaults + 1
           /\ kernel' = [kernel EXCEPT !.aliases = @ \ inets] /\ cut'
  <2>1. kernel' = [jail |-> kernel.jail, aliases |-> kernel.aliases \ inets]
    BY <1>0, <1>2, Zenon
  <2>2. kernel'.jail = kernel.jail /\ kernel'.aliases = kernel.aliases \ inets
    BY <2>1
  <2>3. jfaults' \in 0..plan.faults
    BY <1>0, <1>2
  <2> QED
    BY <1>2, <2>1, <2>2, <2>3, Zenon
<1> QED
  BY <1>1, <1>2 DEF StopJail

-----------------------------------------------------------------------------
(* The steps of EnsureJail that make release, datasets and root.            *)
LEMMA RootStep ==
  ASSUME JailInv, EnsureRelease \/ CheckRoot \/ Snapshot \/ Clone
  PROVE  JailInv'
<1>0. /\ r.at \in {"release", "root", "snapshot", "clone"} /\ ~r.changed
      /\ r.spec \in Merged(plan) /\ r.spec.release \in Release /\ r.job \in Job(plan)
  BY JailAssumption DEF EnsureRelease, CheckRoot, Snapshot, Clone, At, JailInv, JailTypeOK, JailShape,
       Ensuring, BeforeStop
<1>1. UNCHANGED <<jobj, jcache, files, plan, tmpl, lock, jedits>>
  BY DEF EnsureRelease, CheckRoot, Snapshot, Clone, outside, others
<1>2. PICK x \in {"root", "snapshot", "clone", "fstab"} : Goto(x)
  BY DEF EnsureRelease, CheckRoot, Snapshot, Clone
<1>3. /\ r' \in JailRun(plan') /\ r'.at = x /\ r' # Idle
      /\ r'.job = r.job /\ r'.spec = r.spec /\ r'.changed = r.changed
  BY <1>1, <1>2, GotoStep DEF Steps, Ensuring, Rooted
<1>4. Finalizer' /\ TearDown'
  BY <1>0, <1>1, <1>3, EnsuringStep DEF StatusOnly, Ensuring, Rooted
<1>5. /\ kernel' = [jail |-> kernel'.jail, aliases |-> kernel'.aliases]
      /\ kernel'.jail = Unset \/ kernel'.jail = kernel.jail
      /\ cut => cut'
      /\ jfaults' \in 0..plan'.faults
  BY <1>1, StopStep DEF EnsureRelease, CheckRoot, Snapshot, Clone, outside, JailInv, JailShape, JailTypeOK
<1>6. ASSUME /\ zfs' \in Datasets
             /\ zfs'.snaps \subseteq {v \in Release : isExtracted(v)'}
             /\ zfs'.root # Unset => zfs'.dataset /\ zfs'.root.release \in zfs'.snaps
             /\ kernel'.jail # Unset => zfs'.root # Unset \/ cut'
             /\ Progress'
      PROVE JailInv'
  <2>1. JailShape'
    BY <1>0, <1>1, <1>3, <1>5, <1>6 DEF JailInv, JailShape
  <2>2. JailTypeOK'
    BY <1>0, <1>1, <1>3, <1>5, <1>6 DEF JailInv, JailTypeOK, EnsureSteps, Datasets
  <2>3. NeverRootless' /\ Running'
    BY <1>0, <1>1, <1>3, <1>5, <1>6 DEF JailInv, NeverRootless, Running, FromFiles
  <2> QED
    BY <1>4, <1>6, <2>1, <2>2, <2>3 DEF JailInv
<1>z. /\ zfs \in Datasets
      /\ zfs.snaps \subseteq {v \in Release : isExtracted(v)}
      /\ zfs.root # Unset => zfs.dataset /\ zfs.root.release \in zfs.snaps
      /\ kernel.jail # Unset => zfs.root # Unset \/ cut
  BY DEF JailInv, JailShape, JailTypeOK, NeverRootless
<1>7. CASE EnsureRelease
  <2>1. /\ zfs' \in Datasets
        /\ zfs'.root = zfs.root /\ zfs'.snaps = zfs.snaps /\ zfs'.dataset
        /\ zfs'.releases[r.spec.release] \in {"partial", "full"}
        /\ \A v \in Release : zfs.releases[v] \in {"partial", "full"} => zfs'.releases[v] \in {"partial", "full"}
    BY <1>0, <1>7, <1>z, Zenon DEF EnsureRelease, isExtracted, Datasets
  <2>2. x = "root" /\ UNCHANGED <<kernel, cut>>
    BY <1>3, <1>7 DEF EnsureRelease, Goto, JailInv, JailShape, JailRun, outside
  <2>3. Progress'
    BY <1>3, <2>1, <2>2 DEF Progress, isExtracted, Rooted, Configured
  <2> QED
    BY <1>6, <1>z, <2>1, <2>2, <2>3, SMTT(60), ZenonT(60) DEF isExtracted
<1>8. CASE CheckRoot
  <2>1. CASE zfs.root # Unset /\ zfs.root.release # r.spec.release
    <3>1. PICK snaps \in SUBSET zfs.snaps : zfs' = [zfs EXCEPT !.root = Unset, !.snaps = snaps]
      BY <1>8, <2>1, Zenon DEF CheckRoot
    <3>2. /\ zfs' \in Datasets
          /\ zfs'.root = Unset /\ zfs'.snaps \subseteq zfs.snaps
          /\ zfs'.dataset = zfs.dataset /\ zfs'.releases = zfs.releases
      BY <1>z, <3>1, Zenon DEF Datasets
    <3>3. x = "snapshot" /\ (kernel'.jail = Unset \/ cut')
      BY <1>1, <1>3, <1>8, <2>1, StopStep DEF CheckRoot, Goto, JailInv, JailShape, JailRun
    <3>4. Progress'
      BY <1>3, <1>8, <3>2, <3>3 DEF CheckRoot, At, JailInv, Progress, isExtracted, Rooted, Configured
    <3> QED
      BY <1>6, <1>z, <3>2, <3>3, <3>4 DEF isExtracted
  <2>2. CASE ~(zfs.root # Unset /\ zfs.root.release # r.spec.release)
    <3>1. UNCHANGED <<zfs, kernel, cut>> /\ x = (IF zfs.root = Unset THEN "snapshot" ELSE "fstab")
      BY <1>3, <1>8, <2>2 DEF CheckRoot, Goto, JailInv, JailShape, JailRun
    <3>2. Progress'
      BY <1>3, <1>8, <1>z, <2>2, <3>1 DEF CheckRoot, At, JailInv, Progress, isExtracted, Rooted, Configured
    <3> QED
      BY <1>6, <1>z, <3>1, <3>2 DEF isExtracted
  <2> QED
    BY <2>1, <2>2
<1>9. CASE Snapshot
  <2>1. /\ zfs' \in Datasets
        /\ zfs'.root = zfs.root /\ zfs'.snaps = zfs.snaps \cup {r.spec.release}
        /\ zfs'.dataset = zfs.dataset /\ zfs'.releases = zfs.releases
    BY <1>0, <1>9, <1>z DEF Snapshot, Datasets
  <2>2. x = "clone" /\ UNCHANGED <<kernel, cut>>
    BY <1>3, <1>9 DEF Snapshot, Goto, JailInv, JailShape, JailRun, outside
  <2>3. zfs.dataset /\ isExtracted(r.spec.release) /\ (kernel.jail = Unset \/ cut)
    BY <1>9 DEF Snapshot, At, JailInv, Progress
  <2>4. Progress'
    BY <1>3, <2>1, <2>2, <2>3 DEF Progress, isExtracted, Rooted, Configured
  <2> QED
    BY <1>0, <1>6, <1>z, <2>1, <2>2, <2>3, <2>4 DEF isExtracted
<1>10. CASE Clone
  <2> DEFINE new == [release |-> r.spec.release, pkg |-> FALSE, patched |-> FALSE]
  <2>0. Unset \notin Root
    BY JailAssumption
  <2>1. new \in Root /\ new.release = r.spec.release /\ new # Unset
    <3>1. new \in Root /\ new.release = r.spec.release
      BY <1>0 DEF Root
    <3> QED
      BY <2>0, <3>1, Zenon
  <2> HIDE DEF new
  <2>2. /\ zfs' \in Datasets
        /\ zfs'.root = new /\ zfs'.snaps = zfs.snaps
        /\ zfs'.dataset = zfs.dataset /\ zfs'.releases = zfs.releases
    BY <1>10, <1>z, <2>1, Zenon DEF Clone, new, Datasets
  <2>3. x = "fstab" /\ UNCHANGED <<kernel, cut>>
    BY <1>3, <1>10 DEF Clone, Goto, JailInv, JailShape, JailRun, outside
  <2>4. zfs.dataset /\ r.spec.release \in zfs.snaps
    BY <1>10 DEF Clone, At, JailInv, Progress
  <2>5. Progress'
    BY <1>3, <2>1, <2>2, <2>3 DEF Progress, Rooted, Configured
  <2> QED
    BY <1>6, <1>z, <2>1, <2>2, <2>3, <2>4, <2>5 DEF isExtracted
<1> QED
  BY <1>7, <1>8, <1>9, <1>10

(* The steps of EnsureJail that write the configuration and stop the jail for *)
(* it.  The stop is owed from the first change of a file on that the running  *)
(* jail was started from.                                                  *)
LEMMA ConfigStep ==
  ASSUME JailInv,
         \/ writeFstab \/ writeJailConf \/ EnsureAnchor \/ ensureJailRCService
         \/ StopForChange \/ cycleJailIfNetworkChanged
  PROVE  JailInv'
<1>0. /\ r.at \in {"fstab", "conf", "pf", "rc", "stop", "cycle"}
      /\ r.spec \in Merged(plan) /\ r.job \in Job(plan)
      /\ r \in JailRun(plan) /\ r.spec.mounts # Unset /\ JailConf(r.spec) # Unset
      /\ zfs.root # Unset /\ zfs.root.release = r.spec.release
      /\ r.changed => r.at \in BeforeStop
  <2>1. r.at \in {"fstab", "conf", "pf", "rc", "stop", "cycle"}
    BY DEF writeFstab, writeJailConf, EnsureAnchor, ensureJailRCService, StopForChange,
         cycleJailIfNetworkChanged, At
  <2>2. plan \in Scenario /\ r.spec \in Merged(plan) /\ r.job \in Job(plan) /\ r \in JailRun(plan)
    BY <2>1 DEF JailInv, JailShape, Ensuring, Rooted, Configured
  <2>3. r.spec.mounts # Unset /\ JailConf(r.spec) # Unset
    BY <2>2, JailAssumption
  <2> QED
    BY <2>1, <2>2, <2>3 DEF JailInv, JailTypeOK, Progress, Rooted, Configured
<1>1. UNCHANGED <<jobj, jcache, zfs, plan, tmpl, lock, jedits>>
  BY DEF writeFstab, writeJailConf, EnsureAnchor, ensureJailRCService, StopForChange,
       cycleJailIfNetworkChanged, outside, others
<1>2. ASSUME NEW x \in {"conf", "pf", "rc", "stop", "cycle", "start"}, NEW b \in BOOLEAN,
             r' = [r EXCEPT !.at = x, !.changed = b],
             files' = [conf |-> files'.conf, fstab |-> files'.fstab, rc |-> files'.rc,
                       enabled |-> files'.enabled, anchor |-> files'.anchor],
             files'.rc \in BOOLEAN, files'.enabled \in BOOLEAN,
             kernel' = [jail |-> kernel'.jail, aliases |-> kernel'.aliases],
             kernel'.jail = Unset \/ kernel'.jail = kernel.jail, cut => cut',
             jfaults' \in 0..plan'.faults,
             b => x \in BeforeStop,
             r.spec.mounts # {} => files'.fstab = r.spec.mounts,
             x # "conf" => files'.conf = JailConf(r.spec),
             files'.conf # Unset /\ files'.conf.fstab => files'.fstab # Unset,
             kernel'.jail # Unset => cut' \/ b \/ FromFiles'
      PROVE  JailInv'
  <2>1. /\ r' \in JailRun(plan') /\ r'.at = x /\ r' # Idle /\ r'.changed = b
        /\ r'.job = r.job /\ r'.spec = r.spec
    BY <1>0, <1>1, <1>2, ZenonT(60) DEF JailRun, Steps, Ensuring, Rooted, Configured, Idle
  <2>2. Finalizer' /\ TearDown'
    BY <1>0, <1>1, <2>1, EnsuringStep DEF StatusOnly, Ensuring, Rooted, Configured
  <2>3. JailShape'
    BY <1>0, <1>1, <1>2, <2>1 DEF JailInv, JailShape
  <2>4. JailTypeOK'
    BY <1>1, <1>2, <2>1, ZenonT(60) DEF JailInv, JailTypeOK, EnsureSteps, OtherSteps, isExtracted
  <2>5. Progress'
    BY <1>0, <1>1, <1>2, <2>1 DEF Progress, Rooted, Configured
  <2>6. NeverRootless' /\ Running'
    BY <1>0, <1>1, <1>2, <2>1 DEF NeverRootless, Running
  <2> QED
    BY <2>2, <2>3, <2>4, <2>5, <2>6 DEF JailInv
<1>3. /\ files = [conf |-> files.conf, fstab |-> files.fstab, rc |-> files.rc,
                  enabled |-> files.enabled, anchor |-> files.anchor]
      /\ kernel = [jail |-> kernel.jail, aliases |-> kernel.aliases]
      /\ files.rc \in BOOLEAN /\ files.enabled \in BOOLEAN /\ jfaults \in 0..plan.faults
  BY DEF JailInv, JailShape, JailTypeOK
<1>4. /\ kernel.jail # Unset => cut \/ r.changed \/ FromFiles
      /\ files.conf # Unset /\ files.conf.fstab => files.fstab # Unset
  BY DEF JailInv, Running
<1>g. ASSUME NEW x, Goto(x) PROVE r' = [r EXCEPT !.at = x, !.changed = r.changed]
  BY <1>0, <1>g, Zenon DEF Goto, JailRun
<1>5. CASE writeFstab
  <2>0. ~r.changed /\ r.at = "fstab" /\ UNCHANGED <<kernel, cut, jfaults>>
    BY <1>0, <1>5 DEF writeFstab, At, BeforeStop, outside
  <2>1. CASE r.spec.mounts = {}
    <3>1. files' = files /\ Goto("conf")
      BY <1>5, <2>1 DEF writeFstab
    <3>2. kernel'.jail # Unset => cut' \/ r.changed \/ FromFiles'
      BY <1>4, <2>0, <3>1 DEF FromFiles
    <3>3. r.changed \in BOOLEAN
      BY <1>0, SMTT(60), ZenonT(60) DEF JailRun
    <3> QED
      BY <1>1, <1>2, <1>3, <1>4, <1>g, <2>0, <2>1, <3>1, <3>2, <3>3, Zenon DEF BeforeStop
  <2>2. CASE r.spec.mounts # {}
    <3>1. files' = [files EXCEPT !.fstab = r.spec.mounts]
      BY <1>5, <2>2 DEF writeFstab
    <3>2. /\ files' = [conf |-> files.conf, fstab |-> r.spec.mounts, rc |-> files.rc,
                       enabled |-> files.enabled, anchor |-> files.anchor]
          /\ files'.conf = files.conf /\ files'.fstab = r.spec.mounts
          /\ files'.rc = files.rc /\ files'.enabled = files.enabled /\ files'.anchor = files.anchor
      BY <1>3, <3>1
    <3>3. r' = [r EXCEPT !.at = "conf", !.changed = Changed(files.fstab, r.spec.mounts)]
      BY <1>5, <2>2 DEF writeFstab
    <3>4. kernel'.jail # Unset => cut' \/ Changed(files.fstab, r.spec.mounts) \/ FromFiles'
      BY <1>4, <2>0, <3>2 DEF FromFiles, Changed
    <3>5. Changed(files.fstab, r.spec.mounts) \in BOOLEAN
      BY SMTT(60), ZenonT(60) DEF Changed
    <3> QED
      BY <1>0, <1>1, <1>2, <1>3, <2>0, <3>2, <3>3, <3>4, <3>5, Zenon DEF BeforeStop
  <2> QED
    BY <2>1, <2>2
<1>6. CASE writeJailConf
  <2> DEFINE b == r.changed \/ Changed(files.conf, JailConf(r.spec))
  <2>0. r.at = "conf" /\ UNCHANGED <<kernel, cut, jfaults>>
    BY <1>6 DEF writeJailConf, At, outside
  <2>1. files' = [files EXCEPT !.conf = JailConf(r.spec)] /\ r' = [r EXCEPT !.at = "pf", !.changed = b]
    BY <1>6 DEF writeJailConf
  <2>2. /\ files' = [conf |-> JailConf(r.spec), fstab |-> files.fstab, rc |-> files.rc,
                     enabled |-> files.enabled, anchor |-> files.anchor]
        /\ files'.conf = JailConf(r.spec) /\ files'.fstab = files.fstab
        /\ files'.rc = files.rc /\ files'.enabled = files.enabled /\ files'.anchor = files.anchor
    BY <1>3, <2>1
  <2>3. r.spec.mounts # {} => files.fstab = r.spec.mounts
    BY <2>0 DEF JailInv, Progress, Rooted, Configured
  <2>4. kernel'.jail # Unset => cut' \/ b \/ FromFiles'
    BY <1>4, <2>0, <2>2 DEF FromFiles, Changed
  <2>5. files'.conf.fstab => files'.fstab # Unset
    BY <1>0, <2>2, <2>3, Zenon DEF JailConf
  <2>6. b \in BOOLEAN
    BY DEF Changed
  <2> HIDE DEF b
  <2> QED
    BY <1>0, <1>1, <1>2, <1>3, <2>0, <2>1, <2>2, <2>3, <2>4, <2>5, <2>6, Zenon DEF BeforeStop
<1>c. ASSUME r.at \in {"pf", "rc", "stop", "cycle"}
      PROVE files.conf = JailConf(r.spec) /\ (r.spec.mounts # {} => files.fstab = r.spec.mounts)
  BY <1>c DEF JailInv, Progress, Rooted, Configured
<1>7. CASE EnsureAnchor \/ ensureJailRCService
  <2>0. PICK x \in {"rc", "stop"} : Goto(x) /\ r.at \in {"pf", "rc"} /\ UNCHANGED <<kernel, cut, jfaults>>
    BY <1>7 DEF EnsureAnchor, ensureJailRCService, At, outside
  <2>1. \E a : \/ files' = files
              \/ files' = [files EXCEPT !.anchor = a]
              \/ files' = [files EXCEPT !.rc = TRUE, !.enabled = TRUE]
    BY <1>7 DEF EnsureAnchor, ensureJailRCService
  <2>2. /\ files' = [conf |-> files.conf, fstab |-> files.fstab, rc |-> files'.rc,
                     enabled |-> files'.enabled, anchor |-> files'.anchor]
        /\ files'.conf = files.conf /\ files'.fstab = files.fstab
        /\ files'.rc \in BOOLEAN /\ files'.enabled \in BOOLEAN
    BY <1>3, <2>1, Zenon
  <2>3. r.changed \in BOOLEAN
    BY <1>0 DEF JailRun
  <2>4. kernel'.jail # Unset => cut' \/ r.changed \/ FromFiles'
    BY <1>4, <2>0, <2>2 DEF FromFiles
  <2>5. r' = [r EXCEPT !.at = x, !.changed = r.changed]
    BY <1>g, <2>0, Zenon
  <2>6. files'.conf = JailConf(r.spec) /\ (r.spec.mounts # {} => files'.fstab = r.spec.mounts)
    BY <1>c, <2>0, <2>2
  <2>7. files'.conf # Unset /\ files'.conf.fstab => files'.fstab # Unset
    BY <1>4, <2>2
  <2>8. /\ kernel' = [jail |-> kernel'.jail, aliases |-> kernel'.aliases]
        /\ kernel'.jail = kernel.jail /\ (cut => cut') /\ jfaults' \in 0..plan'.faults
    BY <1>1, <1>3, <2>0
  <2>9. x \in {"conf", "pf", "rc", "stop", "cycle", "start"} /\ x \in BeforeStop /\ x # "conf"
    BY SMTT(60), ZenonT(60) DEF BeforeStop
  <2> QED
    BY <1>2, <2>2, <2>3, <2>4, <2>5, <2>6, <2>7, <2>8, <2>9, Zenon
<1>8. CASE StopForChange
  <2>0. r.at = "stop" /\ files' = files /\ r' = [r EXCEPT !.at = "cycle", !.changed = FALSE]
    BY <1>8 DEF StopForChange, At
  <2>1. /\ kernel' = [jail |-> kernel'.jail, aliases |-> kernel'.aliases]
        /\ kernel'.jail = Unset \/ (kernel'.jail = kernel.jail /\ (cut' \/ ~r.changed))
        /\ cut => cut'
        /\ jfaults' \in 0..plan'.faults
    BY <1>1, <1>3, <1>8, StopStep DEF StopForChange
  <2>2. kernel'.jail # Unset => cut' \/ FromFiles'
    BY <1>4, <2>0, <2>1, SMTT(60), ZenonT(60) DEF FromFiles
  <2> QED
    BY <1>2, <1>3, <1>4, <1>c, <2>0, <2>1, <2>2, Zenon
<1>9. CASE cycleJailIfNetworkChanged
  <2>0. r.at = "cycle" /\ files' = files /\ ~r.changed /\ Goto("start")
    BY <1>0, <1>9 DEF cycleJailIfNetworkChanged, At, BeforeStop
  <2>1. /\ kernel' = [jail |-> kernel'.jail, aliases |-> kernel'.aliases]
        /\ kernel'.jail = Unset \/ kernel'.jail = kernel.jail
        /\ cut => cut'
        /\ jfaults' \in 0..plan'.faults
    BY <1>1, <1>3, <1>9, StopStep DEF cycleJailIfNetworkChanged
  <2>2. kernel'.jail # Unset => cut' \/ FromFiles'
    BY <1>4, <2>0, <2>1 DEF FromFiles
  <2>3. r.changed \in BOOLEAN
    BY <1>0 DEF JailRun
  <2> QED
    BY <1>2, <1>3, <1>4, <1>c, <1>g, <2>0, <2>1, <2>2, <2>3, ZenonT(60)
<1> QED
  BY <1>5, <1>6, <1>7, <1>8, <1>9

(* The steps of a reconcile from the start of the jail on, with the update.   *)
(* They leave the files alone, and a jail that starts is started from them.   *)
LEMMA RunStep ==
  ASSUME JailInv,
         \/ StartJail \/ BootstrapPkg \/ PostCreate \/ SetStatus \/ LockUpdate
         \/ (StopForUpdate /\ kernel.jail # Unset)
         \/ UpdateJail \/ StartAfterUpdate \/ (UpdateFails /\ At("freebsd-update"))
  PROVE  JailInv'
<1>d. DEFINE Late == {"start", "bootstrap", "hooks", "status", "update", "update stop",
                      "freebsd-update", "update start"}
<1>0. /\ r.at \in Late /\ ~r.changed /\ r \in JailRun(plan) /\ r.job \in Job(plan)
      /\ r.spec \in Merged(plan) /\ zfs \in Datasets
      /\ zfs.root \in Root /\ zfs.root # Unset /\ zfs.root.release = r.spec.release
      /\ files.conf = JailConf(r.spec) /\ (r.spec.mounts # {} => files.fstab = r.spec.mounts)
      /\ kernel = [jail |-> kernel.jail, aliases |-> kernel.aliases]
      /\ kernel.jail # Unset => cut \/ FromFiles
      /\ files.conf # Unset /\ files.conf.fstab => files.fstab # Unset
      /\ jfaults \in 0..plan.faults /\ plan.faults \in Nat
  <2>1. r.at \in Late
    BY DEF StartJail, BootstrapPkg, PostCreate, SetStatus, LockUpdate, StopForUpdate, UpdateJail,
         StartAfterUpdate, At
  <2>2. ~r.changed
    BY <2>1 DEF JailInv, JailTypeOK, BeforeStop
  <2>3. /\ plan \in Scenario /\ r.spec \in Merged(plan) /\ r.job \in Job(plan)
        /\ r \in JailRun(plan) /\ zfs \in Datasets
        /\ kernel = [jail |-> kernel.jail, aliases |-> kernel.aliases]
    BY <2>1, ZenonT(60) DEF JailInv, JailShape, Ensuring, Rooted, Configured
  <2>4. /\ zfs.root # Unset /\ zfs.root.release = r.spec.release
        /\ files.conf = JailConf(r.spec) /\ (r.spec.mounts # {} => files.fstab = r.spec.mounts)
    BY <2>1 DEF JailInv, Progress, Rooted, Configured
  <2>5. zfs.root \in Root
    BY <2>3, <2>4 DEF Datasets
  <2>6. plan.faults \in Nat
    BY <2>3, JailAssumption
  <2> QED
    BY <2>1, <2>2, <2>3, <2>4, <2>5, <2>6 DEF JailInv, JailTypeOK, Running
<1>1. UNCHANGED <<jcache, files, plan, tmpl, jedits>> /\ lock' \in {"free", "mine", "other"}
  BY DEF StartJail, BootstrapPkg, PostCreate, SetStatus, LockUpdate, StopForUpdate, UpdateJail,
       StartAfterUpdate, UpdateFails, Fault, host, outside, others, JailInv, JailTypeOK
<1>2. ASSUME \/ r' = Idle
             \/ /\ r' \in JailRun(plan') /\ r'.at \in Late \cup {"updated"} /\ ~r'.changed
                /\ r'.job = r.job /\ r'.spec = r.spec,
             StatusOnly, jfaults' \in 0..plan'.faults,
             zfs' \in Datasets, zfs'.root \in Root, zfs'.root.release = zfs.root.release,
             zfs'.releases = zfs.releases, zfs'.snaps = zfs.snaps, zfs'.dataset = zfs.dataset,
             kernel' = [jail |-> kernel'.jail, aliases |-> kernel'.aliases],
             kernel'.jail # Unset => cut' \/ FromFiles'
      PROVE  JailInv'
  <2>1. Idle \in JailRun(plan') /\ Idle.at = "idle" /\ ~Idle.changed
    BY DEF Idle, JailRun, Steps
  <2>2. zfs'.root # Unset
    BY <1>2, JailAssumption
  <2>3. r'.at \in Late \cup {"updated", "idle"} /\ ~r'.changed /\ (r' = Idle <=> r'.at = "idle")
    BY <1>2, <2>1
  <2>4. Finalizer' /\ TearDown'
    BY <1>0, <1>1, <1>2, <2>3, EnsuringStep, ZenonT(60) DEF Ensuring, Rooted, Configured
  <2>5. JailShape'
    <3>1. jobj' \in Job(plan') \cup {NoJail}
      BY <1>1, <1>2 DEF StatusOnly, JailInv, JailShape
    <3>2. r' \in JailRun(plan') /\ (r'.at # "idle" => r'.job \in Job(plan') /\ r'.spec \in Merged(plan'))
      BY <1>0, <1>1, <1>2, <2>1
    <3> QED
      BY <1>1, <1>2, <2>3, <3>1, <3>2, ZenonT(60) DEF JailInv, JailShape, Ensuring, Rooted, Configured
  <2>6. JailTypeOK'
    BY <1>0, <1>1, <1>2, <2>2, <2>3, ZenonT(60) DEF JailInv, JailTypeOK, OtherSteps, StatusWrites, isExtracted, StatusOnly
  <2>7. Progress'
    BY <1>0, <1>1, <1>2, <2>2, <2>3 DEF Progress, Rooted, Configured
  <2>8. NeverRootless' /\ Running'
    BY <1>0, <1>1, <1>2, <2>2 DEF NeverRootless, Running
  <2> QED
    BY <2>4, <2>5, <2>6, <2>7, <2>8 DEF JailInv
<1>3. ASSUME NEW x \in Late \cup {"updated"}, NEW u \in BOOLEAN,
             r' = [r EXCEPT !.at = x] \/ r' = [r EXCEPT !.at = x, !.up = u]
      PROVE  /\ r' \in JailRun(plan') /\ r'.at \in Late \cup {"updated"} /\ ~r'.changed
             /\ r'.job = r.job /\ r'.spec = r.spec
  BY <1>0, <1>1, <1>3, ZenonT(60) DEF JailRun, Steps, Ensuring, Rooted, Configured
<1>4. ASSUME CanStart, kernel' = Started
      PROVE  kernel' = [jail |-> kernel'.jail, aliases |-> kernel'.aliases] /\ FromFiles'
  <2>1. /\ kernel'.jail.conf = files.conf /\ (files.conf.fstab => kernel'.jail.fstab = files.fstab)
        /\ kernel' = [jail |-> kernel'.jail, aliases |-> kernel'.aliases]
    BY <1>4 DEF Started
  <2> QED
    BY <1>1, <1>4, <2>1 DEF CanStart, FromFiles
<1>5. ASSUME UNCHANGED <<kernel, cut>> PROVE kernel'.jail # Unset => cut' \/ FromFiles'
  BY <1>0, <1>1, <1>5 DEF FromFiles
<1>6. ASSUME NEW b \in BOOLEAN, \/ zfs' = [zfs EXCEPT !.root.pkg = @ \/ b]
                               \/ zfs' = [zfs EXCEPT !.root.patched = TRUE]
      PROVE  /\ zfs' \in Datasets /\ zfs'.root \in Root /\ zfs'.root.release = zfs.root.release
             /\ zfs'.releases = zfs.releases /\ zfs'.snaps = zfs.snaps /\ zfs'.dataset = zfs.dataset
  <2>1. \E q \in BOOLEAN : \/ zfs' = [zfs EXCEPT !.root = [zfs.root EXCEPT !.pkg = q]]
                          \/ zfs' = [zfs EXCEPT !.root = [zfs.root EXCEPT !.patched = q]]
    BY <1>6, Zenon
  <2>2. ASSUME NEW q \in BOOLEAN
        PROVE  /\ [zfs.root EXCEPT !.pkg = q] \in Root
               /\ [zfs.root EXCEPT !.pkg = q].release = zfs.root.release
               /\ [zfs.root EXCEPT !.patched = q] \in Root
               /\ [zfs.root EXCEPT !.patched = q].release = zfs.root.release
    BY <1>0 DEF Root
  <2>3. \E new \in Root : zfs' = [zfs EXCEPT !.root = new] /\ new.release = zfs.root.release
    BY <2>1, <2>2, Zenon
  <2> QED
    BY <1>0, <2>3 DEF Datasets
<1>7. CASE StartJail
  <2>1. Goto("bootstrap") /\ UNCHANGED <<jobj, zfs, jfaults>>
    BY <1>7 DEF StartJail, outside
  <2>2. (kernel' = kernel /\ cut' = cut) \/ (CanStart /\ kernel' = Started)
    BY <1>7, SMTT(60), ZenonT(60) DEF StartJail
  <2> QED
    BY <1>0, <1>1, <1>2, <1>3, <1>4, <1>5, <2>1, <2>2, Zenon DEF Goto, StatusOnly
<1>8. CASE BootstrapPkg
  <2>1. UNCHANGED <<jobj, kernel, cut, jfaults>>
    BY <1>8 DEF BootstrapPkg, outside
  <2>2. \E x \in {"hooks", "status"}, u \in BOOLEAN : r' = [r EXCEPT !.at = x, !.up = u]
    BY <1>0, <1>8, Zenon DEF BootstrapPkg, JailRun
  <2>3. \E b \in BOOLEAN : zfs' = [zfs EXCEPT !.root.pkg = @ \/ b]
    BY <1>8, Zenon DEF BootstrapPkg
  <2> QED
    BY <1>0, <1>1, <1>2, <1>3, <1>5, <1>6, <2>1, <2>2, <2>3, ZenonT(60) DEF StatusOnly
<1>9. CASE PostCreate \/ SetStatus
  <2>1. (Goto("status") \/ Goto("update")) /\ UNCHANGED <<zfs, kernel, cut, jfaults>>
    BY <1>9, SMTT(60), ZenonT(60) DEF PostCreate, SetStatus, host, outside
  <2>2. StatusOnly
    <3>1. r.up \in BOOLEAN /\ zfs.root.release \in Release
      BY <1>0, ZenonT(60) DEF JailRun, Root
    <3> QED
      BY <1>9, <3>1, StatusWrite, Zenon DEF PostCreate, SetStatus
  <2> QED
    BY <1>0, <1>1, <1>2, <1>3, <1>5, <2>1, <2>2, Zenon DEF Goto
<1>10. CASE LockUpdate
  <2>1. Goto("update stop") /\ UNCHANGED <<jobj, zfs, kernel, cut, jfaults>>
    BY <1>10, ZenonT(60) DEF LockUpdate, host
  <2> QED
    BY <1>0, <1>1, <1>2, <1>3, <1>5, <2>1, Zenon DEF Goto, StatusOnly
<1>11. CASE StopForUpdate /\ kernel.jail # Unset
  <2>1. Goto("freebsd-update") /\ UNCHANGED <<jobj, zfs, jfaults>> /\ kernel' = Stopped
    BY <1>11 DEF StopForUpdate, outside
  <2>2. kernel' = [jail |-> kernel'.jail, aliases |-> kernel'.aliases] /\ kernel'.jail = Unset
    BY <1>11, <2>1, SMTT(60), ZenonT(60) DEF Stopped
  <2> QED
    BY <1>0, <1>1, <1>2, <1>3, <2>1, <2>2, Zenon DEF Goto, StatusOnly
<1>12. CASE UpdateJail
  <2>1. /\ r' = [r EXCEPT !.at = "update start", !.up = TRUE] /\ UNCHANGED <<jobj, kernel, cut, jfaults>>
        /\ zfs' = [zfs EXCEPT !.root.patched = TRUE]
    BY <1>12, SMTT(60), ZenonT(60) DEF UpdateJail, outside
  <2> QED
    BY <1>0, <1>1, <1>2, <1>3, <1>5, <1>6, <2>1, Zenon DEF StatusOnly
<1>13. CASE StartAfterUpdate
  <2>1. /\ r' = Idle \/ r' = [r EXCEPT !.at = "updated"]
        /\ UNCHANGED <<jobj, zfs, jfaults>>
    BY <1>13 DEF StartAfterUpdate, outside
  <2>2. (kernel' = kernel /\ cut' = cut) \/ (CanStart /\ kernel' = Started)
    BY <1>13, ZenonT(60) DEF StartAfterUpdate
  <2> QED
    BY <1>0, <1>1, <1>2, <1>3, <1>4, <1>5, <2>1, <2>2, Zenon DEF StatusOnly
<1>14. CASE UpdateFails /\ At("freebsd-update")
  <2>1. r' = [r EXCEPT !.at = "update start", !.up = FALSE] /\ UNCHANGED <<jobj, zfs, kernel, cut>>
    BY <1>14 DEF UpdateFails, At, host
  <2>2. jfaults' \in 0..plan'.faults
    <3>1. jfaults \in 0..plan.faults /\ plan.faults \in Nat /\ plan' = plan
      BY <1>0, <1>1
    <3>2. jfaults < plan.faults /\ jfaults' = jfaults + 1
      BY <1>14 DEF UpdateFails, Fault
    <3> QED
      BY <3>1, <3>2
  <2> QED
    BY <1>0, <1>1, <1>2, <1>3, <1>5, <2>1, <2>2, Zenon DEF StatusOnly
<1> QED
  BY <1>7, <1>8, <1>9, <1>10, <1>11, <1>12, <1>13, <1>14

(* The steps of DeleteJail.                                                *)
LEMMA TearDownStep ==
  ASSUME JailInv,
         \/ DeleteStop \/ removeJailRCService \/ removeJailConf \/ removeFstab
         \/ DestroyDatasets \/ DestroySnapshot
  PROVE  JailInv'
<1>0. /\ r.at \in {"protection", "remove rc", "remove conf", "remove fstab", "destroy", "destroy snapshot"}
      /\ ~r.changed /\ r.job \in Job(plan) /\ zfs \in Datasets
      /\ files = [conf |-> files.conf, fstab |-> files.fstab, rc |-> files.rc,
                  enabled |-> files.enabled, anchor |-> files.anchor]
      /\ kernel = [jail |-> kernel.jail, aliases |-> kernel.aliases]
      /\ files.rc \in BOOLEAN /\ files.enabled \in BOOLEAN
      /\ jfaults \in 0..plan.faults
  BY DEF DeleteStop, removeJailRCService, removeJailConf, removeFstab, DestroyDatasets, DestroySnapshot,
       At, JailInv, JailTypeOK, JailShape, BeforeStop
<1>1. UNCHANGED <<jobj, jcache, plan, tmpl, lock, jedits>>
  BY DEF DeleteStop, removeJailRCService, removeJailConf, removeFstab, DestroyDatasets, DestroySnapshot,
       outside, others
<1>2. PICK x \in Deleting \ {"protection"} : Goto(x)
  BY DEF DeleteStop, removeJailRCService, removeJailConf, removeFstab, DestroyDatasets, DestroySnapshot,
       Deleting, DeleteSteps
<1>3. /\ r' \in JailRun(plan') /\ r'.at = x /\ r' # Idle
      /\ r'.job = r.job /\ r'.changed = r.changed
  BY <1>1, <1>2, GotoStep DEF Steps, Deleting, DeleteSteps
<1>4. ASSUME zfs' \in Datasets, zfs'.releases = zfs.releases, zfs'.snaps \subseteq zfs.snaps,
             \/ zfs'.root = Unset
             \/ zfs'.root = zfs.root /\ zfs'.dataset = zfs.dataset /\ zfs'.snaps = zfs.snaps,
             files' = [conf |-> files'.conf, fstab |-> files'.fstab, rc |-> files'.rc,
                       enabled |-> files'.enabled, anchor |-> files'.anchor],
             files'.rc \in BOOLEAN, files'.enabled \in BOOLEAN,
             files'.conf # Unset /\ files'.conf.fstab => files'.fstab # Unset,
             kernel' = [jail |-> kernel'.jail, aliases |-> kernel'.aliases],
             kernel'.jail = Unset \/ cut',
             jfaults' \in 0..plan'.faults,
             TornDown => TornDown',
             TearDown'
      PROVE  JailInv'
  <2>1. Finalizer' /\ Progress'
    BY <1>0, <1>1, <1>2, <1>3, <1>4, DeletingStep, ZenonT(60) DEF Deleting, DeleteSteps
  <2>2. JailShape'
    BY <1>0, <1>1, <1>2, <1>3, <1>4 DEF JailInv, JailShape, Deleting, DeleteSteps, Ensuring, Rooted, Configured
  <2>3. JailTypeOK'
    BY <1>0, <1>1, <1>2, <1>3, <1>4, ZenonT(60) DEF JailInv, JailTypeOK, Deleting, DeleteSteps, ObjectWrites, isExtracted
  <2>4. NeverRootless' /\ Running'
    BY <1>4, SMTT(60), ZenonT(60) DEF NeverRootless, Running
  <2> QED
    BY <1>4, <2>1, <2>2, <2>3, <2>4 DEF JailInv
<1>5. /\ files.conf # Unset /\ files.conf.fstab => files.fstab # Unset
      /\ zfs.root # Unset => zfs.dataset /\ zfs.root.release \in zfs.snaps
      /\ TearDown
  BY DEF JailInv, Running, JailTypeOK
<1>6. CASE DeleteStop
  <2>1. /\ kernel' = [jail |-> kernel'.jail, aliases |-> kernel'.aliases]
        /\ kernel'.jail = Unset \/ (kernel'.jail = kernel.jail /\ cut')
        /\ cut => cut'
        /\ jfaults' \in 0..plan'.faults
    BY <1>1, <1>6, StopStep DEF DeleteStop
  <2>2. files' = files \/ files' = [files EXCEPT !.anchor = Unset]
    BY <1>6 DEF DeleteStop
  <2>3. /\ files' = [conf |-> files.conf, fstab |-> files.fstab, rc |-> files.rc,
                     enabled |-> files.enabled, anchor |-> files'.anchor]
        /\ files'.conf = files.conf /\ files'.fstab = files.fstab /\ files'.rc = files.rc
        /\ files'.enabled = files.enabled
    BY <1>0, <2>2
  <2>4. x = "remove rc" /\ zfs' = zfs
    BY <1>3, <1>6 DEF DeleteStop, Goto, JailInv, JailShape, JailRun
  <2>5. TearDown' /\ (TornDown => TornDown')
    BY <1>3, <2>1, <2>3, <2>4 DEF TearDown, TornDown, Deleting, DeleteSteps
  <2> QED
    BY <1>0, <1>4, <1>5, <2>1, <2>3, <2>4, <2>5
<1>7. CASE removeJailRCService \/ removeJailConf \/ removeFstab
  <2>1. UNCHANGED <<zfs, kernel, cut, jfaults>> /\ (kernel.jail = Unset \/ cut)
    BY <1>5, <1>7 DEF removeJailRCService, removeJailConf, removeFstab, outside, TearDown, At,
                      Deleting, DeleteSteps
  <2>2. \/ /\ r.at = "remove rc" /\ x = "remove conf"
           /\ files' = [files EXCEPT !.rc = FALSE, !.enabled = FALSE]
        \/ r.at = "remove conf" /\ x = "remove fstab" /\ files' = [files EXCEPT !.conf = Unset]
        \/ r.at = "remove fstab" /\ x = "destroy" /\ files' = [files EXCEPT !.fstab = Unset]
    BY <1>3, <1>7 DEF removeJailRCService, removeJailConf, removeFstab, At, Goto, JailInv, JailShape, JailRun
  <2>3. /\ files' = [conf |-> files'.conf, fstab |-> files'.fstab, rc |-> files'.rc,
                     enabled |-> files'.enabled, anchor |-> files'.anchor]
        /\ files'.conf = IF x = "remove fstab" THEN Unset ELSE files.conf
        /\ files'.fstab = IF x = "destroy" THEN Unset ELSE files.fstab
        /\ files'.rc = IF x = "remove conf" THEN FALSE ELSE files.rc
        /\ files'.enabled = IF x = "remove conf" THEN FALSE ELSE files.enabled
    BY <1>0, <2>2
  <2>4. TearDown'
    BY <1>3, <1>5, <2>1, <2>2, <2>3 DEF TearDown, Deleting, DeleteSteps
  <2>5. TornDown => TornDown'
    BY <2>1, <2>3 DEF TornDown
  <2>6. files'.conf # Unset /\ files'.conf.fstab => files'.fstab # Unset
    BY <1>5, <2>2, <2>3 DEF TearDown
  <2>7. files'.rc \in BOOLEAN /\ files'.enabled \in BOOLEAN
    BY <1>0, <2>3
  <2> QED
    BY <1>0, <1>1, <1>4, <2>1, <2>3, <2>4, <2>5, <2>6, <2>7
<1>8. CASE DestroyDatasets \/ DestroySnapshot
  <2>1. UNCHANGED <<files, kernel, cut, jfaults>> /\ (kernel.jail = Unset \/ cut)
    BY <1>5, <1>8 DEF DestroyDatasets, DestroySnapshot, outside, TearDown, At, Deleting, DeleteSteps
  <2>2. \/ /\ r.at = "destroy" /\ x = "destroy snapshot"
           /\ zfs' = [zfs EXCEPT !.dataset = FALSE, !.root = Unset]
        \/ /\ r.at = "destroy snapshot" /\ x = "unfinalize"
           /\ zfs' = [zfs EXCEPT !.snaps = @ \ {r.job.spec.release}]
    BY <1>3, <1>8 DEF DestroyDatasets, DestroySnapshot, At, Goto, JailInv, JailShape, JailRun
  <2>3. ~zfs'.dataset /\ zfs'.root = Unset /\ zfs'.snaps \subseteq zfs.snaps /\ zfs'.releases = zfs.releases
        /\ zfs' \in Datasets
    BY <1>0, <1>5, <2>2, ZenonT(60) DEF Datasets, TearDown
  <2>4. TearDown' /\ (TornDown => TornDown')
    BY <1>3, <1>5, <2>1, <2>2, <2>3 DEF TearDown, TornDown, Deleting, DeleteSteps
  <2> QED
    BY <1>0, <1>1, <1>4, <1>5, <2>1, <2>3, <2>4
<1> QED
  BY <1>6, <1>7, <1>8

(* The steps of a reconcile before EnsureJail.                              *)
LEMMA BeginStep ==
  ASSUME JailInv, Reconcile \/ AddFinalizer \/ ResolveTemplate \/ SetProgressing
  PROVE  JailInv'
<1>0. /\ r.at \in {"idle", "finalizer", "template", "progressing"} /\ ~r.changed /\ r \in JailRun(plan)
      /\ r.at # "idle" => r.job \in Job(plan)
      /\ plan \in Scenario /\ jobj \in Job(plan) \cup {NoJail} /\ jcache \in Job(plan) \cup {NoJail}
  BY DEF Reconcile, AddFinalizer, ResolveTemplate, SetProgressing, At, JailInv, JailTypeOK, JailShape, BeforeStop
<1>1. UNCHANGED <<jcache, zfs, files, kernel, cut, plan, tmpl, lock, jedits, jfaults>>
  BY DEF Reconcile, AddFinalizer, ResolveTemplate, SetProgressing, host, outside, others
<1>n. NoJail \notin Job(plan)
  BY <1>0, JailAssumption
<1>2. ASSUME r' \in JailRun(plan'), r'.at \in {"protection", "finalizer", "template", "progressing", "release"},
             r'.job \in Job(plan'), ~r'.changed,
             r'.at \in {"progressing", "release"} => r'.spec \in Merged(plan'),
             jobj' \in Job(plan') \cup {NoJail}, jobj' # NoJail => (jobj'.deleting => jobj'.fin),
             Finalizer'
      PROVE  JailInv'
  <2>1. r' # Idle
    BY <1>2 DEF Idle
  <2>2. JailShape'
    BY <1>1, <1>2 DEF JailInv, JailShape, Ensuring, Rooted, Configured
  <2>3. JailTypeOK'
    BY <1>1, <1>2, <2>1, ZenonT(60) DEF JailInv, JailTypeOK, OtherSteps, ObjectWrites, StatusWrites, EnsureSteps, isExtracted
  <2>4. Progress' /\ TearDown'
    BY <1>2, ZenonT(60) DEF Progress, TearDown, Rooted, Configured, Deleting, DeleteSteps
  <2>5. NeverRootless' /\ Running'
    BY <1>0, <1>1 DEF JailInv, NeverRootless, Running, FromFiles
  <2> QED
    BY <1>2, <2>2, <2>3, <2>4, <2>5 DEF JailInv
<1>3. CASE Reconcile
  <2>1. /\ jobj' = jobj /\ jcache \in Job(plan) /\ jcache # NoJail
        /\ \E x \in {"protection", "template", "finalizer"} : r' = [Idle EXCEPT !.job = jcache, !.at = x]
    BY <1>0, <1>3, Zenon DEF Reconcile
  <2>2. r' \in JailRun(plan') /\ r'.job = jcache /\ ~r'.changed
    BY <1>1, <2>1, ZenonT(60) DEF Idle, JailRun, Steps, Ensuring, Deleting
  <2>3. r'.at = IF jcache.deleting THEN "protection" ELSE IF jcache.fin THEN "template" ELSE "finalizer"
    BY <1>3 DEF Reconcile, Idle
  <2>4. Finalizer'
    <3>1. TornDown => TornDown'
      BY <1>1 DEF TornDown
    <3>2. CASE jcache.deleting
      BY <1>1, <2>1, <2>3, <3>1, <3>2 DEF JailInv, Finalizer, HasFin, Alive, Ensuring, Rooted, Configured
    <3>3. CASE ~jcache.deleting
      BY <1>1, <2>1, <2>2, <2>3, <3>1, <3>3 DEF JailInv, Finalizer, HasFin, Alive, Deleting, DeleteSteps,
           Ensuring, Rooted, Configured
    <3> QED
      BY <3>2, <3>3
  <2>5. jobj' # NoJail => (jobj'.deleting => jobj'.fin)
    BY <2>1 DEF JailInv, JailTypeOK
  <2> QED
    BY <1>0, <1>1, <1>2, <2>1, <2>2, <2>3, <2>4, <2>5
<1>4. CASE AddFinalizer
  <2>0. r.at = "finalizer" /\ r.job \in Job(plan) /\ ~r.job.fin /\ ~r.job.deleting
    BY <1>0, <1>4 DEF AddFinalizer, At, JailInv, Finalizer
  <2>1. jobj = r.job /\ jobj' = [r.job EXCEPT !.fin = TRUE]
    BY <1>4, <2>0 DEF AddFinalizer, WriteObject, Job
  <2>2. jobj' \in Job(plan') /\ jobj' # NoJail /\ jobj'.fin
    BY <1>1, <1>n, <2>0, <2>1, ZenonT(60) DEF Job
  <2>3. r' = [r EXCEPT !.at = "template", !.job = [r.job EXCEPT !.fin = TRUE]]
    BY <1>4 DEF AddFinalizer
  <2>4. r' \in JailRun(plan') /\ r'.at = "template" /\ r'.job \in Job(plan') /\ ~r'.changed
    BY <1>0, <1>1, <2>1, <2>2, <2>3, Zenon DEF JailRun, Steps, Ensuring
  <2>5. jcache # NoJail => ~jcache.deleting
    BY <2>0, <2>1 DEF JailInv, Finalizer
  <2>6. Finalizer'
    BY <1>1, <2>2, <2>4, <2>5 DEF Finalizer, HasFin, Alive, Ensuring, Deleting, DeleteSteps
  <2> QED
    BY <1>2, <2>2, <2>4, <2>6
<1>5. CASE ResolveTemplate
  <2>0. r.at = "template" /\ r.job \in Job(plan) /\ jobj' = jobj
    BY <1>0, <1>5, SMTT(60), ZenonT(60) DEF ResolveTemplate, At
  <2>1. PICK j, sp, h : /\ r' = [r EXCEPT !.at = "progressing", !.job = j, !.spec = sp, !.hooks = h]
                        /\ j = [NewJail(r.job.spec) EXCEPT !.post = r.job.post, !.updated = r.job.updated]
                        /\ sp = IF r.job.spec.templateRef THEN MergeTemplateDefaults(r.job.spec, tmpl)
                                ELSE r.job.spec
                        /\ h = (r.job.spec.templateRef /\ tmpl.postCreate)
    BY <1>5, Zenon DEF ResolveTemplate
  <2>2. j \in Job(plan)
    <3>1. NewJail(r.job.spec) \in Job(plan)
      BY <2>0 DEF NewJail, Job
    <3>2. r.job.post \in BOOLEAN /\ r.job.updated \in BOOLEAN
      BY <2>0 DEF Job
    <3> QED
      BY <2>1, <3>1, <3>2, ZenonT(60) DEF Job
  <2>3. sp \in Merged(plan)
    <3>1. r.job.spec \in Specs(plan)
      BY <2>0 DEF Job
    <3>2. r.job.spec.templateRef => tmpl \in JailTemplates(plan)
      BY <1>5 DEF ResolveTemplate, JailInv, JailShape
    <3> QED
      BY <2>1, <3>1, <3>2 DEF Merged
  <2>4. h \in BOOLEAN
    BY <2>1
  <2>5. r' \in JailRun(plan') /\ r'.at = "progressing" /\ r'.job = j /\ r'.spec = sp /\ ~r'.changed
    BY <1>0, <1>1, <2>1, <2>2, <2>3, <2>4, ZenonT(60) DEF JailRun, Steps, Ensuring
  <2>6. Finalizer'
    BY <1>1, <2>0, <2>5, EnsuringStep DEF StatusOnly, Ensuring
  <2>7. jobj' # NoJail => (jobj'.deleting => jobj'.fin)
    BY <2>0 DEF JailInv, JailTypeOK
  <2> QED
    BY <1>0, <1>1, <1>2, <2>0, <2>2, <2>3, <2>5, <2>6, <2>7
<1>6. CASE SetProgressing
  <2>0. r.at = "progressing" /\ r.spec \in Merged(plan) /\ r.job \in Job(plan)
    BY <1>0, <1>6 DEF SetProgressing, At, JailInv, JailShape, Ensuring
  <2>1. StatusOnly
    BY <1>6, StatusWrite DEF SetProgressing
  <2>2. r' \in JailRun(plan') /\ r'.at = "release" /\ r'.job = r.job /\ r'.spec = r.spec /\ ~r'.changed
    BY <1>0, <1>1, <1>6, GotoStep DEF SetProgressing, Steps, Ensuring
  <2>3. Finalizer'
    BY <1>1, <2>0, <2>1, <2>2, EnsuringStep DEF Ensuring
  <2>4. jobj' \in Job(plan') \cup {NoJail} /\ (jobj' # NoJail => (jobj'.deleting => jobj'.fin))
    BY <1>0, <1>1, <2>1 DEF StatusOnly, JailInv, JailTypeOK
  <2> QED
    BY <1>1, <1>2, <2>0, <2>2, <2>3, <2>4
<1> QED
  BY <1>3, <1>4, <1>5, <1>6

(* The operator changes object or template, the cache catches up, or the      *)
(* lock of the group changes hands, while the reconcile is anywhere.        *)
LEMMA OutsideStep ==
  ASSUME JailInv, JCacheSync \/ OtherMember \/ EditJail \/ DeleteJail \/ EditTemplate
  PROVE  JailInv'
<1>0. /\ plan \in Scenario /\ jobj \in Job(plan) \cup {NoJail} /\ jcache \in Job(plan) \cup {NoJail}
      /\ jobj # NoJail => (jobj.deleting => jobj.fin)
      /\ jedits \in 0..JailEdits /\ JailEdits \in Nat
  BY JailAssumption DEF JailInv, JailShape, JailTypeOK
<1>1. UNCHANGED <<plan, zfs, files, kernel, r, cut, jfaults>>
  BY DEF JCacheSync, OtherMember, EditJail, DeleteJail, EditTemplate, host, outside, others
<1>n. NoJail \notin Job(plan) /\ NoJail \notin plan.specs
  BY <1>0, JailAssumption
<1>2. ASSUME jobj' \in Job(plan') \cup {NoJail}, jcache' \in Job(plan') \cup {NoJail},
             jobj' # NoJail => (jobj'.deleting => jobj'.fin),
             tmpl' \in JailTemplates(plan') \cup {Unset},
             lock' \in {"free", "mine", "other"}, jedits' \in 0..JailEdits,
             Finalizer'
      PROVE  JailInv'
  <2>1. JailShape'
    BY <1>1, <1>2, SMTT(60), ZenonT(60) DEF JailInv, JailShape
  <2>2. JailTypeOK'
    BY <1>1, <1>2, ZenonT(60) DEF JailInv, JailTypeOK, isExtracted
  <2>3. Progress' /\ TearDown'
    BY <1>1, ZenonT(60) DEF JailInv, Progress, TearDown, isExtracted
  <2>4. NeverRootless' /\ Running'
    BY <1>1 DEF JailInv, NeverRootless, Running, FromFiles
  <2> QED
    BY <1>2, <2>1, <2>2, <2>3, <2>4 DEF JailInv
<1>3. /\ tmpl \in JailTemplates(plan) \cup {Unset} /\ lock \in {"free", "mine", "other"}
      /\ Finalizer /\ (TornDown <=> TornDown')
  BY <1>1 DEF JailInv, JailShape, JailTypeOK, TornDown
<1>4. CASE JCacheSync
  <2>1. jcache' = jobj /\ UNCHANGED <<jobj, tmpl, lock, jedits>>
    BY <1>4 DEF JCacheSync, outside, others
  <2>2. Finalizer'
    BY <1>1, <1>3, <2>1 DEF Finalizer, Alive, HasFin
  <2> QED
    BY <1>0, <1>1, <1>2, <1>3, <2>1, <2>2
<1>5. CASE OtherMember
  <2>1. UNCHANGED <<jobj, jcache, tmpl, jedits>> /\ lock' \in {"free", "other"}
    BY <1>5 DEF OtherMember
  <2>2. Finalizer'
    BY <1>1, <1>3, <2>1 DEF Finalizer
  <2> QED
    BY <1>0, <1>1, <1>2, <1>3, <2>1, <2>2
<1>6. CASE EditTemplate
  <2>1. UNCHANGED <<jobj, jcache, lock>> /\ jedits' = jedits + 1 /\ jedits < JailEdits
    BY <1>6 DEF EditTemplate, JEdit
  <2>2. Finalizer'
    BY <1>1, <1>3, <2>1 DEF Finalizer
  <2>3. tmpl' \in JailTemplates(plan') \cup {Unset}
    BY <1>1, <1>6 DEF EditTemplate, JailTemplates
  <2>4. jedits' \in 0..JailEdits
    BY <1>0, <2>1
  <2> QED
    BY <1>0, <1>1, <1>2, <1>3, <2>1, <2>2, <2>3, <2>4
<1>7. CASE EditJail
  <2>1. UNCHANGED <<jcache, tmpl, lock>> /\ jedits' = jedits + 1 /\ jedits < JailEdits
    BY <1>7 DEF EditJail, JEdit
  <2>2. PICK spec \in plan.specs : jobj' = IF jobj = NoJail THEN NewJail(spec) ELSE [jobj EXCEPT !.spec = spec]
    BY <1>7 DEF EditJail
  <2>3. spec \in Specs(plan)
    BY <1>n DEF Specs
  <2>4. CASE jobj = NoJail
    <3>1. jobj' \in Job(plan') /\ ~jobj'.fin /\ ~jobj'.deleting
      BY <1>1, <2>2, <2>3, <2>4, SMTT(60), ZenonT(60) DEF NewJail, Job
    <3>2. Finalizer'
      BY <1>1, <1>3, <2>1, <2>4, <3>1 DEF Finalizer, Alive, HasFin
    <3>3. jedits' \in 0..JailEdits
      BY <1>0, <2>1
    <3> QED
      BY <1>0, <1>1, <1>2, <1>3, <2>1, <3>1, <3>2, <3>3
  <2>5. CASE jobj # NoJail
    <3>1. jobj' \in Job(plan') /\ jobj'.fin = jobj.fin /\ jobj'.deleting = jobj.deleting
      BY <1>0, <1>1, <2>2, <2>3, <2>5, SMTT(60), ZenonT(60) DEF Job
    <3>2. Finalizer'
      BY <1>1, <1>3, <1>n, <2>1, <2>5, <3>1 DEF Finalizer, Alive, HasFin
    <3>3. jedits' \in 0..JailEdits
      BY <1>0, <2>1
    <3> QED
      BY <1>0, <1>1, <1>2, <1>3, <2>1, <2>5, <3>1, <3>2, <3>3
  <2> QED
    BY <2>4, <2>5
<1>8. CASE DeleteJail
  <2>1. UNCHANGED <<jcache, tmpl, lock>> /\ jedits' = jedits + 1 /\ jedits < JailEdits
    BY <1>8 DEF DeleteJail, JEdit
  <2>2. /\ jobj # NoJail /\ ~jobj.deleting
        /\ jobj' = IF jobj.fin THEN [jobj EXCEPT !.deleting = TRUE] ELSE NoJail
    BY <1>8 DEF DeleteJail
  <2>3. CASE jobj.fin
    <3>1. jobj' \in Job(plan') /\ jobj'.fin /\ jobj'.deleting
      BY <1>0, <1>1, <2>2, <2>3, Zenon DEF Job
    <3>2. Finalizer'
      BY <1>1, <1>3, <1>n, <2>1, <2>2, <3>1, Zenon DEF Finalizer, Alive, HasFin
    <3>3. jedits' \in 0..JailEdits
      BY <1>0, <2>1
    <3> QED
      BY <1>0, <1>1, <1>2, <1>3, <2>1, <3>1, <3>2, <3>3
  <2>4. CASE ~jobj.fin
    <3>1. jobj' = NoJail
      BY <2>2, <2>4
    <3>2. Finalizer'
      BY <1>1, <1>3, <2>1, <2>2, <2>4, <3>1 DEF Finalizer, Alive, HasFin
    <3>3. jedits' \in 0..JailEdits
      BY <1>0, <2>1
    <3> QED
      BY <1>0, <1>1, <1>2, <1>3, <2>1, <3>1, <3>2, <3>3
  <2> QED
    BY <2>3, <2>4
<1> QED
  BY <1>4, <1>5, <1>6, <1>7, <1>8

(* Every step keeps the invariant.                                         *)
LEMMA JailStep == JailInv /\ [JNext]_jvars => JailInv'
<1> SUFFICES ASSUME JailInv, [JNext]_jvars PROVE JailInv'
  OBVIOUS
<1>0. /\ plan \in Scenario /\ plan.faults \in Nat /\ jfaults \in 0..plan.faults
      /\ lock \in {"free", "mine", "other"} /\ zfs \in Datasets
      /\ kernel = [jail |-> kernel.jail, aliases |-> kernel.aliases]
  BY JailAssumption DEF JailInv, JailShape, JailTypeOK
<1>f. ASSUME Fault PROVE jfaults' \in 0..plan.faults /\ UNCHANGED <<plan, tmpl, lock, jedits>>
  <2>1. jfaults < plan.faults /\ jfaults' = jfaults + 1 /\ UNCHANGED <<plan, tmpl, lock, jedits>>
    BY <1>f DEF Fault
  <2> QED
    BY <1>0, <2>1
<1>i. ASSUME Interrupted PROVE zfs' = zfs \/ (At("release") /\ Interrupted)
  BY <1>i, SMTT(60), ZenonT(60) DEF Interrupted
<1>1. CASE TemplateNotFound \/ StartFails \/ PostCreateFails \/ DeletionProtected
  BY <1>0, <1>1, StatusWrite, ReturnStep, ZenonT(60) DEF TemplateNotFound, StartFails, PostCreateFails, DeletionProtected,
       host, outside, others
<1>2. CASE NoUpdate \/ JConflict
  BY <1>0, <1>2, ReturnStep DEF NoUpdate, JConflict, StatusOnly, host, outside, others
<1>3. CASE RecordUpdate
  BY <1>0, <1>3, StatusWrite, ReturnStep, SMTT(60), ZenonT(60) DEF RecordUpdate, host, outside, others
<1>4. CASE EnsureFails
  BY <1>0, <1>4, <1>f, <1>i, StatusWrite, ReturnStep, ZenonT(60) DEF EnsureFails
<1>5. CASE CommandFails
  BY <1>0, <1>5, <1>f, StatusWrite, ReturnStep, Zenon DEF CommandFails, host
<1>6. CASE UpdateFails /\ At("update stop")
  <2>1. r' = Idle /\ UNCHANGED <<jobj, jcache, zfs, files, kernel, cut>> /\ Fault
    BY <1>6 DEF UpdateFails, At, host
  <2>2. ~r.changed
    BY <1>6 DEF At, JailInv, JailTypeOK, BeforeStop
  <2> QED
    BY <1>0, <1>f, <2>1, <2>2, ReturnStep DEF StatusOnly
<1>7. CASE RecordFails
  BY <1>0, <1>7, <1>f, ReturnStep DEF RecordFails, StatusOnly, host
<1>8. CASE JCrash
  BY <1>0, <1>8, <1>f, <1>i, ReturnStep DEF JCrash, StatusOnly
<1>9. CASE StopForUpdate /\ kernel.jail = Unset
  <2>1. Return /\ kernel' = kernel /\ UNCHANGED <<jobj, jcache, zfs, files, outside>>
    BY <1>9 DEF StopForUpdate, Stopped
  <2> QED
    BY <1>0, <2>1, ReturnStep DEF StatusOnly, outside, others
<1>10. CASE RemoveFinalizer
  <2>0. /\ r.at = "unfinalize" /\ r.job \in Job(plan) /\ ~r.changed /\ TornDown
        /\ UNCHANGED <<jcache, zfs, files, kernel, plan, tmpl, lock, jedits, jfaults>>
    BY <1>10 DEF RemoveFinalizer, At, JailInv, JailShape, JailTypeOK, BeforeStop, TearDown, TornDown, Deleting,
         DeleteSteps, host, outside, others
  <2>1. r' = Idle /\ (cut => cut')
    BY <1>10, Zenon DEF RemoveFinalizer, Return
  <2>2. Idle \in JailRun(plan) /\ Idle.at = "idle" /\ ~Idle.changed
    BY DEF Idle, JailRun, Steps
  <2>3. /\ jobj' \in Job(plan) \cup {NoJail} /\ ~HasFin(jobj')
        /\ jobj' # NoJail => (jobj'.deleting => jobj'.fin)
    <3>1. [r.job EXCEPT !.fin = FALSE] \in Job(plan) /\ ~[r.job EXCEPT !.fin = FALSE].fin
      BY <2>0, Zenon DEF Job
    <3>2. jobj' = IF [r.job EXCEPT !.fin = FALSE].deleting /\ ~[r.job EXCEPT !.fin = FALSE].fin
                  THEN NoJail ELSE [r.job EXCEPT !.fin = FALSE]
      BY <1>10 DEF RemoveFinalizer, WriteObject
    <3> DEFINE new == [r.job EXCEPT !.fin = FALSE]
    <3> HIDE DEF new
    <3> QED
      BY <3>1, <3>2 DEF HasFin
  <2>4. ~Alive(jcache)
    BY <2>0 DEF JailInv, Finalizer, Deleting
  <2>5. Finalizer'
    BY <2>0, <2>1, <2>2, <2>3, <2>4, SMTT(60), ZenonT(60) DEF Finalizer, Alive, TornDown, Ensuring, Rooted, Configured,
                                        Deleting, DeleteSteps
  <2>6. JailShape'
    BY <2>0, <2>1, <2>2, <2>3, SMTT(60), ZenonT(60) DEF JailInv, JailShape, Ensuring, Rooted, Configured
  <2>7. JailTypeOK'
    BY <2>0, <2>1, <2>2, <2>3, ZenonT(60) DEF JailInv, JailTypeOK, OtherSteps, isExtracted
  <2>8. Progress' /\ TearDown'
    BY <2>1, <2>2, ZenonT(60) DEF Progress, TearDown, Rooted, Configured, Deleting, DeleteSteps
  <2>9. NeverRootless' /\ Running'
    BY <2>0, <2>1, Zenon DEF JailInv, NeverRootless, Running, FromFiles
  <2> QED
    BY <2>5, <2>6, <2>7, <2>8, <2>9 DEF JailInv
<1>11. CASE HostReboots
  <2>0. r' = Idle /\ jcache' = jobj /\ UNCHANGED <<jobj, files>> /\ Fault /\ Interrupted
    BY <1>11 DEF HostReboots
  <2>1. Idle \in JailRun(plan) /\ Idle.at = "idle" /\ ~Idle.changed
    BY DEF Idle, JailRun, Steps
  <2>2. /\ zfs' \in Datasets
        /\ zfs'.root = zfs.root /\ zfs'.dataset = zfs.dataset /\ zfs'.snaps = zfs.snaps
        /\ \A v \in Release : isExtracted(v) => isExtracted(v)'
    BY <1>0, <2>0 DEF Interrupted, isExtracted, Datasets
  <2>3. /\ kernel' = [jail |-> kernel'.jail, aliases |-> kernel'.aliases]
        /\ kernel'.jail # Unset => files.rc /\ files.conf # Unset /\ zfs.root # Unset
        /\ kernel'.jail # Unset => FromFiles'
    <3>1. CASE files.rc /\ files.enabled /\ files.conf # Unset /\ zfs.root # Unset
      <4>1. \E a : kernel' = [Started EXCEPT !.aliases = a]
        BY <1>11, <3>1 DEF HostReboots
      <4>2. \E a : kernel' = [jail |-> Started.jail, aliases |-> a]
        BY <4>1, Zenon DEF Started
      <4>3. /\ Started.jail.conf = files.conf
            /\ files.conf.fstab => Started.jail.fstab = files.fstab
        BY DEF Started
      <4>4. kernel' = [jail |-> kernel'.jail, aliases |-> kernel'.aliases]
        BY <4>2, Zenon
      <4>5. kernel'.jail = Started.jail
        <5>1. \A j, al : [jail |-> j, aliases |-> al].jail = j
          BY Zenon
        <5> QED
          BY <4>2, <5>1, Zenon
      <4>6. files' = files
        BY <2>0
      <4>7. FromFiles'
        BY <3>1, <4>3, <4>5, <4>6, Zenon DEF FromFiles
      <4> QED
        BY <3>1, <4>4, <4>7, Zenon
    <3>2. CASE ~(files.rc /\ files.enabled /\ files.conf # Unset /\ zfs.root # Unset)
      BY <1>11, <3>2 DEF HostReboots
    <3> QED
      BY <3>1, <3>2, SMTT(60), ZenonT(60)
  <2>4. Finalizer'
    <3>1. ~HasFin(jobj') => TornDown'
      BY <2>0, <2>2, <2>3, SMTT(60), ZenonT(60) DEF JailInv, Finalizer, TornDown
    <3> QED
      BY <2>0, <2>1, <3>1 DEF Finalizer, Alive, Ensuring, Rooted, Configured, Deleting, DeleteSteps
  <2>5. JailShape'
    BY <1>f, <2>0, <2>1, <2>2, <2>3 DEF JailInv, JailShape, Ensuring, Rooted, Configured
  <2>6. JailTypeOK'
    BY <1>f, <2>0, <2>1, <2>2, ZenonT(60) DEF JailInv, JailTypeOK, OtherSteps, Datasets
  <2>7. Progress' /\ TearDown'
    BY <2>0, <2>1 DEF Progress, TearDown, Rooted, Configured, Deleting, DeleteSteps
  <2>8. NeverRootless' /\ Running'
    BY <2>0, <2>2, <2>3 DEF JailInv, NeverRootless, Running
  <2> QED
    BY <2>4, <2>5, <2>6, <2>7, <2>8 DEF JailInv
<1>12. CASE JailDies
  <2>0. kernel' = [kernel EXCEPT !.jail = Unset] /\ UNCHANGED <<jobj, jcache, zfs, files, r, cut>> /\ Fault
    BY <1>12 DEF JailDies
  <2>1. kernel' = [jail |-> kernel'.jail, aliases |-> kernel'.aliases] /\ kernel'.jail = Unset
    BY <1>0, <2>0
  <2>2. Finalizer'
    BY <2>0, <2>1 DEF JailInv, Finalizer, TornDown
  <2>3. JailShape'
    BY <1>f, <2>0, <2>1 DEF JailInv, JailShape
  <2>4. JailTypeOK'
    BY <1>f, <2>0 DEF JailInv, JailTypeOK, isExtracted
  <2>5. Progress' /\ TearDown'
    BY <2>0, <2>1, ZenonT(60) DEF JailInv, Progress, TearDown, isExtracted
  <2>6. NeverRootless' /\ Running'
    BY <2>0, <2>1 DEF JailInv, NeverRootless, Running
  <2> QED
    BY <2>2, <2>3, <2>4, <2>5, <2>6 DEF JailInv
<1>13. CASE UNCHANGED jvars
  <2>1. UNCHANGED <<plan, jobj, jcache, tmpl, zfs, files, kernel, lock, r, cut, jedits, jfaults>>
    BY <1>13 DEF jvars
  <2>2. JailTypeOK' /\ JailShape'
    <3>1. JailTypeOK /\ JailShape
      BY Zenon DEF JailInv
    <3>2. JailTypeOK'
      BY <2>1, <3>1, SMTT(60), ZenonT(60) DEF JailTypeOK, isExtracted
    <3>3. JailShape'
      BY <2>1, <3>1, SMTT(60), ZenonT(60) DEF JailShape
    <3> QED
      BY <3>2, <3>3
  <2>3. Progress'
    BY <2>1, ZenonT(60) DEF JailInv, Progress, isExtracted
  <2>4. TearDown' /\ NeverRootless'
    BY <2>1, ZenonT(60) DEF JailInv, TearDown, NeverRootless
  <2>5. Running'
    BY <2>1, ZenonT(60) DEF JailInv, Running, FromFiles
  <2>6. Finalizer'
    BY <2>1 DEF JailInv, Finalizer, TornDown
  <2> QED
    BY <2>2, <2>3, <2>4, <2>5, <2>6 DEF JailInv
<1>14. UpdateFails => At("update stop") \/ At("freebsd-update")
  BY DEF UpdateFails
<1>15. CASE JProceed
  <2>1. CASE Reconcile \/ AddFinalizer \/ ResolveTemplate \/ SetProgressing
    BY <2>1, BeginStep
  <2>2. CASE EnsureRelease \/ CheckRoot \/ Snapshot \/ Clone
    BY <2>2, RootStep
  <2>3. CASE \/ writeFstab \/ writeJailConf \/ EnsureAnchor \/ ensureJailRCService
             \/ StopForChange \/ cycleJailIfNetworkChanged
    BY <2>3, ConfigStep
  <2>4. CASE \/ StartJail \/ BootstrapPkg \/ PostCreate \/ SetStatus \/ LockUpdate
             \/ UpdateJail \/ StartAfterUpdate
    BY <2>4, RunStep
  <2>6. CASE StopForUpdate /\ kernel.jail # Unset
    BY <2>6, RunStep
  <2>5. CASE \/ DeleteStop \/ removeJailRCService \/ removeJailConf \/ removeFstab
             \/ DestroyDatasets \/ DestroySnapshot
    BY <2>5, TearDownStep
  <2> QED
    BY <1>1, <1>2, <1>3, <1>9, <1>10, <1>15, <2>1, <2>2, <2>3, <2>4, <2>5, <2>6 DEF JProceed
<1>16. CASE UpdateFails /\ At("freebsd-update")
  BY <1>16, RunStep
<1>17. CASE JCacheSync \/ OtherMember \/ EditJail \/ DeleteJail \/ EditTemplate
  BY <1>17, OutsideStep
<1> QED
  BY <1>4, <1>5, <1>6, <1>7, <1>8, <1>11, <1>12, <1>13, <1>14, <1>15, <1>16, <1>17 DEF JNext

(* Every reachable state satisfies the invariant.                          *)
LEMMA JailInvariant == JSpec => []JailInv
<1>1. JInit => JailInv
  <2> SUFFICES ASSUME JInit PROVE JailInv
    BY SMTT(60), ZenonT(60)
  <2>1. /\ plan \in Scenario /\ plan.faults \in Nat /\ JailEdits \in Nat /\ NoJail \notin Job(plan)
        /\ Unset \notin Root
    BY JailAssumption, ZenonT(60) DEF JInit
  <2>2. Idle \in JailRun(plan) /\ Idle.at = "idle" /\ ~Idle.changed /\ r = Idle
    BY SMTT(60), ZenonT(60) DEF Idle, JailRun, Steps, JInit
  <2>3. jobj = NoJail \/ (jobj \in Job(plan) /\ ~jobj.deleting /\ ~jobj.fin)
    BY ZenonT(60) DEF JInit, NewJail, Job, Specs
  <2>4. /\ zfs \in Datasets /\ zfs.snaps = {} /\ zfs.root = Unset /\ ~zfs.dataset
    BY ZenonT(60) DEF JInit, Datasets
  <2>5. /\ files = [conf |-> files.conf, fstab |-> files.fstab, rc |-> files.rc,
                    enabled |-> files.enabled, anchor |-> files.anchor]
        /\ files.conf = Unset /\ files.fstab = Unset /\ files.rc = FALSE /\ files.enabled = FALSE
    BY DEF JInit, NoFiles
  <2>6. kernel = [jail |-> kernel.jail, aliases |-> kernel.aliases] /\ kernel.jail = Unset
    BY SMTT(60), ZenonT(60) DEF JInit
  <2>7. JailShape
    BY <2>1, <2>2, <2>3, <2>4, <2>5, <2>6, ZenonT(60) DEF JInit, JailShape, JailTemplates, Ensuring, Rooted, Configured
  <2>8. JailTypeOK
    <3>1. zfs.releases \in [Release -> {"none", "partial", "full"}]
      BY <2>4 DEF Datasets
    <3>2. jedits \in 0..JailEdits /\ jfaults \in 0..plan.faults /\ lock \in {"free", "mine", "other"}
      BY <2>1 DEF JInit
    <3> QED
      BY <2>2, <2>3, <2>4, <2>5, <3>1, <3>2 DEF JailTypeOK, OtherSteps
  <2>9. Progress /\ TearDown
    BY <2>2 DEF Progress, TearDown, Rooted, Configured, Deleting, DeleteSteps
  <2>10. NeverRootless /\ Running
    BY <2>5, <2>6, SMTT(60), ZenonT(60) DEF NeverRootless, Running
  <2>11. Finalizer
    BY <2>2, <2>3, <2>4, <2>5, <2>6 DEF JInit, Finalizer, TornDown, Alive, HasFin, Ensuring, Rooted, Configured,
         Deleting, DeleteSteps
  <2> QED
    BY <2>7, <2>8, <2>9, <2>10, <2>11 DEF JailInv
<1> QED
  BY <1>1, JailStep, PTL DEF JSpec

(* A jail's root is always a clone of a snapshot of an extracted release,     *)
(* whatever EnsureJail, DeleteJail, crashes and failures leave half done.    *)
THEOREM JailTypes == JSpec => []JailTypeOK
BY JailInvariant, PTL DEF JailInv

(* A jail whose stops succeed never runs without a root.                    *)
THEOREM JailKeepsRoot == JSpec => []NeverRootless
BY JailInvariant, PTL DEF JailInv

(* A jail that is reported as available runs what its spec asks for, unless  *)
(* a stop was lost.                                                        *)
THEOREM JailRunsAsAsked == JSpec => []StaleOnlyIfCut
<1>1. JailInv => StaleOnlyIfCut
  <2> SUFFICES ASSUME JailInv, At("status"), kernel.jail # Unset, ~cut PROVE AsAsked
    BY DEF StaleOnlyIfCut
  <2>1. ~r.changed
    BY DEF At, JailInv, JailTypeOK, BeforeStop
  <2>2. FromFiles
    BY <2>1 DEF JailInv, Running
  <2>3. /\ files.conf = JailConf(r.spec) /\ zfs.root.release = r.spec.release
        /\ r.spec.mounts # {} => files.fstab = r.spec.mounts
    BY DEF At, JailInv, Progress, Rooted, Configured
  <2>4. JailConf(r.spec).fstab = (r.spec.mounts # {})
    BY DEF JailConf
  <2> QED
    BY <2>2, <2>3, <2>4, Zenon DEF AsAsked, FromFiles
<1> QED
  BY <1>1, JailInvariant, PTL

(* The object disappears only when nothing of the jail is left: RemoveFinalizer *)
(* comes after all of DeleteJail, and the host has nothing of an object that   *)
(* the operator deletes before it got its finalizer.                        *)
THEOREM JailFinalizerHolds == JSpec => FinalizerHolds
<1>1. JailInv /\ [JNext]_jvars => [jobj # NoJail /\ jobj' = NoJail => TornDown]_jvars
  <2> SUFFICES ASSUME JailInv, JNext, jobj # NoJail, jobj' = NoJail PROVE TornDown
    OBVIOUS
  <2>0. /\ NoJail \notin Job(plan) /\ NoJail \notin plan.specs /\ jobj \in Job(plan)
        /\ r.at # "idle" => r.job \in Job(plan)
        /\ r.up \in BOOLEAN
    BY JailAssumption DEF JailInv, JailShape, JailRun
  <2>1. ~StatusOnly
    BY <2>0 DEF StatusOnly
  <2>2. CASE RemoveFinalizer
    BY <2>2 DEF RemoveFinalizer, At, JailInv, TearDown, TornDown, Deleting, DeleteSteps
  <2>3. CASE DeleteJail
    <3>1. ASSUME jobj.fin PROVE jobj' \in Job(plan)
      <4>1. jobj' = [jobj EXCEPT !.deleting = TRUE]
        BY <2>3, <3>1 DEF DeleteJail
      <4> QED
        BY <2>0, <4>1, ZenonT(60) DEF Job
    <3>2. ~jobj.fin
      BY <2>0, <3>1
    <3> QED
      BY <3>2 DEF JailInv, Finalizer, HasFin
  <2>4. CASE AddFinalizer
    <3>1. r.job \in Job(plan)
      BY <2>0, <2>4 DEF AddFinalizer, At
    <3>2. jobj' \in Job(plan)
      BY <2>4, <3>1, ZenonT(60) DEF AddFinalizer, WriteObject, Job
    <3> QED
      BY <2>0, <3>2
  <2>5. CASE EditJail
    <3>1. PICK spec \in plan.specs : jobj' = [jobj EXCEPT !.spec = spec]
      BY <2>5 DEF EditJail
    <3>2. jobj' \in Job(plan)
      BY <2>0, <3>1 DEF Specs, Job
    <3> QED
      BY <2>0, <3>2
  <2>6. CASE SetProgressing \/ PostCreate \/ RecordUpdate
    BY <2>1, <2>6, StatusWrite, Zenon DEF SetProgressing, PostCreate, RecordUpdate
  <2>7. CASE SetStatus
    <3>1. zfs.root.release \in Release
      BY <2>7, SMTT(60), ZenonT(60) DEF SetStatus, At, JailInv, JailShape, Progress, Rooted, Configured, Datasets, Root
    <3> QED
      BY <2>0, <2>1, <2>7, <3>1, StatusWrite, Zenon DEF SetStatus
  <2>8. CASE TemplateNotFound \/ StartFails \/ PostCreateFails \/ DeletionProtected \/ EnsureFails \/ CommandFails
    BY <2>1, <2>8, StatusWrite, Zenon DEF TemplateNotFound, StartFails, PostCreateFails, DeletionProtected, EnsureFails,
         CommandFails
  <2>9. CASE jobj' = jobj
    BY <2>9
  <2> QED
    BY <2>2, <2>3, <2>4, <2>5, <2>6, <2>7, <2>8, <2>9, ZenonT(60)
       DEF JNext, JProceed, Reconcile, ResolveTemplate, EnsureRelease, CheckRoot, Snapshot, Clone, writeFstab,
           writeJailConf, EnsureAnchor, ensureJailRCService, StopForChange, cycleJailIfNetworkChanged, StartJail,
           BootstrapPkg, NoUpdate, LockUpdate, StopForUpdate, UpdateJail, StartAfterUpdate, DeleteStop,
           removeJailRCService, removeJailConf, removeFstab, DestroyDatasets, DestroySnapshot, JConflict,
           UpdateFails, RecordFails, JCrash, HostReboots, JailDies, JCacheSync, OtherMember, EditTemplate
<1> QED
  BY <1>1, JailInvariant, PTL DEF JSpec, FinalizerHolds
-----------------------------------------------------------------------------
(* What the comparison of writeFstab and writeJailConf means for the jail     *)
(* that runs: it is not what this reconcile asks for, unless a stop was lost. *)
ChangedDiffers ==
  r.changed /\ kernel.jail # Unset =>
    \/ cut
    \/ kernel.jail.conf # JailConf(r.spec)
    \/ r.spec.mounts # {} /\ kernel.jail.fstab # r.spec.mounts

(* A change is noted by writeFstab and writeJailConf and kept until the jail   *)
(* is stopped for it; meanwhile the jail may die, and nothing starts it.      *)
LEMMA ChangeKept ==
  ASSUME JailInv, JailInv', JNext, r'.changed, ~writeFstab, ~writeJailConf
  PROVE  /\ r.changed /\ r'.spec = r.spec /\ cut' = cut
         /\ kernel'.jail = kernel.jail \/ kernel'.jail = Unset
<1>0. /\ r \in JailRun(plan) /\ kernel = [jail |-> kernel.jail, aliases |-> kernel.aliases]
      /\ r'.at \in BeforeStop
  BY DEF JailInv, JailShape, JailTypeOK
<1>g. ASSUME NEW s, Goto(s) PROVE r'.at = s /\ r'.changed = r.changed /\ r'.spec = r.spec
  BY <1>0, <1>g, Zenon DEF Goto, JailRun
<1>1. r' # Idle
  BY DEF Idle
<1>2. CASE EnsureAnchor \/ ensureJailRCService
  BY <1>2, <1>g, Zenon DEF EnsureAnchor, ensureJailRCService
<1>3. CASE JCacheSync \/ OtherMember \/ EditJail \/ DeleteJail \/ EditTemplate
  BY <1>3, Zenon DEF JCacheSync, OtherMember, EditJail, DeleteJail, EditTemplate, host
<1>4. CASE JailDies
  BY <1>0, <1>4 DEF JailDies
<1>5. CASE \/ TemplateNotFound \/ StartFails \/ PostCreateFails \/ NoUpdate \/ RecordUpdate
           \/ DeletionProtected \/ RemoveFinalizer \/ JConflict
           \/ EnsureFails \/ CommandFails \/ RecordFails \/ JCrash \/ HostReboots
  BY <1>1, <1>5, Zenon DEF TemplateNotFound, StartFails, PostCreateFails, NoUpdate, RecordUpdate, DeletionProtected,
       RemoveFinalizer, JConflict, EnsureFails, CommandFails, RecordFails, JCrash, HostReboots, Return
<1>6. CASE Reconcile \/ AddFinalizer \/ ResolveTemplate \/ BootstrapPkg \/ UpdateJail \/ StopForChange
  <2>1. r'.at \in {"protection", "template", "finalizer", "progressing", "hooks", "status", "update start", "cycle"}
    <3>1. CASE Reconcile
      BY <3>1 DEF Reconcile, Idle
    <3>2. CASE AddFinalizer \/ BootstrapPkg \/ UpdateJail \/ StopForChange
      BY <1>0, <3>2, ZenonT(60) DEF AddFinalizer, BootstrapPkg, UpdateJail, StopForChange, JailRun
    <3>3. CASE ResolveTemplate
      BY <1>0, <3>3, Zenon DEF ResolveTemplate, JailRun
    <3> QED
      BY <1>6, <3>1, <3>2, <3>3
  <2> QED
    BY <1>0, <2>1 DEF BeforeStop
<1>7. CASE UpdateFails \/ StartAfterUpdate
  <2>1. r'.at \in {"update start", "updated"}
    BY <1>0, <1>1, <1>7 DEF UpdateFails, StartAfterUpdate, JailRun
  <2> QED
    BY <1>0, <2>1 DEF BeforeStop
<1>8. CASE SetProgressing \/ EnsureRelease \/ CheckRoot \/ Snapshot \/ Clone
  <2>1. \E s \in {"release", "root", "snapshot", "fstab", "clone"} : Goto(s)
    BY <1>8, Zenon DEF SetProgressing, EnsureRelease, CheckRoot, Snapshot, Clone
  <2> QED
    BY <1>0, <1>g, <2>1, Zenon DEF BeforeStop
<1>9. CASE cycleJailIfNetworkChanged \/ StartJail \/ PostCreate \/ SetStatus \/ LockUpdate \/ StopForUpdate
  <2>1. \E s \in {"start", "bootstrap", "status", "update", "update stop", "freebsd-update"} : Goto(s)
    BY <1>1, <1>9, Zenon DEF cycleJailIfNetworkChanged, StartJail, PostCreate, SetStatus, LockUpdate, StopForUpdate,
         Return
  <2> QED
    BY <1>0, <1>g, <2>1 DEF BeforeStop
<1>10. CASE \/ DeleteStop \/ removeJailRCService \/ removeJailConf \/ removeFstab
            \/ DestroyDatasets \/ DestroySnapshot
  <2>1. \E s \in {"remove rc", "remove conf", "remove fstab", "destroy", "destroy snapshot", "unfinalize"} : Goto(s)
    BY <1>10, ZenonT(60) DEF DeleteStop, removeJailRCService, removeJailConf, removeFstab, DestroyDatasets, DestroySnapshot
  <2> QED
    BY <1>0, <1>g, <2>1 DEF BeforeStop
<1> QED
  BY <1>2, <1>3, <1>4, <1>5, <1>6, <1>7, <1>8, <1>9, <1>10, ZenonT(60) DEF JNext, JProceed

(* The comparison with the files says how the running jail differs, since it   *)
(* was started from them.                                                  *)
LEMMA DiffersStep ==
  ASSUME JailInv, JailInv', ChangedDiffers, [JNext]_jvars
  PROVE  ChangedDiffers'
<1> SUFFICES ASSUME r'.changed, kernel'.jail # Unset, ~cut'
             PROVE  \/ kernel'.jail.conf # JailConf(r'.spec)
                    \/ r'.spec.mounts # {} /\ kernel'.jail.fstab # r'.spec.mounts
  BY DEF ChangedDiffers
<1>0. r \in JailRun(plan) /\ JailConf(r.spec).fstab = (r.spec.mounts # {})
  BY DEF JailInv, JailShape, JailConf
<1>1. CASE writeFstab
  <2>1. /\ r'.spec = r.spec /\ UNCHANGED <<kernel, cut>> /\ At("fstab")
        /\ r.spec.mounts # {} /\ files.fstab # r.spec.mounts
    BY <1>0, <1>1, ZenonT(60) DEF writeFstab, JailRun, Changed, Goto, At, JailInv, JailTypeOK, BeforeStop, outside
  <2>2. FromFiles
    BY <2>1 DEF At, JailInv, JailTypeOK, Running, BeforeStop
  <2> QED
    BY <1>0, <2>1, <2>2, Zenon DEF FromFiles
<1>2. CASE writeJailConf
  <2>1. /\ r'.spec = r.spec /\ UNCHANGED <<kernel, cut>>
        /\ r.changed \/ files.conf # JailConf(r.spec)
    BY <1>0, <1>2 DEF writeJailConf, JailRun, Changed
  <2>2. CASE r.changed
    BY <2>1, <2>2 DEF ChangedDiffers
  <2>3. CASE ~r.changed
    BY <2>1, <2>3 DEF JailInv, Running, FromFiles
  <2> QED
    BY <2>2, <2>3
<1>3. CASE JNext /\ ~writeFstab /\ ~writeJailConf
  <2>1. /\ r.changed /\ r'.spec = r.spec /\ cut' = cut /\ kernel'.jail = kernel.jail
    BY <1>3, ChangeKept
  <2> QED
    BY <2>1 DEF ChangedDiffers
<1>4. CASE UNCHANGED jvars
  BY <1>4 DEF jvars, ChangedDiffers
<1> QED
  BY <1>1, <1>2, <1>3, <1>4

(* EnsureJail stops a running jail for another release, for other files than   *)
(* it was started from, or for another address: each time it differs from     *)
(* the spec, unless a stop was lost before.                                 *)
THEOREM JailNotStoppedNeedlessly == JSpec => StoppedOnlyIfDifferent
<1>1. JInit => ChangedDiffers
  <2>1. Idle.changed = FALSE
    BY DEF Idle
  <2>2. JInit => r = Idle
    BY Zenon DEF JInit
  <2> QED
    BY <2>1, <2>2, Zenon DEF ChangedDiffers
<1>2. JailInv /\ JailInv' /\ ChangedDiffers /\ [JNext]_jvars => ChangedDiffers'
  BY DiffersStep
<1>3. JailInv /\ ChangedDiffers /\ [JNext]_jvars =>
        [r.at \in EnsureSteps /\ jfaults' = jfaults /\ kernel.jail # Unset /\ kernel'.jail = Unset
           => cut \/ ~AsAsked]_jvars
  <2> SUFFICES ASSUME JailInv, ChangedDiffers, JNext, r.at \in EnsureSteps, jfaults' = jfaults,
                      kernel.jail # Unset, kernel'.jail = Unset, ~cut
               PROVE  ~AsAsked
    OBVIOUS
  <2>0. kernel' # kernel /\ ~Fault
    BY DEF Fault, JailInv, JailTypeOK
  <2>1. CASE CheckRoot
    BY <2>0, <2>1 DEF CheckRoot, AsAsked
  <2>2. CASE StopForChange
    BY <2>0, <2>2 DEF StopForChange, ChangedDiffers, AsAsked
  <2>3. CASE cycleJailIfNetworkChanged
    <3>1. kernel.jail.conf.inet # r.spec.inet
      BY <2>0, <2>3 DEF cycleJailIfNetworkChanged
    <3>2. JailConf(r.spec).inet = r.spec.inet
      BY DEF JailConf
    <3> QED
      BY <3>1, <3>2, Zenon DEF AsAsked
  <2>4. CASE StartJail \/ StopForUpdate \/ StartAfterUpdate \/ DeleteStop
    BY <2>4 DEF StartJail, StopForUpdate, StartAfterUpdate, DeleteStop, At, EnsureSteps
  <2> QED
    BY <2>0, <2>1, <2>2, <2>3, <2>4, ZenonT(60)
       DEF JNext, JProceed, Reconcile, AddFinalizer, ResolveTemplate, TemplateNotFound, SetProgressing, EnsureRelease,
           Snapshot, Clone, writeFstab, writeJailConf, EnsureAnchor, ensureJailRCService, StartFails, BootstrapPkg,
           PostCreate, PostCreateFails, SetStatus, NoUpdate, LockUpdate, UpdateJail, RecordUpdate, DeletionProtected,
           removeJailRCService, removeJailConf, removeFstab, DestroyDatasets, DestroySnapshot, RemoveFinalizer,
           JConflict, EnsureFails, CommandFails, UpdateFails, RecordFails, JCrash, HostReboots, JailDies, JCacheSync,
           OtherMember, EditJail, DeleteJail, EditTemplate, host
<1> QED
  BY <1>1, <1>2, <1>3, JailInvariant, PTL DEF JSpec, StoppedOnlyIfDifferent
=============================================================================
