-------------------------------- MODULE Jail --------------------------------
(***************************************************************************)
(* The life of one FreeBSD jail on its host: the Jail reconciler             *)
(* (internal/controller/freebsd/jail_controller.go) and the jail manager     *)
(* (pkg/jail) it drives, over ZFS, the configuration files, rc.d and the      *)
(* kernel.  Every command of the manager is a step of its own: the agent may  *)
(* crash, the host may reboot and the jail may die between any two, and a     *)
(* command may fail.                                                       *)
(***************************************************************************)
EXTENDS JailSpec, Admission, Naturals

CONSTANTS
  Jailname,     \* the name of the jail
  Thishost,     \* the host its object assigns it to
  Release,      \* FreeBSD releases
  NoJail,       \* there is no object
  Scenario,     \* scenarios: the specs and templates the operator uses, and faults
  JailEdits     \* how often the operator changes something

VARIABLES
  plan,         \* the scenario of this behaviour
  jobj,         \* the Jail, as the API server has it
  jcache,       \* as the informer cache has it
  tmpl,         \* the JailTemplate, Unset when there is none
  zfs,          \* releases, their snapshots for the jail, and its datasets
  files,        \* jail.conf, fstab, rc.d script, rc.conf and PF anchor
  kernel,       \* the running jail, and the addresses of the interface
  lock,         \* the holder of the update group's lease
  r,            \* the reconcile in progress
  cut,          \* a stop was lost: the reconcile ended before it, or it failed
  jedits, jfaults

jvars == <<plan, jobj, jcache, tmpl, zfs, files, kernel, lock, r, cut, jedits, jfaults>>

EnsureSteps == {"release", "root", "snapshot", "clone", "fstab", "conf", "pf", "rc", "stop",
                "cycle"}
DeleteSteps == {"remove rc", "remove conf", "remove fstab", "destroy", "destroy snapshot"}
StatusWrites == {"progressing", "hooks", "status", "updated"}
ObjectWrites == {"finalizer", "unfinalize"}
OtherSteps == {"idle", "template", "protection", "start", "bootstrap", "update",
               "update stop", "freebsd-update", "update start"}

Idle == [at |-> "idle", job |-> NoJail, spec |-> Unset, hooks |-> FALSE,
         changed |-> FALSE, up |-> FALSE]

NewJail(spec) ==
  [spec |-> spec, deleting |-> FALSE, fin |-> FALSE, post |-> FALSE, avail |-> FALSE,
   degraded |-> FALSE, progressing |-> FALSE, release |-> Unset, updated |-> FALSE]

(* The specs and templates of a scenario, and the specs that they give       *)
(* together.                                                               *)
Specs(m) == (m.specs \cup {m.first}) \ {NoJail}
JailTemplates(m) == (m.templates \cup {m.template}) \ {Unset}
Merged(m) == Specs(m) \cup {MergeTemplateDefaults(s, t) : s \in Specs(m), t \in JailTemplates(m)}

Job(m) ==
  [spec : Specs(m), deleting : BOOLEAN, fin : BOOLEAN, post : BOOLEAN, avail : BOOLEAN,
   degraded : BOOLEAN, progressing : BOOLEAN, release : Release \cup {Unset}, updated : BOOLEAN]
Root == [release : Release, pkg : BOOLEAN, patched : BOOLEAN]

(* The release is a required field of a Jail; Unset and NoJail stand for     *)
(* values that are not there.                                              *)
ASSUME JailAssumption ==
  /\ JailEdits \in Nat
  /\ Unset \notin Root \cup Release
  /\ \A m \in Scenario :
       /\ m.faults \in Nat
       /\ NoJail \notin Job(m) \cup m.specs
       /\ \A s \in Merged(m) : s.release \in Release /\ s.mounts # Unset /\ JailConf(s) # Unset

NoFiles == [conf |-> Unset, fstab |-> Unset, rc |-> FALSE, enabled |-> FALSE, anchor |-> Unset]

JInit ==
  /\ plan \in Scenario
  /\ jobj = (IF plan.first = NoJail THEN NoJail ELSE NewJail(plan.first)) /\ jcache = jobj
  /\ tmpl = plan.template
  /\ zfs = [releases |-> [v \in Release |-> "none"], snaps |-> {}, dataset |-> FALSE,
            root |-> Unset]
  /\ files = NoFiles
  /\ kernel = [jail |-> Unset, aliases |-> {}]
  /\ lock = "free"
  /\ r = Idle /\ cut = FALSE
  /\ jedits = 0 /\ jfaults = 0

host == <<zfs, files, kernel>>
others == <<plan, tmpl, lock, jedits>>
outside == <<others, jfaults>>

At(step) == r.at = step
Goto(step) == r' = [r EXCEPT !.at = step]

(* Steps of EnsureJail after the first change of a file that the jail reads   *)
(* when it starts, and before the jail is stopped for it.                   *)
BeforeStop == {"conf", "pf", "rc", "stop"}

(* The reconcile is over.                                                   *)
Return == r' = Idle /\ cut' = (cut \/ (r.changed /\ r.at \in BeforeStop))

-----------------------------------------------------------------------------
(* The object.                                                             *)

(* updateStatusWithRetry writes a fresh copy from the cache, which succeeds   *)
(* once that is current.                                                   *)
WriteStatus(new) == jcache = jobj /\ jobj # NoJail /\ jobj' = new

(* An update of the object itself writes the copy the reconcile read first,  *)
(* without a retry, and has to pass the webhook.                            *)
WriteObject(new) ==
  /\ r.job = jobj
  /\ jobj' = IF new.deleting /\ ~new.fin THEN NoJail ELSE new
  /\ Handle([operation |-> "UPDATE", host |-> Thishost, resource |-> "jails",
             name |-> Jailname, old |-> jobj.spec, new |-> new.spec]) = Allowed

(* The condition Degraded is set when a step fails, if that write succeeds.  *)
SetDegraded(progressing) ==
  jobj' = IF jcache = jobj /\ jobj # NoJail
          THEN [jobj EXCEPT !.degraded = TRUE, !.progressing = progressing /\ @]
          ELSE jobj

-----------------------------------------------------------------------------
(* Reconcile, up to EnsureJail.                                            *)

(* Only jails of this host are handled; a deleted one only while it has the  *)
(* finalizer.                                                              *)
Reconcile ==
  /\ At("idle") /\ jcache # NoJail /\ jcache.spec.nodeName = Thishost
  /\ jcache.deleting => jcache.fin
  /\ r' = [Idle EXCEPT !.job = jcache,
             !.at = IF jcache.deleting THEN "protection"
                    ELSE IF jcache.fin THEN "template" ELSE "finalizer"]
  /\ UNCHANGED <<jobj, jcache, host, outside, cut>>

AddFinalizer ==
  /\ At("finalizer")
  /\ WriteObject([r.job EXCEPT !.fin = TRUE])
  /\ r' = [r EXCEPT !.at = "template", !.job.fin = TRUE]
  /\ UNCHANGED <<jcache, host, outside, cut>>

(* The copy keeps only the fields that the reconcile has yet to use.         *)
ResolveTemplate ==
  /\ At("template")
  /\ ~(r.job.spec.templateRef /\ tmpl = Unset)
  /\ r' = [r EXCEPT !.at = "progressing",
             !.job = [NewJail(r.job.spec) EXCEPT !.post = r.job.post, !.updated = r.job.updated],
             !.spec = IF r.job.spec.templateRef THEN MergeTemplateDefaults(r.job.spec, tmpl)
                      ELSE r.job.spec,
             !.hooks = r.job.spec.templateRef /\ tmpl.postCreate]
  /\ UNCHANGED <<jobj, jcache, host, outside, cut>>

TemplateNotFound ==
  /\ At("template")
  /\ r.job.spec.templateRef /\ tmpl = Unset
  /\ SetDegraded(TRUE)
  /\ Return
  /\ UNCHANGED <<jcache, host, outside>>

SetProgressing ==
  /\ At("progressing")
  /\ WriteStatus([jcache EXCEPT !.progressing = TRUE])
  /\ Goto("release")
  /\ UNCHANGED <<jcache, host, outside, cut>>

-----------------------------------------------------------------------------
(* EnsureJail: release, datasets and root.                                 *)

(* What of a release is there: its dataset, a part of it, or all of it.  The  *)
(* file that marks it as extracted is in the part.                         *)
isExtracted(v) == zfs.releases[v] \in {"partial", "full"}

(* Variant: the jail's dataset is not ensured.                              *)
EnsureReleaseOnly ==
  /\ At("release")
  /\ zfs' = [zfs EXCEPT !.releases[r.spec.release] = IF isExtracted(r.spec.release) THEN @ ELSE "full"]
  /\ Goto("root")
  /\ UNCHANGED <<jobj, jcache, files, kernel, outside, cut>>

(* Ensure of the release manager, and of the jail's dataset.               *)
EnsureRelease ==
  /\ At("release")
  /\ zfs' = [zfs EXCEPT !.releases[r.spec.release] = IF isExtracted(r.spec.release) THEN @ ELSE "full",
                        !.dataset = TRUE]
  /\ Goto("root")
  /\ UNCHANGED <<jobj, jcache, files, kernel, outside, cut>>

(* jail -r releases the addresses of the jail.                              *)
Stopped ==
  IF kernel.jail = Unset THEN kernel
  ELSE [jail |-> Unset, aliases |-> kernel.aliases \ {kernel.jail.conf.inet}]

(* StopJail, whose error is ignored, and the removal of further addresses.  It *)
(* may fail when the jail runs, too, and then the jail keeps running.        *)
StopJail(inets) ==
  \/ /\ kernel' = [Stopped EXCEPT !.aliases = @ \ inets]
     /\ UNCHANGED <<cut, jfaults>>
  \/ /\ kernel.jail # Unset /\ jfaults < plan.faults /\ jfaults' = jfaults + 1
     /\ kernel' = [kernel EXCEPT !.aliases = @ \ inets]
     /\ cut' = TRUE

(* A root of another release is destroyed, with the snapshot it came from if *)
(* that works.                                                             *)
CheckRoot ==
  /\ At("root")
  /\ IF zfs.root # Unset /\ zfs.root.release # r.spec.release
     THEN /\ StopJail({})
          /\ \E snaps \in {zfs.snaps, zfs.snaps \ {zfs.root.release}} :
               zfs' = [zfs EXCEPT !.root = Unset, !.snaps = snaps]
          /\ Goto("snapshot")
     ELSE /\ Goto(IF zfs.root = Unset THEN "snapshot" ELSE "fstab")
          /\ UNCHANGED <<zfs, kernel, cut, jfaults>>
  /\ UNCHANGED <<jobj, jcache, files, others>>

Snapshot ==
  /\ At("snapshot")
  /\ zfs' = [zfs EXCEPT !.snaps = @ \cup {r.spec.release}]
  /\ Goto("clone")
  /\ UNCHANGED <<jobj, jcache, files, kernel, outside, cut>>

Clone ==
  /\ At("clone")
  /\ zfs' = [zfs EXCEPT !.root = [release |-> r.spec.release, pkg |-> FALSE, patched |-> FALSE]]
  /\ Goto("fstab")
  /\ UNCHANGED <<jobj, jcache, files, kernel, outside, cut>>

-----------------------------------------------------------------------------
(* EnsureJail: configuration.                                              *)

(* Without mounts an fstab of earlier is left behind.                       *)
writeFstab ==
  /\ At("fstab")
  /\ IF r.spec.mounts = {} THEN UNCHANGED files /\ Goto("conf")
     ELSE /\ files' = [files EXCEPT !.fstab = r.spec.mounts]
          /\ r' = [r EXCEPT !.at = "conf", !.changed = Changed(files.fstab, r.spec.mounts)]
  /\ UNCHANGED <<jobj, jcache, zfs, kernel, outside, cut>>

writeJailConf ==
  /\ At("conf")
  /\ files' = [files EXCEPT !.conf = JailConf(r.spec)]
  /\ r' = [r EXCEPT !.at = "pf", !.changed = @ \/ Changed(files.conf, JailConf(r.spec))]
  /\ UNCHANGED <<jobj, jcache, zfs, kernel, outside, cut>>

(* EnsureAnchor, when there are rules to load or to flush.                  *)
EnsureAnchor ==
  /\ At("pf")
  /\ files' = IF r.spec.pf = Unset THEN files
              ELSE [files EXCEPT !.anchor =
                      IF r.spec.pf.rules = <<>> THEN Unset
                      ELSE [name |-> jailAnchorName(Jailname, r.spec.pf), rules |-> r.spec.pf.rules]]
  /\ Goto("rc")
  /\ UNCHANGED <<jobj, jcache, zfs, kernel, outside, cut>>

ensureJailRCService ==
  /\ At("rc")
  /\ files' = [files EXCEPT !.rc = TRUE, !.enabled = TRUE]
  /\ Goto("stop")
  /\ UNCHANGED <<jobj, jcache, zfs, kernel, outside, cut>>

(* Variant: a change of the files does not stop the jail.                   *)
KeepRunning ==
  /\ At("stop")
  /\ r' = [r EXCEPT !.at = "cycle", !.changed = FALSE]
  /\ UNCHANGED <<jobj, jcache, host, outside, cut>>

StopForChange ==
  /\ At("stop")
  /\ IF r.changed THEN StopJail({}) ELSE UNCHANGED <<kernel, cut, jfaults>>
  /\ r' = [r EXCEPT !.at = "cycle", !.changed = FALSE]
  /\ UNCHANGED <<jobj, jcache, zfs, files, others>>

(* Variant: addresses left by a jail that died are not removed.             *)
CycleOnly ==
  /\ At("cycle")
  /\ kernel' = IF kernel.jail # Unset /\ kernel.jail.conf.inet # r.spec.inet
               THEN Stopped ELSE kernel
  /\ Goto("start")
  /\ UNCHANGED <<jobj, jcache, zfs, files, outside, cut>>

(* The jail is stopped if its address is not the one of the spec; unless it   *)
(* runs with that, the address of the spec is removed from the interface.   *)
cycleJailIfNetworkChanged ==
  /\ At("cycle")
  /\ IF \/ r.spec.inet = Unset
        \/ kernel.jail # Unset /\ kernel.jail.conf.inet = r.spec.inet
     THEN UNCHANGED <<kernel, cut, jfaults>>
     ELSE StopJail(IF r.spec.interface = Unset THEN {} ELSE {r.spec.inet})
  /\ Goto("start")
  /\ UNCHANGED <<jobj, jcache, zfs, files, others>>

-----------------------------------------------------------------------------
(* Reconcile, after EnsureJail.                                            *)

(* jail -c reads the files; it fails while the interface has the address.    *)
CanStart ==
  /\ files.conf # Unset /\ kernel.jail = Unset
  /\ files.conf.inet = Unset \/ files.conf.inet \notin kernel.aliases

Started ==
  [jail |-> [conf |-> files.conf, fstab |-> IF files.conf.fstab THEN files.fstab ELSE Unset],
   aliases |-> kernel.aliases \cup ({files.conf.inet} \ {Unset})]

(* IsRunning, and StartJail if it is not.                                   *)
StartJail ==
  /\ At("start")
  /\ \/ kernel.jail # Unset /\ UNCHANGED <<kernel, cut>>
     \/ CanStart /\ kernel' = Started /\ cut' = FALSE
  /\ Goto("bootstrap")
  /\ UNCHANGED <<jobj, jcache, zfs, files, outside>>

StartFails ==
  /\ At("start") /\ kernel.jail = Unset /\ ~CanStart
  /\ SetDegraded(FALSE)
  /\ Return
  /\ UNCHANGED <<jcache, host, outside>>

(* The state is queried again, and pkg is bootstrapped in a running jail.    *)
BootstrapPkg ==
  /\ At("bootstrap")
  /\ r' = [r EXCEPT !.up = kernel.jail # Unset,
             !.at = IF r.hooks /\ kernel.jail # Unset /\ ~r.job.post THEN "hooks" ELSE "status"]
  /\ zfs' = [zfs EXCEPT !.root.pkg = @ \/ kernel.jail # Unset]
  /\ UNCHANGED <<jobj, jcache, files, kernel, outside, cut>>

(* A hook fails, if only because the jail has died.                         *)
PostCreateFails ==
  /\ At("hooks") /\ kernel.jail = Unset
  /\ SetDegraded(TRUE)
  /\ Return
  /\ UNCHANGED <<jcache, host, outside>>

(* The postCreate hooks of the template run, then PostCreateDone is set.     *)
PostCreate ==
  /\ At("hooks") /\ kernel.jail # Unset
  /\ WriteStatus([jcache EXCEPT !.post = TRUE])
  /\ Goto("status")
  /\ UNCHANGED <<jcache, host, outside, cut>>

(* The conditions are set from the state queried before.                    *)
SetStatus ==
  /\ At("status")
  /\ WriteStatus([jcache EXCEPT !.progressing = FALSE, !.avail = r.up, !.degraded = ~r.up,
                    !.release = zfs.root.release])
  /\ Goto("update")
  /\ UNCHANGED <<jcache, host, outside, cut>>

(* handleUpdate reads the schedule of the jail, not the merged one.  A lock   *)
(* left from the last update is released first; an update happens when one   *)
(* is due and the group's lock is free.                                    *)
NoUpdate ==
  /\ At("update")
  /\ lock' = IF r.job.spec.update.group # Unset /\ lock = "mine" THEN "free" ELSE lock
  /\ Return
  /\ UNCHANGED <<jobj, jcache, host, plan, tmpl, jedits, jfaults>>

LockUpdate ==
  /\ At("update") /\ r.job.spec.update.schedule # Unset /\ ~r.job.updated
  /\ IF r.job.spec.update.group = Unset THEN UNCHANGED lock
     ELSE lock = "free" /\ lock' = "mine"
  /\ Goto("update stop")
  /\ UNCHANGED <<jobj, jcache, host, plan, tmpl, jedits, jfaults, cut>>

StopForUpdate ==
  /\ At("update stop")
  /\ kernel' = Stopped
  /\ IF kernel.jail = Unset THEN Return ELSE Goto("freebsd-update") /\ UNCHANGED cut
  /\ UNCHANGED <<jobj, jcache, zfs, files, outside>>

UpdateJail ==
  /\ At("freebsd-update")
  /\ zfs' = [zfs EXCEPT !.root.patched = TRUE]
  /\ r' = [r EXCEPT !.at = "update start", !.up = TRUE]
  /\ UNCHANGED <<jobj, jcache, files, kernel, outside, cut>>

(* A jail that does not start again after the update is only logged; an      *)
(* update that failed is not recorded.                                     *)
StartAfterUpdate ==
  /\ At("update start")
  /\ IF CanStart THEN kernel' = Started /\ cut' = FALSE ELSE UNCHANGED <<kernel, cut>>
  /\ r' = IF r.up THEN [r EXCEPT !.at = "updated"] ELSE Idle
  /\ UNCHANGED <<jobj, jcache, zfs, files, outside>>

RecordUpdate ==
  /\ At("updated")
  /\ WriteStatus([jcache EXCEPT !.updated = TRUE])
  /\ Return
  /\ UNCHANGED <<jcache, host, outside>>

-----------------------------------------------------------------------------
(* Deletion.                                                               *)

DeletionProtected ==
  /\ At("protection") /\ r.job.spec.protected
  /\ SetDegraded(TRUE)
  /\ Return
  /\ UNCHANGED <<jcache, host, outside>>

(* Variant: the jail is not stopped before it is torn down.                 *)
DeleteUnstopped ==
  /\ At("protection") /\ ~r.job.spec.protected
  /\ Goto("remove rc")
  /\ UNCHANGED <<jobj, jcache, host, outside, cut>>

(* DeleteJail: stop the jail, remove its addresses, flush its anchor.  It is  *)
(* given the jail, not the merged one.                                     *)
DeleteStop ==
  /\ At("protection") /\ ~r.job.spec.protected
  /\ StopJail(IF r.job.spec.interface = Unset THEN {} ELSE {r.job.spec.inet})
  /\ files' = IF /\ files.anchor # Unset
                 /\ files.anchor.name = jailAnchorName(Jailname, r.job.spec.pf)
              THEN [files EXCEPT !.anchor = Unset] ELSE files
  /\ Goto("remove rc")
  /\ UNCHANGED <<jobj, jcache, zfs, others>>

(* Variant: nothing is removed but the object's finalizer.                  *)
ForgetJail ==
  /\ At("remove rc")
  /\ Goto("destroy")
  /\ UNCHANGED <<jobj, jcache, host, outside, cut>>

removeJailRCService ==
  /\ At("remove rc")
  /\ files' = [files EXCEPT !.rc = FALSE, !.enabled = FALSE]
  /\ Goto("remove conf")
  /\ UNCHANGED <<jobj, jcache, zfs, kernel, outside, cut>>

removeJailConf ==
  /\ At("remove conf")
  /\ files' = [files EXCEPT !.conf = Unset]
  /\ Goto("remove fstab")
  /\ UNCHANGED <<jobj, jcache, zfs, kernel, outside, cut>>

removeFstab ==
  /\ At("remove fstab")
  /\ files' = [files EXCEPT !.fstab = Unset]
  /\ Goto("destroy")
  /\ UNCHANGED <<jobj, jcache, zfs, kernel, outside, cut>>

DestroyDatasets ==
  /\ At("destroy")
  /\ zfs' = [zfs EXCEPT !.dataset = FALSE, !.root = Unset]
  /\ Goto("destroy snapshot")
  /\ UNCHANGED <<jobj, jcache, files, kernel, outside, cut>>

(* Only the snapshot of the release in the spec is removed.                 *)
DestroySnapshot ==
  /\ At("destroy snapshot")
  /\ zfs' = [zfs EXCEPT !.snaps = @ \ {r.job.spec.release}]
  /\ Goto("unfinalize")
  /\ UNCHANGED <<jobj, jcache, files, kernel, outside, cut>>

RemoveFinalizer ==
  /\ At("unfinalize")
  /\ WriteObject([r.job EXCEPT !.fin = FALSE])
  /\ Return
  /\ UNCHANGED <<jcache, host, outside>>

-----------------------------------------------------------------------------
(* What else happens.                                                      *)

(* A write conflicts: the cache lags, or the copy is not current any more.   *)
JConflict ==
  /\ \/ r.at \in StatusWrites \ {"updated"} /\ jcache # jobj
     \/ r.at \in ObjectWrites /\ r.job # jobj
  /\ Return
  /\ UNCHANGED <<jobj, jcache, host, outside>>

Fault == jfaults < plan.faults /\ jfaults' = jfaults + 1 /\ UNCHANGED <<plan, tmpl, lock, jedits>>

(* A release may be extracted in part when tar or the agent ends early.       *)
Interrupted ==
  zfs' \in IF At("release") /\ ~isExtracted(r.spec.release)
           THEN {zfs, [zfs EXCEPT !.releases[r.spec.release] = "partial"]} ELSE {zfs}

(* A command of EnsureJail, of DeleteJail or in the jail fails.             *)
EnsureFails ==
  /\ r.at \in EnsureSteps \ {"stop"} /\ Fault
  /\ Interrupted
  /\ SetDegraded(FALSE)
  /\ Return
  /\ UNCHANGED <<jcache, files, kernel>>

CommandFails ==
  /\ r.at \in DeleteSteps \cup {"bootstrap", "hooks"} /\ Fault
  /\ SetDegraded(TRUE)
  /\ Return
  /\ UNCHANGED <<jcache, host>>

(* A jail that cannot be stopped is not updated, and keeps the lock; one that  *)
(* cannot be updated is started again.                                     *)
UpdateFails ==
  /\ Fault
  /\ \/ At("update stop") /\ r' = Idle
     \/ At("freebsd-update") /\ r' = [r EXCEPT !.at = "update start", !.up = FALSE]
  /\ UNCHANGED <<jobj, jcache, host, cut>>

(* The update is not recorded: the cache lags since before it began.         *)
RecordFails ==
  /\ At("updated") /\ jcache # jobj /\ Fault
  /\ Return
  /\ UNCHANGED <<jobj, jcache, host>>

(* The agent crashes; it starts with a fresh cache.                         *)
JCrash ==
  /\ r # Idle /\ Fault
  /\ Interrupted
  /\ Return
  /\ jcache' = jobj
  /\ UNCHANGED <<jobj, files, kernel>>

(* The host reboots, and rc.d starts the jail.                              *)
HostReboots ==
  /\ Fault
  /\ kernel' = IF files.rc /\ files.enabled /\ files.conf # Unset /\ zfs.root # Unset
               THEN [Started EXCEPT !.aliases = {files.conf.inet} \ {Unset}]
               ELSE [jail |-> Unset, aliases |-> {}]
  /\ Interrupted
  /\ r' = Idle /\ cut' = FALSE
  /\ jcache' = jobj
  /\ UNCHANGED <<jobj, files>>

(* The jail dies, and its address stays on the interface.                   *)
JailDies ==
  /\ kernel.jail # Unset /\ Fault
  /\ kernel' = [kernel EXCEPT !.jail = Unset]
  /\ UNCHANGED <<jobj, jcache, zfs, files, r, cut>>

JCacheSync ==
  /\ jcache # jobj /\ jcache' = jobj
  /\ UNCHANGED <<jobj, host, outside, r, cut>>

(* Another member of the group takes and releases the lock, or this one's     *)
(* lease runs out.                                                         *)
OtherMember ==
  /\ plan.first # NoJail /\ plan.first.update.group # Unset
  /\ lock' \in (IF lock = "free" THEN {"other"} ELSE {"free"})
  /\ UNCHANGED <<jobj, jcache, host, r, cut, plan, tmpl, jedits, jfaults>>

JEdit == jedits < JailEdits /\ jedits' = jedits + 1

(* The operator creates, edits or deletes the jail, or edits the template.   *)
EditJail ==
  /\ JEdit
  /\ \E spec \in plan.specs :
       jobj' = IF jobj = NoJail THEN NewJail(spec) ELSE [jobj EXCEPT !.spec = spec]
  /\ UNCHANGED <<jcache, host, r, cut, plan, tmpl, lock, jfaults>>

DeleteJail ==
  /\ JEdit /\ jobj # NoJail /\ ~jobj.deleting
  /\ jobj' = IF jobj.fin THEN [jobj EXCEPT !.deleting = TRUE] ELSE NoJail
  /\ UNCHANGED <<jcache, host, r, cut, plan, tmpl, lock, jfaults>>

EditTemplate ==
  /\ JEdit
  /\ tmpl' \in plan.templates \ {tmpl}
  /\ UNCHANGED <<jobj, jcache, host, r, cut, plan, lock, jfaults>>

JProceed ==
  \/ Reconcile \/ AddFinalizer \/ ResolveTemplate \/ TemplateNotFound \/ SetProgressing
  \/ EnsureRelease \/ CheckRoot \/ Snapshot \/ Clone
  \/ writeFstab \/ writeJailConf \/ EnsureAnchor \/ ensureJailRCService
  \/ StopForChange \/ cycleJailIfNetworkChanged
  \/ StartJail \/ StartFails \/ BootstrapPkg \/ PostCreate \/ PostCreateFails \/ SetStatus
  \/ NoUpdate \/ LockUpdate \/ StopForUpdate \/ UpdateJail \/ StartAfterUpdate \/ RecordUpdate
  \/ DeletionProtected \/ DeleteStop \/ removeJailRCService \/ removeJailConf \/ removeFstab
  \/ DestroyDatasets \/ DestroySnapshot \/ RemoveFinalizer
  \/ JConflict

JNext ==
  \/ JProceed
  \/ EnsureFails \/ CommandFails \/ UpdateFails \/ RecordFails \/ JCrash \/ HostReboots \/ JailDies
  \/ JCacheSync \/ OtherMember \/ EditJail \/ DeleteJail \/ EditTemplate

JSpec == JInit /\ [][JNext]_jvars

(* Failed reconciles are requeued, and the resync brings every jail back.    *)
JFairness == WF_jvars(JProceed) /\ WF_jvars(JCacheSync)

-----------------------------------------------------------------------------
(* The type of the state, and what is built on what: a root is a clone of a   *)
(* snapshot of an extracted release, in the jail's dataset.                 *)
JailTypeOK ==
  /\ jobj # NoJail => (jobj.deleting => jobj.fin)
  /\ zfs.releases \in [Release -> {"none", "partial", "full"}]
  /\ zfs.snaps \subseteq {v \in Release : isExtracted(v)}
  /\ zfs.root # Unset => zfs.dataset /\ zfs.root.release \in zfs.snaps
  /\ files.rc \in BOOLEAN /\ files.enabled \in BOOLEAN
  /\ lock \in {"free", "mine", "other"}
  /\ r.at \in EnsureSteps \cup DeleteSteps \cup StatusWrites \cup ObjectWrites \cup OtherSteps
  /\ r.at = "idle" <=> r = Idle
  /\ r.changed => r.at \in BeforeStop
  /\ jedits \in 0..JailEdits /\ jfaults \in 0..plan.faults

(* The running jail was started from what the spec of this reconcile asks.   *)
AsAsked ==
  /\ kernel.jail.conf = JailConf(r.spec)
  /\ r.spec.mounts # {} => kernel.jail.fstab = r.spec.mounts
  /\ zfs.root.release = r.spec.release

(***************************************************************************)
(* When the reconciler reports a jail as available that still runs, the jail *)
(* runs with the configuration, mounts and release it was asked for, unless   *)
(* the jail was not stopped when it had to be: jail -r failed, or an earlier  *)
(* reconcile ended after it wrote jail.conf or fstab and before the stop,     *)
(* which is decided by a comparison with the files.                        *)
(***************************************************************************)
StaleOnlyIfCut ==
  At("status") /\ r.up /\ kernel.jail # Unset => AsAsked \/ cut

(***************************************************************************)
(* When the reconciler reports a jail as available, it runs with the          *)
(* configuration it was asked for: "Stop the jail when jail.conf or fstab     *)
(* changed so the controller restarts it with the new configuration."       *)
(***************************************************************************)
AvailableIsCurrent ==
  At("status") /\ r.up /\ kernel.jail # Unset => AsAsked

(***************************************************************************)
(* A jail never runs without a root: reprovisioning and deletion stop it      *)
(* before they destroy its datasets, and a reboot half way through does not   *)
(* bring it back.  A jail that jail -r fails to stop is the exception: its    *)
(* datasets are destroyed by force.                                        *)
(***************************************************************************)
NeverRootless == kernel.jail # Unset => zfs.root # Unset \/ cut

(* Nothing of the jail is left that would start or hold it; it runs on only    *)
(* if jail -r failed.                                                      *)
TornDown ==
  /\ kernel.jail = Unset \/ cut
  /\ files.conf = Unset /\ files.fstab = Unset /\ ~files.rc
  /\ ~zfs.dataset /\ zfs.root = Unset

(***************************************************************************)
(* The object of a jail that the finalizer protects disappears only when     *)
(* everything the reconciler made for it is gone, whatever failed, crashed    *)
(* or rebooted during the deletion.                                        *)
(***************************************************************************)
FinalizerHolds == [][jobj # NoJail /\ jobj' = NoJail => TornDown]_jvars

(***************************************************************************)
(* Provisioning stops a running jail only if it does not run as this          *)
(* reconcile asks: every resync goes through EnsureJail, and a jail that is   *)
(* as it should be is not restarted by it, whatever earlier reconciles left   *)
(* half done.  Again a lost stop is the exception: the spec may be edited     *)
(* back before the next one.                                               *)
(***************************************************************************)
StoppedOnlyIfDifferent ==
  [][r.at \in EnsureSteps /\ jfaults' = jfaults /\ kernel.jail # Unset /\ kernel'.jail = Unset
       => cut \/ ~AsAsked]_jvars

JailSettled ==
  IF jobj = NoJail THEN TornDown
  ELSE \/ jobj.deleting /\ jobj.spec.protected
       \/ ~jobj.deleting /\ jobj.spec.templateRef /\ tmpl = Unset
       \/ /\ ~jobj.deleting
          /\ jobj.avail /\ ~jobj.degraded
          /\ kernel.jail # Unset /\ zfs.root # Unset
          /\ jobj.release = jobj.spec.release /\ zfs.root.release = jobj.spec.release
          /\ files.conf = JailConf(IF jobj.spec.templateRef
                                   THEN MergeTemplateDefaults(jobj.spec, tmpl) ELSE jobj.spec)

(***************************************************************************)
(* Once the operator and the faults stop, the jail ends up running on the     *)
(* release of its spec and reported as available, or torn down if it was      *)
(* deleted; it waits only for its template or for deletionProtection.        *)
(***************************************************************************)
JailConverges == <>[]JailSettled
=============================================================================
