------------------------------ MODULE ConfigSet ------------------------------
(***************************************************************************)
(* The ConfigSet reconciler of one host: which ConfigSets apply, whether     *)
(* they conflict, and the packages, files, services and executions it       *)
(* applies, with the status it reports                                      *)
(* (internal/controller/common/configset_controller.go).                    *)
(*                                                                         *)
(* One reconcile runs at a time (MaxConcurrentReconciles is 1); the garbage  *)
(* collection of the file bucket runs beside it.  Between any two steps the *)
(* API objects may be edited, the process may die, and outsiders may touch  *)
(* the host.  spec is what the informer cache holds.  A step that meets an  *)
(* error of the system underneath is a fault.                               *)
(*                                                                         *)
(* A subscriber is a service or an execution; used[s] is what its subscribed *)
(* files held when it was last started, restarted or run.  lost has the      *)
(* subscribers that were not told of a change, because of a fault or because  *)
(* a ConfigSet made it that does not declare the subscription: the           *)
(* reconciler does not know of it, only the properties do.                  *)
(***************************************************************************)
EXTENDS HostFiles, Labels, Sequences, Functions

CONSTANTS
  Name,          \* names of ConfigSets
  Menu,          \* scenarios: what each ConfigSet may be, the host at first, and
                 \* how many faults occur
  Path,          \* the paths of the host that matter
  Parent,        \* the directory of a path, or the path itself at the top
  RcConf,        \* the path of a service's file in /etc/rc.conf.d
  NodeLabels,    \* the labels of the host's ManagedNode
  Package,       \* names of packages
  Service,       \* names of services
  Exec,          \* the executions
  Target,        \* the resources that ConfigSets notify
  Data,          \* contents of files
  Junk,          \* what outsiders write into files
  Secret,        \* the contents a Secret may hold
  Deleted,       \* the spec of a ConfigSet that does not exist
  Down,          \* used[s] of a service that does not run
  NoEntry,       \* status[c] of a ConfigSet without an entry
  EditBound      \* how many times API objects and the host are touched

VARIABLES
  menu,      \* the scenario, chosen at first
  spec,      \* each ConfigSet
  gen,       \* its metadata.generation, 0 when it does not exist
  told,      \* the annotations nodemanager.io/notify-<name> of each target, 0 when unset
  secret,    \* the content of the Secret, "" when it is missing
  disk,      \* what each path holds
  pkgs,      \* the version of each package, "" when it is not installed
  enabled,   \* the services started at boot
  used,      \* what each subscriber has read
  bucket,    \* the state of the blob of each content
  status,    \* status.configsets of the ManagedNode
  backups,   \* status.fileBackups of the ManagedNode, "" when there is none
  cond,      \* the Conflicted condition of each ConfigSet
  run,       \* the reconcile in progress
  edits,     \* edits so far
  faults,    \* faults so far
  lost       \* the subscribers that missed a change

objects  == <<spec, gen, told, secret, cond>>
host     == <<disk, pkgs, enabled, used, bucket>>
reported == <<status, backups>>
history  == <<edits, faults, lost>>
vars     == <<menu, objects, host, reported, run, history>>

Subscriber == Service \cup Exec

(* The ConfigSets of a scenario, and the texts that occur in them and on the   *)
(* host at first.                                                          *)
ConfigSets(m) == (UNION {m.specs[c] : c \in Name}) \ {Deleted}

Entries == UNION {UNION {Range(s.files) : s \in ConfigSets(m)} : m \in Menu}

Text ==
  {"", "root", "0644", "0660"} \cup Data
    \cup (UNION {{f.owner, f.mode, f.target} : f \in Entries})
    \cup (UNION {UNION {{m.disk[p].data, m.disk[p].owner, m.disk[p].mode} : p \in Path} : m \in Menu})

(* What a path may hold: a file has a content, a link a target.              *)
Held ==
  {d \in [kind : {"none", "file", "directory", "symlink"}, data : Text, owner : Text, mode : Text] :
     /\ d.kind = "file" => d.data \in Data \cup {""}
     /\ d.kind \in {"none", "directory"} => d.data = ""}

(* The lists of a ConfigSet (api/common/v1/configset_types.go), as far as they *)
(* matter here.                                                            *)
IsConfigSet(s) ==
  /\ \A list \in {s.files, s.svcs, s.pkgs, s.execs} : list \in Seq(Range(list))
  /\ \A f \in Range(s.files) : f.path \in Path /\ f.content \in Data \cup {""}
  /\ \A v \in Range(s.svcs) : v.name \in Service /\ v.subs \subseteq Path
  /\ \A e \in Range(s.execs) : e.name \in Exec /\ e.subs \subseteq Path
  /\ s.notifies \subseteq Target

(* What runs has read its files as they are, which is so at first.            *)
AsRead(u, d) ==
  /\ u = [s \in Subscriber |-> u[s]]
  /\ \A s \in Subscriber : u[s] # Down =>
       /\ \E ps \in SUBSET Path : u[s] \in [ps -> Text]
       /\ \A p \in DOMAIN u[s] : u[s][p] = d[p].data

ASSUME ConfigSetAssumption ==
  /\ EditBound \in Nat
  /\ Junk \in Data /\ Secret \subseteq Data
  /\ \A m \in Menu :
       /\ m.faults \in Nat
       /\ \A s \in ConfigSets(m) : IsConfigSet(s)
       /\ m.secret \subseteq Secret \cup {""}
       /\ m.disk \in [Path -> Held]
       /\ AsRead(m.used, m.disk)

(***************************************************************************)
(* The running reconcile: the step it is at, its ConfigSet, the spec and    *)
(* the generation it read, the next item of that step, the changed files,   *)
(* the backups to record, the services to restart and whether there was an  *)
(* error.                                                                   *)
(***************************************************************************)
Idle == [at |-> "idle", name |-> "", cs |-> Deleted, gen |-> 0, i |-> 1, changed |-> {},
         saved |-> {}, todo |-> {}, err |-> FALSE]

Steps == {"idle", "detect", "packages", "files", "services", "restarts",
          "executions", "backups", "status", "notify"}

Entry(s, result) == [spec |-> s, result |-> result]

TypeOK ==
  /\ menu \in Menu
  /\ \A c \in Name : spec[c] \in menu.specs[c] /\ (gen[c] = 0 <=> spec[c] = Deleted)
  /\ told \in [Target -> [Name -> 0..(EditBound + 1)]]
  /\ secret \in Secret \cup {""}
  /\ \A p \in Path : /\ disk[p].kind \in {"none", "file", "directory", "symlink"}
                     /\ disk[p].kind \in {"none", "directory"} => disk[p].data = ""
  /\ enabled \subseteq Service
  /\ \A s \in Subscriber : used[s] = Down \/ DOMAIN used[s] \subseteq Path
  /\ bucket \in [Data \cup {""} -> BlobState]
  /\ \A c \in Name : status[c] # NoEntry =>
        status[c].spec # Deleted /\ status[c].result \in {"ok", "error", "conflict"}
  /\ backups \in [Path -> Data \cup {""}]
  /\ cond \in [Name -> {"unset", "true", "false"}]
  /\ run.at \in Steps
  /\ run.at = "idle" <=> run = Idle
  /\ run.todo \subseteq Service
  /\ edits \in 0..EditBound
  /\ faults \in 0..menu.faults
  /\ lost \subseteq Subscriber

Init ==
  /\ menu \in Menu
  /\ spec \in [Name -> UNION {menu.specs[c] : c \in Name}]
  /\ \A c \in Name : spec[c] \in menu.specs[c]
  /\ gen = [c \in Name |-> IF spec[c] = Deleted THEN 0 ELSE 1]
  /\ told = [t \in Target |-> [c \in Name |-> 0]]
  /\ secret \in menu.secret
  /\ disk = menu.disk
  /\ pkgs = menu.pkgs
  /\ enabled = {}
  /\ used = menu.used
  /\ bucket = [d \in Data \cup {""} |-> "none"]
  /\ status = [c \in Name |-> NoEntry]
  /\ backups = [p \in Path |-> ""]
  /\ cond = [c \in Name |-> "unset"]
  /\ run = Idle
  /\ edits = 0 /\ faults = 0 /\ lost = {}

Fault(b) ==
  /\ b => faults < menu.faults
  /\ faults' = IF b THEN faults + 1 ELSE faults

Applies(s) == s # Deleted /\ MatchAllLabels(NodeLabels, s.labels)

(* The subscribers of a ConfigSet that a change of one of the paths concerns: *)
(* every execution, but only services that are to be running.              *)
Concerned(cs, paths) ==
  {s \in Range(cs.svcs) : s.ensure = "running" /\ s.subs \cap paths # {}}
    \cup {e \in Range(cs.execs) : e.subs \cap paths # {}}

Names(subscribers) == {s.name : s \in subscribers}

(* What a subscriber finds in its files, given what the paths hold.        *)
Reads(s, d) == [p \in s.subs |-> d[p].data]

-----------------------------------------------------------------------------
(***************************************************************************)
(* The order of a reconcile: packages, files, services, restarts,           *)
(* executions, backups, status.  Every step is tried whatever the earlier    *)
(* ones reported; a step with nothing to do is passed over.                 *)
(***************************************************************************)
DueServices(r) == {s.name : s \in {s \in Range(r.cs.svcs) :
                                     s.ensure = "running" /\ s.subs \cap r.changed # {}}}

DueExecs(r) == {e \in Range(r.cs.execs) : e.subs \cap r.changed # {}}

ToStatus(r) == [r EXCEPT !.at = "status", !.i = 1, !.changed = {}, !.saved = {}]

ToBackups(r) ==
  IF r.saved = {} THEN ToStatus(r) ELSE [r EXCEPT !.at = "backups", !.i = 1]

ToExecutions(r) ==
  IF DueExecs(r) = {} THEN ToBackups(r) ELSE [r EXCEPT !.at = "executions", !.i = 1]

ToRestarts(r) ==
  IF r.todo = {} THEN ToExecutions(r) ELSE [r EXCEPT !.at = "restarts", !.i = 1]

ToServices(r) ==
  IF r.cs.svcs = <<>> THEN ToExecutions(r)
  ELSE [r EXCEPT !.at = "services", !.i = 1, !.todo = DueServices(r)]

ToFiles(r) ==
  IF r.cs.files = <<>> THEN ToServices(r) ELSE [r EXCEPT !.at = "files", !.i = 1]

ToPackages(r) == [r EXCEPT !.at = "packages", !.i = 1]

AfterItem(r, items, next) ==
  IF r.i < Len(items) THEN [r EXCEPT !.i = @ + 1] ELSE next

-----------------------------------------------------------------------------
(* Which ConfigSets apply, and which overlap.                              *)

(* A ConfigSet that is gone or does not match loses its status entry.       *)
Reconcile(c) ==
  /\ run = Idle
  /\ IF Applies(spec[c])
     THEN /\ run' = [Idle EXCEPT !.at = "detect", !.name = c, !.cs = spec[c], !.gen = gen[c]]
          /\ UNCHANGED status
     ELSE /\ status' = [status EXCEPT ![c] = NoEntry]
          /\ UNCHANGED run
  /\ UNCHANGED <<menu, objects, host, backups, history>>

Overlap(s, t) ==
  \/ {f.path : f \in Range(s.files)} \cap {f.path : f \in Range(t.files)} # {}
  \/ {v.name : v \in Range(s.svcs)} \cap {v.name : v \in Range(t.svcs)} # {}
  \/ {k.name : k \in Range(s.pkgs)} \cap {k.name : k \in Range(t.pkgs)} # {}

(* Another ConfigSet that applies to this node claims something s claims.   *)
detectConflicts(c, s) ==
  \E d \in Name \ {c} : Applies(spec[d]) /\ Overlap(s, spec[d])

(* The condition is that of the ConfigSet as it is now, if it still exists.   *)
updateConfigSetCondition(c, conflict) ==
  cond' = IF spec[c] = Deleted THEN cond
          ELSE [cond EXCEPT ![c] = IF conflict THEN "true" ELSE "false"]

(* Variant: a ConfigSet is compared with itself too.                        *)
DetectItself ==
  /\ run.at = "detect"
  /\ run' = Idle
  /\ status' = [status EXCEPT ![run.name] = Entry(run.cs, "conflict")]
  /\ updateConfigSetCondition(run.name, TRUE)
  /\ UNCHANGED <<menu, spec, gen, told, secret, host, backups, edits, faults, lost>>

(* A conflict is recorded with the node and the ConfigSet, and nothing is    *)
(* applied.  failed has the writes that do not succeed; they are logged.    *)
Detect ==
  /\ run.at = "detect"
  /\ \E failed \in SUBSET {"status", "condition"} :
       LET conflict == detectConflicts(run.name, run.cs)
       IN  /\ Fault(failed # {})
           /\ run' = IF conflict THEN Idle ELSE ToPackages(run)
           /\ status' = IF conflict /\ "status" \notin failed
                        THEN [status EXCEPT ![run.name] = Entry(run.cs, "conflict")]
                        ELSE status
           /\ IF "condition" \in failed THEN UNCHANGED cond
              ELSE updateConfigSetCondition(run.name, conflict)
  /\ UNCHANGED <<menu, spec, gen, told, secret, host, backups, edits, lost>>

(* A Get or List of an API object fails before anything is applied.         *)
GiveUp ==
  /\ run.at = "detect"
  /\ Fault(TRUE)
  /\ run' = Idle
  /\ UNCHANGED <<menu, objects, host, reported, edits, lost>>

-----------------------------------------------------------------------------
(* Packages.                                                               *)

PackageEnsureFromString(ensure) ==
  IF ensure \in {"installed", "absent"} THEN ensure ELSE "unhandled"

(* The version a package has when it has been handled without a fault.      *)
Wanted(pkg, version) ==
  CASE PackageEnsureFromString(pkg.ensure) = "installed" ->
         IF version = "" \/ (pkg.version # "" /\ version # pkg.version)
         THEN IF pkg.version = "" THEN "latest" ELSE pkg.version
         ELSE version
    [] PackageEnsureFromString(pkg.ensure) = "absent" -> ""
    [] OTHER -> version

HandlePackage ==
  /\ run.at = "packages" /\ run.cs.pkgs # <<>>
  /\ \E fails \in BOOLEAN :
       LET pkg == run.cs.pkgs[run.i]
           err == fails \/ PackageEnsureFromString(pkg.ensure) = "unhandled"
       IN  /\ fails => Wanted(pkg, pkgs[pkg.name]) # pkgs[pkg.name]
           /\ Fault(fails)
           /\ pkgs' = IF fails THEN pkgs
                      ELSE [pkgs EXCEPT ![pkg.name] = Wanted(pkg, @)]
           /\ LET r == [run EXCEPT !.err = @ \/ err]
              IN  run' = AfterItem(r, r.cs.pkgs, ToFiles(r))
  /\ UNCHANGED <<menu, objects, disk, enabled, used, bucket, reported, edits, lost>>

NoPackages ==
  /\ run.at = "packages" /\ run.cs.pkgs = <<>>
  /\ run' = ToFiles(run)
  /\ UNCHANGED <<menu, objects, host, reported, history>>

(* The installed packages cannot be listed: none is handled.               *)
ListPackagesFails ==
  /\ run.at = "packages" /\ run.i = 1
  /\ Fault(TRUE)
  /\ run' = ToFiles([run EXCEPT !.err = TRUE])
  /\ UNCHANGED <<menu, objects, host, reported, edits, lost>>

-----------------------------------------------------------------------------
(* Files.                                                                  *)

(* The subscribers that nobody tells of a change: an error hides it, or they  *)
(* subscribe in another ConfigSet than the one that makes it.               *)
Missing(newDisk, ch, err) ==
  {s \in Subscriber : used[s] # Down /\ \E p \in DOMAIN used[s] :
     /\ newDisk[p].data \notin {disk[p].data, used[s][p]}
     /\ (err /\ p \notin ch) \/ s \notin Names(Concerned(run.cs, {p}))}

(* The item is finished: newDisk is what the paths hold, ch the paths the    *)
(* code counts as changed, saved the backups to record.                     *)
FileDone(newDisk, ch, saved, err) ==
  /\ disk' = newDisk
  /\ lost' = lost \cup Missing(newDisk, ch, err)
  /\ LET r == [run EXCEPT !.changed = @ \cup ch, !.saved = @ \cup saved, !.err = @ \/ err]
     IN  run' = AfterItem(r, r.cs.files, ToServices(r))

file == run.cs.files[run.i]

AtFile(ensure) ==
  /\ run.at = "files"
  /\ FileEnsureFromString(file.ensure) = ensure

(* collectData and buildTemplate: the template of a file with a reference    *)
(* renders to what the Secret holds.                                       *)
Content(f) == IF f.ref THEN secret ELSE f.content

Unrenderable(f) == f.ref /\ secret = ""

(* Nothing is written for an empty content, nor over an existing file that   *)
(* is only to be created.                                                  *)
LeavesAlone(f) ==
  \/ Unrenderable(f)
  \/ Content(f) = ""
  \/ f.createOnly /\ disk[f.path].kind # "none"

SkipFile ==
  /\ AtFile("file")
  /\ LeavesAlone(file)
  /\ FileDone(disk, {}, {}, Unrenderable(file))
  /\ UNCHANGED <<menu, objects, pkgs, enabled, used, bucket, reported, edits, faults>>

RenderFails ==
  /\ AtFile("file") /\ file.ref
  /\ Fault(TRUE)
  /\ FileDone(disk, {}, {}, TRUE)
  /\ UNCHANGED <<menu, objects, pkgs, enabled, used, bucket, reported, edits>>

(* The backup writeFileContent makes of what the path holds, if the bucket   *)
(* is enabled; a backup that fails is only logged.                         *)
Backup(old) ==
  IF menu.bucket /\ old.kind = "file" THEN SaveToFileBucket(bucket[old.data])
  ELSE {[blob |-> bucket[old.data], ok |-> FALSE, fault |-> FALSE]}

Creatable(p) == Parent[p] = p \/ disk[Parent[p]].kind = "directory"

(* Variant: changes of the content are not counted.                        *)
UncountedChanges(o) == {}

(* A file whose write failed is not counted as changed.                    *)
Counted(o) == IF o.changed /\ ~o.err THEN {file.path} ELSE {}

writeFileContent ==
  /\ AtFile("file")
  /\ ~LeavesAlone(file)
  /\ LET old == disk[file.path]
     IN  \E b \in Backup(old), o \in WriteFile(file, Content(file), old, Creatable(file.path)) :
           /\ Fault(b.fault \/ o.fault)
           /\ bucket' = IF old.kind = "file" THEN [bucket EXCEPT ![old.data] = b.blob] ELSE bucket
           /\ FileDone([disk EXCEPT ![file.path] = o.at], Counted(o),
                       IF b.ok /\ ~o.err THEN {[path |-> file.path, hash |-> old.data]} ELSE {},
                       o.err)
  /\ UNCHANGED <<menu, objects, pkgs, enabled, used, reported, edits>>

(* The paths in a directory that some ConfigSet that applies declares.      *)
managedPathsUnder(dir) ==
  {p \in Path : Parent[p] = dir /\
     \E c \in Name : Applies(spec[c]) /\ p \in {f.path : f \in Range(spec[c].files)}}

(* Directory entries that are no directories and not managed.              *)
Purged(dir, managed) ==
  {p \in Path : /\ Parent[p] = dir /\ p # dir
                /\ disk[p].kind \in {"file", "symlink"}
                /\ p \notin managed}

(* stuck has the entries that cannot be removed, unlisted says that the      *)
(* ConfigSets cannot be listed: then no path counts as managed.            *)
HandleDirectory ==
  /\ AtFile("directory")
  /\ \E o \in EnsureDirectory(file, disk[file.path]), unlisted \in BOOLEAN :
       LET purges == file.purge /\ ~o.err /\ o.at.kind = "directory"
           managed == IF unlisted THEN {} ELSE managedPathsUnder(file.path)
           doomed == IF purges THEN Purged(file.path, managed) ELSE {}
           notDir == file.purge /\ ~o.err /\ o.at.kind # "directory"
       IN  /\ unlisted => purges
           /\ \E stuck \in SUBSET doomed :
                /\ Fault(o.fault \/ unlisted \/ stuck # {})
                /\ FileDone([p \in Path |-> IF p \in doomed \ stuck THEN NoFile
                                            ELSE IF p = file.path THEN o.at ELSE disk[p]],
                            (IF o.changed THEN {file.path} ELSE {}) \cup (doomed \ stuck), {},
                            o.err \/ notDir \/ stuck # {})
  /\ UNCHANGED <<menu, objects, pkgs, enabled, used, bucket, reported, edits>>

TargetExists(p) ==
  disk[p].kind = "symlink" => disk[p].data \in Path /\ disk[disk[p].data].kind # "none"

HandleSymlink ==
  /\ AtFile("symlink")
  /\ \E o \in EnsureSymlink(file, disk[file.path], TargetExists(file.path)) :
       /\ Fault(o.fault)
       /\ FileDone([disk EXCEPT ![file.path] = o.at],
                   IF o.changed THEN {file.path} ELSE {}, {}, o.err)
  /\ UNCHANGED <<menu, objects, pkgs, enabled, used, bucket, reported, edits>>

HandleAbsent ==
  /\ AtFile("absent")
  /\ \E o \in Remove(disk[file.path], TargetExists(file.path)) :
       /\ Fault(o.fault)
       /\ FileDone([disk EXCEPT ![file.path] = o.at],
                   IF o.changed THEN {file.path} ELSE {}, {}, o.err)
  /\ UNCHANGED <<menu, objects, pkgs, enabled, used, bucket, reported, edits>>

HandleUnhandled ==
  /\ AtFile("unhandled")
  /\ FileDone(disk, {}, {}, TRUE)
  /\ UNCHANGED <<menu, objects, pkgs, enabled, used, bucket, reported, edits, faults>>

-----------------------------------------------------------------------------
(* Services.                                                               *)

(* Status of the systemd and FreeBSD handlers is the service's; that of the  *)
(* OpenRC handler is "running" whenever rc-status succeeds.                *)
ServiceStatus(os, s) == IF os = "alpine" \/ used[s] # Down THEN "running" ELSE "stopped"

(* Enable or disable the service unless its rc.conf.d file is managed, then  *)
(* start or stop it.  failed has the commands that do not succeed.  Setting   *)
(* arguments does nothing on the systems of the scenarios, systemd and OpenRC. *)
HandleService ==
  /\ run.at = "services"
  /\ LET svc == run.cs.svcs[run.i]
         status0 == ServiceStatus(menu.os, svc.name)
         rcManaged == RcConf[svc.name] \in {f.path : f \in Range(run.cs.files)}
         starts == svc.ensure = "running" /\ status0 # "running"
         stops == svc.ensure = "stopped" /\ status0 # "stopped"
     IN  \E failed \in SUBSET ((IF rcManaged THEN {} ELSE {"enable"})
                                 \cup (IF starts \/ stops THEN {"switch"} ELSE {})) :
           /\ Fault(failed # {})
           /\ enabled' = IF rcManaged \/ "enable" \in failed THEN enabled
                         ELSE IF svc.enable THEN enabled \cup {svc.name}
                         ELSE enabled \ {svc.name}
           /\ used' = IF "switch" \in failed \/ ~(starts \/ stops) THEN used
                      ELSE [used EXCEPT ![svc.name] = IF starts THEN Reads(svc, disk) ELSE Down]
           /\ lost' = IF used' = used THEN lost ELSE lost \ {svc.name}
           /\ LET r == [run EXCEPT !.err = @ \/ failed # {}]
              IN  run' = AfterItem(r, r.cs.svcs, ToRestarts(r))
  /\ UNCHANGED <<menu, objects, disk, pkgs, bucket, reported, edits>>

(* Variant: a service that was restarted stays due.                         *)
StaysDue(s, err) ==
  run' = [run EXCEPT !.err = @ \/ err]

RestartDone(s, err) ==
  LET r == [run EXCEPT !.todo = @ \ {s}, !.err = @ \/ err]
  IN  run' = IF r.todo = {} THEN ToExecutions(r) ELSE r

RestartService(svc) ==
  /\ used' = [used EXCEPT ![svc.name] = Reads(svc, disk)]
  /\ lost' = lost \ {svc.name}

(* restartF for one service, in the order of a Go map: any.                *)
Restart ==
  /\ run.at = "restarts"
  /\ \E svc \in {v \in Range(run.cs.svcs) : v.name \in run.todo} :
       /\ RestartService(svc)
       /\ RestartDone(svc.name, FALSE)
  /\ UNCHANGED <<menu, objects, disk, pkgs, enabled, bucket, reported, edits, faults>>

(* The lock is not obtained, or the restart fails and leaves the service as  *)
(* it was or not running.  Nothing repeats the restart.                    *)
RestartFails ==
  /\ run.at = "restarts"
  /\ Fault(TRUE)
  /\ \E s \in run.todo :
       /\ used' \in {used, [used EXCEPT ![s] = Down]}
       /\ lost' = lost \cup {s}
       /\ RestartDone(s, TRUE)
  /\ UNCHANGED <<menu, objects, disk, pkgs, enabled, bucket, reported, edits>>

(* Every execution subscribed to a changed file is run; failed has those     *)
(* that fail.                                                              *)
handleExecutions ==
  /\ run.at = "executions"
  /\ \E failed \in SUBSET DueExecs(run) :
       LET ran == DueExecs(run) \ failed
       IN  /\ Fault(failed # {})
           /\ used' = [s \in Subscriber |->
                 IF s \in Names(ran) THEN Reads(CHOOSE e \in ran : e.name = s, disk) ELSE used[s]]
           /\ lost' = (lost \ Names(ran)) \cup Names(failed)
           /\ run' = ToBackups([run EXCEPT !.err = @ \/ failed # {}])
  /\ UNCHANGED <<menu, objects, disk, pkgs, enabled, bucket, reported, edits>>

-----------------------------------------------------------------------------
(* Reporting.                                                              *)

updateFileBackups ==
  /\ run.at = "backups"
  /\ \E fails \in BOOLEAN :
       /\ Fault(fails)
       /\ backups' = [p \in Path |->
             IF ~fails /\ \E b \in run.saved : b.path = p
             THEN (CHOOSE b \in run.saved : b.path = p).hash ELSE backups[p]]
  /\ run' = ToStatus(run)
  /\ UNCHANGED <<menu, objects, host, status, edits, lost>>

(* Variant: the entry names the ConfigSet as it is now, not as applied.     *)
ReportCurrentSpec ==
  /\ run.at = "status"
  /\ status' = [status EXCEPT ![run.name] =
                  Entry(spec[run.name], IF run.err THEN "error" ELSE "ok")]
  /\ run' = Idle
  /\ UNCHANGED <<menu, objects, host, backups, history>>

updateConfigSetStatus ==
  /\ run.at = "status"
  /\ \E fails \in BOOLEAN :
       /\ Fault(fails)
       /\ status' = IF fails THEN status
                    ELSE [status EXCEPT ![run.name] =
                            Entry(run.cs, IF run.err THEN "error" ELSE "ok")]
  /\ run' = IF run.err \/ run.cs.notifies = {} THEN Idle ELSE [run EXCEPT !.at = "notify"]
  /\ UNCHANGED <<menu, objects, host, backups, edits, lost>>

(* A target that has heard of this generation is left alone.                *)
touchNotifyTarget(t, c, g) == [told[t] EXCEPT ![c] = g]

(* What was applied without an error is made known.  failed has the targets   *)
(* that do not exist or could not be updated; they are logged.              *)
notifyResources ==
  /\ run.at = "notify"
  /\ \E failed \in SUBSET run.cs.notifies :
       /\ Fault(failed # {})
       /\ told' = [t \in Target |-> IF t \in run.cs.notifies \ failed
                                    THEN touchNotifyTarget(t, run.name, run.gen) ELSE told[t]]
  /\ run' = Idle
  /\ UNCHANGED <<menu, spec, gen, secret, cond, host, reported, edits, lost>>

-----------------------------------------------------------------------------
(* The process dies, or its host reboots: the changed files are forgotten.   *)
Crash ==
  /\ run # Idle
  /\ Fault(TRUE)
  /\ run' = Idle
  /\ lost' = IF run.cs = Deleted THEN lost
             ELSE lost \cup {s.name : s \in
                      {s \in Concerned(run.cs, run.changed) :
                          used[s.name] \notin {Down, Reads(s, disk)}}}
  /\ UNCHANGED <<menu, objects, host, reported, edits>>

(* runFileBucketGC, in its own goroutine.                                  *)
RunGC ==
  /\ bucket' = GCFileBucket(bucket)
  /\ UNCHANGED <<menu, objects, disk, pkgs, enabled, used, reported, run, history>>

BlobsAge ==
  /\ bucket' = [d \in DOMAIN bucket |-> Ageing(bucket[d])]
  /\ UNCHANGED <<menu, objects, disk, pkgs, enabled, used, reported, run, history>>

-----------------------------------------------------------------------------
(* What others do: each counts as an edit.                                 *)

Edited == edits < EditBound /\ edits' = edits + 1

(* Labels are no part of what the generation counts, and a ConfigSet that is  *)
(* created again starts anew.  Only a ConfigSet that notifies needs the count. *)
Generation(g, old, new) ==
  IF new = Deleted THEN 0
  ELSE IF old = Deleted THEN 1
  ELSE IF [old EXCEPT !.labels = new.labels] = new \/ new.notifies = {} THEN g
  ELSE g + 1

EditConfigSet(c) ==
  /\ Edited
  /\ \E s \in menu.specs[c] \ {spec[c]} :
       /\ spec' = [spec EXCEPT ![c] = s]
       /\ gen' = [gen EXCEPT ![c] = Generation(@, spec[c], s)]
       /\ cond' = IF s = Deleted THEN [cond EXCEPT ![c] = "unset"] ELSE cond
  /\ UNCHANGED <<menu, told, secret, host, reported, run, faults, lost>>

EditSecret ==
  /\ Edited
  /\ secret' \in menu.secret \ {secret}
  /\ UNCHANGED <<menu, spec, gen, told, cond, host, reported, run, faults, lost>>

(* Someone writes a file by hand.                                          *)
Meddle ==
  /\ Edited
  /\ \E p \in menu.meddle :
       /\ disk[p].kind \in {"none", "file"} /\ Creatable(p)
       /\ disk' = [disk EXCEPT ![p] = File(Junk, "root", "0644")]
  /\ UNCHANGED <<menu, objects, pkgs, enabled, used, bucket, reported, run, faults, lost>>

ServiceDies(s) ==
  /\ Edited
  /\ s \in menu.mortal /\ used[s] # Down
  /\ used' = [used EXCEPT ![s] = Down]
  /\ lost' = lost \ {s}
  /\ UNCHANGED <<menu, objects, disk, pkgs, enabled, bucket, reported, run, faults>>

Proceed ==
  \/ Detect \/ HandlePackage \/ NoPackages \/ SkipFile \/ writeFileContent
  \/ HandleDirectory \/ HandleSymlink \/ HandleAbsent \/ HandleUnhandled
  \/ HandleService \/ Restart \/ RestartFails \/ handleExecutions
  \/ updateFileBackups \/ updateConfigSetStatus \/ notifyResources

Next ==
  \/ \E c \in Name : Reconcile(c) \/ EditConfigSet(c)
  \/ Proceed
  \/ GiveUp \/ ListPackagesFails \/ RenderFails \/ Crash
  \/ RunGC \/ BlobsAge
  \/ EditSecret \/ Meddle
  \/ \E s \in Service : ServiceDies(s)

Spec == Init /\ [][Next]_vars

(***************************************************************************)
(* A reconcile ends: controller-runtime runs it to completion and its        *)
(* context ends after five minutes.  Every ConfigSet is reconciled again and *)
(* again: the manager resyncs every two minutes and errors are requeued; the *)
(* entry of a deleted one is also removed by every reconcile of the          *)
(* ManagedNode.                                                            *)
(***************************************************************************)
Fairness ==
  /\ WF_vars(Proceed)
  /\ \A c \in Name : SF_vars(Reconcile(c))

FairSpec == Spec /\ Fairness

-----------------------------------------------------------------------------
(* Properties.                                                             *)

(* The path holds what the entry of a ConfigSet asks for.  A dangling link   *)
(* counts as absent, as it does for Remove.                                *)
Satisfied(f) ==
  LET at == disk[f.path]
  IN  CASE FileEnsureFromString(f.ensure) = "file" ->
             \/ ~f.ref /\ f.content = ""
             \/ f.createOnly /\ at.kind # "none"
             \/ /\ at.kind = "file"
                /\ at.data \in IF f.ref THEN Secret ELSE {f.content}
                /\ at.owner = IF f.owner = "" THEN "root" ELSE f.owner
                /\ f.mode # "" => at.mode = f.mode
        [] FileEnsureFromString(f.ensure) = "directory" ->
             at.kind = "directory" /\ (f.mode # "" => at.mode = f.mode)
        [] FileEnsureFromString(f.ensure) = "symlink" ->
             at.kind = "symlink" /\ at.data = f.target
        [] FileEnsureFromString(f.ensure) = "absent" ->
             at.kind = "none" \/ ~TargetExists(f.path)
        [] OTHER -> FALSE

(* A reconcile that is about to report success, or to notify the targets of   *)
(* its ConfigSet, has brought every file of it to the declared state,        *)
(* whatever failed on the way (handleFileSet returns an error for each entry  *)
(* it could not apply); files that someone else wrote meanwhile are excepted. *)
OkMeansApplied ==
  run.at \in {"status", "notify"} /\ ~run.err =>
    \A f \in Range(run.cs.files) : Satisfied(f) \/ disk[f.path].data = Junk

(* What the link at a path may point to.                                     *)
Aims(m, p) ==
  {m.disk[p].data} \cup
  {f.target : f \in {f \in UNION {Range(s.files) : s \in ConfigSets(m)} : f.path = p}}

(***************************************************************************)
(* The ConfigSets of a scenario do not undo their own work: no path is        *)
(* declared twice in a ConfigSet, nor before a purged directory it is in; a    *)
(* path that holds a link is no file or directory in a ConfigSet, and if it is *)
(* to be absent, neither a later entry nor someone by hand makes its target;   *)
(* a path declared as a directory neither holds a plain file nor is declared   *)
(* as one.  The code accepts ConfigSets that are not so, and reports success   *)
(* for them (writing a file through a link is not modelled).                 *)
(***************************************************************************)
Orderly(m) ==
  \A s \in ConfigSets(m) : \A i \in 1..Len(s.files) :
    LET f == s.files[i]
        ensure == FileEnsureFromString(f.ensure)
    IN  /\ \A j \in (i + 1)..Len(s.files) :
             /\ f.path # s.files[j].path
             /\ Parent[f.path] = s.files[j].path /\ s.files[j].purge =>
                  FileEnsureFromString(s.files[j].ensure) # "directory"
        /\ m.disk[f.path].kind = "symlink" =>
             /\ ensure \notin {"file", "directory"}
             /\ ensure = "absent" => \A t \in Aims(m, f.path) :
                  t \notin m.meddle /\ \A j \in (i + 1)..Len(s.files) : s.files[j].path # t
        /\ ensure = "directory" =>
             /\ m.disk[f.path].kind # "file"
             /\ \A t \in ConfigSets(m) : \A g \in Range(t.files) :
                  g.path = f.path => FileEnsureFromString(g.ensure) # "file"

(* Between reconciles, a running service, or an execution, has read its       *)
(* subscribed files as they are: handleServiceSet restarts it, and            *)
(* handleExecutions runs it, after every change that a reconcile of its own   *)
(* ConfigSet makes, unless a fault hid the change, kept it from being         *)
(* restarted, or killed the process in between.                             *)
StaleOnlyIfLost ==
  run = Idle =>
    \A s \in Subscriber : used[s] # Down =>
      \A p \in DOMAIN used[s] :
        used[s][p] = disk[p].data \/ disk[p].data = Junk \/ s \in lost

(* A hash recorded as the backup of a file is that of a blob that was saved   *)
(* (writeFileContent returns it only then): it is in the bucket, whole or    *)
(* cut short by a fault, or was removed for its age.                       *)
BackupsSaved ==
  \A p \in Path : backups[p] # "" => bucket[backups[p]] # "none"

(* The path holds what the entry asks for now, with the Secret as it is.     *)
InPlace(f) == Satisfied(f) /\ (f.ref => disk[f.path].data = secret)

(***************************************************************************)
(* Handling an entry that is in place neither touches its path nor counts it  *)
(* as changed, so that the resync of an applied ConfigSet restarts nothing    *)
(* and runs nothing (handleFileSet and the Ensure functions of pkg/files,     *)
(* each of which compares before it writes).                                *)
(***************************************************************************)
InPlaceIsLeftAlone ==
  [][run.at = "files" /\ InPlace(file) /\ run' # run =>
       disk'[file.path] = disk[file.path] /\ file.path \notin run'.changed \ run.changed]_vars

(* An entry no reconcile can apply as things are: its errors stay reported.   *)
Hopeless(f) ==
  \/ FileEnsureFromString(f.ensure) = "unhandled"
  \/ Unrenderable(f) /\ FileEnsureFromString(f.ensure) = "file"
  \/ FileEnsureFromString(f.ensure) = "symlink"
       /\ ~Satisfied(f) /\ (disk[f.path].kind # "symlink" \/ ~TargetExists(f.path))
  \/ FileEnsureFromString(f.ensure) = "file" /\ ~LeavesAlone(f) /\ ~Satisfied(f)
       /\ (disk[f.path].kind = "directory" \/ ~Creatable(f.path))

ServiceSettled(s) ==
  menu.os # "alpine" =>
    (s.ensure = "running" => used[s.name] # Down) /\ (s.ensure = "stopped" => used[s.name] = Down)

Settled(c) ==
  IF ~Applies(spec[c]) THEN status[c] = NoEntry
  ELSE IF detectConflicts(c, spec[c])
  THEN status[c] = Entry(spec[c], "conflict") /\ cond[c] = "true"
  ELSE LET hopeless == {f \in Range(spec[c].files) : Hopeless(f)}
       IN  /\ status[c] = Entry(spec[c], IF hopeless = {} THEN "ok" ELSE "error")
           /\ cond[c] = "false"
           /\ \A f \in Range(spec[c].files) \ hopeless : Satisfied(f)
           /\ \A s \in Range(spec[c].svcs) : ServiceSettled(s)
           /\ \A k \in Range(spec[c].pkgs) :
                k.ensure = "installed" <=> pkgs[k.name] # ""
           /\ hopeless = {} => \A t \in spec[c].notifies : told[t][c] = gen[c]

(* Once the edits and the faults end, the host comes to rest in the declared *)
(* state and stays there: every ConfigSet that applies without a conflict is *)
(* in place, reported so and made known to its targets, conflicting ones are  *)
(* reported and left alone, the others have no entry.  In particular no two   *)
(* ConfigSets keep undoing each other, by writing, removing or purging       *)
(* (Reconcile as a whole).                                                 *)
Converges == <>[](\A c \in Name : Settled(c))

(* And then the subscribers are left in peace: although every ConfigSet is    *)
(* reconciled again and again, no service is restarted and nothing is run,    *)
(* whatever the entries that cannot be applied report (handleServiceSet,      *)
(* handleExecutions).                                                      *)
Quiesces == <>[](run.at \notin {"restarts", "executions"})
=============================================================================
