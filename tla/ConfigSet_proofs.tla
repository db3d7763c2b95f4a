--------------------------- MODULE ConfigSet_proofs ---------------------------
(***************************************************************************)
(* Proofs about the ConfigSet reconciler, for any ConfigSets, paths, services *)
(* and executions, and any number of edits and faults.                      *)
(*                                                                         *)
(* SetInv has the shape of every piece of state and the backups; it is       *)
(* inductive and gives ConfigSetTypes and BackupsAreSaved.  TodoDue and Fresh  *)
(* add what is owed to a subscriber while a reconcile runs, for              *)
(* SubscribersTold.                                                        *)
(***************************************************************************)
EXTENDS ConfigSetRun_proofs

-----------------------------------------------------------------------------
(* The API objects, the host and the reports.                              *)

(* Every step leaves ConfigSets, generations, conditions and notifications  *)
(* of the scenario.                                                         *)
LEMMA ObjectsStep ==
  ASSUME SetInv, Next
  PROVE  ObjectsOK'
<1>0. /\ menu' = menu /\ menu \in Menu /\ edits \in 0..EditBound /\ EditBound \in Nat
      /\ edits' \in Nat /\ edits <= edits'
  <2>1. menu' = menu /\ menu \in Menu /\ (edits' = edits \/ edits' = edits + 1)
    BY Frame DEF SetInv, ObjectsOK
  <2>2. edits \in 0..EditBound /\ EditBound \in Nat
    BY ConfigSetAssumption DEF SetInv, CountsOK
  <2> QED
    BY <2>1, <2>2
<1>1. ObjectsOK
  BY DEF SetInv
<1>2. ASSUME UNCHANGED <<spec, gen>>
      PROVE  /\ spec' \in [Name -> ConfigSets(menu') \cup {Deleted}] /\ \A c \in Name : spec'[c] \in menu'.specs[c]
             /\ gen' \in [Name -> Nat]
             /\ \A c \in Name : gen'[c] <= edits' + 1 /\ (gen'[c] = 0 <=> spec'[c] = Deleted)
  <2>1. \A c \in Name : gen[c] \in Nat /\ gen[c] <= edits + 1
    BY <1>1 DEF ObjectsOK
  <2>2. \A c \in Name : gen[c] <= edits' + 1
    BY <1>0, <2>1
  <2> QED
    BY <1>0, <1>1, <1>2, <2>2 DEF ObjectsOK
<1>3. ASSUME UNCHANGED objects PROVE ObjectsOK'
  <2>1. UNCHANGED <<spec, gen>> /\ UNCHANGED <<told, secret, cond>>
    BY <1>3 DEF objects
  <2> QED
    BY <1>0, <1>1, <1>2, <2>1 DEF ObjectsOK
<1>4. CASE Detect
  <2>1. UNCHANGED <<spec, gen>> /\ UNCHANGED <<told, secret>> /\ run.at = "detect"
    BY <1>4 DEF Detect
  <2>2. \/ UNCHANGED cond
        \/ cond' = [cond EXCEPT ![run.name] = "true"]
        \/ cond' = [cond EXCEPT ![run.name] = "false"]
    BY <1>4 DEF Detect, updateConfigSetCondition
  <2>3. cond' \in [Name -> {"unset", "true", "false"}]
    BY <1>1, <2>2 DEF ObjectsOK
  <2> QED
    BY <1>0, <1>1, <1>2, <2>1, <2>3 DEF ObjectsOK
<1>5. CASE notifyResources
  <2>1. UNCHANGED <<spec, gen>> /\ UNCHANGED <<cond, secret>> /\ run.at = "notify"
    BY <1>5 DEF notifyResources
  <2>2. PICK failed : told' = [t \in Target |-> IF t \in run.cs.notifies \ failed
                                    THEN touchNotifyTarget(t, run.name, run.gen) ELSE told[t]]
    BY <1>5 DEF notifyResources
  <2> DEFINE Gens == 0..(EditBound + 1)
  <2>3. run.name \in Name /\ run.gen \in Gens
    BY <2>1, Known DEF Reconciling, SetRun
  <2>4. told \in [Target -> [Name -> Gens]]
    BY <1>1 DEF ObjectsOK
  <2> HIDE DEF Gens
  <2>5. \A t \in Target : touchNotifyTarget(t, run.name, run.gen) \in [Name -> Gens]
    BY <2>3, <2>4 DEF touchNotifyTarget
  <2>6. told' \in [Target -> [Name -> Gens]]
    BY <2>2, <2>4, <2>5
  <2> QED
    BY <1>0, <1>1, <1>2, <2>1, <2>6 DEF ObjectsOK, Gens
<1>6. ASSUME NEW c \in Name, EditConfigSet(c) PROVE ObjectsOK'
  <2>1. PICK s \in menu.specs[c] \ {spec[c]} :
          /\ spec' = [spec EXCEPT ![c] = s]
          /\ gen' = [gen EXCEPT ![c] = Generation(@, spec[c], s)]
          /\ cond' = IF s = Deleted THEN [cond EXCEPT ![c] = "unset"] ELSE cond
    BY <1>6, Zenon DEF EditConfigSet
  <2>2. UNCHANGED <<told, secret>> /\ edits' = edits + 1
    BY <1>6 DEF EditConfigSet, Edited
  <2>3. cond' \in [Name -> {"unset", "true", "false"}]
    BY <1>1, <2>1 DEF ObjectsOK
  <2>4. s \in ConfigSets(menu) \cup {Deleted}
    BY <2>1 DEF ConfigSets
  <2>5. /\ spec \in [Name -> ConfigSets(menu) \cup {Deleted}] /\ gen \in [Name -> Nat]
        /\ \A x \in Name : gen[x] <= edits + 1 /\ (gen[x] = 0 <=> spec[x] = Deleted) /\ spec[x] \in menu.specs[x]
    BY <1>1 DEF ObjectsOK
  <2> DEFINE g == Generation(gen[c], spec[c], s)
  <2>6. g \in Nat /\ g <= edits + 2 /\ (g = 0 <=> s = Deleted)
    <3>1. g \in {0, 1, gen[c], gen[c] + 1} /\ (g = 0 \/ s # Deleted) /\ (s = Deleted => g = 0)
          /\ (s # Deleted /\ spec[c] = Deleted => g = 1)
          /\ (s # Deleted /\ spec[c] # Deleted => g \in {gen[c], gen[c] + 1})
      BY DEF Generation
    <3> HIDE DEF g
    <3>2. gen[c] \in Nat /\ gen[c] <= edits + 1 /\ (gen[c] = 0 <=> spec[c] = Deleted)
      BY <2>5
    <3> QED
      BY <1>0, <3>1, <3>2
  <2>7. gen' = [gen EXCEPT ![c] = g]
    BY <2>1
  <2> HIDE DEF g
  <2>8. /\ spec' \in [Name -> ConfigSets(menu) \cup {Deleted}] /\ gen' \in [Name -> Nat]
        /\ \A x \in Name : spec'[x] = (IF x = c THEN s ELSE spec[x]) /\ gen'[x] = (IF x = c THEN g ELSE gen[x])
    BY <2>1, <2>4, <2>5, <2>6, <2>7
  <2>9. \A x \in Name : gen'[x] <= edits' + 1
    <3>1. \A x \in Name : gen[x] \in Nat /\ gen[x] <= edits + 1 /\ gen'[x] \in {g, gen[x]}
      BY <2>5, <2>8
    <3> QED
      BY <1>0, <2>2, <2>6, <3>1
  <2>10. \A x \in Name : (gen'[x] = 0 <=> spec'[x] = Deleted) /\ spec'[x] \in menu.specs[x]
    BY <2>1, <2>5, <2>6, <2>8
  <2> QED
    BY <1>0, <1>1, <2>2, <2>3, <2>8, <2>9, <2>10, ZenonT(60) DEF ObjectsOK
<1>7. CASE EditSecret
  <2>1. UNCHANGED <<spec, gen>> /\ UNCHANGED <<told, cond>> /\ secret' \in menu.secret
    BY <1>7 DEF EditSecret
  <2>2. secret' \in Secret \cup {""}
    BY <1>0, <2>1, ConfigSetAssumption
  <2> QED
    BY <1>0, <1>1, <1>2, <2>1, <2>2 DEF ObjectsOK
<1>8. ASSUME NEW c \in Name, Reconcile(c) PROVE UNCHANGED objects
  BY <1>8, ZenonT(60) DEF Reconcile
<1>9. CASE HandlePackage \/ NoPackages \/ ListPackagesFails \/ GiveUp
  BY <1>3, <1>9, ZenonT(60) DEF HandlePackage, NoPackages, ListPackagesFails, GiveUp
<1>10. CASE HandlesFile
  BY <1>3, <1>10, Zenon DEF HandlesFile, SkipFile, RenderFails, writeFileContent, HandleDirectory, HandleSymlink,
              HandleAbsent, HandleUnhandled
<1>11. CASE HandleService \/ Restart \/ RestartFails \/ handleExecutions
  BY <1>3, <1>11, Zenon DEF HandleService, Restart, RestartFails, handleExecutions
<1>12. CASE updateFileBackups \/ updateConfigSetStatus \/ Crash \/ RunGC \/ BlobsAge \/ Meddle
  BY <1>3, <1>12, Zenon DEF updateFileBackups, updateConfigSetStatus, Crash, RunGC, BlobsAge, Meddle
<1>13. ASSUME NEW s \in Service, ServiceDies(s) PROVE UNCHANGED objects
  BY <1>13 DEF ServiceDies
<1> QED
  BY <1>3, <1>4, <1>5, <1>6, <1>7, <1>8, <1>9, <1>10, <1>11, <1>12, <1>13 DEF Next, Proceed, HandlesFile

(* What a subscriber reads.                                                 *)
LEMMA ReadsTyped ==
  ASSUME disk \in [Path -> Held], NEW s, s.subs \subseteq Path
  PROVE  Reads(s, disk) \in Reading /\ Down \in Reading
<1>1. \A p \in Path : disk[p].data \in Text
  BY DEF Held
<1>2. Reads(s, disk) \in [s.subs -> Text]
  BY <1>1 DEF Reads
<1> QED
  BY <1>2 DEF Reading

(* The subscribers of a ConfigSet are services and executions.                *)
LEMMA SubscribersOf ==
  ASSUME menu \in Menu, NEW cs \in ConfigSets(menu)
  PROVE  /\ \A v \in Range(cs.svcs) : v.name \in Service /\ v.name \in Subscriber /\ v.subs \subseteq Path
         /\ \A e \in Range(cs.execs) : e.name \in Exec /\ e.name \in Subscriber /\ e.subs \subseteq Path
         /\ \A paths : Names(Concerned(cs, paths)) \subseteq Subscriber
         /\ \A paths : \A x \in Concerned(cs, paths) : x.name \in Subscriber
<1>1. /\ \A v \in Range(cs.svcs) : v.name \in Service /\ v.subs \subseteq Path
      /\ \A e \in Range(cs.execs) : e.name \in Exec /\ e.subs \subseteq Path
  BY Declared
<1>2. \A paths : \A x \in Concerned(cs, paths) : x.name \in Subscriber
  BY <1>1 DEF Concerned, Subscriber
<1> QED
  BY <1>1, <1>2 DEF Names, Subscriber

(* Every step leaves paths, services and blobs that are well formed.        *)
LEMMA HostStep ==
  ASSUME SetInv, Next
  PROVE  HostOK'
<1>0. HostOK /\ menu \in Menu
  BY DEF SetInv, ObjectsOK
<1> DEFINE Blobs == [Contents -> BlobState]
<1>1. /\ disk \in [Path -> Held] /\ enabled \subseteq Service /\ used \in [Subscriber -> Reading]
      /\ bucket \in Blobs /\ lost \subseteq Subscriber
  BY <1>0 DEF HostOK
<1>2. ASSUME UNCHANGED host, UNCHANGED lost PROVE HostOK'
  BY <1>0, <1>2 DEF HostOK, host
<1>3. CASE HandlesFile
  <2>0. run.at = "files"
    BY <1>3, ZenonT(60) DEF HandlesFile, SkipFile, RenderFails, writeFileContent, HandleDirectory, HandleSymlink,
              HandleAbsent, HandleUnhandled, AtFile
  <2>1. /\ \E d, ch, saved, err : Finished(d, ch, saved, err)
        /\ BlobsStay /\ UNCHANGED <<menu, objects, pkgs, enabled, used, reported, edits>>
    BY <1>3, <2>0, Known, FileStep, ZenonT(60)
  <2>2. PICK d, ch, saved, err : Finished(d, ch, saved, err)
    BY <2>1
  <2>3. disk' \in [Path -> Held] /\ lost' \subseteq Subscriber
    BY <1>1, <2>2 DEF Finished, FileDone, Missing
  <2> QED
    BY <1>1, <2>1, <2>3, ZenonT(60) DEF HostOK, BlobsStay
<1>4. CASE HandleService
  <2> DEFINE svc == run.cs.svcs[run.i]
  <2>1. run.at = "services" /\ UNCHANGED <<disk, bucket>>
    BY <1>4, ZenonT(60) DEF HandleService
  <2>2. /\ enabled' \in {enabled, enabled \cup {svc.name}, enabled \ {svc.name}}
        /\ used' \in {used, [used EXCEPT ![svc.name] = Reads(svc, disk)], [used EXCEPT ![svc.name] = Down]}
        /\ lost' \in {lost, lost \ {svc.name}}
    BY <1>4, Zenon DEF HandleService
  <2>3. run.i \in 1..Len(run.cs.svcs) /\ run.cs \in ConfigSets(menu)
    BY <2>1, Known DEF Placed
  <2>4. svc \in Range(run.cs.svcs)
    BY <1>0, <2>3, Declared, Items, ZenonT(60)
  <2> HIDE DEF svc
  <2>5. svc.name \in Service /\ svc.name \in Subscriber /\ svc.subs \subseteq Path
    BY <1>0, <2>3, <2>4, SubscribersOf
  <2>6. Reads(svc, disk) \in Reading /\ Down \in Reading
    BY <1>1, <2>5, ReadsTyped
  <2>7. used' \in [Subscriber -> Reading]
    BY <1>1, <2>2, <2>5, <2>6
  <2> QED
    BY <1>1, <2>1, <2>2, <2>5, <2>7, ZenonT(60) DEF HostOK
<1>5. CASE Restart
  <2>1. run.at = "restarts" /\ UNCHANGED <<disk, enabled, bucket>>
    BY <1>5 DEF Restart
  <2>2. PICK svc \in Range(run.cs.svcs) : RestartService(svc)
    BY <1>5 DEF Restart
  <2>3. run.cs \in ConfigSets(menu)
    BY <2>1, Known
  <2>4. svc.name \in Subscriber /\ svc.subs \subseteq Path
    BY <1>0, <2>2, <2>3, SubscribersOf
  <2>5. Reads(svc, disk) \in Reading
    BY <1>1, <2>4, ReadsTyped
  <2>6. used' \in [Subscriber -> Reading] /\ lost' \subseteq Subscriber
    BY <1>1, <2>2, <2>4, <2>5 DEF RestartService
  <2> QED
    BY <1>1, <2>1, <2>6 DEF HostOK
<1>6. CASE RestartFails
  <2>1. run.at = "restarts" /\ UNCHANGED <<disk, enabled, bucket>>
    BY <1>6 DEF RestartFails
  <2>2. PICK s \in run.todo : used' \in {used, [used EXCEPT ![s] = Down]} /\ lost' = lost \cup {s}
    BY <1>6 DEF RestartFails
  <2>3. s \in Subscriber
    BY <2>1, <2>2, Known DEF Subscriber
  <2>4. Down \in Reading
    BY DEF Reading
  <2>5. used' \in [Subscriber -> Reading] /\ lost' \subseteq Subscriber
    BY <1>1, <2>2, <2>3, <2>4
  <2> QED
    BY <1>1, <2>1, <2>5 DEF HostOK
<1>7. CASE handleExecutions
  <2>1. run.at = "executions" /\ UNCHANGED <<disk, enabled, bucket>>
    BY <1>7 DEF handleExecutions
  <2>2. PICK failed \in SUBSET DueExecs(run) :
          LET ran == DueExecs(run) \ failed
          IN  /\ used' = [s \in Subscriber |->
                    IF s \in Names(ran) THEN Reads(CHOOSE e \in ran : e.name = s, disk) ELSE used[s]]
              /\ lost' = (lost \ Names(ran)) \cup Names(failed)
    BY <1>7, Zenon DEF handleExecutions
  <2> DEFINE ran == DueExecs(run) \ failed
             runner(s) == CHOOSE e \in ran : e.name = s
  <2>3. /\ used' = [s \in Subscriber |-> IF s \in Names(ran) THEN Reads(runner(s), disk) ELSE used[s]]
        /\ lost' = (lost \ Names(ran)) \cup Names(failed)
    BY <2>2
  <2>4. run.cs \in ConfigSets(menu)
    BY <2>1, Known
  <2>5. \A e \in DueExecs(run) : e.name \in Subscriber /\ e.subs \subseteq Path
    BY <1>0, <2>4, SubscribersOf DEF DueExecs
  <2>6. ASSUME NEW s \in Names(ran) PROVE Reads(runner(s), disk) \in Reading
    <3>1. runner(s) \in ran
      BY DEF Names
    <3>2. runner(s).subs \subseteq Path
      BY <2>5, <3>1, ZenonT(60)
    <3> HIDE DEF runner
    <3> QED
      BY <1>1, <3>2, ReadsTyped
  <2>7. lost' \subseteq Subscriber
    BY <1>1, <2>2, <2>3, <2>5 DEF Names
  <2> HIDE DEF ran, runner
  <2>8. used' \in [Subscriber -> Reading]
    BY <1>1, <2>3, <2>6
  <2> QED
    BY <1>1, <2>1, <2>7, <2>8 DEF HostOK
<1>8. CASE Crash
  <2>1. run # Idle /\ UNCHANGED host
    BY <1>8 DEF Crash
  <2>2. run.cs \in ConfigSets(menu)
    BY <2>1 DEF SetInv, RunOK, Reconciling
  <2>3. lost' \subseteq Subscriber
    BY <1>0, <1>1, <1>8, <2>2, SubscribersOf DEF Crash
  <2> QED
    BY <1>1, <2>1, <2>3 DEF HostOK, host
<1>9. CASE RunGC \/ BlobsAge
  <2>1. bucket' = GCFileBucket(bucket) \/ bucket' = [d \in DOMAIN bucket |-> Ageing(bucket[d])]
    BY <1>9 DEF RunGC, BlobsAge
  <2>2. \A d \in Contents : bucket[d] \in BlobState
    BY <1>1
  <2>3. \A b \in BlobState : Ageing(b) \in BlobState
    BY DEF Ageing, BlobState
  <2>4. "removed" \in BlobState /\ DOMAIN bucket = Contents
    BY <1>1 DEF BlobState
  <2>5. bucket' \in Blobs
    BY <2>1, <2>2, <2>3, <2>4, ZenonT(60) DEF GCFileBucket
  <2>6. UNCHANGED <<disk, enabled, used, lost>>
    BY <1>9 DEF RunGC, BlobsAge, history
  <2> QED
    BY <1>1, <2>5, <2>6 DEF HostOK
<1>10. CASE Meddle
  <2>1. PICK p \in menu.meddle : disk' = [disk EXCEPT ![p] = File(Junk, "root", "0644")]
    BY <1>10, ZenonT(60) DEF Meddle
  <2>2. File(Junk, "root", "0644") \in Held
    <3>1. Junk \in Data
      BY ConfigSetAssumption
    <3>2. Junk \in Text /\ "root" \in Text /\ "0644" \in Text
      BY <3>1, NewlyHeld
    <3> QED
      BY <3>1, <3>2 DEF Held, File
  <2>3. disk' \in [Path -> Held]
    BY <1>1, <2>1, <2>2, ZenonT(60)
  <2>4. UNCHANGED <<enabled, used, bucket, lost>>
    BY <1>10 DEF Meddle
  <2> QED
    BY <1>1, <2>3, <2>4 DEF HostOK
<1>11. ASSUME NEW s \in Service, ServiceDies(s) PROVE HostOK'
  <2>1. /\ used' = [used EXCEPT ![s] = Down] /\ lost' = lost \ {s} /\ UNCHANGED <<disk, enabled, bucket>>
    BY <1>11 DEF ServiceDies
  <2>2. Down \in Reading /\ s \in Subscriber
    BY DEF Reading, Subscriber
  <2>3. used' \in [Subscriber -> Reading]
    BY <1>1, <2>1, <2>2
  <2> QED
    BY <1>1, <2>1, <2>3 DEF HostOK
<1>12. ASSUME NEW c \in Name, Reconcile(c) \/ EditConfigSet(c) PROVE HostOK'
  BY <1>2, <1>12 DEF Reconcile, EditConfigSet, history
<1>13. CASE Detect \/ GiveUp \/ NoPackages \/ ListPackagesFails
  BY <1>2, <1>13, Zenon DEF Detect, GiveUp, NoPackages, ListPackagesFails, history
<1>14. CASE HandlePackage
  <2>1. UNCHANGED <<disk, enabled, used, bucket, lost>>
    BY <1>14 DEF HandlePackage
  <2> QED
    BY <1>1, <2>1, SMTT(60), ZenonT(60) DEF HostOK
<1>15. CASE updateFileBackups \/ updateConfigSetStatus \/ notifyResources \/ EditSecret
  BY <1>2, <1>15 DEF updateFileBackups, updateConfigSetStatus, notifyResources, EditSecret
<1> QED
  BY <1>3, <1>4, <1>5, <1>6, <1>7, <1>8, <1>9, <1>10, <1>11, <1>12, <1>13, <1>14, <1>15, SMTT(60), ZenonT(60)
     DEF Next, Proceed, HandlesFile

(* Every step leaves well formed entries in the status of the ManagedNode.  *)
LEMMA ReportStep ==
  ASSUME SetInv, Next
  PROVE  ReportOK'
<1>0. menu' = menu /\ menu \in Menu /\ status \in [Name -> StatusEntry] /\ backups \in [Path -> Contents]
  BY Frame DEF SetInv, ObjectsOK, ReportOK
<1>1. StatusEntry' = StatusEntry
  BY <1>0 DEF StatusEntry, ConfigSets
<1>2. ASSUME UNCHANGED reported PROVE ReportOK'
  BY <1>0, <1>1, <1>2 DEF ReportOK, reported
<1>3. ASSUME NEW cs \in ConfigSets(menu), NEW result \in {"ok", "error", "conflict"}
      PROVE  Entry(cs, result) \in StatusEntry
  BY DEF Entry, StatusEntry
<1>4. ASSUME NEW c \in Name, Reconcile(c) PROVE ReportOK'
  <2>1. UNCHANGED backups /\ status' \in {status, [status EXCEPT ![c] = NoEntry]}
    BY <1>4 DEF Reconcile
  <2>2. NoEntry \in StatusEntry
    BY DEF StatusEntry
  <2>3. status' \in [Name -> StatusEntry]
    BY <1>0, <2>1, <2>2
  <2> QED
    BY <1>0, <1>1, <2>1, <2>3 DEF ReportOK
<1>5. CASE Detect
  <2>1. run.at = "detect" /\ UNCHANGED backups
        /\ status' \in {status, [status EXCEPT ![run.name] = Entry(run.cs, "conflict")]}
    BY <1>5 DEF Detect
  <2>2. run.cs \in ConfigSets(menu) /\ run.name \in Name
    BY <2>1, Known
  <2>3. Entry(run.cs, "conflict") \in StatusEntry
    BY <1>3, <2>2
  <2>4. status' \in [Name -> StatusEntry]
    BY <1>0, <2>1, <2>2, <2>3
  <2> QED
    BY <1>0, <1>1, <2>1, <2>4 DEF ReportOK
<1>6. CASE updateConfigSetStatus
  <2>1. run.at = "status" /\ UNCHANGED backups
        /\ \/ UNCHANGED status
           \/ status' = [status EXCEPT ![run.name] = Entry(run.cs, "error")]
           \/ status' = [status EXCEPT ![run.name] = Entry(run.cs, "ok")]
    BY <1>6, ZenonT(60) DEF updateConfigSetStatus
  <2>2. run.cs \in ConfigSets(menu) /\ run.name \in Name
    BY <2>1, Known
  <2>3. Entry(run.cs, "error") \in StatusEntry /\ Entry(run.cs, "ok") \in StatusEntry
    BY <1>3, <2>2
  <2>4. status' \in [Name -> StatusEntry]
    BY <1>0, <2>1, <2>2, <2>3
  <2> QED
    BY <1>0, <1>1, <2>1, <2>4 DEF ReportOK
<1>7. CASE updateFileBackups
  <2>1. run.at = "backups" /\ UNCHANGED status
    BY <1>7 DEF updateFileBackups
  <2>2. PICK fails \in BOOLEAN :
          backups' = [p \in Path |-> IF ~fails /\ \E b \in run.saved : b.path = p
                                     THEN (CHOOSE b \in run.saved : b.path = p).hash ELSE backups[p]]
    BY <1>7 DEF updateFileBackups
  <2>3. run.saved \subseteq Saved
    BY <2>1, Known
  <2> DEFINE pick(p) == CHOOSE b \in run.saved : b.path = p
  <2>4. ASSUME NEW p \in Path, \E b \in run.saved : b.path = p PROVE pick(p).hash \in Contents
    <3>1. pick(p) \in run.saved
      BY <2>4
    <3> QED
      BY <2>3, <3>1 DEF Saved
  <2>5. backups' \in [Path -> Contents]
    BY <1>0, <2>2, <2>4, SMTT(60), ZenonT(60)
  <2> QED
    BY <1>0, <1>1, <2>1, <2>5 DEF ReportOK
<1>8. ASSUME NEW c \in Name, EditConfigSet(c) PROVE ReportOK'
  BY <1>2, <1>8, ZenonT(60) DEF EditConfigSet
<1>9. CASE HandlePackage \/ NoPackages \/ ListPackagesFails \/ GiveUp
  BY <1>2, <1>9, ZenonT(60) DEF HandlePackage, NoPackages, ListPackagesFails, GiveUp
<1>10. CASE HandlesFile
  BY <1>2, <1>10, ZenonT(60) DEF HandlesFile, SkipFile, RenderFails, writeFileContent, HandleDirectory, HandleSymlink,
              HandleAbsent, HandleUnhandled
<1>11. CASE HandleService \/ Restart \/ RestartFails \/ handleExecutions
  BY <1>2, <1>11, Zenon DEF HandleService, Restart, RestartFails, handleExecutions
<1>12. CASE notifyResources \/ Crash \/ RunGC \/ BlobsAge \/ Meddle \/ EditSecret
  BY <1>2, <1>12, Zenon DEF notifyResources, Crash, RunGC, BlobsAge, Meddle, EditSecret
<1>13. ASSUME NEW s \in Service, ServiceDies(s) PROVE ReportOK'
  BY <1>2, <1>13, ZenonT(60) DEF ServiceDies
<1> QED
  BY <1>4, <1>5, <1>6, <1>7, <1>8, <1>9, <1>10, <1>11, <1>12, <1>13, SMTT(60), ZenonT(60) DEF Next, Proceed, HandlesFile

(* No step forgets that a blob was saved.                                    *)
LEMMA BlobsKept ==
  ASSUME SetInv, Next
  PROVE  \A x \in Contents : bucket[x] # "none" => bucket'[x] # "none"
<1>0. bucket \in [Contents -> BlobState]
  BY DEF SetInv, HostOK
<1>1. CASE HandlesFile
  <2>0. run.at # "idle"
    BY <1>1, ZenonT(60) DEF HandlesFile, SkipFile, RenderFails, writeFileContent, HandleDirectory, HandleSymlink,
              HandleAbsent, HandleUnhandled, AtFile
  <2>1. FilesKnown
    BY <2>0, Known
  <2> QED
    BY <1>1, <2>1, FileStep, ZenonT(60) DEF BlobsStay
<1>2. CASE RunGC \/ BlobsAge
  <2>1. bucket' = GCFileBucket(bucket) \/ bucket' = [d \in DOMAIN bucket |-> Ageing(bucket[d])]
    BY <1>2 DEF RunGC, BlobsAge
  <2>2. \A b : b # "none" => Ageing(b) # "none"
    BY DEF Ageing
  <2> QED
    BY <1>0, <2>1, <2>2, ZenonT(60) DEF GCFileBucket
<1>3. ASSUME NEW c \in Name, Reconcile(c) \/ EditConfigSet(c) PROVE UNCHANGED bucket
  BY <1>3, ZenonT(60) DEF Reconcile, EditConfigSet, host
<1>4. CASE Detect \/ GiveUp \/ HandlePackage \/ NoPackages \/ ListPackagesFails
  BY <1>4, ZenonT(60) DEF Detect, GiveUp, HandlePackage, NoPackages, ListPackagesFails, host
<1>5. CASE HandleService \/ Restart \/ RestartFails \/ handleExecutions
  BY <1>5, Zenon DEF HandleService, Restart, RestartFails, handleExecutions
<1>6. CASE updateFileBackups \/ updateConfigSetStatus \/ notifyResources \/ Crash \/ EditSecret \/ Meddle
  BY <1>6, Zenon DEF updateFileBackups, updateConfigSetStatus, notifyResources, Crash, EditSecret, Meddle, host
<1>7. ASSUME NEW s \in Service, ServiceDies(s) PROVE UNCHANGED bucket
  BY <1>7 DEF ServiceDies
<1> QED
  BY <1>1, <1>2, <1>3, <1>4, <1>5, <1>6, <1>7 DEF Next, Proceed, HandlesFile

(* Every step keeps the blobs that the status, or the running reconcile,    *)
(* names.                                                                   *)
LEMMA BlobsStep ==
  ASSUME SetInv, Next
  PROVE  BlobsOK'
<1>1. \A x \in Contents : bucket[x] # "none" => bucket'[x] # "none"
  BY BlobsKept
<1>2. run.saved \subseteq Saved /\ \A b \in run.saved : bucket[b.hash] # "none"
  <2>1. run \in SetRun
    BY IdleRun DEF SetInv, RunOK, Reconciling
  <2> QED
    BY <2>1, ZenonT(60) DEF SetRun, SetInv, BlobsOK
<1>3. \A b \in run'.saved : b \in run.saved \/ bucket'[b.hash] # "none"
  BY RunStep
<1>4. \A b \in run'.saved : bucket'[b.hash] # "none"
  BY <1>1, <1>2, <1>3 DEF Saved
<1>5. BackupsSaved /\ backups \in [Path -> Contents]
  BY DEF SetInv, BlobsOK, ReportOK
<1>6. CASE UNCHANGED backups
  BY <1>1, <1>4, <1>5, <1>6, ZenonT(60) DEF BlobsOK, BackupsSaved
<1>7. CASE updateFileBackups
  <2>2. PICK fails \in BOOLEAN :
          backups' = [p \in Path |-> IF ~fails /\ \E b \in run.saved : b.path = p
                                     THEN (CHOOSE b \in run.saved : b.path = p).hash ELSE backups[p]]
    BY <1>7 DEF updateFileBackups
  <2> DEFINE pick(p) == CHOOSE b \in run.saved : b.path = p
  <2>3. ASSUME NEW p \in Path, backups'[p] # "" PROVE bucket'[backups'[p]] # "none"
    <3>1. CASE ~fails /\ \E b \in run.saved : b.path = p
      <4>1. pick(p) \in run.saved /\ backups'[p] = pick(p).hash
        BY <2>2, <3>1
      <4> HIDE DEF pick
      <4> QED
        BY <1>1, <1>2, <4>1 DEF Saved
    <3>2. CASE ~(~fails /\ \E b \in run.saved : b.path = p)
      <4>1. backups'[p] = backups[p]
        BY <2>2, <3>2
      <4> QED
        BY <1>1, <1>5, <2>3, <4>1, ZenonT(60) DEF BackupsSaved
    <3> QED
      BY <3>1, <3>2
  <2> QED
    BY <1>4, <2>3, ZenonT(60) DEF BlobsOK, BackupsSaved
<1>8. updateFileBackups \/ UNCHANGED backups
  <2>3. ASSUME NEW c \in Name, Reconcile(c) \/ EditConfigSet(c) PROVE UNCHANGED backups
    BY <2>3, ZenonT(60) DEF Reconcile, EditConfigSet, reported
  <2>4. CASE Detect \/ GiveUp \/ HandlePackage \/ NoPackages \/ ListPackagesFails
    BY <2>4, ZenonT(60) DEF Detect, GiveUp, HandlePackage, NoPackages, ListPackagesFails, reported
  <2>5. CASE HandleService \/ Restart \/ RestartFails \/ handleExecutions
    BY <2>5, Zenon DEF HandleService, Restart, RestartFails, handleExecutions, reported
  <2>6. CASE updateConfigSetStatus \/ notifyResources \/ Crash \/ EditSecret \/ Meddle \/ RunGC \/ BlobsAge
    BY <2>6, ZenonT(60) DEF updateConfigSetStatus, notifyResources, Crash, EditSecret, Meddle, RunGC, BlobsAge, reported
  <2>7. ASSUME NEW s \in Service, ServiceDies(s) PROVE UNCHANGED backups
    BY <2>7 DEF ServiceDies, reported
  <2>8. CASE HandlesFile
    BY <2>8, Zenon DEF HandlesFile, SkipFile, RenderFails, writeFileContent, HandleDirectory, HandleSymlink,
                HandleAbsent, HandleUnhandled, reported
  <2> QED
    BY <2>3, <2>4, <2>5, <2>6, <2>7, <2>8 DEF Next, Proceed, HandlesFile
<1> QED
  BY <1>6, <1>7, <1>8

(* At first, what runs has read its files as they are.                        *)
LEMMA InitiallyRead ==
  ASSUME Init
  PROVE  AsRead(used, disk)
<1>1. menu \in Menu /\ used = menu.used /\ disk = menu.disk
  BY Zenon DEF Init
<1>2. AsRead(menu.used, menu.disk)
  BY <1>1, ConfigSetAssumption
<1> QED
  BY <1>1, <1>2, ZenonT(60)

(* The inductive invariant of the ConfigSet reconciler.                     *)
LEMMA SetInvariant == Spec => []SetInv
<1>1. Init => SetInv
  <2> SUFFICES ASSUME Init PROVE SetInv
    BY SMTT(60), ZenonT(60)
  <2>0. EditBound \in Nat /\ menu.faults \in Nat
    BY ConfigSetAssumption, ZenonT(60) DEF Init
  <2>1. menu \in Menu /\ menu.secret \subseteq Secret \cup {""} /\ menu.disk \in [Path -> Held]
    BY ConfigSetAssumption DEF Init
  <2>2. CountsOK
    <3>1. edits = 0 /\ faults = 0
      BY ZenonT(60) DEF Init
    <3> QED
      BY <2>0, <3>1 DEF CountsOK
  <2>3. ObjectsOK
    <3>1. spec \in [Name -> ConfigSets(menu) \cup {Deleted}] /\ \A c \in Name : spec[c] \in menu.specs[c]
      BY DEF Init, ConfigSets
    <3>2. /\ gen \in [Name -> Nat]
          /\ \A c \in Name : gen[c] <= edits + 1 /\ (gen[c] = 0 <=> spec[c] = Deleted)
      <4>1. gen = [c \in Name |-> IF spec[c] = Deleted THEN 0 ELSE 1] /\ edits = 0
        BY DEF Init
      <4> QED
        BY <4>1, SMTT(60), ZenonT(60)
    <3>3. 0 \in 0..(EditBound + 1)
      BY <2>0, SMTT(60), ZenonT(60)
    <3>4. told \in [Target -> [Name -> 0..(EditBound + 1)]]
      BY <3>3, ZenonT(60) DEF Init
    <3>5. secret \in Secret \cup {""} /\ cond \in [Name -> {"unset", "true", "false"}]
      BY <2>1, ZenonT(60) DEF Init
    <3> QED
      BY <2>1, <3>1, <3>2, <3>4, <3>5, ZenonT(60) DEF ObjectsOK
  <2>4. HostOK
    <3>1. disk = menu.disk /\ used = menu.used /\ enabled = {} /\ lost = {}
      BY DEF Init
    <3>2. disk \in [Path -> Held]
      BY <2>1, <3>1
    <3>3. "none" \in BlobState
      BY DEF BlobState
    <3>4. bucket \in [Contents -> BlobState]
      BY <3>3 DEF Init, Contents
    <3>5. used \in [Subscriber -> Reading]
      <4>1. used = [s \in Subscriber |-> used[s]]
        BY InitiallyRead DEF AsRead
      <4>2. ASSUME NEW s \in Subscriber PROVE used[s] \in Reading
        <5>1. used[s] = Down \/ \E ps \in SUBSET Path : used[s] \in [ps -> Text]
          BY InitiallyRead, SMTT(60), ZenonT(60) DEF AsRead
        <5> QED
          BY <5>1 DEF Reading
      <4> QED
        BY <4>1, <4>2
    <3> QED
      BY <3>1, <3>2, <3>4, <3>5, SMTT(60), ZenonT(60) DEF HostOK
  <2>5. ReportOK
    BY ZenonT(60) DEF Init, ReportOK, StatusEntry, Contents
  <2>6. RunOK /\ BlobsOK
    BY IdleRun DEF Init, RunOK, BlobsOK, BackupsSaved
  <2> QED
    BY <2>2, <2>3, <2>4, <2>5, <2>6 DEF SetInv
<1>2. SetInv /\ [Next]_vars => SetInv'
  <2>1. SetInv /\ Next => SetInv'
    BY CountsStep, ObjectsStep, HostStep, ReportStep, RunStep, BlobsStep DEF SetInv
  <2>2. ASSUME SetInv, UNCHANGED vars PROVE SetInv'
    <3>1. /\ UNCHANGED <<menu, spec, gen, told, secret, cond, edits, faults>>
          /\ UNCHANGED <<disk, enabled, used, bucket, lost, status, backups, run>>
      BY <2>2, SMTT(60), ZenonT(60) DEF vars, objects, host, reported, history
    <3>2. CountsOK' /\ ObjectsOK'
      BY <2>2, <3>1, ZenonT(60) DEF SetInv, CountsOK, ObjectsOK, ConfigSets
    <3>3. HostOK' /\ BlobsOK'
      BY <2>2, <3>1 DEF SetInv, HostOK, BlobsOK, BackupsSaved
    <3>4. ReportOK' /\ RunOK'
      <4>1. ConfigSets(menu)' = ConfigSets(menu)
        BY <3>1 DEF ConfigSets
      <4>2. StatusEntry' = StatusEntry /\ SetRun' = SetRun
        BY <4>1 DEF StatusEntry, SetRun
      <4> QED
        BY <2>2, <3>1, <4>1, <4>2, ZenonT(60) DEF SetInv, ReportOK, RunOK, Reconciling, Placed
    <3> QED
      BY <3>2, <3>3, <3>4 DEF SetInv
  <2> QED
    BY <2>1, <2>2
<1> QED
  BY <1>1, <1>2, PTL DEF Spec

(***************************************************************************)
(* The state of the reconciler stays well-formed: between reconciles nothing *)
(* of the last one remains, a status entry names a ConfigSet that existed,   *)
(* and a ConfigSet has a generation exactly while it exists.                *)
(***************************************************************************)
THEOREM ConfigSetTypes == Spec => []TypeOK
<1>1. SetInv => TypeOK
  <2> SUFFICES ASSUME SetInv PROVE TypeOK
    BY SMTT(60), ZenonT(60)
  <2>1. /\ menu \in Menu /\ told \in [Target -> [Name -> 0..(EditBound + 1)]] /\ secret \in Secret \cup {""}
        /\ cond \in [Name -> {"unset", "true", "false"}]
        /\ \A c \in Name : spec[c] \in menu.specs[c] /\ (gen[c] = 0 <=> spec[c] = Deleted)
    BY DEF SetInv, ObjectsOK
  <2>2. \A p \in Path : /\ disk[p].kind \in {"none", "file", "directory", "symlink"}
                        /\ disk[p].kind \in {"none", "directory"} => disk[p].data = ""
    <3>1. \A p \in Path : disk[p] \in Held
      BY DEF SetInv, HostOK
    <3> QED
      BY <3>1 DEF Held
  <2>3. enabled \subseteq Service /\ lost \subseteq Subscriber /\ bucket \in [Data \cup {""} -> BlobState]
    BY DEF SetInv, HostOK, Contents
  <2>4. \A s \in Subscriber : used[s] = Down \/ DOMAIN used[s] \subseteq Path
    <3>1. \A s \in Subscriber : used[s] \in Reading
      BY DEF SetInv, HostOK
    <3>2. \A x \in Reading : x = Down \/ DOMAIN x \subseteq Path
      BY DEF Reading
    <3> QED
      BY <3>1, <3>2
  <2>5. \A c \in Name : status[c] # NoEntry =>
           status[c].spec # Deleted /\ status[c].result \in {"ok", "error", "conflict"}
    <3>1. \A c \in Name : status[c] \in StatusEntry
      BY DEF SetInv, ReportOK
    <3>2. Deleted \notin ConfigSets(menu)
      BY DEF ConfigSets
    <3> QED
      BY <3>1, <3>2 DEF StatusEntry
  <2>6. backups \in [Path -> Data \cup {""}]
    BY DEF SetInv, ReportOK, Contents
  <2>7. run.at \in Steps /\ (run.at = "idle" <=> run = Idle) /\ run.todo \subseteq Service
    <3>1. run \in SetRun /\ (run.at = "idle" <=> run = Idle)
      BY IdleRun DEF SetInv, RunOK, Reconciling
    <3> QED
      BY <3>1 DEF SetRun
  <2>8. edits \in 0..EditBound /\ faults \in 0..menu.faults
    BY DEF SetInv, CountsOK
  <2> QED
    BY <2>1, <2>2, <2>3, <2>4, <2>5, <2>6, <2>7, <2>8, ZenonT(60) DEF TypeOK
<1> QED
  BY <1>1, SetInvariant, PTL

(***************************************************************************)
(* A backup in the status of the node was saved: its blob is in the bucket,   *)
(* or was there until it was removed for its age (writeFileContent,           *)
(* updateFileBackups, runFileBucketGC).                                     *)
(***************************************************************************)
THEOREM BackupsAreSaved == Spec => []BackupsSaved
<1>1. SetInv => BackupsSaved
  BY ZenonT(60) DEF SetInv, BlobsOK
<1> QED
  BY <1>1, SetInvariant, PTL

-----------------------------------------------------------------------------
(* The subscribers.                                                        *)

ExecsOn(cs, p) == Names({e \in Range(cs.execs) : p \in e.subs})

(* The reconcile r will still tell s that p has changed.                     *)
Owed(r, s, p) ==
  \/ r.at = "files" /\ p \in r.changed /\ s \in Names(Concerned(r.cs, {p}))
  \/ r.at \in {"services", "restarts"} /\ s \in r.todo
  \/ r.at \in {"services", "restarts", "executions"} /\ p \in r.changed /\ s \in ExecsOn(r.cs, p)

(* What a subscriber has read is what is there, or it will be told.            *)
FreshAt(s, p) ==
  used[s][p] = disk[p].data \/ disk[p].data = Junk \/ s \in lost \/ Owed(run, s, p)

Fresh == \A s \in Subscriber : used[s] # Down => \A p \in DOMAIN used[s] : FreshAt(s, p)

(* Only services that a change concerns are restarted.                       *)
Due(r) == r.at \in {"services", "restarts"} => r.todo \subseteq DueServices(r)

TodoDue == Due(run)

(* What is owed stays owed from one step of the reconcile to the next.          *)
LEMMA OwedOn ==
  ASSUME menu \in Menu, NEW r, Reconciling(r), NEW s, NEW p
  PROVE  /\ p \in r.changed /\ s \in ExecsOn(r.cs, p) => Owed(ToExecutions(r), s, p)
         /\ s \in r.todo \/ (p \in r.changed /\ s \in ExecsOn(r.cs, p)) => Owed(ToRestarts(r), s, p)
         /\ p \in r.changed /\ s \in Names(Concerned(r.cs, {p})) => Owed(ToServices(r), s, p)
<1>1. ASSUME p \in r.changed, s \in ExecsOn(r.cs, p) PROVE Owed(ToExecutions(r), s, p)
  <2>1. DueExecs(r) # {}
    BY <1>1, Zenon DEF ExecsOn, Names, DueExecs
  <2>2. ToExecutions(r) = [r EXCEPT !.at = "executions", !.i = 1]
    BY <2>1 DEF ToExecutions
  <2>3. ToExecutions(r).at = "executions" /\ ToExecutions(r).changed = r.changed /\ ToExecutions(r).cs = r.cs
    BY <2>2, ZenonT(60) DEF Reconciling, SetRun
  <2> QED
    BY <1>1, <2>3, ZenonT(60) DEF Owed
<1>2. ASSUME s \in r.todo \/ (p \in r.changed /\ s \in ExecsOn(r.cs, p)) PROVE Owed(ToRestarts(r), s, p)
  <2>1. CASE r.todo = {}
    BY <1>1, <1>2, <2>1, SMTT(60), ZenonT(60) DEF ToRestarts
  <2>2. CASE r.todo # {}
    <3>1. ToRestarts(r) = [r EXCEPT !.at = "restarts", !.i = 1]
      BY <2>2 DEF ToRestarts
    <3>2. /\ ToRestarts(r).at = "restarts" /\ ToRestarts(r).changed = r.changed
          /\ ToRestarts(r).cs = r.cs /\ ToRestarts(r).todo = r.todo
      BY <3>1, ZenonT(60) DEF Reconciling, SetRun
    <3> QED
      BY <1>2, <3>2 DEF Owed
  <2> QED
    BY <2>1, <2>2
<1>3. ASSUME p \in r.changed, s \in Names(Concerned(r.cs, {p})) PROVE Owed(ToServices(r), s, p)
  <2>1. s \in DueServices(r) \/ s \in ExecsOn(r.cs, p)
    <3>1. PICK x \in Concerned(r.cs, {p}) : s = x.name
      BY <1>3, SMTT(60), ZenonT(60) DEF Names
    <3>2. CASE x \in Range(r.cs.svcs) /\ x.ensure = "running" /\ x.subs \cap {p} # {}
      <4>1. x.subs \cap r.changed # {}
        BY <1>3, <3>2
      <4> QED
        BY <3>1, <3>2, <4>1, SMTT(60), ZenonT(60) DEF DueServices
    <3>3. CASE x \in Range(r.cs.execs) /\ x.subs \cap {p} # {}
      BY <3>1, <3>3 DEF ExecsOn, Names
    <3> QED
      BY <3>1, <3>2, <3>3 DEF Concerned
  <2>2. CASE r.cs.svcs = <<>>
    <3>1. DueServices(r) = {}
      BY <2>2, SMTT(60), ZenonT(60) DEF DueServices, Range
    <3> QED
      BY <1>1, <1>3, <2>1, <2>2, <3>1 DEF ToServices
  <2>3. CASE r.cs.svcs # <<>>
    <3> DEFINE due == DueServices(r)
               q == [r EXCEPT !.at = "services", !.i = 1, !.todo = due]
    <3>1. ToServices(r) = q
      BY <2>3 DEF ToServices
    <3> HIDE DEF due
    <3>2. q.at = "services" /\ q.changed = r.changed /\ q.cs = r.cs /\ q.todo = due
      BY ZenonT(60) DEF Reconciling, SetRun
    <3> HIDE DEF q
    <3> QED
      BY <1>3, <2>1, <3>1, <3>2 DEF Owed, due
  <2> QED
    BY <2>2, <2>3, SMTT(60), ZenonT(60)
<1> QED
  BY <1>1, <1>2, <1>3, ZenonT(60)

(* The services to restart stay subscribers of changed files from one step  *)
(* of the reconcile to the next.                                            *)
LEMMA DueOn ==
  ASSUME menu \in Menu, NEW r, Reconciling(r)
  PROVE  /\ Due(ToExecutions(r)) /\ Due(ToServices(r)) /\ Due(ToFiles(r)) /\ Due(ToBackups(r)) /\ Due(ToStatus(r))
         /\ r.todo \subseteq DueServices(r) => Due(ToRestarts(r))
<1>1. Due(ToExecutions(r)) /\ Due(ToBackups(r)) /\ Due(ToStatus(r))
  BY Flow DEF Due
<1>2. Due(ToServices(r))
  <2>1. CASE r.cs.svcs # <<>>
    <3> DEFINE due == DueServices(r)
               q == [r EXCEPT !.at = "services", !.i = 1, !.todo = due]
    <3>1. ToServices(r) = q
      BY <2>1 DEF ToServices
    <3>0. DueServices(r) = due
      OBVIOUS
    <3> HIDE DEF due
    <3>2. q.at = "services" /\ q.changed = r.changed /\ q.cs = r.cs /\ q.todo = due
      BY DEF Reconciling, SetRun
    <3> HIDE DEF q
    <3>3. DueServices(q) = DueServices(r)
      BY <3>2 DEF DueServices
    <3> QED
      BY <3>0, <3>1, <3>2, <3>3 DEF Due
  <2> QED
    BY <1>1, <2>1 DEF ToServices
<1>3. Due(ToFiles(r))
  <2>1. CASE r.cs.files # <<>>
    <3>1. ToFiles(r).at = "files"
      BY <2>1 DEF ToFiles, Reconciling, SetRun
    <3> QED
      BY <3>1 DEF Due
  <2> QED
    BY <1>2, <2>1 DEF ToFiles
<1>4. ASSUME r.todo \subseteq DueServices(r) PROVE Due(ToRestarts(r))
  <2>1. CASE r.todo # {}
    <3> DEFINE q == [r EXCEPT !.at = "restarts", !.i = 1]
    <3>1. ToRestarts(r) = q
      BY <2>1 DEF ToRestarts
    <3>2. q.changed = r.changed /\ q.cs = r.cs /\ q.todo = r.todo
      BY DEF Reconciling, SetRun
    <3> HIDE DEF q
    <3>3. DueServices(q) = DueServices(r)
      BY <3>2 DEF DueServices
    <3> QED
      BY <1>4, <3>1, <3>2, <3>3 DEF Due
  <2> QED
    BY <1>1, <2>1 DEF ToRestarts
<1> QED
  BY <1>1, <1>2, <1>3, <1>4, SMTT(60), ZenonT(60)

(* Where a restart, or its failure, leaves the reconcile.                     *)
Restarted(r, s, e) ==
  /\ Reconciling(r) /\ Same(r, run) /\ r.at = "restarts"
  /\ r.changed = run.changed /\ r.todo = run.todo \ {s} /\ r.todo \subseteq run.todo
  /\ r.err = (run.err \/ e)
  /\ run' = IF r.todo = {} THEN ToExecutions(r) ELSE r

(* A restart, done or failed, takes its service off the list.               *)
LEMMA AfterRestart ==
  ASSUME SetInv, run.at = "restarts", NEW s, NEW e, e \in BOOLEAN /\ RestartDone(s, e)
  PROVE  \E r : Restarted(r, s, e)
<1> DEFINE todo == run.todo \ {s}
           err == run.err \/ e
           r == [run EXCEPT !.todo = todo, !.err = err]
<1>1. run' = IF r.todo = {} THEN ToExecutions(r) ELSE r
  BY SMTT(60), ZenonT(60) DEF RestartDone
<1>2. Reconciling(run) /\ todo \in SUBSET Service /\ err \in BOOLEAN /\ todo \subseteq run.todo
  BY Known
<1> HIDE DEF todo, err
<1>3. /\ r \in SetRun /\ r.cs = run.cs /\ r.name = run.name /\ r.gen = run.gen /\ r.at = run.at
      /\ r.changed = run.changed /\ r.todo = todo /\ r.err = err
  BY <1>2, ZenonT(60) DEF Reconciling, SetRun
<1> HIDE DEF r
<1>4. Restarted(r, s, e)
  BY <1>1, <1>2, <1>3, SMTT(60), ZenonT(60) DEF Restarted, Reconciling, Same, todo, err
<1> QED
  BY <1>4

(* Only services that subscribe to a changed file are to be restarted.      *)
LEMMA TodoStep ==
  ASSUME SetInv, TodoDue, Next
  PROVE  TodoDue'
<1>0. menu \in Menu
  BY ZenonT(60) DEF SetInv, ObjectsOK
<1>1. ASSUME Due(run') PROVE TodoDue'
  BY <1>1 DEF TodoDue, Due, DueServices
<1>2. ASSUME run' = Idle \/ UNCHANGED run PROVE TodoDue'
  BY <1>1, <1>2, IdleRun DEF TodoDue, Due
<1>3. ASSUME NEW r, Reconciling(r), Same(r, run), r.at = run.at, r.changed = run.changed, r.todo \subseteq run.todo
      PROVE  Due(r)
  <2>1. DueServices(r) = DueServices(run)
    BY <1>3 DEF DueServices, Same
  <2> QED
    BY <1>3, <2>1, SMTT(60), ZenonT(60) DEF TodoDue, Due
<1>4. ASSUME NEW c \in Name, Reconcile(c) PROVE TodoDue'
  <2>1. run' = run \/ run' = [Idle EXCEPT !.at = "detect", !.name = c, !.cs = spec[c], !.gen = gen[c]]
    BY <1>4 DEF Reconcile
  <2>2. UNCHANGED run \/ run'.at = "detect"
    BY <2>1, IdleRun, ZenonT(60) DEF SetRun
  <2> QED
    BY <1>1, <1>2, <2>2 DEF Due
<1>5. CASE Detect
  <2>1. run.at = "detect" /\ (run' = Idle \/ run' = ToPackages(run))
    BY <1>5 DEF Detect
  <2>2. Reconciling(run)
    BY <2>1, Known
  <2>3. ToPackages(run).at = "packages"
    BY <2>2, ZenonT(60) DEF ToPackages, Reconciling, SetRun
  <2> QED
    BY <1>1, <1>2, <2>1, <2>3 DEF Due
<1>6. CASE GiveUp \/ notifyResources \/ Crash
  BY <1>2, <1>6, ZenonT(60) DEF GiveUp, notifyResources, Crash
<1>7. CASE HandlePackage
  <2>1. run.at = "packages"
    BY <1>7, ZenonT(60) DEF HandlePackage
  <2>2. PICK fails \in BOOLEAN :
          LET err == fails \/ PackageEnsureFromString(run.cs.pkgs[run.i].ensure) = "unhandled"
              r == [run EXCEPT !.err = @ \/ err]
          IN  run' = AfterItem(r, r.cs.pkgs, ToFiles(r))
    BY <1>7 DEF HandlePackage
  <2> DEFINE err == fails \/ PackageEnsureFromString(run.cs.pkgs[run.i].ensure) = "unhandled"
             r == [run EXCEPT !.err = @ \/ err]
  <2>3. run' = AfterItem(r, r.cs.pkgs, ToFiles(r)) /\ err \in BOOLEAN
    BY <2>2
  <2> HIDE DEF err
  <2>4. Reconciling(r) /\ r.at = "packages"
    BY <2>1, <2>3, Errors, SMTT(60), ZenonT(60)
  <2> HIDE DEF r
  <2>5. Due(ToFiles(r))
    BY <1>0, <2>4, DueOn
  <2>6. [r EXCEPT !.i = @ + 1].at = "packages"
    BY <2>4 DEF Reconciling, SetRun
  <2>7. Due([r EXCEPT !.i = @ + 1])
    BY <2>6, SMTT(60), ZenonT(60) DEF Due
  <2> QED
    BY <1>1, <2>3, <2>5, <2>7, SMTT(60), ZenonT(60) DEF AfterItem
<1>8. CASE NoPackages
  <2>1. Reconciling(run) /\ run' = ToFiles(run)
    BY <1>8, Known, SMTT(60), ZenonT(60) DEF NoPackages
  <2> QED
    BY <1>0, <1>1, <2>1, DueOn, SMTT(60), ZenonT(60)
<1>9. CASE ListPackagesFails
  <2> DEFINE r == [run EXCEPT !.err = TRUE]
  <2>1. run.at = "packages" /\ run' = ToFiles(r)
    BY <1>9 DEF ListPackagesFails
  <2>2. r = [run EXCEPT !.err = @ \/ TRUE]
    BY Zenon
  <2>3. Reconciling(r)
    BY <2>1, <2>2, Errors, Zenon
  <2> HIDE DEF r
  <2> QED
    BY <1>0, <1>1, <2>1, <2>3, DueOn
<1>10. CASE HandlesFile
  <2>0. run.at = "files"
    BY <1>10, ZenonT(60) DEF HandlesFile, SkipFile, RenderFails, writeFileContent, HandleDirectory, HandleSymlink,
              HandleAbsent, HandleUnhandled, AtFile
  <2>1. PICK d, ch, saved, err : Finished(d, ch, saved, err)
    BY <1>10, <2>0, Known, FileStep, Zenon
  <2>2. PICK r : After(r, ch, saved, err)
    BY <2>0, <2>1, AfterFile, ZenonT(60)
  <2>3. Reconciling(r) /\ r.at = "files" /\ run' = AfterItem(r, r.cs.files, ToServices(r))
    BY <2>2 DEF After
  <2>4. [r EXCEPT !.i = @ + 1].at = "files"
    BY <2>3 DEF Reconciling, SetRun
  <2>5. Due([r EXCEPT !.i = @ + 1])
    BY <2>4, SMTT(60), ZenonT(60) DEF Due
  <2>6. Due(ToServices(r))
    BY <1>0, <2>3, DueOn
  <2> QED
    BY <1>1, <2>3, <2>5, <2>6, ZenonT(60) DEF AfterItem
<1>11. CASE HandleService
  <2>1. run.at = "services" /\ \E failed : LET r == [run EXCEPT !.err = @ \/ failed # {}]
                                          IN  run' = AfterItem(r, r.cs.svcs, ToRestarts(r))
    BY <1>11, Zenon DEF HandleService
  <2>2. PICK failed : LET r == [run EXCEPT !.err = @ \/ failed # {}]
                      IN  run' = AfterItem(r, r.cs.svcs, ToRestarts(r))
    BY <2>1
  <2> DEFINE r == [run EXCEPT !.err = @ \/ failed # {}]
             next == [r EXCEPT !.i = @ + 1]
  <2>3. run' = next \/ run' = ToRestarts(r)
    BY <2>2 DEF AfterItem
  <2>4. Reconciling(r) /\ Same(r, run) /\ r.at = run.at /\ r.changed = run.changed /\ r.todo = run.todo
    BY <2>1, Errors, ZenonT(60)
  <2> HIDE DEF r
  <2>5. Due(r)
    BY <1>3, <2>4
  <2>6. r.todo \subseteq DueServices(r)
    BY <2>1, <2>4, <2>5, SMTT(60), ZenonT(60) DEF Due
  <2>7. Due(ToRestarts(r))
    BY <1>0, <2>4, <2>6, DueOn
  <2>8. next.at = r.at /\ next.todo = r.todo /\ next.changed = r.changed /\ next.cs = r.cs
    BY <2>4 DEF Reconciling, SetRun
  <2> HIDE DEF next
  <2>9. DueServices(next) = DueServices(r)
    BY <2>8 DEF DueServices
  <2>10. Due(next)
    BY <2>6, <2>8, <2>9, SMTT(60), ZenonT(60) DEF Due
  <2> QED
    BY <1>1, <2>3, <2>7, <2>10, ZenonT(60)
<1>12. CASE Restart \/ RestartFails
  <2>1. run.at = "restarts" /\ \E s, e : e \in BOOLEAN /\ RestartDone(s, e)
    BY <1>12, ZenonT(60) DEF Restart, RestartFails
  <2>2. PICK s, e : e \in BOOLEAN /\ RestartDone(s, e)
    BY <2>1
  <2>3. PICK r : Restarted(r, s, e)
    BY <2>1, <2>2, AfterRestart, SMTT(60), ZenonT(60)
  <2>4. Reconciling(r) /\ Same(r, run) /\ r.at = run.at /\ r.changed = run.changed /\ r.todo \subseteq run.todo
    BY <2>1, <2>3, ZenonT(60) DEF Restarted
  <2>5. Due(r)
    BY <1>3, <2>4, SMTT(60), ZenonT(60)
  <2>6. Due(ToExecutions(r))
    BY <1>0, <2>4, DueOn, SMTT(60), ZenonT(60)
  <2> QED
    BY <1>1, <2>3, <2>5, <2>6, ZenonT(60) DEF Restarted
<1>13. CASE handleExecutions
  <2>1. run.at = "executions" /\ \E failed : run' = ToBackups([run EXCEPT !.err = @ \/ failed # {}])
    BY <1>13 DEF handleExecutions
  <2>2. PICK failed : run' = ToBackups([run EXCEPT !.err = @ \/ failed # {}])
    BY <2>1
  <2> DEFINE r == [run EXCEPT !.err = @ \/ failed # {}]
  <2>3. Reconciling(r) /\ run' = ToBackups(r)
    BY <2>1, <2>2, Errors, ZenonT(60)
  <2> HIDE DEF r
  <2> QED
    BY <1>0, <1>1, <2>3, DueOn
<1>14. CASE updateFileBackups
  <2>1. Reconciling(run) /\ run' = ToStatus(run)
    BY <1>14, Known DEF updateFileBackups
  <2> QED
    BY <1>0, <1>1, <2>1, DueOn, SMTT(60), ZenonT(60)
<1>15. CASE updateConfigSetStatus
  <2>1. run.at = "status" /\ (run' = Idle \/ run' = [run EXCEPT !.at = "notify"])
    BY <1>15 DEF updateConfigSetStatus
  <2>2. Reconciling(run)
    BY <2>1, Known
  <2>3. [run EXCEPT !.at = "notify"].at = "notify"
    BY <2>2, ZenonT(60) DEF Reconciling, SetRun
  <2> QED
    BY <1>1, <1>2, <2>1, <2>3, ZenonT(60) DEF Due
<1>16. ASSUME NEW c \in Name, EditConfigSet(c) PROVE UNCHANGED run
  BY <1>16 DEF EditConfigSet
<1>17. ASSUME RunGC \/ BlobsAge \/ EditSecret \/ Meddle \/ \E s \in Service : ServiceDies(s)
       PROVE  UNCHANGED run
  BY <1>17, ZenonT(60) DEF RunGC, BlobsAge, EditSecret, Meddle, ServiceDies
<1> QED
  BY <1>2, <1>4, <1>5, <1>6, <1>7, <1>8, <1>9, <1>10, <1>11, <1>12, <1>13, <1>14, <1>15, <1>16, <1>17, SMTT(60), ZenonT(60)
     DEF Next, Proceed, HandlesFile

(* After a file has been handled, the subscribers of every changed file are    *)
(* owed a restart or a run.                                                 *)
LEMMA OwedAfterFile ==
  ASSUME SetInv, NEW ch, NEW saved, NEW err, NEW r, After(r, ch, saved, err), NEW s, NEW p,
         p \in run.changed \cup ch, s \in Names(Concerned(run.cs, {p}))
  PROVE  Owed(run', s, p)
<1>1. /\ Reconciling(r) /\ r.at = "files" /\ r.cs = run.cs /\ p \in r.changed
      /\ run' = AfterItem(r, r.cs.files, ToServices(r))
  BY SMTT(60), ZenonT(60) DEF After, Same
<1>2. s \in Names(Concerned(r.cs, {p})) /\ menu \in Menu
  BY <1>1 DEF SetInv, ObjectsOK
<1> DEFINE next == [r EXCEPT !.i = @ + 1]
<1>3. next.at = "files" /\ next.changed = r.changed /\ next.cs = r.cs
  BY <1>1 DEF Reconciling, SetRun
<1>4. run' = next \/ run' = ToServices(r)
  BY <1>1, ZenonT(60) DEF AfterItem
<1> HIDE DEF next
<1>5. Owed(next, s, p)
  BY <1>1, <1>2, <1>3, ZenonT(60) DEF Owed
<1>6. Owed(ToServices(r), s, p)
  BY <1>1, <1>2, OwedOn, ZenonT(60)
<1> QED
  BY <1>4, <1>5, <1>6, ZenonT(60)

(* A restart leaves owed what is owed to the others.                          *)
LEMMA OwedAfterRestart ==
  ASSUME SetInv, run.at = "restarts", NEW x, NEW e, NEW r, Restarted(r, x, e), NEW s, NEW p, s # x,
         Owed(run, s, p)
  PROVE  Owed(run', s, p)
<1>1. /\ Reconciling(r) /\ r.cs = run.cs /\ r.at = "restarts" /\ r.changed = run.changed
      /\ r.todo = run.todo \ {x} /\ run' = IF r.todo = {} THEN ToExecutions(r) ELSE r
  BY ZenonT(60) DEF Restarted, Same
<1>2. s \in r.todo \/ (p \in r.changed /\ s \in ExecsOn(r.cs, p))
  BY <1>1, ZenonT(60) DEF Owed
<1>3. CASE r.todo # {}
  BY <1>1, <1>2, <1>3, ZenonT(60) DEF Owed
<1>4. CASE r.todo = {}
  <2>1. menu \in Menu
    BY ZenonT(60) DEF SetInv, ObjectsOK
  <2> QED
    BY <1>1, <1>2, <1>4, <2>1, OwedOn, ZenonT(60)
<1> QED
  BY <1>3, <1>4, ZenonT(60)

(* Every step keeps what the subscribers have read up to date, or owes      *)
(* them a restart or a run, or loses them.                                  *)
LEMMA FreshStep ==
  ASSUME SetInv, TodoDue, Fresh, Next
  PROVE  Fresh'
<1> SUFFICES ASSUME NEW s \in Subscriber, used'[s] # Down, NEW p \in DOMAIN used'[s]
             PROVE  FreshAt(s, p)'
  BY SMTT(60), ZenonT(60) DEF Fresh
<1>0. menu \in Menu /\ disk \in [Path -> Held] /\ used \in [Subscriber -> Reading]
  BY DEF SetInv, ObjectsOK, HostOK
<1>1. ASSUME used'[s] = used[s] PROVE FreshAt(s, p) /\ p \in Path
  <2>1. used[s] # Down /\ p \in DOMAIN used[s] /\ used[s] \in Reading
    BY <1>0, <1>1
  <2>2. p \in Path
    BY <2>1, SMTT(60), ZenonT(60) DEF Reading
  <2> QED
    BY <2>1, <2>2 DEF Fresh
<1>2. ASSUME used'[s] = used[s], UNCHANGED disk, s \in lost => s \in lost',
             Owed(run, s, p) => Owed(run', s, p) \/ s \in lost'
      PROVE  FreshAt(s, p)'
  <2>1. FreshAt(s, p)
    BY <1>1, <1>2, SMTT(60), ZenonT(60)
  <2>2. \/ used'[s][p] = disk'[p].data \/ disk'[p].data = Junk \/ s \in lost' \/ Owed(run', s, p)
    BY <1>2, <2>1 DEF FreshAt
  <2> QED
    BY <2>2, ZenonT(60) DEF FreshAt, Owed
<1>3. ASSUME NEW x, used'[s] = Reads(x, disk), UNCHANGED disk PROVE FreshAt(s, p)'
  BY <1>3, SMTT(60), ZenonT(60) DEF FreshAt, Reads
<1>4. ASSUME UNCHANGED <<used, disk, lost>>,
             run.at \in {"idle", "detect", "packages", "backups", "status", "notify"}
             \/ UNCHANGED run
      PROVE  FreshAt(s, p)'
  BY <1>2, <1>4, ZenonT(60) DEF Owed
<1>5. ASSUME NEW c \in Name, Reconcile(c) \/ EditConfigSet(c) PROVE FreshAt(s, p)'
  <2>1. UNCHANGED <<used, disk, lost>> /\ (run.at = "idle" \/ UNCHANGED run)
    BY <1>5, IdleRun DEF Reconcile, EditConfigSet, host, history
  <2> QED
    BY <1>4, <2>1
<1>6. CASE Detect \/ GiveUp \/ HandlePackage \/ NoPackages \/ ListPackagesFails
  <2>1. UNCHANGED <<used, disk, lost>> /\ run.at \in {"detect", "packages"}
    BY <1>6, ZenonT(60) DEF Detect, GiveUp, HandlePackage, NoPackages, ListPackagesFails, host, history
  <2> QED
    BY <1>4, <2>1, ZenonT(60)
<1>7. CASE updateFileBackups \/ updateConfigSetStatus \/ notifyResources
  <2>1. UNCHANGED <<used, disk, lost>> /\ run.at \in {"backups", "status", "notify"}
    BY <1>7 DEF updateFileBackups, updateConfigSetStatus, notifyResources, host
  <2> QED
    BY <1>4, <2>1
<1>8. CASE RunGC \/ BlobsAge \/ EditSecret
  <2>1. UNCHANGED <<used, disk, lost>> /\ UNCHANGED run
    BY <1>8, SMTT(60), ZenonT(60) DEF RunGC, BlobsAge, EditSecret, host, history
  <2> QED
    BY <1>4, <2>1
<1>9. CASE Meddle
  <2>1. UNCHANGED <<used, lost, run>>
    BY <1>9, ZenonT(60) DEF Meddle
  <2>2. PICK q \in menu.meddle : disk' = [disk EXCEPT ![q] = File(Junk, "root", "0644")]
    BY <1>9, ZenonT(60) DEF Meddle
  <2>3. FreshAt(s, p) /\ p \in Path
    BY <1>1, <2>1, SMTT(60), ZenonT(60)
  <2>4. disk'[p].data = disk[p].data \/ disk'[p].data = Junk
    BY <1>0, <2>2, <2>3, SMTT(60), ZenonT(60) DEF File
  <2> QED
    BY <2>1, <2>3, <2>4, ZenonT(60) DEF FreshAt, Owed
<1>10. ASSUME NEW x \in Service, ServiceDies(x) PROVE FreshAt(s, p)'
  <2>1. used' = [used EXCEPT ![x] = Down] /\ lost' = lost \ {x} /\ UNCHANGED <<disk, run>>
    BY <1>10 DEF ServiceDies
  <2>2. s # x
    BY <1>0, <2>1
  <2>3. used'[s] = used[s] /\ (s \in lost => s \in lost')
    BY <1>0, <2>1, <2>2, SMTT(60), ZenonT(60)
  <2> QED
    BY <1>2, <2>1, <2>3
<1>11. CASE HandlesFile
  <2>0. run.at = "files"
    BY <1>11, ZenonT(60) DEF HandlesFile, SkipFile, RenderFails, writeFileContent, HandleDirectory, HandleSymlink,
              HandleAbsent, HandleUnhandled, AtFile
  <2>1. (\E d, ch, saved, err : Finished(d, ch, saved, err)) /\ UNCHANGED used
    BY <1>11, <2>0, Known, FileStep, ZenonT(60)
  <2>2. PICK d, ch, saved, err : Finished(d, ch, saved, err)
    BY <2>1
  <2>3. PICK r : After(r, ch, saved, err)
    BY <2>0, <2>2, AfterFile
  <2>4. FreshAt(s, p) /\ p \in Path
    BY <1>1, <2>1
  <2>5. disk' = d /\ lost' = lost \cup Missing(d, ch, err)
    BY <2>2, SMTT(60), ZenonT(60) DEF Finished, FileDone
  <2>6. CASE d[p].data = disk[p].data
    <3>1. Owed(run, s, p) => Owed(run', s, p)
      <4>1. Owed(run, s, p) => p \in run.changed \cup ch /\ s \in Names(Concerned(run.cs, {p}))
        BY <2>0, SMTT(60), ZenonT(60) DEF Owed
      <4> QED
        BY <2>3, <4>1, OwedAfterFile, ZenonT(60)
    <3>2. used'[s][p] = disk'[p].data \/ disk'[p].data = Junk \/ s \in lost' \/ Owed(run', s, p)
      BY <2>1, <2>4, <2>5, <2>6, <3>1, ZenonT(60) DEF FreshAt
    <3> QED
      BY <3>2, ZenonT(60) DEF FreshAt, Owed
  <2>7. CASE d[p].data # disk[p].data /\ d[p].data # used[s][p] /\ s \notin lost'
    <3>1. s \notin Missing(d, ch, err)
      BY <2>5, <2>7, SMTT(60), ZenonT(60)
    <3>2. (~err \/ p \in ch) /\ s \in Names(Concerned(run.cs, {p}))
      BY <2>1, <2>7, <3>1, ZenonT(60) DEF Missing
    <3>3. p \in ch
      BY <2>2, <2>4, <2>7, <3>2, ZenonT(60) DEF Finished
    <3>4. Owed(run', s, p)
      BY <2>3, <3>2, <3>3, OwedAfterFile, ZenonT(60)
    <3> QED
      BY <3>4, SMTT(60), ZenonT(60) DEF FreshAt, Owed
  <2>8. CASE d[p].data = used[s][p] \/ s \in lost'
    BY <2>1, <2>5, <2>8, SMTT(60), ZenonT(60) DEF FreshAt
  <2> QED
    BY <2>6, <2>7, <2>8, ZenonT(60)
<1>12. CASE HandleService
  <2> DEFINE svc == run.cs.svcs[run.i]
  <2>1. run.at = "services" /\ UNCHANGED disk
    BY <1>12, ZenonT(60) DEF HandleService
  <2>2. /\ used' \in {used, [used EXCEPT ![svc.name] = Reads(svc, disk)], [used EXCEPT ![svc.name] = Down]}
        /\ lost' = IF used' = used THEN lost ELSE lost \ {svc.name}
        /\ \E failed : LET r == [run EXCEPT !.err = @ \/ failed # {}]
                       IN  run' = AfterItem(r, r.cs.svcs, ToRestarts(r))
    BY <1>12, ZenonT(60) DEF HandleService
  <2>3. PICK failed : LET r == [run EXCEPT !.err = @ \/ failed # {}]
                      IN  run' = AfterItem(r, r.cs.svcs, ToRestarts(r))
    BY <2>2, Zenon
  <2> DEFINE r == [run EXCEPT !.err = @ \/ failed # {}]
             next == [r EXCEPT !.i = @ + 1]
  <2>4. run' = next \/ run' = ToRestarts(r)
    BY <2>3 DEF AfterItem
  <2>5. Reconciling(r) /\ r.cs = run.cs /\ r.at = run.at /\ r.changed = run.changed /\ r.todo = run.todo
    BY <2>1, Errors, ZenonT(60) DEF Same
  <2> HIDE DEF r
  <2>6. next.at = r.at /\ next.todo = r.todo /\ next.changed = r.changed /\ next.cs = r.cs
    BY <2>5 DEF Reconciling, SetRun
  <2> HIDE DEF next, svc
  <2>7. ASSUME Owed(run, s, p) PROVE Owed(run', s, p)
    <3>1. s \in r.todo \/ (p \in r.changed /\ s \in ExecsOn(r.cs, p))
      BY <2>1, <2>5, <2>7 DEF Owed
    <3>2. Owed(ToRestarts(r), s, p)
      BY <1>0, <2>5, <3>1, OwedOn, ZenonT(60)
    <3>3. Owed(next, s, p)
      BY <2>1, <2>5, <2>6, <3>1, ZenonT(60) DEF Owed
    <3> QED
      BY <2>4, <3>2, <3>3, SMTT(60), ZenonT(60)
  <2>8. CASE used' = used
    BY <1>2, <2>1, <2>2, <2>7, <2>8, SMTT(60), ZenonT(60)
  <2>9. CASE used' # used /\ s # svc.name
    <3>1. used'[s] = used[s] /\ (s \in lost => s \in lost')
      BY <1>0, <2>2, <2>9
    <3> QED
      BY <1>2, <2>1, <2>7, <3>1
  <2>10. CASE used' # used /\ s = svc.name
    <3>1. used'[s] = Reads(svc, disk)
      BY <1>0, <2>2, <2>10, SMTT(60), ZenonT(60)
    <3> QED
      BY <1>3, <2>1, <3>1
  <2> QED
    BY <2>8, <2>9, <2>10, ZenonT(60)
<1>13. CASE Restart
  <2>1. run.at = "restarts" /\ UNCHANGED disk
    BY <1>13, SMTT(60), ZenonT(60) DEF Restart
  <2>2. PICK svc \in {v \in Range(run.cs.svcs) : v.name \in run.todo} :
          RestartService(svc) /\ RestartDone(svc.name, FALSE)
    BY <1>13, Zenon DEF Restart
  <2>3. PICK r : Restarted(r, svc.name, FALSE)
    BY <2>1, <2>2, AfterRestart, ZenonT(60)
  <2>4. CASE s = svc.name
    <3>1. used'[s] = Reads(svc, disk)
      BY <1>0, <2>2, <2>4, ZenonT(60) DEF RestartService
    <3> QED
      BY <1>3, <2>1, <3>1, SMTT(60), ZenonT(60)
  <2>5. CASE s # svc.name
    <3>1. used'[s] = used[s] /\ (s \in lost => s \in lost')
      BY <1>0, <2>2, <2>5, ZenonT(60) DEF RestartService
    <3>2. Owed(run, s, p) => Owed(run', s, p)
      BY <2>1, <2>3, <2>5, OwedAfterRestart, ZenonT(60)
    <3> QED
      BY <1>2, <2>1, <3>1, <3>2, ZenonT(60)
  <2> QED
    BY <2>4, <2>5, SMTT(60), ZenonT(60)
<1>14. CASE RestartFails
  <2>1. run.at = "restarts" /\ UNCHANGED disk
    BY <1>14 DEF RestartFails
  <2>2. PICK x \in run.todo :
          used' \in {used, [used EXCEPT ![x] = Down]} /\ lost' = lost \cup {x} /\ RestartDone(x, TRUE)
    BY <1>14, Zenon DEF RestartFails
  <2>3. PICK r : Restarted(r, x, TRUE)
    BY <2>1, <2>2, AfterRestart, ZenonT(60)
  <2>4. used'[s] = used[s]
    BY <1>0, <2>2, SMTT(60), ZenonT(60)
  <2>5. CASE s = x
    <3>1. s \in lost'
      BY <2>2, <2>5, SMTT(60), ZenonT(60)
    <3> QED
      BY <3>1 DEF FreshAt
  <2>6. CASE s # x
    <3>1. s \in lost => s \in lost'
      BY <2>2, SMTT(60), ZenonT(60)
    <3>2. Owed(run, s, p) => Owed(run', s, p)
      BY <2>1, <2>3, <2>6, OwedAfterRestart, ZenonT(60)
    <3> QED
      BY <1>2, <2>1, <2>4, <3>1, <3>2, SMTT(60), ZenonT(60)
  <2> QED
    BY <2>5, <2>6, SMTT(60), ZenonT(60)
<1>15. CASE handleExecutions
  <2>1. run.at = "executions" /\ UNCHANGED disk
    BY <1>15 DEF handleExecutions
  <2>2. PICK failed \in SUBSET DueExecs(run) :
          LET ran == DueExecs(run) \ failed
          IN  /\ used' = [x \in Subscriber |->
                    IF x \in Names(ran) THEN Reads(CHOOSE e \in ran : e.name = x, disk) ELSE used[x]]
              /\ lost' = (lost \ Names(ran)) \cup Names(failed)
    BY <1>15, ZenonT(60) DEF handleExecutions
  <2> DEFINE ran == DueExecs(run) \ failed
             runner(x) == CHOOSE e \in ran : e.name = x
  <2>3. /\ used' = [x \in Subscriber |-> IF x \in Names(ran) THEN Reads(runner(x), disk) ELSE used[x]]
        /\ lost' = (lost \ Names(ran)) \cup Names(failed)
    BY <2>2, SMTT(60), ZenonT(60)
  <2>4. Owed(run, s, p) => s \in Names(ran) \/ s \in Names(failed)
    <3>1. Owed(run, s, p) => p \in run.changed /\ s \in ExecsOn(run.cs, p)
      BY <2>1, ZenonT(60) DEF Owed
    <3>2. p \in run.changed /\ s \in ExecsOn(run.cs, p) => \E e \in DueExecs(run) : e.name = s
      BY DEF ExecsOn, Names, DueExecs
    <3> QED
      BY <3>1, <3>2, ZenonT(60) DEF Names
  <2> HIDE DEF ran, runner
  <2>5. CASE s \in Names(ran)
    <3>1. used'[s] = Reads(runner(s), disk)
      BY <2>3, <2>5, SMTT(60), ZenonT(60)
    <3> QED
      BY <1>3, <2>1, <3>1, SMTT(60), ZenonT(60)
  <2>6. CASE s \notin Names(ran)
    <3>1. used'[s] = used[s] /\ (s \in lost => s \in lost') /\ (Owed(run, s, p) => s \in lost')
      BY <2>3, <2>4, <2>6, ZenonT(60)
    <3> QED
      BY <1>2, <2>1, <3>1, ZenonT(60)
  <2> QED
    BY <2>5, <2>6
<1>16. CASE Crash
  <2>1. run # Idle /\ UNCHANGED <<used, disk>>
    BY <1>16 DEF Crash, host
  <2>2. run.cs \in ConfigSets(menu)
    BY <2>1, SMTT(60), ZenonT(60) DEF SetInv, RunOK, Reconciling
  <2>3. lost' = lost \cup {x.name : x \in {x \in Concerned(run.cs, run.changed) :
                                            used[x.name] \notin {Down, Reads(x, disk)}}}
    BY <1>0, <1>16, <2>2, Declared, ZenonT(60) DEF Crash
  <2>4. ASSUME Owed(run, s, p) PROVE used[s][p] = disk[p].data \/ s \in lost'
    <3>1. PICK x \in Concerned(run.cs, run.changed) : x.name = s
      <4>1. CASE run.at \in {"services", "restarts"} /\ s \in run.todo
        <5>1. s \in DueServices(run)
          BY <4>1, SMTT(60), ZenonT(60) DEF TodoDue, Due
        <5> QED
          BY <5>1, ZenonT(60) DEF DueServices, Concerned
      <4>2. CASE p \in run.changed /\ s \in Names(Concerned(run.cs, {p}))
        BY <4>2 DEF Names, Concerned
      <4>3. CASE p \in run.changed /\ s \in ExecsOn(run.cs, p)
        BY <4>3 DEF ExecsOn, Names, Concerned
      <4> QED
        BY <2>4, <4>1, <4>2, <4>3, ZenonT(60) DEF Owed
    <3>2. CASE used[s] = Reads(x, disk)
      BY <2>1, <3>2, SMTT(60), ZenonT(60) DEF Reads
    <3>3. CASE used[s] # Reads(x, disk)
      <4>1. used[s] # Down
        BY <2>1
      <4> QED
        BY <2>3, <3>1, <3>3, <4>1
    <3> QED
      BY <3>2, <3>3, ZenonT(60)
  <2>5. FreshAt(s, p)
    BY <1>1, <2>1
  <2> QED
    BY <2>1, <2>3, <2>4, <2>5, ZenonT(60) DEF FreshAt
<1> QED
  BY <1>5, <1>6, <1>7, <1>8, <1>9, <1>10, <1>11, <1>12, <1>13, <1>14, <1>15, <1>16, SMTT(60), ZenonT(60) DEF Next, Proceed, HandlesFile

(***************************************************************************)
(* Between reconciles, a running service or an execution has read its files   *)
(* as they are, or someone else wrote them, or it is one of those that were    *)
(* not told: because of a fault, or because the change was made by a          *)
(* ConfigSet that does not declare the subscription (handleFileSet,           *)
(* handleServiceSet, handleExecutions).                                     *)
(***************************************************************************)
THEOREM SubscribersTold == Spec => []StaleOnlyIfLost
<1>1. Init => TodoDue /\ Fresh
  <2> SUFFICES ASSUME Init PROVE TodoDue /\ Fresh
    OBVIOUS
  <2>1. ASSUME NEW s \in Subscriber, used[s] # Down, NEW p \in DOMAIN used[s]
        PROVE  used[s][p] = disk[p].data
    BY <2>1, InitiallyRead, SMTT(60), ZenonT(60) DEF AsRead
  <2>2. Fresh
    BY <2>1, SMTT(60), ZenonT(60) DEF Fresh, FreshAt
  <2>3. TodoDue
    BY IdleRun DEF Init, TodoDue, Due
  <2> QED
    BY <2>2, <2>3
<1>2. SetInv /\ TodoDue /\ Fresh /\ [Next]_vars => TodoDue' /\ Fresh'
  <2>1. SetInv /\ TodoDue /\ Fresh /\ Next => TodoDue' /\ Fresh'
    BY TodoStep, FreshStep, ZenonT(60)
  <2>2. TodoDue /\ Fresh /\ UNCHANGED vars => TodoDue' /\ Fresh'
    BY ZenonT(60) DEF vars, host, history, TodoDue, Due, DueServices, Fresh, FreshAt, Owed
  <2> QED
    BY <2>1, <2>2
<1>3. Fresh => StaleOnlyIfLost
  <2>1. ~(Idle.at \in {"files", "services", "restarts", "executions"})
    BY IdleRun, Zenon
  <2> QED
    BY <2>1, ZenonT(60) DEF Fresh, FreshAt, StaleOnlyIfLost, Owed
<1> QED
  BY <1>1, <1>2, <1>3, SetInvariant, PTL DEF Spec
=============================================================================
