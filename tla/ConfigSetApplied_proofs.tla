---------------------- MODULE ConfigSetApplied_proofs ----------------------
(***************************************************************************)
(* A ConfigSet reported as applied is applied, for any ConfigSets that are    *)
(* Orderly.  Applied has what was done to the files up to the item at hand;    *)
(* it is inductive together with SetInv of ConfigSet_proofs.                 *)
(***************************************************************************)
EXTENDS ConfigSet_proofs

Later == {"services", "restarts", "executions", "backups", "status", "notify"}

(* Without an error, the entries handled so far are as asked for.             *)
AppliedIn(r, d) ==
  ~r.err /\ (r.at = "files" \/ r.at \in Later) =>
    \A j \in 1..Len(r.cs.files) : (r.at = "files" => j < r.i) => WellDone(r.cs.files[j], d)

FileAskedAt(p) ==
  \E t \in ConfigSets(menu) : \E g \in Range(t.files) :
    g.path = p /\ FileEnsureFromString(g.ensure) = "file"

(* Links are where they were, and point where one may; plain files are where they were, where someone   *)
(* wrote one by hand, and where a ConfigSet asks for one.                     *)
KindsKept ==
  \A p \in Path :
    /\ disk[p].kind = "symlink" => menu.disk[p].kind = "symlink" /\ disk[p].data \in Aims(menu, p)
    /\ disk[p].kind = "file" => menu.disk[p].kind = "file" \/ disk[p].data = Junk \/ FileAskedAt(p)

Applied == KindsKept /\ AppliedIn(run, disk)

(* Every step after the files comes later.                                    *)
LEMMA LaterOn ==
  ASSUME menu \in Menu, NEW r, Reconciling(r)
  PROVE  /\ ToBackups(r).at \in Later /\ ToExecutions(r).at \in Later
         /\ ToRestarts(r).at \in Later /\ ToServices(r).at \in Later /\ ToStatus(r).at \in Later
         /\ ToFiles(r).at \in Later => r.cs.files = <<>>
         /\ ToFiles(r).at = "files" => ToFiles(r).i = 1
<1>1. ToStatus(r).at = "status" /\ ToBackups(r).at \in {"backups", "status"}
      /\ ToExecutions(r).at \in {"executions", "backups", "status"}
  BY Flow
<1>2. [r EXCEPT !.at = "restarts", !.i = 1].at = "restarts"
  BY DEF Reconciling, SetRun
<1>3. ToRestarts(r).at \in Later
  BY <1>1, <1>2 DEF ToRestarts, Later
<1>4. [r EXCEPT !.at = "services", !.i = 1, !.todo = DueServices(r)].at = "services"
  BY DEF Reconciling, SetRun
<1>5. ToServices(r).at \in Later
  BY <1>1, <1>4 DEF ToServices, Later
<1>6. [r EXCEPT !.at = "files", !.i = 1].at = "files" /\ [r EXCEPT !.at = "files", !.i = 1].i = 1
  BY DEF Reconciling, SetRun
<1>7. "files" \notin Later
  BY DEF Later
<1>8. ToFiles(r).at \in Later => r.cs.files = <<>>
  BY <1>6, <1>7 DEF ToFiles
<1>9. ToFiles(r).at = "files" => ToFiles(r).i = 1
  BY <1>5, <1>6, <1>7 DEF ToFiles
<1> QED
  BY <1>1, <1>3, <1>5, <1>8, <1>9 DEF Later

(* What the scenario says of the entry at hand, while the disk is as it can be. *)
LEMMA SuitsFile ==
  ASSUME SetInv, KindsKept, Orderly(menu), run.at = "files"
  PROVE  Suits(file, disk[file.path])
<1>1. /\ file.path \in Path /\ run.cs \in ConfigSets(menu) /\ run.i \in 1..Len(run.cs.files)
  BY Known, FileAtHand, ZenonT(60) DEF Placed
<1>2. /\ menu.disk[file.path].kind = "symlink" => FileEnsureFromString(file.ensure) \notin {"file", "directory"}
      /\ FileEnsureFromString(file.ensure) = "directory" =>
           /\ menu.disk[file.path].kind # "file"
           /\ \A t \in ConfigSets(menu) : \A g \in Range(t.files) :
                g.path = file.path => FileEnsureFromString(g.ensure) # "file"
  BY <1>1, Zenon DEF Orderly, file
<1>3. /\ disk[file.path].kind = "symlink" => menu.disk[file.path].kind = "symlink"
      /\ disk[file.path].kind = "file" =>
           menu.disk[file.path].kind = "file" \/ disk[file.path].data = Junk \/ FileAskedAt(file.path)
  BY <1>1 DEF KindsKept
<1> HIDE DEF file
<1> QED
  BY <1>2, <1>3 DEF Suits, FileAskedAt

(* Handling a file makes no link, and a plain file only where one is asked  *)
(* for.                                                                     *)
LEMMA KindsAfterFile ==
  ASSUME SetInv, KindsKept, Orderly(menu), run.at = "files", UNCHANGED menu,
         NEW d, NEW ch, NEW saved, NEW err, Finished(d, ch, saved, err)
  PROVE  KindsKept'
<1>1. file \in Range(run.cs.files) /\ file.path \in Path /\ run.cs \in ConfigSets(menu)
  BY Known, FileAtHand
<1>2. disk' = d /\ Effect(d, err)
  BY DEF Finished, FileDone
<1> SUFFICES ASSUME NEW p \in Path
             PROVE  /\ d[p].kind = "symlink" => menu.disk[p].kind = "symlink" /\ d[p].data \in Aims(menu, p)
                    /\ d[p].kind = "file" => menu.disk[p].kind = "file" \/ d[p].data = Junk \/ FileAskedAt(p)
  BY <1>2 DEF KindsKept, FileAskedAt, Aims
<1>3. /\ disk[p].kind = "symlink" => menu.disk[p].kind = "symlink" /\ disk[p].data \in Aims(menu, p)
      /\ disk[p].kind = "file" => menu.disk[p].kind = "file" \/ disk[p].data = Junk \/ FileAskedAt(p)
  BY DEF KindsKept
<1>4. CASE p = file.path
  <2>0. Suits(file, disk[file.path])
    BY SuitsFile
  <2>1. /\ d[p].kind = "symlink" => disk[p].kind = "symlink" /\ d[p].data \in {disk[p].data, file.target}
        /\ d[p].kind = "file" => \/ FileEnsureFromString(file.ensure) = "file"
                                 \/ disk[p].kind = "file" /\ d[p].data = disk[p].data
    BY <1>2, <1>4, <2>0 DEF Effect
  <2>3. file.target \in Aims(menu, p)
    BY <1>1, <1>4 DEF Aims
  <2>2. FileEnsureFromString(file.ensure) = "file" => FileAskedAt(p)
    BY <1>1, <1>4 DEF FileAskedAt
  <2> QED
    BY <1>3, <2>1, <2>2, <2>3
<1>5. CASE p # file.path
  <2>1. d[p] = disk[p] \/ d[p] = NoFile
    BY <1>2, <1>5 DEF Effect
  <2>2. NoFile.kind = "none"
    BY DEF NoFile
  <2> QED
    BY <1>3, <2>1, <2>2
<1> QED
  BY <1>4, <1>5

(* Handling a file leaves it as asked for, unless it reports an error, and  *)
(* leaves the earlier ones as they are.                                     *)
LEMMA AppliedAfterFile ==
  ASSUME SetInv, Applied, Orderly(menu), run.at = "files",
         NEW d, NEW ch, NEW saved, NEW err, Finished(d, ch, saved, err)
  PROVE  AppliedIn(run', d)
<1>1. PICK r : After(r, ch, saved, err)
  BY AfterFile
<1>2. /\ Reconciling(r) /\ r.cs = run.cs /\ r.i = run.i /\ r.at = "files" /\ r.i \in 1..Len(r.cs.files)
      /\ r.err = (run.err \/ err) /\ run' = AfterItem(r, r.cs.files, ToServices(r))
  BY <1>1 DEF After, Same
<1>3. /\ file \in Range(run.cs.files) /\ file.path \in Path /\ run.cs \in ConfigSets(menu) /\ menu \in Menu
      /\ FilesKnown
  BY Known, FileAtHand
<1>4. run.cs.files \in Seq(Range(run.cs.files)) /\ \A f \in Range(run.cs.files) : f.path \in Path
  BY <1>3, Declared
<1>5. Len(run.cs.files) \in Nat /\ run.i \in 1..Len(run.cs.files)
      /\ \A j \in 1..Len(run.cs.files) : run.cs.files[j] \in Range(run.cs.files)
  BY <1>2, <1>4, Items, ZenonT(60)
<1>6. Effect(d, err)
  BY DEF Finished
<1>7. ASSUME ~run.err, ~err, NEW j \in 1..Len(run.cs.files), j < run.i \/ j = run.i
      PROVE  WellDone(run.cs.files[j], d)
  <2>1. CASE j = run.i
    <3>1. run.cs.files[j] = file
      BY <2>1 DEF file
    <3>2. Suits(file, disk[file.path])
      BY SuitsFile DEF Applied
    <3>3. WellDone(file, d)
      BY <1>6, <1>7, <3>2 DEF Effect
    <3> QED
      BY <3>1, <3>3
  <2>2. CASE j < run.i
    <3> DEFINE f == run.cs.files[j]
    <3>1. WellDone(f, disk)
      BY <1>7, <2>2, SMTT(60), ZenonT(60) DEF Applied, AppliedIn
    <3>2. /\ f.path # file.path
          /\ Parent[f.path] = file.path /\ file.purge => FileEnsureFromString(file.ensure) # "directory"
          /\ menu.disk[f.path].kind = "symlink" /\ FileEnsureFromString(f.ensure) = "absent" =>
               file.path \notin Aims(menu, f.path)
      <4>1. run.i \in (j + 1)..Len(run.cs.files)
        BY <1>5, <2>2
      <4> QED
        BY <1>3, <1>5, <4>1, ZenonT(60) DEF Orderly, file
    <3>3. f.path \in Path
      BY <1>4, <1>5, SMTT(60), ZenonT(60)
    <3>4. disk[f.path].kind = "symlink" =>
            menu.disk[f.path].kind = "symlink" /\ disk[f.path].data \in Aims(menu, f.path)
      BY <3>3, ZenonT(60) DEF Applied, KindsKept
    <3> HIDE DEF f, file
    <3>5. d[f.path] = disk[f.path]
      BY <1>6, <3>2, <3>3, SMTT(60), ZenonT(60) DEF Effect
    <3>6. ASSUME Dangling(f, disk) PROVE Dangling(f, d)
      <4> DEFINE t == disk[f.path].data
      <4>1. t # file.path
        BY <3>2, <3>4, <3>6, SMTT(60), ZenonT(60) DEF Dangling
      <4>2. t \in Path => d[t] = disk[t] \/ d[t] = NoFile
        BY <1>6, <4>1 DEF Effect
      <4>3. t \in Path => d[t].kind = "none"
        <5>1. NoFile.kind = "none"
          BY DEF NoFile
        <5>2. t \in Path => disk[t].kind = "none"
          BY <3>6 DEF Dangling
        <5> HIDE DEF t
        <5> QED
          BY <4>2, <5>1, <5>2
      <4> QED
        BY <3>5, <3>6, <4>3, SMTT(60), ZenonT(60) DEF Dangling
    <3>7. WellDone(f, d)
      BY <3>1, <3>5, <3>6 DEF WellDone
    <3> QED
      BY <3>7 DEF f
  <2> QED
    BY <1>7, <2>1, <2>2
<1>8. CASE r.i < Len(r.cs.files)
  <2>1. run' = [r EXCEPT !.i = @ + 1]
    BY <1>2, <1>8 DEF AfterItem
  <2>2. run'.at = "files" /\ run'.cs = r.cs /\ run'.err = r.err /\ run'.i = r.i + 1
    BY <1>2, <2>1 DEF Reconciling, SetRun
  <2> SUFFICES ASSUME ~run.err, ~err, NEW j \in 1..Len(run.cs.files), j < run.i + 1
               PROVE  WellDone(run.cs.files[j], d)
    BY <1>2, <2>2, ZenonT(60) DEF AppliedIn
  <2>3. j < run.i \/ j = run.i
    BY <1>5
  <2> QED
    BY <1>7, <2>3
<1>9. CASE ~(r.i < Len(r.cs.files))
  <2>1. run' = ToServices(r)
    BY <1>2, <1>9 DEF AfterItem
  <2>2. Follows(run', r)
    BY <1>2, <1>3, <2>1, Flow
  <2>3. run'.cs = r.cs /\ run'.err = r.err
    BY <2>2 DEF Follows
  <2> SUFFICES ASSUME ~run.err, ~err, NEW j \in 1..Len(run.cs.files)
               PROVE  WellDone(run.cs.files[j], d)
    BY <1>2, <2>3, ZenonT(60) DEF AppliedIn
  <2>4. ~(run.i < Len(run.cs.files))
    BY <1>2, <1>9
  <2>5. j < run.i \/ j = run.i
    BY <1>5, <2>4
  <2> QED
    BY <1>7, <2>5
<1> QED
  BY <1>8, <1>9

(* Every step keeps the files handled so far as asked for, or reports an    *)
(* error.                                                                   *)
LEMMA AppliedStep ==
  ASSUME SetInv, Applied, Orderly(menu), Next
  PROVE  Applied'
<1>0. menu \in Menu /\ UNCHANGED menu
  BY Frame DEF SetInv, ObjectsOK
<1>1. ASSUME UNCHANGED disk, AppliedIn(run', disk) PROVE Applied'
  <2>1. KindsKept'
    BY <1>0, <1>1, SMTT(30), ZenonT(60) DEF Applied, KindsKept, FileAskedAt, Aims
  <2>2. AppliedIn(run', disk')
    BY <1>1
  <2> QED
    BY <2>1, <2>2 DEF Applied, AppliedIn
<1>2. ASSUME UNCHANGED disk, run' = Idle \/ run'.at \in {"detect", "packages"} \/ UNCHANGED run PROVE Applied'
  <2>1. CASE UNCHANGED run
    BY <1>1, <1>2, <2>1 DEF Applied
  <2>2. CASE run'.at \in {"idle", "detect", "packages"}
    <3>1. AppliedIn(run', disk)
      BY <2>2 DEF AppliedIn, Later
    <3> QED
      BY <1>1, <1>2, <3>1
  <2> QED
    BY <1>2, <2>1, <2>2, IdleRun
<1>3. ASSUME UNCHANGED disk, run.at \in Later, run'.cs = run.cs, run'.err = run.err \/ run'.err = TRUE,
             run'.at \in Later
      PROVE  Applied'
  <2>1. "files" \notin Later
    BY DEF Later
  <2>2. AppliedIn(run', disk)
    BY <1>3, <2>1 DEF Applied, AppliedIn
  <2> QED
    BY <1>1, <1>3, <2>2
<1>4. ASSUME NEW r, Reconciling(r), run' = ToFiles(r), UNCHANGED disk PROVE Applied'
  <2>1. run'.cs = r.cs
    BY <1>0, <1>4, Flow DEF Follows
  <2>2. r.cs.files = <<>> => ~\E j \in 1..Len(r.cs.files) : TRUE
    OBVIOUS
  <2>3. (run'.at \in Later => r.cs.files = <<>>) /\ (run'.at = "files" => run'.i = 1)
    BY <1>0, <1>4, LaterOn
  <2>4. \A j \in 1..Len(r.cs.files) : ~(j < 1)
    OBVIOUS
  <2>5. AppliedIn(run', disk)
    BY <2>1, <2>2, <2>3, <2>4 DEF AppliedIn
  <2> QED
    BY <1>1, <1>4, <2>5, SMTT(60), ZenonT(60)
<1>5. ASSUME NEW c \in Name, Reconcile(c) \/ EditConfigSet(c) PROVE Applied'
  <2>1. UNCHANGED disk
    BY <1>5 DEF Reconcile, EditConfigSet, host
  <2>2. UNCHANGED run \/ run' = [Idle EXCEPT !.at = "detect", !.name = c, !.cs = spec[c], !.gen = gen[c]]
    BY <1>5 DEF Reconcile, EditConfigSet
  <2>3. UNCHANGED run \/ run'.at = "detect"
    BY <2>2, IdleRun, ZenonT(60) DEF SetRun
  <2> QED
    BY <1>2, <2>1, <2>3
<1>6. CASE Detect
  <2>1. run.at = "detect" /\ (run' = Idle \/ run' = ToPackages(run)) /\ UNCHANGED disk
    BY <1>6 DEF Detect, host
  <2>2. Reconciling(run)
    BY <2>1, Known
  <2>3. ToPackages(run).at = "packages"
    BY <2>2 DEF ToPackages, Reconciling, SetRun
  <2> QED
    BY <1>2, <2>1, <2>3
<1>7. CASE GiveUp \/ notifyResources \/ Crash
  BY <1>2, <1>7, ZenonT(60) DEF GiveUp, notifyResources, Crash, host
<1>8. CASE HandlePackage
  <2>1. run.at = "packages" /\ UNCHANGED disk
    BY <1>8, ZenonT(60) DEF HandlePackage
  <2>2. PICK fails \in BOOLEAN :
          LET err == fails \/ PackageEnsureFromString(run.cs.pkgs[run.i].ensure) = "unhandled"
              r == [run EXCEPT !.err = @ \/ err]
          IN  run' = AfterItem(r, r.cs.pkgs, ToFiles(r))
    BY <1>8 DEF HandlePackage
  <2> DEFINE err == fails \/ PackageEnsureFromString(run.cs.pkgs[run.i].ensure) = "unhandled"
             r == [run EXCEPT !.err = @ \/ err]
  <2>3. run' = AfterItem(r, r.cs.pkgs, ToFiles(r)) /\ err \in BOOLEAN
    BY <2>2
  <2> HIDE DEF err
  <2>4. Reconciling(r) /\ r.at = "packages"
    BY <2>1, <2>3, Errors
  <2> HIDE DEF r
  <2>5. [r EXCEPT !.i = @ + 1].at = "packages"
    BY <2>4 DEF Reconciling, SetRun
  <2>6. run'.at = "packages" \/ run' = ToFiles(r)
    BY <2>3, <2>5 DEF AfterItem
  <2> QED
    BY <1>2, <1>4, <2>1, <2>4, <2>6, SMTT(60), ZenonT(60)
<1>9. CASE NoPackages
  <2>1. Reconciling(run) /\ run' = ToFiles(run) /\ UNCHANGED disk
    BY <1>9, Known DEF NoPackages, host
  <2> QED
    BY <1>4, <2>1
<1>10. CASE ListPackagesFails
  <2> DEFINE r == [run EXCEPT !.err = TRUE]
  <2>1. run.at = "packages" /\ run' = ToFiles(r) /\ UNCHANGED disk
    BY <1>10 DEF ListPackagesFails, host
  <2>2. r = [run EXCEPT !.err = @ \/ TRUE]
    BY Zenon
  <2>3. Reconciling(r)
    BY <2>1, <2>2, Errors, ZenonT(60)
  <2> HIDE DEF r
  <2> QED
    BY <1>4, <2>1, <2>3
<1>11. CASE HandlesFile
  <2>0. run.at = "files"
    BY <1>11, ZenonT(60) DEF HandlesFile, SkipFile, RenderFails, writeFileContent, HandleDirectory, HandleSymlink,
              HandleAbsent, HandleUnhandled, AtFile
  <2>1. PICK d, ch, saved, err : Finished(d, ch, saved, err)
    BY <1>11, <2>0, Known, FileStep, ZenonT(60)
  <2>2. AppliedIn(run', d) /\ disk' = d
    BY <2>0, <2>1, AppliedAfterFile, ZenonT(60) DEF Finished, FileDone
  <2>3. KindsKept'
    BY <1>0, <2>0, <2>1, KindsAfterFile DEF Applied
  <2> QED
    BY <2>2, <2>3, ZenonT(60) DEF Applied, AppliedIn
<1>12. CASE HandleService
  <2>1. run.at = "services" /\ UNCHANGED disk
        /\ \E failed : LET r == [run EXCEPT !.err = @ \/ failed # {}]
                       IN  run' = AfterItem(r, r.cs.svcs, ToRestarts(r))
    BY <1>12, Zenon DEF HandleService
  <2>2. PICK failed : LET r == [run EXCEPT !.err = @ \/ failed # {}]
                      IN  run' = AfterItem(r, r.cs.svcs, ToRestarts(r))
    BY <2>1
  <2> DEFINE r == [run EXCEPT !.err = @ \/ failed # {}]
             next == [r EXCEPT !.i = @ + 1]
  <2>3. run' = next \/ run' = ToRestarts(r)
    BY <2>2 DEF AfterItem
  <2>4. Reconciling(r) /\ r.cs = run.cs /\ r.at = "services" /\ (r.err = run.err \/ r.err = TRUE)
    BY <2>1, Errors, Known, ZenonT(60) DEF Same
  <2> HIDE DEF r
  <2>5. next.at = "services" /\ next.cs = r.cs /\ next.err = r.err
    BY <2>4 DEF Reconciling, SetRun
  <2>6. ToRestarts(r).at \in Later /\ ToRestarts(r).cs = r.cs /\ ToRestarts(r).err = r.err
    BY <1>0, <2>4, LaterOn, Flow, ZenonT(60) DEF Follows
  <2> HIDE DEF next
  <2>7. "services" \in Later
    BY DEF Later
  <2> QED
    BY <1>3, <2>1, <2>3, <2>4, <2>5, <2>6, <2>7, ZenonT(60)
<1>13. CASE Restart \/ RestartFails
  <2>1. run.at = "restarts" /\ UNCHANGED disk /\ \E s, e : e \in BOOLEAN /\ RestartDone(s, e)
    BY <1>13, ZenonT(60) DEF Restart, RestartFails
  <2>2. PICK s, e : e \in BOOLEAN /\ RestartDone(s, e)
    BY <2>1
  <2>3. PICK r : Restarted(r, s, e)
    BY <2>1, <2>2, AfterRestart, SMTT(60), ZenonT(60)
  <2>4. /\ Reconciling(r) /\ r.cs = run.cs /\ r.at = "restarts" /\ (r.err = run.err \/ r.err = TRUE)
        /\ run' = ToExecutions(r) \/ run' = r
    BY <2>1, <2>2, <2>3, Known, SMTT(60), ZenonT(60) DEF Restarted, Same
  <2>5. ToExecutions(r).at \in Later /\ ToExecutions(r).cs = r.cs /\ ToExecutions(r).err = r.err
    BY <1>0, <2>4, LaterOn, Flow, ZenonT(60) DEF Follows
  <2>6. "restarts" \in Later
    BY DEF Later
  <2> QED
    BY <1>3, <2>1, <2>4, <2>5, <2>6, ZenonT(60)
<1>14. CASE handleExecutions
  <2>1. /\ run.at = "executions" /\ UNCHANGED disk
        /\ \E failed : run' = ToBackups([run EXCEPT !.err = @ \/ failed # {}])
    BY <1>14, SMTT(60), ZenonT(60) DEF handleExecutions
  <2>2. PICK failed : run' = ToBackups([run EXCEPT !.err = @ \/ failed # {}])
    BY <2>1
  <2> DEFINE r == [run EXCEPT !.err = @ \/ failed # {}]
  <2>3. Reconciling(r) /\ run' = ToBackups(r) /\ r.cs = run.cs /\ (r.err = run.err \/ r.err = TRUE)
    BY <2>1, <2>2, Errors, Known, ZenonT(60) DEF Same
  <2> HIDE DEF r
  <2>4. run'.at \in Later /\ run'.cs = r.cs /\ run'.err = r.err
    BY <1>0, <2>3, LaterOn, Flow, ZenonT(60) DEF Follows
  <2>5. "executions" \in Later
    BY SMTT(60), ZenonT(60) DEF Later
  <2> QED
    BY <1>3, <2>1, <2>3, <2>4, <2>5, ZenonT(60)
<1>15. CASE updateFileBackups
  <2>1. run.at = "backups" /\ Reconciling(run) /\ run' = ToStatus(run) /\ UNCHANGED disk
    BY <1>15, Known, ZenonT(60) DEF updateFileBackups, host
  <2>2. run'.at \in Later /\ run'.cs = run.cs /\ run'.err = run.err
    BY <1>0, <2>1, LaterOn, Flow, ZenonT(60) DEF Follows
  <2>3. "backups" \in Later
    BY DEF Later
  <2> QED
    BY <1>3, <2>1, <2>2, <2>3, SMTT(60), ZenonT(60)
<1>16. CASE updateConfigSetStatus
  <2>1. run.at = "status" /\ (run' = Idle \/ run' = [run EXCEPT !.at = "notify"]) /\ UNCHANGED disk
    BY <1>16 DEF updateConfigSetStatus, host
  <2>2. Reconciling(run)
    BY <2>1, Known
  <2>3. CASE run' = [run EXCEPT !.at = "notify"]
    <3>1. run'.at = "notify" /\ run'.cs = run.cs /\ run'.err = run.err
      BY <2>2, <2>3 DEF Reconciling, SetRun
    <3>2. "notify" \in Later /\ "status" \in Later
      BY DEF Later
    <3> QED
      BY <1>3, <2>1, <3>1, <3>2
  <2> QED
    BY <1>2, <2>1, <2>3
<1>17. CASE RunGC \/ BlobsAge \/ EditSecret \/ \E s \in Service : ServiceDies(s)
  BY <1>2, <1>17, ZenonT(60) DEF RunGC, BlobsAge, EditSecret, ServiceDies, host
<1>18. CASE Meddle
  <2>1. PICK q \in menu.meddle : disk' = [disk EXCEPT ![q] = File(Junk, "root", "0644")]
    BY <1>18, ZenonT(60) DEF Meddle
  <2>2. UNCHANGED run /\ disk \in [Path -> Held]
    BY <1>18 DEF Meddle, SetInv, HostOK
  <2>3. File(Junk, "root", "0644").data = Junk /\ File(Junk, "root", "0644").kind = "file"
    BY DEF File
  <2>4. \A p \in Path : disk'[p] = disk[p] \/ (p \in menu.meddle /\ disk'[p].data = Junk /\ disk'[p].kind = "file")
    BY <2>1, <2>2, <2>3, SMTT(60), ZenonT(60)
  <2>5. KindsKept'
    BY <1>0, <2>4, ZenonT(60) DEF Applied, KindsKept, FileAskedAt, Aims
  <2>6. AppliedIn(run, disk')
    <3> SUFFICES ASSUME ~run.err, run.at = "files" \/ run.at \in Later, NEW j \in 1..Len(run.cs.files),
                        run.at = "files" => j < run.i
                 PROVE  WellDone(run.cs.files[j], disk')
      BY DEF AppliedIn
    <3> DEFINE f == run.cs.files[j]
    <3>1. WellDone(f, disk)
      BY DEF Applied, AppliedIn
    <3>2. run.at # "idle"
      BY SMTT(60), ZenonT(60) DEF Later
    <3>3. f.path \in Path /\ run.cs \in ConfigSets(menu)
      BY <3>2, Known, Declared, Items, ZenonT(60)
    <3>4. disk[f.path].kind = "symlink" =>
            menu.disk[f.path].kind = "symlink" /\ disk[f.path].data \in Aims(menu, f.path)
      BY <3>3, ZenonT(60) DEF Applied, KindsKept
    <3>5. menu.disk[f.path].kind = "symlink" /\ FileEnsureFromString(f.ensure) = "absent" =>
            \A t \in Aims(menu, f.path) : t \notin menu.meddle
      BY <3>3, ZenonT(60) DEF Orderly
    <3> HIDE DEF f
    <3> DEFINE d == disk'
    <3>6. \A p \in Path : d[p] = disk[p] \/ (p \in menu.meddle /\ d[p].data = Junk)
      BY <2>4
    <3> HIDE DEF d
    <3>7. CASE d[f.path] # disk[f.path]
      <4>1. d[f.path].data = Junk
        BY <3>3, <3>6, <3>7, SMTT(60), ZenonT(60)
      <4> QED
        BY <4>1 DEF WellDone, f, d
    <3>8. CASE d[f.path] = disk[f.path]
      <4>1. ASSUME Dangling(f, disk) PROVE Dangling(f, d)
        <5> DEFINE t == disk[f.path].data
        <5>1. t \notin menu.meddle
          BY <3>4, <3>5, <4>1, SMTT(60), ZenonT(60) DEF Dangling
        <5>2. t \in Path => d[t] = disk[t]
          BY <3>6, <5>1, SMTT(60), ZenonT(60)
        <5> QED
          BY <3>8, <4>1, <5>2, SMTT(60), ZenonT(60) DEF Dangling
      <4>2. WellDone(f, d)
        BY <3>1, <3>8, <4>1 DEF WellDone
      <4> QED
        BY <4>2, SMTT(60), ZenonT(60) DEF f, d
    <3> QED
      BY <3>7, <3>8
  <2> QED
    BY <2>2, <2>5, <2>6, ZenonT(60) DEF Applied, AppliedIn
<1> QED
  BY <1>5, <1>6, <1>7, <1>8, <1>9, <1>10, <1>11, <1>12, <1>13, <1>14, <1>15, <1>16, <1>17, <1>18, SMTT(60), ZenonT(60)
     DEF Next, Proceed, HandlesFile

(***************************************************************************)
(* A reconcile that is about to report success has brought every file of its  *)
(* ConfigSet to the declared state, whatever edits, faults and crashes there    *)
(* were (handleFileSet, updateConfigSetStatus), for ConfigSets that do not      *)
(* undo their own work.                                                     *)
(***************************************************************************)
THEOREM OkIsApplied ==
  ASSUME \A m \in Menu : Orderly(m)
  PROVE  Spec => []OkMeansApplied
<1>1. Init => Applied
  <2> SUFFICES ASSUME Init PROVE Applied
    OBVIOUS
  <2>1. AppliedIn(Idle, disk)
    BY IdleRun, SMTT(60), ZenonT(60) DEF AppliedIn, Later
  <2>2. KindsKept
    BY DEF Init, KindsKept, Aims
  <2> QED
    BY <2>1, <2>2 DEF Init, Applied
<1>2. SetInv /\ Applied /\ [Next]_vars => Applied'
  <2>1. SetInv => Orderly(menu)
    BY DEF SetInv, ObjectsOK
  <2>2. SetInv /\ Applied /\ Next => Applied'
    BY <2>1, AppliedStep, SMTT(60), ZenonT(60)
  <2>3. Applied /\ UNCHANGED vars => Applied'
    BY ZenonT(60) DEF vars, host, Applied, KindsKept, FileAskedAt, AppliedIn, Aims
  <2> QED
    BY <2>2, <2>3
<1>3. SetInv /\ Applied => OkMeansApplied
  <2> SUFFICES ASSUME SetInv, Applied, run.at \in {"status", "notify"}, ~run.err, NEW f \in Range(run.cs.files)
               PROVE  Satisfied(f) \/ disk[f.path].data = Junk
    BY DEF OkMeansApplied
  <2>1. run.at \in Later /\ run.at # "files" /\ run.at # "idle"
    BY SMTT(60), ZenonT(60) DEF Later
  <2>2. PICK j \in 1..Len(run.cs.files) : f = run.cs.files[j]
    BY <2>1, Known, Declared, Items, ZenonT(60)
  <2>3. WellDone(f, disk)
    BY <2>1, <2>2 DEF Applied, AppliedIn
  <2>4. Pleased(f, disk[f.path]) => Satisfied(f)
    BY DEF Pleased, Satisfied
  <2>5. Dangling(f, disk) => Satisfied(f)
    BY DEF Dangling, Satisfied, TargetExists
  <2> QED
    BY <2>3, <2>4, <2>5 DEF WellDone
<1> QED
  BY <1>1, <1>2, <1>3, SetInvariant, PTL DEF Spec
-----------------------------------------------------------------------------
(* An entry that is in place.                                              *)

(* Nothing came of it: the path holds what it did, and no change counts.     *)
Untouched(o, old) == o.at = old /\ (o.changed => o.err)

(* Done and Faulty outcomes that leave the path as it is.                    *)
LEMMA LeftOutcomes ==
  ASSUME NEW old, NEW o, o = Done(old, FALSE) \/ o = Faulty(old, FALSE)
  PROVE  Untouched(o, old) /\ o.changed = FALSE
BY DEF Done, Faulty, Untouched

(* Where content, owner and mode are as asked for, writeFileContent and the   *)
(* Ensure functions it calls compare and leave the file alone; a lookup of    *)
(* the owner that fails is an error, not a change.                           *)
LEMMA WriteInPlace ==
  ASSUME NEW old \in Held, NEW f, NEW data, NEW creatable, NEW o \in WriteFile(f, data, old, creatable),
         old.kind = "file", old.data = data,
         old.owner = IF f.owner = "" THEN "root" ELSE f.owner,
         f.mode # "" => old.mode = f.mode
  PROVE  Untouched(o, old)
<1> DEFINE modes(x) == IF f.mode = "" THEN {Done(x, FALSE)} ELSE SetMode(x, f.mode)
           full(w, c) == {IF m.err THEN [m EXCEPT !.changed = TRUE]
                          ELSE Done(m.at, w.changed \/ c.changed \/ m.changed) : m \in modes(c.at)}
           owned(w) == UNION {IF c.err THEN {[c EXCEPT !.changed = TRUE]} ELSE full(w, c) : c \in Chown(w.at, f.owner)}
<1>1. PICK w \in WriteContentFile(old, data, creatable) : o \in IF w.err THEN {w} ELSE owned(w)
  BY Zenon DEF WriteFile
<1>2. w = Done(old, FALSE)
  BY ZenonT(60) DEF WriteContentFile
<1>3. w.at = old /\ ~w.err /\ w.changed = FALSE
  BY <1>2 DEF Done
<1>4. PICK c \in Chown(old, f.owner) : o \in IF c.err THEN {[c EXCEPT !.changed = TRUE]} ELSE full(w, c)
  BY <1>1, <1>3, ZenonT(60)
<1>5. c = Done(old, FALSE) \/ c = Faulty(old, FALSE)
  BY ZenonT(60) DEF Chown
<1>6. CASE c = Faulty(old, FALSE)
  <2>1. c.err /\ c.at = old
    BY <1>6 DEF Faulty
  <2>2. o = [c EXCEPT !.changed = TRUE]
    BY <1>4, <2>1
  <2>3. o.at = old /\ o.err
    BY <1>6, <2>2, ZenonT(60) DEF Faulty
  <2> QED
    BY <2>3, ZenonT(60) DEF Untouched
<1>7. CASE c = Done(old, FALSE)
  <2>1. ~c.err /\ c.at = old /\ c.changed = FALSE
    BY <1>7 DEF Done
  <2>2. o \in full(w, c)
    BY <1>4, <2>1, Zenon
  <2>3. PICK m \in modes(old) : o = IF m.err THEN [m EXCEPT !.changed = TRUE]
                                    ELSE Done(m.at, w.changed \/ c.changed \/ m.changed)
    BY <2>1, <2>2, ZenonT(60)
  <2>4. m = Done(old, FALSE)
    BY <2>3, ZenonT(60) DEF SetMode
  <2>5. ~m.err /\ m.at = old /\ m.changed = FALSE
    BY <2>4 DEF Done
  <2>6. o = Done(old, FALSE)
    BY <1>3, <2>1, <2>3, <2>5, ZenonT(60)
  <2> QED
    BY <2>6, LeftOutcomes, ZenonT(60)
<1> QED
  BY <1>5, <1>6, <1>7

(* Handling an entry that is in place ends with its path as it was, and with  *)
(* changes counted at other paths only.                                     *)
LeftAlone(d, ch, saved, err) ==
  /\ ch \in SUBSET Path /\ saved \in SUBSET Saved /\ err \in BOOLEAN
  /\ FileDone(d, ch, saved, err)
  /\ d[file.path] = disk[file.path] /\ file.path \notin ch

LEMMA InPlaceHandled ==
  ASSUME FilesKnown, HandlesFile, run.at = "files", InPlace(file)
  PROVE  \E d, ch, saved, err : LeftAlone(d, ch, saved, err)
<1> DEFINE old == disk[file.path]
<1>1. /\ file.path \in Path /\ old \in Held /\ disk \in [Path -> Held]
      /\ \A at \in {old} : [disk EXCEPT ![file.path] = at][file.path] = old
  BY FileAtHand DEF FilesKnown
<1>2. ASSUME NEW d, NEW err \in BOOLEAN, FileDone(d, {}, {}, err), d[file.path] = old
      PROVE  \E x, ch, saved, e : LeftAlone(x, ch, saved, e)
  <2>1. LeftAlone(d, {}, {}, err)
    BY <1>2 DEF LeftAlone
  <2> QED
    BY <2>1, SMTT(60), ZenonT(60)
<1>3. CASE SkipFile \/ RenderFails \/ HandleUnhandled
  <2>1. FileDone(disk, {}, {}, Unrenderable(file)) \/ FileDone(disk, {}, {}, TRUE)
    BY <1>3, ZenonT(60) DEF SkipFile, RenderFails, HandleUnhandled
  <2>2. Unrenderable(file) \in BOOLEAN
    BY DEF Unrenderable
  <2> QED
    BY <1>2, <2>1, <2>2, ZenonT(60)
<1>4. CASE writeFileContent
  <2>1. PICK b \in Backup(old), o \in WriteFile(file, Content(file), old, Creatable(file.path)) :
           FileDone([disk EXCEPT ![file.path] = o.at], Counted(o),
                    IF b.ok /\ ~o.err THEN {[path |-> file.path, hash |-> old.data]} ELSE {}, o.err)
    BY <1>4, Zenon DEF writeFileContent
  <2>2. FileEnsureFromString(file.ensure) = "file" /\ ~LeavesAlone(file)
    BY <1>4, ZenonT(60) DEF writeFileContent, AtFile
  <2>3. /\ old.kind = "file" /\ old.data = Content(file)
        /\ old.owner = IF file.owner = "" THEN "root" ELSE file.owner
        /\ file.mode # "" => old.mode = file.mode
    BY <2>2 DEF InPlace, Satisfied, LeavesAlone, Content
  <2>4. Untouched(o, old)
    BY <1>1, <2>1, <2>3, WriteInPlace, ZenonT(60)
  <2>5. o.err \in BOOLEAN
    <3>1. Wrote(o, file, Content(file), old)
      BY <1>1, <2>1, FileAtHand, WriteOutcome, ZenonT(60) DEF Creatable
    <3> QED
      BY <3>1, Zenon DEF Wrote, Outcome
  <2>6. Counted(o) = {}
    BY <2>4, SMTT(60), ZenonT(60) DEF Untouched, Counted
  <2> DEFINE entry == [path |-> file.path, hash |-> old.data]
             saved == IF b.ok /\ ~o.err THEN {entry} ELSE {}
             d == [disk EXCEPT ![file.path] = o.at]
  <2>7. entry \in Saved
    BY <1>1, <2>3, FileAtHand DEF Saved
  <2>8. FileDone(d, {}, saved, o.err)
    BY <2>1, <2>6, ZenonT(60)
  <2>9. d[file.path] = old
    BY <1>1, <2>4, ZenonT(60) DEF Untouched
  <2> HIDE DEF d, entry, old
  <2>10. saved \in SUBSET Saved
    BY <2>7, SMTT(60), ZenonT(60)
  <2> HIDE DEF saved
  <2>11. LeftAlone(d, {}, saved, o.err)
    BY <2>5, <2>8, <2>9, <2>10 DEF LeftAlone, old
  <2> QED
    BY <2>11
<1>5. CASE HandleDirectory
  <2>0. FileEnsureFromString(file.ensure) = "directory"
    BY <1>5, Zenon DEF HandleDirectory, AtFile
  <2>1. old.kind = "directory" /\ (file.mode # "" => old.mode = file.mode)
    BY <2>0 DEF InPlace, Satisfied
  <2>2. PICK o \in EnsureDirectory(file, old), unlisted \in BOOLEAN :
       LET purges == file.purge /\ ~o.err /\ o.at.kind = "directory"
           managed == IF unlisted THEN {} ELSE managedPathsUnder(file.path)
           doomed == IF purges THEN Purged(file.path, managed) ELSE {}
           notDir == file.purge /\ ~o.err /\ o.at.kind # "directory"
       IN  /\ unlisted => purges
           /\ \E stuck \in SUBSET doomed :
                /\ Fault(o.fault \/ unlisted \/ stuck # {})
                /\ FileDone([p \in Path |-> IF p \in doomed \ stuck THEN NoFile
                                            ELSE IF p = file.path THEN o.at ELSE disk[p]],
                            (IF o.changed THEN {file.path} ELSE {}) \cup (doomed \ stuck), {},
                            o.err \/ notDir \/ stuck # {})
    BY <1>5, ZenonT(60) DEF HandleDirectory
  <2>3. o = Done(old, FALSE)
    BY <2>1, <2>2, ZenonT(60) DEF EnsureDirectory, SetMode
  <2>4. o.at = old /\ o.changed = FALSE /\ o.err = FALSE
    BY <2>3 DEF Done
  <2> DEFINE managed == IF unlisted THEN {} ELSE managedPathsUnder(file.path)
             doomed == IF file.purge /\ ~o.err /\ o.at.kind = "directory"
                       THEN Purged(file.path, managed) ELSE {}
             notDir == file.purge /\ ~o.err /\ o.at.kind # "directory"
  <2>5. PICK stuck \in SUBSET doomed :
             FileDone([p \in Path |-> IF p \in doomed \ stuck THEN NoFile
                                      ELSE IF p = file.path THEN o.at ELSE disk[p]],
                      (IF o.changed THEN {file.path} ELSE {}) \cup (doomed \ stuck), {},
                      o.err \/ notDir \/ stuck # {})
    BY <2>2, ZenonT(60)
  <2>6. doomed \subseteq Path /\ file.path \notin doomed
    BY DEF Purged
  <2> HIDE DEF doomed, notDir
  <2> DEFINE gone == doomed \ stuck
             d == [p \in Path |-> IF p \in gone THEN NoFile ELSE IF p = file.path THEN o.at ELSE disk[p]]
             ch == (IF o.changed THEN {file.path} ELSE {}) \cup gone
             err == o.err \/ notDir \/ stuck # {}
  <2>7. FileDone(d, ch, {}, err) /\ err \in BOOLEAN
    BY <2>5, ZenonT(60)
  <2>8. ch = gone /\ gone \subseteq Path /\ file.path \notin gone
    BY <2>4, <2>6, SMTT(60), ZenonT(60)
  <2> HIDE DEF gone, err
  <2>9. d[file.path] = old
    BY <1>1, <2>4, <2>8, ZenonT(60)
  <2> HIDE DEF d, ch, old
  <2>10. LeftAlone(d, ch, {}, err)
    BY <2>7, <2>8, <2>9 DEF LeftAlone, old
  <2> QED
    BY <2>10
<1>6. CASE HandleSymlink \/ HandleAbsent
  <2>1. PICK o \in EnsureSymlink(file, old, TargetExists(file.path)) \cup Remove(old, TargetExists(file.path)) :
          /\ FileDone([disk EXCEPT ![file.path] = o.at], IF o.changed THEN {file.path} ELSE {}, {}, o.err)
          /\ o = Done(old, FALSE)
    <3>1. CASE HandleSymlink
      <4>1. FileEnsureFromString(file.ensure) = "symlink"
        BY <3>1, Zenon DEF HandleSymlink, AtFile
      <4>2. old.kind = "symlink" /\ old.data = file.target
        BY <4>1 DEF InPlace, Satisfied
      <4>3. EnsureSymlink(file, old, TargetExists(file.path)) = {Done(old, FALSE)}
        BY <4>2, Zenon DEF EnsureSymlink
      <4> QED
        BY <3>1, <4>3, ZenonT(60) DEF HandleSymlink
    <3>2. CASE HandleAbsent
      <4>1. FileEnsureFromString(file.ensure) = "absent"
        BY <3>2, Zenon DEF HandleAbsent, AtFile
      <4>2. old.kind = "none" \/ ~TargetExists(file.path)
        BY <4>1 DEF InPlace, Satisfied
      <4>3. old.kind = "none" \/ (old.kind = "symlink" /\ ~TargetExists(file.path))
        BY <4>2, Zenon DEF TargetExists
      <4>4. Remove(old, TargetExists(file.path)) = {Done(old, FALSE)}
        BY <4>3, Zenon DEF Remove
      <4> QED
        BY <3>2, <4>4, Zenon DEF HandleAbsent
    <3> QED
      BY <1>6, <3>1, <3>2, ZenonT(60)
  <2>2. o.at = old /\ o.changed = FALSE /\ o.err = FALSE
    BY <2>1 DEF Done
  <2>3. FileDone([disk EXCEPT ![file.path] = o.at], {}, {}, FALSE)
    BY <2>1, <2>2, ZenonT(60)
  <2> QED
    BY <1>1, <1>2, <2>2, <2>3, ZenonT(60)
<1> QED
  BY <1>3, <1>4, <1>5, <1>6, ZenonT(60) DEF HandlesFile

(* After an item, the reconcile knows no changes but those of before and of   *)
(* the item.                                                               *)
LEMMA ChangesKnown ==
  ASSUME SetInv, run.at = "files", NEW d, NEW ch \in SUBSET Path, NEW saved \in SUBSET Saved, NEW err \in BOOLEAN,
         FileDone(d, ch, saved, err)
  PROVE  run'.changed \subseteq run.changed \cup ch
<1>1. PICK r : After(r, ch, saved, err)
  BY AfterFileDone, SMTT(60), ZenonT(60)
<1>2. menu \in Menu
  BY Known
<1>3. Reconciling(r) /\ r.changed = run.changed \cup ch /\ run' = AfterItem(r, r.cs.files, ToServices(r))
  BY <1>1, Zenon DEF After
<1>4. [r EXCEPT !.i = @ + 1].changed = r.changed
  BY <1>3 DEF Reconciling, SetRun
<1>5. ToServices(r).changed \in {r.changed, {}}
  BY <1>2, <1>3, Flow, ZenonT(60) DEF Follows
<1>6. run'.changed \in {r.changed, {}}
  BY <1>3, <1>4, <1>5 DEF AfterItem
<1> QED
  BY <1>3, <1>6

(* handleFileSet leaves an entry that is in place alone and does not count it *)
(* as changed, for any ConfigSets, Secrets and faults: what comparing before  *)
(* writing is for.  The resync of an applied ConfigSet restarts nothing.      *)
THEOREM InPlaceLeftAlone == Spec => InPlaceIsLeftAlone
<1> DEFINE A == run.at = "files" /\ InPlace(file) /\ run' # run =>
                  disk'[file.path] = disk[file.path] /\ file.path \notin run'.changed \ run.changed
<1>1. SetInv /\ [Next]_vars => [A]_vars
  <2> SUFFICES ASSUME SetInv, Next, run.at = "files", InPlace(file), run' # run
               PROVE  disk'[file.path] = disk[file.path] /\ file.path \notin run'.changed \ run.changed
    BY ZenonT(60)
  <2>1. HandlesFile \/ Crash
    BY ZenonT(60), IdleRun DEF Next, Proceed, HandlesFile, Reconcile, EditConfigSet, Detect, HandlePackage, NoPackages,
       HandleService, Restart, RestartFails, handleExecutions, updateFileBackups, updateConfigSetStatus,
       notifyResources, GiveUp, ListPackagesFails, RunGC, BlobsAge, EditSecret, Meddle, ServiceDies
  <2>2. CASE HandlesFile
    <3>1. PICK d, ch, saved, err : LeftAlone(d, ch, saved, err)
      BY <2>2, Known, InPlaceHandled, ZenonT(60)
    <3>2. run'.changed \subseteq run.changed \cup ch
      <4>1. /\ ch \in SUBSET Path /\ saved \in SUBSET Saved /\ err \in BOOLEAN
            /\ FileDone(d, ch, saved, err)
        BY <3>1, Zenon DEF LeftAlone
      <4> QED
        BY <4>1, ChangesKnown
    <3>3. disk' = d /\ d[file.path] = disk[file.path] /\ file.path \notin ch
      BY <3>1, ZenonT(60) DEF LeftAlone, FileDone
    <3> QED
      BY <3>2, <3>3
  <2>3. CASE Crash
    <3>1. run'.changed = {} /\ UNCHANGED disk
      BY <2>3, IdleRun DEF Crash, host
    <3> QED
      BY <3>1, SMTT(60), ZenonT(60)
  <2> QED
    BY <2>1, <2>2, <2>3
<1> QED
  BY <1>1, SetInvariant, PTL DEF Spec, InPlaceIsLeftAlone
=============================================================================
