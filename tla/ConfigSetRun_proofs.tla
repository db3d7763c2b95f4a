------------------------- MODULE ConfigSetRun_proofs -------------------------
(***************************************************************************)
(* The steps of one reconcile of a ConfigSet, for any ConfigSets, paths,      *)
(* services and executions: what the file handler does to a path, what the   *)
(* reconcile in progress knows, and the proof that every step keeps RunOK,    *)
(* the part of the invariant of ConfigSet_proofs that is about it.           *)
(***************************************************************************)
EXTENDS ConfigSet, TLAPS

-----------------------------------------------------------------------------
(* What the file handler does to one path.                                 *)

Contents == Data \cup {""}

Outcome == [at : Held, changed : BOOLEAN, err : BOOLEAN, fault : BOOLEAN]

(* The texts that the file handler brings along.                            *)
LEMMA NewlyHeld ==
  /\ Data \cup {"", "root", "0644", "0660"} \subseteq Text
  /\ NoFile \in Held /\ NoFile.kind = "none" /\ NoFile.data = ""
  /\ File("", "root", "0644") \in Held /\ File("", "root", "0644").kind = "file"
  /\ \A x \in Text : Directory(x) \in Held /\ Directory(x).kind = "directory" /\ Directory(x).mode = x
  /\ \A x \in Text : Link(x) \in Held /\ Link(x).kind = "symlink" /\ Link(x).data = x
<1>1. Data \cup {"", "root", "0644", "0660"} \subseteq Text
  BY DEF Text
<1> HIDE DEF Text
<1> QED
  BY <1>1 DEF Held, NoFile, File, Directory, Link

(* The three kinds of outcome.                                              *)
LEMMA Outcomes ==
  ASSUME NEW d \in Held, NEW b \in BOOLEAN, NEW o
  PROVE  /\ o = Done(d, b) => o \in Outcome /\ o.at = d /\ o.err = FALSE /\ o.changed = b
         /\ o = Faulty(d, b) => o \in Outcome /\ o.at = d /\ o.err = TRUE /\ o.changed = b
         /\ o = Refused(d) => o \in Outcome /\ o.at = d /\ o.err = TRUE /\ o.changed = FALSE
<1>1. ASSUME o = Done(d, b) PROVE o \in Outcome /\ o.at = d /\ o.err = FALSE /\ o.changed = b
  BY <1>1 DEF Outcome, Done
<1>2. ASSUME o = Faulty(d, b) PROVE o \in Outcome /\ o.at = d /\ o.err = TRUE /\ o.changed = b
  BY <1>2 DEF Outcome, Faulty
<1>3. ASSUME o = Refused(d) PROVE o \in Outcome /\ o.at = d /\ o.err = TRUE /\ o.changed = FALSE
  BY <1>3 DEF Outcome, Refused
<1> QED
  BY <1>1, <1>2, <1>3, Zenon

(* The three parts of writeFileContent.  A part that succeeds leaves what was *)
(* asked for, and a new content is a change.                                *)
LEMMA ContentPart ==
  ASSUME NEW old \in Held, NEW data \in Contents, NEW creatable \in BOOLEAN,
         NEW o \in WriteContentFile(old, data, creatable)
  PROVE  /\ o \in Outcome
         /\ o.at.kind \in {old.kind, "file"} /\ (old.kind # "none" => o.at.kind = old.kind)
         /\ ~o.err => o.at.data = data /\ (old.data # data => o.changed)
<1>2. CASE old.kind # "directory" /\ old.data # data
  <2> DEFINE new == IF old.kind = "none" THEN File("", "root", "0644") ELSE old
  <2>1. new \in Held /\ new.kind \in {"file", "symlink"} /\ (old.kind # "none" => new.kind = old.kind)
        /\ (old.kind = "none" => new.kind = "file")
    BY <1>2, NewlyHeld DEF Held
  <2>2. o \in {Done([new EXCEPT !.data = data], TRUE), Faulty(old, FALSE),
               Faulty([new EXCEPT !.data = ""], TRUE), Refused(old)}
    BY <1>2 DEF WriteContentFile
  <2> HIDE DEF new
  <2> DEFINE full == [new EXCEPT !.data = data]
             cut == [new EXCEPT !.data = ""]
  <2>3. full \in Held /\ cut \in Held /\ full.kind = new.kind /\ cut.kind = new.kind /\ full.data = data
    BY <2>1, NewlyHeld, ZenonT(60) DEF Held, Contents
  <2>4. o \in {Done(full, TRUE), Faulty(old, FALSE), Faulty(cut, TRUE), Refused(old)}
    BY <2>2
  <2> HIDE DEF full, cut
  <2>5. \/ o \in Outcome /\ o.at = full /\ o.changed = TRUE
        \/ o \in Outcome /\ o.at \in {old, cut} /\ o.err = TRUE
    BY <2>3, <2>4, Outcomes, ZenonT(60)
  <2> QED
    BY <1>2, <2>1, <2>3, <2>5
<1>3. CASE old.kind = "directory" \/ old.data = data
  <2>1. o = Refused(old) \/ (o = Done(old, FALSE) /\ old.data = data)
    BY <1>3 DEF WriteContentFile
  <2>2. o \in Outcome /\ o.at = old /\ (o.err = TRUE \/ old.data = data)
    BY <2>1, Outcomes, Zenon
  <2> QED
    BY <2>2
<1> QED
  BY <1>2, <1>3

(* The owner is root unless another is asked for.                            *)
Owned(o, old, owner) ==
  /\ o \in Outcome /\ o.at.kind = old.kind /\ o.at.data = old.data
  /\ ~o.err => /\ o.at.kind # "none"
               /\ o.at.owner = IF owner = "" THEN "root" ELSE owner

(* Chown sets the owner asked for, root by default, and leaves the content  *)
(* and the kind of the path alone.                                          *)
LEMMA OwnerPart ==
  ASSUME NEW old \in Held, NEW owner \in Text, NEW o \in Chown(old, owner)
  PROVE  Owned(o, old, owner)
<1> DEFINE want == IF owner = "" THEN "root" ELSE owner
           new == [old EXCEPT !.owner = want]
<1>1. want \in Text
  BY NewlyHeld
<1>2. \/ o = Refused(old) \/ o = Faulty(old, FALSE)
      \/ o = Done(old, FALSE) /\ old.owner = want /\ old.kind # "none"
      \/ o = Done(new, TRUE) /\ old.kind # "none"
  BY DEF Chown
<1> HIDE DEF want
<1>3. new \in Held /\ new.kind = old.kind /\ new.data = old.data /\ new.owner = want
  BY <1>1 DEF Held
<1> HIDE DEF new
<1>4. \/ o \in Outcome /\ o.at = old /\ o.err = TRUE
      \/ o \in Outcome /\ o.at = old /\ old.owner = want /\ old.kind # "none"
      \/ o \in Outcome /\ o.at = new /\ old.kind # "none"
  BY <1>2, <1>3, Outcomes, ZenonT(60)
<1>5. /\ o \in Outcome /\ o.at.kind = old.kind /\ o.at.data = old.data
      /\ ~o.err => o.at.kind # "none" /\ o.at.owner = want
  BY <1>3, <1>4
<1> QED
  BY <1>5 DEF want, Owned

(* The mode.                                                               *)
LEMMA ModePart ==
  ASSUME NEW old \in Held, NEW mode \in Text, NEW o \in SetMode(old, mode)
  PROVE  /\ o \in Outcome
         /\ o.at.kind = old.kind /\ o.at.data = old.data /\ o.at.owner = old.owner
         /\ ~o.err => o.at.kind # "none" /\ o.at.mode = mode
<1> DEFINE new == [old EXCEPT !.mode = mode]
<1>1. \/ o = Refused(old) \/ o = Faulty(old, FALSE)
      \/ o = Done(old, FALSE) /\ old.mode = mode /\ old.kind # "none"
      \/ o = Done(new, TRUE) /\ old.kind # "none"
  BY Zenon DEF SetMode
<1>2. new \in Held /\ new.kind = old.kind /\ new.data = old.data /\ new.owner = old.owner /\ new.mode = mode
  BY DEF Held
<1> HIDE DEF new
<1>3. \/ o \in Outcome /\ o.at = old /\ o.err = TRUE
      \/ o \in Outcome /\ o.at = old /\ old.mode = mode /\ old.kind # "none"
      \/ o \in Outcome /\ o.at = new /\ old.kind # "none"
  BY <1>1, <1>2, Outcomes, ZenonT(60)
<1> QED
  BY <1>2, <1>3

(* writeFileContent after the backup: without an error the path holds what     *)
(* was asked for, and a change of its content is reported.                   *)
Wrote(o, f, data, old) ==
  /\ o \in Outcome
  /\ o.at.kind \in {old.kind, "file"} /\ (old.kind # "none" => o.at.kind = old.kind)
  /\ ~o.err => /\ o.at.kind # "none" /\ o.at.data = data
               /\ o.at.owner = IF f.owner = "" THEN "root" ELSE f.owner
               /\ f.mode # "" => o.at.mode = f.mode
               /\ old.data # data => o.changed

(* Without an error, writeFileContent leaves the content, the owner and     *)
(* the mode asked for, and reports a change of the content.                 *)
LEMMA WriteOutcome ==
  ASSUME NEW old \in Held, NEW f, f.owner \in Text, f.mode \in Text,
         NEW data \in Contents, NEW creatable \in BOOLEAN,
         NEW o \in WriteFile(f, data, old, creatable)
  PROVE  Wrote(o, f, data, old)
<1> SUFFICES /\ o \in Outcome
             /\ o.at.kind \in {old.kind, "file"} /\ (old.kind # "none" => o.at.kind = old.kind)
             /\ ~o.err => /\ o.at.kind # "none" /\ o.at.data = data
                          /\ f.owner = "" => o.at.owner = "root"
                          /\ f.owner # "" => o.at.owner = f.owner
                          /\ f.mode # "" => o.at.mode = f.mode
                          /\ old.data # data => o.changed
  BY DEF Wrote
<1> DEFINE want == IF f.owner = "" THEN "root" ELSE f.owner
           Modes(c) == IF f.mode = "" THEN {Done(c.at, FALSE)} ELSE SetMode(c.at, f.mode)
           Third(w, c, m) == IF m.err THEN [m EXCEPT !.changed = TRUE]
                             ELSE Done(m.at, w.changed \/ c.changed \/ m.changed)
<1>1. PICK w \in WriteContentFile(old, data, creatable) :
        o \in IF w.err THEN {w} ELSE
              UNION {IF c.err THEN {[c EXCEPT !.changed = TRUE]} ELSE {Third(w, c, m) : m \in Modes(c)} :
                     c \in Chown(w.at, f.owner)}
  BY DEF WriteFile
<1>2. /\ w \in Outcome
      /\ w.at.kind \in {old.kind, "file"} /\ (old.kind # "none" => w.at.kind = old.kind)
      /\ ~w.err => w.at.data = data /\ (old.data # data => w.changed)
  BY ContentPart
<1>3. CASE w.err
  BY <1>1, <1>2, <1>3
<1>4. CASE ~w.err
  <2>1. PICK c \in Chown(w.at, f.owner) :
          o \in IF c.err THEN {[c EXCEPT !.changed = TRUE]} ELSE {Third(w, c, m) : m \in Modes(c)}
    BY <1>1, <1>4
  <2>2. w.at \in Held
    BY <1>2 DEF Outcome
  <2>3. /\ c \in Outcome /\ c.at.kind = w.at.kind /\ c.at.data = w.at.data
        /\ ~c.err => c.at.kind # "none" /\ c.at.owner = want
    <3> HIDE DEF want
    <3>1. \A d \in Held, x \in Text : c \in Chown(d, x) => Owned(c, d, x)
      BY OwnerPart
    <3>2. Owned(c, w.at, f.owner)
      BY <2>1, <2>2, <3>1
    <3> QED
      BY <3>2 DEF want, Owned
  <2>4. CASE c.err
    <3>1. o = [c EXCEPT !.changed = TRUE]
      BY <2>1, <2>4
    <3>2. o \in Outcome /\ o.at = c.at /\ o.err = c.err
      BY <2>3, <3>1 DEF Outcome
    <3> QED
      BY <1>2, <2>3, <2>4, <3>2
  <2>5. CASE ~c.err
    <3>1. PICK m \in Modes(c) : o = Third(w, c, m)
      BY <2>1, <2>5
    <3>2. c.at \in Held
      BY <2>3 DEF Outcome
    <3>3. /\ m \in Outcome
          /\ m.at.kind = c.at.kind /\ m.at.data = c.at.data /\ m.at.owner = c.at.owner
          /\ ~m.err => (f.mode # "" => m.at.mode = f.mode)
      <4>1. CASE f.mode = ""
        BY <3>1, <3>2, <4>1, Outcomes
      <4>2. CASE f.mode # ""
        <5>1. m \in SetMode(c.at, f.mode)
          BY <3>1, <4>2
        <5> HIDE DEF Modes, Third, want
        <5>2. ASSUME NEW d \in Held, NEW x \in Text, m \in SetMode(d, x)
              PROVE  /\ m \in Outcome /\ m.at.kind = d.kind /\ m.at.data = d.data /\ m.at.owner = d.owner
                     /\ ~m.err => m.at.mode = x
          BY <5>2, ModePart
        <5> QED
          BY <3>2, <5>1, <5>2
      <4> QED
        BY <4>1, <4>2
    <3>4. CASE m.err
      <4>1. o = [m EXCEPT !.changed = TRUE]
        BY <3>1, <3>4
      <4>2. o \in Outcome /\ o.at = m.at /\ o.err = m.err
        BY <3>3, <4>1 DEF Outcome
      <4> QED
        BY <1>2, <2>3, <3>3, <3>4, <4>2
    <3>5. CASE ~m.err
      <4>1. o = Done(m.at, w.changed \/ c.changed \/ m.changed)
        BY <3>1, <3>5
      <4>2. m.at \in Held /\ (w.changed \/ c.changed \/ m.changed) \in BOOLEAN
        BY <3>3 DEF Outcome
      <4>3. o \in Outcome /\ o.at = m.at /\ (w.changed => o.changed)
        BY <4>1, <4>2 DEF Done, Outcome
      <4> HIDE DEF want
      <4>4. /\ o \in Outcome
            /\ o.at.kind \in {old.kind, "file"} /\ (old.kind # "none" => o.at.kind = old.kind)
            /\ o.at.kind # "none" /\ o.at.data = data /\ o.at.owner = want
            /\ f.mode # "" => o.at.mode = f.mode
            /\ old.data # data => o.changed
        BY <1>2, <1>4, <2>3, <2>5, <3>3, <3>5, <4>3, ZenonT(60)
      <4> QED
        BY <4>4 DEF want
    <3> QED
      BY <3>4, <3>5
  <2> QED
    BY <2>4, <2>5
<1> QED
  BY <1>3, <1>4

(* Ensuring a directory: its mode is set, nothing is read from it.            *)
Ensured(o, f, old) ==
  /\ o \in Outcome /\ o.at.data = old.data
  /\ old.kind # "none" => o.at.kind = old.kind
  /\ old.kind = "none" => o.at.kind \in {"none", "directory"}
  /\ ~o.err => o.at.kind # "none" /\ (f.mode # "" => o.at.mode = f.mode)

(* Without an error, a directory entry leaves something at the path, with   *)
(* the mode asked for; what held a file or a link still does.               *)
LEMMA DirectoryOutcome ==
  ASSUME NEW old \in Held, NEW f, f.mode \in Text, NEW o \in EnsureDirectory(f, old)
  PROVE  Ensured(o, f, old)
<1> USE DEF Ensured
<1>1. CASE old.kind = "none"
  <2> DEFINE mode == IF f.mode = "" THEN "0660" ELSE f.mode
  <2>1. Directory(mode) \in Held /\ Directory(mode).kind = "directory" /\ Directory(mode).mode = mode
        /\ Directory(mode).data = ""
    BY NewlyHeld DEF Directory
  <2>2. o = Done(Directory(mode), TRUE) \/ o = Faulty(old, FALSE)
    BY <1>1 DEF EnsureDirectory
  <2>5. f.mode # "" => mode = f.mode
    OBVIOUS
  <2> HIDE DEF mode
  <2>3. o \in Outcome /\ (o.at = Directory(mode) \/ (o.at = old /\ o.err = TRUE))
    BY <2>1, <2>2, Outcomes, ZenonT(60)
  <2>4. old.data = ""
    BY <1>1 DEF Held
  <2> QED
    BY <1>1, <2>1, <2>3, <2>4, <2>5
<1>2. CASE old.kind # "none" /\ f.mode = ""
  <2>1. o = Done(old, FALSE)
    BY <1>2 DEF EnsureDirectory
  <2>2. o \in Outcome /\ o.at = old
    BY <2>1, Outcomes, Zenon
  <2> QED
    BY <1>2, <2>2
<1>3. CASE old.kind # "none" /\ f.mode # ""
  <2>1. o \in SetMode(old, f.mode)
    BY <1>3 DEF EnsureDirectory
  <2> QED
    BY <1>3, <2>1, ModePart, ZenonT(60)
<1> QED
  BY <1>1, <1>2, <1>3

(* Removing: what is gone is counted.  Only a link whose target is missing     *)
(* stays without an error.                                                 *)
LEMMA RemoveOutcome ==
  ASSUME NEW old \in Held, NEW exists \in BOOLEAN, NEW o \in Remove(old, exists)
  PROVE  /\ o \in Outcome /\ o.at \in {old, NoFile}
         /\ ~o.err => o.at.kind = "none" \/ (old.kind = "symlink" /\ o.at = old /\ ~exists)
         /\ o.at # old => o.changed
<1>1. \/ o = Done(old, FALSE) /\ (old.kind = "none" \/ (old.kind = "symlink" /\ ~exists))
      \/ o = Done(NoFile, TRUE)
      \/ o = Faulty(old, TRUE)
  BY Zenon DEF Remove
<1>2. \/ o \in Outcome /\ o.at = old /\ (old.kind = "none" \/ (old.kind = "symlink" /\ ~exists))
      \/ o \in Outcome /\ o.at = NoFile /\ o.changed = TRUE
      \/ o \in Outcome /\ o.at = old /\ o.err = TRUE
  <2>1. NoFile \in Held
    BY NewlyHeld
  <2> QED
    BY <1>1, <2>1, Outcomes, ZenonT(60)
<1>3. NoFile.kind = "none"
  BY NewlyHeld
<1> QED
  BY <1>2, <1>3

(* Ensuring a link: without an error the link is there, and a new target is    *)
(* counted.                                                                *)
LEMMA LinkOutcome ==
  ASSUME NEW old \in Held, NEW f, f.target \in Text, NEW exists \in BOOLEAN,
         NEW o \in EnsureSymlink(f, old, exists)
  PROVE  /\ o \in Outcome /\ o.at \in {old, NoFile, Link(f.target)}
         /\ old.kind # "symlink" => o.at = old
         /\ ~o.err => o.at.kind = "symlink" /\ o.at.data = f.target /\ (o.at # old => o.changed)
<1>1. CASE old.kind # "symlink"
  <2>1. o = Refused(old)
    BY <1>1 DEF EnsureSymlink
  <2> QED
    BY <1>1, <2>1, Outcomes, Zenon
<1>2. CASE old.kind = "symlink" /\ old.data = f.target
  <2>1. o = Done(old, FALSE)
    BY <1>2 DEF EnsureSymlink
  <2>2. o \in Outcome /\ o.at = old
    BY <2>1, Outcomes, Zenon
  <2> QED
    BY <1>2, <2>2
<1>3. CASE old.kind = "symlink" /\ old.data # f.target
  <2>1. PICK r \in Remove(old, exists) :
          o \in IF r.err THEN {[r EXCEPT !.changed = FALSE]}
                ELSE IF r.at # NoFile THEN {Refused(r.at)}
                ELSE {Done(Link(f.target), TRUE), Faulty(NoFile, TRUE)}
    BY <1>3, Zenon DEF EnsureSymlink
  <2>2. r \in Outcome /\ r.at \in {old, NoFile} /\ r.at \in Held
    BY <2>1, RemoveOutcome DEF Outcome
  <2>3. CASE r.err
    <3>1. o = [r EXCEPT !.changed = FALSE]
      BY <2>1, <2>3
    <3>2. o \in Outcome /\ o.at = r.at /\ o.err = r.err
      BY <2>2, <3>1, Zenon DEF Outcome
    <3> QED
      BY <1>3, <2>2, <2>3, <3>2
  <2>4. CASE ~r.err
    <3>1. o = Refused(r.at) \/ o = Done(Link(f.target), TRUE) \/ o = Faulty(NoFile, TRUE)
      BY <2>1, <2>4, Zenon
    <3>2. \/ o \in Outcome /\ o.at \in {old, NoFile} /\ o.err = TRUE
          \/ o \in Outcome /\ o.at = Link(f.target) /\ o.changed = TRUE
      <4>1. NoFile \in Held /\ Link(f.target) \in Held
        BY NewlyHeld
      <4> QED
        BY <2>2, <3>1, <4>1, Outcomes, ZenonT(60)
    <3>3. Link(f.target).kind = "symlink" /\ Link(f.target).data = f.target
      BY DEF Link
    <3> QED
      BY <1>3, <3>2, <3>3
  <2> QED
    BY <2>3, <2>4
<1> QED
  BY <1>1, <1>2, <1>3

-----------------------------------------------------------------------------
(* The reconcile in progress.                                              *)

Saved == [path : Path, hash : Contents]

SetRun ==
  [at : Steps, name : Name \cup {""}, cs : ConfigSets(menu) \cup {Deleted}, gen : 0..(EditBound + 1),
   i : Nat \ {0}, changed : SUBSET Path, saved : SUBSET Saved, todo : SUBSET Service, err : BOOLEAN]

Reconciling(r) == r \in SetRun /\ r.name \in Name /\ r.cs \in ConfigSets(menu)

(* The item that is next exists.                                            *)
Placed(r) ==
  /\ r.at = "packages" => r.cs.pkgs = <<>> \/ r.i \in 1..Len(r.cs.pkgs)
  /\ r.at = "files" => r.i \in 1..Len(r.cs.files)
  /\ r.at = "services" => r.i \in 1..Len(r.cs.svcs)

RunOK == run = Idle \/ (Reconciling(run) /\ run.at # "idle" /\ Placed(run))

(* What the scenarios provide.                                              *)
LEMMA Declared ==
  ASSUME menu \in Menu, NEW s \in ConfigSets(menu)
  PROVE  /\ s # Deleted
         /\ s.files \in Seq(Range(s.files)) /\ s.svcs \in Seq(Range(s.svcs))
         /\ s.pkgs \in Seq(Range(s.pkgs)) /\ s.execs \in Seq(Range(s.execs))
         /\ \A f \in Range(s.files) :
              /\ f.path \in Path /\ f.content \in Contents
              /\ f.owner \in Text /\ f.mode \in Text /\ f.target \in Text
         /\ \A v \in Range(s.svcs) : v.name \in Service /\ v.subs \subseteq Path
         /\ \A e \in Range(s.execs) : e.name \in Exec /\ e.subs \subseteq Path
         /\ s.notifies \subseteq Target
<1>1. IsConfigSet(s)
  BY ConfigSetAssumption
<1>2. s # Deleted
  BY DEF ConfigSets
<1>3. ASSUME NEW f \in Range(s.files) PROVE f.owner \in Text /\ f.mode \in Text /\ f.target \in Text
  <2>1. f \in Entries
    BY DEF Entries
  <2>2. {f.owner, f.mode, f.target} \in {{g.owner, g.mode, g.target} : g \in Entries}
    BY <2>1
  <2>3. {f.owner, f.mode, f.target} \subseteq UNION {{g.owner, g.mode, g.target} : g \in Entries}
    BY <2>2
  <2> QED
    BY <2>3 DEF Text
<1> QED
  BY <1>1, <1>2, <1>3 DEF IsConfigSet, Contents

(* A list that is not empty has a first item, and all its items are in range. *)
LEMMA Items ==
  ASSUME NEW list, list \in Seq(Range(list))
  PROVE  /\ Len(list) \in Nat /\ (list # <<>> => Len(list) >= 1)
         /\ \A i \in 1..Len(list) : list[i] \in Range(list)
         /\ \A x \in Range(list) : \E i \in 1..Len(list) : x = list[i]
BY DEF Range

(* Each step of a reconcile goes on to the next that has something to do.     *)
Follows(q, r) ==
  /\ Reconciling(q) /\ Placed(q) /\ q.at # "idle"
  /\ q.cs = r.cs /\ q.name = r.name /\ q.gen = r.gen /\ q.err = r.err
  /\ q.saved \subseteq r.saved /\ q.changed \in {r.changed, {}}

(* The steps of Reconcile follow each other in the order of the code, with  *)
(* the ConfigSet that was read and the errors met so far.                   *)
LEMMA Flow ==
  ASSUME menu \in Menu, NEW r, Reconciling(r)
  PROVE  /\ Follows(ToExecutions(r), r) /\ ToExecutions(r).at \in {"executions", "backups", "status"}
         /\ Follows(ToRestarts(r), r)
         /\ Follows(ToServices(r), r)
         /\ Follows(ToFiles(r), r)
         /\ Follows(ToBackups(r), r) /\ ToBackups(r).at \in {"backups", "status"}
         /\ Follows(ToStatus(r), r) /\ ToStatus(r).at = "status"
<1> DEFINE c == r.cs
<1>0. /\ c.files \in Seq(Range(c.files)) /\ c.svcs \in Seq(Range(c.svcs))
      /\ \A v \in Range(c.svcs) : v.name \in Service
  BY Declared DEF Reconciling
<1>9. /\ 1 \in Nat \ {0}
      /\ {"files", "services", "restarts", "executions", "backups", "status"} \subseteq Steps
  BY DEF Steps
<1> HIDE DEF c
<1>8. ASSUME NEW at \in {"restarts", "executions", "backups"}, NEW q, q = [r EXCEPT !.at = at, !.i = 1]
      PROVE  Follows(q, r) /\ q.at = at
  <2>1. /\ q \in SetRun /\ q.at = at /\ q.cs = r.cs /\ q.name = r.name /\ q.gen = r.gen
        /\ q.err = r.err /\ q.saved = r.saved /\ q.changed = r.changed
    BY <1>8, <1>9, ZenonT(60) DEF Reconciling, SetRun
  <2> QED
    BY <2>1 DEF Follows, Reconciling, Placed
<1>1. /\ Follows(ToStatus(r), r) /\ ToStatus(r).at = "status"
  <2> DEFINE q == [r EXCEPT !.at = "status", !.i = 1, !.changed = {}, !.saved = {}]
  <2>1. /\ q \in SetRun /\ q.at = "status" /\ q.cs = r.cs /\ q.name = r.name /\ q.gen = r.gen
        /\ q.err = r.err /\ q.saved = {} /\ q.changed = {}
    BY <1>9 DEF Reconciling, SetRun
  <2>2. ToStatus(r) = q
    BY DEF ToStatus
  <2> HIDE DEF q
  <2> QED
    BY <2>1, <2>2 DEF Follows, Reconciling, Placed
<1>2. Follows(ToBackups(r), r) /\ ToBackups(r).at \in {"backups", "status"}
  BY <1>1, <1>8 DEF ToBackups
<1>3. Follows(ToExecutions(r), r) /\ ToExecutions(r).at \in {"executions", "backups", "status"}
  BY <1>2, <1>8 DEF ToExecutions
<1>4. Follows(ToRestarts(r), r)
  BY <1>3, <1>8 DEF ToRestarts
<1>5. Follows(ToServices(r), r)
  <2>1. CASE c.svcs = <<>>
    BY <1>3, <2>1 DEF ToServices, c
  <2>2. CASE c.svcs # <<>>
    <3> DEFINE due == DueServices(r)
               q == [r EXCEPT !.at = "services", !.i = 1, !.todo = due]
    <3>1. due \in SUBSET Service
      BY <1>0 DEF DueServices, c
    <3>2. Len(c.svcs) \in Nat /\ Len(c.svcs) >= 1
      BY <1>0, <2>2, Items
    <3>4. ToServices(r) = q
      BY <2>2 DEF ToServices, c
    <3> HIDE DEF due
    <3>3. /\ q \in SetRun /\ q.at = "services" /\ q.i = 1 /\ q.cs = r.cs /\ q.name = r.name /\ q.gen = r.gen
          /\ q.err = r.err /\ q.saved = r.saved /\ q.changed = r.changed
      BY <1>9, <3>1 DEF Reconciling, SetRun
    <3> HIDE DEF q
    <3> QED
      BY <3>2, <3>3, <3>4 DEF Follows, Reconciling, Placed, c
  <2> QED
    BY <2>1, <2>2
<1>6. Follows(ToFiles(r), r)
  <2>1. CASE c.files = <<>>
    BY <1>5, <2>1 DEF ToFiles, c
  <2>2. CASE c.files # <<>>
    <3> DEFINE q == [r EXCEPT !.at = "files", !.i = 1]
    <3>2. Len(c.files) \in Nat /\ Len(c.files) >= 1
      BY <1>0, <2>2, Items
    <3>3. /\ q \in SetRun /\ q.at = "files" /\ q.i = 1 /\ q.cs = r.cs /\ q.name = r.name /\ q.gen = r.gen
          /\ q.err = r.err /\ q.saved = r.saved /\ q.changed = r.changed
      BY <1>9 DEF Reconciling, SetRun
    <3>4. ToFiles(r) = q
      BY <2>2 DEF ToFiles, c
    <3> HIDE DEF q
    <3> QED
      BY <3>2, <3>3, <3>4 DEF Follows, Reconciling, Placed, c
  <2> QED
    BY <2>1, <2>2
<1> QED
  BY <1>1, <1>2, <1>3, <1>4, <1>5, <1>6

-----------------------------------------------------------------------------
(* The file handlers.                                                      *)

FilesKnown ==
  /\ menu \in Menu /\ disk \in [Path -> Held] /\ bucket \in [Contents -> BlobState]
  /\ secret \in Secret \cup {""} /\ Reconciling(run) /\ Placed(run)

HandlesFile ==
  \/ SkipFile \/ RenderFails \/ writeFileContent \/ HandleDirectory \/ HandleSymlink
  \/ HandleAbsent \/ HandleUnhandled

(* A path that holds at is as the entry asks for: Satisfied, for entries that   *)
(* ask for other things than the removal of a link.                          *)
Pleased(f, at) ==
  LET ensure == FileEnsureFromString(f.ensure)
  IN  \/ ensure = "file" /\ ~f.ref /\ f.content = ""
      \/ ensure = "file" /\ f.createOnly /\ at.kind # "none"
      \/ /\ ensure = "file" /\ at.kind = "file"
         /\ at.data \in IF f.ref THEN Secret ELSE {f.content}
         /\ at.owner = IF f.owner = "" THEN "root" ELSE f.owner
         /\ f.mode # "" => at.mode = f.mode
      \/ ensure = "directory" /\ at.kind = "directory" /\ (f.mode # "" => at.mode = f.mode)
      \/ ensure = "symlink" /\ at.kind = "symlink" /\ at.data = f.target
      \/ ensure = "absent" /\ at.kind = "none"

(* A link whose target is missing, which counts as absent.                    *)
Dangling(f, d) ==
  LET at == d[f.path]
  IN  /\ FileEnsureFromString(f.ensure) = "absent" /\ at.kind = "symlink"
      /\ at.data \in Path => d[at.data].kind = "none"

(* A link is not managed as a file or a directory, and where a directory is     *)
(* asked for there is no plain file but one that someone else wrote.          *)
Suits(f, at) ==
  /\ at.kind = "symlink" => FileEnsureFromString(f.ensure) \notin {"file", "directory"}
  /\ at.kind = "file" /\ FileEnsureFromString(f.ensure) = "directory" => at.data = Junk

WellDone(f, d) == Pleased(f, d[f.path]) \/ d[f.path].data = Junk \/ Dangling(f, d)

(* What handling the file does to a path: another path is left alone or        *)
(* purged, no link appears, a plain file only where one is asked for, and       *)
(* without an error the file is as asked for.                                *)
Effect(d, err) ==
  /\ \A p \in Path : \/ p = file.path
                     \/ d[p] = disk[p]
                     \/ /\ d[p] = NoFile /\ Parent[p] = file.path /\ file.purge
                        /\ FileEnsureFromString(file.ensure) = "directory"
  /\ d[file.path].kind = "symlink" /\ Suits(file, disk[file.path]) =>
       disk[file.path].kind = "symlink" /\ d[file.path].data \in {disk[file.path].data, file.target}
  /\ d[file.path].kind = "file" => \/ FileEnsureFromString(file.ensure) = "file"
                                   \/ disk[file.path].kind = "file" /\ d[file.path].data = disk[file.path].data
  /\ ~err /\ Suits(file, disk[file.path]) => WellDone(file, d)

(* The item is finished; a changed content that goes uncounted is an error,    *)
(* and every backup to record has been saved.                               *)
Finished(d, ch, saved, err) ==
  /\ Effect(d, err)
  /\ d \in [Path -> Held] /\ ch \subseteq Path /\ saved \subseteq Saved /\ err \in BOOLEAN
  /\ FileDone(d, ch, saved, err)
  /\ ~err => \A p \in Path : d[p].data # disk[p].data => p \in ch
  /\ \A b \in saved : bucket'[b.hash] # "none"

BlobsStay ==
  /\ bucket' \in [Contents -> BlobState]
  /\ \A x \in Contents : bucket[x] # "none" => bucket'[x] # "none"

(* The file at hand.                                                       *)
LEMMA FileAtHand ==
  ASSUME FilesKnown, run.at = "files"
  PROVE  /\ file \in Range(run.cs.files) /\ file.path \in Path /\ file.content \in Contents
         /\ file.owner \in Text /\ file.mode \in Text /\ file.target \in Text
         /\ disk[file.path] \in Held
         /\ Content(file) \in Contents
<1>1. run.cs \in ConfigSets(menu) /\ run.i \in 1..Len(run.cs.files) /\ menu \in Menu
  BY DEF FilesKnown, Reconciling, Placed
<1>2. run.cs.files \in Seq(Range(run.cs.files))
  BY <1>1, Declared
<1>3. file \in Range(run.cs.files)
  BY <1>1, <1>2, Items, SMTT(60), ZenonT(60) DEF file
<1> HIDE DEF file
<1>4. /\ file.path \in Path /\ file.content \in Contents
      /\ file.owner \in Text /\ file.mode \in Text /\ file.target \in Text
  BY <1>1, <1>3, Declared
<1>5. Content(file) \in Contents
  BY <1>4, ConfigSetAssumption DEF Content, FilesKnown, Contents
<1> QED
  BY <1>3, <1>4, <1>5 DEF FilesKnown

(* The backup of a file: a blob that exists stays, one that is reported as     *)
(* saved exists.                                                           *)
LEMMA BackupMade ==
  ASSUME FilesKnown, NEW old \in Held, NEW b \in Backup(old), old.kind = "file"
  PROVE  /\ old.data \in Contents /\ b.blob \in BlobState
         /\ bucket[old.data] # "none" => b.blob # "none"
         /\ b.ok => b.blob # "none"
<1>1. old.data \in Contents
  BY DEF Held, Contents
<1>2. bucket[old.data] \in BlobState
  BY <1>1 DEF FilesKnown
<1>3. CASE ~menu.bucket
  <2>1. b = [blob |-> bucket[old.data], ok |-> FALSE, fault |-> FALSE]
    BY <1>3 DEF Backup
  <2> QED
    BY <1>1, <1>2, <2>1
<1>4. CASE menu.bucket
  <2> DEFINE blob == bucket[old.data]
  <2>1. b \in SaveToFileBucket(blob)
    BY <1>4 DEF Backup
  <2> HIDE DEF blob
  <2>2. \/ b.blob = blob /\ (b.ok = FALSE \/ blob # "none")
        \/ b.blob \in {"young", "partial"}
    BY <2>1 DEF SaveToFileBucket
  <2> QED
    BY <1>1, <1>2, <2>2 DEF BlobState, blob
<1> QED
  BY <1>3, <1>4

(* Every case of handleFileSet finishes its item, with a change of the      *)
(* disk that is counted or reported as an error.                            *)
LEMMA FileStep ==
  ASSUME FilesKnown, HandlesFile
  PROVE  /\ \E d, ch, saved, err : Finished(d, ch, saved, err)
         /\ BlobsStay /\ run.at = "files"
         /\ UNCHANGED <<menu, objects, pkgs, enabled, used, reported, edits>>
<1> DEFINE old == disk[file.path]
<1>0. run.at = "files"
  BY ZenonT(60) DEF HandlesFile, SkipFile, RenderFails, writeFileContent, HandleDirectory, HandleSymlink,
         HandleAbsent, HandleUnhandled, AtFile
<1>1. /\ file.path \in Path /\ old \in Held /\ Content(file) \in Contents
      /\ file.owner \in Text /\ file.mode \in Text /\ file.target \in Text
  BY <1>0, FileAtHand
<1>2. disk \in [Path -> Held] /\ bucket \in [Contents -> BlobState]
  BY DEF FilesKnown
<1>3. ASSUME UNCHANGED bucket PROVE BlobsStay
  BY <1>2, <1>3, ZenonT(60) DEF BlobsStay
<1>4. UNCHANGED <<menu, objects, pkgs, enabled, used, reported, edits>>
  BY ZenonT(60) DEF HandlesFile, SkipFile, RenderFails, writeFileContent, HandleDirectory, HandleSymlink,
         HandleAbsent, HandleUnhandled
<1>5. ASSUME NEW err \in BOOLEAN, FileDone(disk, {}, {}, err), UNCHANGED bucket, ~err => Pleased(file, old)
      PROVE  Finished(disk, {}, {}, err)
  <2>1. Effect(disk, err)
    BY <1>1, <1>5 DEF Effect, WellDone
  <2> QED
    BY <1>2, <1>5, <2>1, ZenonT(60) DEF Finished
<1>6. ASSUME NEW o \in Outcome, NEW ch, ch \subseteq Path,
             FileDone([disk EXCEPT ![file.path] = o.at], ch, {}, o.err), UNCHANGED bucket,
             ~o.err => (o.at.data # old.data => file.path \in ch),
             o.at.kind = "symlink" => old.kind = "symlink" /\ o.at.data \in {old.data, file.target},
             o.at.kind = "file" => old.kind = "file" /\ o.at.data = old.data,
             ~o.err => Pleased(file, o.at) \/ (o.at = old /\ Dangling(file, disk))
      PROVE  \E d, c, saved, err : Finished(d, c, saved, err)
  <2> DEFINE d == [disk EXCEPT ![file.path] = o.at]
  <2>1. o.at \in Held /\ o.err \in BOOLEAN
    BY DEF Outcome
  <2>2. d \in [Path -> Held] /\ \A p \in Path : d[p] = IF p = file.path THEN o.at ELSE disk[p]
    BY <1>1, <1>2, <2>1, SMTT(60), ZenonT(60)
  <2>3. FileDone(d, ch, {}, o.err)
    BY <1>6, SMTT(60), ZenonT(60)
  <2> HIDE DEF d
  <2>5. Effect(d, o.err)
    <3>1. d[file.path] = o.at
      BY <1>1, <2>2, SMTT(60), ZenonT(60)
    <3>2. ~o.err => WellDone(file, d)
      <4>1. CASE Pleased(file, o.at)
        BY <3>1, <4>1 DEF WellDone
      <4>2. CASE o.at = old /\ Dangling(file, disk)
        <5>1. \A p \in Path : d[p] = disk[p]
          BY <2>2, <4>2
        <5>2. Dangling(file, d)
          BY <1>1, <4>2, <5>1, SMTT(60), ZenonT(60) DEF Dangling
        <5> QED
          BY <5>2 DEF WellDone
      <4> QED
        BY <1>6, <4>1, <4>2
    <3> QED
      BY <1>6, <2>2, <3>1, <3>2, ZenonT(60) DEF Effect
  <2>4. Finished(d, ch, {}, o.err)
    BY <1>6, <2>1, <2>2, <2>3, <2>5, ZenonT(60) DEF Finished
  <2> QED
    BY <2>4
<1>11. CASE SkipFile
  <2>1. Unrenderable(file) \in BOOLEAN /\ FileDone(disk, {}, {}, Unrenderable(file)) /\ UNCHANGED bucket
    BY <1>11 DEF SkipFile, Unrenderable
  <2>3. LeavesAlone(file) /\ FileEnsureFromString(file.ensure) = "file"
    BY <1>11 DEF SkipFile, AtFile
  <2>4. ~Unrenderable(file) => Pleased(file, old)
    BY <2>3, ZenonT(60) DEF LeavesAlone, Unrenderable, Content, Pleased
  <2>2. Finished(disk, {}, {}, Unrenderable(file))
    BY <1>5, <2>1, <2>4
  <2> QED
    BY <1>0, <1>3, <1>4, <2>1, <2>2
<1>12. CASE RenderFails \/ HandleUnhandled
  <2>1. FileDone(disk, {}, {}, TRUE) /\ UNCHANGED bucket
    BY <1>12, Zenon DEF RenderFails, HandleUnhandled
  <2>2. Finished(disk, {}, {}, TRUE)
    BY <1>5, <2>1, ZenonT(60)
  <2> QED
    BY <1>0, <1>3, <1>4, <2>1, <2>2, Zenon
<1>13. CASE writeFileContent
  <2>1. PICK b \in Backup(old), o \in WriteFile(file, Content(file), old, Creatable(file.path)) :
           /\ bucket' = IF old.kind = "file" THEN [bucket EXCEPT ![old.data] = b.blob] ELSE bucket
           /\ FileDone([disk EXCEPT ![file.path] = o.at], Counted(o),
                       IF b.ok /\ ~o.err THEN {[path |-> file.path, hash |-> old.data]} ELSE {},
                       o.err)
    BY <1>13, Zenon DEF writeFileContent
  <2> DEFINE d == [disk EXCEPT ![file.path] = o.at]
             saved == IF b.ok /\ ~o.err THEN {[path |-> file.path, hash |-> old.data]} ELSE {}
  <2>2. Creatable(file.path) \in BOOLEAN
    BY DEF Creatable
  <2>3. o \in Outcome /\ (~o.err => o.at.data = Content(file) /\ (old.data # Content(file) => o.changed))
    <3> HIDE DEF old
    <3>1. Wrote(o, file, Content(file), old)
      BY <1>1, <2>1, <2>2, WriteOutcome
    <3> QED
      BY <3>1, ZenonT(60) DEF Wrote
  <2>4. o.at \in Held /\ o.err \in BOOLEAN
    BY <2>3 DEF Outcome
  <2>11. ~o.err => old.kind # "directory"
    <3>1. old.kind = "directory" =>
            \A w \in WriteContentFile(old, Content(file), Creatable(file.path)) : w = Refused(old)
      BY DEF WriteContentFile
    <3>2. Refused(old).err
      BY DEF Refused
    <3>3. old.kind = "directory" => o = Refused(old)
      BY <2>1, <3>1, <3>2, ZenonT(60) DEF WriteFile
    <3> QED
      BY <3>2, <3>3
  <2>5. d \in [Path -> Held] /\ \A p \in Path : d[p] = IF p = file.path THEN o.at ELSE disk[p]
    BY <1>1, <1>2, <2>4
  <2>6. /\ Counted(o) \subseteq Path
        /\ ~o.err => (o.at.data # old.data => file.path \in Counted(o))
    BY <1>1, <2>3, SMTT(60), ZenonT(60) DEF Counted
  <2>7. BlobsStay /\ saved \subseteq Saved /\ \A x \in saved : bucket'[x.hash] # "none"
    <3>1. CASE old.kind = "file"
      <4>1. /\ old.data \in Contents /\ b.blob \in BlobState
            /\ bucket[old.data] # "none" => b.blob # "none"
            /\ b.ok => b.blob # "none"
        BY <1>1, <2>1, <3>1, BackupMade, ZenonT(60)
      <4>2. bucket' = [bucket EXCEPT ![old.data] = b.blob]
        BY <2>1, <3>1, ZenonT(60)
      <4>3. \A x \in saved : x \in Saved /\ b.ok /\ x.hash = old.data
        <5> DEFINE entry == [path |-> file.path, hash |-> old.data]
        <5>1. entry \in Saved /\ entry.hash = old.data
          BY <1>1, <4>1, ZenonT(60) DEF Saved
        <5>2. \A x \in saved : x = entry /\ b.ok
          BY SMTT(60), ZenonT(60)
        <5> HIDE DEF entry, saved
        <5> QED
          BY <5>1, <5>2, SMTT(60), ZenonT(60)
      <4> HIDE DEF old, saved
      <4> QED
        BY <1>2, <4>1, <4>2, <4>3, SMTT(60), ZenonT(60) DEF BlobsStay
    <3>2. CASE old.kind # "file"
      <4>1. ~b.ok /\ UNCHANGED bucket
        <5>1. bucket' = bucket
          BY <2>1, <3>2, Zenon
        <5>2. b \in {[blob |-> bucket[old.data], ok |-> FALSE, fault |-> FALSE]}
          BY <2>1, <3>2, Zenon DEF Backup
        <5> HIDE DEF old
        <5> QED
          BY <5>1, <5>2, SMTT(60), ZenonT(60)
      <4> QED
        BY <1>3, <4>1, SMTT(60), ZenonT(60)
    <3> QED
      BY <3>1, <3>2, ZenonT(60)
  <2>8. FileDone(d, Counted(o), saved, o.err)
    BY <2>1, ZenonT(60)
  <2>10. Effect(d, o.err)
    <3>1. FileEnsureFromString(file.ensure) = "file" /\ ~LeavesAlone(file)
      BY <1>13, ZenonT(60) DEF writeFileContent, AtFile
    <3>2. Wrote(o, file, Content(file), old)
      BY <1>1, <2>1, <2>2, WriteOutcome, ZenonT(60)
    <3>3. Content(file) \in IF file.ref THEN Secret ELSE {file.content}
      BY <3>1, ZenonT(60) DEF LeavesAlone, Content, Unrenderable, FilesKnown
    <3>4. old.kind \in {"none", "file", "directory", "symlink"}
      BY <1>1 DEF Held
    <3> HIDE DEF d, saved, old
    <3>5. o.at.kind = "symlink" => old.kind = "symlink"
      BY <3>2, ZenonT(60) DEF Wrote
    <3>6. ~o.err /\ Suits(file, old) => Pleased(file, o.at) \/ o.at.data = Junk
      <4> SUFFICES ASSUME ~o.err, Suits(file, old) PROVE Pleased(file, o.at)
        OBVIOUS
      <4>1. /\ o.at.kind # "none" /\ o.at.data = Content(file)
            /\ o.at.owner = IF file.owner = "" THEN "root" ELSE file.owner
            /\ file.mode # "" => o.at.mode = file.mode
        BY <3>2, ZenonT(60) DEF Wrote
      <4>2. o.at.kind = "file"
        BY <2>11, <3>1, <3>2, <3>4, <4>1, ZenonT(60) DEF Wrote, Suits
      <4> QED
        BY <3>1, <3>3, <4>1, <4>2, ZenonT(60) DEF Pleased
    <3>7. d[file.path] = o.at
      BY <1>1, <2>5
    <3>8. \A p \in Path : p = file.path \/ d[p] = disk[p]
      BY <2>5, SMTT(60), ZenonT(60)
    <3>9. /\ Suits(file, disk[file.path]) => d[file.path].kind # "symlink"
          /\ ~o.err /\ Suits(file, disk[file.path]) => WellDone(file, d)
      BY <3>1, <3>5, <3>6, <3>7, ZenonT(60) DEF old, Suits, WellDone
    <3> QED
      BY <3>1, <3>8, <3>9, ZenonT(60) DEF Effect
  <2>9. Finished(d, Counted(o), saved, o.err)
    <3> HIDE DEF d, saved
    <3> QED
      BY <2>4, <2>5, <2>6, <2>7, <2>8, <2>10, ZenonT(60) DEF Finished
  <2> QED
    BY <1>0, <1>4, <2>7, <2>9
<1>14. CASE HandleDirectory
  <2>1. PICK o \in EnsureDirectory(file, disk[file.path]), unlisted \in BOOLEAN :
       LET purges == file.purge /\ ~o.err /\ o.at.kind = "directory"
           managed == IF unlisted THEN {} ELSE managedPathsUnder(file.path)
           doomed == IF purges THEN Purged(file.path, managed) ELSE {}
           notDir == file.purge /\ ~o.err /\ o.at.kind # "directory"
       IN  /\ unlisted => purges
           /\ \E stuck \in SUBSET doomed :
                /\ Fault(o.fault \/ unlisted \/ stuck # {})
                /\ FileDone([p \in Path |-> IF p \in doomed \ stuck THEN NoFile
                                            ELSE IF p = file.path THEN o.at ELSE disk[p]],
                            (IF o.changed THEN {file.path} ELSE {}) \cup (doomed \ stuck), {},
                            o.err \/ notDir \/ stuck # {})
    BY <1>14, ZenonT(60) DEF HandleDirectory
  <2> DEFINE managed == IF unlisted THEN {} ELSE managedPathsUnder(file.path)
             doomed == IF file.purge /\ ~o.err /\ o.at.kind = "directory"
                       THEN Purged(file.path, managed) ELSE {}
             notDir == file.purge /\ ~o.err /\ o.at.kind # "directory"
  <2>2. PICK stuck \in SUBSET doomed :
             FileDone([p \in Path |-> IF p \in doomed \ stuck THEN NoFile
                                      ELSE IF p = file.path THEN o.at ELSE disk[p]],
                      (IF o.changed THEN {file.path} ELSE {}) \cup (doomed \ stuck), {},
                      o.err \/ notDir \/ stuck # {})
    BY <2>1, ZenonT(60)
  <2>3. doomed \subseteq Path /\ file.path \notin doomed
    BY SMTT(60), ZenonT(60) DEF Purged
  <2>4. o \in Outcome /\ o.at.data = old.data
    <3>1. Ensured(o, file, old)
      BY <1>1, <2>1, DirectoryOutcome, ZenonT(60)
    <3> QED
      BY <3>1, ZenonT(60) DEF Ensured
  <2>5. o.at \in Held /\ NoFile \in Held
    BY <2>4, NewlyHeld, ZenonT(60) DEF Outcome
  <2> HIDE DEF doomed, notDir
  <2> DEFINE gone == doomed \ stuck
             d == [p \in Path |-> IF p \in gone THEN NoFile ELSE IF p = file.path THEN o.at ELSE disk[p]]
             ch == (IF o.changed THEN {file.path} ELSE {}) \cup gone
             err == o.err \/ notDir \/ stuck # {}
  <2>6. FileDone(d, ch, {}, err)
    BY <2>2, SMTT(60), ZenonT(60)
  <2>7. /\ d \in [Path -> Held] /\ ch \subseteq Path /\ err \in BOOLEAN
        /\ \A p \in Path : d[p].data # disk[p].data => p \in ch
    BY <1>1, <1>2, <2>3, <2>4, <2>5, ZenonT(60)
  <2>8. UNCHANGED bucket
    BY <1>14, ZenonT(60) DEF HandleDirectory
  <2>10. Effect(d, err)
    <3>1. FileEnsureFromString(file.ensure) = "directory"
      BY <1>14, ZenonT(60) DEF HandleDirectory, AtFile
    <3>2. Ensured(o, file, old) /\ old.kind \in {"none", "file", "directory", "symlink"}
      BY <1>1, <2>1, DirectoryOutcome, ZenonT(60) DEF Held
    <3>3. \A p \in gone : Parent[p] = file.path /\ file.purge
      BY DEF doomed, Purged
    <3>4. file.path \notin gone
      BY <2>3, SMTT(60), ZenonT(60)
    <3> HIDE DEF gone, ch, old
    <3>5. d[file.path] = o.at /\ \A p \in Path : p # file.path => d[p] = IF p \in gone THEN NoFile ELSE disk[p]
      BY <1>1, <3>4
    <3> HIDE DEF d
    <3>6. /\ o.at.kind = "symlink" => old.kind = "symlink"
          /\ o.at.kind = "file" => old.kind = "file" /\ o.at.data = old.data
      BY <3>2, ZenonT(60) DEF Ensured
    <3>7. ~err /\ Suits(file, old) => Pleased(file, o.at) \/ o.at.data = Junk
      <4> SUFFICES ASSUME ~o.err, Suits(file, old) PROVE Pleased(file, o.at) \/ o.at.data = Junk
        OBVIOUS
      <4>1. o.at.kind # "none" /\ (file.mode # "" => o.at.mode = file.mode)
        BY <3>2, ZenonT(60) DEF Ensured
      <4>2. CASE old.kind \in {"none", "directory"}
        <5>1. o.at.kind = "directory"
          BY <3>2, <4>1, <4>2, ZenonT(60) DEF Ensured
        <5> QED
          BY <3>1, <4>1, <5>1, ZenonT(60) DEF Pleased
      <4>3. CASE old.kind = "file"
        <5>1. o.at.data = Junk
          BY <3>1, <3>2, <4>3, ZenonT(60) DEF Ensured, Suits
        <5> QED
          BY <5>1
      <4>4. CASE old.kind = "symlink"
        BY <3>1, <4>4, SMTT(60), ZenonT(60) DEF Suits
      <4> QED
        BY <3>2, <4>2, <4>3, <4>4, SMTT(60), ZenonT(60)
    <3>8. /\ Suits(file, old) => o.at.kind # "symlink"
          /\ ~err /\ Suits(file, old) => WellDone(file, d)
      BY <3>1, <3>5, <3>6, <3>7, SMTT(60), ZenonT(60) DEF Suits, WellDone
    <3> HIDE DEF err
    <3> QED
      BY <3>1, <3>3, <3>5, <3>6, <3>8, ZenonT(60) DEF Effect, old
  <2> HIDE DEF gone, d, ch, err
  <2>9. Finished(d, ch, {}, err)
    BY <2>6, <2>7, <2>10, ZenonT(60) DEF Finished
  <2> QED
    BY <1>0, <1>3, <1>4, <2>8, <2>9, ZenonT(60)
<1>15. CASE HandleSymlink
  <2>1. PICK o \in EnsureSymlink(file, disk[file.path], TargetExists(file.path)) :
           FileDone([disk EXCEPT ![file.path] = o.at], IF o.changed THEN {file.path} ELSE {}, {}, o.err)
    BY <1>15, SMTT(60), ZenonT(60) DEF HandleSymlink
  <2>2. TargetExists(file.path) \in BOOLEAN
    BY ZenonT(60) DEF TargetExists
  <2>0. /\ o \in Outcome /\ o.at \in {old, NoFile, Link(file.target)} /\ (old.kind # "symlink" => o.at = old)
        /\ ~o.err => o.at.kind = "symlink" /\ o.at.data = file.target /\ (o.at # old => o.changed)
    BY <1>1, <2>1, <2>2, LinkOutcome, SMTT(60), ZenonT(60)
  <2>3. o \in Outcome /\ (~o.err => (o.at # old => o.changed))
    BY <2>0, SMTT(60), ZenonT(60)
  <2>8. /\ o.at.kind = "symlink" => old.kind = "symlink" /\ o.at.data \in {old.data, file.target}
        /\ o.at.kind = "file" => old.kind = "file" /\ o.at.data = old.data
        /\ ~o.err => Pleased(file, o.at) \/ (o.at = old /\ Dangling(file, disk))
    <3>1. FileEnsureFromString(file.ensure) = "symlink"
      BY <1>15 DEF HandleSymlink, AtFile
    <3>2. NoFile.kind = "none" /\ Link(file.target).kind = "symlink" /\ Link(file.target).data = file.target
      BY DEF NoFile, Link
    <3> HIDE DEF old
    <3> QED
      BY <2>0, <3>1, <3>2, ZenonT(60) DEF Pleased
  <2>4. UNCHANGED bucket
    BY <1>15 DEF HandleSymlink
  <2> DEFINE ch == IF o.changed THEN {file.path} ELSE {}
  <2>5. FileDone([disk EXCEPT ![file.path] = o.at], ch, {}, o.err)
    BY <2>1
  <2>6. ch \subseteq Path /\ (~o.err => (o.at.data # old.data => file.path \in ch))
    BY <1>1, <2>3, ZenonT(60)
  <2> HIDE DEF ch, old
  <2>7. \E d, c, saved, err : Finished(d, c, saved, err)
    BY <1>6, <2>3, <2>4, <2>5, <2>6, <2>8, ZenonT(60)
  <2> QED
    BY <1>0, <1>3, <1>4, <2>4, <2>7, ZenonT(60)
<1>16. CASE HandleAbsent
  <2>1. PICK o \in Remove(disk[file.path], TargetExists(file.path)) :
           FileDone([disk EXCEPT ![file.path] = o.at], IF o.changed THEN {file.path} ELSE {}, {}, o.err)
    BY <1>16 DEF HandleAbsent
  <2>2. TargetExists(file.path) \in BOOLEAN
    BY SMTT(60), ZenonT(60) DEF TargetExists
  <2>0. /\ o \in Outcome /\ o.at \in {old, NoFile} /\ (o.at # old => o.changed)
        /\ ~o.err => o.at.kind = "none" \/ (old.kind = "symlink" /\ o.at = old /\ ~TargetExists(file.path))
    BY <1>1, <2>1, <2>2, RemoveOutcome, SMTT(60), ZenonT(60)
  <2>3. o \in Outcome /\ (o.at # old => o.changed)
    BY <2>0, SMTT(60), ZenonT(60)
  <2>8. /\ o.at.kind = "symlink" => old.kind = "symlink" /\ o.at.data \in {old.data, file.target}
        /\ o.at.kind = "file" => old.kind = "file" /\ o.at.data = old.data
        /\ ~o.err => Pleased(file, o.at) \/ (o.at = old /\ Dangling(file, disk))
    <3>1. FileEnsureFromString(file.ensure) = "absent"
      BY <1>16 DEF HandleAbsent, AtFile
    <3>2. NoFile.kind = "none"
      BY SMTT(60), ZenonT(60) DEF NoFile
    <3>3. old.kind = "symlink" /\ ~TargetExists(file.path) => Dangling(file, disk)
      BY <3>1 DEF TargetExists, Dangling
    <3> HIDE DEF old
    <3> QED
      BY <2>0, <3>1, <3>2, <3>3, ZenonT(60) DEF Pleased
  <2>4. UNCHANGED bucket
    BY <1>16 DEF HandleAbsent
  <2> DEFINE ch == IF o.changed THEN {file.path} ELSE {}
  <2>5. FileDone([disk EXCEPT ![file.path] = o.at], ch, {}, o.err)
    BY <2>1, SMTT(60), ZenonT(60)
  <2>6. ch \subseteq Path /\ (~o.err => (o.at.data # old.data => file.path \in ch))
    BY <1>1, <2>3, SMTT(60), ZenonT(60)
  <2> HIDE DEF ch, old
  <2>7. \E d, c, saved, err : Finished(d, c, saved, err)
    BY <1>6, <2>3, <2>4, <2>5, <2>6, <2>8, ZenonT(60)
  <2> QED
    BY <1>0, <1>3, <1>4, <2>4, <2>7, ZenonT(60)
<1> QED
  BY <1>11, <1>12, <1>13, <1>14, <1>15, <1>16, ZenonT(60) DEF HandlesFile

-----------------------------------------------------------------------------
(* The invariant, in parts.                                                *)

CountsOK == edits \in 0..EditBound /\ faults \in 0..menu.faults

ObjectsOK ==
  /\ menu \in Menu
  /\ spec \in [Name -> ConfigSets(menu) \cup {Deleted}] /\ \A c \in Name : spec[c] \in menu.specs[c]
  /\ gen \in [Name -> Nat]
  /\ \A c \in Name : gen[c] <= edits + 1 /\ (gen[c] = 0 <=> spec[c] = Deleted)
  /\ secret \in Secret \cup {""}
  /\ cond \in [Name -> {"unset", "true", "false"}]
  /\ told \in [Target -> [Name -> 0..(EditBound + 1)]]

(* What a subscriber may have read.                                         *)
Reading == {Down} \cup (UNION {[S -> Text] : S \in SUBSET Path})

HostOK ==
  /\ disk \in [Path -> Held] /\ enabled \subseteq Service /\ used \in [Subscriber -> Reading]
  /\ bucket \in [Contents -> BlobState] /\ lost \subseteq Subscriber

StatusEntry == {NoEntry} \cup [spec : ConfigSets(menu), result : {"ok", "error", "conflict"}]

ReportOK == status \in [Name -> StatusEntry] /\ backups \in [Path -> Contents]

(* A backup on its way into the status has been saved, like those in it.       *)
BlobsOK == (\A b \in run.saved : bucket[b.hash] # "none") /\ BackupsSaved

SetInv == CountsOK /\ ObjectsOK /\ HostOK /\ ReportOK /\ RunOK /\ BlobsOK

(* Every step leaves the scenario, and counts its edit or its fault.           *)
LEMMA Frame ==
  ASSUME Next
  PROVE  /\ UNCHANGED menu
         /\ faults' = faults \/ (faults < menu.faults /\ faults' = faults + 1)
         /\ edits' = edits \/ (edits < EditBound /\ edits' = edits + 1)
<1> USE DEF Fault, Edited, history, objects, host, reported
<1>1. ASSUME NEW c \in Name, Reconcile(c) \/ EditConfigSet(c)
      PROVE  UNCHANGED <<menu, faults>> /\ (edits' = edits \/ (edits < EditBound /\ edits' = edits + 1))
  BY <1>1 DEF Reconcile, EditConfigSet
<1>2. CASE Detect \/ GiveUp
  BY <1>2, ZenonT(60) DEF Detect, GiveUp
<1>3. CASE HandlePackage \/ NoPackages \/ ListPackagesFails
  BY <1>3, Zenon DEF HandlePackage, NoPackages, ListPackagesFails
<1>4. CASE SkipFile \/ RenderFails \/ HandleUnhandled
  BY <1>4, ZenonT(60) DEF SkipFile, RenderFails, HandleUnhandled
<1>5. CASE writeFileContent
  BY <1>5, Zenon DEF writeFileContent
<1>6. CASE HandleDirectory
  BY <1>6, ZenonT(60) DEF HandleDirectory
<1>7. CASE HandleSymlink \/ HandleAbsent
  BY <1>7, Zenon DEF HandleSymlink, HandleAbsent
<1>8. CASE HandleService
  BY <1>8, ZenonT(60) DEF HandleService
<1>9. CASE Restart \/ RestartFails
  BY <1>9, Zenon DEF Restart, RestartFails
<1>10. CASE handleExecutions
  BY <1>10 DEF handleExecutions
<1>11. CASE updateFileBackups \/ updateConfigSetStatus \/ notifyResources
  BY <1>11 DEF updateFileBackups, updateConfigSetStatus, notifyResources
<1>12. CASE Crash \/ RunGC \/ BlobsAge \/ EditSecret \/ Meddle
  BY <1>12 DEF Crash, RunGC, BlobsAge, EditSecret, Meddle
<1>13. ASSUME NEW s \in Service, ServiceDies(s)
       PROVE  UNCHANGED <<menu, faults>> /\ edits < EditBound /\ edits' = edits + 1
  BY <1>13 DEF ServiceDies
<1> QED
  BY <1>1, <1>2, <1>3, <1>4, <1>5, <1>6, <1>7, <1>8, <1>9, <1>10, <1>11, <1>12, <1>13, ZenonT(60) DEF Next, Proceed

(* Every step keeps the counts of edits and faults within their bounds.     *)
LEMMA CountsStep ==
  ASSUME SetInv, Next
  PROVE  CountsOK'
<1>1. /\ menu' = menu /\ menu.faults \in Nat /\ EditBound \in Nat
      /\ faults' = faults \/ (faults < menu.faults /\ faults' = faults + 1)
      /\ edits' = edits \/ (edits < EditBound /\ edits' = edits + 1)
  BY Frame, ConfigSetAssumption, Zenon DEF SetInv, ObjectsOK
<1>2. edits \in 0..EditBound /\ faults \in 0..menu.faults
  BY DEF SetInv, CountsOK
<1> QED
  BY <1>1, <1>2, SMTT(60), ZenonT(60) DEF CountsOK

-----------------------------------------------------------------------------
(* The steps of a reconcile.                                               *)

(* The same reconcile, with more to report.                                  *)
Same(q, r) == q.cs = r.cs /\ q.name = r.name /\ q.gen = r.gen

(* Going on to the next item, or to the next step after the last one.         *)
LEMMA NextItem ==
  ASSUME NEW r, Reconciling(r), NEW n \in Nat, r.i \in 1..n, NEW q, q = [r EXCEPT !.i = @ + 1], r.i < n
  PROVE  /\ Reconciling(q) /\ q.i \in 1..n /\ q.at = r.at /\ Same(q, r)
         /\ q.changed = r.changed /\ q.saved = r.saved /\ q.todo = r.todo /\ q.err = r.err
<1>1. r.i + 1 \in Nat \ {0} /\ r.i + 1 \in 1..n
  OBVIOUS
<1> DEFINE j == r.i + 1
<1>2. q = [r EXCEPT !.i = j] /\ j \in Nat \ {0} /\ j \in 1..n
  BY <1>1
<1> HIDE DEF j
<1>3. q \in SetRun /\ q.i = j /\ q.at = r.at /\ q.cs = r.cs /\ q.name = r.name /\ q.gen = r.gen
      /\ q.changed = r.changed /\ q.saved = r.saved /\ q.todo = r.todo /\ q.err = r.err
  BY <1>2, ZenonT(60) DEF Reconciling, SetRun
<1> QED
  BY <1>2, <1>3 DEF Reconciling, Same

(* An item that is finished, of a list of the ConfigSet, and what comes then.  *)
LEMMA ItemDone ==
  ASSUME menu \in Menu, NEW r, Reconciling(r), NEW list, list \in Seq(Range(list)),
         r.i \in 1..Len(list), NEW next, Follows(next, r),
         \/ r.at = "packages" /\ list = r.cs.pkgs
         \/ r.at = "files" /\ list = r.cs.files
         \/ r.at = "services" /\ list = r.cs.svcs,
         NEW q, q = AfterItem(r, list, next)
  PROVE  Reconciling(q) /\ Placed(q) /\ q.at # "idle" /\ q.saved \subseteq r.saved
<1>1. CASE r.i < Len(list)
  <2>1. q = [r EXCEPT !.i = @ + 1] /\ Len(list) \in Nat
    BY <1>1, Items DEF AfterItem
  <2>2. Reconciling(q) /\ q.i \in 1..Len(list) /\ q.at = r.at /\ q.cs = r.cs /\ q.saved = r.saved
    BY <1>1, <2>1, NextItem DEF Same
  <2> QED
    BY <2>2 DEF Placed
<1>2. CASE ~(r.i < Len(list))
  BY <1>2, ZenonT(60) DEF AfterItem, Follows
<1> QED
  BY <1>1, <1>2, ZenonT(60)

(* What the invariant says of a running reconcile.                          *)
LEMMA Known ==
  ASSUME SetInv, run.at # "idle"
  PROVE  /\ FilesKnown /\ Reconciling(run) /\ Placed(run) /\ menu \in Menu
         /\ run.changed \in SUBSET Path /\ run.saved \in SUBSET Saved
         /\ run.todo \in SUBSET Service /\ run.err \in BOOLEAN /\ run.at \in Steps
         /\ run.cs \in ConfigSets(menu) /\ run.name \in Name
<1>0. Idle.at = "idle"
  BY DEF Idle
<1>1. Reconciling(run) /\ Placed(run)
  BY <1>0 DEF SetInv, RunOK
<1> QED
  BY <1>1, ZenonT(60) DEF SetInv, ObjectsOK, HostOK, FilesKnown, Reconciling, SetRun

(* Adding an error to the reconcile changes nothing else in it.             *)
LEMMA Errors ==
  ASSUME SetInv, run.at # "idle", NEW e \in BOOLEAN, NEW r, r = [run EXCEPT !.err = @ \/ e]
  PROVE  /\ Reconciling(r) /\ Same(r, run) /\ r.at = run.at /\ r.i = run.i
         /\ r.changed = run.changed /\ r.saved = run.saved /\ r.todo = run.todo
         /\ r.err = (run.err \/ e)
<1> DEFINE x == run.err \/ e
<1>1. r = [run EXCEPT !.err = x] /\ x \in BOOLEAN
  OBVIOUS
<1> HIDE DEF x
<1>2. Reconciling(run)
  BY Known
<1>3. r \in SetRun /\ r.cs = run.cs /\ r.name = run.name /\ r.gen = run.gen /\ r.at = run.at /\ r.i = run.i
      /\ r.changed = run.changed /\ r.saved = run.saved /\ r.todo = run.todo /\ r.err = x
  BY <1>1, <1>2, ZenonT(60) DEF Reconciling, SetRun
<1> QED
  BY <1>2, <1>3 DEF Reconciling, Same, x

(* Where a file action leaves the reconcile.                                 *)
After(r, ch, saved, err) ==
  /\ Reconciling(r) /\ Same(r, run) /\ r.at = "files" /\ r.i = run.i /\ r.i \in 1..Len(r.cs.files)
  /\ r.changed = run.changed \cup ch /\ r.saved = run.saved \cup saved
  /\ r.todo = run.todo /\ r.err = (run.err \/ err)
  /\ run' = AfterItem(r, r.cs.files, ToServices(r))

(* After an item of handleFileSet the reconcile knows the changed files     *)
(* and the backups of before and those of the item.                         *)
LEMMA AfterFileDone ==
  ASSUME SetInv, run.at = "files", NEW d, NEW ch \in SUBSET Path, NEW saved \in SUBSET Saved, NEW err \in BOOLEAN,
         FileDone(d, ch, saved, err)
  PROVE  \E r : After(r, ch, saved, err)
<1> DEFINE r == [run EXCEPT !.changed = @ \cup ch, !.saved = @ \cup saved, !.err = @ \/ err]
<1> DEFINE x == run.changed \cup ch
           y == run.saved \cup saved
           z == run.err \/ err
<1>1. r = [run EXCEPT !.changed = x, !.saved = y, !.err = z]
  OBVIOUS
<1>2. Reconciling(run) /\ Placed(run) /\ run.changed \in SUBSET Path /\ run.saved \in SUBSET Saved
  BY Known, ZenonT(60)
<1>3. x \in SUBSET Path /\ y \in SUBSET Saved /\ z \in BOOLEAN
  BY <1>2
<1>4. run' = AfterItem(r, r.cs.files, ToServices(r))
  BY DEF FileDone
<1> HIDE DEF x, y, z, r
<1>5. r \in SetRun /\ r.cs = run.cs /\ r.name = run.name /\ r.gen = run.gen /\ r.at = run.at /\ r.i = run.i
      /\ r.changed = x /\ r.saved = y /\ r.todo = run.todo /\ r.err = z
  BY <1>1, <1>2, <1>3, ZenonT(60) DEF Reconciling, SetRun
<1>6. After(r, ch, saved, err)
  BY <1>2, <1>4, <1>5, ZenonT(60) DEF Reconciling, Same, Placed, After, x, y, z
<1> QED
  BY <1>6

(* The same for an item that is Finished.                                    *)
LEMMA AfterFile ==
  ASSUME SetInv, run.at = "files", NEW d, NEW ch, NEW saved, NEW err, Finished(d, ch, saved, err)
  PROVE  \E r : After(r, ch, saved, err)
BY AfterFileDone DEF Finished

(* Between reconciles.                                                      *)
LEMMA IdleRun ==
  /\ Idle \in SetRun /\ Idle.at = "idle" /\ Idle.saved = {} /\ Idle.todo = {} /\ Idle.changed = {}
  /\ "detect" \in Steps
<1>1. "idle" \in Steps /\ "detect" \in Steps
  BY DEF Steps
<1>2. EditBound \in Nat
  BY ConfigSetAssumption
<1>3. 1 \in Nat \ {0} /\ 0 \in 0..(EditBound + 1)
  BY <1>2, SMTT(60), ZenonT(60)
<1> QED
  BY <1>1, <1>3, Zenon DEF Idle, SetRun

(* Every step leaves a reconcile that is at an item that exists, and adds   *)
(* only backups to record that were saved.                                  *)
LEMMA RunStep ==
  ASSUME SetInv, Next
  PROVE  RunOK' /\ \A b \in run'.saved : b \in run.saved \/ bucket'[b.hash] # "none"
<1>0. /\ menu' = menu /\ menu \in Menu
      /\ Idle.at = "idle" /\ Idle.saved = {} /\ "notify" \in Steps /\ "packages" \in Steps /\ 1 \in Nat \ {0}
  <2>1. menu' = menu /\ menu \in Menu
    BY Frame, ZenonT(60) DEF SetInv, ObjectsOK
  <2>2. Idle.at = "idle" /\ Idle.saved = {}
    BY DEF Idle
  <2>3. "notify" \in Steps /\ "packages" \in Steps /\ 1 \in Nat \ {0}
    BY SMTT(60), ZenonT(60) DEF Steps
  <2> QED
    BY <2>1, <2>2, <2>3, SMTT(60), ZenonT(60)
<1>m. menu \in Menu
  BY <1>0, Zenon
<1>1. ASSUME \/ run' = Idle
             \/ Reconciling(run') /\ run'.at # "idle" /\ Placed(run') /\ run'.saved \subseteq run.saved
      PROVE  RunOK' /\ \A b \in run'.saved : b \in run.saved \/ bucket'[b.hash] # "none"
  BY <1>0, <1>1, ZenonT(60) DEF RunOK, Reconciling, Placed, SetRun, ConfigSets
<1>2. ASSUME UNCHANGED run
      PROVE  RunOK' /\ \A b \in run'.saved : b \in run.saved \/ bucket'[b.hash] # "none"
  BY <1>1, <1>2, ZenonT(60) DEF SetInv, RunOK
<1>3. ASSUME run.at # "idle", NEW r, Reconciling(r), r.saved \subseteq run.saved, Follows(run', r)
      PROVE  RunOK' /\ \A b \in run'.saved : b \in run.saved \/ bucket'[b.hash] # "none"
  BY <1>1, <1>3, SMTT(60), ZenonT(60) DEF Follows
<1>4. ASSUME run.at # "idle", NEW r, Reconciling(r), r.saved \subseteq run.saved,
             NEW list, list \in Seq(Range(list)), r.i \in 1..Len(list), NEW next, Follows(next, r),
             \/ r.at = "packages" /\ list = r.cs.pkgs
             \/ r.at = "services" /\ list = r.cs.svcs,
             run' = AfterItem(r, list, next)
      PROVE  RunOK' /\ \A b \in run'.saved : b \in run.saved \/ bucket'[b.hash] # "none"
  <2>1. Reconciling(run') /\ Placed(run') /\ run'.at # "idle" /\ run'.saved \subseteq r.saved
    BY <1>4, <1>m, ItemDone, SMTT(60), ZenonT(60)
  <2> QED
    BY <1>1, <1>4, <2>1, SMTT(60), ZenonT(60)
<1>11. ASSUME NEW c \in Name, Reconcile(c)
       PROVE  RunOK' /\ \A b \in run'.saved : b \in run.saved \/ bucket'[b.hash] # "none"
  <2>1. CASE ~Applies(spec[c])
    BY <1>2, <1>11, <2>1, SMTT(60), ZenonT(60) DEF Reconcile
  <2>2. CASE Applies(spec[c])
    <3> DEFINE q == [Idle EXCEPT !.at = "detect", !.name = c, !.cs = spec[c], !.gen = gen[c]]
    <3>1. run' = q
      BY <1>11, <2>2 DEF Reconcile
    <3>2. spec[c] \in ConfigSets(menu) /\ gen[c] \in 0..(EditBound + 1)
      <4>1. spec[c] \in ConfigSets(menu)
        BY <2>2, ZenonT(60) DEF Applies, SetInv, ObjectsOK
      <4>2. gen[c] \in Nat /\ gen[c] <= edits + 1 /\ edits \in 0..EditBound /\ EditBound \in Nat
        BY ConfigSetAssumption, ZenonT(60) DEF SetInv, ObjectsOK, CountsOK
      <4> QED
        BY <4>1, <4>2, SMTT(60), ZenonT(60)
    <3>3. "detect" \in Steps /\ Idle \in SetRun /\ Idle.saved = {}
      BY IdleRun
    <3>5. q \in SetRun /\ q.at = "detect" /\ q.name = c /\ q.cs = spec[c] /\ q.saved = {}
      BY <3>2, <3>3, ZenonT(60) DEF SetRun
    <3> HIDE DEF q
    <3> QED
      BY <1>1, <3>1, <3>2, <3>5 DEF Reconciling, Placed
  <2> QED
    BY <2>1, <2>2
<1>12. CASE Detect
  <2>1. run.at = "detect" /\ (run' = Idle \/ run' = ToPackages(run))
    BY <1>12, SMTT(60), ZenonT(60) DEF Detect
  <2>2. CASE run' = ToPackages(run)
    <3>1. Reconciling(run)
      BY <2>1, Known
    <3>2. /\ run' \in SetRun /\ run'.at = "packages" /\ run'.i = 1 /\ run'.cs = run.cs /\ run'.name = run.name
          /\ run'.saved = run.saved
      BY <1>0, <2>2, <3>1, ZenonT(60) DEF Reconciling, SetRun, ToPackages
    <3>3. run.cs.pkgs \in Seq(Range(run.cs.pkgs))
      BY <1>0, <3>1, Declared DEF Reconciling
    <3>4. run.cs.pkgs # <<>> => 1 \in 1..Len(run.cs.pkgs)
      BY <3>3, Items, SMTT(60), ZenonT(60)
    <3> QED
      BY <1>1, <3>1, <3>2, <3>4, SMTT(60), ZenonT(60) DEF Reconciling, Placed
  <2> QED
    BY <1>1, <2>1, <2>2, SMTT(60), ZenonT(60)
<1>13. CASE GiveUp \/ notifyResources \/ Crash
  BY <1>1, <1>13, ZenonT(60) DEF GiveUp, notifyResources, Crash
<1>14. CASE HandlePackage
  <2>1. run.at = "packages" /\ run.cs.pkgs # <<>>
    BY <1>14, ZenonT(60) DEF HandlePackage
  <2>2. PICK fails \in BOOLEAN :
          LET err == fails \/ PackageEnsureFromString(run.cs.pkgs[run.i].ensure) = "unhandled"
              r == [run EXCEPT !.err = @ \/ err]
          IN  run' = AfterItem(r, r.cs.pkgs, ToFiles(r))
    BY <1>14 DEF HandlePackage
  <2> DEFINE err == fails \/ PackageEnsureFromString(run.cs.pkgs[run.i].ensure) = "unhandled"
             r == [run EXCEPT !.err = @ \/ err]
  <2>3. run' = AfterItem(r, r.cs.pkgs, ToFiles(r)) /\ err \in BOOLEAN
    BY <2>2
  <2> HIDE DEF err
  <2>4. Reconciling(r) /\ r.cs = run.cs /\ r.at = run.at /\ r.i = run.i /\ r.saved = run.saved
    BY <2>1, <2>3, Errors, SMTT(60), ZenonT(60) DEF Same
  <2>5. run.i \in 1..Len(run.cs.pkgs) /\ run.cs \in ConfigSets(menu)
    BY <2>1, Known, SMTT(60), ZenonT(60) DEF Placed
  <2>6. run.cs.pkgs \in Seq(Range(run.cs.pkgs))
    BY <1>0, <2>5, Declared, ZenonT(60)
  <2> HIDE DEF r
  <2>7. Follows(ToFiles(r), r)
    BY <1>0, <2>4, Flow, SMTT(60), ZenonT(60)
  <2> QED
    BY <1>4, <2>1, <2>3, <2>4, <2>5, <2>6, <2>7, ZenonT(60)
<1>15. CASE NoPackages
  <2>1. run.at = "packages" /\ run' = ToFiles(run)
    BY <1>15, ZenonT(60) DEF NoPackages
  <2>2. Reconciling(run)
    BY <2>1, Known, SMTT(60), ZenonT(60)
  <2>3. Follows(ToFiles(run), run)
    BY <1>0, <2>2, Flow, ZenonT(60)
  <2> QED
    BY <1>3, <2>1, <2>2, <2>3, ZenonT(60)
<1>16. CASE ListPackagesFails
  <2> DEFINE r == [run EXCEPT !.err = TRUE]
  <2>1. run.at = "packages" /\ run' = ToFiles(r)
    BY <1>16 DEF ListPackagesFails
  <2>2. r = [run EXCEPT !.err = @ \/ TRUE]
    BY Zenon
  <2>3. Reconciling(r) /\ r.saved = run.saved
    BY <2>1, <2>2, Errors, ZenonT(60)
  <2> HIDE DEF r
  <2>4. Follows(ToFiles(r), r)
    BY <1>0, <2>3, Flow, ZenonT(60)
  <2> QED
    BY <1>3, <2>1, <2>3, <2>4
<1>17. CASE HandlesFile
  <2>0. run.at = "files"
    BY <1>17, ZenonT(60) DEF HandlesFile, SkipFile, RenderFails, writeFileContent, HandleDirectory, HandleSymlink,
              HandleAbsent, HandleUnhandled, AtFile
  <2>1. PICK d, ch, saved, err : Finished(d, ch, saved, err)
    BY <1>17, <2>0, Known, FileStep, ZenonT(60)
  <2>9. PICK r : After(r, ch, saved, err)
    BY <2>0, <2>1, AfterFile, SMTT(60), ZenonT(60)
  <2>2. /\ Reconciling(r) /\ r.at = "files" /\ r.i \in 1..Len(r.cs.files)
        /\ r.saved = run.saved \cup saved /\ run' = AfterItem(r, r.cs.files, ToServices(r))
    BY <2>9, SMTT(60), ZenonT(60) DEF After
  <2>3. r.cs.files \in Seq(Range(r.cs.files))
    BY <1>0, <2>2, Declared, SMTT(60), ZenonT(60) DEF Reconciling
  <2>4. Follows(ToServices(r), r)
    BY <1>0, <2>2, Flow, SMTT(60), ZenonT(60)
  <2>5. Reconciling(run') /\ Placed(run') /\ run'.at # "idle" /\ run'.saved \subseteq r.saved
    BY <1>m, <2>2, <2>3, <2>4, ItemDone, SMTT(60), ZenonT(60)
  <2>6. RunOK'
    BY <1>0, <2>5, ZenonT(60) DEF RunOK, Reconciling, Placed, SetRun, ConfigSets
  <2> QED
    BY <2>1, <2>2, <2>5, <2>6, ZenonT(60) DEF Finished
<1>18. CASE HandleService
  <2>1. run.at = "services" /\ \E failed : LET r == [run EXCEPT !.err = @ \/ failed # {}]
                                          IN  run' = AfterItem(r, r.cs.svcs, ToRestarts(r))
    BY <1>18, Zenon DEF HandleService
  <2>2. PICK failed : LET r == [run EXCEPT !.err = @ \/ failed # {}]
                      IN  run' = AfterItem(r, r.cs.svcs, ToRestarts(r))
    BY <2>1
  <2> DEFINE r == [run EXCEPT !.err = @ \/ failed # {}]
  <2>3. run' = AfterItem(r, r.cs.svcs, ToRestarts(r))
    BY <2>2
  <2>4. Reconciling(r) /\ r.cs = run.cs /\ r.at = run.at /\ r.i = run.i /\ r.saved = run.saved
    BY <2>1, Errors, ZenonT(60) DEF Same
  <2>5. run.i \in 1..Len(run.cs.svcs) /\ run.cs \in ConfigSets(menu)
    BY <2>1, Known DEF Placed
  <2>6. run.cs.svcs \in Seq(Range(run.cs.svcs))
    BY <1>0, <2>5, Declared, ZenonT(60)
  <2> HIDE DEF r
  <2>7. Follows(ToRestarts(r), r)
    BY <1>0, <2>4, Flow
  <2> QED
    BY <1>4, <2>1, <2>3, <2>4, <2>5, <2>6, <2>7, ZenonT(60)
<1>19. CASE Restart \/ RestartFails
  <2>1. run.at = "restarts" /\ \E s, e : e \in BOOLEAN /\ RestartDone(s, e)
    BY <1>19, Zenon DEF Restart, RestartFails
  <2>2. PICK s, e : e \in BOOLEAN /\ RestartDone(s, e)
    BY <2>1
  <2> DEFINE todo == run.todo \ {s}
             err == run.err \/ e
             r == [run EXCEPT !.todo = todo, !.err = err]
  <2>3. run' = IF r.todo = {} THEN ToExecutions(r) ELSE r
    BY <2>2 DEF RestartDone
  <2>4. Reconciling(run) /\ todo \in SUBSET Service /\ err \in BOOLEAN
    BY <2>1, <2>2, Known, Zenon
  <2> HIDE DEF todo, err
  <2>5. r \in SetRun /\ r.cs = run.cs /\ r.name = run.name /\ r.at = run.at /\ r.saved = run.saved
    BY <2>4, ZenonT(60) DEF Reconciling, SetRun
  <2> HIDE DEF r
  <2>6. Reconciling(r) /\ Placed(r)
    BY <2>1, <2>4, <2>5, ZenonT(60) DEF Reconciling, Placed
  <2>7. Follows(ToExecutions(r), r)
    BY <1>0, <2>6, Flow
  <2> QED
    BY <1>1, <1>3, <2>1, <2>3, <2>5, <2>6, <2>7, ZenonT(60)
<1>20. CASE handleExecutions
  <2>1. run.at = "executions" /\ \E failed : run' = ToBackups([run EXCEPT !.err = @ \/ failed # {}])
    BY <1>20, ZenonT(60) DEF handleExecutions
  <2>2. PICK failed : run' = ToBackups([run EXCEPT !.err = @ \/ failed # {}])
    BY <2>1
  <2> DEFINE r == [run EXCEPT !.err = @ \/ failed # {}]
  <2>3. Reconciling(r) /\ r.saved = run.saved
    BY <2>1, Errors, ZenonT(60)
  <2>4. run' = ToBackups(r)
    BY <2>2
  <2> HIDE DEF r
  <2>5. Follows(ToBackups(r), r)
    BY <1>0, <2>3, Flow
  <2> QED
    BY <1>3, <2>1, <2>3, <2>4, <2>5, ZenonT(60)
<1>21. CASE updateFileBackups
  <2>1. run.at = "backups" /\ run' = ToStatus(run)
    BY <1>21, SMTT(60), ZenonT(60) DEF updateFileBackups
  <2>2. Reconciling(run)
    BY <2>1, Known, SMTT(60), ZenonT(60)
  <2>3. Follows(ToStatus(run), run)
    BY <1>0, <2>2, Flow
  <2> QED
    BY <1>3, <2>1, <2>2, <2>3, ZenonT(60)
<1>22. CASE updateConfigSetStatus
  <2>1. run.at = "status" /\ (run' = Idle \/ run' = [run EXCEPT !.at = "notify"])
    BY <1>22, SMTT(60), ZenonT(60) DEF updateConfigSetStatus
  <2>2. CASE run' = [run EXCEPT !.at = "notify"]
    <3>1. Reconciling(run)
      BY <2>1, Known
    <3>2. /\ run' \in SetRun /\ run'.at = "notify"
          /\ run'.cs = run.cs /\ run'.name = run.name /\ run'.saved = run.saved
      BY <1>0, <2>2, <3>1, ZenonT(60) DEF Reconciling, SetRun
    <3> QED
      BY <1>1, <3>1, <3>2 DEF Reconciling, Placed
  <2> QED
    BY <1>1, <2>1, <2>2
<1>23. ASSUME NEW c \in Name, EditConfigSet(c)
       PROVE  UNCHANGED run
  BY <1>23, ZenonT(60) DEF EditConfigSet
<1>24. ASSUME RunGC \/ BlobsAge \/ EditSecret \/ Meddle \/ \E s \in Service : ServiceDies(s)
       PROVE  UNCHANGED run
  BY <1>24 DEF RunGC, BlobsAge, EditSecret, Meddle, ServiceDies
<1> QED
  BY <1>2, <1>11, <1>12, <1>13, <1>14, <1>15, <1>16, <1>17, <1>18, <1>19, <1>20, <1>21, <1>22, <1>23, <1>24, ZenonT(60)
     DEF Next, Proceed, HandlesFile
=============================================================================
