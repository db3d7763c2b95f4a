------------------------------ MODULE HostFiles ------------------------------
(***************************************************************************)
(* What the file handler (pkg/files) and the file bucket do to one path.    *)
(*                                                                         *)
(* A path holds nothing, a plain file, a directory or a symbolic link; data *)
(* is the content of a file and the target of a link.  Every operation is   *)
(* the set of its possible outcomes: what the path holds afterwards, whether*)
(* the operation reports a change, whether it reports an error, and whether *)
(* that error is a fault of the system underneath (a full disk, a failed    *)
(* lookup) rather than a consequence of what the path holds.  A path that   *)
(* holds a link is managed as a link.                                       *)
(***************************************************************************)
EXTENDS Naturals

NoFile == [kind |-> "none", data |-> "", owner |-> "", mode |-> ""]

File(data, owner, mode) ==
  [kind |-> "file", data |-> data, owner |-> owner, mode |-> mode]

Directory(mode) == [kind |-> "directory", data |-> "", owner |-> "root", mode |-> mode]

Link(target) == [kind |-> "symlink", data |-> target, owner |-> "root", mode |-> ""]

Done(at, changed)   == [at |-> at, changed |-> changed, err |-> FALSE, fault |-> FALSE]
Refused(at)         == [at |-> at, changed |-> FALSE,   err |-> TRUE,  fault |-> FALSE]
Faulty(at, changed) == [at |-> at, changed |-> changed, err |-> TRUE,  fault |-> TRUE]

-----------------------------------------------------------------------------
(* EnsureByName; the empty string means a file.                            *)
FileEnsureFromString(ensure) ==
  CASE ensure = "" -> "file"
    [] ensure \in {"file", "directory", "symlink", "absent"} -> ensure
    [] OTHER -> "unhandled"

(* A missing file reads as empty, so writing the empty content is no change.*)
(* Create truncates the file before the content is written.                *)
WriteContentFile(old, data, creatable) ==
  IF old.kind = "directory" THEN {Refused(old)}
  ELSE IF old.data = data THEN {Done(old, FALSE)}
  ELSE IF old.kind = "none" /\ ~creatable THEN {Refused(old)}
  ELSE LET new == IF old.kind = "none" THEN File("", "root", "0644") ELSE old
       IN  {Done([new EXCEPT !.data = data], TRUE),
            Faulty(old, FALSE),
            Faulty([new EXCEPT !.data = ""], TRUE)}

(* Variant: no owner asked for is not read as root.                          *)
ChownLiterally(old, owner) ==
  IF old.kind = "none" THEN {Refused(old)}
  ELSE IF old.owner = owner THEN {Done(old, FALSE), Faulty(old, FALSE)}
  ELSE {Done([old EXCEPT !.owner = IF owner = "" THEN "root" ELSE owner], TRUE), Faulty(old, FALSE)}

Chown(old, owner) ==
  LET want == IF owner = "" THEN "root" ELSE owner
  IN  IF old.kind = "none" THEN {Refused(old)}
      ELSE IF old.owner = want THEN {Done(old, FALSE), Faulty(old, FALSE)}
      ELSE {Done([old EXCEPT !.owner = want], TRUE), Faulty(old, FALSE)}

SetMode(old, mode) ==
  IF old.kind = "none" THEN {Refused(old)}
  ELSE IF old.mode = mode THEN {Done(old, FALSE)}
  ELSE {Done([old EXCEPT !.mode = mode], TRUE), Faulty(old, FALSE)}

(* Stat follows links: a link whose target is missing counts as absent and  *)
(* stays.  A removal that fails reports a change nevertheless.             *)
Remove(old, targetExists) ==
  IF old.kind = "none" \/ (old.kind = "symlink" /\ ~targetExists)
  THEN {Done(old, FALSE)}
  ELSE {Done(NoFile, TRUE), Faulty(old, TRUE)}

-----------------------------------------------------------------------------
(* Variant: errors of chown and chmod are dropped.                          *)
WriteFileLeniently(file, content, old, creatable) ==
  UNION {IF w.err THEN {w} ELSE
         UNION {{Done(m.at, w.changed \/ o.changed \/ m.changed) :
                   m \in IF file.mode = "" THEN {Done(o.at, FALSE)}
                         ELSE SetMode(o.at, file.mode)} :
                o \in Chown(w.at, file.owner)} :
         w \in WriteContentFile(old, content, creatable)}

(* The part of writeFileContent after the backup: content, owner, mode.  An *)
(* error in a later part hides that an earlier one changed the file.       *)
WriteFile(file, content, old, creatable) ==
  UNION {IF w.err THEN {w} ELSE
         UNION {IF o.err THEN {[o EXCEPT !.changed = TRUE]} ELSE
                {IF m.err THEN [m EXCEPT !.changed = TRUE]
                 ELSE Done(m.at, w.changed \/ o.changed \/ m.changed) :
                   m \in IF file.mode = "" THEN {Done(o.at, FALSE)}
                         ELSE SetMode(o.at, file.mode)} :
                o \in Chown(w.at, file.owner)} :
         w \in WriteContentFile(old, content, creatable)}

(* A missing directory is made with the mode asked for, 0660 by default; the *)
(* mode of an existing one is set.                                         *)
EnsureDirectory(file, old) ==
  IF old.kind = "none"
  THEN {Done(Directory(IF file.mode = "" THEN "0660" ELSE file.mode), TRUE),
        Faulty(old, FALSE)}
  ELSE IF file.mode = "" THEN {Done(old, FALSE)} ELSE SetMode(old, file.mode)

(* An existing link is replaced by removing it first; a path that holds no   *)
(* link is an error, and so is making the link where the old one stayed.    *)
EnsureSymlink(file, old, targetExists) ==
  IF old.kind # "symlink" THEN {Refused(old)}
  ELSE IF old.data = file.target THEN {Done(old, FALSE)}
  ELSE UNION {IF r.err THEN {[r EXCEPT !.changed = FALSE]}
              ELSE IF r.at # NoFile THEN {Refused(r.at)}
              ELSE {Done(Link(file.target), TRUE), Faulty(NoFile, TRUE)} :
              r \in Remove(old, targetExists)}

-----------------------------------------------------------------------------
(***************************************************************************)
(* The file bucket keeps one blob per content.  A blob is missing, young,   *)
(* old (past MaxAge), removed for its age, or cut short by a failed write.  *)
(***************************************************************************)
BlobState == {"none", "young", "old", "removed", "partial", "old partial"}

Ageing(blob) ==
  CASE blob = "young" -> "old" [] blob = "partial" -> "old partial" [] OTHER -> blob

(* Variant: a failed write of the blob is not noticed.                      *)
SaveCarelessly(blob) ==
  IF blob \notin {"none", "removed"}
  THEN {[blob |-> blob, ok |-> TRUE, fault |-> FALSE]}
  ELSE {[blob |-> "young", ok |-> TRUE, fault |-> FALSE],
        [blob |-> blob, ok |-> TRUE, fault |-> TRUE]}

(* The states of the blob after SaveToFileBucket and whether it reported    *)
(* success.  A blob that exists, whole or not, is left as it is.           *)
SaveToFileBucket(blob) ==
  IF blob \notin {"none", "removed"}
  THEN {[blob |-> blob, ok |-> TRUE, fault |-> FALSE]}
  ELSE {[blob |-> "young", ok |-> TRUE, fault |-> FALSE],
        [blob |-> "partial", ok |-> FALSE, fault |-> TRUE],
        [blob |-> blob, ok |-> FALSE, fault |-> TRUE]}

GCFileBucket(bucket) ==
  [d \in DOMAIN bucket |-> IF bucket[d] \in {"old", "old partial"} THEN "removed" ELSE bucket[d]]
=============================================================================
