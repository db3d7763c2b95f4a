----------------------------- MODULE MCConfigSet -----------------------------
(***************************************************************************)
(* Scenarios for the ConfigSet reconciler of one host: two ConfigSets that   *)
(* claim the same file; purged directories; links, removals and files that  *)
(* are only created; packages, services and a template.                    *)
(***************************************************************************)
EXTENDS ConfigSet, TLC

MCPath == {"/f", "/d", "/d/g", "/d/h", "/l", "/rc"}
MCParent == [p \in MCPath |-> IF p \in {"/d/g", "/d/h"} THEN "/d" ELSE p]
MCRcConf == [s \in {"svc"} |-> "/rc"]
MCNodeLabels == [k \in {"os", "role"} |-> IF k = "os" THEN "arch" ELSE "web"]

Matching == [k \in {"role"} |-> "web"]
Elsewhere == [k \in {"role"} |-> "db"]

Plain(p, content) ==
  [path |-> p, ensure |-> "file", content |-> content, ref |-> FALSE, createOnly |-> FALSE,
   owner |-> "", mode |-> "", purge |-> FALSE, target |-> ""]

Set(labels, files, svcs) ==
  [labels |-> labels, files |-> files, svcs |-> svcs, pkgs |-> <<>>, execs |-> <<>>,
   notifies |-> {}]

Svc(ensure, subs) == [name |-> "svc", ensure |-> ensure, enable |-> TRUE, subs |-> subs]

Run(subs) == [name |-> "exe", subs |-> subs]

Empty == [p \in MCPath |-> NoFile]

Scenario(a, b, d) ==
  [specs |-> [c \in {"a", "b"} |-> IF c = "a" THEN a ELSE b], disk |-> d,
   pkgs |-> [k \in {"pkg"} |-> ""], used |-> [s \in {"svc", "exe"} |-> Down],
   secret |-> {""}, bucket |-> FALSE, meddle |-> {}, mortal |-> {}, os |-> "arch", faults |-> 1]

Absent == {Deleted}

(* Both claim /f, and a's service and execution read it.                    *)
Claims ==
  [Scenario({[Set(Matching, <<Plain("/f", x)>>, <<Svc("running", {"/f"})>>)
               EXCEPT !.execs = <<Run({"/f"})>>] : x \in {"x", "y"}} \cup Absent,
            {Set(l, <<Plain("/f", "y")>>, <<>>) : l \in {Matching, Elsewhere}},
            [Empty EXCEPT !["/f"] = File("x", "root", "0644")])
   EXCEPT !.faults = 2]

(* One file, the file bucket, and someone who edits the file by hand.        *)
Backups ==
  [Scenario({Set(Matching, <<[Plain("/f", x) EXCEPT !.mode = "0600"]>>, <<>>) : x \in {"x", "y"}},
            Absent,
            [Empty EXCEPT !["/f"] = File("x", "bob", "0600")])
   EXCEPT !.bucket = TRUE, !.meddle = {"/f"}]

(* a purges /d, where b may declare /d/g; a's service reads /d/h.           *)
Purges ==
  [Scenario({Set(Matching, <<[Plain("/d", "") EXCEPT !.ensure = "directory", !.purge = TRUE,
                                                     !.mode = m]>>,
                 <<Svc("running", {"/d/h"})>>) : m \in {"", "0700"}},
            {Set(l, <<Plain("/d/g", "x")>>, <<>>) : l \in {Matching, Elsewhere}},
            Empty)
   EXCEPT !.meddle = {"/d/g", "/d/h"}]

(* A link that is moved from /f to /rc, removed, or declared wrongly; a file *)
(* that is only created.                                                   *)
Links ==
  Scenario({Set(Matching, <<[Plain("/l", "") EXCEPT !.ensure = e[1], !.target = e[2]]>>, <<>>) :
              e \in {<<"symlink", "/f">>, <<"symlink", "/rc">>, <<"absent", "">>, <<"hardlink", "">>}},
           {Set(Matching, <<[Plain("/f", "y") EXCEPT !.createOnly = TRUE]>>, <<>>),
            Set(Matching, <<[Plain("/f", "") EXCEPT !.ensure = "absent"]>>, <<>>)},
           [Empty EXCEPT !["/f"] = File("x", "root", "0644"), !["/l"] = Link("/f")])

(* A service that reads a file made from a Secret and may die, and whose     *)
(* rc.conf.d file is managed or not.                                        *)
Services(os) ==
  [Scenario({Set(Matching, <<[Plain("/f", "x") EXCEPT !.ref = TRUE]>>, <<Svc("running", {"/f"})>>),
             Set(Matching, <<Plain("/rc", "y")>>, <<Svc("stopped", {"/f"})>>)},
            Absent, Empty)
   EXCEPT !.secret = {"s", "t", ""}, !.mortal = {"svc"}, !.os = os, !.faults = 2]

(* Two ConfigSets that may claim the same package.                          *)
Packages ==
  Scenario({[Set(Matching, <<>>, <<>>)
              EXCEPT !.pkgs = <<[name |-> "pkg", ensure |-> e, version |-> v]>>] :
              e \in {"installed", "absent"}, v \in {"", "2"}},
           {[Set(l, <<>>, <<>>)
              EXCEPT !.pkgs = <<[name |-> "pkg", ensure |-> "installed", version |-> ""]>>] :
              l \in {Matching, Elsewhere}},
           Empty)

(* A ConfigSet that notifies a jail, comes and goes, and may be hidden by     *)
(* another.                                                                *)
Notifies ==
  Scenario({[Set(Matching, <<Plain("/f", x)>>, <<>>) EXCEPT !.notifies = {"jail"}] : x \in {"x", "y"}}
             \cup Absent,
           {Set(l, <<Plain("/f", "y")>>, <<>>) : l \in {Matching, Elsewhere}},
           Empty)

(* A purged directory, a file in it that may be left out and that a running   *)
(* service reads, and a file beside it.                                     *)
Trees ==
  [Scenario({Set(Matching, <<[Plain("/d", "") EXCEPT !.ensure = "directory", !.purge = TRUE]>>
                             \o g \o <<Plain("/f", "y")>>,
                 <<Svc("running", {"/d/g"})>>) : g \in {<<Plain("/d/g", "x")>>, <<>>}},
            Absent,
            [Empty EXCEPT !["/f"] = File("x", "root", "0644")])
   EXCEPT !.meddle = {"/d/h"}, !.used["svc"] = [p \in {"/d/g"} |-> ""]]

MCMenu == {Notifies, Claims, Backups, Purges, Trees, Links, Packages,
           Services("arch"), Services("alpine")}

(* The ConfigSets of every scenario are Orderly, as OkIsApplied assumes.      *)
ASSUME ScenariosOrderly == \A m \in Menu : Orderly(m)
=============================================================================
