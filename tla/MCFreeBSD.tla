------------------------------ MODULE MCFreeBSD ---------------------------
(* Scenarios for FreeBSD: four for a jail, one for package builds.          *)
EXTENDS FreeBSD

CONSTANTS r1, r2, ip1, ip2

NoUpdates == [schedule |-> Unset, group |-> Unset]

Plain == [nodeName |-> Thishost, templateRef |-> FALSE, protected |-> FALSE, release |-> r1,
          interface |-> "em0", inet |-> ip1, mounts |-> {}, parameters |-> <<>>,
          pf |-> Unset, update |-> NoUpdates]

Template == [interface |-> "em0", mounts |-> {"data"}, parameters |-> <<>>, update |-> NoUpdates,
             pf |-> [anchor |-> Unset, rules |-> <<"base">>], postCreate |-> TRUE]

NoLabels == [k \in {} |-> ""]
NoObjects == [trees |-> {}, jails |-> [x \in {} |-> ""], bulks |-> {}]

Simple(specs, faults) ==
  [first |-> Plain, specs |-> specs, template |-> Unset, templates |-> {}, faults |-> faults,
   labels |-> NoLabels, objects |-> NoObjects]

(* The release changes.                                                     *)
Releases == Simple({Plain, [Plain EXCEPT !.release = r2]}, 2)

(* The address or the mounts change, and perhaps back.                      *)
Configs ==
  Simple({Plain, [Plain EXCEPT !.inet = ip2], [Plain EXCEPT !.mounts = {"data"}]}, 2)

(* The jail takes its defaults from a template that comes and changes.       *)
Templates ==
  LET jail == [Plain EXCEPT !.templateRef = TRUE, !.interface = Unset,
                            !.pf = [anchor |-> Unset, rules |-> <<"own">>]]
  IN  [Simple({[jail EXCEPT !.protected = TRUE]}, 1) EXCEPT !.first = jail,
         !.templates = {Template, [Template EXCEPT !.mounts = {"logs"}, !.postCreate = FALSE]}]

(* The jail is updated on a schedule, as a member of a group.               *)
Updates ==
  LET jail == [Plain EXCEPT !.update = [schedule |-> "daily", group |-> "jails"]]
  IN  [Simple({jail}, 1) EXCEPT !.first = jail]

MCBulk == {[tree |-> "default", jail |-> "14", ports |-> <<<<"git">>, <<"tmux">>>>]}

(* Packages are built; the label is the one the gate lets pass.             *)
Builds ==
  [Simple({}, 0) EXCEPT !.first = NoJail, !.labels = [k \in {BuildLabel} |-> "disabled"],
     !.objects = [trees |-> {"default"}, jails |-> [x \in {"14"} |-> "14.0"], bulks |-> MCBulk]]

MCScenario == {Releases, Configs, Templates, Updates, Builds}
=============================================================================
