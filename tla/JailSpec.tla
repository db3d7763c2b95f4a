------------------------------ MODULE JailSpec ------------------------------
(***************************************************************************)
(* What a Jail and its JailTemplate ask for: the defaults a template fills   *)
(* in (pkg/jail/merge.go) and the files that are rendered from the result.    *)
(* A field without a value is Unset; parameters are a function whose domain   *)
(* is the keys that are set; mounts are a set.                              *)
(***************************************************************************)
EXTENDS Sequences, TLC

CONSTANT Unset

Or(value, default) == IF value = Unset THEN default ELSE value

mergeUpdate(spec, tmpl) ==
  [schedule |-> Or(spec.schedule, tmpl.schedule), group |-> Or(spec.group, tmpl.group)]

mergeParameters(spec, tmpl) == spec @@ tmpl

(* The rules of the template come first.                                    *)
mergePF(spec, tmpl) ==
  IF tmpl = Unset THEN spec
  ELSE IF spec = Unset THEN tmpl
  ELSE [anchor |-> Or(spec.anchor, tmpl.anchor), rules |-> tmpl.rules \o spec.rules]

MergeTemplateDefaults(spec, tmpl) ==
  [spec EXCEPT !.interface = Or(@, tmpl.interface),
               !.mounts = IF @ = {} THEN tmpl.mounts ELSE @,
               !.update = mergeUpdate(@, tmpl.update),
               !.pf = mergePF(@, tmpl.pf),
               !.parameters = mergeParameters(@, tmpl.parameters)]

jailAnchorName(name, pf) == IF pf = Unset THEN name ELSE Or(pf.anchor, name)

(* The fields of a spec that the template of jail.conf renders.             *)
JailConf(spec) ==
  [interface |-> spec.interface, inet |-> spec.inet, release |-> spec.release,
   fstab |-> spec.mounts # {}, parameters |-> spec.parameters]

(* Variant: the file that was there is not compared.                        *)
Rewritten(old, new) == old # Unset

(* writeJailConf and writeFstab report whether a file that was there has     *)
(* changed.                                                                *)
Changed(old, new) == old # Unset /\ old # new
=============================================================================
