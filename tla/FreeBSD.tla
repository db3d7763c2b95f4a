------------------------------- MODULE FreeBSD -------------------------------
(***************************************************************************)
(* The two FreeBSD controllers of one agent: jails and package builds.  They  *)
(* run side by side and share the host, not their state.                   *)
(***************************************************************************)
EXTENDS Jail, Poudriere

CONSTANTS Trees, Versions

vars == <<jvars, pvars>>

Init == JInit /\ PInit(plan.labels, plan.objects)

Next ==
  \/ JNext /\ UNCHANGED pvars
  \/ PNext(Trees, Versions) /\ UNCHANGED jvars

Spec == Init /\ [][Next]_vars
FairSpec == Spec /\ JFairness
=============================================================================
