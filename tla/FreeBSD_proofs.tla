--------------------------- MODULE FreeBSD_proofs ---------------------------
(***************************************************************************)
(* Proofs about the two FreeBSD controllers of one agent.  What is proved of  *)
(* jails holds beside package builds, too; and builds find prepared what     *)
(* they use, for any objects and any number of edits and failures.          *)
(***************************************************************************)
EXTENDS FreeBSD, Jail_proofs

(***************************************************************************)
(* The inductive invariant of the package builder.  In each of its loops     *)
(* what was listed exists, except what the loop has yet to do; trees and      *)
(* build jails are never removed from the host.                            *)
(***************************************************************************)
PInv ==
  /\ p = [at |-> p.at, todo |-> p.todo, trees |-> p.trees, jails |-> p.jails]
  /\ made = [trees |-> made.trees, jails |-> made.jails]
  /\ p.at = "trees" => p.trees \ p.todo \subseteq made.trees
  /\ p.at \in {"jails", "build"} => p.trees \subseteq made.trees
  /\ p.at = "jails" => DOMAIN p.jails \ p.todo \subseteq DOMAIN made.jails
  /\ p.at = "build" => DOMAIN p.jails \subseteq DOMAIN made.jails

(* Builds run only when every tree and build jail that was listed exists:     *)
(* ensureTree and ensureJail make them all, and a failed command ends the     *)
(* reconcile.                                                              *)
THEOREM BuildsPrepared == Spec => []PreparedBeforeBuild
<1>0. PIdle = [at |-> "idle", todo |-> {}, trees |-> {}, jails |-> NoJails] /\ PIdle.at = "idle"
  BY DEF PIdle
<1>1. Init => PInv
  BY <1>0, SMTT(60), ZenonT(60) DEF Init, PInit, PInv
<1>2. ASSUME PInv, [Next]_vars PROVE PInv'
  <2> USE <1>2 DEF PInv
  <2>1. CASE ReconcileBulk
    BY <1>0, <2>1, ZenonT(60) DEF ReconcileBulk
  <2>2. ASSUME NEW t, ensureTree(t) PROVE PInv'
    <3>1. p' = [at |-> p.at, todo |-> p.todo \ {t}, trees |-> p.trees, jails |-> p.jails] /\ p.at = "trees"
      BY <2>2, ZenonT(60) DEF ensureTree
    <3>2. made' = [trees |-> made.trees \cup {t}, jails |-> made.jails]
      BY <2>2, ZenonT(60) DEF ensureTree
    <3> QED
      BY <3>1, <3>2
  <2>3. CASE ListJails
    BY <2>3, ZenonT(60) DEF ListJails
  <2>4. ASSUME NEW j, ensureJail(j) PROVE PInv'
    <3>1. p' = [at |-> p.at, todo |-> p.todo \ {j}, trees |-> p.trees, jails |-> p.jails] /\ p.at = "jails"
      BY <2>4, SMTT(60), ZenonT(60) DEF ensureJail
    <3>2. /\ made' = [trees |-> made.trees, jails |-> made'.jails]
          /\ made'.trees = made.trees /\ DOMAIN made'.jails = DOMAIN made.jails \cup {j}
      BY <2>4 DEF ensureJail
    <3> QED
      BY <3>1, <3>2
  <2>5. CASE Sync
    BY <2>5, ZenonT(60) DEF Sync
  <2>6. ASSUME NEW b, Build(b) PROVE PInv'
    <3>1. p' = [at |-> p.at, todo |-> p.todo \ {b}, trees |-> p.trees, jails |-> p.jails] /\ p.at = "build"
      BY <2>6, SMTT(60), ZenonT(60) DEF Build
    <3> QED
      BY <2>6, <3>1, ZenonT(60) DEF Build
  <2>7. CASE BuildsDone \/ PFail
    BY <1>0, <2>7 DEF BuildsDone, PFail
  <2>8. CASE UNCHANGED <<made, p>>
    BY <2>8
  <2> QED
    BY <2>1, <2>2, <2>3, <2>4, <2>5, <2>6, <2>7, <2>8, ZenonT(60)
       DEF Next, PNext, PoudriereEdit, vars, pvars
<1>3. PInv => PreparedBeforeBuild
  BY DEF PInv, PreparedBeforeBuild
<1> QED
  BY <1>1, <1>2, <1>3, PTL DEF Spec

(* The builds of the same agent do not touch what is proved of a jail.       *)
THEOREM JailBesideBuilds ==
  Spec => /\ [](JailTypeOK /\ NeverRootless /\ StaleOnlyIfCut)
          /\ FinalizerHolds /\ StoppedOnlyIfDifferent
<1>1. Init => JInit
  BY DEF Init
<1>2. [Next]_vars => [JNext]_jvars
  BY DEF Next, vars
<1>3. Spec => JSpec
  BY <1>1, <1>2, PTL DEF Spec, JSpec
<1> QED
  BY <1>3, JailTypes, JailKeepsRoot, JailRunsAsAsked, JailFinalizerHolds, JailNotStoppedNeedlessly, PTL
=============================================================================
