-------------------------- MODULE NodeStatus_proofs --------------------------
(***************************************************************************)
(* Proofs about the writers of the ManagedNode, for any ConfigSets, roles    *)
(* and keys, any scenarios and any number of edits and failures.            *)
(***************************************************************************)
EXTENDS NodeStatus, TLAPS

(* The local variables of the two reconciles.                              *)
NodeRun == [at : NSteps \cup {"idle"}, node : Node, facts : 0..2, wg : Key \cup {Nothing},
            matching : SUBSET Name]
ConfigSetRun == {CIdle} \cup [at : {"report", "remove"}, name : Name]

(***************************************************************************)
(* The inductive invariant.  A key may also be in the informer cache, from   *)
(* where every writer takes the object it writes back.  Between the two       *)
(* halves of the migration the status has a time: the first half wrote it     *)
(* and nobody takes it out.                                                 *)
(***************************************************************************)
NodeInv ==
  /\ NodeTypeOK
  /\ n \in NodeRun /\ c \in ConfigSetRun
  /\ KeyPublishedIsStored
  /\ cache # NoNode => cache.wg \in stored \cup {Nothing}
  /\ n.at = "unannotate" => obj # NoNode /\ obj.last # Nothing

-----------------------------------------------------------------------------
(* Every step keeps the invariant, whichever writer takes it.               *)
LEMMA NodeStep == NodeInv /\ [Next]_vars => NodeInv'
<1> SUFFICES ASSUME NodeInv, [Next]_vars PROVE NodeInv'
  OBVIOUS
<1> USE NodeAssumption DEF NodeInv, NodeTypeOK, KeyPublishedIsStored
<1>0. Blank \in Node /\ NIdle \in NodeRun /\ NIdle.at = "idle" /\ NIdle.wg = Nothing
  BY DEF Blank, Node, NIdle, NodeRun
<1>a. ASSUME n' \in NodeRun
      PROVE n'.at \in NSteps \cup {"idle"} /\ n'.node \in Node
  BY <1>a DEF NodeRun
<1>1. CASE ReconcileNode
  <2>1. [cache EXCEPT !.gc = FALSE, !.poked = FALSE] \in Node
    BY <1>1, ZenonT(60) DEF ReconcileNode, Node
  <2>2. n' \in NodeRun /\ n'.at = "labels" /\ n'.wg = Nothing
    BY <1>1, <2>1 DEF ReconcileNode, NIdle, NodeRun, NSteps
  <2> QED
    BY <1>a, <1>1, <2>2 DEF ReconcileNode, env
<1>2. CASE updateNodeLabels
  <2> DEFINE role == IF n.node.role = Nothing THEN cache.role ELSE n.node.role
             new == [cache EXCEPT !.os = TRUE, !.role = role]
  <2>1. obj' = obj \/ (obj # NoNode /\ obj' \in Node /\ obj'.wg = obj.wg)
    <3>1. n.node.role \in Role \cup {Nothing}
      BY DEF NodeRun, Node
    <3>2. ASSUME cache \in Node PROVE new \in Node /\ new.wg = cache.wg
      <4>1. role \in Role \cup {Nothing}
        BY <3>1, <3>2 DEF Node
      <4> HIDE DEF role
      <4> QED
        BY <3>2, <4>1, Zenon DEF Node
    <3>3. obj' = obj \/ (cache # NoNode /\ cache = obj /\ obj' = new)
      BY <1>2 DEF updateNodeLabels, Update, Write
    <3> HIDE DEF new
    <3> QED
      BY <3>2, <3>3
  <2>2. n' \in NodeRun /\ n'.at = "secret" /\ n'.wg = n.wg
    BY <1>2 DEF updateNodeLabels, Goto, NodeRun, NSteps
  <2> QED
    BY <1>a, <1>2, <2>1, <2>2 DEF updateNodeLabels, env
<1>3. ASSUME NEW key \in Key \cup {Nothing}, Collected(key), n.at = "secret"
      PROVE /\ n' \in NodeRun /\ n'.at \in {"prune", "status"}
            /\ n'.wg \in {n.wg, host.live, key}
  <2> DEFINE wg == mergeBootstrappedWireGuardKey(host.live, key)
             kept == [Blank EXCEPT !.role = n.node.role, !.entries = n.node.entries,
                                   !.last = n.node.last, !.legacy = n.node.legacy]
  <2>1. wg \in {host.live, key} /\ wg \in Key \cup {Nothing} /\ host.release \in 0..2
    BY <1>3 DEF mergeBootstrappedWireGuardKey
  <2>2. kept \in Node
    <3>1. /\ n.node.role \in Role \cup {Nothing} /\ n.node.entries \in SUBSET Name
          /\ n.node.last \in {Nothing, "legacy", "upgrade"} /\ n.node.legacy \in BOOLEAN
      BY DEF NodeRun, Node
    <3> QED
      BY <1>0, <3>1, ZenonT(60) DEF Node
  <2>3. \/ n' = [n EXCEPT !.at = "prune", !.node = kept]
        \/ n' = [n EXCEPT !.at = "status", !.node = kept, !.facts = host.release, !.wg = wg]
    BY <1>3 DEF Collected
  <2> HIDE DEF wg, kept
  <2>4. CASE n' = [n EXCEPT !.at = "prune", !.node = kept]
    BY <2>2, <2>4 DEF NodeRun, NSteps
  <2>5. CASE n' = [n EXCEPT !.at = "status", !.node = kept, !.facts = host.release, !.wg = wg]
    BY <2>1, <2>2, <2>5 DEF NodeRun, NSteps
  <2> QED
    BY <2>3, <2>4, <2>5
<1>4. CASE ensureWireGuardKeySecret \/ NoWireGuard
  <2>1. CASE NoWireGuard
    BY <1>a, <1>3, <2>1 DEF NoWireGuard, env
  <2>2. CASE ensureWireGuardKeySecret /\ secret # Nothing
    BY <1>a, <1>3, <2>2 DEF ensureWireGuardKeySecret
  <2>3. CASE ensureWireGuardKeySecret /\ secret = Nothing
    <3>1. PICK k \in Key : secret' = k /\ stored' = stored \cup {k} /\ Collected(k)
      BY <2>3 DEF ensureWireGuardKeySecret
    <3>2. n' \in NodeRun /\ n'.at \in {"prune", "status"} /\ n'.wg \in {n.wg, host.live, k}
      BY <1>3, <2>3, <3>1 DEF ensureWireGuardKeySecret
    <3>3. UNCHANGED <<obj, cache, wants, gone, host, edits, c>>
      BY <2>3 DEF ensureWireGuardKeySecret
    <3> QED
      BY <1>a, <3>1, <3>2, <3>3
  <2> QED
    BY <1>4, <2>1, <2>2, <2>3
<1>5. CASE updateNodeStatus
  <2>1. obj' \in Node /\ obj'.wg = n.wg
    BY <1>5, ZenonT(60) DEF updateNodeStatus, Write, NodeRun, Node
  <2>2. n' \in NodeRun /\ n'.at = "prune" /\ n'.wg = Nothing
    <3>1. 0 \in 0..2 /\ Nothing \in Key \cup {Nothing}
      OBVIOUS
    <3> QED
      BY <1>5, <3>1 DEF updateNodeStatus, NodeRun, NSteps
  <2> QED
    BY <1>a, <1>5, <2>1, <2>2 DEF updateNodeStatus, Write, env
<1>6. CASE pruneStaleConfigSetStatus
  <2> DEFINE matching == {x \in Name : Matches(n.node, x)}
             kept == [n EXCEPT !.node.role = Nothing, !.node.entries = {}]
  <2>1. kept \in NodeRun /\ kept.wg = n.wg
    BY Zenon DEF NodeRun, Node
  <2>2. \/ n' = [kept EXCEPT !.at = "migrate"]
        \/ n' = [kept EXCEPT !.at = "prune write", !.matching = matching]
    BY <1>6 DEF pruneStaleConfigSetStatus
  <2>3. matching \in SUBSET Name
    OBVIOUS
  <2> HIDE DEF matching, kept
  <2>4. n' \in NodeRun /\ n'.at \in {"migrate", "prune write"} /\ n'.wg = n.wg
    BY <2>1, <2>2, <2>3, ZenonT(60) DEF NodeRun, NSteps
  <2> QED
    BY <1>a, <1>6, <2>4, ZenonT(60) DEF pruneStaleConfigSetStatus, env
<1>7. CASE PruneWrite
  <2>1. obj' \in Node /\ obj'.wg = obj.wg
    <3>1. obj \in Node /\ obj' = [obj EXCEPT !.entries = @ \cap n.matching]
      BY <1>7, ZenonT(60) DEF PruneWrite, Write
    <3>2. obj.entries \cap n.matching \in SUBSET Name
      BY <3>1, ZenonT(60) DEF Node
    <3> QED
      BY <3>1, <3>2, SMTT(60), ZenonT(60) DEF Node
  <2>2. n' \in NodeRun /\ n'.at = "migrate" /\ n'.wg = n.wg
    BY <1>7 DEF PruneWrite, NodeRun, NSteps
  <2> QED
    BY <1>a, <1>7, <2>1, <2>2 DEF PruneWrite, Write, env
<1>8. CASE migrateUpgradeAnnotation
  <2>1. CASE n' = [NIdle EXCEPT !.at = "upgrade"] /\ obj' = obj
    <3>1. n' \in NodeRun /\ n'.at = "upgrade" /\ n'.wg = Nothing
      BY <1>0, <2>1 DEF NodeRun, NSteps
    <3> QED
      BY <1>a, <1>8, <2>1, <3>1 DEF migrateUpgradeAnnotation, env
  <2>2. CASE Write([cache EXCEPT !.last = "legacy"]) /\ n' = [NIdle EXCEPT !.at = "unannotate"]
    <3>1. n' \in NodeRun /\ n'.at = "unannotate" /\ n'.wg = Nothing
      BY <1>0, <2>2 DEF NodeRun, NSteps
    <3>2. obj # NoNode /\ obj' \in Node /\ obj'.wg = obj.wg /\ obj'.last # Nothing
      BY <2>2 DEF Write, Node
    <3> QED
      BY <1>a, <1>8, <2>2, <3>1, <3>2 DEF migrateUpgradeAnnotation, env
  <2>3. CASE Write([cache EXCEPT !.legacy = FALSE]) /\ Goto("refresh")
    <3>1. n' \in NodeRun /\ n'.at = "refresh" /\ n'.wg = n.wg
      BY <2>3 DEF Goto, NodeRun, NSteps
    <3>2. obj # NoNode /\ obj' \in Node /\ obj'.wg = obj.wg
      BY <2>3, ZenonT(60) DEF Write, Node
    <3> QED
      BY <1>a, <1>8, <2>3, <3>1, <3>2 DEF migrateUpgradeAnnotation, env
  <2> QED
    BY <1>8, <2>1, <2>2, <2>3 DEF migrateUpgradeAnnotation, Update
<1>9. CASE handleUpgrade \/ NConflict
  BY <1>0, <1>a, <1>9 DEF handleUpgrade, NConflict, env
<1>10. CASE StampUpgrade
  BY <1>0, <1>10 DEF StampUpgrade, Write, env, NIdle, Node
<1>11. CASE updateConfigSetStatus
  BY <1>11 DEF updateConfigSetStatus, Write, env, ConfigSetRun, CIdle, Node
<1>12. CASE removeConfigSetStatus
  BY <1>12 DEF removeConfigSetStatus, Write, env, ConfigSetRun, CIdle, Node
<1>13. CASE CConflict
  BY <1>13 DEF CConflict, env, ConfigSetRun, CIdle
<1>14. ASSUME NEW x \in Name, ConfigSetGone(x) PROVE NodeInv'
  BY <1>14 DEF ConfigSetGone, RemoveEntry, ConfigSetRun, CIdle
<1>15. ASSUME NEW x \in Name, CreateNode(x) PROVE NodeInv'
  BY <1>0, <1>15 DEF CreateNode, env, Blank
<1>16. ASSUME NEW x \in Name, ReconcileConfigSet(x) PROVE NodeInv'
  BY <1>16 DEF ReconcileConfigSet, RemoveEntry, env, ConfigSetRun, CIdle
<1>17. ASSUME NEW x \in Name, EditConfigSet(x) PROVE NodeInv'
  BY <1>17 DEF EditConfigSet, Edited
<1>18. CASE SecretFails
  BY <1>a, <1>3, <1>18 DEF SecretFails, Edited
<1>19. CASE Upgrade
  <2>1. n' \in NodeRun /\ n'.at = "stamp" /\ n'.wg = n.wg
    BY <1>19 DEF Upgrade, Goto, NodeRun, NSteps
  <2> QED
    BY <1>a, <1>19, <2>1 DEF Upgrade, Edited
<1>20. CASE runFileBucketGC \/ trigger
  <2>1. obj \in Node /\ (obj' = [obj EXCEPT !.gc = TRUE] \/ obj' = [obj EXCEPT !.poked = TRUE])
    BY <1>20 DEF runFileBucketGC, trigger, Write
  <2>2. obj' \in Node /\ obj'.wg = obj.wg /\ obj'.last = obj.last
    BY <2>1, ZenonT(60) DEF Node
  <2> QED
    BY <1>20, <2>1, <2>2 DEF runFileBucketGC, trigger, env
<1>21. CASE CacheSync
  BY <1>21 DEF CacheSync, env
<1>22. CASE EditNode
  <2>1. obj' \in Node /\ obj'.wg = obj.wg /\ obj'.last = obj.last
    BY <1>22, ZenonT(60) DEF EditNode, Node
  <2> QED
    BY <1>22, <2>1 DEF EditNode, Edited
<1>23. CASE DeleteSecret \/ InterfaceUp
  BY <1>23 DEF DeleteSecret, InterfaceUp, Edited
<1>24. CASE Restart \/ CFails
  <2>1. c' \in ConfigSetRun /\ (c'.at = "idle" <=> c' = CIdle) /\ c'.at \in {"idle", "report", "remove"}
    BY <1>24 DEF Restart, CFails, CIdle, ConfigSetRun
  <2>2. n' \in {n, NIdle}
    BY <1>24 DEF Restart, CFails
  <2> QED
    BY <1>0, <1>a, <1>24, <2>1, <2>2 DEF Restart, CFails, Edited
<1>25. CASE UNCHANGED vars
  BY <1>25 DEF vars
<1> QED
  BY <1>1, <1>2, <1>4, <1>5, <1>6, <1>7, <1>8, <1>9, <1>10, <1>11, <1>12, <1>13, <1>14,
     <1>15, <1>16, <1>17, <1>18, <1>19, <1>20, <1>21, <1>22, <1>23, <1>24, <1>25, Zenon
     DEF Next, NProceed, CProceed, CTakes

(* Every reachable state satisfies the invariant.                          *)
LEMMA NodeInvariant == Spec => []NodeInv
<1>1. Init => NodeInv
  <2> SUFFICES ASSUME Init PROVE NodeInv
    OBVIOUS
  <2>1. NIdle \in NodeRun /\ NIdle.at = "idle" /\ NIdle.wg = Nothing /\ NIdle.node \in Node
    BY DEF NIdle, NodeRun, Blank, Node
  <2>2. CIdle \in ConfigSetRun /\ CIdle.at = "idle"
    BY DEF CIdle, ConfigSetRun
  <2> QED
    BY <2>1, <2>2, NodeAssumption DEF Init, NodeInv, NodeTypeOK, KeyPublishedIsStored
<1> QED
  BY <1>1, NodeStep, PTL DEF Spec

(* No writer, however stale the copy it read, leaves the ManagedNode or its  *)
(* own local variables in a state the others do not expect.                 *)
THEOREM NodeTypes == Spec => []NodeTypeOK
BY NodeInvariant, PTL DEF NodeInv

(* Only keys that a Secret held reach the status of the ManagedNode, however *)
(* Secrets are deleted and interfaces come up meanwhile.                    *)
THEOREM KeyPublishedStays == Spec => []KeyPublishedIsStored
BY NodeInvariant, PTL DEF NodeInv

(* Each of the writers that share the object changes only the fields that     *)
(* are its own.                                                            *)
THEOREM WritersKeepTheirFields == Spec => OwnFieldsOnly
<1>1. ASSUME NodeInv, Next PROVE OwnFields
  <2> SUFFICES ASSUME obj # NoNode PROVE OwnFields
    BY DEF OwnFields
  <2>0. obj \in Node /\ edits \in Nat /\ n \in NodeRun
    BY <1>1, NodeAssumption DEF NodeInv, NodeTypeOK
  <2>1. CASE obj' = obj
    BY <2>1, SMTT(60), ZenonT(60) DEF OwnFields
  <2>2. CASE updateNodeLabels
    <3>1. obj' = obj \/ (cache = obj /\ \E r : obj' = [obj EXCEPT !.os = TRUE, !.role = r])
      BY <2>2, Zenon DEF updateNodeLabels, Update, Write
    <3> QED
      BY <2>0, <2>1, <3>1, ZenonT(60) DEF Node, OwnFields
  <2>3. CASE updateNodeStatus
    BY <2>0, <2>3 DEF updateNodeStatus, Write, Node, NodeRun, OwnFields
  <2>4. CASE PruneWrite
    BY <2>0, <2>4 DEF PruneWrite, Write, Node, NodeRun, OwnFields
  <2>5. CASE migrateUpgradeAnnotation
    <3>1. \/ obj' = obj
          \/ n.at = "migrate" /\ n'.at # n.at /\ obj' = [obj EXCEPT !.last = "legacy"]
          \/ obj' = [obj EXCEPT !.legacy = FALSE]
      BY <2>5 DEF migrateUpgradeAnnotation, Update, Write, NIdle
    <3> QED
      BY <2>0, <2>1, <3>1 DEF Node, OwnFields
  <2>6. CASE StampUpgrade
    BY <2>0, <2>6 DEF StampUpgrade, Write, NIdle, Node, OwnFields
  <2>7. CASE updateConfigSetStatus
    <3>1. obj' = obj \/ obj' = [obj EXCEPT !.entries = @ \cup {c.name}]
      BY <2>7 DEF updateConfigSetStatus, Write
    <3>2. c # CIdle /\ c' = CIdle
      BY <2>7 DEF updateConfigSetStatus, CIdle
    <3>3. CASE obj' = [obj EXCEPT !.entries = @ \cup {c.name}]
      <4>1. obj'.entries = obj.entries \cup {c.name}
        BY <2>0, <3>3 DEF Node
      <4>2. /\ obj'.wireguard = obj.wireguard /\ obj'.facts = obj.facts /\ obj'.wg = obj.wg
            /\ obj'.last = obj.last /\ obj'.gc = obj.gc /\ obj'.poked = obj.poked
        BY <2>0, <3>3 DEF Node
      <4> QED
        BY <3>2, <4>1, <4>2 DEF OwnFields
    <3> QED
      BY <2>1, <3>1, <3>3
  <2>8. CASE removeConfigSetStatus
    <3>1. obj' = [obj EXCEPT !.entries = @ \ {c.name}]
      BY <2>8 DEF removeConfigSetStatus, Write
    <3>2. c # CIdle /\ c' = CIdle
      BY <2>8 DEF removeConfigSetStatus, CIdle
    <3> QED
      BY <2>0, <3>1, <3>2 DEF Node, OwnFields
  <2>9. CASE runFileBucketGC
    BY <2>0, <2>9 DEF runFileBucketGC, Write, Node, OwnFields
  <2>10. CASE trigger
    BY <2>0, <2>10 DEF trigger, Node, OwnFields
  <2>11. CASE EditNode
    <3>1. edits' # edits
      BY <2>0, <2>11 DEF EditNode, Edited
    <3>2. \E r, w : obj' = [obj EXCEPT !.role = r] \/ obj' = [obj EXCEPT !.wireguard = w]
      BY <2>11 DEF EditNode
    <3> QED
      BY <2>0, <3>1, <3>2, ZenonT(60) DEF Node, OwnFields
  <2> QED
    BY <1>1, <2>1, <2>2, <2>3, <2>4, <2>5, <2>6, <2>7, <2>8, <2>9, <2>10, <2>11
       DEF Next, NProceed, CProceed, CTakes, env, ReconcileNode, ensureWireGuardKeySecret, NoWireGuard,
           pruneStaleConfigSetStatus, handleUpgrade, NConflict, CConflict, ConfigSetGone, CreateNode,
           ReconcileConfigSet, EditConfigSet, SecretFails, Upgrade, CacheSync, DeleteSecret,
           InterfaceUp, Restart, CFails
<1>2. NodeInv /\ [Next]_vars => [OwnFields]_vars
  BY <1>1
<1> QED
  BY <1>2, NodeInvariant, PTL DEF Spec, OwnFieldsOnly

(* The time of the last upgrade survives the migration of its annotation,    *)
(* wherever a crash or a failed write cuts the two halves apart.            *)
THEOREM LastUpgradeStays == Spec => LastUpgradeKept
<1> DEFINE Kept == obj # NoNode /\ lastUpgradeTime(obj) # Nothing => lastUpgradeTime(obj') # Nothing
<1>1. ASSUME NodeInv, Next PROVE Kept
  <2> SUFFICES ASSUME obj # NoNode PROVE Kept
    OBVIOUS
  <2>0. obj \in Node
    BY <1>1 DEF NodeInv, NodeTypeOK
  <2>1. CASE obj'.last = obj.last /\ obj'.legacy = obj.legacy
    BY <2>1 DEF lastUpgradeTime
  <2>2. CASE obj'.last # Nothing
    BY <2>2 DEF lastUpgradeTime
  <2>3. CASE migrateUpgradeAnnotation
    BY <1>1, <2>0, <2>1, <2>2, <2>3, NodeAssumption DEF migrateUpgradeAnnotation, NodeInv, Update, Write, Node
  <2>4. CASE StampUpgrade
    BY <2>0, <2>2, <2>4, NodeAssumption, SMTT(60), ZenonT(60) DEF StampUpgrade, Write, Node
  <2>5. CASE updateNodeLabels
    <3>1. obj' = obj \/ (cache = obj /\ \E r : obj' = [obj EXCEPT !.os = TRUE, !.role = r])
      BY <2>5, Zenon DEF updateNodeLabels, Update, Write
    <3> QED
      BY <2>0, <2>1, <3>1, ZenonT(60) DEF Node
  <2>6. CASE updateNodeStatus \/ PruneWrite
    <3>1. \E f, k, e : obj' = [obj EXCEPT !.facts = f, !.wg = k] \/ obj' = [obj EXCEPT !.entries = e]
      BY <2>6, Zenon DEF updateNodeStatus, PruneWrite, Write
    <3> QED
      BY <2>0, <2>1, <3>1, Zenon DEF Node
  <2>7. CASE updateConfigSetStatus \/ removeConfigSetStatus
    BY <2>0, <2>1, <2>7 DEF updateConfigSetStatus, removeConfigSetStatus, Write, Node
  <2>8. CASE runFileBucketGC \/ trigger \/ EditNode
    BY <2>0, <2>1, <2>8 DEF runFileBucketGC, trigger, EditNode, Write, Node
  <2>9. CASE obj' = obj
    BY <2>1, <2>9
  <2> HIDE DEF Kept
  <2> QED
    BY <1>1, <2>3, <2>4, <2>5, <2>6, <2>7, <2>8, <2>9
       DEF Next, NProceed, CProceed, CTakes, env, ReconcileNode, ensureWireGuardKeySecret, NoWireGuard,
           pruneStaleConfigSetStatus, handleUpgrade, NConflict, CConflict, ConfigSetGone, CreateNode,
           ReconcileConfigSet, EditConfigSet, SecretFails, Upgrade, CacheSync, DeleteSecret,
           InterfaceUp, Restart, CFails
<1>2. NodeInv /\ [Next]_vars => [Kept]_vars
  <2> HIDE DEF Kept
  <2> QED
    BY <1>1
<1> QED
  BY <1>2, NodeInvariant, PTL DEF Spec, LastUpgradeKept
=============================================================================
