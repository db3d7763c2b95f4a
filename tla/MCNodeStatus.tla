---------------------------- MODULE MCNodeStatus ----------------------------
(***************************************************************************)
(* Scenarios for NodeStatus.  What has happened already in a scenario's       *)
(* first object (garbage collection, SIGHUP, labels) does not happen in it.   *)
(***************************************************************************)
EXTENDS NodeStatus

CONSTANTS a, b, web, db

Quiet == [Blank EXCEPT !.os = TRUE, !.role = web, !.facts = 1, !.gc = TRUE, !.poked = TRUE]

(* A host that starts for the first time; the operator labels it.           *)
Fresh == [obj |-> NoNode, wants |-> (a :> web @@ b :> db), edits |-> {"node", "restart"}]

(* ConfigSets come, go and change under a node whose copies lag.            *)
Entries == [obj |-> [Quiet EXCEPT !.poked = FALSE], wants |-> (a :> web @@ b :> web),
            edits |-> {"configset", "restart"}]

(* A node with WireGuard, whose Secret is deleted, or cannot be created.     *)
Keys == [obj |-> [Quiet EXCEPT !.wireguard = TRUE, !.gc = FALSE],
         wants |-> (a :> web @@ b :> Nothing), edits |-> {"node", "secret", "restart"}]

(* A node of a version that kept the last upgrade in an annotation.         *)
Legacy == [obj |-> [Quiet EXCEPT !.legacy = TRUE, !.gc = FALSE, !.poked = FALSE],
           wants |-> (a :> web @@ b :> Nothing), edits |-> {"upgrade", "restart"}]

MCMenu == {Fresh, Entries, Keys, Legacy}
=============================================================================
