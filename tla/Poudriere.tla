------------------------------ MODULE Poudriere ------------------------------
(***************************************************************************)
(* The package builder of a FreeBSD host: the Poudriere reconciler           *)
(* (internal/controller/freebsd/poudriere_controller.go) makes the ports     *)
(* trees and build jails that objects ask for, then runs the bulk builds.    *)
(***************************************************************************)
EXTENDS Labels, Sequences, SequencesExt

CONSTANTS
  BuildLabel,    \* the label poudriere.freebsd.nodemanager/build
  Bulk,          \* the PoudriereBulks there may be: a tree, a jail and ports
  PoudriereEdits \* how often objects change or commands fail

VARIABLES
  label,         \* the labels of the node
  want,          \* the objects: trees, the versions of jails, bulks
  made,          \* the trees and build jails of the host
  asked,         \* the builds that were started
  p,             \* the reconcile in progress
  pedits

pvars == <<label, want, made, asked, p, pedits>>

NoJails == [x \in {} |-> ""]

(* The reconcile: the objects that are left in the loop it is in, and the     *)
(* trees and jails that were listed.                                       *)
PIdle == [at |-> "idle", todo |-> {}, trees |-> {}, jails |-> NoJails]

PInit(labels, objects) ==
  /\ label = labels
  /\ want = objects
  /\ made = [trees |-> {}, jails |-> NoJails]
  /\ asked = {}
  /\ p = PIdle
  /\ pedits = 0

PEdit == pedits < PoudriereEdits /\ pedits' = pedits + 1

(* Bail out, as the code says, of a node that is disabled, and of one without *)
(* the label.  NoneMatch holds when nothing matches, so that the first test   *)
(* lets only nodes pass that have the label with the value "disabled".       *)
Gate ==
  /\ ~LabelGate("NoneMatch", label, [k \in {BuildLabel} |-> "disabled"])
  /\ LabelGate("AnyKey", label, [k \in {BuildLabel} |-> ""])

(* A bulk is reconciled.  The trees are listed.                             *)
ReconcileBulk ==
  /\ p = PIdle /\ want.bulks # {} /\ Gate
  /\ p' = [PIdle EXCEPT !.at = "trees", !.todo = want.trees, !.trees = want.trees]
  /\ UNCHANGED <<label, want, made, asked, pedits>>

(* Variant: a tree that cannot be created is passed over.                   *)
SkipTree(t) ==
  /\ p.at = "trees" /\ t \in p.todo
  /\ made' \in {made, [made EXCEPT !.trees = @ \cup {t}]}
  /\ p' = [p EXCEPT !.todo = @ \ {t}]
  /\ UNCHANGED <<label, want, asked, pedits>>

(* A tree that exists is left as it is.                                     *)
ensureTree(t) ==
  /\ p.at = "trees" /\ t \in p.todo
  /\ made' = [made EXCEPT !.trees = @ \cup {t}]
  /\ p' = [p EXCEPT !.todo = @ \ {t}]
  /\ UNCHANGED <<label, want, asked, pedits>>

ListJails ==
  /\ p.at = "trees" /\ p.todo = {}
  /\ p' = [p EXCEPT !.at = "jails", !.todo = DOMAIN want.jails, !.jails = want.jails]
  /\ UNCHANGED <<label, want, made, asked, pedits>>

(* A build jail that exists keeps its version; one that does not is created  *)
(* with the version of the object that was listed.                         *)
ensureJail(j) ==
  /\ p.at = "jails" /\ j \in p.todo
  /\ made' = [made EXCEPT !.jails =
                IF j \in DOMAIN @ THEN @
                ELSE [x \in DOMAIN @ \cup {j} |-> IF x = j THEN p.jails[j] ELSE @[x]]]
  /\ p' = [p EXCEPT !.todo = @ \ {j}]
  /\ UNCHANGED <<label, want, asked, pedits>>

(* portshaker runs, after the bulks were listed.                            *)
Sync ==
  /\ p.at = "jails" /\ p.todo = {}
  /\ p' = [p EXCEPT !.at = "build", !.todo = want.bulks]
  /\ UNCHANGED <<label, want, made, asked, pedits>>

(* The command has the option -j twice, for the jail and for "2", and the    *)
(* ports joined without a separator.  A build that fails is passed over.     *)
Build(b) ==
  /\ p.at = "build" /\ b \in p.todo
  /\ asked' = asked \cup {[p |-> b.tree, j |-> <<b.jail, "2">>, ports |-> FlattenSeq(b.ports)]}
  /\ p' = [p EXCEPT !.todo = @ \ {b}]
  /\ UNCHANGED <<label, want, made, pedits>>

BuildsDone ==
  /\ p.at = "build" /\ p.todo = {}
  /\ p' = PIdle
  /\ UNCHANGED <<label, want, made, asked, pedits>>

(* A command fails, or the agent crashes: the reconcile ends.               *)
PFail ==
  /\ p # PIdle /\ PEdit
  /\ p' = PIdle
  /\ UNCHANGED <<label, want, made, asked>>

(* The operator adds or removes a tree or a bulk, or changes the version of   *)
(* the build jails: it matters only to a node that passes the gate.          *)
PoudriereEdit(trees, versions) ==
  /\ Gate /\ PEdit
  /\ \/ \E t \in trees : want' = [want EXCEPT !.trees = IF t \in @ THEN @ \ {t} ELSE @ \cup {t}]
     \/ \E b \in Bulk : want' = [want EXCEPT !.bulks = IF b \in @ THEN @ \ {b} ELSE @ \cup {b}]
     \/ \E v \in versions : want' = [want EXCEPT !.jails = [x \in DOMAIN @ |-> v]]
  /\ UNCHANGED <<label, made, asked, p>>

PNext(trees, versions) ==
  \/ ReconcileBulk \/ ListJails \/ Sync \/ BuildsDone \/ PFail
  \/ \E t \in p.todo : ensureTree(t)
  \/ \E j \in p.todo : ensureJail(j)
  \/ \E b \in p.todo : Build(b)
  \/ PoudriereEdit(trees, versions)

(***************************************************************************)
(* When builds run, every tree and every build jail that was listed before    *)
(* exists, although objects come and go and commands fail in between: a       *)
(* failed command ends the reconcile.                                      *)
(***************************************************************************)
PreparedBeforeBuild ==
  p.at = "build" => p.trees \subseteq made.trees /\ DOMAIN p.jails \subseteq DOMAIN made.jails
=============================================================================
