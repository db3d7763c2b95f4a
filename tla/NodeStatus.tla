----------------------------- MODULE NodeStatus -----------------------------
(***************************************************************************)
(* The ManagedNode of one host and everything that writes it: the            *)
(* ManagedNode reconciler (labels, facts, WireGuard key, pruning, migration  *)
(* of the annotations of old versions, the time of the last upgrade), the     *)
(* ConfigSet reconciler (creation of the object, entries of status.          *)
(* configsets), the garbage collection of the file bucket, the SIGHUP        *)
(* trigger, and the operator.                                               *)
(*                                                                         *)
(* All of them read the object through one informer cache, which lags, and    *)
(* update a copy of what they read; the API server rejects an update whose    *)
(* copy is not current.  A write is retried on a fresh copy from the cache,   *)
(* and given up after a few attempts.                                       *)
(***************************************************************************)
EXTENDS Admission, Naturals

CONSTANTS
  Hostname,     \* the name of the host and of its ManagedNode
  Name,         \* names of ConfigSets
  Role,         \* values of the label that ConfigSets select nodes by
  Key,          \* WireGuard keys, each generated at most once
  NoNode,       \* there is no ManagedNode
  Nothing,      \* a value that is not set
  Menu,         \* scenarios: the first object, the ConfigSets, and who interferes
  EditBound     \* how often operator and host change something, or a call fails

VARIABLES
  menu,      \* the scenario of this behaviour
  obj,       \* the ManagedNode, as the API server has it
  cache,     \* as the informer cache has it
  wants,     \* the role each ConfigSet selects, Nothing when it does not exist
  gone,      \* deleted ConfigSets whose event the reconciler has yet to handle
  secret,    \* the key in the WireGuard Secret
  stored,    \* the keys that have ever been in it
  host,      \* the release of the host and the key of its running interface
  n,         \* the ManagedNode reconcile in progress
  c,         \* the ConfigSet reconcile in progress
  edits      \* edits so far

vars == <<menu, obj, cache, wants, gone, secret, stored, host, n, c, edits>>

(***************************************************************************)
(* os is the default labels as a whole, facts what updateNodeStatus collects *)
(* as a whole, legacy the annotation upgrade.nodemanager/last.              *)
(***************************************************************************)
Node == [wireguard : BOOLEAN, os : BOOLEAN, role : Role \cup {Nothing},
         entries : SUBSET Name, facts : 0..2, wg : Key \cup {Nothing},
         legacy : BOOLEAN, last : {Nothing, "legacy", "upgrade"},
         gc : BOOLEAN, poked : BOOLEAN]

Blank == [wireguard |-> FALSE, os |-> FALSE, role |-> Nothing, entries |-> {},
          facts |-> 0, wg |-> Nothing, legacy |-> FALSE, last |-> Nothing,
          gc |-> FALSE, poked |-> FALSE]

(* No scenario begins with a key that no Secret has held.                   *)
ASSUME NodeAssumption ==
  /\ NoNode \notin Node
  /\ Nothing \notin {"legacy", "upgrade"}
  /\ EditBound \in Nat
  /\ \A m \in Menu :
       /\ m.obj \in Node \cup {NoNode} /\ (m.obj # NoNode => m.obj.wg = Nothing)
       /\ m.wants \in [Name -> Role \cup {Nothing}]

NSteps == {"labels", "secret", "status", "prune", "prune write", "migrate",
           "unannotate", "refresh", "upgrade", "stamp"}
WriteSteps == {"labels", "status", "prune write", "migrate", "unannotate", "stamp"}

NIdle == [at |-> "idle", node |-> Blank, facts |-> 0, wg |-> Nothing, matching |-> {}]
CIdle == [at |-> "idle", name |-> Nothing]

NodeTypeOK ==
  /\ obj \in Node \cup {NoNode}
  /\ cache \in Node \cup {NoNode}
  /\ obj = NoNode => cache = NoNode
  /\ wants \in [Name -> Role \cup {Nothing}]
  /\ \A x \in gone : x \in Name /\ wants[x] = Nothing
  /\ stored \subseteq Key /\ secret \in stored \cup {Nothing}
  /\ host \in [release : 1..2, live : stored \cup {Nothing}]
  /\ n.at \in NSteps \cup {"idle"} /\ n.node \in Node
  /\ n.at = "idle" => n = NIdle
  /\ c.at \in {"idle", "report", "remove"} /\ (c.at = "idle" <=> c = CIdle)
  /\ edits \in 0..EditBound

Init ==
  /\ menu \in Menu
  /\ obj = menu.obj /\ cache = obj
  /\ wants = menu.wants
  /\ gone = {}
  /\ secret = Nothing /\ stored = {}
  /\ host = [release |-> 1, live |-> Nothing]
  /\ n = NIdle /\ c = CIdle
  /\ edits = 0

env == <<menu, wants, gone, secret, stored, host, edits>>

(* Something goes wrong, or the operator or the host changes something.      *)
Edited(kind) == kind \in menu.edits /\ edits < EditBound /\ edits' = edits + 1 /\ UNCHANGED menu

(* Variant: the update does not carry the resourceVersion of the copy.      *)
WriteBlindly(new) ==
  /\ cache # NoNode
  /\ obj' = new

(* An update of a copy the cache returned succeeds if the copy is current.   *)
Write(new) ==
  /\ cache # NoNode /\ cache = obj
  /\ obj' = new

(* One of the object itself, not of its status, also has to pass the         *)
(* webhook.                                                                *)
Update(new) ==
  /\ Write(new)
  /\ Handle([operation |-> "UPDATE", host |-> Hostname, resource |-> "managednodes",
             name |-> Hostname, old |-> obj.wireguard, new |-> new.wireguard]) = Allowed

(* nodeLabelMatch of the labels of a copy of the node and the ConfigSet x.    *)
Matches(node, x) == wants[x] # Nothing /\ wants[x] = node.role

Goto(step) == n' = [n EXCEPT !.at = step]

-----------------------------------------------------------------------------
(* The ManagedNode reconciler.                                             *)

(* Variant: the object is used although it was not found.                   *)
ReconcileUnfound ==
  /\ n = NIdle
  /\ n' = [NIdle EXCEPT !.at = "labels", !.node = cache]
  /\ UNCHANGED <<obj, cache, env, c>>

(* util.GetNode; there is nothing to do without an object.  The copy keeps   *)
(* only the fields that the reconcile has yet to use.                       *)
ReconcileNode ==
  /\ n = NIdle /\ cache # NoNode
  /\ n' = [NIdle EXCEPT !.at = "labels", !.node = [cache EXCEPT !.gc = FALSE, !.poked = FALSE]]
  /\ UNCHANGED <<obj, cache, env, c>>

(* Missing default labels are set, with all labels of the copy read first.   *)
updateNodeLabels ==
  /\ n.at = "labels"
  /\ IF n.node.os THEN UNCHANGED obj
     ELSE Update([cache EXCEPT !.os = TRUE,
                   !.role = IF n.node.role = Nothing THEN @ ELSE n.node.role])
  /\ Goto("secret")
  /\ UNCHANGED <<cache, env, c>>

mergeBootstrappedWireGuardKey(live, key) == IF live # Nothing THEN live ELSE key

(* The facts and the key to publish are at hand; they are written only if    *)
(* they differ from the copy read first.                                   *)
Collected(key) ==
  LET wg == mergeBootstrappedWireGuardKey(host.live, key)
      kept == [Blank EXCEPT !.role = n.node.role, !.entries = n.node.entries,
                            !.last = n.node.last, !.legacy = n.node.legacy]
  IN  n' = IF n.node.facts = host.release /\ n.node.wg = wg
           THEN [n EXCEPT !.at = "prune", !.node = kept]
           ELSE [n EXCEPT !.at = "status", !.node = kept, !.facts = host.release, !.wg = wg]

(* Variant: the generated key is used although the Secret was not created.   *)
PublishUnstored ==
  /\ n.at = "secret" /\ n.node.wireguard
  /\ secret = Nothing
  /\ \E k \in Key \ stored : Collected(k)
  /\ UNCHANGED <<obj, cache, env, c>>

(* The key of the Secret, created if there is none; no key if that fails.    *)
ensureWireGuardKeySecret ==
  /\ n.at = "secret" /\ n.node.wireguard
  /\ \/ secret # Nothing /\ Collected(secret) /\ UNCHANGED <<secret, stored>>
     \/ /\ secret = Nothing
        /\ \E k \in Key \ stored :
             secret' = k /\ stored' = stored \cup {k} /\ Collected(k)
  /\ UNCHANGED <<menu, obj, cache, wants, gone, host, edits, c>>

(* A failure of that is logged, and no key is added to the live data.       *)
SecretFails ==
  /\ n.at = "secret" /\ n.node.wireguard
  /\ Edited("secret")
  /\ Collected(Nothing)
  /\ UNCHANGED <<obj, cache, wants, gone, secret, stored, host, c>>

NoWireGuard ==
  /\ n.at = "secret" /\ ~n.node.wireguard
  /\ Collected(Nothing)
  /\ UNCHANGED <<obj, cache, env, c>>

updateNodeStatus ==
  /\ n.at = "status"
  /\ Write([cache EXCEPT !.facts = n.facts, !.wg = n.wg])
  /\ n' = [n EXCEPT !.at = "prune", !.facts = 0, !.wg = Nothing]
  /\ UNCHANGED <<cache, env, c>>

(* Variant: nothing is pruned.                                             *)
NeverPrune ==
  /\ n.at = "prune"
  /\ Goto("migrate")
  /\ UNCHANGED <<obj, cache, env, c>>

(* The ConfigSets that match the copy read first are kept.                  *)
pruneStaleConfigSetStatus ==
  /\ n.at = "prune"
  /\ LET matching == {x \in Name : Matches(n.node, x)}
         kept     == [n EXCEPT !.node.role = Nothing, !.node.entries = {}]
     IN  n' = IF n.node.entries \subseteq matching
              THEN [kept EXCEPT !.at = "migrate"]
              ELSE [kept EXCEPT !.at = "prune write", !.matching = matching]
  /\ UNCHANGED <<obj, cache, env, c>>

PruneWrite ==
  /\ n.at = "prune write"
  /\ Write([cache EXCEPT !.entries = @ \cap n.matching])
  /\ n' = [n EXCEPT !.at = "migrate", !.matching = {}]
  /\ UNCHANGED <<cache, env, c>>

(* Variant: the annotation is removed before the status field is written.    *)
MigrateLate ==
  /\ \/ /\ n.at = "migrate" /\ ~(n.node.last = Nothing /\ n.node.legacy)
        /\ n' = [NIdle EXCEPT !.at = "upgrade"] /\ UNCHANGED obj
     \/ /\ n.at = "migrate" /\ n.node.last = Nothing /\ n.node.legacy
        /\ Update([cache EXCEPT !.legacy = FALSE])
        /\ n' = [NIdle EXCEPT !.at = "unannotate"]
     \/ /\ n.at = "unannotate"
        /\ Write([cache EXCEPT !.last = "legacy"])
        /\ Goto("refresh")
     \/ /\ n.at = "refresh" /\ UNCHANGED obj
        /\ n' = [NIdle EXCEPT !.at = "upgrade"]
  /\ UNCHANGED <<cache, env, c>>

(* The annotation's time goes to the status, then the annotation goes, then  *)
(* the copy is read again.                                                 *)
migrateUpgradeAnnotation ==
  /\ \/ /\ n.at = "migrate" /\ ~(n.node.last = Nothing /\ n.node.legacy)
        /\ n' = [NIdle EXCEPT !.at = "upgrade"] /\ UNCHANGED obj
     \/ /\ n.at = "migrate" /\ n.node.last = Nothing /\ n.node.legacy
        /\ Write([cache EXCEPT !.last = "legacy"])
        /\ n' = [NIdle EXCEPT !.at = "unannotate"]
     \/ /\ n.at = "unannotate"
        /\ Update([cache EXCEPT !.legacy = FALSE])
        /\ Goto("refresh")
     \/ /\ n.at = "refresh" /\ UNCHANGED obj
        /\ n' = [NIdle EXCEPT !.at = "upgrade"]
  /\ UNCHANGED <<cache, env, c>>

lastUpgradeTime(node) ==
  IF node.last # Nothing THEN node.last ELSE IF node.legacy THEN "legacy" ELSE Nothing

(* No upgrade is due: one happened within the delay, or none is scheduled.   *)
handleUpgrade ==
  /\ n.at = "upgrade"
  /\ n' = NIdle
  /\ UNCHANGED <<obj, cache, env, c>>

(* The host is upgraded, to a new release or not.                          *)
Upgrade ==
  /\ n.at = "upgrade" /\ Edited("upgrade")
  /\ \E r \in 1..2 : host' = [host EXCEPT !.release = r]
  /\ Goto("stamp")
  /\ UNCHANGED <<obj, cache, wants, gone, secret, stored, c>>

StampUpgrade ==
  /\ n.at = "stamp"
  /\ Write([cache EXCEPT !.last = "upgrade"])
  /\ n' = NIdle
  /\ UNCHANGED <<cache, env, c>>

(* The retries of a write are used up while the cache lags.                 *)
NConflict ==
  /\ n.at \in WriteSteps /\ cache # obj
  /\ n' = NIdle
  /\ UNCHANGED <<obj, cache, env, c>>

-----------------------------------------------------------------------------
(* The ConfigSet reconciler, as far as it writes the ManagedNode.           *)

(* removeConfigSetStatus writes only if the cache has the entry.            *)
RemoveEntry(x) ==
  c' = IF cache # NoNode /\ x \in cache.entries THEN [at |-> "remove", name |-> x] ELSE CIdle

ConfigSetGone(x) ==
  /\ c = CIdle /\ x \in gone
  /\ gone' = gone \ {x}
  /\ RemoveEntry(x)
  /\ UNCHANGED <<menu, obj, cache, wants, secret, stored, host, edits, n>>

(* createOrGetNode: the node is created when the cache has none, which fails *)
(* if there is one by now; a new node has no labels and matches nothing.    *)
CreateNode(x) ==
  /\ c = CIdle /\ wants[x] # Nothing
  /\ cache = NoNode /\ obj = NoNode
  /\ obj' = Blank
  /\ UNCHANGED <<cache, env, n, c>>

ReconcileConfigSet(x) ==
  /\ c = CIdle /\ wants[x] # Nothing /\ cache # NoNode
  /\ IF Matches(cache, x) THEN c' = [at |-> "report", name |-> x] ELSE RemoveEntry(x)
  /\ UNCHANGED <<obj, cache, env, n>>

(* The ConfigSet is applied.  Its entry is written unless the cache has it.  *)
updateConfigSetStatus ==
  /\ c.at = "report"
  /\ IF c.name \in cache.entries THEN UNCHANGED obj
     ELSE Write([cache EXCEPT !.entries = @ \cup {c.name}])
  /\ c' = CIdle
  /\ UNCHANGED <<cache, env, n>>

removeConfigSetStatus ==
  /\ c.at = "remove"
  /\ Write([cache EXCEPT !.entries = @ \ {c.name}])
  /\ c' = CIdle
  /\ UNCHANGED <<cache, env, n>>

CConflict ==
  /\ c # CIdle /\ cache # obj
  /\ c' = CIdle
  /\ UNCHANGED <<obj, cache, env, n>>

-----------------------------------------------------------------------------
(* Other writers, and the environment.                                      *)

(* runFileBucketGC, run when the stamp is missing, and updateLastGCTimestamp. *)
runFileBucketGC ==
  /\ cache # NoNode /\ ~cache.gc
  /\ Write([cache EXCEPT !.gc = TRUE])
  /\ UNCHANGED <<cache, env, n, c>>

(* SIGHUP patches an annotation of its own, whatever the cache lacks.        *)
trigger ==
  /\ cache # NoNode /\ ~obj.poked
  /\ obj' = [obj EXCEPT !.poked = TRUE]
  /\ UNCHANGED <<cache, env, n, c>>

CacheSync ==
  /\ cache # obj
  /\ cache' = obj
  /\ UNCHANGED <<obj, env, n, c>>

(* The operator labels the node or turns WireGuard on or off.               *)
EditNode ==
  /\ Edited("node") /\ obj # NoNode
  /\ \/ \E r \in Role \ {obj.role} : obj' = [obj EXCEPT !.role = r]
     \/ obj' = [obj EXCEPT !.wireguard = ~@]
  /\ UNCHANGED <<cache, wants, gone, secret, stored, host, n, c>>

EditConfigSet(x) ==
  /\ Edited("configset")
  /\ \E r \in (Role \cup {Nothing}) \ {wants[x]} :
       /\ wants' = [wants EXCEPT ![x] = r]
       /\ gone' = IF r = Nothing THEN gone \cup {x} ELSE gone \ {x}
  /\ UNCHANGED <<obj, cache, secret, stored, host, n, c>>

DeleteSecret ==
  /\ Edited("secret") /\ secret # Nothing
  /\ secret' = Nothing
  /\ UNCHANGED <<obj, cache, wants, gone, stored, host, n, c>>

(* The WireGuard interface is brought up with the key of the Secret.        *)
InterfaceUp ==
  /\ Edited("secret") /\ secret # Nothing /\ host.live = Nothing
  /\ host' = [host EXCEPT !.live = secret]
  /\ UNCHANGED <<obj, cache, wants, gone, secret, stored, n, c>>

(* The agent restarts, or an API call of a reconcile fails for good.         *)
Restart ==
  /\ Edited("restart") /\ (n # NIdle \/ c # CIdle)
  /\ n' = NIdle /\ c' \in {c, CIdle}
  /\ UNCHANGED <<obj, cache, wants, gone, secret, stored, host>>

CFails ==
  /\ Edited("restart") /\ c # CIdle
  /\ c' = CIdle
  /\ UNCHANGED <<obj, cache, wants, gone, secret, stored, host, n>>

NProceed ==
  \/ ReconcileNode \/ updateNodeLabels \/ ensureWireGuardKeySecret \/ NoWireGuard
  \/ updateNodeStatus \/ pruneStaleConfigSetStatus \/ PruneWrite
  \/ migrateUpgradeAnnotation \/ handleUpgrade \/ StampUpgrade \/ NConflict

CProceed == updateConfigSetStatus \/ removeConfigSetStatus \/ CConflict

CTakes(x) == ConfigSetGone(x) \/ CreateNode(x) \/ ReconcileConfigSet(x)

Next ==
  \/ NProceed \/ CProceed
  \/ \E x \in Name : CTakes(x) \/ EditConfigSet(x)
  \/ SecretFails \/ Upgrade \/ runFileBucketGC \/ trigger \/ CacheSync
  \/ EditNode \/ DeleteSecret \/ InterfaceUp \/ Restart \/ CFails

(***************************************************************************)
(* Events, failed reconciles and the periodic resync keep requeueing the     *)
(* node and every ConfigSet, the queue serves each in turn, and the watch     *)
(* delivers.                                                               *)
(***************************************************************************)
Fairness ==
  /\ WF_vars(NProceed) /\ WF_vars(CProceed) /\ WF_vars(CacheSync)
  /\ \A x \in Name : SF_vars(CTakes(x))

Spec == Init /\ [][Next]_vars
FairSpec == Spec /\ Fairness

-----------------------------------------------------------------------------
(***************************************************************************)
(* Every writer changes only its own fields, although each writes back a     *)
(* whole object it read earlier: the spec is the operator's, entries change   *)
(* one at a time or by a prune, facts and key by updateNodeStatus, the last   *)
(* upgrade by an upgrade or the migration.                                 *)
(***************************************************************************)
OwnFields ==
  obj # NoNode =>
      /\ obj'.wireguard # obj.wireguard => edits' # edits
      /\ obj'.entries # obj.entries =>
           (n.at = "prune write" /\ n'.at = "migrate") \/ (c # CIdle /\ c' = CIdle)
      /\ \A x \in Name : (x \in obj'.entries /\ x \notin obj.entries) => c.name = x
      /\ <<obj'.facts, obj'.wg>> # <<obj.facts, obj.wg>> => n.at = "status" /\ n'.at = "prune"
      /\ obj'.last # obj.last => n.at \in {"migrate", "stamp"} /\ n'.at # n.at
      /\ obj.gc => obj'.gc
      /\ obj.poked => obj'.poked

(* Every step of every writer, of the operator and of the host obeys it.    *)
OwnFieldsOnly == [][OwnFields]_vars

(***************************************************************************)
(* A node that once knew when it was last upgraded never forgets it: a       *)
(* reconcile, crash or failed write between the two halves of the migration   *)
(* never leaves both the annotation and the status field empty, which would   *)
(* mean a spurious upgrade and reboot.                                     *)
(***************************************************************************)
LastUpgradeKept ==
  [][obj # NoNode /\ lastUpgradeTime(obj) # Nothing => lastUpgradeTime(obj') # Nothing]_vars

(***************************************************************************)
(* A public key in the status, or in any copy on its way there, belongs to a *)
(* private key that a Secret held: peers are never given a key nobody has,    *)
(* even if creating the Secret failed.                                     *)
(***************************************************************************)
KeyPublishedIsStored ==
  /\ n.wg \in stored \cup {Nothing}
  /\ obj # NoNode => obj.wg \in stored \cup {Nothing}

Settled ==
  IF obj = NoNode THEN \A x \in Name : wants[x] = Nothing
  ELSE /\ obj.os
       /\ obj.entries = {x \in Name : Matches(obj, x)}
       /\ obj.facts = host.release
       /\ obj.wg = mergeBootstrappedWireGuardKey(host.live,
                     IF obj.wireguard THEN secret ELSE Nothing)
       /\ obj.wireguard => secret # Nothing
       /\ ~(obj.legacy /\ obj.last = Nothing)

(***************************************************************************)
(* Once operator and host leave the node alone, its status ends up right and *)
(* stays so: entries of exactly the ConfigSets that match, although the event *)
(* of a deletion is handled only once and its cleanup may fail; the current   *)
(* facts; the key of the Secret; the migration done.                        *)
(***************************************************************************)
NodeSettles == <>[]Settled
=============================================================================
