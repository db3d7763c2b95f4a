------------------------------ MODULE Approval ------------------------------
(***************************************************************************)
(* Upgrades that the user of a desktop approves: the notification server of  *)
(* the daemon (internal/notification/server.go), the agents in the users'     *)
(* sessions (cmd/agent), and requestUpgradeApproval, which asks between       *)
(* UpgradeDue and LockGroup of module UpgradeGroup.                         *)
(*                                                                         *)
(* An approval request is named for the scheduled time of the upgrade: "this" *)
(* is the time at which the schedule last fired, "coming" the one at which it *)
(* fires next, and "past" any time before.  Steps in memory take no time.    *)
(***************************************************************************)
EXTENDS UpgradeGroup, Sequences

CONSTANTS
  Desktop,    \* the nodes whose daemon runs the notification server
  Session,    \* the sessions there may be at a time
  Capacity,   \* how many events the channel of a session holds
  NoEvent     \* no event, no answer

ASSUME ApprovalAssumption ==
  /\ Desktop \subseteq Caller
  /\ Capacity \in Nat \ {0}
  /\ NoEvent \notin {"approve", "deny"}

VARIABLES
  node,       \* the node that is looked at
  ask,        \* requestUpgradeApproval: where it is, its event, the time left
  pending,    \* the event in the server's map of approvals
  chan,       \* the answer in the channel of that event
  subs,       \* the server's sessions
  live,       \* the sessions whose agent is connected
  queue,      \* the channel of each session
  prompts     \* the notifications not yet answered: session and event

serverVars == <<pending, chan, subs, queue>>
agentVars == <<live, prompts>>
approvalVars == <<ask, serverVars, agentVars>>
allVars == <<vars, node, approvalVars>>

NoAsk == [at |-> "none", ev |-> NoEvent, left |-> 0]

AInit ==
  /\ Init
  /\ node \in Caller
  /\ ask = NoAsk
  /\ pending = NoEvent /\ chan = NoEvent
  /\ subs = {} /\ live = {}
  /\ queue = [s \in Session |-> <<>>]
  /\ prompts = {}

-----------------------------------------------------------------------------
(* The server.                                                             *)

(* The event goes to every session whose channel has room for it.           *)
Notify(e) ==
  queue' = [s \in Session |->
              IF s \in subs /\ Len(queue[s]) < Capacity THEN Append(queue[s], e) ELSE queue[s]]

(* A new connection has a session of its own.                               *)
Subscribe(s) ==
  /\ node \in Desktop /\ s \notin subs \cup live
  /\ subs' = subs \cup {s} /\ live' = live \cup {s}
  /\ UNCHANGED <<vars, ask, pending, chan, queue, prompts>>

(* The server learns that the agent has gone, from the stream or when it      *)
(* sends the next event.                                                   *)
Unsubscribe(s) ==
  /\ s \in subs \ live
  /\ subs' = subs \ {s}
  /\ queue' = [queue EXCEPT ![s] = <<>>]
  /\ UNCHANGED <<vars, ask, pending, chan, agentVars>>

SendNotification == Notify("note")

(* A script sends a notification.                                           *)
runNotify ==
  /\ SendNotification /\ queue' # queue
  /\ UNCHANGED <<vars, ask, pending, chan, subs, agentVars>>

(* An answer to event e is put into the channel of the pending request for e,  *)
(* unless it holds one already.  An answer that has found the channel of a    *)
(* request that ends before it gets there is lost like any that comes late.   *)
RespondToApproval(e, action) ==
  chan' = IF e = pending /\ chan = NoEvent THEN action ELSE chan

-----------------------------------------------------------------------------
(* The agents.                                                             *)

(* A request is shown with its buttons, unless the desktop fails to.         *)
notifyWithActions(s, e) == prompts' \in {prompts, prompts \cup {<<s, e>>}}

(* An agent receives an event.  What is not a request is only shown.         *)
handleEvent(s) ==
  /\ s \in subs \cap live /\ queue[s] # <<>>
  /\ queue' = [queue EXCEPT ![s] = Tail(@)]
  /\ IF Head(queue[s]) = "note" THEN UNCHANGED prompts
     ELSE notifyWithActions(s, Head(queue[s]))
  /\ UNCHANGED <<vars, ask, pending, chan, subs, live>>

(* The user presses a button, and the agent's call arrives.  A request that   *)
(* is made again is shown again, so that there may be more notifications q.   *)
Answer(q, action) ==
  /\ RespondToApproval(q[2], action)
  /\ prompts' \in {prompts, prompts \ {q}}
  /\ UNCHANGED <<vars, ask, pending, subs, queue, live>>

(* The notification is closed, its button pressed too early to be heard, or   *)
(* the agent's call fails.                                                  *)
NotificationClosed(q) ==
  /\ prompts' = prompts \ {q}
  /\ UNCHANGED <<vars, ask, serverVars, live>>

(* An agent goes, with its notifications, or with its call on the way.       *)
AgentGoes(s) ==
  /\ s \in live
  /\ live' = live \ {s}
  /\ prompts' \in {prompts, {q \in prompts : q[1] # s}}
  /\ UNCHANGED <<vars, ask, serverVars>>

-----------------------------------------------------------------------------
(* requestUpgradeApproval.                                                 *)

(* The scheduled time that handleUpgrade has found.                         *)
scheduledTime == IF phase < Forgiveness THEN "this" ELSE "coming"

(* With an agent connected, the request is registered.                       *)
WaitForApproval(n) ==
  /\ n \in Desktop /\ pc[n] = "lock" /\ ask = NoAsk /\ subs # {}
  /\ ask' = [at |-> "asked", ev |-> scheduledTime, left |-> Forgiveness]
  /\ pending' = scheduledTime /\ chan' = NoEvent
  /\ UNCHANGED <<vars, subs, queue, agentVars>>

(* Variant: the request is taken back at once, not when the call returns.    *)
NotifyAndCancel ==
  /\ ask.at = "asked"
  /\ Notify(ask.ev)
  /\ ask' = [ask EXCEPT !.at = "wait"]
  /\ pending' = NoEvent
  /\ UNCHANGED <<vars, chan, subs, agentVars>>

(* It is sent to the agents, and the wait begins.                           *)
NotifyAgents ==
  /\ ask.at = "asked"
  /\ Notify(ask.ev)
  /\ ask' = [ask EXCEPT !.at = "wait"]
  /\ UNCHANGED <<vars, pending, chan, subs, agentVars>>

(* The answer is received.                                                  *)
Answered ==
  /\ ask.at = "wait" /\ chan # NoEvent
  /\ ask' = [ask EXCEPT !.at = IF chan = "deny" THEN "refused" ELSE "approved", !.left = 0]
  /\ chan' = NoEvent
  /\ UNCHANGED <<vars, pending, subs, queue, agentVars>>

(* Variant: the deadline goes first when both have come.                     *)
DeadlineFirst ==
  /\ ask.at = "wait" /\ ask.left = 0
  /\ ask' = [ask EXCEPT !.at = "approved"]
  /\ UNCHANGED <<vars, serverVars, agentVars>>

(* Variant: the deadline counts only while an agent is connected.            *)
DeadlineWithAgent ==
  /\ ask.at = "wait" /\ ask.left = 0 /\ chan = NoEvent /\ live # {}
  /\ ask' = [ask EXCEPT !.at = "approved"]
  /\ UNCHANGED <<vars, serverVars, agentVars>>

(* The deadline passes, which approves.  An answer that comes first has been  *)
(* handed to the wait, and the deadline no longer counts.                    *)
Deadline ==
  /\ ask.at = "wait" /\ ask.left = 0 /\ chan = NoEvent
  /\ ask' = [ask EXCEPT !.at = "approved"]
  /\ UNCHANGED <<vars, serverVars, agentVars>>

CancelApproval ==
  /\ pending' = NoEvent /\ chan' = NoEvent
  /\ UNCHANGED <<subs, agentVars>>

Approved ==
  /\ ask.at = "approved"
  /\ ask' = [NoAsk EXCEPT !.at = "go"]
  /\ CancelApproval
  /\ UNCHANGED <<vars, queue>>

(* The user said no: the reconcile returns.                                  *)
Refused(n) ==
  /\ ask.at = "refused" /\ pc[n] = "lock"
  /\ Fail(n)
  /\ ask' = NoAsk
  /\ CancelApproval
  /\ UNCHANGED queue

-----------------------------------------------------------------------------
(* The upgrade around it.                                                  *)

(* Variant: the user's approval stands in for the lock.                      *)
ApprovedUnlocked(n) ==
  /\ ask.at = "go" /\ pc[n] = "lock"
  /\ Continue(n, Cordons(n))
  /\ ask' = NoAsk
  /\ UNCHANGED <<lease, phase, mn, cache, unsched, serverVars, agentVars>>

(* With the approval, the lock; the agents hear of an upgrade that starts.    *)
ApprovedLock(n) ==
  /\ ask.at = "go" /\ LockGroup(n)
  /\ ask' = NoAsk
  /\ IF pc'[n] = "idle" THEN UNCHANGED queue ELSE Notify("note")
  /\ UNCHANGED <<pending, chan, subs, agentVars>>

(* Without an agent there is no request and no upgrade; with the approval,    *)
(* the lock may not be free.                                                *)
NotLocked(n) ==
  /\ n \in Desktop /\ pc[n] = "lock"
  /\ (ask = NoAsk /\ subs = {}) \/ ask.at = "go"
  /\ Fail(n)
  /\ ask' = NoAsk
  /\ UNCHANGED <<serverVars, agentVars>>

(* The agents hear of the upgrade that is done.                              *)
ApprovedStamp(n) ==
  /\ StampUpgrade(n)
  /\ IF pc'[n] = "idle" THEN UNCHANGED queue ELSE Notify("note")
  /\ UNCHANGED <<ask, pending, chan, subs, agentVars>>

OtherRequest(n) ==
  /\ \/ UncordonPatch(n) \/ ClearCordon(n) \/ ReleaseLeftover(n) \/ UpgradeDue(n)
     \/ CordonPatch(n) \/ RecordCordon(n) \/ Drain(n) \/ Upgrade(n) \/ Reboot(n)
     \/ pc[n] # "lock" /\ Fail(n)
  /\ UNCHANGED approvalVars

(* Without a notification server nobody is asked.                            *)
Unasked(n) ==
  /\ n \notin Desktop /\ pc[n] = "lock"
  /\ LockGroup(n) \/ Fail(n)
  /\ UNCHANGED approvalVars

(* The daemon dies, and its sessions and requests with it.  The agents lose   *)
(* the connection and close their notifications; a call may reach the new     *)
(* daemon.                                                                 *)
ARestart(n) ==
  /\ Restart(n)
  /\ ask' = NoAsk
  /\ pending' = NoEvent /\ chan' = NoEvent
  /\ subs' = {} /\ live' = {} /\ queue' = [s \in Session |-> <<>>]
  /\ prompts' \in {{}, prompts}

(* When the schedule fires, the coming time is this time.                    *)
Renamed(e) ==
  CASE phase' # 0     -> e
    [] e = "coming"   -> "this"
    [] e = "this"     -> "past"
    [] OTHER          -> e

(* Nothing asks for a past time again, unless a request for it is waiting: its *)
(* notifications are as good as none, its event as any other.                *)
ATick ==
  /\ ask.at \in {"none", "wait"} /\ Tick
  /\ ask' = [ask EXCEPT !.left = IF @ = 0 THEN 0 ELSE @ - 1, !.ev = Renamed(@)]
  /\ pending' = Renamed(pending)
  /\ LET Known(e) == e # "past" \/ pending' = "past" IN
       /\ queue' = [s \in Session |-> [i \in DOMAIN queue[s] |->
                      IF Known(Renamed(queue[s][i])) THEN Renamed(queue[s][i]) ELSE "note"]]
       /\ prompts' = {q \in {<<q[1], Renamed(q[2])>> : q \in prompts} : Known(q[2])}
  /\ UNCHANGED <<chan, subs, live>>

AProceed(n) ==
  \/ WaitForApproval(n) \/ NotifyAgents \/ Answered \/ Deadline \/ Approved
  \/ Refused(n) \/ ApprovedLock(n) \/ NotLocked(n) \/ ApprovedStamp(n)
  \/ Unasked(n) \/ OtherRequest(n)

AReconcile(n) == Reconcile(n) /\ UNCHANGED approvalVars

ACacheSync(n) == CacheSync(n) /\ UNCHANGED approvalVars

ANext ==
  /\ \/ AReconcile(node) \/ AProceed(node) \/ ACacheSync(node) \/ ARestart(node) \/ ATick
     \/ \E s \in Session :
          Subscribe(s) \/ Unsubscribe(s) \/ handleEvent(s) \/ AgentGoes(s)
     \/ \E q \in prompts : NotificationClosed(q) \/ \E a \in {"approve", "deny"} : Answer(q, a)
     \/ runNotify
  /\ UNCHANGED node

ASpec == AInit /\ [][ANext]_allVars

(* The whole group: beside the node that is looked at, the others upgrade.   *)
OtherNode(m) ==
  /\ Reconcile(m) \/ Proceed(m) \/ CacheSync(m) \/ Restart(m)
  /\ UNCHANGED <<node, approvalVars>>

GroupNext == ANext \/ \E m \in Caller \ {node} : OtherNode(m)

GroupSpec == AInit /\ [][GroupNext]_allVars

(***************************************************************************)
(* As in UpgradeGroup; and time passes.  Of the agents and their users       *)
(* nothing is assumed.                                                     *)
(***************************************************************************)
AFairness ==
  /\ WF_allVars(AProceed(node) /\ UNCHANGED node)
  /\ SF_allVars(AReconcile(node) /\ UNCHANGED node)
  /\ WF_allVars(ACacheSync(node) /\ UNCHANGED node)
  /\ SF_allVars(UncordonPatch(node) /\ UNCHANGED <<approvalVars, node>>)
  /\ WF_allVars(ATick /\ UNCHANGED node)

AFairSpec == ASpec /\ AFairness

-----------------------------------------------------------------------------
(* Properties.                                                             *)

Waiting == ask.at \in {"asked", "wait"}

(***************************************************************************)
(* A denial that the server accepts while the request waits is final: however *)
(* close the deadline, and whatever other agents answer, the upgrade does    *)
(* not begin (server.go:139-160, managednode_controller.go:676-697).         *)
(***************************************************************************)
DenialHonoured ==
  [][(Waiting /\ chan = "deny") \/ ask.at = "refused"
       => ask'.at \notin {"approved", "go"} /\ ~Upgrading(node)']_allVars

(***************************************************************************)
(* While a request waits, no answer to it is turned away as unknown: neither  *)
(* one that comes before all agents have been asked, nor one from an earlier  *)
(* request for the same time (server.go:141-149,                            *)
(* managednode_controller.go:656-659).                                     *)
(***************************************************************************)
AnswerIsKnown ==
  \A q \in prompts : Waiting /\ q[2] = ask.ev => pending = q[2]

(***************************************************************************)
(* A request is decided although its event may have been dropped, its agents *)
(* have gone, or nobody answers: the reconcile does not wait for ever         *)
(* (server.go:185-191, managednode_controller.go:673-697).                  *)
(***************************************************************************)
RequestDecided == Waiting ~> ~Waiting

(***************************************************************************)
(* Asking the user changes when upgrades happen and nothing else: whatever    *)
(* agents, users and events do, the daemon does what it may do without a      *)
(* notification server, so that all that holds of UpgradeGroup still holds    *)
(* (managednode_controller.go:532-548).                                     *)
(***************************************************************************)
ImplementsUpgradeGroup == Spec
=============================================================================
