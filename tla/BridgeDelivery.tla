--------------------------- MODULE BridgeDelivery ---------------------------
(***************************************************************************)
(* Delivery of the pending bridge messages of one agent.                   *)
(*                                                                         *)
(* Deliverers (the detached bridge worker, and every send_message call,    *)
(* which attempts delivery at once) push a message into a turn of the      *)
(* agent's app server under a delivery claim, or else type a nudge into    *)
(* its tmux pane under a notification claim.  Readers are the agent's own  *)
(* receive_messages calls, which return what is pending and not claimed.   *)
(* All of them share bridge.jsonl, which has no lock, and the claim files. *)
(*                                                                         *)
(* A file-system call or an append is one step.  The journal is kept as    *)
(* the state pendingFromEvents derives: the first resolution of a message  *)
(* counts, later ones change nothing.                                      *)
(***************************************************************************)
EXTENDS Naturals, FiniteSets

CONSTANTS Messages,     \* message ids
          Deliverers,   \* processes that deliver
          Readers,      \* receive_messages calls of the agent
          Inbox,        \* the key of the agent's notification claim
          Nobody,       \* "no process", "no message"
          AppServer,    \* values hasCodexRemote may have when it is read
          Ttl,          \* messages that carry a ttl
          Slow,         \* TRUE: a turn may be accepted after more than 60 s
          MaxFaults     \* bound: crashes and lost replies of a behaviour

ASSUME DeliveryConstants ==
  /\ Inbox \notin Messages /\ Nobody \notin Messages \cup Deliverers \cup {Inbox}
  /\ AppServer \subseteq BOOLEAN /\ Slow \in BOOLEAN
  /\ Ttl \subseteq Messages
  /\ MaxFaults \in Nat

VARIABLES ledger,    \* state of each message in bridge.jsonl
          due,       \* messages whose ttl has passed
          notified,  \* messages announced in the last 30 s
          claim,     \* the claim file of each message and of the inbox
          dl,        \* local state of each deliverer
          rd,        \* local state of each reader
          nudged,    \* the agent has a nudge to act on
          injected,  \* turns of the app server that carry the message
          polled,    \* receive_messages results that carry the message
          dropped,   \* messages whose reader died after it settled them
          faults     \* faults so far

outcome == <<injected, polled, dropped>>

vars == <<ledger, due, notified, claim, dl, rd, nudged, outcome, faults>>

NoClaim == [exists |-> FALSE, owner |-> Nobody, old |-> FALSE]
ClaimOf(d) == [exists |-> TRUE, owner |-> d, old |-> FALSE]

Idle == [pc |-> "idle", msg |-> Nobody, key |-> Nobody, retried |-> FALSE,
         batch |-> {}]
Resting == [pc |-> "idle", todo |-> {}, keep |-> {}, batch |-> {}]

Pending == {m \in Messages : ledger[m] = "pending" /\ m \notin due}

\* readPendingBridgeMessages appends "expired" for what is past its ttl.
ReadPending ==
  ledger' = [m \in Messages |-> IF ledger[m] = "pending" /\ m \in due
                                  THEN "expired" ELSE ledger[m]]

\* acknowledgeBridgeDelivery; a settled message stays as it is.
Acknowledge(m) ==
  ledger' = IF ledger[m] = "pending" THEN [ledger EXCEPT ![m] = "delivered"]
                                     ELSE ledger

Go(d, label) == dl' = [dl EXCEPT ![d].pc = label]

Init == /\ ledger = [m \in Messages |-> "absent"]
        /\ due = {} /\ notified = {} /\ dropped = {}
        /\ nudged = FALSE /\ faults = 0
        /\ claim = [k \in Messages \cup {Inbox} |-> NoClaim]
        /\ dl = [d \in Deliverers |-> Idle]
        /\ rd = [r \in Readers |-> Resting]
        /\ injected = [m \in Messages |-> 0]
        /\ polled = [m \in Messages |-> 0]

-----------------------------------------------------------------------------
(* Messages and time.                                                      *)

\* enqueueBridgeMessage, the queued case (the dedupe, the backlog bound and the bounce are left out).
Enqueue(m) ==
  /\ ledger[m] = "absent"
  /\ ledger' = [ledger EXCEPT ![m] = "pending"]
  /\ UNCHANGED <<due, notified, claim, dl, rd, nudged, outcome, faults>>

TtlPasses(m) ==
  /\ m \in Ttl \ due
  /\ ledger[m] # "absent"
  /\ due' = due \cup {m}
  /\ UNCHANGED <<ledger, notified, claim, dl, rd, nudged, outcome, faults>>

\* Mutant: a message that was announced is not announced again.
NoticeAges_Never(m) == FALSE

\* BRIDGE_NOTIFICATION_RETRY_MS after the last "notified" event.
NoticeAges(m) ==
  /\ m \in notified
  /\ notified' = notified \ {m}
  /\ UNCHANGED <<ledger, due, claim, dl, rd, nudged, outcome, faults>>

\* A claim file passes its stale age: its owner died, or waits for a slow
\* app server.
ClaimAges(k) ==
  /\ claim[k].exists /\ ~claim[k].old
  /\ \A d \in Deliverers : claim[k].owner = d => Slow /\ dl[d].pc = "inject"
  /\ claim' = [claim EXCEPT ![k].old = TRUE]
  /\ UNCHANGED <<ledger, due, notified, dl, rd, nudged, outcome, faults>>

-----------------------------------------------------------------------------
(* acquireRuntimeClaim and releaseDeliveryClaim, for both kinds of claim.  *)

Acquired(d) == IF dl[d].key = Inbox THEN "ready" ELSE "recheck"

\* Without the claim, a push falls back to the nudge and a nudge is left out.
NotAcquired(d) == IF dl[d].key = Inbox THEN Idle
                                       ELSE [Idle EXCEPT !.pc = "notify"]

\* openSync(path, "wx").
CreateClaim(d) ==
  /\ dl[d].pc = "claim"
  /\ IF claim[dl[d].key].exists
       THEN Go(d, "stat") /\ UNCHANGED claim
       ELSE Go(d, Acquired(d)) /\ claim' = [claim EXCEPT ![dl[d].key] = ClaimOf(d)]
  /\ UNCHANGED <<ledger, due, notified, rd, nudged, outcome, faults>>

\* statSync against the stale age of the claim.
IsStale(k) == claim[k].exists /\ claim[k].old

\* EEXIST: only a file that is still there and past its stale age is broken.
StatClaim(d) ==
  /\ dl[d].pc = "stat"
  /\ IF IsStale(dl[d].key)
       THEN Go(d, "break")
       ELSE dl' = [dl EXCEPT ![d] = NotAcquired(d)]
  /\ UNCHANGED <<ledger, due, notified, claim, rd, nudged, outcome, faults>>

\* Unlinks whatever file is there by now, and tries once more.
BreakClaim(d) ==
  /\ dl[d].pc = "break"
  /\ claim' = [claim EXCEPT ![dl[d].key] = NoClaim]
  /\ dl' = IF claim[dl[d].key].exists /\ ~dl[d].retried
             THEN [dl EXCEPT ![d] = [@ EXCEPT !.pc = "claim", !.retried = TRUE]]
             ELSE [dl EXCEPT ![d] = NotAcquired(d)]
  /\ UNCHANGED <<ledger, due, notified, rd, nudged, outcome, faults>>

\* finally: the file is unlinked by name.
Release(d) ==
  /\ dl[d].pc \in {"delivered", "undelivered"}
  /\ claim' = [claim EXCEPT ![dl[d].key] = NoClaim]
  /\ dl' = IF dl[d].pc = "delivered" THEN [dl EXCEPT ![d] = Idle]
                                     ELSE [dl EXCEPT ![d] = NotAcquired(d)]
  /\ UNCHANGED <<ledger, due, notified, rd, nudged, outcome, faults>>

-----------------------------------------------------------------------------
(* deliverCodexBridgeMessage.                                              *)

\* A deliverer takes up a pending message and reads the run's status: with an
\* app server it pushes, without one it nudges.
Pick(d, m) ==
  /\ dl[d].pc = "idle"
  /\ m \in Pending
  /\ ReadPending
  /\ \/ /\ TRUE \in AppServer
        /\ dl' = [dl EXCEPT ![d] = [Idle EXCEPT !.pc = "claim", !.msg = m,
                                                !.key = m]]
     \/ /\ FALSE \in AppServer
        /\ dl' = [dl EXCEPT ![d] = [Idle EXCEPT !.pc = "notify"]]
  /\ UNCHANGED <<due, notified, claim, rd, nudged, outcome, faults>>

\* Mutant: the claim is trusted, and the message not read again.
Recheck_Skipped(d) ==
  /\ dl[d].pc = "recheck"
  /\ Go(d, "inject")
  /\ UNCHANGED <<ledger, due, notified, claim, rd, nudged, outcome, faults>>

\* Under the claim: is the message still pending?
Recheck(d) ==
  /\ dl[d].pc = "recheck"
  /\ ReadPending
  /\ Go(d, IF dl[d].msg \in Pending THEN "inject" ELSE "undelivered")
  /\ UNCHANGED <<due, notified, claim, rd, nudged, outcome, faults>>

\* injectCodexMessage: the turn is steered or started.
Accept(d) ==
  /\ dl[d].pc = "inject"
  /\ injected' = [injected EXCEPT ![dl[d].msg] = @ + 1]
  /\ Go(d, "ack")
  /\ UNCHANGED <<ledger, due, notified, claim, rd, nudged, polled, dropped, faults>>

\* Mutant: an attempt that was refused is acknowledged as well.
Refuse_Acked(d) ==
  /\ dl[d].pc = "inject"
  /\ Go(d, "ack")
  /\ UNCHANGED <<ledger, due, notified, claim, rd, nudged, outcome, faults>>

\* A busy turn, an unreadable thread, no connection.
Refuse(d) ==
  /\ dl[d].pc = "inject"
  /\ Go(d, "undelivered")
  /\ UNCHANGED <<ledger, due, notified, claim, rd, nudged, outcome, faults>>

\* The turn is accepted and the answer lost: the message stays pending.
AcceptUnheard(d) ==
  /\ dl[d].pc = "inject"
  /\ faults < MaxFaults
  /\ injected' = [injected EXCEPT ![dl[d].msg] = @ + 1]
  /\ faults' = faults + 1
  /\ Go(d, "undelivered")
  /\ UNCHANGED <<ledger, due, notified, claim, rd, nudged, polled, dropped>>

Ack(d) ==
  /\ dl[d].pc = "ack"
  /\ Acknowledge(dl[d].msg)
  /\ Go(d, "delivered")
  /\ UNCHANGED <<due, notified, claim, rd, nudged, outcome, faults>>

-----------------------------------------------------------------------------
(* notifyTmuxBridgeInbox.                                                  *)

\* Mutant: the notification claim is asked for without the agent's path.
BeginNotify_NoKey(d) ==
  /\ dl[d].pc = "notify"
  /\ ReadPending
  /\ dl' = [dl EXCEPT ![d] = IF Pending \ notified # {}
                               THEN [Idle EXCEPT !.pc = "claim"]
                               ELSE Idle]
  /\ UNCHANGED <<due, notified, claim, rd, nudged, outcome, faults>>

\* A pending message that was not announced in the last 30 s is due.
BeginNotify(d) ==
  /\ dl[d].pc = "notify"
  /\ ReadPending
  /\ dl' = [dl EXCEPT ![d] = IF Pending \ notified # {}
                               THEN [Idle EXCEPT !.pc = "claim", !.key = Inbox]
                               ELSE Idle]
  /\ UNCHANGED <<due, notified, claim, rd, nudged, outcome, faults>>

\* waitForBridgePaneReady, then the inbox is read again.
PaneReady(d) ==
  /\ dl[d].pc = "ready"
  /\ ReadPending
  /\ dl' = IF Pending = {}
             THEN [dl EXCEPT ![d].pc = "undelivered"]
             ELSE [dl EXCEPT ![d] = [@ EXCEPT !.pc = "nudge", !.batch = Pending]]
  /\ UNCHANGED <<due, notified, claim, rd, nudged, outcome, faults>>

PaneBusy(d) ==
  /\ dl[d].pc = "ready"
  /\ Go(d, "undelivered")
  /\ UNCHANGED <<ledger, due, notified, claim, rd, nudged, outcome, faults>>

\* injectTmuxMessage confirms what it typed, or not.
Nudge(d) ==
  /\ dl[d].pc = "nudge"
  /\ nudged' = TRUE
  /\ Go(d, "mark") \/ Go(d, "undelivered")
  /\ UNCHANGED <<ledger, due, notified, claim, rd, outcome, faults>>

NudgeFails(d) ==
  /\ dl[d].pc = "nudge"
  /\ Go(d, "undelivered")
  /\ UNCHANGED <<ledger, due, notified, claim, rd, nudged, outcome, faults>>

\* markBridgeMessageNotified for the messages the nudge counted.
MarkNotified(d) ==
  /\ dl[d].pc = "mark"
  /\ notified' = notified \cup dl[d].batch
  /\ Go(d, "delivered")
  /\ UNCHANGED <<ledger, due, claim, rd, nudged, outcome, faults>>

-----------------------------------------------------------------------------
(* handleReceiveMessagesTool, route_task: consumeBridgeInbox.              *)

\* The agent acts on a nudge, or polls of its own accord.
ReadInbox(r) ==
  /\ rd[r].pc = "idle"
  /\ Pending # {}
  /\ ReadPending
  /\ nudged' = FALSE
  /\ rd' = [rd EXCEPT ![r] = [Resting EXCEPT !.pc = "filter", !.todo = Pending]]
  /\ UNCHANGED <<due, notified, claim, dl, outcome, faults>>

\* ~isBridgeDeliveryClaimed.
Unclaimed(m) == ~claim[m].exists \/ claim[m].old

Filter(r, m) ==
  /\ rd[r].pc = "filter"
  /\ m \in rd[r].todo
  /\ rd' = [rd EXCEPT ![r].todo = @ \ {m},
                      ![r].keep = IF Unclaimed(m) THEN @ \cup {m} ELSE @]
  /\ UNCHANGED <<ledger, due, notified, claim, dl, nudged, outcome, faults>>

AckRead(r, m) ==
  /\ rd[r].pc = "filter" /\ rd[r].todo = {}
  /\ m \in rd[r].keep
  /\ Acknowledge(m)
  /\ rd' = [rd EXCEPT ![r].keep = @ \ {m}, ![r].batch = @ \cup {m}]
  /\ UNCHANGED <<due, notified, claim, dl, nudged, outcome, faults>>

\* The tool result is written and the agent has the messages.
Return(r) ==
  /\ rd[r].pc = "filter" /\ rd[r].todo = {} /\ rd[r].keep = {}
  /\ polled' = [m \in Messages |-> IF m \in rd[r].batch THEN polled[m] + 1
                                                        ELSE polled[m]]
  /\ rd' = [rd EXCEPT ![r] = Resting]
  /\ UNCHANGED <<ledger, due, notified, claim, dl, nudged, injected, dropped, faults>>

\* The agent's bridge process dies: what it acknowledged is settled in the
\* journal and never returned.
ReaderCrash(r) ==
  /\ rd[r].pc = "filter"
  /\ faults < MaxFaults
  /\ rd' = [rd EXCEPT ![r] = Resting]
  /\ dropped' = dropped \cup rd[r].batch
  /\ faults' = faults + 1
  /\ UNCHANGED <<ledger, due, notified, claim, dl, nudged, injected, polled>>

\* The agent lets a nudge pass.
IgnoreNudge ==
  /\ nudged
  /\ faults < MaxFaults
  /\ nudged' = FALSE
  /\ faults' = faults + 1
  /\ UNCHANGED <<ledger, due, notified, claim, dl, rd, outcome>>

\* A deliverer dies; its claim file stays.
DelivererCrash(d) ==
  /\ faults < MaxFaults
  /\ dl[d].pc # "idle"
  /\ dl' = [dl EXCEPT ![d] = Idle]
  /\ claim' = [k \in Messages \cup {Inbox} |->
                 IF claim[k].owner = d THEN [claim[k] EXCEPT !.owner = Nobody]
                                       ELSE claim[k]]
  /\ faults' = faults + 1
  /\ UNCHANGED <<ledger, due, notified, rd, nudged, outcome>>

-----------------------------------------------------------------------------
Claiming(d) == CreateClaim(d) \/ StatClaim(d) \/ BreakClaim(d) \/ Release(d)

Pushing(d) == \/ \E m \in Messages : Pick(d, m)
              \/ Recheck(d) \/ Accept(d) \/ Refuse(d) \/ Ack(d)

Notifying(d) == \/ BeginNotify(d) \/ PaneReady(d) \/ PaneBusy(d)
                \/ Nudge(d) \/ NudgeFails(d) \/ MarkNotified(d)

DelivererStep(d) == Claiming(d) \/ Pushing(d) \/ Notifying(d)

ReadStep(r) == Return(r) \/ \E m \in Messages : Filter(r, m) \/ AckRead(r, m)

Time == \/ \E m \in Messages : TtlPasses(m) \/ NoticeAges(m)
        \/ \E k \in Messages \cup {Inbox} : ClaimAges(k)

Next == \/ \E m \in Messages : Enqueue(m)
        \/ Time
        \/ \E d \in Deliverers : \/ DelivererStep(d) \/ AcceptUnheard(d)
                                 \/ DelivererCrash(d)
        \/ \E r \in Readers : ReadInbox(r) \/ ReadStep(r) \/ ReaderCrash(r)
        \/ IgnoreNudge

Spec == Init /\ [][Next]_vars

\* The worker keeps retrying what is pending, files and notices age, and the
\* agent answers a nudge.  A pane that is tried again and again is ready and
\* takes the nudge at last, and so does an app server a turn: a busy turn ends.
FairSpec ==
  /\ Spec
  /\ \A d \in Deliverers : /\ WF_vars(DelivererStep(d))
                           /\ SF_vars(PaneReady(d))
                           /\ SF_vars(Nudge(d))
                           /\ SF_vars(Accept(d))
  /\ \A r \in Readers : WF_vars(ReadInbox(r) /\ nudged) /\ WF_vars(ReadStep(r))
  /\ \A m \in Messages : WF_vars(NoticeAges(m))
  /\ \A k \in Messages \cup {Inbox} : WF_vars(ClaimAges(k))

-----------------------------------------------------------------------------
(* Properties.                                                             *)

ClaimFile == [exists : BOOLEAN, owner : Deliverers \cup {Nobody}, old : BOOLEAN]

\* Every variable keeps its type (bridge.jsonl, the claim files and the local
\* state of the processes).
TypeOK ==
  /\ ledger \in [Messages -> {"absent", "pending", "delivered", "expired"}]
  /\ due \in SUBSET Messages /\ notified \in SUBSET Messages
  /\ dropped \in SUBSET Messages
  /\ claim \in [Messages \cup {Inbox} -> ClaimFile]
  /\ dl \in [Deliverers ->
               [pc : {"idle", "claim", "stat", "break", "recheck", "inject", "ack",
                      "notify", "ready", "nudge", "mark", "delivered",
                      "undelivered"},
                msg : Messages \cup {Nobody},
                key : Messages \cup {Inbox, Nobody},
                retried : BOOLEAN, batch : SUBSET Messages]]
  /\ \A d \in Deliverers : dl[d].pc \notin {"idle", "notify"} => dl[d].key # Nobody
  /\ rd \in [Readers -> [pc : {"idle", "filter"}, todo : SUBSET Messages,
                         keep : SUBSET Messages, batch : SUBSET Messages]]
  /\ nudged \in BOOLEAN
  /\ injected \in [Messages -> Nat] /\ polled \in [Messages -> Nat]
  /\ faults \in 0..MaxFaults

\* The app server is given a message in one turn only, however many workers
\* and senders push it (deliverCodexBridgeMessage: "another worker cannot
\* duplicate the same Codex turn").
InjectedOnce == \A m \in Messages : injected[m] <= 1

\* The same as long as no process has died and no answer was lost: the claim
\* and the second look at the ledger are enough against other live workers.
InjectedOnceUnlessFault == faults = 0 => InjectedOnce

\* The journal never says "delivered" of a message the agent has not got and
\* is not about to get, whatever deliverer dies or app server is slow; only a
\* reader that dies with its batch loses one (consumeBridgeInbox settles the
\* messages before they are returned).
DeliveredMeansConsumed ==
  \A m \in Messages :
    ledger[m] = "delivered" => \/ injected[m] + polled[m] > 0
                               \/ \E r \in Readers : m \in rd[r].batch
                               \/ m \in dropped

\* A pending message reaches the agent, or its ttl passes, whatever deliverer
\* dies with a claim and whatever nudge or answer is lost, unless the reader
\* that took it dies.
EveryMessageReachesAgent ==
  \A m \in Messages :
    m \in Pending ~> (injected[m] + polled[m] > 0 \/ m \in due \cup dropped)

\* bridge-idle-delivery/spec.md, bridge-single-delivery/spec.md: a message has
\* a single owner; a push and a poll do not both hand it to the agent.
SingleOwner == \A m \in Messages : injected[m] + polled[m] <= 1
=============================================================================
