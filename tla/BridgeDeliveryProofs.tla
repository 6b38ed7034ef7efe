------------------------ MODULE BridgeDeliveryProofs ------------------------
(***************************************************************************)
(* Safety of the delivery of bridge messages, for any messages, deliverers *)
(* and readers, and any number of deaths and lost answers: types, no       *)
(* message settled behind the agent's back, and no message pushed twice    *)
(* while nobody dies and no turn outlasts the claim of its deliverer.      *)
(* Then the process of the worker, for any number of calls: no long sleep  *)
(* over a pending message, and one worker of two that were started; then   *)
(* the journal of the messages, for any calls: keys, successors, backlog;  *)
(* and the MCP server, for any requests: answers in order and to the last, *)
(* no message lost or written twice.                                       *)
(***************************************************************************)
EXTENDS BridgeDelivery, Integers, FiniteSetTheorems, SequenceTheorems, WellFoundedInduction, TLAPS

\* The process of the worker, the second part, with variables of its own.
CONSTANTS Posted, Target, Remote, MaxDeaths, MaxVersion
VARIABLES version, pending, noted, file, active, sender, worker, deaths
W == INSTANCE BridgeWorker WITH Messages <- Posted, MaxFaults <- MaxDeaths, faults <- deaths

\* The journal and its senders, the third part.
CONSTANTS Calls, Agents, Options, MaxOutstanding, MaxCrashes
VARIABLES journal, message, born, overdue, call, reader, crashes
L == INSTANCE BridgeLedger WITH Readers <- Agents, MaxFaults <- MaxCrashes, faults <- crashes

\* The MCP server, the fourth part.
CONSTANTS Letters, MaxRequests, MaxChanges
VARIABLES source, input, queue, stage, ready, timer, closed, inbox, pane, out, got, failed,
          server, changes
V == INSTANCE BridgeServer WITH Messages <- Letters, pc <- stage

\* Where a deliverer holds a claim: on a message it pushes, on the inbox it
\* nudges for, or on either of them with the attempt behind it.
PushPcs == {"recheck", "inject", "ack"}
NudgePcs == {"ready", "nudge", "mark"}
DonePcs == {"delivered", "undelivered"}
Holding == PushPcs \cup NudgePcs \cup DonePcs
ClaimPcs == {"claim", "stat", "break"}

Local == [pc : {"idle", "notify"} \cup ClaimPcs \cup Holding,
          msg : Messages \cup {Nobody}, key : Messages \cup {Inbox, Nobody},
          retried : BOOLEAN, batch : SUBSET Messages]

\* The local state of a deliverer: its claim is for the message it pushes, or
\* for the inbox.
LocalOK(x) ==
  /\ x \in Local
  /\ x.pc \notin {"idle", "notify"} => x.key # Nobody
  /\ x.pc \in PushPcs => x.key = x.msg
  /\ x.pc \in NudgePcs => x.key = Inbox
  /\ x.pc \in ClaimPcs \cup DonePcs => x.key \in {x.msg, Inbox}

DeliverersOK == dl \in [Deliverers -> Local] /\ \A d \in Deliverers : LocalOK(dl[d])

Reading == [pc : {"idle", "filter"}, todo : SUBSET Messages,
            keep : SUBSET Messages, batch : SUBSET Messages]

JournalOK ==
  /\ ledger \in [Messages -> {"absent", "pending", "delivered", "expired"}]
  /\ due \in SUBSET Messages /\ notified \in SUBSET Messages
ClaimsOK == claim \in [Messages \cup {Inbox} -> ClaimFile]
AgentOK == /\ rd \in [Readers -> Reading]
           /\ dropped \in SUBSET Messages /\ nudged \in BOOLEAN
           /\ injected \in [Messages -> Nat] /\ polled \in [Messages -> Nat]
FaultsOK == faults \in 0..MaxFaults

Shape == DeliverersOK /\ JournalOK /\ ClaimsOK /\ AgentOK /\ FaultsOK

-----------------------------------------------------------------------------
(* The local states of the deliverers.                                     *)

\* What is left of a deliverer that has no claim: it rests or nudges.
LEMMA IdleOK == LocalOK(Idle) /\ LocalOK([Idle EXCEPT !.pc = "notify"])
  BY DEF LocalOK, Local, Idle, ClaimPcs, Holding, PushPcs, NudgePcs, DonePcs

\* So is one that gives up a claim.
LEMMA NotAcquiredOK == \A d \in Deliverers : LocalOK(NotAcquired(d))
  BY IdleOK DEF NotAcquired

\* A deliverer goes on from pc to pc.
LEMMA GoOK ==
  ASSUME NEW x, LocalOK(x), NEW pc,
         \/ x.pc \in ClaimPcs /\ pc \in ClaimPcs
         \/ x.pc \in PushPcs /\ pc \in PushPcs \cup DonePcs
         \/ x.pc \in NudgePcs /\ pc \in NudgePcs \cup DonePcs
  PROVE  LET y == [x EXCEPT !.pc = pc]
         IN  LocalOK(y) /\ y.pc = pc /\ y.key = x.key /\ y.msg = x.msg
  BY DEF LocalOK, Local, ClaimPcs, Holding, PushPcs, NudgePcs, DonePcs

\* One deliverer changes its local state.
LEMMA OneDeliverer ==
  ASSUME DeliverersOK, NEW d \in Deliverers, NEW x, LocalOK(x),
         dl' = [dl EXCEPT ![d] = x]
  PROVE  DeliverersOK'
  BY DEF DeliverersOK, LocalOK

\* The claim a deliverer asks for, once it has it.
LEMMA AcquiredOK ==
  ASSUME DeliverersOK, NEW d \in Deliverers, dl[d].pc = "claim"
  PROVE  LET y == [dl[d] EXCEPT !.pc = Acquired(d)]
         IN  LocalOK(y) /\ y.pc = Acquired(d) /\ y.key = dl[d].key
<1>1. CASE dl[d].key = Inbox
  BY <1>1 DEF DeliverersOK, Acquired, LocalOK, Local, ClaimPcs, Holding, PushPcs,
     NudgePcs, DonePcs
<1>2. CASE dl[d].key # Inbox
  BY <1>2 DEF DeliverersOK, Acquired, LocalOK, Local, ClaimPcs, Holding, PushPcs,
     NudgePcs, DonePcs
<1> QED
  BY <1>1, <1>2

\* Go(d, pc) as a step of one deliverer.
LEMMA GoStep ==
  ASSUME DeliverersOK, NEW d \in Deliverers, NEW pc, Go(d, pc)
  PROVE  dl' = [dl EXCEPT ![d] = [dl[d] EXCEPT !.pc = pc]]
  BY DEF Go, DeliverersOK

\* How a deliverer comes to its next local state x: to acknowledge, by an
\* accepted turn; to push, by the second look; to hold a claim, by creating
\* it or by having it; to break one, by finding it stale.
Origin(d, x) ==
  /\ x.pc = "ack" => Accept(d) /\ x.msg = dl[d].msg
  /\ x.pc = "inject" => Recheck(d) /\ dl[d].msg \in Pending /\ x.msg = dl[d].msg
  /\ x.pc \in Holding => /\ x.key = dl[d].key
                         /\ \/ dl[d].pc \in Holding
                            \/ CreateClaim(d) /\ ~claim[dl[d].key].exists
  /\ x.pc = "break" => StatClaim(d) /\ IsStale(dl[d].key)

Moved(d) == \E x : LocalOK(x) /\ Origin(d, x) /\ dl' = [dl EXCEPT ![d] = x]

\* Without a claim there is nothing to hold, to push or to break.
LEMMA NoClaimOrigin ==
  ASSUME NEW d, NEW x, x.pc \in {"idle", "notify", "claim", "stat"} PROVE Origin(d, x)
  BY DEF Origin, Holding, PushPcs, NudgePcs, DonePcs

\* A deliverer at rest, or on its way to the nudge, is at neither.
LEMMA RestOrigin ==
  ASSUME NEW d
  PROVE  Origin(d, Idle) /\ Origin(d, [Idle EXCEPT !.pc = "notify"])
         /\ Origin(d, NotAcquired(d))
  BY NoClaimOrigin DEF Idle, NotAcquired

\* Asking for a claim and breaking one.
LEMMA ClaimingMoves ==
  ASSUME DeliverersOK, NEW d \in Deliverers, Claiming(d) PROVE Moved(d)
<1>0. LocalOK(dl[d])
  BY DEF DeliverersOK
<1>1. CASE CreateClaim(d)
  <2>1. CASE claim[dl[d].key].exists
    <3>1. PICK y : y = [dl[d] EXCEPT !.pc = "stat"]
      OBVIOUS
    <3>2. dl' = [dl EXCEPT ![d] = y]
      BY <1>1, <2>1, <3>1, GoStep DEF CreateClaim
    <3>3. LocalOK(y) /\ y.pc = "stat"
      BY <1>0, <1>1, <3>1, GoOK DEF CreateClaim, ClaimPcs
    <3>4. Origin(d, y)
      BY <3>3, NoClaimOrigin
    <3> QED
      BY <3>2, <3>3, <3>4 DEF Moved
  <2>2. CASE ~claim[dl[d].key].exists
    <3> DEFINE y == [dl[d] EXCEPT !.pc = Acquired(d)]
    <3>1. dl' = [dl EXCEPT ![d] = y]
      BY <1>1, <2>2, GoStep DEF CreateClaim
    <3>2. LocalOK(y) /\ y.pc = Acquired(d) /\ y.key = dl[d].key
      BY <1>1, AcquiredOK DEF CreateClaim
    <3>3. Acquired(d) \in {"ready", "recheck"}
      BY DEF Acquired
    <3>4. Origin(d, y)
      BY <1>1, <2>2, <3>2, <3>3 DEF Origin
    <3> QED
      BY <3>1, <3>2, <3>4 DEF Moved
  <2> QED
    BY <2>1, <2>2
<1>2. CASE StatClaim(d)
  <2>1. CASE IsStale(dl[d].key)
    <3> DEFINE y == [dl[d] EXCEPT !.pc = "break"]
    <3>1. dl' = [dl EXCEPT ![d] = y]
      BY <1>2, <2>1, GoStep DEF StatClaim
    <3>2. LocalOK(y) /\ y.pc = "break"
      BY <1>0, <1>2, GoOK DEF StatClaim, ClaimPcs
    <3>3. Origin(d, y)
      BY <1>2, <2>1, <3>2 DEF Origin, Holding, PushPcs, NudgePcs, DonePcs
    <3> QED
      BY <3>1, <3>2, <3>3 DEF Moved
  <2>2. CASE ~IsStale(dl[d].key)
    BY <1>2, <2>2, NotAcquiredOK, RestOrigin DEF StatClaim, Moved
  <2> QED
    BY <2>1, <2>2
<1>3. CASE BreakClaim(d)
  <2>1. CASE claim[dl[d].key].exists /\ ~dl[d].retried
    <3>0. PICK y : y = [dl[d] EXCEPT !.pc = "claim", !.retried = TRUE]
      OBVIOUS
    <3>1. LocalOK(y) /\ y.pc = "claim"
      BY <1>0, <1>3, <3>0 DEF BreakClaim, LocalOK, Local, ClaimPcs, Holding, PushPcs,
         NudgePcs, DonePcs
    <3>2. dl' = [dl EXCEPT ![d] = y]
      BY <1>3, <2>1, <3>0 DEF BreakClaim, DeliverersOK
    <3>3. Origin(d, y)
      BY <3>1, NoClaimOrigin
    <3> QED
      BY <3>1, <3>2, <3>3 DEF Moved
  <2>2. CASE ~(claim[dl[d].key].exists /\ ~dl[d].retried)
    BY <1>3, <2>2, NotAcquiredOK, RestOrigin DEF BreakClaim, Moved
  <2> QED
    BY <2>1, <2>2
<1>4. CASE Release(d)
  BY <1>4, IdleOK, NotAcquiredOK, RestOrigin DEF Release, Moved
<1> QED
  BY <1>1, <1>2, <1>3, <1>4 DEF Claiming

\* Pushing a message.
LEMMA PushingMoves ==
  ASSUME DeliverersOK, NEW d \in Deliverers, Pushing(d) \/ AcceptUnheard(d) PROVE Moved(d)
<1>0. LocalOK(dl[d])
  BY DEF DeliverersOK
<1>1. ASSUME NEW m \in Messages, Pick(d, m) PROVE Moved(d)
  <2>0. PICK y : y = [Idle EXCEPT !.pc = "claim", !.msg = m, !.key = m]
    OBVIOUS
  <2>1. LocalOK(y) /\ y.pc = "claim"
    BY <2>0, DeliveryConstants DEF LocalOK, Local, Idle, ClaimPcs, Holding, PushPcs, NudgePcs,
       DonePcs
  <2>2. Origin(d, y)
    BY <2>1, NoClaimOrigin
  <2> QED
    BY <1>1, <2>0, <2>1, <2>2, IdleOK, RestOrigin DEF Pick, Moved
<1>2. ASSUME NEW pc \in PushPcs \cup DonePcs, Go(d, pc), dl[d].pc \in PushPcs,
             pc = "ack" => Accept(d), pc = "inject" => Recheck(d) /\ dl[d].msg \in Pending
      PROVE  Moved(d)
  <2> DEFINE y == [dl[d] EXCEPT !.pc = pc]
  <2>1. dl' = [dl EXCEPT ![d] = y]
    BY <1>2, GoStep
  <2>2. LocalOK(y) /\ y.pc = pc /\ y.key = dl[d].key /\ y.msg = dl[d].msg
    BY <1>0, <1>2, GoOK
  <2>3. Origin(d, y)
    BY <1>2, <2>2 DEF Origin, Holding, PushPcs, DonePcs
  <2> QED
    BY <2>1, <2>2, <2>3 DEF Moved
<1>3. CASE Recheck(d)
  BY <1>2, <1>3 DEF Recheck, PushPcs, DonePcs
<1>4. CASE Accept(d) \/ Refuse(d) \/ AcceptUnheard(d) \/ Ack(d)
  BY <1>2, <1>4 DEF Accept, Refuse, AcceptUnheard, Ack, PushPcs, DonePcs
<1> QED
  BY <1>1, <1>3, <1>4 DEF Pushing

\* Typing a nudge.
LEMMA NotifyingMoves ==
  ASSUME DeliverersOK, NEW d \in Deliverers, Notifying(d) PROVE Moved(d)
<1>0. LocalOK(dl[d])
  BY DEF DeliverersOK
<1>1. CASE BeginNotify(d)
  <2>0. PICK y : y = [Idle EXCEPT !.pc = "claim", !.key = Inbox]
    OBVIOUS
  <2>1. LocalOK(y) /\ y.pc = "claim"
    BY <2>0, DeliveryConstants DEF LocalOK, Local, Idle, ClaimPcs, Holding, PushPcs, NudgePcs,
       DonePcs
  <2>2. Origin(d, y)
    BY <2>1, NoClaimOrigin
  <2> QED
    BY <1>1, <2>0, <2>1, <2>2, IdleOK, RestOrigin DEF BeginNotify, Moved
<1>2. ASSUME NEW y, LocalOK(y), dl' = [dl EXCEPT ![d] = y], y.key = dl[d].key,
             y.pc \in NudgePcs \cup DonePcs, dl[d].pc \in NudgePcs
      PROVE  Moved(d)
  <2>1. Origin(d, y)
    BY <1>2 DEF Origin, Holding, NudgePcs, DonePcs
  <2> QED
    BY <1>2, <2>1 DEF Moved
<1>3. ASSUME NEW pc \in NudgePcs \cup DonePcs, Go(d, pc), dl[d].pc \in NudgePcs
      PROVE  Moved(d)
  <2>1. PICK y : y = [dl[d] EXCEPT !.pc = pc]
    OBVIOUS
  <2>2. dl' = [dl EXCEPT ![d] = y]
    BY <1>3, <2>1, GoStep
  <2>3. LocalOK(y) /\ y.pc = pc /\ y.key = dl[d].key
    BY <1>0, <1>3, <2>1, GoOK
  <2> QED
    BY <1>2, <1>3, <2>2, <2>3
<1>4. CASE PaneReady(d)
  <2>1. CASE Pending = {}
    BY <1>3, <1>4, <2>1 DEF PaneReady, Go, NudgePcs, DonePcs
  <2>2. CASE Pending # {}
    <3> DEFINE y == [dl[d] EXCEPT !.pc = "nudge", !.batch = Pending]
    <3>1. LocalOK(y) /\ y.pc = "nudge" /\ y.key = dl[d].key
      BY <1>0, <1>4 DEF PaneReady, LocalOK, Local, ClaimPcs, Holding, PushPcs, NudgePcs,
         DonePcs, Pending
    <3>2. dl' = [dl EXCEPT ![d] = y]
      BY <1>4, <2>2 DEF PaneReady, DeliverersOK
    <3> QED
      BY <1>2, <1>4, <3>1, <3>2 DEF PaneReady, NudgePcs
  <2> QED
    BY <2>1, <2>2
<1>5. CASE PaneBusy(d) \/ Nudge(d) \/ NudgeFails(d) \/ MarkNotified(d)
  BY <1>3, <1>5 DEF PaneBusy, Nudge, NudgeFails, MarkNotified, NudgePcs, DonePcs
<1> QED
  BY <1>1, <1>4, <1>5 DEF Notifying

\* Every step of a deliverer changes its own local state to a legal one.
LEMMA DelivererMoves ==
  ASSUME DeliverersOK, NEW d \in Deliverers,
         DelivererStep(d) \/ AcceptUnheard(d) \/ DelivererCrash(d)
  PROVE  Moved(d)
<1>1. CASE DelivererCrash(d)
  BY <1>1, IdleOK, RestOrigin DEF DelivererCrash, Moved
<1> QED
  BY <1>1, ClaimingMoves, PushingMoves, NotifyingMoves DEF DelivererStep

\* The steps that are no deliverer's.
LEMMA Movers ==
  ASSUME DeliverersOK, [Next]_vars
  PROVE  UNCHANGED dl \/ \E d \in Deliverers : Moved(d)
  BY DelivererMoves DEF Next, Time, ReadStep, vars, Enqueue, TtlPasses, NoticeAges,
     ClaimAges, ReadInbox, Return, Filter, AckRead, ReaderCrash, IgnoreNudge

\* The local states stay legal.
LEMMA DelivererSteps == ASSUME Shape, [Next]_vars PROVE DeliverersOK'
<1>1. CASE UNCHANGED dl
  BY <1>1 DEF Shape, DeliverersOK, LocalOK
<1> QED
  BY <1>1, Movers, OneDeliverer DEF Shape, Moved

-----------------------------------------------------------------------------
(* The journal, the claim files, the agent.                                *)

\* Reading the inbox settles what is past its ttl, and nothing else.
LEMMA ReadPendingOK ==
  ASSUME JournalOK, ReadPending, UNCHANGED <<due, notified>> PROVE JournalOK'
  BY DEF JournalOK, ReadPending

\* A message is acknowledged.
LEMMA AcknowledgeOK ==
  ASSUME JournalOK, NEW m \in Messages, Acknowledge(m), UNCHANGED <<due, notified>>
  PROVE  JournalOK'
  BY DEF JournalOK, Acknowledge

\* The message a deliverer pushes.
LEMMA PushedMessage ==
  ASSUME DeliverersOK, NEW d \in Deliverers, dl[d].pc \in PushPcs
  PROVE  dl[d].msg \in Messages /\ dl[d].key = dl[d].msg
  BY DeliveryConstants DEF DeliverersOK, LocalOK, Local, PushPcs

\* The claim a deliverer works on.
LEMMA WorkedKey ==
  ASSUME DeliverersOK, NEW d \in Deliverers, dl[d].pc \notin {"idle", "notify"}
  PROVE  dl[d].key \in Messages \cup {Inbox}
  BY DEF DeliverersOK, LocalOK, Local

\* The journal, the times and the notices keep their types.
LEMMA JournalSteps == ASSUME Shape, [Next]_vars PROVE JournalOK'
<1> USE DEF Shape
<1>1. ASSUME NEW m \in Messages, Enqueue(m) \/ TtlPasses(m) \/ NoticeAges(m)
      PROVE  JournalOK'
  BY <1>1 DEF JournalOK, Enqueue, TtlPasses, NoticeAges
<1>2. ASSUME NEW d \in Deliverers, DelivererStep(d) \/ AcceptUnheard(d) \/ DelivererCrash(d)
      PROVE  JournalOK'
  <2>1. CASE Ack(d)
    BY <2>1, AcknowledgeOK, PushedMessage DEF Ack, PushPcs
  <2>2. CASE MarkNotified(d)
    <3>1. dl[d].batch \in SUBSET Messages
      BY DEF DeliverersOK, Local
    <3> QED
      BY <2>2, <3>1 DEF MarkNotified, JournalOK
  <2>3. CASE ReadPending /\ UNCHANGED <<due, notified>>
    BY <2>3, ReadPendingOK
  <2>4. CASE UNCHANGED <<ledger, due, notified>>
    BY <2>4 DEF JournalOK
  <2> QED
    BY <1>2, <2>1, <2>2, <2>3, <2>4 DEF DelivererStep, Claiming, Pushing, Notifying,
       AcceptUnheard, DelivererCrash, CreateClaim, StatClaim, BreakClaim, Release, Pick,
       Recheck, Accept, Refuse, BeginNotify, PaneReady, PaneBusy, Nudge, NudgeFails
<1>3. ASSUME NEW r \in Readers, ReadInbox(r) \/ ReadStep(r) \/ ReaderCrash(r)
      PROVE  JournalOK'
  <2>1. ASSUME NEW m \in Messages, AckRead(r, m) PROVE JournalOK'
    BY <2>1, AcknowledgeOK DEF AckRead
  <2>2. CASE ReadPending /\ UNCHANGED <<due, notified>>
    BY <2>2, ReadPendingOK
  <2>3. CASE UNCHANGED <<ledger, due, notified>>
    BY <2>3 DEF JournalOK
  <2> QED
    BY <1>3, <2>1, <2>2, <2>3 DEF ReadStep, ReadInbox, Return, Filter, ReaderCrash
<1>4. CASE UNCHANGED <<ledger, due, notified>>
  BY <1>4 DEF JournalOK
<1> QED
  BY <1>1, <1>2, <1>3, <1>4 DEF Next, Time, vars, ClaimAges, IgnoreNudge

\* The claim files keep their type.
LEMMA ClaimSteps == ASSUME Shape, [Next]_vars PROVE ClaimsOK'
<1> USE DEF Shape
<1>1. ASSUME NEW k \in Messages \cup {Inbox}, ClaimAges(k) PROVE ClaimsOK'
  BY <1>1 DEF ClaimAges, ClaimsOK, ClaimFile
<1>2. ASSUME NEW d \in Deliverers, CreateClaim(d) \/ BreakClaim(d) \/ Release(d)
      PROVE  ClaimsOK'
  <2>1. NoClaim \in ClaimFile /\ ClaimOf(d) \in ClaimFile
    BY DEF NoClaim, ClaimOf, ClaimFile
  <2>2. dl[d].key \in Messages \cup {Inbox}
    BY <1>2, WorkedKey DEF CreateClaim, BreakClaim, Release
  <2> QED
    BY <1>2, <2>1, <2>2 DEF CreateClaim, BreakClaim, Release, ClaimsOK
<1>3. ASSUME NEW d \in Deliverers, DelivererCrash(d) PROVE ClaimsOK'
  BY <1>3 DEF DelivererCrash, ClaimsOK, ClaimFile
<1>4. CASE UNCHANGED claim
  BY <1>4 DEF ClaimsOK
<1> QED
  BY <1>1, <1>2, <1>3, <1>4 DEF Next, Time, vars, DelivererStep, Claiming, Pushing,
     Notifying, ReadStep, Enqueue, TtlPasses, NoticeAges, StatClaim, Pick, Recheck, Accept,
     Refuse, Ack, AcceptUnheard, BeginNotify, PaneReady, PaneBusy, Nudge, NudgeFails,
     MarkNotified, ReadInbox, Return, Filter, AckRead, ReaderCrash, IgnoreNudge

\* So do the agent's readers and what the agent was given.
LEMMA AgentSteps == ASSUME Shape, [Next]_vars PROVE AgentOK'
<1> USE DEF Shape
<1>1. ASSUME NEW d \in Deliverers, Accept(d) \/ AcceptUnheard(d) PROVE AgentOK'
  BY <1>1, PushedMessage DEF Accept, AcceptUnheard, AgentOK, PushPcs
<1>2. ASSUME NEW r \in Readers, ReadInbox(r) PROVE AgentOK'
  BY <1>2 DEF ReadInbox, AgentOK, Reading, Resting, Pending, outcome
<1>3. ASSUME NEW r \in Readers, NEW m \in Messages, Filter(r, m) \/ AckRead(r, m)
      PROVE  AgentOK'
  <2>1. rd[r] \in Reading
    BY DEF AgentOK
  <2>2. CASE Filter(r, m)
    BY <2>1, <2>2 DEF Filter, Reading, AgentOK, outcome
  <2>3. CASE AckRead(r, m)
    BY <2>1, <2>3 DEF AckRead, Reading, AgentOK, outcome
  <2> QED
    BY <1>3, <2>2, <2>3
<1>4. ASSUME NEW r \in Readers, Return(r) \/ ReaderCrash(r) PROVE AgentOK'
  BY <1>4 DEF Return, ReaderCrash, AgentOK, Reading, Resting
<1>5. CASE UNCHANGED <<rd, outcome>> /\ (nudged' = nudged \/ nudged' \in BOOLEAN)
  BY <1>5 DEF AgentOK, outcome
<1> QED
  BY <1>1, <1>2, <1>3, <1>4, <1>5 DEF Next, Time, vars, DelivererStep, Claiming, Pushing,
     Notifying, ReadStep, Enqueue, TtlPasses, NoticeAges, ClaimAges, CreateClaim, StatClaim,
     BreakClaim, Release, Pick, Recheck, Refuse, Ack, BeginNotify, PaneReady, PaneBusy,
     Nudge, NudgeFails, MarkNotified, DelivererCrash, IgnoreNudge

\* Faults are counted up to their bound.
LEMMA FaultSteps == ASSUME Shape, [Next]_vars PROVE FaultsOK'
<1> DEFINE Counted == faults' = faults \/ (faults < MaxFaults /\ faults' = faults + 1)
<1>1. ASSUME UNCHANGED vars PROVE Counted
  BY <1>1 DEF vars
<1>2. ASSUME (\E m \in Messages : Enqueue(m)) \/ Time \/ IgnoreNudge PROVE Counted
  BY <1>2 DEF Enqueue, Time, TtlPasses, NoticeAges, ClaimAges, IgnoreNudge
<1>3. ASSUME NEW d \in Deliverers, Claiming(d) PROVE Counted
  BY <1>3 DEF Claiming, CreateClaim, StatClaim, BreakClaim, Release
<1>4. ASSUME NEW d \in Deliverers, Pushing(d) PROVE Counted
  BY <1>4 DEF Pushing, Pick, Recheck, Accept, Refuse, Ack
<1>5. ASSUME NEW d \in Deliverers, Notifying(d) PROVE Counted
  BY <1>5 DEF Notifying, BeginNotify, PaneReady, PaneBusy, Nudge, NudgeFails, MarkNotified
<1>6. ASSUME NEW d \in Deliverers, AcceptUnheard(d) \/ DelivererCrash(d) PROVE Counted
  BY <1>6 DEF AcceptUnheard, DelivererCrash
<1>7. ASSUME NEW r \in Readers, ReadInbox(r) \/ ReadStep(r) \/ ReaderCrash(r)
      PROVE  Counted
  BY <1>7 DEF ReadInbox, ReadStep, Return, Filter, AckRead, ReaderCrash
<1>8. Counted
  BY <1>1, <1>2, <1>3, <1>4, <1>5, <1>6, <1>7 DEF Next, DelivererStep
<1> QED
  BY <1>8, DeliveryConstants DEF Shape, FaultsOK

\* The shape of the state holds at first and is kept.
LEMMA ShapeHolds == Spec => []Shape
<1>1. Init => Shape
  <2> SUFFICES ASSUME Init PROVE Shape
    OBVIOUS
  <2>1. DeliverersOK
    BY IdleOK DEF Init, DeliverersOK, LocalOK
  <2>2. JournalOK /\ FaultsOK
    BY DeliveryConstants DEF Init, JournalOK, FaultsOK
  <2>3. ClaimsOK
    BY DEF Init, ClaimsOK, NoClaim, ClaimFile
  <2>4. AgentOK
    BY DEF Init, AgentOK, Resting, Reading
  <2> QED
    BY <2>1, <2>2, <2>3, <2>4 DEF Shape
<1>2. Shape /\ [Next]_vars => Shape'
  BY DelivererSteps, JournalSteps, ClaimSteps, AgentSteps, FaultSteps DEF Shape
<1> QED
  BY <1>1, <1>2, PTL DEF Spec

\* Every variable of the delivery keeps its type, for any messages,
\* deliverers, readers and faults.
THEOREM TypeCorrect == Spec => []TypeOK
<1>1. Shape => TypeOK
  BY DEF Shape, TypeOK, DeliverersOK, LocalOK, Local, JournalOK, ClaimsOK, AgentOK,
     FaultsOK, Reading, ClaimPcs, Holding, PushPcs, NudgePcs, DonePcs
<1> QED
  BY <1>1, ShapeHolds, PTL

-----------------------------------------------------------------------------
(* A message the journal calls delivered.                                  *)

\* The agent has the message, is about to get it, or lost it with its reader.
Reached(m) == \/ injected[m] + polled[m] > 0
              \/ \E r \in Readers : m \in rd[r].batch
              \/ m \in dropped

\* A reader at rest owes the agent nothing.
RestingOwesNothing == \A r \in Readers : rd[r].pc = "idle" => rd[r].batch = {}

\* A deliverer that is about to acknowledge has had its turn accepted.
AckAfterTurn == \A d \in Deliverers : dl[d].pc = "ack" => injected[dl[d].msg] > 0

Settled == RestingOwesNothing /\ AckAfterTurn /\ DeliveredMeansConsumed

\* The step of the model that only the agent's side sees.
LEMMA AgentSide ==
  ASSUME Shape, [Next]_vars
  PROVE  \/ UNCHANGED <<rd, outcome>>
         \/ \E d \in Deliverers : Accept(d) \/ AcceptUnheard(d)
         \/ \E r \in Readers : \/ ReadInbox(r) \/ Return(r) \/ ReaderCrash(r)
                               \/ \E m \in Messages : Filter(r, m) \/ AckRead(r, m)
  BY DEF Next, Time, vars, DelivererStep, Claiming, Pushing, Notifying, ReadStep, Enqueue,
     TtlPasses, NoticeAges, ClaimAges, CreateClaim, StatClaim, BreakClaim, Release, Pick,
     Recheck, Refuse, Ack, BeginNotify, PaneReady, PaneBusy, Nudge, NudgeFails,
     MarkNotified, DelivererCrash, IgnoreNudge

\* An accepted turn adds to what the agent was given.
LEMMA TurnAccepted ==
  ASSUME Shape, NEW d \in Deliverers, Accept(d) \/ AcceptUnheard(d)
  PROVE  /\ injected' = [injected EXCEPT ![dl[d].msg] = @ + 1] /\ dl[d].msg \in Messages
         /\ dl[d].pc = "inject" /\ UNCHANGED <<rd, polled, dropped>>
         /\ \A m \in Messages : injected'[m] \in {injected[m], injected[m] + 1}
  BY PushedMessage DEF Shape, Accept, AcceptUnheard, AgentOK, PushPcs

\* A reader at rest owes nothing, and what has reached the agent is never
\* taken back.
LEMMA OnlyMore ==
  ASSUME Shape, RestingOwesNothing, [Next]_vars
  PROVE  /\ RestingOwesNothing'
         /\ \A m \in Messages : injected'[m] >= injected[m]
         /\ \A m \in Messages : Reached(m) => Reached(m)'
<1> USE DEF Shape
<1>1. CASE UNCHANGED <<rd, outcome>>
  BY <1>1 DEF RestingOwesNothing, Reached, outcome, AgentOK
<1>2. ASSUME NEW d \in Deliverers, Accept(d) \/ AcceptUnheard(d)
      PROVE  /\ RestingOwesNothing'
             /\ \A m \in Messages : injected'[m] >= injected[m]
             /\ \A m \in Messages : Reached(m) => Reached(m)'
  BY <1>2, TurnAccepted DEF RestingOwesNothing, Reached, AgentOK
<1>3. ASSUME NEW r \in Readers, ReadInbox(r)
      PROVE  /\ RestingOwesNothing'
             /\ \A m \in Messages : injected'[m] >= injected[m]
             /\ \A m \in Messages : Reached(m) => Reached(m)'
  <2>1. /\ rd[r].batch = {} /\ UNCHANGED outcome
        /\ \A q \in Readers : rd'[q].batch = rd[q].batch
        /\ \A q \in Readers : rd'[q].pc = "idle" => rd[q].pc = "idle"
    BY <1>3 DEF ReadInbox, RestingOwesNothing, AgentOK, Resting
  <2> QED
    BY <2>1 DEF RestingOwesNothing, Reached, outcome, AgentOK
<1>4. ASSUME NEW r \in Readers, NEW n \in Messages, Filter(r, n) \/ AckRead(r, n)
      PROVE  /\ RestingOwesNothing'
             /\ \A m \in Messages : injected'[m] >= injected[m]
             /\ \A m \in Messages : Reached(m) => Reached(m)'
  <2>1. /\ UNCHANGED outcome
        /\ \A q \in Readers : rd'[q].pc = rd[q].pc
        /\ \A q \in Readers : rd[q].batch \subseteq rd'[q].batch
        /\ \A q \in Readers : rd[q].pc = "idle" => rd'[q].batch = rd[q].batch
    BY <1>4 DEF Filter, AckRead, AgentOK, Reading
  <2> QED
    BY <2>1 DEF RestingOwesNothing, Reached, outcome, AgentOK
<1>5. ASSUME NEW r \in Readers, Return(r) \/ ReaderCrash(r)
      PROVE  /\ RestingOwesNothing'
             /\ \A m \in Messages : injected'[m] >= injected[m]
             /\ \A m \in Messages : Reached(m) => Reached(m)'
  <2>1. /\ UNCHANGED injected /\ rd'[r] = Resting
        /\ \A q \in Readers \ {r} : rd'[q] = rd[q]
    BY <1>5 DEF Return, ReaderCrash, AgentOK
  <2>2. RestingOwesNothing'
    BY <2>1 DEF RestingOwesNothing, Resting
  <2>3. /\ \A m \in Messages : polled'[m] >= polled[m]
        /\ dropped \subseteq dropped'
        /\ \A m \in Messages : m \in rd[r].batch => polled'[m] > 0 \/ m \in dropped'
    BY <1>5 DEF Return, ReaderCrash, AgentOK
  <2>4. ASSUME NEW m \in Messages, Reached(m) PROVE Reached(m)'
    <3>1. /\ injected[m] \in Nat /\ polled[m] \in Nat /\ injected'[m] \in Nat
          /\ polled'[m] \in Nat
      BY <2>1, AgentSteps DEF AgentOK
    <3>2. CASE injected[m] + polled[m] > 0
      BY <2>1, <2>3, <3>1, <3>2 DEF Reached
    <3>3. CASE m \in dropped
      BY <2>3, <3>3 DEF Reached
    <3>4. ASSUME NEW q \in Readers, m \in rd[q].batch PROVE Reached(m)'
      <4>1. CASE q = r
        BY <2>1, <2>3, <3>1, <3>4, <4>1 DEF Reached
      <4>2. CASE q # r
        BY <2>1, <3>4, <4>2 DEF Reached
      <4> QED
        BY <4>1, <4>2
    <3> QED
      BY <2>4, <3>2, <3>3, <3>4 DEF Reached
  <2> QED
    BY <2>1, <2>2, <2>4 DEF AgentOK
<1> QED
  BY <1>1, <1>2, <1>3, <1>4, <1>5, AgentSide

\* Whoever stands before an acknowledgement came from an accepted turn.
LEMMA AckSteps ==
  ASSUME Shape, Settled, [Next]_vars, NEW e \in Deliverers, dl'[e].pc = "ack"
  PROVE  injected'[dl'[e].msg] > 0
<1> USE DEF Shape
<1>1. CASE dl'[e] = dl[e]
  <2>1. dl[e].msg \in Messages /\ injected[dl[e].msg] > 0
    BY <1>1, PushedMessage DEF Settled, AckAfterTurn, PushPcs
  <2> QED
    BY <1>1, <2>1, OnlyMore, AgentSteps DEF Settled, AgentOK
<1>2. CASE dl'[e] # dl[e]
  <2>1. Accept(e) /\ dl'[e].msg = dl[e].msg
    BY <1>2, Movers DEF Moved, Origin, DeliverersOK
  <2> QED
    BY <2>1, TurnAccepted DEF AgentOK
<1> QED
  BY <1>1, <1>2

\* A message becomes delivered by an acknowledgement only: of a deliverer, or
\* of a reader that has it in its batch.
LEMMA WhoSettles ==
  ASSUME Shape, [Next]_vars, NEW m \in Messages,
         ledger'[m] = "delivered", ledger[m] # "delivered"
  PROVE  \/ \E d \in Deliverers : Ack(d) /\ m = dl[d].msg
         \/ \E r \in Readers : AckRead(r, m)
<1> USE DEF Shape
<1>1. ~ReadPending /\ ledger' # ledger
  BY DEF ReadPending, JournalOK
<1>2. ASSUME NEW n \in Messages, Acknowledge(n) PROVE n = m
  BY <1>2 DEF Acknowledge, JournalOK
<1>3. ASSUME NEW n \in Messages, Enqueue(n) PROVE FALSE
  BY <1>3 DEF Enqueue, JournalOK
<1>4. ASSUME NEW d \in Deliverers, Ack(d) PROVE m = dl[d].msg
  BY <1>2, <1>4, PushedMessage DEF Ack, PushPcs
<1>5. ASSUME NEW r \in Readers, NEW n \in Messages, AckRead(r, n) PROVE AckRead(r, m)
  BY <1>2, <1>5 DEF AckRead
<1> QED
  BY <1>1, <1>3, <1>4, <1>5 DEF Next, Time, vars, DelivererStep, Claiming, Pushing,
     Notifying, ReadStep, TtlPasses, NoticeAges, ClaimAges, CreateClaim, StatClaim,
     BreakClaim, Release, Pick, Recheck, Accept, Refuse, AcceptUnheard, BeginNotify,
     PaneReady, PaneBusy, Nudge, NudgeFails, MarkNotified, ReadInbox, Return, Filter,
     ReaderCrash, DelivererCrash, IgnoreNudge

\* Every step keeps what the journal says true.
LEMMA SettledStep == ASSUME Shape, Settled, [Next]_vars PROVE Settled'
<1> USE DEF Shape
<1>1. RestingOwesNothing'
  BY OnlyMore DEF Settled
<1>2. AckAfterTurn'
  BY AckSteps DEF AckAfterTurn
<1>3. ASSUME NEW m \in Messages, ledger'[m] = "delivered" PROVE Reached(m)'
  <2>1. CASE ledger[m] = "delivered"
    BY <2>1, OnlyMore DEF Settled, DeliveredMeansConsumed, Reached
  <2>2. ASSUME NEW d \in Deliverers, Ack(d), m = dl[d].msg PROVE Reached(m)'
    <3>1. Reached(m)
      BY <2>2 DEF Ack, Settled, AckAfterTurn, Reached, AgentOK
    <3> QED
      BY <3>1, OnlyMore DEF Settled
  <2>3. ASSUME NEW r \in Readers, AckRead(r, m) PROVE Reached(m)'
    BY <2>3 DEF AckRead, Reached, AgentOK, Reading
  <2> QED
    BY <1>3, <2>1, <2>2, <2>3, WhoSettles
<1>4. DeliveredMeansConsumed'
  BY <1>3 DEF DeliveredMeansConsumed, Reached
<1> QED
  BY <1>1, <1>2, <1>4 DEF Settled

\* The journal calls a message delivered only when the agent has it, a reader
\* is about to return it, or the reader died with it: whatever deliverer dies,
\* answer is lost or claim is broken, for any number of each.
THEOREM NothingSettledBehindTheAgent == Spec => []DeliveredMeansConsumed
<1>1. Init => Settled
  BY DEF Init, Settled, RestingOwesNothing, AckAfterTurn, DeliveredMeansConsumed, Resting,
     Idle
<1>2. Shape /\ Settled /\ [Next]_vars => Settled'
  BY SettledStep
<1>3. Settled => DeliveredMeansConsumed
  BY DEF Settled
<1> QED
  BY <1>1, <1>2, <1>3, ShapeHolds, PTL DEF Spec

-----------------------------------------------------------------------------
(* One turn for each message, while nobody dies and no answer is lost.     *)

\* Claim files belong to live deliverers and are younger than their stale
\* age; so nobody breaks one, and who holds a claim owns its file.
NothingAged == \A k \in Messages \cup {Inbox} :
                 ~claim[k].old /\ (claim[k].exists => claim[k].owner \in Deliverers)
NobodyBreaks == \A d \in Deliverers : dl[d].pc # "break"
HolderOwns == \A d \in Deliverers :
                dl[d].pc \in Holding => claim[dl[d].key] = ClaimOf(d)
Owned == NothingAged /\ NobodyBreaks /\ HolderOwns

\* A message that is in a turn is settled, or its deliverer is about to settle
\* it; one that is about to be pushed is in no turn, and was enqueued.
TurnSettles == \A m \in Messages :
  injected[m] > 0 => \/ ledger[m] \notin {"absent", "pending"}
                     \/ \E d \in Deliverers : dl[d].pc = "ack" /\ dl[d].msg = m
FirstTurn == \A d \in Deliverers : dl[d].pc = "inject" => injected[dl[d].msg] = 0
PushedIsKnown == \A d \in Deliverers :
  dl[d].pc \in {"inject", "ack"} => ledger[dl[d].msg] # "absent"

\* The inductive invariant.
OneTurn == Owned /\ TurnSettles /\ FirstTurn /\ PushedIsKnown /\ InjectedOnce
OneTurnUnlessFault == faults = 0 => OneTurn

\* Two deliverers never hold the claim of one key.
LEMMA OneHolder ==
  ASSUME Owned, NEW d \in Deliverers, NEW e \in Deliverers, dl[d].pc \in Holding,
         dl[e].pc \in Holding, dl[d].key = dl[e].key
  PROVE  d = e
<1>1. ClaimOf(d) = ClaimOf(e)
  BY DEF Owned, HolderOwns
<1>2. ClaimOf(d).owner = d /\ ClaimOf(e).owner = e
  BY DEF ClaimOf
<1> QED
  BY <1>1, <1>2

\* Steps that are no fault, by whether they touch a deliverer or a claim.
LEMMA FaultlessSteps ==
  ASSUME Shape, [Next]_vars, faults' = 0
  PROVE  /\ faults = 0
         /\ \/ UNCHANGED <<dl, claim>>
            \/ UNCHANGED dl /\ \E k \in Messages \cup {Inbox} : ClaimAges(k)
            \/ \E d \in Deliverers : DelivererStep(d)
<1>1. \A n \in Nat : n + 1 # 0
  OBVIOUS
<1>2. \/ UNCHANGED faults
      \/ faults' = faults + 1
  BY DEF Next, Time, vars, DelivererStep, Claiming, Pushing, Notifying, ReadStep, Enqueue,
     TtlPasses, NoticeAges, ClaimAges, CreateClaim, StatClaim, BreakClaim, Release, Pick,
     Recheck, Accept, Refuse, Ack, AcceptUnheard, BeginNotify, PaneReady, PaneBusy, Nudge,
     NudgeFails, MarkNotified, ReadInbox, Return, Filter, AckRead, ReaderCrash,
     DelivererCrash, IgnoreNudge
<1>3. faults = 0 /\ faults' # faults + 1
  BY <1>1, <1>2 DEF Shape, FaultsOK
<1> QED
  BY <1>3 DEF Next, Time, vars, ReadStep, Enqueue, TtlPasses, NoticeAges, ClaimAges,
     AcceptUnheard, DelivererCrash, ReadInbox, Return, Filter, AckRead, ReaderCrash,
     IgnoreNudge

\* Claims of other keys, and the claims of other deliverers, are left alone.
LEMMA OwnedStep ==
  ASSUME Shape, Owned, ~Slow, [Next]_vars, faults' = 0 PROVE Owned'
<1> USE DEF Shape
<1>1. CASE UNCHANGED <<dl, claim>>
  BY <1>1 DEF Owned, NothingAged, NobodyBreaks, HolderOwns
<1>2. ASSUME NEW k \in Messages \cup {Inbox}, ClaimAges(k) PROVE FALSE
  BY <1>2 DEF ClaimAges, Owned, NothingAged
<1>3. ASSUME NEW d \in Deliverers, DelivererStep(d) PROVE Owned'
  <2>1. PICK x : LocalOK(x) /\ Origin(d, x) /\ dl' = [dl EXCEPT ![d] = x]
    BY <1>3, DelivererMoves DEF Moved
  <2>2. dl'[d] = x /\ \A e \in Deliverers \ {d} : dl'[e] = dl[e]
    BY <2>1 DEF DeliverersOK
  <2>3. ~BreakClaim(d)
    BY DEF BreakClaim, Owned, NobodyBreaks
  <2>4. NobodyBreaks'
    <3>1. \A k \in Messages \cup {Inbox} : ~IsStale(k)
      BY DEF IsStale, Owned, NothingAged
    <3>2. x.pc # "break"
      BY <2>1, <3>1, WorkedKey DEF Origin, StatClaim
    <3> QED
      BY <2>2, <3>2 DEF Owned, NobodyBreaks
  <2>5. CASE CreateClaim(d) /\ ~claim[dl[d].key].exists
    <3>1. dl[d].key \in Messages \cup {Inbox}
      BY <2>5, WorkedKey DEF CreateClaim
    <3>2. claim' = [claim EXCEPT ![dl[d].key] = ClaimOf(d)]
      BY <2>5 DEF CreateClaim
    <3>3. NothingAged'
      BY <3>1, <3>2 DEF ClaimOf, Owned, NothingAged, ClaimsOK
    <3>4. ASSUME NEW e \in Deliverers, dl'[e].pc \in Holding
          PROVE  claim'[dl'[e].key] = ClaimOf(e)
      <4>1. CASE e = d
        BY <2>1, <2>2, <3>1, <3>2, <3>4, <4>1 DEF Origin, ClaimsOK
      <4>2. CASE e # d
        <5>1. dl'[e] = dl[e] /\ claim[dl[e].key] = ClaimOf(e)
          BY <2>2, <3>4, <4>2 DEF Owned, HolderOwns
        <5>2. dl[e].key # dl[d].key
          BY <2>5, <5>1 DEF ClaimOf
        <5> QED
          BY <3>1, <3>2, <5>1, <5>2 DEF ClaimsOK
      <4> QED
        BY <4>1, <4>2
    <3> QED
      BY <2>4, <3>3, <3>4 DEF Owned, HolderOwns
  <2>6. CASE Release(d)
    <3>1. /\ dl[d].pc \in Holding /\ dl[d].key \in Messages \cup {Inbox}
          /\ claim' = [claim EXCEPT ![dl[d].key] = NoClaim]
      BY <2>6, WorkedKey DEF Release, Holding, DonePcs
    <3>2. x.pc \notin Holding
      BY <2>2, <2>6 DEF Release, NotAcquired, Idle, Holding, PushPcs, NudgePcs, DonePcs,
         DeliverersOK
    <3>3. NothingAged'
      BY <3>1 DEF NoClaim, Owned, NothingAged, ClaimsOK
    <3>4. ASSUME NEW e \in Deliverers, dl'[e].pc \in Holding
          PROVE  claim'[dl'[e].key] = ClaimOf(e)
      <4>1. e # d /\ dl'[e] = dl[e]
        BY <2>2, <3>2, <3>4
      <4>2. claim[dl[e].key] = ClaimOf(e) /\ dl[e].key # dl[d].key
        BY <3>1, <3>4, <4>1, OneHolder DEF Owned, HolderOwns
      <4> QED
        BY <3>1, <4>1, <4>2 DEF ClaimsOK
    <3> QED
      BY <2>4, <3>3, <3>4 DEF Owned, HolderOwns
  <2>7. CASE UNCHANGED claim /\ ~(CreateClaim(d) /\ ~claim[dl[d].key].exists)
    <3>1. NothingAged'
      BY <2>7 DEF Owned, NothingAged
    <3>2. HolderOwns'
      BY <2>1, <2>2, <2>7 DEF Origin, Owned, HolderOwns
    <3> QED
      BY <2>4, <3>1, <3>2 DEF Owned
  <2>8. \/ CreateClaim(d) /\ ~claim[dl[d].key].exists
       \/ Release(d)
       \/ UNCHANGED claim
    BY <1>3, <2>3 DEF DelivererStep, Claiming, Pushing, Notifying, CreateClaim, StatClaim,
       Pick, Recheck, Accept, Refuse, Ack, BeginNotify, PaneReady, PaneBusy, Nudge,
       NudgeFails, MarkNotified
  <2> QED
    BY <2>5, <2>6, <2>7, <2>8
<1> QED
  BY <1>1, <1>2, <1>3, FaultlessSteps

\* No step makes a settled message pending again.
LEMMA StaysSettled ==
  ASSUME Shape, [Next]_vars, NEW m \in Messages, ledger[m] \notin {"absent", "pending"}
  PROVE  ledger'[m] \notin {"absent", "pending"}
<1> USE DEF Shape
<1>1. CASE ReadPending
  BY <1>1 DEF ReadPending
<1>2. ASSUME NEW n \in Messages, Acknowledge(n) \/ Enqueue(n)
      PROVE  ledger'[m] \notin {"absent", "pending"}
  BY <1>2 DEF Acknowledge, Enqueue, JournalOK
<1>3. ASSUME NEW d \in Deliverers, Ack(d) PROVE ledger'[m] \notin {"absent", "pending"}
  BY <1>2, <1>3, PushedMessage DEF Ack, PushPcs
<1> QED
  BY <1>1, <1>2, <1>3 DEF Next, Time, vars, DelivererStep, Claiming, Pushing, Notifying,
     ReadStep, TtlPasses, NoticeAges, ClaimAges, CreateClaim, StatClaim, BreakClaim,
     Release, Pick, Recheck, Accept, Refuse, AcceptUnheard, BeginNotify, PaneReady,
     PaneBusy, Nudge, NudgeFails, MarkNotified, ReadInbox, Return, Filter, AckRead,
     ReaderCrash, DelivererCrash, IgnoreNudge

\* What the agent's server was given grows by an accepted turn only.
LEMMA WhoInjects ==
  ASSUME Shape, [Next]_vars, faults' = 0
  PROVE  UNCHANGED injected \/ \E d \in Deliverers : Accept(d)
<1>1. faults = 0 /\ faults' # faults + 1
  BY FaultlessSteps
<1>2. ASSUME NEW d \in Deliverers, DelivererStep(d) PROVE UNCHANGED injected \/ Accept(d)
  BY <1>2 DEF outcome, DelivererStep, Claiming, Pushing, Notifying, CreateClaim, StatClaim,
     BreakClaim, Release, Pick, Recheck, Refuse, Ack, BeginNotify, PaneReady, PaneBusy,
     Nudge, NudgeFails, MarkNotified
<1> QED
  BY <1>1, <1>2 DEF Next, Time, vars, outcome, ReadStep, Enqueue, TtlPasses, NoticeAges,
     ClaimAges, AcceptUnheard, ReadInbox, Return, Filter, AckRead, ReaderCrash,
     DelivererCrash, IgnoreNudge

\* A turn that carries a message leads to its settlement.
LEMMA TurnSettlesStep ==
  ASSUME Shape, OneTurn, [Next]_vars, faults = 0, faults' = 0 PROVE TurnSettles'
<1> USE DEF Shape
<1> SUFFICES ASSUME NEW m \in Messages, injected'[m] > 0,
                    ledger'[m] \in {"absent", "pending"}
             PROVE  \E d \in Deliverers : dl'[d].pc = "ack" /\ dl'[d].msg = m
  BY DEF TurnSettles
<1>1. ledger[m] \in {"absent", "pending"}
  BY StaysSettled
<1>2. ASSUME NEW d \in Deliverers, Accept(d), m = dl[d].msg
      PROVE  dl'[d].pc = "ack" /\ dl'[d].msg = m
  BY <1>2, GoStep DEF Accept, DeliverersOK, Local
<1>3. CASE injected'[m] = injected[m]
  <2>1. PICK d \in Deliverers : dl[d].pc = "ack" /\ dl[d].msg = m
    BY <1>1, <1>3 DEF OneTurn, TurnSettles
  <2>2. CASE dl'[d] = dl[d]
    BY <2>1, <2>2
  <2>3. CASE dl'[d] # dl[d]
    <3>1. DelivererStep(d)
      <4>1. ASSUME NEW e \in Deliverers, e # d, DelivererStep(e) PROVE FALSE
        <5>1. PICK x : dl' = [dl EXCEPT ![e] = x]
          BY <4>1, DelivererMoves DEF Moved
        <5> QED
          BY <2>3, <4>1, <5>1 DEF DeliverersOK
      <4> QED
        BY <2>3, <4>1, FaultlessSteps
    <3>2. Ack(d)
      BY <2>1, <3>1 DEF DelivererStep, Claiming, Pushing, Notifying, CreateClaim, StatClaim,
         BreakClaim, Release, Pick, Recheck, Accept, Refuse, BeginNotify, PaneReady,
         PaneBusy, Nudge, NudgeFails, MarkNotified
    <3>3. ledger[m] = "pending"
      BY <1>1, <2>1 DEF OneTurn, PushedIsKnown
    <3> QED
      BY <2>1, <3>2, <3>3 DEF Ack, Acknowledge, JournalOK
  <2> QED
    BY <2>1, <2>2, <2>3
<1>4. CASE injected'[m] # injected[m]
  <2>1. PICK d \in Deliverers : Accept(d)
    BY <1>4, WhoInjects
  <2>2. m = dl[d].msg
    BY <1>4, <2>1, TurnAccepted DEF AgentOK
  <2> QED
    BY <1>2, <2>1, <2>2
<1> QED
  BY <1>3, <1>4

\* A message that is pushed was enqueued.
LEMMA PushedIsKnownStep ==
  ASSUME Shape, PushedIsKnown, [Next]_vars PROVE PushedIsKnown'
<1> USE DEF Shape
<1> SUFFICES ASSUME NEW e \in Deliverers, dl'[e].pc \in {"inject", "ack"}
             PROVE  ledger'[dl'[e].msg] # "absent"
  BY DEF PushedIsKnown
<1>1. ASSUME NEW m \in Messages, ledger[m] # "absent" PROVE ledger'[m] # "absent"
  <2>1. ASSUME NEW n \in Messages, Acknowledge(n) \/ Enqueue(n) PROVE ledger'[m] # "absent"
    BY <1>1, <2>1 DEF Acknowledge, Enqueue, JournalOK
  <2>2. CASE ReadPending \/ UNCHANGED ledger
    BY <1>1, <2>2 DEF ReadPending
  <2>3. ASSUME NEW d \in Deliverers, Ack(d) PROVE ledger'[m] # "absent"
    BY <2>1, <2>3, PushedMessage DEF Ack, PushPcs
  <2> QED
    BY <2>1, <2>2, <2>3 DEF Next, Time, vars, DelivererStep, Claiming, Pushing, Notifying,
       ReadStep, TtlPasses, NoticeAges, ClaimAges, CreateClaim, StatClaim, BreakClaim,
       Release, Pick, Recheck, Accept, Refuse, AcceptUnheard, BeginNotify, PaneReady,
       PaneBusy, Nudge, NudgeFails, MarkNotified, ReadInbox, Return, Filter, AckRead,
       ReaderCrash, DelivererCrash, IgnoreNudge
<1>2. CASE dl'[e] = dl[e]
  BY <1>1, <1>2, PushedMessage DEF PushedIsKnown, PushPcs
<1>3. CASE dl'[e] # dl[e]
  <2>1. PICK x : LocalOK(x) /\ Origin(e, x) /\ dl'[e] = x
    BY <1>3, Movers DEF Moved, DeliverersOK
  <2>2. CASE Accept(e) /\ x.msg = dl[e].msg
    BY <1>1, <2>1, <2>2, PushedMessage DEF Accept, PushedIsKnown, PushPcs
  <2>3. CASE Recheck(e) /\ dl[e].msg \in Pending /\ x.msg = dl[e].msg
    BY <1>1, <2>1, <2>3 DEF Pending
  <2> QED
    BY <2>1, <2>2, <2>3 DEF Origin
<1> QED
  BY <1>2, <1>3

\* Where a deliverer pushes, the message is in no turn: it was pending under
\* the claim, and nobody else has the claim.
LEMMA FirstTurnStep ==
  ASSUME Shape, OneTurn, Owned', [Next]_vars, faults' = 0 PROVE FirstTurn'
<1> USE DEF Shape
<1> SUFFICES ASSUME NEW e \in Deliverers, dl'[e].pc = "inject"
             PROVE  injected'[dl'[e].msg] = 0
  BY DEF FirstTurn
<1>0. DeliverersOK'
  BY DelivererSteps
<1>1. dl'[e].pc \in Holding /\ dl'[e].key = dl'[e].msg /\ dl'[e].msg \in Messages
  BY <1>0, DeliveryConstants DEF DeliverersOK, LocalOK, Local, Holding, PushPcs
<1>2. injected[dl'[e].msg] = 0
  <2>1. CASE dl'[e] = dl[e]
    BY <2>1 DEF OneTurn, FirstTurn
  <2>2. CASE dl'[e] # dl[e]
    <3>1. Recheck(e) /\ dl[e].msg \in Pending /\ dl'[e].msg = dl[e].msg
      BY <2>2, Movers DEF Moved, Origin, DeliverersOK
    <3>2. ASSUME injected[dl[e].msg] > 0 PROVE FALSE
      <4>1. PICK d \in Deliverers : dl[d].pc = "ack" /\ dl[d].msg = dl[e].msg
        BY <3>1, <3>2 DEF Pending, OneTurn, TurnSettles
      <4>2. dl[d].key = dl[e].key /\ dl[d].pc \in Holding /\ dl[e].pc \in Holding
        BY <3>1, <4>1, PushedMessage DEF Recheck, Holding, PushPcs
      <4> QED
        BY <3>1, <4>1, <4>2, OneHolder DEF OneTurn, Recheck
    <3> QED
      BY <3>1, <3>2 DEF AgentOK, Pending
  <2> QED
    BY <2>1, <2>2
<1>3. ASSUME NEW d \in Deliverers, Accept(d), dl[d].msg = dl'[e].msg PROVE FALSE
  <2>1. dl'[d].pc = "ack" /\ dl'[d].key = dl[d].key /\ dl[d].key = dl[d].msg
    BY <1>3, GoStep, PushedMessage DEF Accept, DeliverersOK, Local, PushPcs
  <2>2. \A o \in Deliverers : dl'[o].pc \in Holding => claim'[dl'[o].key] = ClaimOf(o)
    BY DEF Owned, HolderOwns
  <2>3. ClaimOf(d) = ClaimOf(e)
    BY <1>1, <1>3, <2>1, <2>2 DEF Holding, PushPcs
  <2>4. ClaimOf(d).owner = d /\ ClaimOf(e).owner = e
    BY DEF ClaimOf
  <2> QED
    BY <2>1, <2>3, <2>4
<1>4. injected'[dl'[e].msg] = injected[dl'[e].msg]
  <2>1. ASSUME NEW d \in Deliverers, Accept(d), dl[d].msg # dl'[e].msg
        PROVE  injected'[dl'[e].msg] = injected[dl'[e].msg]
    BY <1>1, <2>1, TurnAccepted DEF AgentOK
  <2> QED
    BY <1>3, <2>1, WhoInjects
<1> QED
  BY <1>2, <1>4

\* A faultless step keeps the inductive invariant.
LEMMA OneTurnStep ==
  ASSUME Shape, OneTurn, ~Slow, [Next]_vars, faults = 0, faults' = 0 PROVE OneTurn'
<1>1. Owned'
  BY OwnedStep DEF OneTurn
<1>2. InjectedOnce'
  <2>1. ASSUME NEW d \in Deliverers, Accept(d), NEW m \in Messages PROVE injected'[m] <= 1
    BY <2>1, TurnAccepted DEF OneTurn, InjectedOnce, FirstTurn, Shape, AgentOK
  <2> QED
    BY <2>1, WhoInjects DEF OneTurn, InjectedOnce
<1> QED
  BY <1>1, <1>2, TurnSettlesStep, FirstTurnStep, PushedIsKnownStep DEF OneTurn

\* No message is put into two turns of the app server while no process has
\* died and no answer was lost, provided a turn is accepted before the claim
\* of its deliverer turns stale: for any number of messages and deliverers.
\* Without that premise the property is false (the run delivery_slow_turn).
THEOREM PushedOnceUnlessFault ==
  ASSUME ~Slow PROVE Spec => []InjectedOnceUnlessFault
<1>1. Init => OneTurnUnlessFault
  BY DEF Init, OneTurnUnlessFault, OneTurn, Owned, NothingAged, NobodyBreaks, HolderOwns,
     TurnSettles, FirstTurn, PushedIsKnown, InjectedOnce, NoClaim, Idle, Holding, PushPcs,
     NudgePcs, DonePcs
<1>2. Shape /\ OneTurnUnlessFault /\ [Next]_vars => OneTurnUnlessFault'
  BY OneTurnStep, FaultlessSteps DEF OneTurnUnlessFault
<1>3. OneTurnUnlessFault => InjectedOnceUnlessFault
  BY DEF OneTurnUnlessFault, OneTurn, InjectedOnceUnlessFault
<1> QED
  BY <1>1, <1>2, <1>3, ShapeHolds, PTL DEF Spec
-----------------------------------------------------------------------------
(* The process of the worker.                                              *)

\* Where a worker is, and what it keeps from step to step.
WorkerPcs ==
  {"unborn", "claim", "inspect", "drain", "observe", "policy", "arm", "sleep", "exit", "unlink",
   "gone"}
WorkerRecord ==
  [pc : WorkerPcs, inspected : Nat, observed : Nat, delivered : BOOLEAN,
   wait : {"startup", "settle", "retry", "heartbeat"}]

WShape ==
  /\ version \in 0..MaxVersion /\ pending \subseteq W!Ids /\ noted \subseteq pending
  /\ file \in W!Workers \cup {W!NoPid} /\ active \in BOOLEAN /\ deaths \in 0..MaxDeaths
  /\ sender \in [W!Ids -> {"idle", "ensure", "clear", "spawn", "write", "queued", "accepted"}]
  /\ worker \in [W!Workers -> WorkerRecord]

\* No worker knows a version that is still to come; one that waits for the heartbeat saw an
\* empty journal at the version it waits on.
Waits ==
  \A w \in W!Workers :
    /\ worker[w].inspected <= version /\ worker[w].observed <= version
    /\ worker[w].pc \in {"arm", "sleep"} /\ worker[w].wait = "heartbeat"
         /\ worker[w].observed = version => pending = {}

\* Without a pid in the file, a call is about to write one, or somebody took it away and is gone.
Named ==
  deaths = 0 /\ file = W!NoPid =>
    \/ \E i \in W!Ids : sender[i] \in {"spawn", "write"}
    \/ \A w \in W!Workers : worker[w].pc = "unborn"
    \/ \E w \in W!Workers : worker[w].pc = "gone"

WorkerInv == WShape /\ Waits /\ Named

\* The count of the instance is the count of the library.
LEMMA SameCount ==
  ASSUME NEW S PROVE W!Cardinality(S) = Cardinality(S)
BY DEF W!Cardinality, Cardinality, W!IsFiniteSet, IsFiniteSet

\* There are finitely many calls, and 0 is none of them.
LEMMA IdsNat ==
  ASSUME W!WorkerConstants
  PROVE  IsFiniteSet(W!Ids) /\ W!Ids \subseteq Nat \ {W!NoPid}
<1>1. W!Ids = 1..Len(Posted) /\ Len(Posted) \in Nat
  BY DEF W!WorkerConstants, W!Ids
<1>2. IsFiniteSet(1..Len(Posted))
  BY <1>1, FS_Interval
<1> QED
  BY <1>1, <1>2 DEF W!NoPid

\* The messages for an agent are finitely many.
LEMMA ForNat ==
  ASSUME W!WorkerConstants, pending \subseteq W!Ids, NEW t
  PROVE  Cardinality(W!For(t)) \in Nat
<1>1. W!For(t) \subseteq W!Ids
  BY DEF W!For
<1> QED
  BY <1>1, IdsNat, FS_Subset, FS_CardinalityType

\* The types hold on if the journal and the worker keep theirs, and nothing else changes.
LEMMA Untouched ==
  ASSUME WShape, UNCHANGED <<file, active, sender, deaths>>,
         version' \in 0..MaxVersion, pending' \subseteq W!Ids, noted' \subseteq pending',
         worker' \in [W!Workers -> WorkerRecord]
  PROVE  WShape'
BY DEF WShape

\* A worker that has drained is one that may.
LEMMA DrainedOK ==
  ASSUME WShape, NEW w \in W!Workers, NEW b \in BOOLEAN, W!Drained(w, b)
  PROVE  worker' \in [W!Workers -> WorkerRecord]
<1> DEFINE r == [worker[w] EXCEPT !.pc = "observe", !.delivered = b]
<1>1. worker[w] \in WorkerRecord /\ worker \in [W!Workers -> WorkerRecord]
  BY DEF WShape
<1>2. r \in WorkerRecord
  BY <1>1 DEF WorkerRecord, WorkerPcs
<1>3. worker' = [worker EXCEPT ![w] = r]
  BY <1>1 DEF W!Drained
<1> QED
  BY <1>1, <1>2, <1>3

\* The app server took a message.
LEMMA DeliverShape ==
  ASSUME W!WorkerConstants, WShape, NEW w \in W!Workers, W!Deliver(w) PROVE WShape'
<1>1. /\ W!Grow(1) /\ pending' \subseteq pending /\ noted' = noted \cap pending'
      /\ W!Drained(w, TRUE) /\ UNCHANGED <<file, active, sender, deaths>>
  BY DEF W!Deliver
<1>2. version' \in 0..MaxVersion
  BY <1>1 DEF W!Grow, W!WorkerConstants, WShape
<1>3. pending' \subseteq W!Ids /\ noted' \subseteq pending'
  BY <1>1 DEF WShape
<1> QED
  BY <1>1, <1>2, <1>3, DrainedOK, Untouched

\* The pane of an agent was told of its messages.
LEMMA NudgeShape ==
  ASSUME W!WorkerConstants, WShape, NEW w \in W!Workers, W!Nudge(w) PROVE WShape'
<1>1. PICK t \in W!Nudgeable : W!Grow(Cardinality(W!For(t))) /\ noted' = noted \cup W!For(t)
  BY SameCount DEF W!Nudge
<1>2. W!Drained(w, TRUE) /\ UNCHANGED <<pending, file, active, sender, deaths>>
  BY DEF W!Nudge
<1>3. Cardinality(W!For(t)) \in Nat
  BY ForNat DEF WShape
<1>4. version' \in 0..MaxVersion
  BY <1>1, <1>3 DEF W!Grow, W!WorkerConstants, WShape
<1>5. pending' \subseteq W!Ids /\ noted' \subseteq pending'
  BY <1>1, <1>2 DEF W!For, WShape
<1> QED
  BY <1>2, <1>4, <1>5, DrainedOK, Untouched

\* Every step keeps the types.
LEMMA WShapeStep ==
  ASSUME W!WorkerConstants, WShape, [W!Next]_(W!vars) PROVE WShape'
<1> USE DEF WShape, W!Workers, WorkerPcs
<1>1. ASSUME NEW i \in W!Ids, W!Call(i) PROVE WShape'
  <2>1. CASE W!Enqueue(i)
    BY <2>1 DEF W!Enqueue, W!Grow, W!WorkerConstants
  <2>2. CASE W!Ensure(i) \/ W!Clear(i) \/ W!WritePid(i)
    BY <2>2 DEF W!Ensure, W!Clear, W!WritePid
  <2>3. CASE W!Spawn(i)
    BY <2>3 DEF W!Spawn, WorkerRecord
  <2>4. CASE W!SpawnFails(i)
    BY <2>4 DEF W!SpawnFails, W!WorkerConstants
  <2> QED
    BY <1>1, <2>1, <2>2, <2>3, <2>4 DEF W!Call
<1>2. ASSUME NEW w \in W!Workers, W!Run(w) \/ W!WorkerDies(w) PROVE WShape'
  <2>1. CASE W!ReadClaim(w) \/ W!Inspect(w)
    BY <2>1 DEF W!ReadClaim, W!Inspect, WorkerRecord
  <2>2. CASE W!Deliver(w)
    BY <2>2, DeliverShape
  <2>3. CASE W!Nudge(w)
    BY <2>3, NudgeShape
  <2>4. CASE W!Nothing(w) \/ W!Observe(w) \/ W!WaitPolicy(w)
    BY <2>4 DEF W!Nothing, W!Drained, W!Observe, W!WaitPolicy, WorkerRecord
  <2>5. CASE W!Arm(w) \/ W!Leave(w) \/ W!Unlink(w)
    BY <2>5 DEF W!Arm, W!Leave, W!Unlink, WorkerRecord
  <2>6. ASSUME NEW p \in WorkerPcs PROVE [W!Unborn EXCEPT !.pc = p] \in WorkerRecord
    BY DEF W!Unborn, WorkerRecord
  <2>7. CASE W!Wake(w)
    BY <2>6, <2>7 DEF W!Wake
  <2>8. CASE W!WorkerDies(w)
    <3>1. deaths' \in 0..MaxDeaths
      BY <2>8 DEF W!WorkerDies, W!WorkerConstants
    <3> QED
      BY <2>6, <2>8, <3>1 DEF W!WorkerDies
  <2> QED
    BY <1>2, <2>1, <2>2, <2>3, <2>4, <2>5, <2>7, <2>8 DEF W!Run
<1>3. ASSUME NEW t \in {"claude", "codex"}, W!Receive(t) PROVE WShape'
  <2>1. version' \in 0..MaxVersion
    BY <1>3, ForNat, SameCount DEF W!Receive, W!Grow, W!WorkerConstants
  <2> QED
    BY <1>3, <2>1 DEF W!Receive
<1>4. CASE W!NoticeAges \/ W!RunEnds \/ UNCHANGED W!vars
  BY <1>4 DEF W!NoticeAges, W!RunEnds, W!vars
<1> QED
  BY <1>1, <1>2, <1>3, <1>4 DEF W!Next

\* The journal grows with every message that comes in.
LEMMA JournalGrows ==
  ASSUME W!WorkerConstants, WShape, [W!Next]_(W!vars)
  PROVE  /\ version' >= version /\ version \in Nat /\ version' \in Nat
         /\ version' = version => pending' \subseteq pending
<1> USE DEF WShape, W!Grow
<1>0. version \in Nat /\ version' \in Nat
  BY WShapeStep DEF W!WorkerConstants
<1>1. ASSUME NEW i \in W!Ids, W!Call(i)
      PROVE  version' >= version /\ (version' = version => pending' \subseteq pending)
  BY <1>0, <1>1 DEF W!Call, W!Enqueue, W!Ensure, W!Clear, W!Spawn, W!SpawnFails, W!WritePid
<1>2. ASSUME NEW w \in W!Workers, W!Run(w) \/ W!WorkerDies(w)
      PROVE  version' >= version /\ (version' = version => pending' \subseteq pending)
  <2>1. CASE W!Nudge(w)
    BY <1>0, <2>1, ForNat, SameCount DEF W!Nudge
  <2>2. CASE W!Deliver(w)
    BY <1>0, <2>2 DEF W!Deliver
  <2>3. CASE UNCHANGED <<version, pending>>
    BY <1>0, <2>3
  <2> QED
    BY <1>2, <2>1, <2>2, <2>3 DEF W!Run, W!ReadClaim, W!Inspect, W!Nothing, W!Drained, W!Observe,
       W!WaitPolicy, W!Arm, W!Wake, W!Leave, W!Unlink, W!WorkerDies
<1>3. ASSUME NEW t \in {"claude", "codex"}, W!Receive(t)
      PROVE  version' >= version /\ (version' = version => pending' \subseteq pending)
  BY <1>0, <1>3, ForNat, SameCount DEF W!Receive
<1>4. CASE W!NoticeAges \/ W!RunEnds \/ UNCHANGED W!vars
  BY <1>0, <1>4 DEF W!NoticeAges, W!RunEnds, W!vars
<1> QED
  BY <1>0, <1>1, <1>2, <1>3, <1>4 DEF W!Next

\* A step that changes what is pending for the worse also changes the version.
LEMMA WaitsStep == ASSUME W!WorkerConstants, WorkerInv, [W!Next]_(W!vars) PROVE Waits'
<1> USE DEF WorkerInv
<1>1. /\ version' >= version /\ version \in Nat /\ version' \in Nat
      /\ version' = version => pending' \subseteq pending
  BY JournalGrows
<1> SUFFICES ASSUME NEW v \in W!Workers
             PROVE  /\ worker'[v].inspected <= version' /\ worker'[v].observed <= version'
                    /\ worker'[v].pc \in {"arm", "sleep"} /\ worker'[v].wait = "heartbeat"
                         /\ worker'[v].observed = version' => pending' = {}
  BY DEF Waits
<1>2. worker[v] \in WorkerRecord
  BY DEF WShape
<1>3. CASE worker'[v] = worker[v]
  BY <1>1, <1>2, <1>3 DEF Waits, WorkerRecord
<1>4. CASE W!Spawn(v)
  BY <1>1, <1>2, <1>4 DEF W!Spawn, Waits, WorkerRecord, WShape
<1>5. CASE W!Run(v) \/ W!WorkerDies(v)
  <2>1. CASE W!ReadClaim(v) \/ W!Inspect(v)
    BY <1>1, <1>2, <2>1 DEF W!ReadClaim, W!Inspect, Waits, WorkerRecord, WShape
  <2>2. CASE W!Deliver(v) \/ W!Nudge(v) \/ W!Nothing(v)
    BY <1>1, <1>2, <2>2 DEF W!Deliver, W!Nudge, W!Nothing, W!Drained, Waits, WorkerRecord,
       WShape
  <2>3. CASE W!Observe(v)
    BY <1>1, <1>2, <2>3 DEF W!Observe, Waits, WorkerRecord, WShape
  <2>4. CASE W!WaitPolicy(v)
    BY <1>1, <1>2, <2>4 DEF W!WaitPolicy, Waits, WorkerRecord, WShape
  <2>5. CASE W!Arm(v)
    BY <1>1, <1>2, <2>5 DEF W!Arm, Waits, WorkerRecord, WShape
  <2>6. CASE W!Wake(v) \/ W!WorkerDies(v)
    BY <1>1, <2>6 DEF W!Wake, W!WorkerDies, W!Unborn, WShape
  <2>7. CASE W!Leave(v) \/ W!Unlink(v)
    BY <1>1, <1>2, <2>7 DEF W!Leave, W!Unlink, Waits, WorkerRecord, WShape
  <2> QED
    BY <1>5, <2>1, <2>2, <2>3, <2>4, <2>5, <2>6, <2>7 DEF W!Run
<1>6. ASSUME NEW i \in W!Ids, W!Call(i) PROVE worker'[v] = worker[v] \/ W!Spawn(v)
  BY <1>6 DEF W!Call, W!Enqueue, W!Ensure, W!Clear, W!Spawn, W!SpawnFails, W!WritePid,
     WShape
<1>7. ASSUME NEW w \in W!Workers, W!Run(w) \/ W!WorkerDies(w), w # v PROVE worker'[v] = worker[v]
  BY <1>7 DEF W!Run, W!ReadClaim, W!Inspect, W!Deliver, W!Nudge, W!Nothing, W!Drained, W!Observe,
     W!WaitPolicy, W!Arm, W!Wake, W!Leave, W!Unlink, W!WorkerDies, WShape
<1>8. ASSUME \/ \E t \in {"claude", "codex"} : W!Receive(t)
             \/ W!NoticeAges \/ W!RunEnds \/ UNCHANGED W!vars
      PROVE  worker'[v] = worker[v]
  BY <1>8 DEF W!Receive, W!NoticeAges, W!RunEnds, W!vars
<1> QED
  BY <1>3, <1>4, <1>5, <1>6, <1>7, <1>8 DEF W!Next

\* Whoever empties the file is about to write a pid into it, or leaves.
LEMMA NamedStep == ASSUME W!WorkerConstants, WorkerInv, [W!Next]_(W!vars) PROVE Named'
<1> USE DEF WorkerInv
<1>1. deaths \in Nat /\ W!Ids \subseteq Nat \ {W!NoPid}
  BY IdsNat DEF WShape, W!WorkerConstants
<1>2. ASSUME NEW i \in W!Ids, W!Call(i) PROVE Named'
  <2>1. CASE W!Enqueue(i) \/ W!Ensure(i)
    BY <2>1 DEF W!Enqueue, W!Ensure, Named, WShape
  <2>2. CASE W!Clear(i) \/ W!Spawn(i)
    BY <2>2 DEF W!Clear, W!Spawn, Named, WShape
  <2>3. CASE W!SpawnFails(i)
    BY <1>1, <2>3 DEF W!SpawnFails, Named
  <2>4. CASE W!WritePid(i)
    BY <1>1, <2>4 DEF W!WritePid, Named
  <2> QED
    BY <1>2, <2>1, <2>2, <2>3, <2>4 DEF W!Call
<1>3. ASSUME NEW w \in W!Workers, W!Run(w) PROVE Named'
  <2>1. worker[w].pc \notin {"unborn", "gone"} /\ UNCHANGED <<sender, deaths>>
    BY <1>3 DEF W!Run, W!ReadClaim, W!Inspect, W!Deliver, W!Nudge, W!Nothing, W!Drained,
       W!Observe, W!WaitPolicy, W!Arm, W!Wake, W!Leave, W!Unlink
  <2>2. \A v \in W!Workers \ {w} : worker'[v] = worker[v]
    BY <1>3 DEF W!Run, W!ReadClaim, W!Inspect, W!Deliver, W!Nudge, W!Nothing, W!Drained,
       W!Observe, W!WaitPolicy, W!Arm, W!Wake, W!Leave, W!Unlink, WShape
  <2>3. UNCHANGED file \/ worker'[w].pc = "gone"
    <3>1. CASE W!Unlink(w)
      BY <3>1 DEF W!Unlink, WShape, WorkerRecord
    <3>2. CASE ~W!Unlink(w)
      BY <1>3, <3>2 DEF W!Run, W!ReadClaim, W!Inspect, W!Deliver, W!Nudge, W!Nothing, W!Observe,
         W!WaitPolicy, W!Arm, W!Wake, W!Leave
    <3> QED
      BY <3>1, <3>2
  <2> QED
    BY <2>1, <2>2, <2>3 DEF Named
<1>4. ASSUME NEW w \in W!Workers, W!WorkerDies(w) PROVE Named'
  BY <1>1, <1>4 DEF W!WorkerDies, Named
<1>5. ASSUME \/ \E t \in {"claude", "codex"} : W!Receive(t)
             \/ W!NoticeAges \/ W!RunEnds \/ UNCHANGED W!vars
      PROVE  Named'
  BY <1>5 DEF W!Receive, W!NoticeAges, W!RunEnds, W!vars, Named
<1> QED
  BY <1>2, <1>3, <1>4, <1>5 DEF W!Next

\* The invariant holds at first.
LEMMA WorkerInit == ASSUME W!WorkerConstants, W!Init PROVE WorkerInv
BY DEF W!WorkerConstants, W!Init, WorkerInv, WShape, Waits, Named, W!Unborn, WorkerRecord,
   WorkerPcs, W!Workers

\* Of two workers that were started one has left when the file names nobody.
LEMMA KeptInside == ASSUME W!WorkerConstants, WorkerInv PROVE W!WorkerKept
<1>1. W!SleepsOnlyWhenEmpty
  BY DEF WorkerInv, Waits, W!SleepsOnlyWhenEmpty
<1>2. W!OneWorkerStays
  <2> SUFFICES ASSUME deaths = 0, \A i \in W!Ids : sender[i] \notin {"clear", "spawn", "write"},
                      Cardinality(W!Started) <= 2
               PROVE  Cardinality({w \in W!Started : W!Alive(w) /\ ~W!Retiring(w)}) <= 1
    BY SameCount DEF W!OneWorkerStays
  <2> DEFINE S == {w \in W!Started : W!Alive(w) /\ ~W!Retiring(w)}
  <2>1. IsFiniteSet(W!Started) /\ Cardinality(W!Started) \in Nat
    BY IdsNat, FS_Subset, FS_CardinalityType DEF W!Started, W!Workers
  <2>2. IsFiniteSet(S) /\ Cardinality(S) \in Nat
    BY <2>1, FS_Subset, FS_CardinalityType
  <2>3. CASE file # W!NoPid
    <3>1. S \subseteq {file}
      BY <2>3 DEF W!Retiring
    <3>2. IsFiniteSet({file}) /\ Cardinality({file}) = 1
      BY FS_Singleton
    <3>3. Cardinality(S) <= Cardinality({file})
      BY <3>1, <3>2, FS_Subset
    <3> QED
      BY <3>2, <3>3
  <2>4. CASE file = W!NoPid /\ \A w \in W!Workers : worker[w].pc = "unborn"
    <3>1. S = {}
      BY <2>4 DEF W!Started
    <3> QED
      BY <3>1, FS_EmptySet
  <2>5. CASE file = W!NoPid /\ \E w \in W!Workers : worker[w].pc = "gone"
    <3>1. PICK g \in W!Started : worker[g].pc = "gone"
      BY <2>5 DEF W!Started
    <3>2. S \subseteq W!Started \ {g}
      BY <3>1 DEF W!Alive
    <3>3. IsFiniteSet(W!Started \ {g}) /\ Cardinality(W!Started \ {g}) = Cardinality(W!Started) - 1
      BY <2>1, <3>1, FS_RemoveElement
    <3>4. Cardinality(S) <= Cardinality(W!Started \ {g})
      BY <3>2, <3>3, FS_Subset
    <3> QED
      BY <2>1, <2>2, <3>3, <3>4
  <2> QED
    BY <2>3, <2>4, <2>5 DEF WorkerInv, Named
<1> QED
  BY <1>1, <1>2 DEF W!WorkerKept

\* A step of the process keeps the invariant.
LEMMA WorkerStep ==
  ASSUME W!WorkerConstants, WorkerInv, [W!Next]_(W!vars) PROVE WorkerInv'
BY WShapeStep, WaitsStep, NamedStep DEF WorkerInv

\* The type invariant of the worker's process: runBridgeWorker never observes or inspects a
\* version of the journal that is still to come.
THEOREM WorkerTypes == ASSUME W!WorkerConstants PROVE W!Spec => []W!TypeOK
<1>1. WorkerInv => W!TypeOK
  BY DEF WorkerInv, WShape, Waits, W!TypeOK, WorkerRecord, WorkerPcs
<1> QED
  BY <1>1, WorkerInit, WorkerStep, PTL DEF W!Spec

\* waitForBridgeWorkerWake never sleeps out the heartbeat over a pending message, and of two
\* workers that ensureBridgeWorker started at most one is not on its way to retire.
THEOREM WorkerHolds == ASSUME W!WorkerConstants PROVE W!Spec => []W!WorkerKept
BY KeptInside, WorkerInit, WorkerStep, PTL DEF W!Spec

-----------------------------------------------------------------------------
(* The journal, as its senders keep it.                                    *)

CallPcs == {"idle", "suppressed", "read", "expire", "duplicate", "append", "queued", "expired",
            "dead-letter", "refused", "crashed"}
CallRecord == [pc : CallPcs, seen : SUBSET Calls, late : SUBSET Calls, old : SUBSET Calls]
ReaderRecord ==
  [pc : {"idle", "expire"}, seen : SUBSET Calls, late : SUBSET Calls, old : SUBSET Calls]

\* Types, for a step that keeps them and one that does not alike.
LShape ==
  /\ journal \in Seq(L!Event) /\ message \in [Calls -> L!Message] /\ born \in Seq(Calls)
  /\ overdue \subseteq Calls /\ crashes \in 0..MaxCrashes
  /\ call \in [Calls -> CallRecord] /\ reader \in [Agents -> ReaderRecord]

\* A line of the journal, and a call with an "at".
Has(k, c) == \E i \in DOMAIN journal : journal[i] = L!Line(k, c)
InBorn(c) == \E i \in DOMAIN born : born[i] = c

\* Pending messages of the sender of c, as far as c saw them.
Backlog(c) == {d \in L!Pending \cap call[c].seen : message[d].from = message[c].from}

\* What a call has read is in the journal for good, its own line comes after its decision, and
\* what it decided still holds for what is pending of that.
CallOK(c) ==
  /\ call[c].pc \in {"idle", "suppressed", "read"} => call[c].seen = {}
  /\ call[c].pc \in {"idle", "suppressed", "read", "expire"} => call[c].old = {}
  /\ call[c].pc \notin {"idle", "suppressed"} => InBorn(c)
  /\ L!Written(c) => call[c].pc \in {"expired", "dead-letter", "queued", "refused", "crashed"}
  /\ call[c].pc \in {"expired", "dead-letter", "queued", "refused"} => L!Written(c)
  /\ call[c].pc = "refused" => L!Resolved(c)
  /\ call[c].pc = "append" => call[c].old # {}
  /\ \A d \in call[c].seen : L!Written(d)
  /\ \A d \in call[c].old : Has("superseded", d)
  /\ call[c].old = {} \/ \E d \in Calls : call[c].old = {d}
  /\ call[c].pc = "queued" => Cardinality(Backlog(c)) < MaxOutstanding
  /\ c \in L!Pending =>
       \A d \in call[c].seen \cap L!Pending : L!Same(c, d) => call[c].old \ {d} # {}

Sent == {c \in Calls : L!Written(c)}

LedgerInv ==
  /\ LShape /\ IsFiniteSet(Sent)
  /\ \A c \in Calls : CallOK(c)
  /\ \A r \in Agents : \A d \in reader[r].seen : L!Written(d)
  /\ \A d \in Calls : Has("superseded", d) =>
       \E c \in Calls : d \in call[c].old /\ (L!Written(c) \/ call[c].pc \in {"append", "crashed"})

\* The count of the instance is the count of the library.
LEMMA LCount == ASSUME NEW S PROVE L!Cardinality(S) = Cardinality(S)
BY DEF L!Cardinality, Cardinality, L!IsFiniteSet, IsFiniteSet

\* What is written and what is settled, by lines.
LEMMA ByLines ==
  ASSUME LShape, NEW c \in Calls
  PROVE  /\ L!Written(c) <=> Has("message", c)
         /\ L!Resolved(c) <=> \E k \in L!Resolutions : Has(k, c)
<1>1. \A i \in DOMAIN journal : journal[i] \in L!Event
  BY DEF LShape
<1> QED
  BY <1>1 DEF L!Written, L!Resolved, Has, L!Line, L!Event

\* And after a step.
LEMMA ByLinesThen ==
  ASSUME LShape', NEW c \in Calls
  PROVE  /\ L!Written(c)' <=> Has("message", c)'
         /\ L!Resolved(c)' <=> \E k \in L!Resolutions : Has(k, c)'
<1>1. \A i \in DOMAIN journal' : journal'[i] \in L!Event
  BY DEF LShape
<1> QED
  BY <1>1 DEF L!Written, L!Resolved, Has, L!Line, L!Event

\* An append adds its line, and takes none away.
LEMMA Appended ==
  ASSUME LShape, NEW k, NEW c, L!Line(k, c) \in L!Event, journal' = Append(journal, L!Line(k, c))
  PROVE  /\ journal' \in Seq(L!Event)
         /\ \A j, d : Has(j, d)' <=> Has(j, d) \/ (j = k /\ d = c)
<1>1. /\ journal \in Seq(L!Event) /\ Len(journal) \in Nat /\ DOMAIN journal = 1..Len(journal)
      /\ DOMAIN journal' = 1..(Len(journal) + 1) /\ journal' \in Seq(L!Event)
      /\ \A i \in 1..Len(journal) : journal'[i] = journal[i]
      /\ journal'[Len(journal) + 1] = L!Line(k, c)
  BY DEF LShape
<1>2. ASSUME NEW j, NEW d PROVE L!Line(j, d) = L!Line(k, c) <=> j = k /\ d = c
  BY DEF L!Line
<1>3. ASSUME NEW j, NEW d PROVE Has(j, d)' <=> Has(j, d) \/ (j = k /\ d = c)
  <2>1. ASSUME Has(j, d) PROVE Has(j, d)'
    BY <1>1, <2>1 DEF Has
  <2>2. ASSUME j = k, d = c PROVE Has(j, d)'
    BY <1>1, <2>2 DEF Has
  <2>3. ASSUME Has(j, d)' PROVE Has(j, d) \/ (j = k /\ d = c)
    <3>1. PICK i \in DOMAIN journal' : journal'[i] = L!Line(j, d)
      BY <2>3 DEF Has
    <3>2. CASE i = Len(journal) + 1
      BY <1>1, <1>2, <3>1, <3>2
    <3>3. CASE i \in 1..Len(journal)
      BY <1>1, <3>1, <3>3 DEF Has
    <3> QED
      BY <1>1, <3>1, <3>2, <3>3
  <2> QED
    BY <2>1, <2>2, <2>3
<1> QED
  BY <1>1, <1>3

\* Of calls that have begun one comes first.
LEMMA OneIsFirst ==
  ASSUME LShape, NEW S \in SUBSET Calls, S # {}, \A c \in S : InBorn(c)
  PROVE  \E c \in S : \A d \in S \ {c} : L!Sooner(c, d)
<1> DEFINE U == {c \in S : message[c].urgent}
           T == IF U # {} THEN U ELSE S
           At == {i \in DOMAIN born : born[i] \in T}
<1>1. T # {} /\ T \subseteq S
  OBVIOUS
<1>2. At \subseteq Nat /\ At # {} /\ DOMAIN born \subseteq Nat
  BY <1>1 DEF LShape, InBorn
<1>3. PICK i \in At : \A j \in At : ~(<<j, i>> \in OpToRel(<, Nat))
  BY <1>2, NatLessThanWellFounded, WFMin
<1>4. \A j \in At : i <= j
  <2> HIDE DEF At
  <2> TAKE j \in At
  <2>1. i \in Nat /\ j \in Nat /\ <<j, i>> \in Nat \X Nat
    BY <1>2
  <2>2. ~(j < i)
    BY <1>3, <2>1 DEF OpToRel
  <2> QED
    BY <2>1, <2>2
<1>5. born[i] \in S
  BY <1>1
<1>6. ASSUME NEW d \in S \ {born[i]} PROVE L!Sooner(born[i], d)
  <2>1. CASE d \in T
    <3>1. PICK j \in DOMAIN born : born[j] = d
      BY DEF InBorn
    <3>2. j \in At /\ i < j
      BY <1>2, <1>4, <2>1, <3>1
    <3>3. message[born[i]].urgent = message[d].urgent
      <4>1. message[born[i]].urgent \in BOOLEAN /\ message[d].urgent \in BOOLEAN
        BY <1>5 DEF LShape, L!Message
      <4> QED
        BY <2>1, <4>1
    <3> QED
      BY <3>1, <3>2, <3>3 DEF L!Sooner
  <2>2. CASE d \notin T
    BY <2>2 DEF L!Sooner
  <2> QED
    BY <2>1, <2>2
<1> QED
  BY <1>5, <1>6

\* What a call has seen is finite, and so is whatever it makes of that.
LEMMA SeenFinite ==
  ASSUME LedgerInv, NEW c \in Calls, NEW S, S \subseteq call[c].seen
  PROVE  IsFiniteSet(S) /\ Cardinality(S) \in Nat
<1>1. call[c].seen \subseteq Sent
  BY DEF LedgerInv, CallOK, Sent, LShape, CallRecord
<1> QED
  BY <1>1, FS_Subset, FS_CardinalityType DEF LedgerInv

\* A call that does not move keeps what it has, whatever else is appended.
LEMMA CallKept ==
  ASSUME L!LedgerConstants, LedgerInv, LShape', NEW c \in Calls, message' = message,
         InBorn(c) => InBorn(c)',
         call'[c].pc = call[c].pc, call'[c].seen = call[c].seen, call'[c].old = call[c].old,
         \A j, d : Has(j, d) => Has(j, d)', Has("message", c)' => Has("message", c)
  PROVE  CallOK(c)'
<1>1. CallOK(c) /\ LShape /\ c \in Calls /\ call[c] \in CallRecord
  BY DEF LedgerInv, LShape
<1>2. L!Written(c)' <=> L!Written(c)
  BY <1>1, ByLines, ByLinesThen
<1>3. \A d \in Calls : L!Resolved(d) => L!Resolved(d)'
  BY <1>1, ByLines, ByLinesThen
<1>4. \A d \in call[c].seen : d \in Calls /\ L!Written(d) /\ L!Written(d)'
  BY <1>1, ByLines, ByLinesThen DEF CallOK, CallRecord
<1>5. L!Pending' \cap call[c].seen \subseteq L!Pending \cap call[c].seen
  BY <1>3, <1>4 DEF L!Pending
<1>6. c \in L!Pending' => c \in L!Pending
  BY <1>2, <1>3 DEF L!Pending
<1>7. call'[c].pc = "queued" => Cardinality(Backlog(c)') < MaxOutstanding
  <2>1. Backlog(c)' \subseteq Backlog(c)
    BY <1>5 DEF Backlog
  <2>2. IsFiniteSet(Backlog(c)) /\ Cardinality(Backlog(c)) \in Nat
    BY SeenFinite DEF Backlog
  <2>3. Cardinality(Backlog(c)') \in Nat /\ Cardinality(Backlog(c)') <= Cardinality(Backlog(c))
    BY <2>1, <2>2, FS_Subset, FS_CardinalityType
  <2> QED
    BY <1>1, <2>2, <2>3 DEF CallOK, L!LedgerConstants
<1>8. ASSUME c \in L!Pending', NEW d \in call'[c].seen \cap L!Pending', L!Same(c, d)'
      PROVE  call'[c].old \ {d} # {}
  BY <1>1, <1>5, <1>6, <1>8 DEF CallOK, L!Same
<1> QED
  BY <1>1, <1>2, <1>3, <1>4, <1>7, <1>8 DEF CallOK

\* Who reads or settles, and time, leave all calls where they are.
LEMMA MarkKeeps ==
  ASSUME L!LedgerConstants, LedgerInv, LShape', message' = message,
         \A d \in Calls : InBorn(d) => InBorn(d)',
         \A j, d : Has(j, d) => Has(j, d)',
         \A d : /\ Has("message", d)' => Has("message", d)
                /\ Has("superseded", d)' => Has("superseded", d),
         \A d \in Calls : /\ call'[d].pc = call[d].pc /\ call'[d].seen = call[d].seen
                          /\ call'[d].old = call[d].old,
         \A r \in Agents : \A d \in reader'[r].seen : L!Written(d)
  PROVE  LedgerInv'
<1>1. LShape
  BY DEF LedgerInv
<1>2. \A c \in Calls : L!Written(c)' <=> L!Written(c)
  BY <1>1, ByLines, ByLinesThen
<1>3. \A c \in Calls : CallOK(c)'
  BY CallKept
<1>4. IsFiniteSet(Sent)'
  <2>1. Sent' = Sent
    BY <1>2 DEF Sent
  <2> QED
    BY <2>1 DEF LedgerInv
<1>5. \A r \in Agents : reader'[r].seen \subseteq Calls
  BY DEF LShape, ReaderRecord
<1>6. \A r \in Agents : \A d \in reader'[r].seen : L!Written(d)'
  BY <1>2, <1>5
<1>7. ASSUME NEW d \in Calls, Has("superseded", d)'
      PROVE  \E c \in Calls : /\ d \in call'[c].old
                              /\ L!Written(c)' \/ call'[c].pc \in {"append", "crashed"}
  BY <1>2, <1>7 DEF LedgerInv
<1> QED
  BY <1>3, <1>4, <1>6, <1>7 DEF LedgerInv

\* One call goes on, and is as it should be; the others may be left out.
LEMMA CallKeeps ==
  ASSUME L!LedgerConstants, LedgerInv, LShape', message' = message, reader' = reader,
         NEW c \in Calls, CallOK(c)',
         \A d \in Calls : InBorn(d) => InBorn(d)',
         \A j, d : Has(j, d) => Has(j, d)',
         \A d \in Calls \ {c} : call'[d] = call[d] /\ (Has("message", d)' => Has("message", d)),
         \A d : Has("superseded", d)' =>
                  Has("superseded", d) \/ (d \in call'[c].old /\ call'[c].pc = "append"),
         call[c].old # {} =>
           /\ call'[c].old = call[c].old
           /\ call[c].pc \in {"append", "crashed"} =>
                call'[c].pc \in {"append", "crashed"} \/ Has("message", c)'
  PROVE  LedgerInv'
<1>1. LShape
  BY DEF LedgerInv
<1>2. \A d \in Calls : /\ L!Written(d) => L!Written(d)'
                       /\ L!Written(d)' => L!Written(d) \/ d = c
  BY <1>1, ByLines, ByLinesThen
<1>3. \A d \in Calls : CallOK(d)'
  BY CallKept
<1>4. IsFiniteSet(Sent)'
  <2>1. Sent' = Sent \/ Sent' = Sent \cup {c}
    BY <1>2 DEF Sent
  <2> QED
    BY <2>1, FS_AddElement DEF LedgerInv
<1>5. \A r \in Agents : reader[r].seen \subseteq Calls
  BY <1>1 DEF LShape, ReaderRecord
<1>6. \A r \in Agents : \A d \in reader'[r].seen : L!Written(d)'
  BY <1>2, <1>5 DEF LedgerInv
<1>7. ASSUME NEW d \in Calls, Has("superseded", d)'
      PROVE  \E e \in Calls : /\ d \in call'[e].old
                              /\ L!Written(e)' \/ call'[e].pc \in {"append", "crashed"}
  <2>1. CASE d \in call'[c].old /\ call'[c].pc = "append"
    BY <2>1
  <2>2. CASE Has("superseded", d)
    <3>1. PICK e \in Calls : /\ d \in call[e].old
                             /\ L!Written(e) \/ call[e].pc \in {"append", "crashed"}
      BY <2>2 DEF LedgerInv
    <3>2. CASE e # c
      BY <1>2, <3>1, <3>2
    <3>3. CASE e = c
      BY <1>1, <1>2, <3>1, <3>3, ByLinesThen
    <3> QED
      BY <3>2, <3>3
  <2> QED
    BY <1>7, <2>1, <2>2
<1> QED
  BY <1>3, <1>4, <1>6, <1>7 DEF LedgerInv

\* Nothing is appended.
LEMMA SameJournal == ASSUME journal' = journal PROVE \A j, d : Has(j, d)' <=> Has(j, d)
BY DEF Has
\* Nobody begins.
LEMMA SameBorn == ASSUME born' = born PROVE \A d : InBorn(d)' <=> InBorn(d)
BY DEF InBorn

\* The fields of a call keep their types.
LEMMA CallTypes ==
  ASSUME LShape, NEW c \in Calls, NEW p \in CallPcs, NEW late \in SUBSET Calls,
         NEW old \in SUBSET Calls
  PROVE  /\ [call EXCEPT ![c].pc = p] \in [Calls -> CallRecord]
         /\ [call EXCEPT ![c].late = late] \in [Calls -> CallRecord]
         /\ [call EXCEPT ![c].pc = p, ![c].old = old] \in [Calls -> CallRecord]
<1>1. call \in [Calls -> CallRecord] /\ call[c] \in CallRecord
  BY DEF LShape
<1>2. [call[c] EXCEPT !.pc = p] \in CallRecord
  BY <1>1 DEF CallRecord
<1>3. [call[c] EXCEPT !.late = late] \in CallRecord
  BY <1>1 DEF CallRecord
<1>4. [call[c] EXCEPT !.pc = p, !.old = old] \in CallRecord
  BY <1>1 DEF CallRecord
<1>5. [call EXCEPT ![c].pc = p] = [call EXCEPT ![c] = [call[c] EXCEPT !.pc = p]]
  BY <1>1
<1>6. [call EXCEPT ![c].late = late] = [call EXCEPT ![c] = [call[c] EXCEPT !.late = late]]
  BY <1>1
<1>7. [call EXCEPT ![c].pc = p, ![c].old = old]
        = [call EXCEPT ![c] = [call[c] EXCEPT !.pc = p, !.old = old]]
  BY <1>1
<1> QED
  BY <1>1, <1>2, <1>3, <1>4, <1>5, <1>6, <1>7

\* A call goes on, and perhaps a line is appended.
LEMMA CallShape ==
  ASSUME LShape, UNCHANGED <<message, born, overdue, reader, crashes>>,
         journal' \in Seq(L!Event), call' \in [Calls -> CallRecord]
  PROVE  LShape'
BY DEF LShape

\* A call begins, or is suppressed.
LEMMA BeginStep ==
  ASSUME L!LedgerConstants, LedgerInv, NEW c \in Calls, L!Begin(c) PROVE LedgerInv'
<1>1. LShape /\ CallOK(c) /\ ~L!Written(c) /\ call[c].seen = {} /\ call[c].old = {}
  BY DEF LedgerInv, CallOK, L!Begin
<1>2. CASE L!Bounces(c)
  <2>1. /\ journal' = Append(journal, L!Line("blocked", c))
        /\ call' = [call EXCEPT ![c].pc = "suppressed"]
        /\ UNCHANGED <<born, message, overdue, reader, crashes>>
    BY <1>2 DEF L!Begin
  <2>2. L!Line("blocked", c) \in L!Event
    BY DEF L!Line, L!Event, L!Resolutions
  <2>3. journal' \in Seq(L!Event) /\ \A j, d : Has(j, d)' <=> Has(j, d) \/ (j = "blocked" /\ d = c)
    BY <1>1, <2>1, <2>2, Appended
  <2>4. LShape'
    <3>1. call' \in [Calls -> CallRecord]
      BY <1>1, <2>1, CallTypes DEF CallPcs
    <3> QED
      BY <1>1, <2>1, <2>3, <3>1, CallShape
  <2>5. call'[c].pc = "suppressed" /\ call'[c].seen = {} /\ call'[c].old = {}
    BY <1>1, <2>1 DEF LShape, CallRecord
  <2>6. ~L!Written(c)'
    BY <1>1, <2>3, <2>4, ByLines, ByLinesThen
  <2>7. CallOK(c)'
    BY <2>5, <2>6 DEF CallOK, L!Pending
  <2> QED
    BY <1>1, <2>1, <2>3, <2>4, <2>7, SameBorn, CallKeeps DEF LShape
<1>3. CASE ~L!Bounces(c)
  <2>1. /\ born' = Append(born, c) /\ call' = [call EXCEPT ![c].pc = "read"]
        /\ UNCHANGED <<journal, message, overdue, reader, crashes>>
    BY <1>3 DEF L!Begin
  <2>2. /\ born' \in Seq(Calls) /\ InBorn(c)' /\ \A d \in Calls : InBorn(d) => InBorn(d)'
    <3>1. born \in Seq(Calls) /\ Len(born) \in Nat /\ DOMAIN born = 1..Len(born)
      BY <1>1 DEF LShape
    <3>2. /\ born' \in Seq(Calls) /\ DOMAIN born' = 1..(Len(born) + 1)
          /\ \A i \in 1..Len(born) : born'[i] = born[i]
          /\ born'[Len(born) + 1] = c
      BY <2>1, <3>1
    <3> QED
      BY <3>1, <3>2 DEF InBorn
  <2>3. LShape'
    <3>1. call' \in [Calls -> CallRecord]
      BY <1>1, <2>1, CallTypes DEF CallPcs
    <3> QED
      BY <1>1, <2>1, <2>2, <3>1 DEF LShape
  <2>4. call'[c].pc = "read" /\ call'[c].seen = {} /\ call'[c].old = {}
    BY <1>1, <2>1 DEF LShape, CallRecord
  <2>5. ~L!Written(c)'
    BY <1>1, <2>1, <2>3, SameJournal, ByLines, ByLinesThen
  <2>6. CallOK(c)'
    BY <2>2, <2>4, <2>5 DEF CallOK, L!Pending
  <2> QED
    BY <1>1, <2>1, <2>2, <2>3, <2>6, SameJournal, CallKeeps DEF LShape
<1> QED
  BY <1>2, <1>3

\* What is pending was written.
LEMMA PendingWritten == \A c \in L!Pending : c \in Calls /\ L!Written(c) /\ ~L!Resolved(c)
BY DEF L!Pending

\* A call reads the journal.
LEMMA ReadsStep ==
  ASSUME L!LedgerConstants, LedgerInv, NEW c \in Calls, L!Read(c) PROVE LedgerInv'
<1>1. LShape /\ CallOK(c) /\ ~L!Written(c) /\ InBorn(c) /\ call[c].old = {}
  BY DEF LedgerInv, CallOK, L!Read
<1>2. UNCHANGED <<journal, message, born, overdue, reader, crashes>>
  BY DEF L!Read
<1>3. LShape'
  BY <1>1, <1>2 DEF L!Read, LShape, CallRecord, CallPcs, L!Pending, L!Active
<1>4. call'[c].pc = "expire" /\ call'[c].seen \subseteq L!Pending /\ call'[c].old = {}
  BY <1>1 DEF L!Read, LShape, CallRecord, L!Active
<1>5. \A d \in Calls : L!Written(d)' <=> L!Written(d)
  BY <1>1, <1>2, <1>3, SameJournal, ByLines, ByLinesThen
<1>6. CallOK(c)'
  BY <1>1, <1>2, <1>4, <1>5, SameBorn, PendingWritten DEF CallOK, L!Pending
<1>7. \A d \in Calls \ {c} : call'[d] = call[d]
  BY <1>1 DEF L!Read, LShape
<1> QED
  BY <1>1, <1>2, <1>3, <1>6, <1>7, SameJournal, SameBorn, CallKeeps

\* Overdue messages are settled, whoever found them.
LEMMA ExpireStep ==
  ASSUME L!LedgerConstants, LedgerInv, NEW c \in Calls, L!Expire(c) PROVE LedgerInv'
<1>1. LShape /\ call[c].late \subseteq Calls
  BY DEF LedgerInv, LShape, CallRecord
<1>2. PICK m \in call[c].late : /\ journal' = Append(journal, L!Line("expired", m))
                                /\ call' = [call EXCEPT ![c].late = @ \ {m}]
  BY DEF L!Expire
<1>3. UNCHANGED <<message, born, overdue, reader, crashes>>
  BY DEF L!Expire
<1>4. L!Line("expired", m) \in L!Event
  BY <1>1 DEF L!Line, L!Event, L!Resolutions
<1>5. journal' \in Seq(L!Event) /\ \A j, d : Has(j, d)' <=> Has(j, d) \/ (j = "expired" /\ d = m)
  BY <1>1, <1>2, <1>4, Appended
<1>6. LShape'
  <2>1. call' \in [Calls -> CallRecord]
    BY <1>1, <1>2, CallTypes, ZenonT(60) DEF CallPcs
  <2> QED
    BY <1>1, <1>3, <1>5, <2>1, CallShape
<1>7. \A d \in Calls : /\ call'[d].pc = call[d].pc /\ call'[d].seen = call[d].seen
                       /\ call'[d].old = call[d].old
  BY <1>1, <1>2 DEF LShape, CallRecord
<1> QED
  BY <1>3, <1>5, <1>6, <1>7, SameBorn, MarkKeeps DEF LedgerInv

\* The message is there already.
LEMMA ReturnStep ==
  ASSUME L!LedgerConstants, LedgerInv, NEW c \in Calls, L!Return(c) PROVE LedgerInv'
<1>1. LShape /\ CallOK(c) /\ ~L!Written(c) /\ InBorn(c) /\ call[c].old = {}
  BY DEF LedgerInv, CallOK, L!Return, L!Decided
<1>2. /\ UNCHANGED <<journal, message, born, overdue, reader, crashes>>
      /\ call' = [call EXCEPT ![c].pc = "duplicate"]
  BY DEF L!Return
<1>3. LShape'
  <2>1. call' \in [Calls -> CallRecord] /\ journal' \in Seq(L!Event)
    BY <1>1, <1>2, CallTypes DEF CallPcs, LShape
  <2> QED
    BY <1>1, <1>2, <2>1, CallShape
<1>4. call'[c].pc = "duplicate" /\ call'[c].seen = call[c].seen /\ call'[c].old = {}
  BY <1>1, <1>2 DEF LShape, CallRecord
<1>5. \A d \in Calls : L!Written(d)' <=> L!Written(d)
  BY <1>1, <1>2, <1>3, SameJournal, ByLines, ByLinesThen
<1>6. call[c].seen \subseteq Calls
  BY <1>1 DEF LShape, CallRecord
<1>7. CallOK(c)'
  BY <1>1, <1>2, <1>4, <1>5, <1>6, SameBorn DEF CallOK, L!Pending
<1> QED
  BY <1>1, <1>2, <1>3, <1>7, SameJournal, SameBorn, CallKeeps DEF LShape

\* The message that is replaced is settled first.
LEMMA SupersedeStep ==
  ASSUME L!LedgerConstants, LedgerInv, NEW c \in Calls, L!Supersede(c) PROVE LedgerInv'
<1>1. LShape /\ CallOK(c) /\ ~L!Written(c) /\ InBorn(c) /\ call[c].old = {}
  BY DEF LedgerInv, CallOK, L!Supersede, L!Decided
<1>2. PICK d \in L!Duplicate(c) : /\ journal' = Append(journal, L!Line("superseded", d))
                                  /\ call' = [call EXCEPT ![c].pc = "append", ![c].old = {d}]
  BY DEF L!Supersede
<1>3. UNCHANGED <<message, born, overdue, reader, crashes>>
  BY DEF L!Supersede
<1>4. d \in Calls /\ call[c].seen \subseteq Calls
  BY <1>1 DEF L!Duplicate, LShape, CallRecord
<1>5. L!Line("superseded", d) \in L!Event
  BY <1>4 DEF L!Line, L!Event, L!Resolutions
<1>6. /\ journal' \in Seq(L!Event)
      /\ \A j, e : Has(j, e)' <=> Has(j, e) \/ (j = "superseded" /\ e = d)
  BY <1>1, <1>2, <1>5, Appended
<1>7. LShape'
  <2>1. "append" \in CallPcs /\ {d} \in SUBSET Calls
    BY <1>4 DEF CallPcs
  <2>2. call' \in [Calls -> CallRecord]
    BY <1>1, <1>2, <2>1, CallTypes
  <2> QED
    BY <1>1, <1>3, <1>6, <2>2, CallShape
<1>8. call'[c].pc = "append" /\ call'[c].seen = call[c].seen /\ call'[c].old = {d}
  BY <1>1, <1>2 DEF LShape, CallRecord
<1>9. \A e \in Calls : L!Written(e)' <=> L!Written(e)
  BY <1>1, <1>6, <1>7, ByLines, ByLinesThen
<1>10. CallOK(c)'
  BY <1>1, <1>3, <1>4, <1>6, <1>8, <1>9, SameBorn DEF CallOK, L!Pending
<1> QED
  BY <1>1, <1>2, <1>3, <1>6, <1>7, <1>8, <1>10, SameBorn, CallKeeps DEF LShape

\* The message is appended: what was settled by this call is not pending any more, and a
\* message of the same key that it had seen would have been found.
LEMMA EnqueueStep ==
  ASSUME L!LedgerConstants, LedgerInv, NEW c \in Calls, L!Enqueue(c) PROVE LedgerInv'
<1>1. LShape /\ CallOK(c) /\ ~L!Written(c) /\ InBorn(c) /\ call[c].seen \subseteq Calls
  BY DEF LedgerInv, CallOK, L!Enqueue, L!Decided, LShape, CallRecord
<1> DEFINE p == IF message[c].ttl = "past" THEN "expired"
                ELSE IF L!Full(c) THEN "dead-letter" ELSE "queued"
<1>2. /\ journal' = Append(journal, L!Line("message", c))
      /\ call' = [call EXCEPT ![c].pc = p]
      /\ UNCHANGED <<message, born, reader, crashes>>
      /\ call[c].pc = "append" \/ (call[c].pc = "expire" /\ L!Duplicate(c) = {})
  BY DEF L!Enqueue, L!Decided
<1>3. overdue' \subseteq Calls
  BY <1>1 DEF L!Enqueue, LShape
<1>4. L!Line("message", c) \in L!Event
  BY DEF L!Line, L!Event, L!Resolutions
<1>5. /\ journal' \in Seq(L!Event)
      /\ \A j, e : Has(j, e)' <=> Has(j, e) \/ (j = "message" /\ e = c)
  BY <1>1, <1>2, <1>4, Appended
<1>6. LShape'
  <2>1. p \in CallPcs
    BY DEF CallPcs
  <2>2. call' \in [Calls -> CallRecord]
    <3> HIDE DEF p
    <3> QED
      BY <1>1, <1>2, <2>1, CallTypes
  <2> QED
    BY <1>1, <1>2, <1>3, <1>5, <2>2 DEF LShape
<1>7. call'[c].pc = p /\ call'[c].seen = call[c].seen /\ call'[c].old = call[c].old
  BY <1>1, <1>2 DEF LShape, CallRecord
<1>8. \A e \in Calls : /\ L!Written(e)' <=> L!Written(e) \/ e = c
                       /\ L!Resolved(e)' <=> L!Resolved(e)
  BY <1>1, <1>5, <1>6, ByLines, ByLinesThen DEF L!Resolutions
<1>9. \A e \in call[c].seen : L!Written(e) /\ InBorn(e)
  BY <1>1 DEF CallOK, LedgerInv
<1>10. \A e \in call[c].old : e \in Calls /\ L!Resolved(e)
  BY <1>1, ByLines DEF CallOK, LShape, CallRecord, L!Resolutions
<1>11. p = "queued" => Cardinality(Backlog(c)') < MaxOutstanding
  <2> DEFINE S == {d \in call[c].seen \ call[c].old : message[d].from = message[c].from}
  <2>1. Backlog(c)' \subseteq S
    BY <1>2, <1>7, <1>8, <1>10 DEF Backlog, L!Pending
  <2>2. IsFiniteSet(S) /\ Cardinality(S) \in Nat
    BY SeenFinite
  <2>3. Cardinality(Backlog(c)') \in Nat /\ Cardinality(Backlog(c)') <= Cardinality(S)
    BY <2>1, <2>2, FS_Subset, FS_CardinalityType
  <2>4. p = "queued" => ~(Cardinality(S) >= MaxOutstanding)
    BY LCount DEF L!Full
  <2> QED
    BY <2>2, <2>3, <2>4 DEF L!LedgerConstants
<1>12. ASSUME NEW d \in call[c].seen, d \in L!Pending', L!Same(c, d)' PROVE call[c].old \ {d} # {}
  <2>1. d \in Calls /\ ~L!Resolved(d) /\ L!Same(c, d)
    BY <1>1, <1>2, <1>8, <1>12 DEF L!Pending, L!Same
  <2>2. CASE call[c].pc = "append"
    BY <1>1, <1>10, <2>1, <2>2 DEF CallOK
  <2>3. CASE L!Duplicate(c) = {}
    <3> DEFINE S == {e \in call[c].seen : L!Same(c, e)}
    <3>1. S \in SUBSET Calls /\ S # {} /\ \A e \in S : InBorn(e)
      BY <1>1, <1>9, <2>1
    <3>2. PICK e \in S : \A x \in S \ {e} : L!Sooner(e, x)
      BY <1>1, <3>1, OneIsFirst
    <3> QED
      BY <2>3, <3>2 DEF L!Duplicate
  <2> QED
    BY <1>2, <2>2, <2>3
<1>13. CallOK(c)'
  <2>1. p \in {"expired", "dead-letter", "queued"} /\ L!Written(c)' /\ InBorn(c)'
    BY <1>1, <1>2, <1>8, SameBorn
  <2>2. \A e \in call'[c].seen : L!Written(e)'
    BY <1>1, <1>7, <1>8, <1>9
  <2>3. \A e \in call'[c].old : Has("superseded", e)'
    BY <1>1, <1>5, <1>7 DEF CallOK
  <2>4. call'[c].old = {} \/ \E d \in Calls : call'[c].old = {d}
    BY <1>1, <1>7 DEF CallOK
  <2>5. \A d \in call'[c].seen \cap L!Pending' : L!Same(c, d)' => call'[c].old \ {d} # {}
    BY <1>7, <1>12
  <2> HIDE DEF p
  <2>6. call'[c].pc = "queued" => Cardinality(Backlog(c)') < MaxOutstanding
    BY <1>7, <1>11
  <2>7. call'[c].pc \in {"expired", "dead-letter", "queued"}
    BY <1>7, <2>1
  <2>8. /\ call'[c].pc \notin {"idle", "suppressed", "read", "expire", "append", "refused"}
        /\ call'[c].pc \in {"expired", "dead-letter", "queued", "refused", "crashed"}
    BY <2>7
  <2> QED
    BY <2>1, <2>2, <2>3, <2>4, <2>5, <2>6, <2>8 DEF CallOK
<1> QED
  BY <1>1, <1>2, <1>5, <1>6, <1>7, <1>13, SameBorn, CallKeeps, SMTT(90) DEF LShape

\* What was refused is settled.
LEMMA RefuseStep ==
  ASSUME L!LedgerConstants, LedgerInv, NEW c \in Calls, L!Refuse(c) PROVE LedgerInv'
<1> DEFINE k == call[c].pc
<1>1. /\ LShape /\ CallOK(c) /\ L!Written(c) /\ InBorn(c) /\ call[c].seen \subseteq Calls
      /\ k \in {"expired", "dead-letter"}
  BY DEF LedgerInv, CallOK, L!Refuse, LShape, CallRecord
<1>2. /\ journal' = Append(journal, L!Line(k, c))
      /\ call' = [call EXCEPT ![c].pc = "refused"]
      /\ UNCHANGED <<message, born, overdue, reader, crashes>>
  BY DEF L!Refuse
<1>3. L!Line(k, c) \in L!Event
  BY <1>1 DEF L!Line, L!Event, L!Resolutions
<1>4. /\ journal' \in Seq(L!Event)
      /\ \A j, e : Has(j, e)' <=> Has(j, e) \/ (j = k /\ e = c)
  <2> HIDE DEF k
  <2> QED
    BY <1>1, <1>2, <1>3, Appended
<1>5. LShape'
  <2>1. call' \in [Calls -> CallRecord]
    BY <1>1, <1>2, CallTypes DEF CallPcs
  <2> QED
    BY <1>1, <1>2, <1>4, <2>1, CallShape
<1>6. call'[c].pc = "refused" /\ call'[c].seen = call[c].seen /\ call'[c].old = call[c].old
  BY <1>1, <1>2 DEF LShape, CallRecord
<1>7. /\ \A e \in Calls : L!Written(e)' <=> L!Written(e)
      /\ L!Resolved(c)'
  BY <1>1, <1>4, <1>5, ByLines, ByLinesThen DEF L!Resolutions
<1>8. CallOK(c)'
  BY <1>1, <1>2, <1>4, <1>6, <1>7, SameBorn DEF CallOK, L!Pending
<1> QED
  BY <1>1, <1>2, <1>4, <1>5, <1>6, <1>8, SameBorn, CallKeeps DEF LShape

\* Who is killed leaves what it appended.
LEMMA CrashStep ==
  ASSUME L!LedgerConstants, LedgerInv, NEW c \in Calls, L!Crash(c) PROVE LedgerInv'
<1>1. LShape /\ CallOK(c) /\ InBorn(c) /\ call[c].seen \subseteq Calls
  BY DEF LedgerInv, CallOK, L!Crash, LShape, CallRecord
<1>2. /\ UNCHANGED <<journal, message, born, overdue, reader>>
      /\ call' = [call EXCEPT ![c].pc = "crashed"]
      /\ crashes' \in 0..MaxCrashes
  BY <1>1 DEF L!Crash, LShape, L!LedgerConstants
<1>3. LShape'
  <2>1. call' \in [Calls -> CallRecord]
    BY <1>1, <1>2, CallTypes DEF CallPcs
  <2> QED
    BY <1>1, <1>2, <2>1 DEF LShape
<1>4. call'[c].pc = "crashed" /\ call'[c].seen = call[c].seen /\ call'[c].old = call[c].old
  BY <1>1, <1>2 DEF LShape, CallRecord
<1>5. \A e \in Calls : /\ L!Written(e)' <=> L!Written(e)
                       /\ L!Resolved(e)' <=> L!Resolved(e)
  BY <1>1, <1>2, <1>3, SameJournal, ByLines, ByLinesThen
<1>6. CallOK(c)'
  BY <1>1, <1>2, <1>4, <1>5, SameBorn, SameJournal DEF CallOK, L!Pending, L!Same
<1> QED
  BY <1>1, <1>2, <1>3, <1>4, <1>6, SameBorn, SameJournal, CallKeeps DEF LShape

\* A reader looks, settles what is overdue, and acknowledges.
LEMMA ReaderStep ==
  ASSUME L!LedgerConstants, LedgerInv, NEW r \in Agents, L!Look(r) \/ L!Sweep(r) \/ L!Settle(r)
  PROVE  LedgerInv'
<1>1. LShape /\ reader \in [Agents -> ReaderRecord] /\ reader[r] \in ReaderRecord
  BY DEF LedgerInv, LShape
<1>2. UNCHANGED <<message, born, overdue, call, crashes>>
  BY DEF L!Look, L!Sweep, L!Settle
<1>3. CASE L!Look(r)
  <2>1. UNCHANGED journal
    BY <1>3 DEF L!Look
  <2>2. /\ reader' \in [Agents -> ReaderRecord]
        /\ \A s \in Agents \ {r} : reader'[s] = reader[s]
        /\ reader'[r].seen \subseteq L!Pending
    BY <1>1, <1>3 DEF L!Look, ReaderRecord, L!Pending, L!Active
  <2>3. LShape'
    BY <1>1, <1>2, <2>1, <2>2 DEF LShape
  <2>4. \A s \in Agents : \A d \in reader'[s].seen : L!Written(d)
    BY <2>2, PendingWritten DEF LedgerInv
  <2> QED
    BY <1>2, <2>1, <2>3, <2>4, SameBorn, SameJournal, MarkKeeps
<1>4. CASE L!Sweep(r)
  <2>1. PICK m \in reader[r].late : /\ journal' = Append(journal, L!Line("expired", m))
                                    /\ reader' = [reader EXCEPT ![r].late = @ \ {m}]
    BY <1>4 DEF L!Sweep
  <2>2. m \in Calls /\ L!Line("expired", m) \in L!Event
    BY <1>1 DEF ReaderRecord, L!Line, L!Event, L!Resolutions
  <2>3. /\ journal' \in Seq(L!Event)
        /\ \A j, d : Has(j, d)' <=> Has(j, d) \/ (j = "expired" /\ d = m)
    BY <1>1, <2>1, <2>2, Appended
  <2>4. reader' \in [Agents -> ReaderRecord] /\ \A s \in Agents : reader'[s].seen = reader[s].seen
    BY <1>1, <2>1 DEF ReaderRecord
  <2>5. LShape'
    BY <1>1, <1>2, <2>3, <2>4 DEF LShape
  <2> QED
    BY <1>2, <2>3, <2>4, <2>5, SameBorn, MarkKeeps DEF LedgerInv
<1>5. CASE L!Settle(r)
  <2>1. reader' = [reader EXCEPT ![r] = L!Idle]
    BY <1>5 DEF L!Settle
  <2>2. /\ reader' \in [Agents -> ReaderRecord]
        /\ \A s \in Agents : reader'[s].seen \subseteq reader[s].seen
    BY <1>1, <2>1 DEF ReaderRecord, L!Idle
  <2>3. CASE reader[r].seen = {}
    <3>1. UNCHANGED journal
      BY <1>5, <2>3 DEF L!Settle
    <3>2. LShape'
      BY <1>1, <1>2, <2>2, <3>1 DEF LShape
    <3> QED
      BY <1>2, <2>2, <3>1, <3>2, SameBorn, SameJournal, MarkKeeps DEF LedgerInv
  <2>4. CASE reader[r].seen # {}
    <3> DEFINE first == CHOOSE c \in reader[r].seen : \A d \in reader[r].seen \ {c} : L!Sooner(c, d)
    <3>1. reader[r].seen \in SUBSET Calls /\ \A c \in reader[r].seen : InBorn(c)
      BY <1>1 DEF LedgerInv, CallOK, ReaderRecord
    <3>2. first \in Calls
      BY <1>1, <2>4, <3>1, OneIsFirst
    <3>3. journal' = Append(journal, L!Line("delivered", first))
      BY <1>5, <2>4 DEF L!Settle
    <3> HIDE DEF first
    <3>4. L!Line("delivered", first) \in L!Event
      BY <3>2 DEF L!Line, L!Event, L!Resolutions
    <3>5. /\ journal' \in Seq(L!Event)
          /\ \A j, d : Has(j, d)' <=> Has(j, d) \/ (j = "delivered" /\ d = first)
      BY <1>1, <3>3, <3>4, Appended
    <3>6. LShape'
      BY <1>1, <1>2, <2>2, <3>5 DEF LShape
    <3> QED
      BY <1>2, <2>2, <3>5, <3>6, SameBorn, MarkKeeps DEF LedgerInv
  <2> QED
    BY <2>3, <2>4
<1> QED
  BY <1>3, <1>4, <1>5

\* The invariant of the journal.
LEMMA LedgerStep ==
  ASSUME L!LedgerConstants, LedgerInv, [L!Next]_(L!vars) PROVE LedgerInv'
<1>1. CASE L!TimePasses
  <2>1. LShape /\ LShape'
    BY <1>1 DEF L!TimePasses, LedgerInv, LShape, L!Pending
  <2> QED
    BY <1>1, <2>1, SameBorn, SameJournal, MarkKeeps DEF L!TimePasses, LedgerInv
<1>2. CASE UNCHANGED L!vars
  <2>1. LShape'
    BY <1>2 DEF L!vars, LedgerInv, LShape
  <2> QED
    BY <1>2, <2>1, SameBorn, SameJournal, MarkKeeps DEF L!vars, LedgerInv
<1> QED
  BY <1>1, <1>2, BeginStep, ReadsStep, ExpireStep, ReturnStep, SupersedeStep, EnqueueStep,
     RefuseStep, CrashStep, ReaderStep DEF L!Next, L!Send

\* At first nothing is written.
LEMMA LedgerInit == ASSUME L!LedgerConstants, L!Init PROVE LedgerInv
<1>1. LShape
  BY DEF L!Init, LShape, L!LedgerConstants, CallRecord, CallPcs, ReaderRecord, L!Idle
<1>2. \A k, c : ~Has(k, c)
  BY DEF Has, L!Init
<1>3. \A c \in Calls : ~L!Written(c) /\ ~L!Resolved(c)
  BY <1>1, <1>2, ByLines
<1>4. Sent = {}
  BY <1>3 DEF Sent
<1>5. \A c \in Calls : CallOK(c)
  BY <1>3 DEF L!Init, L!Idle, CallOK, L!Pending
<1>6. \A r \in Agents : reader[r].seen = {}
  BY DEF L!Init, L!Idle
<1> QED
  BY <1>1, <1>2, <1>4, <1>5, <1>6, FS_EmptySet DEF LedgerInv

\* What the invariant says of the journal, in the words of the model.
LEMMA KeptByInvariant == ASSUME L!LedgerConstants, LedgerInv PROVE L!LedgerKept
<1>1. LShape /\ \A c \in Calls : CallOK(c)
  BY DEF LedgerInv
<1>2. L!SupersededHasSuccessor
  BY DEF LedgerInv, Has, L!SupersededHasSuccessor
<1>3. L!KeyHeldUnlessBlind
  <2>1. \A c \in L!Pending : \A d \in call[c].seen \cap L!Pending :
          L!Same(c, d) => call[c].old \ {d} # {}
    BY <1>1, PendingWritten DEF CallOK
  <2> SUFFICES ASSUME NEW c \in L!Pending, NEW d \in L!Pending, L!Same(c, d), d \in call[c].seen
               PROVE  call[c].old \ {d} # {}
    BY Zenon DEF L!KeyHeldUnlessBlind
  <2> QED
    BY <2>1
<1>4. L!BacklogHeldUnlessBlind
  <2> SUFFICES ASSUME NEW c \in L!Pending, call[c].pc \notin {"expired", "dead-letter", "crashed"}
               PROVE  L!Cardinality(Backlog(c)) < MaxOutstanding
    BY DEF L!BacklogHeldUnlessBlind, Backlog
  <2>1. c \in Calls /\ L!Written(c) /\ ~L!Resolved(c)
    BY PendingWritten
  <2>2. call[c].pc = "queued"
    BY <1>1, <2>1 DEF CallOK
  <2> QED
    BY <1>1, <2>1, <2>2, LCount DEF CallOK
<1> QED
  BY <1>2, <1>3, <1>4 DEF L!LedgerKept

\* The type invariant of the journal: every message that enqueueBridgeMessage wrote has an "at", and
\* a call supersedes one message at most.
THEOREM LedgerTypes == ASSUME L!LedgerConstants PROVE L!Spec => []L!TypeOK
<1>1. LedgerInv => L!TypeOK
  <2> SUFFICES ASSUME LedgerInv PROVE L!TypeOK
    OBVIOUS
  <2>1. LShape /\ \A c \in Calls : CallOK(c)
    BY DEF LedgerInv
  <2>2. ASSUME NEW c \in Calls PROVE L!Cardinality(call[c].old) <= 1
    <3>1. call[c].old = {} \/ \E d \in Calls : call[c].old = {d}
      BY <2>1 DEF CallOK
    <3>2. Cardinality({}) = 0 /\ \A d \in Calls : Cardinality({d}) = 1
      BY FS_EmptySet, FS_Singleton
    <3>3. Cardinality(call[c].old) <= 1
      BY <3>1, <3>2
    <3> QED
      BY <3>3, LCount
  <2>3. ASSUME NEW c \in Calls, L!Written(c) PROVE InBorn(c)
    BY <2>1, <2>3 DEF CallOK
  <2> QED
    BY <2>1, <2>2, <2>3 DEF L!TypeOK, LShape, CallRecord, ReaderRecord, InBorn
<1> QED
  BY <1>1, LedgerInit, LedgerStep, PTL DEF L!Spec

\* Without a lock between the read and the appends of enqueueBridgeMessage: a superseded message has
\* its successor, who saw a message of his key did not add to it, and the backlog is within its
\* limit as far as its senders saw it.
THEOREM LedgerHolds == ASSUME L!LedgerConstants PROVE L!Spec => []L!LedgerKept
BY KeptByInvariant, LedgerInit, LedgerStep, PTL DEF L!Spec
-----------------------------------------------------------------------------
(* The MCP server: where a request may be between the agent that asks and  *)
(* the answer it reads, and where a message may be between the inbox and   *)
(* the agent.                                                              *)

Req == [id : Nat \ {0}, kind : V!Kinds]
Line == [what : {"answer", "notice"}, id : Nat, with : SUBSET Letters]

SrvTypes ==
  /\ source \in {"claude", "codex"} /\ stage \in {"idle", "dispatch", "flush"}
  /\ server \in {"up", "ending", "done", "killed"}
  /\ input \in [chunks : Seq(Req), ended : BOOLEAN, sent : 0 .. MaxRequests, asks : SUBSET Nat]
  /\ queue \in Seq(Req) /\ out \in Seq(Line) /\ got \in Seq(Line)
  /\ ready \in BOOLEAN /\ timer \in BOOLEAN /\ closed \in BOOLEAN /\ pane \in BOOLEAN
  /\ inbox \in [pending : SUBSET Letters, claimed : SUBSET Letters, gone : SUBSET Letters]
  /\ IsFiniteSet(inbox.pending) /\ failed \subseteq 1 .. MaxRequests

\* What was asked later is behind in the queue, in the input, and among the answers.
InOrder ==
  /\ \A j \in DOMAIN input.chunks :
       /\ input.chunks[j].id <= input.sent
       /\ \A i \in DOMAIN input.chunks : i < j => input.chunks[j].id < input.chunks[i].id
       /\ \A i \in DOMAIN queue : queue[i].id < input.chunks[j].id
       /\ \A k \in V!Answers : V!Written[k].id < input.chunks[j].id
  /\ \A i \in DOMAIN queue :
       /\ queue[i].id <= input.sent
       /\ \A j \in DOMAIN queue : i < j => queue[i].id < queue[j].id
       /\ i # 1 \/ stage # "flush" => \A k \in V!Answers : V!Written[k].id < queue[i].id
  /\ \A k \in V!Answers : V!Written[k].id <= input.sent
  /\ V!AnsweredInOrder
  /\ stage # "idle" => queue # << >>

\* A request that asks for an answer has got one, has failed, or is still to be handled.
Waiting(a) == \/ \E j \in DOMAIN input.chunks : input.chunks[j].id = a
              \/ \E i \in DOMAIN queue : queue[i].id = a /\ (i # 1 \/ stage # "flush")
Told(a) == \E k \in DOMAIN V!Written : V!Written[k].id = a
Asked ==
  /\ \A a \in input.asks :
       /\ a \in 1 .. input.sent
       /\ server # "killed" => a \in failed \/ Waiting(a) \/ Told(a)
  /\ \A j \in DOMAIN input.chunks :
       input.chunks[j].id \in input.asks => input.chunks[j].kind \notin {"initialized", "torn"}
  /\ \A i \in DOMAIN queue :
       queue[i].id \in input.asks => queue[i].kind \notin {"initialized", "torn"}

\* The server closes after its input, and goes on to its end with nothing left to do.
Ends ==
  /\ closed /\ server # "killed" => input.ended /\ input.chunks = << >>
  /\ server \in {"ending", "done"} => closed /\ queue = << >>
  /\ server = "done" => out = << >>

\* What is gone from the inbox was written, each message in one line.
Once ==
  /\ inbox.pending \cap inbox.gone = {}
  /\ \A i, j \in DOMAIN V!Written :
       i # j => V!Written[i].with \cap V!Written[j].with = {}
  /\ inbox.gone = UNION {V!Written[i].with : i \in DOMAIN V!Written}

SrvInv == SrvTypes /\ InOrder /\ Asked /\ Ends /\ Once /\ V!SweepsAgain

-----------------------------------------------------------------------------
\* What the agent reads next goes from the one list to the other.
LEMMA Across ==
  ASSUME NEW S, NEW g \in Seq(S), NEW o \in Seq(S), o # << >>
  PROVE  /\ Append(g, Head(o)) \o Tail(o) = g \o o
         /\ Append(g, Head(o)) \in Seq(S) /\ Tail(o) \in Seq(S)
<1>1. Head(o) \in S /\ Tail(o) \in Seq(S) /\ <<Head(o)>> \in Seq(S) /\ <<Head(o)>> \o Tail(o) = o
  <2>1. Head(o) \in S /\ Tail(o) \in Seq(S) /\ Len(Tail(o)) = Len(o) - 1
        /\ \A i \in 1 .. Len(o) - 1 : Tail(o)[i] = o[i + 1]
    BY HeadTailProperties
  <2>2. Len(o) \in Nat \ {0} /\ <<Head(o)>> \in Seq(S) /\ Len(<<Head(o)>>) = 1
        /\ <<Head(o)>>[1] = Head(o) /\ Head(o) = o[1]
    BY <2>1, EmptySeq
  <2> DEFINE h == <<Head(o)>>
  <2>3. /\ h \o Tail(o) \in Seq(S) /\ Len(h \o Tail(o)) = Len(o)
        /\ \A i \in 1 .. Len(o) : (h \o Tail(o))[i] = IF i <= 1 THEN h[i] ELSE Tail(o)[i - 1]
    BY <2>1, <2>2, ConcatProperties
  <2>4. \A i \in 1 .. Len(o) : (h \o Tail(o))[i] = o[i]
    BY <2>1, <2>2, <2>3
  <2>5. h \o Tail(o) = o
    BY <2>3, <2>4, SeqEqual
  <2> QED
    BY <2>1, <2>2, <2>5
<1>2. Append(g, Head(o)) = g \o <<Head(o)>> /\ Append(g, Head(o)) \in Seq(S)
  BY <1>1, AppendIsConcat, AppendProperties
<1>3. (g \o <<Head(o)>>) \o Tail(o) = g \o (<<Head(o)>> \o Tail(o))
  BY <1>1, ConcatAssociative
<1> QED
  BY <1>1, <1>2, <1>3

\* The instance counts as the theorems on finite sets do.
LEMMA ServerCounts == \A S : V!Cardinality(S) = Cardinality(S)
BY DEF V!Cardinality, Cardinality

\* A finite set as a list, each member in one place.
LEMMA Listed ==
  ASSUME NEW S, IsFiniteSet(S)
  PROVE  /\ Cardinality(S) \in Nat /\ V!SetToSeq(S) \in [1 .. Cardinality(S) -> S]
         /\ \A i, j \in 1 .. Cardinality(S) : V!SetToSeq(S)[i] = V!SetToSeq(S)[j] => i = j
         /\ \A m \in S : \E i \in 1 .. Cardinality(S) : V!SetToSeq(S)[i] = m
<1> DEFINE n == Cardinality(S)
           P(f) == f \in [1 .. n -> S] /\ V!IsInjective(f)
<1>1. n \in Nat /\ IsFiniteSet(1 .. n) /\ Cardinality(1 .. n) = n
  BY FS_CardinalityType, FS_Interval
<1>2. PICK f \in Bijection(1 .. n, S) : TRUE
  BY FS_CardinalityType DEF ExistsBijection
<1>3. P(f)
  BY <1>2 DEF Bijection, Injection, IsInjective, V!IsInjective
<1>4. V!SetToSeq(S) = CHOOSE s \in [1 .. n -> S] : V!IsInjective(s)
  BY ServerCounts DEF V!SetToSeq
<1>5. P(V!SetToSeq(S))
  BY <1>3, <1>4
<1>6. V!SetToSeq(S) \in Injection(1 .. n, S)
  BY <1>5 DEF Injection, IsInjective, V!IsInjective
<1>7. V!SetToSeq(S) \in Surjection(1 .. n, S)
  BY <1>1, <1>6, FS_Injection
<1> QED
  BY <1>1, <1>5, <1>7 DEF Surjection, V!IsInjective

-----------------------------------------------------------------------------
\* What was written stays, and no answer is new.
Kept ==
  /\ V!Answers' = V!Answers
  /\ \A k \in DOMAIN V!Written : k \in DOMAIN V!Written' /\ V!Written'[k] = V!Written[k]
InboxOK == /\ inbox \in [pending : SUBSET Letters,
                         claimed : SUBSET Letters, gone : SUBSET Letters]
           /\ IsFiniteSet(inbox.pending)

\* Lines are written behind the others.
LEMMA Growth ==
  ASSUME SrvTypes, NEW ns \in Seq(Line), got' = got, out' = out \o ns
  PROVE  /\ out' \in Seq(Line)
         /\ V!Written \in Seq(Line) /\ V!Written' \in Seq(Line) /\ Len(V!Written) \in Nat
         /\ \A i \in DOMAIN V!Written :
              /\ i \in DOMAIN V!Written' /\ V!Written'[i] = V!Written[i]
              /\ i \in 1 .. Len(V!Written)
         /\ \A j \in DOMAIN ns : /\ Len(V!Written) + j \in DOMAIN V!Written'
                                 /\ V!Written'[Len(V!Written) + j] = ns[j]
         /\ \A i \in DOMAIN V!Written' :
              i \in DOMAIN V!Written \/ \E j \in DOMAIN ns : i = Len(V!Written) + j
<1>1. got \in Seq(Line) /\ out \in Seq(Line)
  BY DEF SrvTypes
<1>2. out' \in Seq(Line)
  BY <1>1, ConcatProperties
<1>3. V!Written = got \o out /\ V!Written' = got \o (out \o ns)
  BY Zenon DEF V!Written
<1>4. (got \o out) \o ns = got \o (out \o ns)
  BY <1>1, ConcatAssociative
<1> DEFINE w == V!Written
           v == V!Written'
<1>5. w = got \o out /\ v = w \o ns
  BY <1>3, <1>4, Zenon
<1> HIDE DEF w, v
<1>6. /\ w \in Seq(Line) /\ v \in Seq(Line) /\ Len(v) = Len(w) + Len(ns)
      /\ \A i \in 1 .. Len(w) + Len(ns) : v[i] = IF i <= Len(w) THEN w[i] ELSE ns[i - Len(w)]
  BY <1>1, <1>5, ConcatProperties
<1>7. /\ Len(w) \in Nat /\ Len(ns) \in Nat
      /\ DOMAIN w = 1 .. Len(w) /\ DOMAIN ns = 1 .. Len(ns) /\ DOMAIN v = 1 .. Len(v)
  BY <1>6, LenProperties
<1>8. \A i \in DOMAIN w : i \in DOMAIN v /\ v[i] = w[i] /\ i \in 1 .. Len(w)
  BY <1>6, <1>7
<1>9. \A j \in DOMAIN ns : Len(w) + j \in DOMAIN v /\ v[Len(w) + j] = ns[j]
  BY <1>6, <1>7
<1>10. \A i \in DOMAIN v : i \in DOMAIN w \/ \E j \in DOMAIN ns : i = Len(w) + j
  <2> SUFFICES ASSUME NEW i \in 1 .. Len(v), i \notin 1 .. Len(w)
               PROVE  \E j \in 1 .. Len(ns) : i = Len(w) + j
    BY <1>7
  <2>1. i - Len(w) \in 1 .. Len(ns) /\ i = Len(w) + (i - Len(w))
    BY <1>6, <1>7
  <2> QED
    BY <2>1
<1> QED
  BY <1>2, <1>6, <1>7, <1>8, <1>9, <1>10 DEF w, v

\* Messages are taken from the inbox and written, each in one line.
LEMMA Takes ==
  ASSUME SrvTypes, Once, NEW ns \in Seq(Line), got' = got, out' = out \o ns,
         V!Taken(UNION {ns[i].with : i \in DOMAIN ns}),
         \A i \in DOMAIN ns : ns[i].with \subseteq inbox.pending,
         \A i, j \in DOMAIN ns : i # j => ns[i].with \cap ns[j].with = {}
  PROVE  InboxOK' /\ Once'
<1> DEFINE ms == UNION {ns[i].with : i \in DOMAIN ns}
           w == V!Written
           v == V!Written'
           n == Len(w)
<1>1. /\ n \in Nat
      /\ \A i \in DOMAIN w : i \in DOMAIN v /\ v[i] = w[i] /\ i \in 1 .. n
      /\ \A j \in DOMAIN ns : n + j \in DOMAIN v /\ v[n + j] = ns[j]
      /\ \A i \in DOMAIN v : i \in DOMAIN w \/ \E j \in DOMAIN ns : i = n + j
      /\ DOMAIN ns \subseteq Nat \ {0}
  <2>1. DOMAIN ns \subseteq Nat \ {0}
    BY LenProperties
  <2> QED
    BY <2>1, Growth
<1>2. /\ inbox.pending \cap inbox.gone = {}
      /\ \A i, j \in DOMAIN w : i # j => w[i].with \cap w[j].with = {}
      /\ inbox.gone = UNION {w[i].with : i \in DOMAIN w}
  BY DEF Once
<1>3. /\ inbox'.pending = inbox.pending \ ms /\ inbox'.gone = inbox.gone \cup ms
      /\ ms \subseteq inbox.pending /\ InboxOK'
  <2>1. ms \subseteq inbox.pending
    OBVIOUS
  <2>2. inbox' = [inbox EXCEPT !.pending = @ \ ms, !.gone = @ \cup ms]
    BY DEF V!Taken
  <2> HIDE DEF ms
  <2>3. /\ inbox'.pending = inbox.pending \ ms /\ inbox'.gone = inbox.gone \cup ms
        /\ inbox' \in [pending : SUBSET Letters,
                       claimed : SUBSET Letters, gone : SUBSET Letters]
    BY <2>1, <2>2 DEF SrvTypes
  <2>4. IsFiniteSet(inbox.pending) /\ inbox'.pending \in SUBSET inbox.pending
    BY <2>3 DEF SrvTypes
  <2> QED
    BY <2>1, <2>3, <2>4, FS_Subset DEF InboxOK
<1> HIDE DEF w, v
<1>4. \A i \in DOMAIN w : w[i].with \subseteq inbox.gone
  BY <1>2
<1>5. \A i, j \in DOMAIN v : i # j => v[i].with \cap v[j].with = {}
  <2> SUFFICES ASSUME NEW i \in DOMAIN v, NEW j \in DOMAIN v, i # j
               PROVE  v[i].with \cap v[j].with = {}
    OBVIOUS
  <2>1. CASE i \in DOMAIN w /\ j \in DOMAIN w
    BY <1>1, <1>2, <2>1
  <2>2. CASE i \in DOMAIN w /\ j \notin DOMAIN w
    <3>1. PICK b \in DOMAIN ns : j = n + b
      BY <1>1, <2>2
    <3>2. v[j] = ns[b] /\ v[i] = w[i]
      BY <1>1, <2>2, <3>1
    <3> QED
      BY <1>2, <1>4, <2>2, <3>2
  <2>3. CASE i \notin DOMAIN w /\ j \in DOMAIN w
    <3>1. PICK a \in DOMAIN ns : i = n + a
      BY <1>1, <2>3
    <3>2. v[i] = ns[a] /\ v[j] = w[j]
      BY <1>1, <2>3, <3>1
    <3> QED
      BY <1>2, <1>4, <2>3, <3>2
  <2>4. CASE i \notin DOMAIN w /\ j \notin DOMAIN w
    <3>1. PICK a \in DOMAIN ns : i = n + a
      BY <1>1, <2>4
    <3>2. PICK b \in DOMAIN ns : j = n + b
      BY <1>1, <2>4
    <3>3. v[i] = ns[a] /\ v[j] = ns[b] /\ a # b
      BY <1>1, <3>1, <3>2
    <3> QED
      BY <3>3
  <2> QED
    BY <2>1, <2>2, <2>3, <2>4
<1>6. inbox'.gone = UNION {v[i].with : i \in DOMAIN v}
  <2>1. \A m \in inbox'.gone : \E i \in DOMAIN v : m \in v[i].with
    <3> SUFFICES ASSUME NEW m \in inbox'.gone PROVE \E i \in DOMAIN v : m \in v[i].with
      OBVIOUS
    <3>1. CASE m \in inbox.gone
      BY <1>1, <1>2, <3>1
    <3>2. CASE m \in ms
      <4>1. PICK a \in DOMAIN ns : m \in ns[a].with
        BY <3>2
      <4> QED
        BY <1>1, <4>1
    <3> QED
      BY <1>3, <3>1, <3>2
  <2>2. \A i \in DOMAIN v : v[i].with \subseteq inbox'.gone
    <3> SUFFICES ASSUME NEW i \in DOMAIN v PROVE v[i].with \subseteq inbox'.gone
      OBVIOUS
    <3>1. CASE i \in DOMAIN w
      BY <1>1, <1>3, <1>4, <3>1
    <3>2. CASE i \notin DOMAIN w
      <4>1. PICK a \in DOMAIN ns : i = n + a
        BY <1>1, <3>2
      <4>2. v[i] = ns[a]
        BY <1>1, <4>1
      <4> QED
        BY <1>3, <4>2
    <3> QED
      BY <3>1, <3>2
  <2> QED
    BY <2>1, <2>2
<1>7. inbox'.pending \cap inbox'.gone = {}
  BY <1>2, <1>3
<1> QED
  BY <1>3, <1>5, <1>6, <1>7 DEF Once, v

\* flushClaudeChannelMessages writes the whole inbox, a line for each message, or nothing.
LEMMA FlushOnce ==
  ASSUME SrvTypes, Once, V!Flushed, got' = got
  PROVE  InboxOK' /\ Once' /\ out' \in Seq(Line) /\ Kept
<1>1. CASE V!Pushes /\ ~pane
  <2> DEFINE c == Cardinality(inbox.pending)
             f == V!SetToSeq(inbox.pending)
             ns == [i \in 1 .. c |-> V!Notice(f[i])]
  <2>1. /\ c \in Nat /\ f \in [1 .. c -> inbox.pending]
        /\ \A i, j \in 1 .. c : f[i] = f[j] => i = j
        /\ \A m \in inbox.pending : \E i \in 1 .. c : f[i] = m
    BY Listed DEF SrvTypes
  <2>2. V!Taken(inbox.pending) /\ out' = out \o ns
    BY <1>1, ServerCounts DEF V!Flushed
  <2>3. /\ DOMAIN ns = 1 .. c
        /\ \A i \in 1 .. c : ns[i] = [what |-> "notice", id |-> 0, with |-> {f[i]}]
    BY DEF V!Notice
  <2> HIDE DEF c, f, ns
  <2>4. \A i \in 1 .. c : f[i] \in inbox.pending /\ f[i] \in Letters
    BY <2>1 DEF SrvTypes
  <2>5. ns \in Seq(Line)
    <3>1. \A i \in 1 .. c : ns[i] \in Line
      BY <2>3, <2>4 DEF Line
    <3>2. ns = [i \in 1 .. c |-> ns[i]]
      BY DEF ns
    <3>3. ns \in [1 .. c -> Line]
      BY <3>1, <3>2
    <3> QED
      BY <2>1, <3>3
  <2>6. UNION {ns[i].with : i \in DOMAIN ns} = inbox.pending
    <3>1. \A i \in DOMAIN ns : ns[i].with = {f[i]} /\ f[i] \in inbox.pending
      BY <2>3, <2>4
    <3>2. \A m \in inbox.pending : \E i \in DOMAIN ns : m \in ns[i].with
      BY <2>1, <2>3, <3>1
    <3> QED
      BY <3>1, <3>2
  <2>7. \A i, j \in DOMAIN ns : i # j => ns[i].with \cap ns[j].with = {}
    BY <2>1, <2>3
  <2>8. InboxOK' /\ Once'
    <3>1. V!Taken(UNION {ns[i].with : i \in DOMAIN ns})
      BY <2>2, <2>6
    <3>2. \A i \in DOMAIN ns : ns[i].with \subseteq inbox.pending
      BY <2>6
    <3> QED
      BY <2>2, <2>5, <2>7, <3>1, <3>2, Takes
  <2>9. out' \in Seq(Line) /\ Kept
    <3>1. /\ out' \in Seq(Line)
          /\ \A i \in DOMAIN V!Written : /\ i \in DOMAIN V!Written'
                                         /\ V!Written'[i] = V!Written[i]
          /\ \A j \in DOMAIN ns : V!Written'[Len(V!Written) + j] = ns[j]
          /\ \A i \in DOMAIN V!Written' :
               i \in DOMAIN V!Written \/ \E j \in DOMAIN ns : i = Len(V!Written) + j
      BY <2>2, <2>5, Growth
    <3>2. \A j \in DOMAIN ns : ns[j].what # "answer"
      BY <2>3
    <3>3. \A i \in DOMAIN V!Written' :
            i \notin DOMAIN V!Written => V!Written'[i].what # "answer"
      BY <3>1, <3>2
    <3>4. V!Answers' = {i \in DOMAIN V!Written' : V!Written'[i].what = "answer"}
      BY DEF V!Answers
    <3>5. V!Answers = {i \in DOMAIN V!Written : V!Written[i].what = "answer"}
      BY DEF V!Answers
    <3> QED
      BY <3>1, <3>3, <3>4, <3>5 DEF Kept
  <2> QED
    BY <2>8, <2>9
<1>2. CASE ~(V!Pushes /\ ~pane)
  <2>1. UNCHANGED <<inbox, out, got>>
    BY <1>2 DEF V!Flushed
  <2>2. V!Written' = V!Written /\ V!Answers' = V!Answers
    BY <2>1 DEF V!Written, V!Answers
  <2> QED
    BY <2>1, <2>2 DEF Kept, InboxOK, Once, SrvTypes
<1> QED
  BY <1>1, <1>2

-----------------------------------------------------------------------------
\* Nothing is asked, and no request changes its place.
Unmoved == /\ input'.chunks = input.chunks /\ input'.sent = input.sent /\ input'.asks = input.asks
           /\ queue' = queue /\ failed' = failed
           /\ stage' = stage \/ (stage = "idle" /\ stage' = "dispatch" /\ queue # << >>)

\* A step that writes no answer and moves no request leaves the order as it is.
LEMMA RestStep ==
  ASSUME InOrder, Asked, Kept, Unmoved, server # "killed" \/ server' = "killed"
  PROVE  InOrder' /\ Asked'
<1>1. /\ V!Answers' = V!Answers
      /\ \A k \in DOMAIN V!Written : k \in DOMAIN V!Written' /\ V!Written'[k] = V!Written[k]
      /\ \A k \in V!Answers : V!Written'[k] = V!Written[k]
  BY DEF Kept, V!Answers
<1>2. V!AnsweredInOrder'
  BY <1>1 DEF InOrder, V!AnsweredInOrder
<1>3. InOrder'
  <2> HIDE DEF V!Written, V!Answers
  <2>1. \A k \in V!Answers' : k \in V!Answers /\ V!Written'[k].id = V!Written[k].id
    BY <1>1
  <2> QED
    BY <1>2, <2>1 DEF InOrder, Unmoved
<1>4. \A a : Told(a) => Told(a)'
  BY <1>1 DEF Told
<1>5. \A a : Waiting(a) => Waiting(a)'
  BY DEF Waiting, Unmoved
<1>6. Asked'
  BY <1>4, <1>5 DEF Asked, Unmoved
<1> QED
  BY <1>3, <1>6

\* Nothing is written or read.
LEMMA Silent ==
  ASSUME UNCHANGED <<out, got>>
  PROVE  Kept /\ V!Written' = V!Written /\ (Once /\ UNCHANGED inbox => Once')
BY DEF Kept, V!Written, V!Answers, Once

\* Before anything is asked it holds.
LEMMA SrvBegins == ASSUME V!ServerConstants, V!Init PROVE SrvInv
<1>1. V!Written = << >>
  BY DEF V!Init, V!Written
<1>2. SrvTypes
  <2>1. IsFiniteSet({}) /\ << >> \in Seq(Req) /\ << >> \in Seq(Line) /\ 0 \in 0 .. MaxRequests
    BY FS_EmptySet, EmptySeq DEF V!ServerConstants
  <2>2. input \in [chunks : Seq(Req), ended : BOOLEAN,
                   sent : 0 .. MaxRequests, asks : SUBSET Nat]
    BY <2>1 DEF V!Init
  <2>3. /\ inbox \in [pending : SUBSET Letters, claimed : SUBSET Letters, gone : SUBSET Letters]
        /\ inbox.pending = {}
    BY DEF V!Init
  <2> QED
    BY <2>1, <2>2, <2>3 DEF SrvTypes, V!Init
<1>3. InOrder
  BY <1>1 DEF InOrder, V!Init, V!Answers, V!AnsweredInOrder
<1>4. Asked
  BY DEF Asked, V!Init
<1>5. Ends /\ Once /\ V!SweepsAgain
  BY <1>1 DEF Ends, Once, V!SweepsAgain, V!Pushes, V!Init
<1> QED
  BY <1>2, <1>3, <1>4, <1>5 DEF SrvInv

\* The agent hangs up or reads; other processes send, claim, and open and close panes.
LEMMA WorldStep ==
  ASSUME SrvInv,
         V!Hangup \/ V!ReadOut \/ V!PaneChanges \/ \E m \in Letters : V!Arrive(m) \/ V!Claim(m)
  PROVE  SrvInv'
<1>1. SrvTypes /\ InOrder /\ Asked /\ Ends /\ Once /\ V!SweepsAgain
  BY DEF SrvInv
<1>2. /\ UNCHANGED <<source, queue, stage, ready, timer, closed, failed, server>> /\ Unmoved
      /\ V!SweepsAgain'
  BY <1>1 DEF V!Hangup, V!ReadOut, V!PaneChanges, V!Arrive, V!Claim, V!server_, Unmoved,
     SrvTypes, V!SweepsAgain, V!Pushes
<1>3. Kept /\ SrvTypes' /\ Ends' /\ Once'
  <2>1. CASE V!Hangup
    BY <1>1, <2>1, Silent DEF V!Hangup, V!server_, SrvTypes, Ends
  <2>2. CASE V!ReadOut
    <3>1. /\ out # << >> /\ server # "killed" /\ got' = Append(got, Head(out)) /\ out' = Tail(out)
          /\ UNCHANGED <<source, input, inbox, pane, changes>>
      BY <2>2 DEF V!ReadOut
    <3>2. got \in Seq(Line) /\ out \in Seq(Line)
      BY <1>1 DEF SrvTypes
    <3>3. /\ Append(got, Head(out)) \o Tail(out) = got \o out
          /\ Append(got, Head(out)) \in Seq(Line) /\ Tail(out) \in Seq(Line)
      BY <3>1, <3>2, Across
    <3>4. V!Written' = got' \o out' /\ V!Written = got \o out
      BY Zenon DEF V!Written
    <3>5. V!Written' = V!Written
      BY <3>1, <3>3, <3>4
    <3>6. V!Answers' = {i \in DOMAIN V!Written' : V!Written'[i].what = "answer"}
      BY DEF V!Answers
    <3>7. V!Answers = {i \in DOMAIN V!Written : V!Written[i].what = "answer"}
      BY DEF V!Answers
    <3>8. Kept
      BY <3>5, <3>6, <3>7 DEF Kept
    <3>9. Once'
      BY <1>1, <3>1, <3>5 DEF Once
    <3> QED
      BY <1>1, <1>2, <3>1, <3>3, <3>8, <3>9 DEF SrvTypes, Ends
  <2>3. CASE V!PaneChanges
    BY <1>1, <2>3, Silent DEF V!PaneChanges, V!server_, SrvTypes, Ends
  <2>4. ASSUME NEW m \in Letters, V!Arrive(m) PROVE Kept /\ SrvTypes' /\ Ends' /\ Once'
    <3>1. /\ m \notin inbox.pending /\ m \notin inbox.gone
          /\ inbox' = [inbox EXCEPT !.pending = @ \cup {m}]
          /\ UNCHANGED <<source, input, pane, out, got, changes>>
      BY <2>4 DEF V!Arrive
    <3>2. /\ inbox'.pending = inbox.pending \cup {m} /\ inbox'.gone = inbox.gone
          /\ inbox' \in [pending : SUBSET Letters,
                         claimed : SUBSET Letters, gone : SUBSET Letters]
      BY <1>1, <3>1 DEF SrvTypes
    <3>3. IsFiniteSet(inbox'.pending)
      <4>1. IsFiniteSet(inbox.pending)
        BY <1>1 DEF SrvTypes
      <4>2. IsFiniteSet(inbox.pending \cup {m})
        BY <4>1, FS_AddElement
      <4> QED
        BY <3>2, <4>2
    <3>4. Kept /\ V!Written' = V!Written
      BY <3>1, Silent
    <3>5. Once'
      BY <1>1, <3>1, <3>2, <3>4 DEF Once
    <3> QED
      BY <1>1, <1>2, <3>1, <3>2, <3>3, <3>4, <3>5 DEF SrvTypes, Ends
  <2>5. ASSUME NEW m \in Letters, V!Claim(m) PROVE Kept /\ SrvTypes' /\ Ends' /\ Once'
    <3>1. UNCHANGED <<source, input, pane, out, got>>
      BY <2>5 DEF V!Claim
    <3>2. /\ inbox'.pending = inbox.pending /\ inbox'.gone = inbox.gone
          /\ inbox' \in [pending : SUBSET Letters,
                         claimed : SUBSET Letters, gone : SUBSET Letters]
      BY <1>1, <2>5 DEF V!Claim, SrvTypes
    <3>3. Kept /\ V!Written' = V!Written
      BY <3>1, Silent
    <3>4. Once'
      BY <1>1, <3>2, <3>3 DEF Once
    <3> QED
      BY <1>1, <1>2, <3>1, <3>2, <3>3, <3>4 DEF SrvTypes, Ends
  <2> QED
    BY <2>1, <2>2, <2>3, <2>4, <2>5
<1>4. InOrder' /\ Asked'
  BY <1>1, <1>2, <1>3, RestStep
<1> QED
  BY <1>2, <1>3, <1>4 DEF SrvInv

\* The server sweeps, looks at the changed directory, sees the end of its input, or ends.
LEMMA ServerStep ==
  ASSUME SrvInv, V!InputEnds \/ V!Watch \/ V!Sweep \/ V!Stop \/ V!LastFlush \/ V!Finish
  PROVE  SrvInv'
<1>1. SrvTypes /\ InOrder /\ Asked /\ Ends /\ Once /\ V!SweepsAgain
  BY DEF SrvInv
<1>2. Unmoved /\ UNCHANGED <<source, input, ready, pane, got>>
  BY DEF V!InputEnds, V!Watch, V!Sweep, V!Stop, V!LastFlush, V!Finish, Unmoved
<1>3. server # "killed" \/ server' = "killed"
  BY DEF V!InputEnds, V!Watch, V!Sweep, V!Stop, V!LastFlush, V!Finish
<1>4. timer' \in BOOLEAN /\ closed' \in BOOLEAN
      /\ server' \in {"up", "ending", "done", "killed"} /\ V!SweepsAgain'
  BY <1>1, <1>2 DEF V!InputEnds, V!Watch, V!Sweep, V!Stop, V!LastFlush, V!Finish, SrvTypes,
     V!SweepsAgain, V!Pushes, V!Rearmed
<1>5. InboxOK' /\ Once' /\ out' \in Seq(Line) /\ Kept
  <2>1. CASE UNCHANGED <<inbox, out>>
    BY <1>1, <1>2, <2>1, Silent DEF InboxOK, SrvTypes
  <2>2. CASE V!Flushed
    BY <1>1, <1>2, <2>2, FlushOnce
  <2> QED
    BY <2>1, <2>2 DEF V!InputEnds, V!Watch, V!Sweep, V!Stop, V!LastFlush, V!Finish
<1>6. SrvTypes'
  BY <1>1, <1>2, <1>4, <1>5 DEF SrvTypes, Unmoved, InboxOK
<1>7. Ends'
  BY <1>1, <1>2 DEF V!InputEnds, V!Watch, V!Sweep, V!Stop, V!LastFlush, V!Finish, Ends, Unmoved
<1> QED
  BY <1>1, <1>2, <1>3, <1>4, <1>5, <1>6, <1>7, RestStep DEF SrvInv

\* The agent asks: the newest chunk is the first.
LEMMA AskStep ==
  ASSUME V!ServerConstants, SrvInv, NEW k \in V!Kinds, V!Ask(k)
  PROVE  SrvInv'
<1> DEFINE n == input.sent + 1
           r == [id |-> n, kind |-> k]
           cs == input.chunks
           ds == input'.chunks
<1>1. SrvTypes /\ InOrder /\ Asked /\ Ends /\ Once /\ V!SweepsAgain
  BY DEF SrvInv
<1>2. /\ UNCHANGED <<source, queue, stage, ready, timer, closed,
                     failed, server, inbox, pane, out, got>>
      /\ ~input.ended /\ input.sent < MaxRequests
      /\ input' = [input EXCEPT !.chunks = <<r>> \o cs, !.sent = n,
                     !.asks = IF k \in {"initialized", "torn"} THEN @ ELSE @ \cup {n}]
  BY DEF V!Ask, V!server_, V!Request
<1>3. /\ n \in 1 .. MaxRequests /\ input.sent \in Nat /\ cs \in Seq(Req) /\ r \in Req
      /\ \A j \in DOMAIN cs : cs[j].id \in Nat
      /\ \A i \in DOMAIN queue : queue[i].id \in Nat
  <2>1. cs \in Seq(Req) /\ queue \in Seq(Req) /\ n \in 1 .. MaxRequests /\ input.sent \in Nat
    BY <1>1, <1>2 DEF SrvTypes, V!ServerConstants
  <2>2. r \in Req
    BY <2>1 DEF Req
  <2>3. (\A j \in DOMAIN cs : cs[j] \in Req) /\ (\A j \in DOMAIN queue : queue[j] \in Req)
    BY <2>1
  <2> QED
    BY <2>1, <2>2, <2>3 DEF Req
<1>4. /\ ds = <<r>> \o cs /\ input'.sent = n /\ input'.ended = input.ended
      /\ input'.asks = IF k \in {"initialized", "torn"} THEN input.asks ELSE input.asks \cup {n}
      /\ input' = [chunks |-> ds, ended |-> input.ended, sent |-> n, asks |-> input'.asks]
  BY <1>1, <1>2 DEF SrvTypes
<1>5. /\ ds \in Seq(Req) /\ 1 \in DOMAIN ds /\ ds[1] = r
      /\ \A j \in DOMAIN ds : j # 1 => j - 1 \in DOMAIN cs /\ ds[j] = cs[j - 1] /\ j \in Nat
      /\ \A j \in DOMAIN cs : j \in Nat /\ j + 1 \in DOMAIN ds /\ ds[j + 1] = cs[j]
  <2>1. <<r>> \in Seq(Req) /\ Len(<<r>>) = 1 /\ <<r>>[1] = r
    BY <1>3
  <2> HIDE DEF r, cs, ds
  <2>2. /\ ds \in Seq(Req) /\ Len(ds) = 1 + Len(cs)
        /\ \A i \in 1 .. 1 + Len(cs) : ds[i] = IF i <= 1 THEN <<r>>[i] ELSE cs[i - 1]
    BY <1>3, <1>4, <2>1, ConcatProperties
  <2>3. Len(cs) \in Nat /\ DOMAIN cs = 1 .. Len(cs) /\ DOMAIN ds = 1 .. Len(ds)
    BY <1>3, <2>2, LenProperties
  <2> QED
    BY <2>1, <2>2, <2>3
<1>6. Kept /\ Once' /\ V!Written' = V!Written
  BY <1>1, <1>2, Silent
<1>7. SrvTypes'
  <2>1. input'.asks \in SUBSET Nat /\ input.ended \in BOOLEAN
    BY <1>1, <1>3, <1>4 DEF SrvTypes
  <2>2. input' \in [chunks : Seq(Req), ended : BOOLEAN,
                    sent : 0 .. MaxRequests, asks : SUBSET Nat]
    <3> DEFINE asks == input'.asks
    <3>1. input' = [chunks |-> ds, ended |-> input.ended, sent |-> n, asks |-> asks]
      BY <1>4
    <3>2. ds \in Seq(Req) /\ n \in 0 .. MaxRequests /\ asks \in SUBSET Nat
      BY <1>3, <1>5, <2>1
    <3> HIDE DEF ds, n, asks
    <3> QED
      BY <2>1, <3>1, <3>2
  <2> QED
    BY <1>1, <1>2, <2>2 DEF SrvTypes
<1> HIDE DEF ds, n, r
<1>8. InOrder'
  <2>1. /\ V!Answers' = V!Answers /\ V!AnsweredInOrder'
        /\ \A i \in V!Answers : V!Written'[i].id = V!Written[i].id
    BY <1>1, <1>6 DEF Kept, InOrder, V!AnsweredInOrder
  <2>2. \A i \in V!Answers : V!Written[i].id <= input.sent /\ V!Written[i].id \in Nat
    <3>1. V!Written \in Seq(Line)
      BY <1>1, ConcatProperties DEF SrvTypes, V!Written
    <3>2. \A i \in V!Answers : V!Written[i] \in Line
      BY <3>1 DEF V!Answers
    <3> QED
      BY <1>1, <3>2 DEF InOrder, Line
  <2>3. /\ \A j \in DOMAIN cs : /\ cs[j].id <= input.sent
                                /\ \A i \in DOMAIN cs : i < j => cs[j].id < cs[i].id
                                /\ \A i \in DOMAIN queue : queue[i].id < cs[j].id
                                /\ \A i \in V!Answers : V!Written[i].id < cs[j].id
        /\ \A i \in DOMAIN queue : queue[i].id <= input.sent
    BY <1>1 DEF InOrder
  <2>4. n = input.sent + 1 /\ r.id = n
    BY DEF n, r
  <2>5. \A j \in DOMAIN ds :
          /\ ds[j].id <= n
          /\ \A i \in DOMAIN ds : i < j => ds[j].id < ds[i].id
          /\ \A i \in DOMAIN queue : queue[i].id < ds[j].id
          /\ \A i \in V!Answers : V!Written[i].id < ds[j].id
    <3> SUFFICES ASSUME NEW j \in DOMAIN ds
                 PROVE  /\ ds[j].id <= n
                        /\ \A i \in DOMAIN ds : i < j => ds[j].id < ds[i].id
                        /\ \A i \in DOMAIN queue : queue[i].id < ds[j].id
                        /\ \A i \in V!Answers : V!Written[i].id < ds[j].id
      OBVIOUS
    <3>1. CASE j = 1
      <4>1. \A i \in DOMAIN ds : ~(i < 1)
        BY <1>5
      <4> QED
        BY <1>3, <1>5, <2>2, <2>3, <2>4, <3>1, <4>1
    <3>2. CASE j # 1
      <4>1. j - 1 \in DOMAIN cs /\ ds[j] = cs[j - 1]
        BY <1>5, <3>2
      <4>2. ASSUME NEW i \in DOMAIN ds, i < j PROVE ds[j].id < ds[i].id
        <5>1. CASE i = 1
          BY <1>3, <1>5, <2>3, <2>4, <4>1, <5>1
        <5>2. CASE i # 1
          BY <1>5, <2>3, <3>2, <4>1, <4>2, <5>2, SMTT(30)
        <5> QED
          BY <5>1, <5>2
      <4> QED
        BY <1>3, <2>3, <2>4, <4>1, <4>2
    <3> QED
      BY <3>1, <3>2
  <2>6. /\ \A i \in DOMAIN queue : queue[i].id <= n
        /\ \A i \in V!Answers : V!Written[i].id <= n
    BY <1>3, <2>2, <2>3, <2>4
  <2>7. input'.sent = n /\ input'.chunks = ds
    BY <1>4 DEF ds
  <2> QED
    BY <1>1, <1>2, <2>1, <2>5, <2>6, <2>7 DEF InOrder
<1>9. Asked'
  <2>1. \A a : Waiting(a) => Waiting(a)'
    BY <1>2, <1>5, ZenonT(60) DEF Waiting, ds
  <2>2. \A a : Told(a) => Told(a)'
    BY <1>6 DEF Told
  <2>3. \A a : a = n => Waiting(a)'
    BY <1>5 DEF Waiting, ds, r
  <2>4. n \notin input.asks /\ n \in 1 .. n
    BY <1>1, <1>3 DEF Asked, n
  <2>5. \A a \in input.asks : a \in 1 .. n
    BY <1>1, <1>3 DEF Asked, n
  <2>6. \A a \in input'.asks : 
          /\ a \in 1 .. n
          /\ server # "killed" => a \in failed \/ Waiting(a)' \/ Told(a)'
    BY <1>1, <1>4, <2>1, <2>2, <2>3, <2>4, <2>5 DEF Asked
  <2>7. \A j \in DOMAIN ds : ds[j].id \in input'.asks =>
          ds[j].kind \notin {"initialized", "torn"}
    <3> SUFFICES ASSUME NEW j \in DOMAIN ds, ds[j].id \in input'.asks
                 PROVE  ds[j].kind \notin {"initialized", "torn"}
      OBVIOUS
    <3>1. CASE j = 1
      BY <1>4, <1>5, <2>4, <3>1 DEF r
    <3>2. CASE j # 1
      <4>1. j - 1 \in DOMAIN cs /\ ds[j] = cs[j - 1]
        BY <1>5, <3>2
      <4>2. cs[j - 1].id # n
        BY <1>1, <1>3, <4>1 DEF InOrder, n
      <4> QED
        BY <1>1, <1>4, <4>1, <4>2 DEF Asked
    <3> QED
      BY <3>1, <3>2
  <2>8. \A i \in DOMAIN queue : queue[i].id \in input'.asks =>
          queue[i].kind \notin {"initialized", "torn"}
    <3>1. \A i \in DOMAIN queue : queue[i].id # n
      BY <1>1, <1>3 DEF InOrder, n
    <3> QED
      BY <1>1, <1>4, <3>1 DEF Asked
  <2> QED
    BY <1>2, <1>4, <2>6, <2>7, <2>8 DEF Asked, ds
<1>10. Ends' /\ V!SweepsAgain'
  BY <1>1, <1>2, <1>4 DEF Ends, V!SweepsAgain, V!Pushes
<1> QED
  BY <1>6, <1>7, <1>8, <1>9, <1>10 DEF SrvInv

\* consumeFrames: the oldest chunk becomes the last request, or ends the server.
LEMMA ReadChunk ==
  ASSUME SrvInv, V!Read
  PROVE  SrvInv'
<1> DEFINE cs == input.chunks
           ds == input'.chunks
           n == Len(cs)
           r == cs[n]
           l == Len(queue) + 1
<1>1. SrvTypes /\ InOrder /\ Asked /\ Ends /\ Once /\ V!SweepsAgain
  BY DEF SrvInv
<1>2. /\ server = "up" /\ cs # << >> /\ input' = [input EXCEPT !.chunks = SubSeq(cs, 1, n - 1)]
      /\ \/ r.kind = "torn" /\ server' = "killed" /\ queue' = queue
         \/ r.kind # "torn" /\ server' = "up" /\ queue' = Append(queue, r)
      /\ UNCHANGED <<source, stage, ready, timer, closed, inbox, pane, out, got, failed>>
  BY DEF V!Read, V!Front, V!Last
<1>3. cs \in Seq(Req) /\ queue \in Seq(Req) /\ n \in Nat \ {0} /\ DOMAIN cs = 1 .. n /\ r \in Req
      /\ DOMAIN queue = 1 .. l - 1 /\ l \in Nat \ {0}
  BY <1>1, <1>2, EmptySeq, LenProperties DEF SrvTypes
<1>4. /\ ds = SubSeq(cs, 1, n - 1) /\ input'.sent = input.sent /\ input'.ended = input.ended
      /\ input'.asks = input.asks
      /\ input' = [chunks |-> ds, ended |-> input.ended, sent |-> input.sent, asks |-> input.asks]
  BY <1>1, <1>2 DEF SrvTypes
<1>5. /\ ds \in Seq(Req)
      /\ \A j \in DOMAIN ds : j \in DOMAIN cs /\ ds[j] = cs[j] /\ j < n
      /\ \A j \in DOMAIN cs : j = n \/ j \in DOMAIN ds
  <2> HIDE DEF cs, ds, n, r
  <2>1. \A j \in 1 .. n - 1 : cs[j] \in Req
    BY <1>3
  <2>2. ds \in Seq(Req) /\ Len(ds) = n - 1 /\ \A j \in 1 .. n - 1 : ds[j] = cs[j]
    BY <1>3, <1>4, <2>1, SubSeqProperties
  <2> QED
    BY <1>3, <2>2, LenProperties
<1>6. queue' = queue \/ (queue' = Append(queue, r) /\ r.kind # "torn")
  BY <1>2
<1>7. /\ queue' \in Seq(Req)
      /\ \A i \in DOMAIN queue : i \in DOMAIN queue' /\ queue'[i] = queue[i] /\ i < l
      /\ \A i \in DOMAIN queue' : i \in DOMAIN queue
             \/ (i = l /\ queue'[i] = r /\ r.kind # "torn")
      /\ queue' # queue => l \in DOMAIN queue' /\ queue'[l] = r
  <2> HIDE DEF r
  <2>1. CASE queue' = queue
    BY <1>3, <2>1
  <2>2. CASE queue' = Append(queue, r) /\ r.kind # "torn"
    <3>1. r \in Req /\ queue \in Seq(Req)
      BY <1>3 DEF r
    <3>2. /\ queue' \in Seq(Req) /\ Len(queue') = l
          /\ \A i \in 1 .. l - 1 : queue'[i] = queue[i]
          /\ queue'[l] = r
      BY <1>3, <2>2, <3>1, AppendProperties
    <3>3. DOMAIN queue' = 1 .. l
      BY <3>2
    <3> HIDE DEF l
    <3> QED
      BY <1>3, <2>2, <3>2, <3>3
  <2> QED
    BY <1>6, <2>1, <2>2
<1>8. Kept /\ Once' /\ V!Written' = V!Written
  BY <1>1, <1>2, Silent
<1>9. SrvTypes'
  <2>1. input' \in [chunks : Seq(Req), ended : BOOLEAN,
                    sent : 0 .. MaxRequests, asks : SUBSET Nat]
    BY <1>1, <1>4, <1>5 DEF SrvTypes
  <2> QED
    BY <1>1, <1>2, <1>7, <2>1 DEF SrvTypes
<1> HIDE DEF ds, n, r, l
<1>10. InOrder'
  <2>1. /\ V!Answers' = V!Answers /\ V!AnsweredInOrder'
        /\ \A i \in V!Answers : V!Written'[i].id = V!Written[i].id
    BY <1>1, <1>8 DEF Kept, InOrder, V!AnsweredInOrder
  <2>2. /\ \A j \in DOMAIN cs : /\ cs[j].id <= input.sent
                                /\ \A i \in DOMAIN cs : i < j => cs[j].id < cs[i].id
                                /\ \A i \in DOMAIN queue : queue[i].id < cs[j].id
                                /\ \A i \in V!Answers : V!Written[i].id < cs[j].id
        /\ \A i \in DOMAIN queue : /\ queue[i].id <= input.sent
                                  /\ \A j \in DOMAIN queue : i < j => queue[i].id < queue[j].id
        /\ \A i \in V!Answers : V!Written[i].id <= input.sent
    BY <1>1 DEF InOrder
  <2>3. n \in DOMAIN cs /\ r = cs[n]
    BY <1>3 DEF r
  <2>4. \A i \in DOMAIN queue : (i # 1 \/ stage # "flush") =>
          \A k \in V!Answers : V!Written[k].id < queue[i].id
    BY <1>1 DEF InOrder
  <2>5. stage # "idle" => queue # << >>
    BY <1>1 DEF InOrder
  <2>6. \A j \in DOMAIN ds :
          /\ ds[j].id <= input.sent
          /\ \A i \in DOMAIN ds : i < j => ds[j].id < ds[i].id
          /\ \A i \in DOMAIN queue' : queue'[i].id < ds[j].id
          /\ \A i \in V!Answers : V!Written[i].id < ds[j].id
    <3>1. \A j \in DOMAIN ds : r.id < ds[j].id
      BY <1>3, <1>5, <2>2, <2>3
    <3> QED
      BY <1>5, <1>7, <2>2, <3>1
  <2>7. \A i \in DOMAIN queue' :
          /\ queue'[i].id <= input.sent
          /\ \A j \in DOMAIN queue' : i < j => queue'[i].id < queue'[j].id
    <3> SUFFICES ASSUME NEW i \in DOMAIN queue'
                 PROVE  /\ queue'[i].id <= input.sent
                        /\ \A j \in DOMAIN queue' : i < j => queue'[i].id < queue'[j].id
      OBVIOUS
    <3>1. CASE i \in DOMAIN queue
      BY <1>7, <2>2, <2>3, <3>1
    <3>2. CASE i \notin DOMAIN queue
      <4>1. i = l /\ queue'[i] = r /\ \A j \in DOMAIN queue' : ~(l < j)
        BY <1>3, <1>7, <3>2
      <4> QED
        BY <2>2, <2>3, <4>1
    <3> QED
      BY <3>1, <3>2
  <2>8. \A i \in DOMAIN queue' : (i # 1 \/ stage # "flush") =>
          \A k \in V!Answers : V!Written[k].id < queue'[i].id
    BY <1>7, <2>2, <2>3, <2>4
  <2>9. stage # "idle" => queue' # << >>
    BY <1>3, <1>7, <2>5, EmptySeq
  <2>10. input'.sent = input.sent /\ input'.chunks = ds /\ stage' = stage
    BY <1>2, <1>4 DEF ds
  <2> QED
    BY <2>1, <2>2, <2>6, <2>7, <2>8, <2>9, <2>10 DEF InOrder
<1>11. Asked'
  <2>1. \A a : Told(a) => Told(a)'
    BY <1>8 DEF Told
  <2>2. server' # "killed" => \A a : Waiting(a) => Waiting(a)'
    <3> SUFFICES ASSUME server' # "killed", NEW a, Waiting(a) PROVE Waiting(a)'
      OBVIOUS
    <3>1. queue' = Append(queue, r) /\ UNCHANGED stage
      BY <1>2 DEF r, n
    <3>2. l \in DOMAIN queue' /\ queue'[l] = r /\ (l # 1 \/ stage # "flush")
      <4>1. stage # "idle" => queue # << >>
        BY <1>1 DEF InOrder
      <4>2. Len(queue') = Len(queue) + 1
        BY <1>3, <3>1, AppendProperties DEF r
      <4>3. queue' # queue
        BY <1>3, <4>2
      <4> QED
        BY <1>3, <1>7, <4>1, <4>3, EmptySeq DEF l
    <3>3. CASE \E j \in DOMAIN cs : cs[j].id = a
      BY <1>5, <3>1, <3>2, <3>3 DEF Waiting, ds, r
    <3>4. CASE \E i \in DOMAIN queue : queue[i].id = a /\ (i # 1 \/ stage # "flush")
      BY <1>7, <3>1, <3>4 DEF Waiting
    <3> QED
      BY <3>3, <3>4 DEF Waiting
  <2>3. \A j \in DOMAIN ds : ds[j].id \in input.asks =>
          ds[j].kind \notin {"initialized", "torn"}
    BY <1>1, <1>5 DEF Asked
  <2>4. \A i \in DOMAIN queue' : queue'[i].id \in input.asks =>
          queue'[i].kind \notin {"initialized", "torn"}
    BY <1>1, <1>3, <1>7, SMTT(30) DEF Asked, r
  <2> QED
    BY <1>1, <1>2, <1>4, <2>1, <2>2, <2>3, <2>4 DEF Asked, ds
<1>12. Ends' /\ V!SweepsAgain'
  BY <1>1, <1>2, <1>4 DEF Ends, V!SweepsAgain, V!Pushes
<1> QED
  BY <1>8, <1>9, <1>10, <1>11, <1>12 DEF SrvInv

\* A list of one line, behind an empty list or any other.
LEMMA OneLine ==
  ASSUME NEW S, NEW s \in Seq(S), NEW x \in S, NEW t, t = <<x>>
  PROVE  /\ t \in Seq(S) /\ DOMAIN t = {1} /\ t[1] = x /\ Append(s, x) = s \o t
<1>1. t \in Seq(S) /\ DOMAIN t = {1} /\ t[1] = x
  OBVIOUS
<1> QED
  BY <1>1, AppendIsConcat

\* The request at the head is answered, or asks for no answer.
LEMMA HeadAnswered ==
  ASSUME SrvInv, server' # "killed", stage # "flush", stage' = "flush", queue # << >>,
         UNCHANGED <<input, queue, got, failed>>, NEW ns \in Seq(Line), out' = out \o ns,
         \/ ns = << >> /\ queue[1].id \notin input.asks
         \/ DOMAIN ns = {1} /\ ns[1].what = "answer" /\ ns[1].id = queue[1].id,
         server # "killed"
  PROVE  InOrder' /\ Asked'
<1> DEFINE w == V!Written
           v == V!Written'
           n == Len(w)
<1>1. SrvTypes /\ InOrder /\ Asked
  BY DEF SrvInv
<1>2. /\ n \in Nat
      /\ \A i \in DOMAIN w : i \in DOMAIN v /\ v[i] = w[i] /\ i \in 1 .. n
      /\ \A j \in DOMAIN ns : n + j \in DOMAIN v /\ v[n + j] = ns[j]
      /\ \A i \in DOMAIN v : i \in DOMAIN w \/ \E j \in DOMAIN ns : i = n + j
  BY <1>1, Growth
<1>3. /\ V!Answers' = {i \in DOMAIN v : v[i].what = "answer"}
      /\ V!Answers = {i \in DOMAIN w : w[i].what = "answer"}
  BY DEF V!Answers
<1>4. V!AnsweredInOrder' = (\A i, j \in V!Answers' : i < j => v[i].id < v[j].id)
      /\ V!AnsweredInOrder = (\A i, j \in V!Answers : i < j => w[i].id < w[j].id)
  BY DEF V!AnsweredInOrder
<1>5. 1 \in DOMAIN queue /\ (\A i \in DOMAIN queue : i \in Nat \ {0}) /\ queue[1].id \in Nat
  <2>1. queue \in Seq(Req)
    BY <1>1 DEF SrvTypes
  <2>2. Len(queue) \in Nat \ {0} /\ DOMAIN queue = 1 .. Len(queue)
    BY <2>1, LenProperties, EmptySeq
  <2>3. queue[1] \in Req
    BY <2>1, <2>2
  <2> QED
    BY <2>2, <2>3 DEF Req
<1>6. /\ \A j \in DOMAIN input.chunks : /\ queue[1].id < input.chunks[j].id
                                         /\ \A k \in V!Answers : w[k].id < input.chunks[j].id
      /\ \A i \in DOMAIN queue : /\ i # 1 => queue[1].id < queue[i].id
                                /\ \A k \in V!Answers : w[k].id < queue[i].id
      /\ queue[1].id <= input.sent
      /\ \A k \in V!Answers : w[k].id <= input.sent
      /\ V!AnsweredInOrder
  BY <1>1, <1>5 DEF InOrder
<1> HIDE DEF w, v, n
\* An answer is an old one, or the last line.
<1>7. \A k \in V!Answers' :
        \/ k \in V!Answers /\ v[k].id = w[k].id /\ k \in 1 .. n
        \/ k = n + 1 /\ v[k].id = queue[1].id
  <2> SUFFICES ASSUME NEW k \in V!Answers'
               PROVE  \/ k \in V!Answers /\ v[k].id = w[k].id /\ k \in 1 .. n
                      \/ k = n + 1 /\ v[k].id = queue[1].id
    OBVIOUS
  <2>1. CASE k \in DOMAIN w
    BY <1>2, <1>3, <2>1
  <2>2. CASE k \notin DOMAIN w
    <3>1. PICK j \in DOMAIN ns : k = n + j
      BY <1>2, <1>3, <2>2
    <3>2. j = 1 /\ ns[1].id = queue[1].id
      <4>1. CASE ns = << >>
        BY <3>1, <4>1
      <4>2. CASE DOMAIN ns = {1} /\ ns[1].id = queue[1].id
        BY <3>1, <4>2
      <4> QED
        BY <4>1, <4>2
    <3> QED
      BY <1>2, <3>1, <3>2
  <2> QED
    BY <2>1, <2>2
<1>8. V!AnsweredInOrder'
  <2> SUFFICES ASSUME NEW i \in V!Answers', NEW j \in V!Answers', i < j PROVE v[i].id < v[j].id
    BY <1>4
  <2>1. i \in V!Answers /\ v[i].id = w[i].id
    <3>1. n \in Nat /\ j \in 1 .. n + 1
      BY <1>2, <1>7
    <3>2. i # n + 1
      BY <3>1
    <3> QED
      BY <1>7, <3>2
  <2>2. CASE j \in V!Answers /\ v[j].id = w[j].id
    BY <1>4, <1>6, <2>1, <2>2
  <2>3. CASE v[j].id = queue[1].id
    BY <1>5, <1>6, <2>1, <2>3
  <2> QED
    BY <1>7, <2>2, <2>3
<1>9. /\ \A j \in DOMAIN input.chunks : \A k \in V!Answers' : v[k].id < input.chunks[j].id
      /\ \A i \in DOMAIN queue : i # 1 => \A k \in V!Answers' : v[k].id < queue[i].id
      /\ \A k \in V!Answers' : v[k].id <= input.sent
  BY <1>6, <1>7
<1>10. InOrder'
  BY <1>1, <1>8, <1>9 DEF InOrder, v
<1>11. \A a : Told(a) => Told(a)'
  BY <1>2 DEF Told, w, v
<1>12. queue[1].id \in input.asks => Told(queue[1].id)'
  <2> SUFFICES ASSUME queue[1].id \in input.asks PROVE Told(queue[1].id)'
    OBVIOUS
  <2>1. 1 \in DOMAIN ns /\ ns[1].id = queue[1].id
    OBVIOUS
  <2>2. n + 1 \in DOMAIN v /\ v[n + 1].id = queue[1].id
    BY <1>2, <2>1
  <2> QED
    BY <2>2 DEF Told, v
<1>13. \A a : Waiting(a) => Waiting(a)' \/ a = queue[1].id
  BY DEF Waiting
<1>14. Asked'
  BY <1>1, <1>11, <1>12, <1>13 DEF Asked
<1> QED
  BY <1>10, <1>14

\* The next request comes to the head.
LEMMA HeadLeaves ==
  ASSUME SrvInv, Kept, server # "killed", stage # "idle", stage' = "idle", queue' = Tail(queue),
         UNCHANGED input, failed \subseteq failed', stage # "flush" =>
                 Head(queue).id \in failed'
  PROVE  InOrder' /\ Asked' /\ queue' \in Seq(Req)
<1>1. SrvTypes /\ InOrder /\ Asked /\ queue # << >> /\ queue \in Seq(Req)
  BY DEF SrvInv, InOrder, SrvTypes
<1>2. /\ queue' \in Seq(Req) /\ Head(queue) = queue[1]
      /\ \A i \in DOMAIN queue' : /\ i \in Nat \ {0} /\ i + 1 \in DOMAIN queue
                                 /\ queue'[i] = queue[i + 1]
      /\ \A i \in DOMAIN queue : i = 1 \/ (i - 1 \in DOMAIN queue' /\ queue'[i - 1] = queue[i])
  <2>1. /\ Tail(queue) \in Seq(Req) /\ Len(Tail(queue)) = Len(queue) - 1
        /\ \A i \in 1 .. Len(queue) - 1 : Tail(queue)[i] = queue[i + 1]
    BY <1>1, HeadTailProperties
  <2>2. Len(queue) \in Nat \ {0} /\ DOMAIN queue = 1 .. Len(queue)
        /\ DOMAIN Tail(queue) = 1 .. Len(queue) - 1
    BY <1>1, <2>1, LenProperties, EmptySeq
  <2> QED
    BY <2>1, <2>2
<1>3. /\ V!Answers' = V!Answers
      /\ \A k \in V!Answers : V!Written'[k] = V!Written[k]
      /\ \A k \in DOMAIN V!Written : k \in DOMAIN V!Written' /\ V!Written'[k] = V!Written[k]
  BY DEF Kept, V!Answers
<1>4. V!AnsweredInOrder'
  BY <1>1, <1>3 DEF InOrder, V!AnsweredInOrder
<1>5. InOrder'
  <2> DEFINE w == V!Written
             v == V!Written'
  <2>1. /\ \A j \in DOMAIN input.chunks :
             /\ input.chunks[j].id <= input.sent
             /\ \A i \in DOMAIN input.chunks : i < j => input.chunks[j].id < input.chunks[i].id
             /\ \A i \in DOMAIN queue : queue[i].id < input.chunks[j].id
             /\ \A k \in V!Answers : w[k].id < input.chunks[j].id
        /\ \A i \in DOMAIN queue :
             /\ queue[i].id <= input.sent
             /\ \A j \in DOMAIN queue : i < j => queue[i].id < queue[j].id
             /\ i # 1 => \A k \in V!Answers : w[k].id < queue[i].id
        /\ \A k \in V!Answers : w[k].id <= input.sent
    BY <1>1 DEF InOrder
  <2>2. \A k \in V!Answers : v[k] = w[k]
    BY <1>3
  <2>3. V!Answers' = V!Answers
    BY <1>3
  <2> HIDE DEF w, v
  <2>4. \A i \in DOMAIN queue' :
          /\ queue'[i].id <= input.sent
          /\ \A j \in DOMAIN queue' : i < j => queue'[i].id < queue'[j].id
          /\ \A k \in V!Answers : w[k].id < queue'[i].id
          /\ \A j \in DOMAIN input.chunks : queue'[i].id < input.chunks[j].id
    BY <1>2, <2>1
  <2> QED
    BY <1>4, <2>1, <2>2, <2>3, <2>4 DEF InOrder, v
<1>6. \A a : Told(a) => Told(a)'
  BY <1>3 DEF Told
<1>7. \A a : Waiting(a) => Waiting(a)' \/ a \in failed'
  <2> SUFFICES ASSUME NEW a, Waiting(a) PROVE Waiting(a)' \/ a \in failed'
    OBVIOUS
  <2>1. CASE \E j \in DOMAIN input.chunks : input.chunks[j].id = a
    BY <2>1 DEF Waiting
  <2>2. CASE \E i \in DOMAIN queue : queue[i].id = a /\ (i # 1 \/ stage # "flush")
    <3>1. PICK i \in DOMAIN queue : queue[i].id = a /\ (i # 1 \/ stage # "flush")
      BY <2>2
    <3>2. CASE i = 1
      BY <1>2, <3>1, <3>2
    <3>3. CASE i # 1
      <4>1. i - 1 \in DOMAIN queue' /\ queue'[i - 1].id = a
        BY <1>2, <3>1, <3>3
      <4> QED
        BY <4>1 DEF Waiting
    <3> QED
      BY <3>2, <3>3
  <2> QED
    BY <2>1, <2>2 DEF Waiting
<1>8. Asked'
  BY <1>1, <1>2, <1>6, <1>7 DEF Asked
<1> QED
  BY <1>2, <1>5, <1>8

\* handleBridgeRequest: an answer at once, with the messages for receive_messages, or a dispatch.
LEMMA HandleStep ==
  ASSUME SrvInv, V!Handle
  PROVE  SrvInv'
<1> DEFINE r == Head(queue)
           read == IF r.kind = "receive" THEN inbox.pending \ inbox.claimed ELSE {}
           x == [V!Answer(r.id) EXCEPT !.with = read]
<1>1. SrvTypes /\ InOrder /\ Asked /\ Ends /\ Once /\ V!SweepsAgain
  BY DEF SrvInv
<1>2. /\ server = "up" /\ stage = "idle" /\ queue # << >>
      /\ ready' = (ready \/ r.kind = "initialized")
      /\ timer' = (timer \/ (source = "claude" /\ ready' /\ ~closed))
      /\ UNCHANGED <<source, input, queue, closed, pane, got, failed, server>>
      /\ \/ stage' = "dispatch" /\ UNCHANGED <<inbox, out>>
         \/ /\ stage' = "flush" /\ V!Taken(read)
            /\ \/ r.kind = "initialized" /\ out' = out
               \/ r.kind # "initialized" /\ out' = Append(out, x)
  BY DEF V!Handle, V!Armed
<1>3. r \in Req /\ r = queue[1] /\ queue \in Seq(Req) /\ 1 \in DOMAIN queue
  BY <1>1, <1>2, HeadTailProperties, EmptySeq, LenProperties DEF SrvTypes
<1>4. ready' \in BOOLEAN /\ timer' \in BOOLEAN /\ V!SweepsAgain' /\ Ends'
  <2>1. ready' \in BOOLEAN /\ timer' \in BOOLEAN
    BY <1>1, <1>2 DEF SrvTypes
  <2>2. V!SweepsAgain'
    BY <1>2 DEF V!SweepsAgain, V!Pushes
  <2>3. Ends'
    BY <1>1, <1>2 DEF Ends
  <2> QED
    BY <2>1, <2>2, <2>3
<1>5. CASE stage' = "dispatch" /\ UNCHANGED <<inbox, out>>
  <2>1. Kept /\ Once'
    BY <1>1, <1>2, <1>5, Silent
  <2>2. Unmoved
    BY <1>2, <1>5 DEF Unmoved
  <2>3. InOrder' /\ Asked'
    BY <1>1, <1>2, <2>1, <2>2, RestStep
  <2>4. SrvTypes'
    BY <1>1, <1>2, <1>4, <1>5 DEF SrvTypes
  <2> QED
    BY <1>4, <2>1, <2>3, <2>4 DEF SrvInv
<1>6. CASE stage' = "flush" /\ V!Taken(read) /\ r.kind = "initialized" /\ out' = out
  <2> DEFINE ns == << >>
  <2>1. out \in Seq(Line) /\ ns \in Seq(Line) /\ out' = out \o ns /\ read = {}
    BY <1>1, <1>6, EmptySeq, ConcatEmptySeq DEF SrvTypes
  <2>2. queue[1].id \notin input.asks
    BY <1>1, <1>3, <1>6 DEF Asked
  <2>3. DOMAIN ns = {} /\ ns = << >>
    OBVIOUS
  <2> HIDE DEF ns, read
  <2>4. InOrder' /\ Asked'
    BY <1>2, <1>6, <2>1, <2>2, <2>3, HeadAnswered
  <2>5. InboxOK' /\ Once'
    <3>1. V!Taken(read) /\ UNION {ns[i].with : i \in DOMAIN ns} = read
      BY <1>6, <2>1, <2>3
    <3> QED
      BY <1>1, <1>2, <2>1, <2>3, <3>1, Takes
  <2>6. SrvTypes'
    BY <1>1, <1>2, <1>4, <1>6, <2>5 DEF SrvTypes, InboxOK
  <2> QED
    BY <1>4, <2>4, <2>5, <2>6 DEF SrvInv
<1>7. CASE stage' = "flush" /\ V!Taken(read) /\ r.kind # "initialized" /\ out' = Append(out, x)
  <2>1. read \subseteq inbox.pending /\ read \in SUBSET Letters /\ r.id \in Nat
    BY <1>1, <1>3 DEF SrvTypes, Req
  <2>2. x = [what |-> "answer", id |-> r.id, with |-> read]
    BY DEF V!Answer
  <2>3. x \in Line
    BY <2>1, <2>2 DEF Line
  <2> DEFINE ns == <<x>>
  <2>4. /\ ns \in Seq(Line) /\ DOMAIN ns = {1} /\ ns[1] = x /\ out' = out \o ns
        /\ out \in Seq(Line)
    <3>1. out \in Seq(Line)
      BY <1>1 DEF SrvTypes
    <3> HIDE DEF x
    <3> QED
      BY <1>7, <2>3, <3>1, OneLine
  <2> HIDE DEF ns, x
  <2>5. UNION {ns[i].with : i \in DOMAIN ns} = read /\ ns[1].with = read
    BY <2>2, <2>4
  <2>6. ns[1].what = "answer" /\ ns[1].id = queue[1].id
    BY <1>3, <2>2, <2>4
  <2> HIDE DEF read, r
  <2>7. InOrder' /\ Asked'
    BY <1>2, <1>7, <2>4, <2>6, HeadAnswered
  <2>8. InboxOK' /\ Once'
    BY <1>1, <1>2, <1>7, <2>1, <2>4, <2>5, Takes
  <2>9. out' \in Seq(Line)
    BY <2>4, ConcatProperties
  <2>10. SrvTypes'
    BY <1>1, <1>2, <1>4, <1>7, <2>8, <2>9 DEF SrvTypes, InboxOK
  <2> QED
    BY <1>4, <2>7, <2>8, <2>10 DEF SrvInv
<1> QED
  BY <1>2, <1>5, <1>6, <1>7

\* handleSendMessageTool has done: the answer says what became of the message.
LEMMA DispatchedStep ==
  ASSUME SrvInv, V!Dispatched
  PROVE  SrvInv'
<1> DEFINE r == Head(queue)
           x == V!Answer(r.id)
           ns == <<x>>
<1>1. SrvTypes /\ InOrder /\ Asked /\ Ends /\ Once /\ V!SweepsAgain
  BY DEF SrvInv
<1>2. /\ server = "up" /\ stage = "dispatch" /\ stage' = "flush" /\ out' = Append(out, x)
      /\ UNCHANGED <<source, input, queue, ready, timer, closed,
                     inbox, pane, got, failed, server>>
      /\ queue # << >>
  BY <1>1 DEF V!Dispatched, InOrder
<1>3. r \in Req /\ r = queue[1] /\ r.id \in Nat
  <2>1. r \in Req /\ r = queue[1]
    BY <1>1, <1>2, HeadTailProperties, EmptySeq, LenProperties DEF SrvTypes
  <2> QED
    BY <2>1 DEF Req
<1>4. x = [what |-> "answer", id |-> r.id, with |-> {}] /\ x \in Line
  BY <1>3 DEF V!Answer, Line
<1>5. /\ ns \in Seq(Line) /\ DOMAIN ns = {1} /\ ns[1] = x /\ out' = out \o ns
      /\ out \in Seq(Line) /\ out' \in Seq(Line)
  <2>1. out \in Seq(Line)
    BY <1>1 DEF SrvTypes
  <2> HIDE DEF x
  <2>2. ns \in Seq(Line) /\ DOMAIN ns = {1} /\ ns[1] = x /\ out' = out \o ns
    <3>1. x \in Line /\ out' = Append(out, x)
      BY <1>2, <1>4
    <3> QED
      BY <2>1, <3>1, OneLine
  <2> QED
    BY <2>1, <2>2, ConcatProperties
<1> HIDE DEF ns, x
<1>6. ns[1].what = "answer" /\ ns[1].id = queue[1].id /\ ns[1].with = {}
  BY <1>3, <1>4, <1>5
<1>7. InOrder' /\ Asked'
  BY <1>2, <1>5, <1>6, HeadAnswered
<1>8. InboxOK' /\ Once'
  <2>1. UNION {ns[i].with : i \in DOMAIN ns} = {}
    BY <1>5, <1>6
  <2>2. inbox \in [pending : SUBSET Letters, claimed : SUBSET Letters, gone : SUBSET Letters]
    BY <1>1 DEF SrvTypes
  <2>3. V!Taken({})
    BY <1>2, <2>2 DEF V!Taken
  <2> QED
    BY <1>1, <1>2, <1>5, <1>6, <2>1, <2>3, Takes
<1>9. SrvTypes' /\ Ends' /\ V!SweepsAgain'
  BY <1>1, <1>2, <1>5 DEF SrvTypes, Ends, V!SweepsAgain, V!Pushes
<1> QED
  BY <1>7, <1>8, <1>9 DEF SrvInv

\* requestQueue goes on, after the flush or after a handler that threw.
LEMMA NextStep ==
  ASSUME V!ServerConstants, SrvInv, V!Throws \/ V!FlushAfter
  PROVE  SrvInv'
<1>1. SrvTypes /\ InOrder /\ Asked /\ Ends /\ Once /\ V!SweepsAgain
  BY DEF SrvInv
<1>2. /\ server = "up" /\ stage # "idle" /\ stage' = "idle" /\ queue' = Tail(queue)
      /\ UNCHANGED <<source, input, ready, timer, closed, pane, got, server>>
      /\ failed \subseteq failed' /\ (stage # "flush" => Head(queue).id \in failed')
      /\ failed' \subseteq failed \cup {Head(queue).id}
  BY DEF V!Throws, V!FlushAfter
<1>3. InboxOK' /\ Once' /\ out' \in Seq(Line) /\ Kept
  <2>1. CASE V!Throws
    <3>1. UNCHANGED <<inbox, out, got>>
      BY <2>1 DEF V!Throws
    <3> QED
      BY <1>1, <3>1, Silent DEF InboxOK, SrvTypes
  <2>2. CASE V!FlushAfter
    <3>1. V!Flushed
      BY <2>2 DEF V!FlushAfter
    <3> QED
      BY <1>1, <1>2, <3>1, FlushOnce
  <2> QED
    BY <2>1, <2>2
<1>4. InOrder' /\ Asked' /\ queue' \in Seq(Req)
  BY <1>2, <1>3, HeadLeaves
<1>5. failed' \subseteq 1 .. MaxRequests
  <2>1. queue # << >> /\ queue \in Seq(Req)
    BY <1>1, <1>2 DEF InOrder, SrvTypes
  <2>2. Head(queue) \in Req /\ Head(queue) = queue[1] /\ 1 \in DOMAIN queue
    BY <2>1, HeadTailProperties, EmptySeq, LenProperties
  <2>3. Head(queue).id \in Nat \ {0} /\ Head(queue).id <= input.sent
    BY <1>1, <2>2 DEF InOrder, Req
  <2>4. input.sent \in 0 .. MaxRequests
    BY <1>1 DEF SrvTypes
  <2> QED
    BY <1>1, <1>2, <2>3, <2>4 DEF SrvTypes, V!ServerConstants
<1>6. SrvTypes'
  BY <1>1, <1>2, <1>3, <1>4, <1>5 DEF SrvTypes, InboxOK
<1>7. Ends' /\ V!SweepsAgain'
  BY <1>1, <1>2 DEF Ends, V!SweepsAgain, V!Pushes
<1> QED
  BY <1>3, <1>4, <1>6, <1>7 DEF SrvInv

\* Every step of the agent, the server and the other processes keeps it.
LEMMA SrvStep == ASSUME V!ServerConstants, SrvInv, [V!Next]_V!vars PROVE SrvInv'
<1>1. ASSUME NEW k \in V!Kinds, V!Ask(k) PROVE SrvInv'
  BY <1>1, AskStep
<1>2. CASE \/ V!Hangup \/ V!ReadOut \/ V!PaneChanges
           \/ \E m \in Letters : V!Arrive(m) \/ V!Claim(m)
  BY <1>2, WorldStep
<1>3. CASE V!InputEnds \/ V!Watch \/ V!Sweep \/ V!Stop \/ V!LastFlush \/ V!Finish
  BY <1>3, ServerStep
<1>4. CASE V!Read \/ V!Handle \/ V!Dispatched \/ V!Throws \/ V!FlushAfter
  BY <1>4, ReadChunk, HandleStep, DispatchedStep, NextStep
<1>5. CASE UNCHANGED V!vars
  <2>1. UNCHANGED <<source, input, queue, stage, ready, timer, closed,
                    inbox, pane, out, got, failed, server>>
    BY <1>5 DEF V!vars
  <2>2. Kept /\ Unmoved /\ (Once => Once')
    BY <2>1, Silent DEF Unmoved
  <2>3. InOrder' /\ Asked'
    <3>1. InOrder /\ Asked /\ (server # "killed" \/ server' = "killed")
      BY <2>1 DEF SrvInv
    <3> QED
      BY <2>2, <3>1, RestStep
  <2>4. SrvTypes' /\ Ends' /\ V!SweepsAgain'
    BY <2>1 DEF SrvInv, SrvTypes, Ends, V!SweepsAgain, V!Pushes
  <2> QED
    BY <2>2, <2>3, <2>4 DEF SrvInv
<1> QED
  BY <1>1, <1>2, <1>3, <1>4, <1>5 DEF V!Next

\* So it holds in every state of the server.
LEMMA SrvInvHolds == ASSUME V!ServerConstants PROVE V!Spec => []SrvInv
<1>1. V!Init => SrvInv
  BY SrvBegins
<1>2. SrvInv /\ [V!Next]_V!vars => SrvInv'
  BY SrvStep
<1> QED
  BY <1>1, <1>2, PTL DEF V!Spec

\* The types of the server, its requests and its lines, which runBridgeMcpServer keeps.
THEOREM ServerTypes == ASSUME V!ServerConstants PROVE V!Spec => []V!TypeOK
<1>1. SrvInv => V!TypeOK
  BY DEF SrvInv, SrvTypes, V!TypeOK
<1> QED
  BY <1>1, SrvInvHolds, PTL

\* Requests are answered in their order (requestQueue) and, by a server that ends with its
\* input, all but those whose handler threw; a message that is taken from the inbox is
\* written once, and read unless the server is stopped first (flushClaudeChannelMessages);
\* and a server of Claude that is ready always sweeps again (scheduleClaudeSweep).
THEOREM ServerHolds == ASSUME V!ServerConstants PROVE V!Spec => []V!ServerKept
<1>1. SrvInv => V!ServerKept
  <2> SUFFICES ASSUME SrvInv PROVE V!ServerKept
    OBVIOUS
  <2>1. SrvTypes /\ InOrder /\ Asked /\ Ends /\ Once /\ V!SweepsAgain
    BY DEF SrvInv
  <2>2. got \in Seq(Line) /\ out \in Seq(Line) /\ V!Written \in Seq(Line)
        /\ DOMAIN V!Written = 1 .. Len(V!Written) /\ (server = "done" => V!Written = got)
    <3>1. got \in Seq(Line) /\ out \in Seq(Line)
      BY <2>1 DEF SrvTypes
    <3>2. V!Written \in Seq(Line)
      BY <3>1, ConcatProperties DEF V!Written
    <3>3. server = "done" => V!Written = got
      BY <2>1, <3>1, ConcatEmptySeq DEF Ends, V!Written
    <3> QED
      BY <3>1, <3>2, <3>3, LenProperties
  <2>3. V!AllAnswered
    <3> SUFFICES ASSUME server = "done", NEW a \in input.asks, a \notin failed
                 PROVE  \E i \in 1 .. Len(got) : got[i].id = a
      BY DEF V!AllAnswered
    <3>1. queue = << >> /\ input.chunks = << >>
      BY <2>1 DEF Ends
    <3>2. Told(a)
      BY <2>1, <3>1 DEF Asked, Waiting
    <3> QED
      BY <2>2, <3>2 DEF Told
  <2>4. V!TakenOnce
    <3> DEFINE w == V!Written
               with(m, s) == {i \in 1 .. Len(s) : m \in s[i].with}
    <3>1. /\ \A i, j \in DOMAIN w : i # j => w[i].with \cap w[j].with = {}
          /\ inbox.gone = UNION {w[i].with : i \in DOMAIN w}
      BY <2>1 DEF Once
    <3>2. DOMAIN w = 1 .. Len(w) /\ (server = "done" => w = got)
      BY <2>2
    <3> HIDE DEF w
    <3>3. ASSUME NEW m \in inbox.gone PROVE \E i : with(m, w) = {i}
      <4>1. PICK i \in DOMAIN w : m \in w[i].with
        BY <3>1
      <4>2. with(m, w) = {i}
        BY <3>1, <3>2, <4>1
      <4> QED
        BY <4>2
    <3>4. ASSUME NEW m, m \notin inbox.gone PROVE with(m, w) = {}
      BY <3>1, <3>2, <3>4
    <3> HIDE DEF with
    <3>5. ASSUME NEW m \in Letters
          PROVE  /\ V!Cardinality(with(m, w)) = (IF m \in inbox.gone THEN 1 ELSE 0)
                 /\ m \in inbox.gone /\ server = "done" => with(m, got) # {}
      <4>1. CASE m \in inbox.gone
        <5>1. PICK i : with(m, w) = {i}
          BY <3>3, <4>1
        <5>2. Cardinality(with(m, w)) = 1
          BY <5>1, FS_Singleton
        <5>3. server = "done" => with(m, got) # {}
          BY <3>2, <5>1
        <5> QED
          BY <4>1, <5>2, <5>3, ServerCounts
      <4>2. CASE m \notin inbox.gone
        <5>1. Cardinality(with(m, w)) = 0
          BY <3>4, <4>2, FS_EmptySet
        <5> QED
          BY <4>2, <5>1, ServerCounts
      <4> QED
        BY <4>1, <4>2
    <3> QED
      BY <3>5 DEF V!TakenOnce, w, with
  <2> QED
    BY <2>1, <2>3, <2>4 DEF V!ServerKept, InOrder
<1> QED
  BY <1>1, SrvInvHolds, PTL
=============================================================================
