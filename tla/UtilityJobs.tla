---------------------------- MODULE UtilityJobs ----------------------------
(***************************************************************************)
(* The helper-job pipeline: main agents request work, a Governess routes   *)
(* it, a detached worker process claims and runs it, and a Governess       *)
(* recovers what timed out, died or belongs to a fenced epoch.             *)
(*                                                                         *)
(* The processes share <run>/utility/jobs.jsonl and <run>/utility/epoch.   *)
(* Every operation of utility-store.ts holds the store lock from its read  *)
(* to its append, so each is one atomic step here (module StoreLock asks   *)
(* when that holds).  Everything between two store operations of a process *)
(* can interleave with every other process: each process has a pc.         *)
(*                                                                         *)
(* Abstractions.  A job is named by its idempotency key.  The journal is   *)
(* kept as the snapshot snapshotFromEvents derives from it.  Elapsed time  *)
(* is the set "overdue" of jobs whose last event is older than the limit   *)
(* of their state.  A worker process is named by its job: a job is routed, *)
(* hence spawned, at most once.                                            *)
(***************************************************************************)
EXTENDS Naturals, Sequences, FiniteSets

CONSTANTS Jobs,         \* idempotency keys that may be requested
          Governesses,  \* Governess processes (panes that may be respawned)
          Tiers,        \* execution tiers
          DirectTier,   \* the tier without a slot limit
          Tier,         \* [Jobs -> Tiers]: classifyUtilityExecution
          Limit,        \* [Tiers -> Nat]: worker slots of a tier
          Wanted,       \* [Jobs -> SUBSET Targets]: where the request may go
          Scope,        \* [Jobs -> sets of paths]: the write scope
          NoJob,        \* "no job", a value outside Jobs
          Faults,       \* TRUE: governesses and workers may crash
          MaxEpoch      \* bound: epochs acquired in a behaviour

Targets == {"utility", "driver", "peer", "requester", "escalate"}

ASSUME ConstantsAssumption ==
  /\ IsFiniteSet(Jobs)
  /\ NoJob \notin Jobs
  /\ DirectTier \in Tiers
  /\ Tier \in [Jobs -> Tiers]
  /\ Limit \in [Tiers -> Nat]
  /\ Wanted \in [Jobs -> SUBSET Targets]
  /\ Faults \in BOOLEAN
  /\ MaxEpoch \in Nat

VARIABLES epochFile,  \* <run>/utility/epoch; 0 when there is none
          nextEpoch,  \* the clock epochs are drawn from
          job,        \* snapshot of each job
          before,     \* before[j]: the jobs requested before j
          overdue,    \* active jobs past the deadline of their state
          worker,     \* the worker process of each job
          gov,        \* local state of each Governess process
          sent        \* bridge messages about each job, oldest first

vars == <<epochFile, nextEpoch, job, before, overdue, worker, gov, sent>>

-----------------------------------------------------------------------------
(* The store's state machine.                                              *)

TERMINAL_STATES == {"completed", "failed", "escalated", "canceled"}
ActiveStates == {"routed-utility", "claimed", "running"}
ReturnedStates == {"routed-driver", "routed-peer", "routed-requester"}
JobStates == {"pending-route"} \cup ActiveStates \cup ReturnedStates
               \cup TERMINAL_STATES

ALLOWED_TRANSITIONS ==
  [s \in JobStates |->
     CASE s = "pending-route" -> {"routed-utility", "escalated", "canceled"}
                                   \cup ReturnedStates
       [] s = "routed-utility" -> {"claimed", "failed", "escalated", "canceled"}
       [] s \in ReturnedStates -> {"completed", "failed", "canceled"}
       [] s = "claimed" -> {"running", "failed", "escalated", "canceled"}
       [] s = "running" -> TERMINAL_STATES
       [] s \in TERMINAL_STATES -> {}]

Requested == {j \in Jobs : job[j].state # "absent"}

\* Mutant: the store appends without looking at the transition.
CanMove_Unchecked(j, s) == j \in Requested

\* validateNewEvent: may the store append an event that moves j to s?
CanMove(j, s) == j \in Requested /\ s \in ALLOWED_TRANSITIONS[job[j].state]

\* Appending an event restarts the job's deadline (updatedAt).
Move(j, s) ==
  /\ job' = [job EXCEPT ![j].state = s]
  /\ overdue' = overdue \ {j}

\* hasActiveWriteConflict: a claimed or running job overlaps j's scope.
HasActiveWriteConflict(j) ==
  \E i \in Jobs \ {j} : /\ job[i].state \in {"claimed", "running"}
                        /\ Scope[i] \cap Scope[j] # {}

\* Mutant: routing only looks at jobs that are already claimed.
RoutedWriteConflict_Claimed(j) ==
  \E i \in Jobs : job[i].state = "claimed" /\ Scope[i] \cap Scope[j] # {}

\* hasWriteConflict over currentUtilityWriteClaims: an active job overlaps.
RoutedWriteConflict(j) ==
  \E i \in Jobs : job[i].state \in ActiveStates /\ Scope[i] \cap Scope[j] # {}

\* The bridge message type that reports a job that has reached state s.
MessageFor(s) ==
  CASE s = "completed" -> "handover"
    [] s = "routed-peer" -> "review_request"
    [] s \in {"routed-driver", "routed-requester"} -> "work_request"
    [] OTHER -> "escalation"

StateForDecision(target) ==
  CASE target = "utility" -> "routed-utility"
    [] target = "peer" -> "routed-peer"
    [] target = "requester" -> "routed-requester"
    [] target = "escalate" -> "escalated"
    [] OTHER -> "routed-driver"

\* dispatchBridgeMessage about job j.
Dispatch(j, type) == sent' = [sent EXCEPT ![j] = Append(@, type)]

Alive(j) == worker[j].pc \notin {"none", "dead"}

-----------------------------------------------------------------------------
(* Local state of a Governess.  todo is what recovery still has to look    *)
(* at; stale, late and known are what its snapshot said about those jobs:  *)
(* fenced epoch, past the deadline, worker pid recorded in a claim.  pend  *)
(* is what routing still has to look at and count the occupied slots.      *)

Down(epoch) == [pc |-> "down", epoch |-> epoch, job |-> NoJob,
                todo |-> {}, stale |-> {}, late |-> {}, known |-> {},
                pend |-> {}, count |-> [t \in Tiers |-> 0],
                target |-> "driver", message |-> "escalation"]

\* A worker process; message is what it sends once its job has ended.
Process(pc, epoch) == [pc |-> pc, epoch |-> epoch, message |-> "escalation"]

At(epoch, pc) == [Down(epoch) EXCEPT !.pc = pc]

\* Mutant: the queue is served in any order.
First_Any(S) == S

\* The members of S in the order of the journal: its earliest request.
First(S) == {j \in S : before[j] \cap S = {}}

\* Go on with the next job once the current one is dealt with.
Resume(g, j) ==
  LET inRoute == j \in gov[g].pend
  IN  [gov[g] EXCEPT !.pc = IF inRoute THEN "route" ELSE "recover",
                     !.job = NoJob,
                     !.target = "driver",
                     !.message = "escalation",
                     !.pend = @ \ {j},
                     !.todo = @ \ {j},
                     !.stale = @ \ {j},
                     !.late = @ \ {j},
                     !.known = @ \ {j}]

Init ==
  /\ epochFile = 0
  /\ nextEpoch = 1
  /\ job = [j \in Jobs |-> [state |-> "absent", target |-> "none",
                            routeEpoch |-> 0, claim |-> 0]]
  /\ before = [j \in Jobs |-> {}]
  /\ overdue = {}
  /\ worker = [j \in Jobs |-> Process("none", 0)]
  /\ gov = [g \in Governesses |-> Down(0)]
  /\ sent = [j \in Jobs |-> <<>>]

-----------------------------------------------------------------------------
(* Requests and time.                                                      *)

\* appendUtilityRouteRequest; a key already in the journal changes nothing.
RequestRoute(j) ==
  /\ j \notin Requested
  /\ job' = [job EXCEPT ![j].state = "pending-route"]
  /\ before' = [before EXCEPT ![j] = Requested]
  /\ UNCHANGED <<epochFile, nextEpoch, overdue, worker, gov, sent>>

\* maxClaimWaitMs or maxJobRuntimeMs passes without an event for j.
JobOverdue(j) ==
  /\ job[j].state \in ActiveStates
  /\ j \notin overdue
  /\ overdue' = overdue \cup {j}
  /\ UNCHANGED <<epochFile, nextEpoch, job, before, worker, gov, sent>>

-----------------------------------------------------------------------------
(* A Governess starts, and one pass of processPendingUtilityRoutes.        *)

\* runGoverness draws an epoch larger than every earlier one.
GovStart(g) ==
  /\ gov[g].pc = "down"
  /\ nextEpoch <= MaxEpoch
  /\ gov' = [gov EXCEPT ![g] = At(nextEpoch, "starting")]
  /\ nextEpoch' = nextEpoch + 1
  /\ UNCHANGED <<epochFile, job, before, overdue, worker, sent>>

\* activateUtilityEpoch at startup: a newer epoch makes the process return.
GovActivate(g) ==
  /\ gov[g].pc = "starting"
  /\ IF epochFile > gov[g].epoch
       THEN gov' = [gov EXCEPT ![g] = Down(0)] /\ UNCHANGED epochFile
       ELSE /\ gov' = [gov EXCEPT ![g].pc = "idle"]
            /\ epochFile' = gov[g].epoch
  /\ UNCHANGED <<nextEpoch, job, before, overdue, worker, sent>>

\* A pass activates the epoch again; a fenced Governess throws, the tick
\* logs it and nothing changes.
BeginPass(g) ==
  /\ gov[g].pc = "idle"
  /\ epochFile <= gov[g].epoch
  /\ epochFile' = gov[g].epoch
  /\ gov' = [gov EXCEPT ![g].pc = "scan"]
  /\ UNCHANGED <<nextEpoch, job, before, overdue, worker, sent>>

\* recoverStaleUtilityJobs reads the journal once and judges from that read.
Scan(g) ==
  LET active == {j \in Jobs : job[j].state \in ActiveStates}
      fenced(j) == \/ job[j].routeEpoch # gov[g].epoch
                   \/ job[j].claim \notin {0, gov[g].epoch}
  IN  /\ gov[g].pc = "scan"
      /\ gov' = [gov EXCEPT ![g] =
                   [@ EXCEPT !.pc = "recover",
                             !.todo = active,
                             !.stale = {j \in active : fenced(j)},
                             !.late = active \cap overdue,
                             !.known = {j \in active : job[j].claim # 0}]]
      /\ UNCHANGED <<epochFile, nextEpoch, job, before, overdue, worker, sent>>

\* Mutant: nothing times out.
NeedsRecovery_NoTimeout(g, j) ==
  \/ j \in gov[g].stale
  \/ j \in gov[g].known /\ ~Alive(j)

\* staleEpoch, claimTimedOut, runTimedOut or deadWorker.
NeedsRecovery(g, j) ==
  \/ j \in gov[g].stale \cup gov[g].late
  \/ j \in gov[g].known /\ ~Alive(j)

\* Only a worker pid the snapshot recorded can be terminated.
NeedsKill(g, j) ==
  j \in gov[g].known /\ j \in gov[g].stale \cup gov[g].late /\ Alive(j)

\* The job is healthy, or already terminal when it is read again.
KeepJob(g, j) ==
  /\ gov[g].pc = "recover"
  /\ j \in First(gov[g].todo)
  /\ ~NeedsRecovery(g, j) \/ job[j].state \in TERMINAL_STATES
  /\ gov' = [gov EXCEPT ![g] = Resume(g, j)]
  /\ UNCHANGED <<epochFile, nextEpoch, job, before, overdue, worker, sent>>

FenceJob(g, j) ==
  /\ gov[g].pc = "recover"
  /\ j \in First(gov[g].todo)
  /\ NeedsRecovery(g, j)
  /\ job[j].state \notin TERMINAL_STATES
  /\ gov' = [gov EXCEPT ![g] =
               [@ EXCEPT !.job = j,
                         !.pc = IF NeedsKill(g, j) THEN "kill" ELSE "fail"]]
  /\ UNCHANGED <<epochFile, nextEpoch, job, before, overdue, worker, sent>>

\* terminateUtilityWorker: SIGKILL.
KillWorker(g) ==
  /\ gov[g].pc = "kill"
  /\ worker' = [worker EXCEPT ![gov[g].job].pc = "dead"]
  /\ gov' = [gov EXCEPT ![g].pc = "fail"]
  /\ UNCHANGED <<epochFile, nextEpoch, job, before, overdue, sent>>

\* Mutant: the job is not read again before it is failed and reported.
FailJob_NoReread(g) ==
  LET j == gov[g].job
  IN  /\ gov[g].pc = "fail"
      /\ IF CanMove(j, "failed") THEN Move(j, "failed")
                                 ELSE UNCHANGED <<job, overdue>>
      /\ gov' = [gov EXCEPT ![g] =
                   [@ EXCEPT !.pc = "report", !.message = "escalation"]]
      /\ UNCHANGED <<epochFile, nextEpoch, before, worker, sent>>

\* failUtilityJob: the transition, unless the job is terminal by now.
FailJob(g) ==
  LET j == gov[g].job
  IN  /\ gov[g].pc = "fail"
      /\ IF CanMove(j, "failed")
           THEN /\ Move(j, "failed")
                /\ gov' = [gov EXCEPT ![g] =
                             [@ EXCEPT !.pc = "report", !.message = "escalation"]]
           ELSE /\ gov' = [gov EXCEPT ![g] = Resume(g, j)]
                /\ UNCHANGED <<job, overdue>>
      /\ UNCHANGED <<epochFile, nextEpoch, before, worker, sent>>

\* The bridge message of failUtilityJob and of dispatchNonUtilityRoute.
GovReport(g) ==
  /\ gov[g].pc = "report"
  /\ Dispatch(gov[g].job, gov[g].message)
  /\ gov' = [gov EXCEPT ![g] = Resume(g, gov[g].job)]
  /\ UNCHANGED <<epochFile, nextEpoch, job, before, overdue, worker>>

\* Recovery done: read the pending requests, then count the occupied slots.
ReadPending(g) ==
  /\ gov[g].pc = "recover"
  /\ gov[g].todo = {}
  /\ gov' = [gov EXCEPT ![g] =
               [@ EXCEPT !.pc = "count",
                         !.pend = {j \in Jobs : job[j].state = "pending-route"}]]
  /\ UNCHANGED <<epochFile, nextEpoch, job, before, overdue, worker, sent>>

CountSlots(g) ==
  LET occupied(t) == {j \in Jobs : /\ job[j].state \in ActiveStates
                                   /\ job[j].target = "utility"
                                   /\ Tier[j] = t}
  IN  /\ gov[g].pc = "count"
      /\ gov' = [gov EXCEPT ![g] =
                   [@ EXCEPT !.pc = "route",
                             !.count = [t \in Tiers |-> Cardinality(occupied(t))]]]
      /\ UNCHANGED <<epochFile, nextEpoch, job, before, overdue, worker, sent>>

\* routeUtilityRequest.  The driver takes what has no verified workspace, no
\* healthy tier or a write conflict.
Decisions(j) ==
  {"driver"} \cup
  (IF RoutedWriteConflict(j) THEN Wanted[j] \ {"utility"} ELSE Wanted[j])

Decide(g, j) ==
  /\ gov[g].pc = "route"
  /\ j \in First(gov[g].pend)
  /\ \E t \in Decisions(j) :
       gov' = [gov EXCEPT ![g] =
                 [@ EXCEPT !.pc = "commit", !.job = j, !.target = t]]
  /\ UNCHANGED <<epochFile, nextEpoch, job, before, overdue, worker, sent>>

\* Mutant: off by one.
SlotAvailable_OneMore(g, j) ==
  Tier[j] = DirectTier \/ gov[g].count[Tier[j]] <= Limit[Tier[j]]

SlotAvailable(g, j) ==
  Tier[j] = DirectTier \/ gov[g].count[Tier[j]] < Limit[Tier[j]]

\* recordPendingUtilityRouteDecision: eligible, but the tier is full.
QueueDecision(g) ==
  LET j == gov[g].job
  IN  /\ gov[g].pc = "commit"
      /\ gov[g].target = "utility"
      /\ ~SlotAvailable(g, j)
      /\ job' = IF job[j].state = "pending-route"
                  THEN [job EXCEPT ![j].target = "utility"]
                  ELSE job
      /\ gov' = [gov EXCEPT ![g] = Resume(g, j)]
      /\ UNCHANGED <<epochFile, nextEpoch, before, overdue, worker, sent>>

\* The route transition; when the store refuses it the pass is abandoned.
CommitRoute(g) ==
  LET j == gov[g].job
      t == gov[g].target
      s == StateForDecision(t)
  IN  /\ gov[g].pc = "commit"
      /\ t = "utility" => SlotAvailable(g, j)
      /\ IF CanMove(j, s)
           THEN /\ job' = [job EXCEPT ![j] =
                             [@ EXCEPT !.state = s,
                                       !.target = t,
                                       !.routeEpoch = IF t = "utility"
                                                        THEN gov[g].epoch
                                                        ELSE job[j].routeEpoch]]
                /\ overdue' = overdue \ {j}
                /\ gov' = [gov EXCEPT ![g] =
                             [@ EXCEPT !.pc = IF t = "utility" THEN "spawn"
                                                               ELSE "report",
                                       !.message = MessageFor(s)]]
           ELSE /\ gov' = [gov EXCEPT ![g] = At(@.epoch, "idle")]
                /\ UNCHANGED <<job, overdue>>
      /\ UNCHANGED <<epochFile, nextEpoch, before, worker, sent>>

\* Mutant: the slot is given back instead of taken.
TakeSlot_Released(g, j) ==
  [gov[g].count EXCEPT ![Tier[j]] = IF Tier[j] = DirectTier THEN @ ELSE @ - 1]

\* The slot is counted even when no process starts (occupied = true).
TakeSlot(g, j) ==
  [gov[g].count EXCEPT ![Tier[j]] = IF Tier[j] = DirectTier THEN @ ELSE @ + 1]

\* startRoutedUtilityJob: the workspace is verified and a process spawned.
SpawnWorker(g) ==
  LET j == gov[g].job
  IN  /\ gov[g].pc = "spawn"
      /\ worker' = [worker EXCEPT ![j] = Process("spawned", gov[g].epoch)]
      /\ gov' = [gov EXCEPT ![g] = [Resume(g, j) EXCEPT
                                      !.count = TakeSlot(g, j)]]
      /\ UNCHANGED <<epochFile, nextEpoch, job, before, overdue, sent>>

\* The workspace no longer matches, or the process fails to start.
SpawnFails(g) ==
  /\ gov[g].pc = "spawn"
  /\ gov' = [gov EXCEPT ![g] =
               [@ EXCEPT !.pc = "fail", !.count = TakeSlot(g, gov[g].job)]]
  /\ UNCHANGED <<epochFile, nextEpoch, job, before, overdue, worker, sent>>

EndPass(g) ==
  /\ gov[g].pc = "route"
  /\ gov[g].pend = {}
  /\ gov' = [gov EXCEPT ![g] = At(@.epoch, "idle")]
  /\ UNCHANGED <<epochFile, nextEpoch, job, before, overdue, worker, sent>>

\* fenceCurrent at the top of a tick: a newer Governess has saved its epoch.
GovRetire(g) ==
  /\ gov[g].pc = "idle"
  /\ nextEpoch > gov[g].epoch + 1
  /\ gov' = [gov EXCEPT ![g] = Down(0)]
  /\ UNCHANGED <<epochFile, nextEpoch, job, before, overdue, worker, sent>>

\* The process dies anywhere; bounded so that a replacement can start.
GovCrash(g) ==
  /\ Faults
  /\ nextEpoch <= MaxEpoch
  /\ gov[g].pc # "down"
  /\ gov' = [gov EXCEPT ![g] = Down(0)]
  /\ UNCHANGED <<epochFile, nextEpoch, job, before, overdue, worker, sent>>

-----------------------------------------------------------------------------
(* runUtilityWorker, the detached process of job j.                        *)

\* Mutant: the claim event is appended without a look at the job's route.
Claimable_AnyState(j) ==
  epochFile = worker[j].epoch /\ ~HasActiveWriteConflict(j)

\* claimUtilityJob: the fence, the route, and no overlapping active writer.
Claimable(j) ==
  /\ epochFile = worker[j].epoch
  /\ job[j].state = "routed-utility"
  /\ job[j].routeEpoch = worker[j].epoch
  /\ ~HasActiveWriteConflict(j)

WorkerClaim(j) ==
  /\ worker[j].pc = "spawned"
  /\ IF Claimable(j)
       THEN /\ job' = [job EXCEPT ![j] = [@ EXCEPT !.state = "claimed",
                                                   !.claim = worker[j].epoch]]
            /\ overdue' = overdue \ {j}
            /\ worker' = [worker EXCEPT ![j].pc = "claimed"]
       ELSE /\ worker' = [worker EXCEPT ![j].pc = "dead"]
            /\ UNCHANGED <<job, overdue>>
  /\ UNCHANGED <<epochFile, nextEpoch, before, gov, sent>>

\* The running transition; a store that refuses it ends the process.
WorkerRun(j) ==
  /\ worker[j].pc = "claimed"
  /\ IF CanMove(j, "running")
       THEN Move(j, "running") /\ worker' = [worker EXCEPT ![j].pc = "running"]
       ELSE /\ worker' = [worker EXCEPT ![j].pc = "dead"]
            /\ UNCHANGED <<job, overdue>>
  /\ UNCHANGED <<epochFile, nextEpoch, before, gov, sent>>

\* The conversation ends: completed, context insufficient, or an error.  A
\* job that is terminal by then makes the worker return without a message.
WorkerFinish(j) ==
  /\ worker[j].pc = "running"
  /\ \E outcome \in {"completed", "escalated", "failed"} :
       IF CanMove(j, outcome)
         THEN /\ Move(j, outcome)
              /\ worker' = [worker EXCEPT ![j] =
                              [@ EXCEPT !.pc = "notify",
                                        !.message = MessageFor(outcome)]]
         ELSE /\ worker' = [worker EXCEPT ![j].pc = "dead"]
              /\ UNCHANGED <<job, overdue>>
  /\ UNCHANGED <<epochFile, nextEpoch, before, gov, sent>>

WorkerNotify(j) ==
  /\ worker[j].pc = "notify"
  /\ Dispatch(j, worker[j].message)
  /\ worker' = [worker EXCEPT ![j].pc = "dead"]
  /\ UNCHANGED <<epochFile, nextEpoch, job, before, overdue, gov>>

WorkerCrash(j) ==
  /\ Faults
  /\ Alive(j)
  /\ worker' = [worker EXCEPT ![j].pc = "dead"]
  /\ UNCHANGED <<epochFile, nextEpoch, job, before, overdue, gov, sent>>

-----------------------------------------------------------------------------
Recover(g) == \/ \E j \in Jobs : KeepJob(g, j) \/ FenceJob(g, j)
              \/ KillWorker(g) \/ FailJob(g) \/ GovReport(g)

Route(g) == \/ ReadPending(g) \/ CountSlots(g)
            \/ \E j \in Jobs : Decide(g, j)
            \/ QueueDecision(g) \/ CommitRoute(g)
            \/ SpawnWorker(g) \/ SpawnFails(g) \/ EndPass(g)

GovStep(g) == \/ GovStart(g) \/ GovActivate(g) \/ GovRetire(g)
              \/ BeginPass(g) \/ Scan(g) \/ Recover(g) \/ Route(g)

WorkerStep(j) == WorkerClaim(j) \/ WorkerRun(j) \/ WorkerFinish(j)
                   \/ WorkerNotify(j)

Next == \/ \E g \in Governesses : GovStep(g) \/ GovCrash(g)
        \/ \E j \in Jobs : \/ RequestRoute(j) \/ JobOverdue(j)
                           \/ WorkerStep(j) \/ WorkerCrash(j)

Spec == Init /\ [][Next]_vars

\* The Governess loop ticks for ever, a spawned process is scheduled, and
\* deadlines pass.
FairSpec == /\ Spec
            /\ \A g \in Governesses : WF_vars(GovStep(g))
            /\ \A j \in Jobs : WF_vars(WorkerStep(j)) /\ WF_vars(JobOverdue(j))

-----------------------------------------------------------------------------
(* Properties.                                                             *)

MessageTypes == {"handover", "escalation", "work_request", "review_request"}
Epochs == 0..MaxEpoch
GovPcs == {"down", "starting", "idle", "scan", "recover", "kill", "fail",
           "report", "count", "route", "commit", "spawn"}

JobRecord == [state : {"absent"} \cup JobStates,
              target : {"none"} \cup Targets,
              routeEpoch : Epochs, claim : Epochs]
WorkerRecord == [pc : {"none", "spawned", "claimed", "running", "notify", "dead"},
                 epoch : Epochs, message : MessageTypes]
GovRecord == [pc : GovPcs, epoch : Epochs, job : Jobs \cup {NoJob},
              todo : SUBSET Jobs, stale : SUBSET Jobs, late : SUBSET Jobs,
              known : SUBSET Jobs, pend : SUBSET Jobs, count : [Tiers -> Nat],
              target : Targets, message : MessageTypes]

\* Every variable keeps its type (the shape of the store's records and of
\* the local state of the processes).
TypeOK ==
  /\ epochFile \in Epochs
  /\ nextEpoch \in 1..(MaxEpoch + 1)
  /\ job \in [Jobs -> JobRecord]
  /\ before \in [Jobs -> SUBSET Jobs]
  /\ overdue \in SUBSET Jobs
  /\ worker \in [Jobs -> WorkerRecord]
  /\ gov \in [Governesses -> GovRecord]
  /\ sent \in [Jobs -> Seq(MessageTypes)]

\* Overlapping write scopes never run together, and one epoch never routes
\* two of them at once, although the routing check reads the journal before
\* the transition is appended (hasWriteConflict, hasActiveWriteConflict).
WritersDisjoint ==
  \A i, j \in Jobs :
    (/\ i # j
     /\ job[i].state \in ActiveStates /\ job[j].state \in ActiveStates
     /\ \/ job[i].routeEpoch = job[j].routeEpoch
        \/ {job[i].state, job[j].state} \subseteq {"claimed", "running"})
    => Scope[i] \cap Scope[j] = {}

\* A process that claimed its job either still owns it in the journal, under
\* the epoch it was spawned for, or the job has ended behind its back: no
\* other process, pass or epoch can have taken the job over.
RunnerOwnsJob ==
  \A j \in Jobs :
    worker[j].pc \in {"claimed", "running"} =>
      \/ /\ job[j].state = worker[j].pc
         /\ job[j].claim = worker[j].epoch
         /\ job[j].routeEpoch = worker[j].epoch
      \/ job[j].state \in TERMINAL_STATES

\* Claimed and running jobs of a tier never exceed its slots, across passes
\* that count once and across a change of Governess.
ClaimedWithinLimit ==
  \A t \in Tiers \ {DirectTier} :
    Cardinality({j \in Jobs : /\ job[j].state \in {"claimed", "running"}
                              /\ Tier[j] = t}) <= Limit[t]

\* A job is reported at most once, by whoever settled it, and the message
\* agrees with the state the journal keeps: nobody is told "handover" for a
\* job that failed (failUtilityJob racing the worker's own transition).
ReportedOnceAndTruly ==
  \A j \in Jobs : sent[j] \in {<<>>, <<MessageFor(job[j].state)>>}

\* Waiting requests of a limited tier start in the order of the journal: no
\* job takes a slot while an earlier request of its tier is still pending.
TierQueueInOrder ==
  [][\A i, j \in Jobs :
       (/\ i \in before[j]
        /\ Tier[i] = Tier[j] /\ Tier[j] # DirectTier
        /\ job[i].state = "pending-route"
        /\ job[j].state = "pending-route")
       => job'[j].state # "routed-utility"]_vars

\* Every request is settled: it reaches a terminal state or is handed back
\* to an agent, whatever worker or Governess dies on the way.
EveryRequestSettles ==
  \A j \in Jobs : j \in Requested ~>
                    job[j].state \in TERMINAL_STATES \cup ReturnedStates

\* The pipeline implements JobLifecycle: whatever the processes do, a job is
\* offered, taken, ended and reported as the requester was promised.
Lifecycle == INSTANCE JobLifecycle
               WITH state <- [j \in Jobs |-> job[j].state], reports <- sent

LifecycleSpec == Lifecycle!Spec

\* utility-worker-pool/spec.md: at most the tier's slots run concurrently.
RunningWorkersWithinLimit ==
  \A t \in Tiers \ {DirectTier} :
    Cardinality({j \in Jobs : worker[j].pc = "running" /\ Tier[j] = t})
      <= Limit[t]

\* system-overview.md, data flow 4: the helper's result reaches the requester.
CompletionReported ==
  \A j \in Jobs : job[j].state = "completed" ~> sent[j] # <<>>
=============================================================================
