------------------------- MODULE UtilityJobsProofs -------------------------
(***************************************************************************)
(* What is proved of the helper-job pipeline, for any finite set of jobs,  *)
(* any governesses, tiers, slot limits, write scopes and any bound on the  *)
(* epochs.                                                                 *)
(*                                                                         *)
(*  1. The types of UtilityJobs and its reports.                           *)
(*                                                                         *)
(*  2. What it promises a requester: a worker that claimed its job owns it *)
(*     until the job has ended (RunnerOwns), and every step of the         *)
(*     pipeline is a step of JobLifecycle or changes nothing the requester *)
(*     sees (ImplementsLifecycle).  Both rest on who may still be working  *)
(*     on which job (Ready), and on one more fact: no process of the       *)
(*     pipeline cancels a job.                                             *)
(*                                                                         *)
(*  3. Routing decides from what it read earlier, and the decisions still  *)
(*     hold when they are carried out: one worker process per job          *)
(*     (SpawnedOnce), no two writers of a common path (WritersKeptApart),  *)
(*     no tier beyond its slots (SlotsKept), and no job past an earlier    *)
(*     request of its tier (QueueInOrder).  Each of the four needs to know *)
(*     what a pass may still rely on, said by one invariant each: the      *)
(*     epochs are those of one Governess at a time (EpochsOrdered), a pass *)
(*     looks at the requests it read (Batch), a decision to use a helper   *)
(*     is compatible with what its own epoch has routed (DecisionStands),  *)
(*     the slots a pass counted bound those in use (SlotsCounted), and a   *)
(*     request that was passed over found its tier full (PassedOver).      *)
(***************************************************************************)
EXTENDS UtilityJobs, FiniteSetTheorems, TLAPS

-----------------------------------------------------------------------------
(* 1. Types and reports                                                    *)

\* A Governess that is handling a job handles one of the jobs.
CurrentJob ==
  \A g \in Governesses :
    gov[g].pc \in {"kill", "fail", "report", "commit", "spawn"}
      => gov[g].job \in Jobs

TypeInv == TypeOK /\ CurrentJob

-----------------------------------------------------------------------------
(* Types of the helpers.                                                   *)

\* Epoch 0 ("none") is an epoch, and every other one is bounded.
LEMMA EpochType == 0 \in Epochs /\ Epochs \subseteq Nat
BY ConstantsAssumption DEF Epochs

\* The local state a Governess restarts from is well typed.
LEMMA DownType ==
  ASSUME NEW e \in Epochs, NEW p \in GovPcs
  PROVE  Down(e) \in GovRecord /\ At(e, p) \in GovRecord
BY ConstantsAssumption DEF Down, At, GovRecord, GovPcs, Targets, MessageTypes

Handling == {"kill", "fail", "report", "commit", "spawn"}

\* Replacing the local state of one Governess by a well typed one.
LEMMA GovUpdate ==
  ASSUME TypeInv, NEW g \in Governesses, NEW r \in GovRecord,
         gov' = [gov EXCEPT ![g] = r],
         r.pc \in Handling => r.job \in Jobs
  PROVE  gov' \in [Governesses -> GovRecord] /\ CurrentJob'
BY DEF TypeInv, TypeOK, CurrentJob, Handling

\* Advancing the program counter of one Governess.
LEMMA PcUpdate ==
  ASSUME TypeInv, NEW g \in Governesses, NEW p \in GovPcs,
         gov' = [gov EXCEPT ![g].pc = p],
         p \in Handling => gov[g].job \in Jobs
  PROVE  gov' \in [Governesses -> GovRecord] /\ CurrentJob'
<1> DEFINE r == [gov[g] EXCEPT !.pc = p]
<1>1. gov[g] \in GovRecord
  BY DEF TypeInv, TypeOK
<1>2. r \in GovRecord /\ r.pc = p /\ r.job = gov[g].job
  BY <1>1 DEF GovRecord
<1>3. gov' = [gov EXCEPT ![g] = r]
  OBVIOUS
<1> HIDE DEF r
<1> QED
  BY <1>2, <1>3, GovUpdate

\* Moving on to the next job keeps the local state well typed and leaves no
\* job in hand.
LEMMA ResumeType ==
  ASSUME TypeOK, NEW g \in Governesses, NEW j \in Jobs
  PROVE  /\ Resume(g, j) \in GovRecord
         /\ Resume(g, j).pc \in {"route", "recover"}
<1> DEFINE r == gov[g]
<1>1. r \in GovRecord
  BY DEF TypeOK
<1> HIDE DEF r
<1>2. [r EXCEPT !.pc = IF j \in r.pend THEN "route" ELSE "recover",
                !.job = NoJob,
                !.target = "driver",
                !.message = "escalation",
                !.pend = @ \ {j},
                !.todo = @ \ {j},
                !.stale = @ \ {j},
                !.late = @ \ {j},
                !.known = @ \ {j}] \in GovRecord
  BY <1>1 DEF GovRecord, GovPcs, Targets, MessageTypes
<1> QED
  BY <1>1, <1>2 DEF Resume, r, GovRecord

\* A Governess that moves on changes nothing but its own local state.
LEMMA ResumeStep ==
  ASSUME TypeInv, NEW g \in Governesses, NEW j \in Jobs,
         gov' = [gov EXCEPT ![g] = Resume(g, j)]
  PROVE  gov' \in [Governesses -> GovRecord] /\ CurrentJob'
<1>1. Resume(g, j) \in GovRecord /\ Resume(g, j).pc \in {"route", "recover"}
  BY ResumeType DEF TypeInv
<1> QED
  BY <1>1 DEF TypeInv, TypeOK, CurrentJob

\* Going back to "down", "starting" or "idle" is always well typed.
LEMMA ResetStep ==
  ASSUME TypeInv, NEW g \in Governesses, NEW e \in Epochs,
         \/ gov' = [gov EXCEPT ![g] = Down(e)]
         \/ \E p \in {"starting", "idle"} :
              gov' = [gov EXCEPT ![g] = At(e, p)]
  PROVE  gov' \in [Governesses -> GovRecord] /\ CurrentJob'
<1>1. Down(e) \in GovRecord /\ Down(e).pc = "down"
  BY DownType DEF GovPcs, Down
<1>2. \A p \in {"starting", "idle"} : At(e, p) \in GovRecord /\ At(e, p).pc = p
  BY DownType DEF GovPcs, At, Down
<1> QED
  BY <1>1, <1>2 DEF TypeInv, TypeOK, CurrentJob

\* Occupied slots are counted by natural numbers.
LEMMA CountType ==
  ASSUME NEW S, S \subseteq Jobs
  PROVE  Cardinality(S) \in Nat
BY ConstantsAssumption, FS_Subset, FS_CardinalityType

\* Moving a job to a state of the store keeps the journal well typed.
LEMMA MoveType ==
  ASSUME TypeOK, NEW j \in Jobs, NEW s \in JobStates, Move(j, s)
  PROVE  job' \in [Jobs -> JobRecord] /\ overdue' \in SUBSET Jobs
<1>1. job[j] \in JobRecord
  BY DEF TypeOK
<1>2. [job[j] EXCEPT !.state = s] \in JobRecord
  BY <1>1 DEF JobRecord
<1> QED
  BY <1>2 DEF Move, TypeOK

\* A worker that only moves on keeps its type.
LEMMA WorkerPc ==
  ASSUME TypeOK, NEW j \in Jobs,
         NEW p \in {"spawned", "claimed", "running", "notify", "dead"},
         worker' = [worker EXCEPT ![j].pc = p]
  PROVE  worker' \in [Jobs -> WorkerRecord]
<1>1. [worker[j] EXCEPT !.pc = p] \in WorkerRecord
  BY DEF TypeOK, WorkerRecord
<1> QED
  BY <1>1 DEF TypeOK

\* Every message type is one of the bridge's.
LEMMA MessageType == \A s : MessageFor(s) \in MessageTypes
BY DEF MessageFor, MessageTypes

\* Sending appends to what was sent about one job.
LEMMA DispatchType ==
  ASSUME TypeOK, NEW j \in Jobs, NEW m \in MessageTypes, Dispatch(j, m)
  PROVE  sent' \in [Jobs -> Seq(MessageTypes)]
BY DEF Dispatch, TypeOK

-----------------------------------------------------------------------------
(* Type correctness: the initial state and every step.                     *)

LEMMA InitType == Init => TypeInv
<1> SUFFICES ASSUME Init PROVE TypeInv
  OBVIOUS
<1>1. Down(0) \in GovRecord
  BY DownType, EpochType DEF GovPcs
<1>2. TypeOK
  BY <1>1, EpochType, ConstantsAssumption
     DEF Init, TypeOK, JobRecord, JobStates, WorkerRecord, Process,
         MessageTypes, Epochs
<1>3. CurrentJob
  BY DEF Init, CurrentJob, Down
<1> QED
  BY <1>2, <1>3 DEF TypeInv

LEMMA RequestRouteType ==
  ASSUME TypeInv, NEW j \in Jobs, RequestRoute(j) PROVE TypeInv'
<1>1. job' \in [Jobs -> JobRecord]
  <2>1. [job[j] EXCEPT !.state = "pending-route"] \in JobRecord
    BY DEF TypeInv, TypeOK, JobRecord, JobStates
  <2> QED
    BY <2>1 DEF RequestRoute, TypeInv, TypeOK
<1> QED
  BY <1>1 DEF RequestRoute, TypeInv, TypeOK, CurrentJob, Requested

LEMMA JobOverdueType ==
  ASSUME TypeInv, NEW j \in Jobs, JobOverdue(j) PROVE TypeInv'
BY DEF JobOverdue, TypeInv, TypeOK, CurrentJob

LEMMA GovStartType ==
  ASSUME TypeInv, NEW g \in Governesses, GovStart(g) PROVE TypeInv'
<1>1. nextEpoch \in Epochs /\ nextEpoch' \in 1..(MaxEpoch + 1)
  BY ConstantsAssumption DEF GovStart, TypeInv, TypeOK, Epochs
<1>2. gov' \in [Governesses -> GovRecord] /\ CurrentJob'
  BY <1>1, ResetStep DEF GovStart
<1> QED
  BY <1>1, <1>2 DEF GovStart, TypeInv, TypeOK

LEMMA GovActivateType ==
  ASSUME TypeInv, NEW g \in Governesses, GovActivate(g) PROVE TypeInv'
<1>1. gov[g].epoch \in Epochs
  BY DEF TypeInv, TypeOK, GovRecord
<1>2. gov' \in [Governesses -> GovRecord] /\ CurrentJob'
  <2>1. CASE epochFile > gov[g].epoch
    BY <2>1, ResetStep, EpochType DEF GovActivate
  <2>2. CASE ~(epochFile > gov[g].epoch)
    BY <2>2, PcUpdate DEF GovActivate, GovPcs, Handling
  <2> QED
    BY <2>1, <2>2
<1> QED
  BY <1>1, <1>2 DEF GovActivate, TypeInv, TypeOK

LEMMA BeginPassType ==
  ASSUME TypeInv, NEW g \in Governesses, BeginPass(g) PROVE TypeInv'
<1>1. gov[g].epoch \in Epochs
  BY DEF TypeInv, TypeOK, GovRecord
<1>2. gov' \in [Governesses -> GovRecord] /\ CurrentJob'
  BY PcUpdate DEF BeginPass, GovPcs, Handling
<1> QED
  BY <1>1, <1>2 DEF BeginPass, TypeInv, TypeOK

LEMMA ScanType ==
  ASSUME TypeInv, NEW g \in Governesses, Scan(g) PROVE TypeInv'
<1>1. gov[g] \in GovRecord
  BY DEF TypeInv, TypeOK
<1> DEFINE active == {j \in Jobs : job[j].state \in ActiveStates}
           stale == {j \in active : \/ job[j].routeEpoch # gov[g].epoch
                                    \/ job[j].claim \notin {0, gov[g].epoch}}
           late == active \cap overdue
           known == {j \in active : job[j].claim # 0}
           r == [gov[g] EXCEPT !.pc = "recover", !.todo = active,
                               !.stale = stale, !.late = late, !.known = known]
<1>2. gov' = [gov EXCEPT ![g] = r]
  BY DEF Scan
<1>3. /\ active \subseteq Jobs /\ stale \subseteq Jobs
      /\ late \subseteq Jobs /\ known \subseteq Jobs
  OBVIOUS
<1> HIDE DEF active, stale, late, known
<1>4. r \in GovRecord /\ r.pc = "recover"
  BY <1>1, <1>3 DEF GovRecord, GovPcs
<1> HIDE DEF r
<1>5. gov' \in [Governesses -> GovRecord] /\ CurrentJob'
  BY <1>2, <1>4, GovUpdate DEF Handling
<1> QED
  BY <1>5 DEF Scan, TypeInv, TypeOK

LEMMA KeepJobType ==
  ASSUME TypeInv, NEW g \in Governesses, NEW j \in Jobs, KeepJob(g, j)
  PROVE  TypeInv'
<1>1. gov' \in [Governesses -> GovRecord] /\ CurrentJob'
  BY ResumeStep DEF KeepJob
<1> QED
  BY <1>1 DEF KeepJob, TypeInv, TypeOK

LEMMA FenceJobType ==
  ASSUME TypeInv, NEW g \in Governesses, NEW j \in Jobs, FenceJob(g, j)
  PROVE  TypeInv'
<1> DEFINE p == IF NeedsKill(g, j) THEN "kill" ELSE "fail"
           r == [gov[g] EXCEPT !.job = j, !.pc = p]
<1>1. gov' \in [Governesses -> GovRecord] /\ CurrentJob'
  <2>1. gov[g] \in GovRecord /\ p \in GovPcs
    BY DEF TypeInv, TypeOK, GovPcs
  <2>2. gov' = [gov EXCEPT ![g] = r]
    BY DEF FenceJob
  <2> HIDE DEF p
  <2>3. r \in GovRecord /\ r.job = j
    BY <2>1 DEF GovRecord
  <2> QED
    BY <2>2, <2>3, GovUpdate
<1> QED
  BY <1>1 DEF FenceJob, TypeInv, TypeOK

LEMMA KillWorkerType ==
  ASSUME TypeInv, NEW g \in Governesses, KillWorker(g) PROVE TypeInv'
<1>1. gov[g].job \in Jobs
  BY DEF KillWorker, TypeInv, CurrentJob
<1>2. gov' \in [Governesses -> GovRecord] /\ CurrentJob'
  BY <1>1, PcUpdate DEF KillWorker, GovPcs
<1>3. worker' \in [Jobs -> WorkerRecord]
  BY <1>1 DEF KillWorker, TypeInv, TypeOK, WorkerRecord
<1> QED
  BY <1>2, <1>3 DEF KillWorker, TypeInv, TypeOK

LEMMA FailJobType ==
  ASSUME TypeInv, NEW g \in Governesses, FailJob(g) PROVE TypeInv'
<1> DEFINE j == gov[g].job
<1>1. j \in Jobs
  BY DEF FailJob, TypeInv, CurrentJob
<1>2. CASE CanMove(j, "failed")
  <2>1. job' \in [Jobs -> JobRecord] /\ overdue' \in SUBSET Jobs
    BY <1>1, <1>2, MoveType
       DEF FailJob, TypeInv, JobStates, TERMINAL_STATES
  <2>2. gov' \in [Governesses -> GovRecord] /\ CurrentJob'
    <3> DEFINE r == [gov[g] EXCEPT !.pc = "report", !.message = "escalation"]
    <3>1. gov[g] \in GovRecord
      BY DEF TypeInv, TypeOK
    <3>2. r \in GovRecord /\ r.job = j
      BY <3>1 DEF GovRecord, GovPcs, MessageTypes
    <3>3. gov' = [gov EXCEPT ![g] = r]
      BY <1>2 DEF FailJob
    <3> HIDE DEF r
    <3> QED
      BY <1>1, <3>2, <3>3, GovUpdate
  <2> QED
    BY <2>1, <2>2 DEF FailJob, TypeInv, TypeOK
<1>3. CASE ~CanMove(j, "failed")
  <2>1. gov' \in [Governesses -> GovRecord] /\ CurrentJob'
    BY <1>1, <1>3, ResumeStep DEF FailJob
  <2> QED
    BY <1>3, <2>1 DEF FailJob, TypeInv, TypeOK
<1> QED
  BY <1>2, <1>3

LEMMA GovReportType ==
  ASSUME TypeInv, NEW g \in Governesses, GovReport(g) PROVE TypeInv'
<1>1. gov[g].job \in Jobs /\ gov[g].message \in MessageTypes
  BY DEF GovReport, TypeInv, TypeOK, CurrentJob, GovRecord
<1>2. gov' \in [Governesses -> GovRecord] /\ CurrentJob'
  BY <1>1, ResumeStep DEF GovReport
<1>3. sent' \in [Jobs -> Seq(MessageTypes)]
  BY <1>1, DispatchType DEF GovReport, TypeInv
<1> QED
  BY <1>2, <1>3 DEF GovReport, TypeInv, TypeOK

LEMMA ReadPendingType ==
  ASSUME TypeInv, NEW g \in Governesses, ReadPending(g) PROVE TypeInv'
<1> DEFINE pend == {j \in Jobs : job[j].state = "pending-route"}
           r == [gov[g] EXCEPT !.pc = "count", !.pend = pend]
<1>1. gov' = [gov EXCEPT ![g] = r]
  BY DEF ReadPending
<1>2. gov[g] \in GovRecord /\ pend \subseteq Jobs
  BY DEF TypeInv, TypeOK
<1> HIDE DEF pend
<1>3. r \in GovRecord /\ r.pc = "count"
  BY <1>2 DEF GovRecord, GovPcs
<1> HIDE DEF r
<1>4. gov' \in [Governesses -> GovRecord] /\ CurrentJob'
  BY <1>1, <1>3, GovUpdate DEF Handling
<1> QED
  BY <1>4 DEF ReadPending, TypeInv, TypeOK

LEMMA CountSlotsType ==
  ASSUME TypeInv, NEW g \in Governesses, CountSlots(g) PROVE TypeInv'
<1> DEFINE occupied(t) == {j \in Jobs : /\ job[j].state \in ActiveStates
                                        /\ job[j].target = "utility"
                                        /\ Tier[j] = t}
           count == [t \in Tiers |-> Cardinality(occupied(t))]
<1>1. count \in [Tiers -> Nat]
  BY CountType
<1> HIDE DEF count
<1> DEFINE r == [gov[g] EXCEPT !.pc = "route", !.count = count]
<1>2. gov' = [gov EXCEPT ![g] = r]
  BY DEF CountSlots, count
<1>3. gov[g] \in GovRecord
  BY DEF TypeInv, TypeOK
<1>4. r \in GovRecord /\ r.pc = "route"
  BY <1>1, <1>3 DEF GovRecord, GovPcs
<1> HIDE DEF r
<1>5. gov' \in [Governesses -> GovRecord] /\ CurrentJob'
  BY <1>2, <1>4, GovUpdate DEF Handling
<1> QED
  BY <1>5 DEF CountSlots, TypeInv, TypeOK

LEMMA DecideType ==
  ASSUME TypeInv, NEW g \in Governesses, NEW j \in Jobs, Decide(g, j)
  PROVE  TypeInv'
<1>1. Decisions(j) \subseteq Targets
  BY ConstantsAssumption DEF Decisions, Targets
<1>2. PICK t \in Targets :
        gov' = [gov EXCEPT ![g] =
                  [@ EXCEPT !.pc = "commit", !.job = j, !.target = t]]
  BY <1>1 DEF Decide
<1> DEFINE r == [gov[g] EXCEPT !.pc = "commit", !.job = j, !.target = t]
<1>3. gov' \in [Governesses -> GovRecord] /\ CurrentJob'
  <2>1. gov[g] \in GovRecord
    BY DEF TypeInv, TypeOK
  <2>2. r \in GovRecord /\ r.job = j
    BY <2>1 DEF GovRecord, GovPcs
  <2>3. gov' = [gov EXCEPT ![g] = r]
    BY <1>2
  <2> HIDE DEF r
  <2> QED
    BY <2>2, <2>3, GovUpdate
<1> QED
  BY <1>3 DEF Decide, TypeInv, TypeOK

LEMMA QueueDecisionType ==
  ASSUME TypeInv, NEW g \in Governesses, QueueDecision(g) PROVE TypeInv'
<1>1. gov[g].job \in Jobs
  BY DEF QueueDecision, TypeInv, CurrentJob
<1>2. gov' \in [Governesses -> GovRecord] /\ CurrentJob'
  BY <1>1, ResumeStep DEF QueueDecision
<1>3. job' \in [Jobs -> JobRecord]
  BY <1>1, ZenonT(60) DEF QueueDecision, TypeInv, TypeOK, JobRecord, Targets
<1> QED
  BY <1>2, <1>3 DEF QueueDecision, TypeInv, TypeOK

LEMMA CommitRouteType ==
  ASSUME TypeInv, NEW g \in Governesses, CommitRoute(g) PROVE TypeInv'
<1> DEFINE j == gov[g].job
           s == StateForDecision(gov[g].target)
<1>1. /\ j \in Jobs
      /\ gov[g].epoch \in Epochs
      /\ gov[g].target \in Targets
  BY DEF CommitRoute, TypeInv, TypeOK, CurrentJob, GovRecord
<1>2. s \in JobStates /\ MessageFor(s) \in MessageTypes
  BY MessageType
     DEF StateForDecision, JobStates, ActiveStates, ReturnedStates,
         TERMINAL_STATES
<1>3. CASE CanMove(j, s)
  <2> DEFINE e == IF gov[g].target = "utility" THEN gov[g].epoch
                                               ELSE job[j].routeEpoch
             q == [job[j] EXCEPT !.state = s, !.target = gov[g].target,
                                 !.routeEpoch = e]
             p == IF gov[g].target = "utility" THEN "spawn" ELSE "report"
             r == [gov[g] EXCEPT !.pc = p, !.message = MessageFor(s)]
  <2>a. gov[g] \in GovRecord /\ job[j] \in JobRecord /\ p \in GovPcs
    BY <1>1 DEF TypeInv, TypeOK, GovPcs
  <2>b. e \in Epochs
    BY <1>1, <2>a DEF JobRecord
  <2>c. /\ job' = [job EXCEPT ![j] = q]
        /\ overdue' = overdue \ {j}
        /\ gov' = [gov EXCEPT ![g] = r]
    <3>1. job' = [job EXCEPT ![j] = q] /\ overdue' = overdue \ {j}
      BY <1>3 DEF CommitRoute
    <3>2. gov' = [gov EXCEPT ![g] = r]
      BY <1>3 DEF CommitRoute
    <3> QED
      BY <3>1, <3>2
  <2> HIDE DEF e, s, p
  <2>d. q \in JobRecord
    BY <1>1, <1>2, <2>a, <2>b DEF JobRecord
  <2>e. r \in GovRecord /\ r.job = j
    BY <1>2, <2>a DEF GovRecord
  <2> HIDE DEF q, r
  <2>1. job' \in [Jobs -> JobRecord] /\ overdue' \in SUBSET Jobs
    BY <2>c, <2>d DEF TypeInv, TypeOK
  <2>2. gov' \in [Governesses -> GovRecord] /\ CurrentJob'
    BY <1>1, <2>c, <2>e, GovUpdate
  <2> QED
    BY <2>1, <2>2 DEF CommitRoute, TypeInv, TypeOK
<1>4. CASE ~CanMove(j, s)
  <2>1. gov' \in [Governesses -> GovRecord] /\ CurrentJob'
    BY <1>1, <1>4, ResetStep DEF CommitRoute
  <2> QED
    BY <1>4, <2>1 DEF CommitRoute, TypeInv, TypeOK
<1> QED
  BY <1>3, <1>4

LEMMA TakeSlotType ==
  ASSUME TypeOK, NEW g \in Governesses, NEW j \in Jobs
  PROVE  TakeSlot(g, j) \in [Tiers -> Nat]
BY ConstantsAssumption DEF TakeSlot, TypeOK, GovRecord

LEMMA SpawnWorkerType ==
  ASSUME TypeInv, NEW g \in Governesses, SpawnWorker(g) PROVE TypeInv'
<1> DEFINE j == gov[g].job
           r == Resume(g, j)
           c == TakeSlot(g, j)
<1>1. j \in Jobs /\ gov[g].epoch \in Epochs
  BY DEF SpawnWorker, TypeInv, TypeOK, CurrentJob, GovRecord
<1>2. r \in GovRecord /\ r.pc \in {"route", "recover"} /\ c \in [Tiers -> Nat]
  BY <1>1, ResumeType, TakeSlotType DEF TypeInv
<1>3. gov' = [gov EXCEPT ![g] = [r EXCEPT !.count = c]]
  BY DEF SpawnWorker
<1> HIDE DEF r, c
<1>4. [r EXCEPT !.count = c] \in GovRecord
  BY <1>2 DEF GovRecord
<1>5. gov' \in [Governesses -> GovRecord] /\ CurrentJob'
  <2>1. [r EXCEPT !.count = c].pc = r.pc
    BY <1>2 DEF GovRecord
  <2> QED
    BY <1>2, <1>3, <1>4, <2>1, GovUpdate DEF Handling
<1>6. worker' \in [Jobs -> WorkerRecord]
  BY <1>1 DEF SpawnWorker, TypeInv, TypeOK, WorkerRecord, Process, MessageTypes
<1> QED
  BY <1>5, <1>6 DEF SpawnWorker, TypeInv, TypeOK

LEMMA SpawnFailsType ==
  ASSUME TypeInv, NEW g \in Governesses, SpawnFails(g) PROVE TypeInv'
<1>1. gov[g].job \in Jobs
  BY DEF SpawnFails, TypeInv, CurrentJob
<1>2. TakeSlot(g, gov[g].job) \in [Tiers -> Nat]
  BY <1>1, TakeSlotType DEF TypeInv
<1> DEFINE c == TakeSlot(g, gov[g].job)
           r == [gov[g] EXCEPT !.pc = "fail", !.count = c]
<1>3. gov' \in [Governesses -> GovRecord] /\ CurrentJob'
  <2>1. gov[g] \in GovRecord
    BY DEF TypeInv, TypeOK
  <2>2. gov' = [gov EXCEPT ![g] = r]
    BY DEF SpawnFails
  <2> HIDE DEF c
  <2>3. r \in GovRecord /\ r.job = gov[g].job
    BY <1>2, <2>1 DEF GovRecord, GovPcs, c
  <2> QED
    BY <1>1, <2>2, <2>3, GovUpdate
<1> QED
  BY <1>3 DEF SpawnFails, TypeInv, TypeOK

\* EndPass, GovRetire and GovCrash only reset the local state.
LEMMA GovLeavesType ==
  ASSUME TypeInv, NEW g \in Governesses,
         EndPass(g) \/ GovRetire(g) \/ GovCrash(g)
  PROVE  TypeInv'
<1>1. gov[g].epoch \in Epochs
  BY DEF TypeInv, TypeOK, GovRecord
<1>2. gov' \in [Governesses -> GovRecord] /\ CurrentJob'
  BY <1>1, ResetStep, EpochType DEF EndPass, GovRetire, GovCrash
<1> QED
  BY <1>2 DEF EndPass, GovRetire, GovCrash, TypeInv, TypeOK

LEMMA WorkerClaimType ==
  ASSUME TypeInv, NEW j \in Jobs, WorkerClaim(j) PROVE TypeInv'
<1>1. worker[j] \in WorkerRecord /\ job[j] \in JobRecord
  BY DEF TypeInv, TypeOK
<1>2. worker' \in [Jobs -> WorkerRecord]
  <2>1. CASE Claimable(j)
    BY <2>1, WorkerPc DEF WorkerClaim, TypeInv
  <2>2. CASE ~Claimable(j)
    BY <2>2, WorkerPc DEF WorkerClaim, TypeInv
  <2> QED
    BY <2>1, <2>2
<1>3. job' \in [Jobs -> JobRecord] /\ overdue' \in SUBSET Jobs
  <2> DEFINE q == [job[j] EXCEPT !.state = "claimed",
                                 !.claim = worker[j].epoch]
  <2>1. CASE Claimable(j)
    <3>1. q \in JobRecord
      BY <1>1 DEF JobRecord, WorkerRecord, JobStates, ActiveStates
    <3>2. job' = [job EXCEPT ![j] = q] /\ overdue' = overdue \ {j}
      BY <2>1 DEF WorkerClaim
    <3> QED
      BY <3>1, <3>2 DEF TypeInv, TypeOK
  <2>2. CASE ~Claimable(j)
    BY <2>2 DEF WorkerClaim, TypeInv, TypeOK
  <2> QED
    BY <2>1, <2>2
<1> QED
  BY <1>2, <1>3 DEF WorkerClaim, TypeInv, TypeOK, CurrentJob

LEMMA WorkerRunType ==
  ASSUME TypeInv, NEW j \in Jobs, WorkerRun(j) PROVE TypeInv'
<1>1. worker' \in [Jobs -> WorkerRecord]
  BY ZenonT(60) DEF WorkerRun, TypeInv, TypeOK, WorkerRecord
<1>2. job' \in [Jobs -> JobRecord] /\ overdue' \in SUBSET Jobs
  <2>1. "running" \in JobStates
    BY DEF JobStates, ActiveStates
  <2> QED
    BY <2>1, MoveType DEF WorkerRun, TypeInv, TypeOK
<1> QED
  BY <1>1, <1>2 DEF WorkerRun, TypeInv, TypeOK, CurrentJob

LEMMA WorkerFinishType ==
  ASSUME TypeInv, NEW j \in Jobs, WorkerFinish(j) PROVE TypeInv'
<1>0. PICK o \in {"completed", "escalated", "failed"} :
      IF CanMove(j, o)
        THEN /\ Move(j, o)
             /\ worker' = [worker EXCEPT ![j] =
                             [worker[j] EXCEPT !.pc = "notify",
                                               !.message = MessageFor(o)]]
        ELSE /\ worker' = [worker EXCEPT ![j].pc = "dead"]
             /\ UNCHANGED <<job, overdue>>
  BY DEF WorkerFinish
<1> DEFINE r == [worker[j] EXCEPT !.pc = "notify", !.message = MessageFor(o)]
<1>1. worker' \in [Jobs -> WorkerRecord]
  <2>1. r \in WorkerRecord
    BY MessageType DEF TypeInv, TypeOK, WorkerRecord
  <2>a. CanMove(j, o) => worker' = [worker EXCEPT ![j] = r]
    BY <1>0
  <2>b. ~CanMove(j, o) => worker' = [worker EXCEPT ![j].pc = "dead"]
    BY <1>0
  <2> HIDE DEF r
  <2>2. CASE CanMove(j, o)
    BY <2>1, <2>2, <2>a DEF TypeInv, TypeOK
  <2>3. CASE ~CanMove(j, o)
    BY <2>3, <2>b, WorkerPc DEF TypeInv
  <2> QED
    BY <2>2, <2>3
<1>2. job' \in [Jobs -> JobRecord] /\ overdue' \in SUBSET Jobs
  <2>1. o \in JobStates
    BY DEF JobStates, TERMINAL_STATES
  <2> QED
    BY <1>0, <2>1, MoveType DEF TypeInv, TypeOK
<1> QED
  BY <1>1, <1>2 DEF WorkerFinish, TypeInv, TypeOK, CurrentJob

LEMMA WorkerNotifyType ==
  ASSUME TypeInv, NEW j \in Jobs, WorkerNotify(j) PROVE TypeInv'
<1>1. worker' \in [Jobs -> WorkerRecord]
  BY DEF WorkerNotify, TypeInv, TypeOK, WorkerRecord
<1>2. sent' \in [Jobs -> Seq(MessageTypes)]
  BY DispatchType DEF WorkerNotify, TypeInv, TypeOK, WorkerRecord
<1> QED
  BY <1>1, <1>2 DEF WorkerNotify, TypeInv, TypeOK, CurrentJob

LEMMA WorkerCrashType ==
  ASSUME TypeInv, NEW j \in Jobs, WorkerCrash(j) PROVE TypeInv'
<1>1. worker' \in [Jobs -> WorkerRecord]
  BY DEF WorkerCrash, TypeInv, TypeOK, WorkerRecord
<1> QED
  BY <1>1 DEF WorkerCrash, TypeInv, TypeOK, CurrentJob

LEMMA StepType == TypeInv /\ [Next]_vars => TypeInv'
<1> SUFFICES ASSUME TypeInv, [Next]_vars PROVE TypeInv'
  OBVIOUS
<1>1. CASE \E g \in Governesses : GovStep(g) \/ GovCrash(g)
  BY <1>1, GovStartType, GovActivateType, BeginPassType, ScanType,
     KeepJobType, FenceJobType, KillWorkerType, FailJobType, GovReportType,
     ReadPendingType, CountSlotsType, DecideType, QueueDecisionType, CommitRouteType,
     SpawnWorkerType, SpawnFailsType, GovLeavesType
     DEF GovStep, Recover, Route
<1>2. CASE \E j \in Jobs : \/ RequestRoute(j) \/ JobOverdue(j)
                           \/ WorkerStep(j) \/ WorkerCrash(j)
  BY <1>2, RequestRouteType, JobOverdueType, WorkerClaimType, WorkerRunType,
     WorkerFinishType, WorkerNotifyType, WorkerCrashType
     DEF WorkerStep
<1>3. CASE UNCHANGED vars
  BY <1>3 DEF vars, TypeInv, TypeOK, CurrentJob
<1> QED
  BY <1>1, <1>2, <1>3 DEF Next

\* Every reachable state of the pipeline is well typed, and a Governess never
\* fails, reports or routes a job it does not hold.
THEOREM TypeCorrect == Spec => [](TypeOK /\ CurrentJob)
<1>1. Init => TypeInv
  BY InitType
<1>2. TypeInv /\ [Next]_vars => TypeInv'
  BY StepType
<1> QED
  BY <1>1, <1>2, PTL DEF Spec, TypeInv

-----------------------------------------------------------------------------
(***************************************************************************)
(* A job is reported at most once and truly.                               *)
(*                                                                         *)
(* ReportedOnceAndTruly says nothing of the processes, so it is not        *)
(* inductive: a step that sends a message needs to know that nobody has    *)
(* sent one and that the state it was composed for still stands.  Three    *)
(* facts supply that.  A settled job never changes again, except that the  *)
(* store would let a job handed back to an agent fail or complete; so no   *)
(* process may still be working on such a job (WorkIsRouted).  A message   *)
(* is owed by the one process that settled the job (Debts, OneDebtor).     *)
(***************************************************************************)

PastRoute(j) == job[j].state \in ActiveStates \cup TERMINAL_STATES
Settled(j) == job[j].state \in TERMINAL_STATES \cup ReturnedStates

Working == {"kill", "fail", "spawn"}

\* Workers, and Governesses that fence or spawn, only handle jobs that were
\* routed to a helper.
WorkIsRouted ==
  /\ \A j \in Jobs : worker[j].pc # "none" => PastRoute(j)
  /\ \A g \in Governesses : gov[g].pc \in Working => PastRoute(gov[g].job)
  /\ \A g \in Governesses, j \in Jobs : j \in gov[g].todo => PastRoute(j)

Owed(j, message) ==
  Settled(j) /\ sent[j] = <<>> /\ message = MessageFor(job[j].state)

\* What a process is about to send is due and true.
Debts ==
  /\ \A j \in Jobs : ~Settled(j) => sent[j] = <<>>
  /\ \A j \in Jobs : worker[j].pc = "notify" => Owed(j, worker[j].message)
  /\ \A g \in Governesses :
       gov[g].pc = "report" => Owed(gov[g].job, gov[g].message)

\* No two processes are about to report the same job.
OneDebtor ==
  \A g \in Governesses :
    gov[g].pc = "report" =>
      /\ worker[gov[g].job].pc # "notify"
      /\ \A h \in Governesses \ {g} :
           gov[h].pc = "report" => gov[h].job # gov[g].job


-----------------------------------------------------------------------------
(* The store's transitions.                                                *)

\* No process that handles a routed job, and no routing decision, may move a
\* job that has settled.
LEMMA MoveFromUnsettled ==
  ASSUME TypeOK, NEW j \in Jobs, NEW s, CanMove(j, s),
         PastRoute(j) \/ s \in {"routed-utility", "running", "escalated"}
                                 \cup ReturnedStates
  PROVE  ~Settled(j) /\ job[j].state # s
<1>1. job[j].state \in JobStates /\ s \in ALLOWED_TRANSITIONS[job[j].state]
  BY DEF CanMove, Requested, TypeOK, JobRecord
<1> QED
  BY <1>1 DEF ALLOWED_TRANSITIONS, JobStates, ActiveStates, ReturnedStates,
              TERMINAL_STATES, PastRoute, Settled

\* A routed job stays routed until it ends.
LEMMA MoveKeepsPastRoute ==
  ASSUME TypeOK, NEW j \in Jobs, NEW s, CanMove(j, s), PastRoute(j)
  PROVE  s \in ActiveStates \cup TERMINAL_STATES
<1>1. job[j].state \in JobStates /\ s \in ALLOWED_TRANSITIONS[job[j].state]
  BY DEF CanMove, Requested, TypeOK, JobRecord
<1> QED
  BY <1>1 DEF ALLOWED_TRANSITIONS, JobStates, ActiveStates, ReturnedStates,
              TERMINAL_STATES, PastRoute

\* The state of every other job survives a transition.
LEMMA MoveEffect ==
  ASSUME TypeOK, NEW j \in Jobs, NEW s, Move(j, s)
  PROVE  \A i \in Jobs : job'[i].state = IF i = j THEN s ELSE job[i].state
BY DEF Move, TypeOK, JobRecord

-----------------------------------------------------------------------------
(* How a step may act on the invariant.                                    *)

\* A step that hands no unrouted job to a worker or a Governess.
LEMMA RoutedStep ==
  ASSUME WorkIsRouted,
         \A j \in Jobs : PastRoute(j) => PastRoute(j)',
         \A j \in Jobs : worker'[j].pc # "none" =>
                           worker[j].pc # "none" \/ PastRoute(j)',
         CurrentJob,
         \A g \in Governesses :
           \/ gov'[g] = gov[g]
           \/ /\ \A j \in Jobs : j \in gov'[g].todo =>
                                   j \in gov[g].todo \/ PastRoute(j)'
              /\ gov'[g].pc \in Working =>
                   \/ \E j \in Jobs : gov'[g].job = j /\ PastRoute(j)'
                   \/ gov[g].pc \in Working /\ gov'[g].job = gov[g].job
  PROVE  WorkIsRouted'
<1>1. \A g \in Governesses : gov[g].pc \in Working => gov[g].job \in Jobs
  BY DEF Working, CurrentJob
<1>2. \A j \in Jobs : worker'[j].pc # "none" => PastRoute(j)'
  BY DEF WorkIsRouted
<1>3. \A g \in Governesses : gov'[g].pc \in Working =>
        \E j \in Jobs : gov'[g].job = j /\ PastRoute(j)'
  BY <1>1 DEF WorkIsRouted
<1>4. \A g \in Governesses, j \in Jobs : j \in gov'[g].todo => PastRoute(j)'
  BY DEF WorkIsRouted
<1> QED
  BY <1>2, <1>3, <1>4 DEF WorkIsRouted

\* What the reports depend on.
Reports == Debts /\ OneDebtor /\ ReportedOnceAndTruly

\* A step that settles no job, sends nothing and owes nothing new.
LEMMA QuietStep ==
  ASSUME Reports, CurrentJob, sent' = sent,
         \A j \in Jobs : \/ job'[j].state = job[j].state
                         \/ ~Settled(j) /\ ~Settled(j)',
         \A j \in Jobs : worker'[j].pc = "notify" => worker'[j] = worker[j],
         \A g \in Governesses : gov'[g].pc = "report" => gov'[g] = gov[g]
  PROVE  Reports'
<1>1. \A g \in Governesses : gov[g].pc = "report" => gov[g].job \in Jobs
  BY DEF CurrentJob
<1>2. \A j \in Jobs : \A m : Owed(j, m) => Owed(j, m)'
  BY DEF Owed, Settled
<1>3. Debts'
  BY <1>1, <1>2 DEF Reports, Debts, Settled
<1>4. OneDebtor'
  BY <1>1 DEF Reports, OneDebtor
<1>5. ReportedOnceAndTruly'
  BY DEF Reports, Debts, ReportedOnceAndTruly
<1> QED
  BY <1>3, <1>4, <1>5 DEF Reports

\* An unsettled job is owed by nobody.
LEMMA NoDebtor ==
  ASSUME Reports, NEW j \in Jobs, ~Settled(j)
  PROVE  /\ sent[j] = <<>>
         /\ worker[j].pc # "notify"
         /\ \A g \in Governesses : gov[g].pc = "report" => gov[g].job # j
BY DEF Reports, Debts, Owed

\* A Governess settles a job and owes the message about it.
LEMMA GovSettles ==
  ASSUME Reports, CurrentJob, NEW g \in Governesses, NEW j \in Jobs, NEW s,
         ~Settled(j), s \in TERMINAL_STATES \cup ReturnedStates,
         \A i \in Jobs : job'[i].state = IF i = j THEN s ELSE job[i].state,
         gov'[g].pc = "report", gov'[g].job = j,
         gov'[g].message = MessageFor(s),
         \A h \in Governesses \ {g} : gov'[h] = gov[h],
         worker' = worker, sent' = sent
  PROVE  Reports'
<1>1. /\ sent[j] = <<>>
      /\ worker[j].pc # "notify"
      /\ \A h \in Governesses : gov[h].pc = "report" => gov[h].job # j
  BY NoDebtor
<1>2. \A h \in Governesses : gov[h].pc = "report" => gov[h].job \in Jobs
  BY DEF CurrentJob
<1>3. \A i \in Jobs \ {j} : \A m : Owed(i, m) => Owed(i, m)'
  BY DEF Owed, Settled
<1>4. Owed(j, MessageFor(s))'
  BY <1>1 DEF Owed, Settled
<1>5. Debts'
  <2>1. \A i \in Jobs : ~Settled(i)' => sent'[i] = <<>>
    BY <1>1 DEF Reports, Debts, Settled
  <2>2. \A i \in Jobs : \A m :
          worker'[i].pc = "notify" /\ worker'[i].message = m => Owed(i, m)'
    BY <1>1, <1>3 DEF Reports, Debts
  <2>3. \A h \in Governesses, i \in Jobs : \A m :
          (gov'[h].pc = "report" /\ gov'[h].job = i /\ gov'[h].message = m)
            => Owed(i, m)'
    <3> SUFFICES ASSUME NEW h \in Governesses, NEW i \in Jobs, NEW m,
                        gov'[h].pc = "report", gov'[h].job = i,
                        gov'[h].message = m
                 PROVE  Owed(i, m)'
      OBVIOUS
    <3>1. CASE h = g
      BY <3>1, <1>4
    <3>2. CASE h # g
      BY <3>2, <1>1, <1>3 DEF Reports, Debts
    <3> QED
      BY <3>1, <3>2
  <2>4. \A h \in Governesses : gov'[h].pc = "report" => gov'[h].job \in Jobs
    BY <1>2
  <2> QED
    BY <2>1, <2>2, <2>3, <2>4 DEF Debts
<1>6. OneDebtor'
  BY <1>1 DEF Reports, OneDebtor
<1>7. ReportedOnceAndTruly'
  BY <1>1 DEF Reports, ReportedOnceAndTruly
<1> QED
  BY <1>5, <1>6, <1>7 DEF Reports

\* A worker settles its job and owes the message about it.
LEMMA WorkerSettles ==
  ASSUME Reports, CurrentJob, NEW j \in Jobs, NEW s,
         ~Settled(j), s \in TERMINAL_STATES,
         \A i \in Jobs : job'[i].state = IF i = j THEN s ELSE job[i].state,
         worker'[j].message = MessageFor(s),
         \A i \in Jobs \ {j} : worker'[i] = worker[i],
         gov' = gov, sent' = sent
  PROVE  Reports'
<1>1. /\ sent[j] = <<>>
      /\ \A h \in Governesses : gov[h].pc = "report" => gov[h].job # j
  BY NoDebtor
<1>2. \A h \in Governesses : gov[h].pc = "report" => gov[h].job \in Jobs
  BY DEF CurrentJob
<1>3. \A i \in Jobs \ {j} : \A m : Owed(i, m) => Owed(i, m)'
  BY DEF Owed, Settled
<1>4. Owed(j, MessageFor(s))'
  BY <1>1 DEF Owed, Settled
<1>5. Debts'
  <2>1. \A i \in Jobs : ~Settled(i)' => sent'[i] = <<>>
    BY <1>1 DEF Reports, Debts, Settled
  <2>2. \A i \in Jobs : \A m :
          worker'[i].pc = "notify" /\ worker'[i].message = m => Owed(i, m)'
    BY <1>3, <1>4 DEF Reports, Debts
  <2>3. \A h \in Governesses, i \in Jobs : \A m :
          (gov'[h].pc = "report" /\ gov'[h].job = i /\ gov'[h].message = m)
            => Owed(i, m)'
    BY <1>1, <1>3 DEF Reports, Debts
  <2> QED
    BY <1>2, <2>1, <2>2, <2>3 DEF Debts
<1>6. OneDebtor'
  BY <1>1, <1>2 DEF Reports, OneDebtor
<1>7. ReportedOnceAndTruly'
  BY <1>1 DEF Reports, ReportedOnceAndTruly
<1> QED
  BY <1>5, <1>6, <1>7 DEF Reports

\* A message that is owed is sent, and its debtor owes nothing any more.
LEMMA Discharge ==
  ASSUME Reports, TypeOK, CurrentJob, NEW j \in Jobs, NEW m, Owed(j, m),
         Dispatch(j, m), job' = job,
         worker'[j].pc # "notify",
         \A i \in Jobs \ {j} : worker'[i] = worker[i],
         \A g \in Governesses :
           gov'[g].pc = "report" => gov'[g] = gov[g] /\ gov[g].job # j
  PROVE  Reports'
<1>1. /\ sent'[j] = <<m>>
      /\ \A i \in Jobs \ {j} : sent'[i] = sent[i]
  BY DEF Owed, Dispatch, TypeOK
<1>2. \A h \in Governesses : gov[h].pc = "report" => gov[h].job \in Jobs
  BY DEF CurrentJob
<1>3. \A i \in Jobs \ {j} : \A n : Owed(i, n) => Owed(i, n)'
  BY <1>1 DEF Owed, Settled
<1>4. Debts'
  <2>1. \A i \in Jobs : ~Settled(i)' => sent'[i] = <<>>
    BY <1>1 DEF Reports, Debts, Settled, Owed
  <2>2. \A i \in Jobs : \A n :
          worker'[i].pc = "notify" /\ worker'[i].message = n => Owed(i, n)'
    BY <1>3 DEF Reports, Debts
  <2>3. \A h \in Governesses, i \in Jobs : \A n :
          (gov'[h].pc = "report" /\ gov'[h].job = i /\ gov'[h].message = n)
            => Owed(i, n)'
    BY <1>3 DEF Reports, Debts
  <2> QED
    BY <1>2, <2>1, <2>2, <2>3 DEF Debts
<1>5. OneDebtor'
  BY <1>2 DEF Reports, OneDebtor
<1>6. ReportedOnceAndTruly'
  BY <1>1 DEF Reports, ReportedOnceAndTruly, Owed
<1> QED
  BY <1>4, <1>5, <1>6 DEF Reports

-----------------------------------------------------------------------------
(* Steps of a Governess.                                                   *)

Ready == TypeInv /\ WorkIsRouted /\ Reports

\* A Governess that only moves on in its own local state.
LEMMA LocalStep ==
  ASSUME Ready, NEW g \in Governesses, NEW r,
         gov' = [gov EXCEPT ![g] = r],
         r.pc # "report",
         r.pc \in Working => \E j \in Jobs : r.job = j /\ PastRoute(j),
         \A j \in Jobs : j \in r.todo => PastRoute(j),
         UNCHANGED <<job, worker, sent>>
  PROVE  WorkIsRouted' /\ Reports'
<1>1. \A h \in Governesses : gov'[h] = IF h = g THEN r ELSE gov[h]
  BY DEF Ready, TypeInv, TypeOK
<1>2. WorkIsRouted'
  BY <1>1, RoutedStep DEF Ready, TypeInv, PastRoute
<1>3. Reports'
  BY <1>1, QuietStep DEF Ready, TypeInv
<1> QED
  BY <1>2, <1>3

\* Down, At and Resume leave nothing to report and no new job to look at.
LEMMA FreshState ==
  \A e, p : /\ Down(e).pc = "down" /\ Down(e).todo = {}
            /\ At(e, p).pc = p /\ At(e, p).todo = {}
BY DEF Down, At

LEMMA ResumedState ==
  ASSUME TypeOK, NEW g \in Governesses, NEW j
  PROVE  /\ Resume(g, j).pc \in {"route", "recover"}
         /\ Resume(g, j).todo \subseteq gov[g].todo
BY DEF Resume, TypeOK, GovRecord

\* A Governess starts, retires, dies or ends its pass.
LEMMA ResetReports ==
  ASSUME Ready, NEW g \in Governesses, NEW e, NEW p \in {"starting", "idle"},
         \/ gov' = [gov EXCEPT ![g] = Down(e)]
         \/ gov' = [gov EXCEPT ![g] = At(e, p)],
         UNCHANGED <<job, worker, sent>>
  PROVE  WorkIsRouted' /\ Reports'
BY FreshState, LocalStep DEF Working

\* A Governess advances without a new job in hand.
LEMMA PcReports ==
  ASSUME Ready, NEW g \in Governesses, NEW r,
         gov' = [gov EXCEPT ![g] = r],
         r.pc \notin Working \cup {"report"},
         r.todo \subseteq gov[g].todo,
         UNCHANGED <<job, worker, sent>>
  PROVE  WorkIsRouted' /\ Reports'
<1>1. \A j \in Jobs : j \in r.todo => PastRoute(j)
  BY DEF Ready, WorkIsRouted
<1> QED
  BY <1>1, LocalStep

LEMMA IdleStepReports ==
  ASSUME Ready, NEW g \in Governesses,
         \/ GovStart(g) \/ GovActivate(g) \/ BeginPass(g)
         \/ GovRetire(g) \/ GovCrash(g) \/ EndPass(g)
  PROVE  WorkIsRouted' /\ Reports'
<1>0. gov[g] \in GovRecord
  BY DEF Ready, TypeInv, TypeOK
<1>1. CASE GovStart(g) \/ EndPass(g) \/ GovRetire(g) \/ GovCrash(g)
  BY <1>1, ResetReports DEF GovStart, EndPass, GovRetire, GovCrash
<1>2. ASSUME NEW p \in {"idle", "scan"}, gov' = [gov EXCEPT ![g].pc = p],
             UNCHANGED <<job, worker, sent>>
      PROVE  WorkIsRouted' /\ Reports'
  <2> DEFINE r == [gov[g] EXCEPT !.pc = p]
  <2>1. r.pc \notin Working \cup {"report"} /\ r.todo \subseteq gov[g].todo
    BY <1>0 DEF GovRecord, Working
  <2>2. gov' = [gov EXCEPT ![g] = r]
    BY <1>2
  <2> HIDE DEF r
  <2> QED
    BY <1>2, <2>1, <2>2, PcReports
<1>3. CASE GovActivate(g)
  BY <1>2, <1>3, ResetReports DEF GovActivate
<1>4. CASE BeginPass(g)
  BY <1>2, <1>4 DEF BeginPass
<1> QED
  BY <1>1, <1>3, <1>4

LEMMA ScanReports ==
  ASSUME Ready, NEW g \in Governesses, Scan(g)
  PROVE  WorkIsRouted' /\ Reports'
<1> DEFINE active == {j \in Jobs : job[j].state \in ActiveStates}
           stale == {j \in active : \/ job[j].routeEpoch # gov[g].epoch
                                    \/ job[j].claim \notin {0, gov[g].epoch}}
           late == active \cap overdue
           known == {j \in active : job[j].claim # 0}
           r == [gov[g] EXCEPT !.pc = "recover", !.todo = active,
                               !.stale = stale, !.late = late, !.known = known]
<1>1. gov' = [gov EXCEPT ![g] = r]
  BY DEF Scan
<1>2. gov[g] \in GovRecord
  BY DEF Ready, TypeInv, TypeOK
<1>3. \A j \in active : PastRoute(j)
  BY DEF PastRoute
<1> HIDE DEF active, stale, late, known
<1>4. r.pc = "recover" /\ r.todo = active
  BY <1>2 DEF GovRecord
<1> HIDE DEF r
<1> QED
  BY <1>1, <1>3, <1>4, LocalStep DEF Scan, Working

LEMMA RecoverLocalReports ==
  ASSUME Ready, NEW g \in Governesses, NEW j \in Jobs,
         KeepJob(g, j) \/ FenceJob(g, j)
  PROVE  WorkIsRouted' /\ Reports'
<1>1. gov[g] \in GovRecord /\ TypeOK
  BY DEF Ready, TypeInv, TypeOK
<1>2. CASE KeepJob(g, j)
  BY <1>1, <1>2, ResumedState, PcReports DEF KeepJob, Working
<1>3. CASE FenceJob(g, j)
  <2> DEFINE p == IF NeedsKill(g, j) THEN "kill" ELSE "fail"
             r == [gov[g] EXCEPT !.job = j, !.pc = p]
  <2>1. gov' = [gov EXCEPT ![g] = r]
    BY <1>3 DEF FenceJob
  <2>2. p # "report" /\ j \in gov[g].todo
    BY <1>3 DEF FenceJob, First
  <2> HIDE DEF p
  <2>3. r.pc = p /\ r.job = j /\ r.todo = gov[g].todo
    BY <1>1 DEF GovRecord
  <2> HIDE DEF r
  <2>4. PastRoute(j) /\ \A i \in Jobs : i \in r.todo => PastRoute(i)
    BY <2>2, <2>3 DEF Ready, WorkIsRouted
  <2> QED
    BY <1>3, <2>1, <2>2, <2>3, <2>4, LocalStep DEF FenceJob
<1> QED
  BY <1>2, <1>3

\* Killing a worker only moves on: a dead worker reports nothing.
LEMMA KillWorkerReports ==
  ASSUME Ready, NEW g \in Governesses, KillWorker(g)
  PROVE  WorkIsRouted' /\ Reports'
<1>1. TypeOK /\ CurrentJob
  BY DEF Ready, TypeInv
<1>2. gov[g].job \in Jobs /\ PastRoute(gov[g].job)
  BY <1>1 DEF KillWorker, CurrentJob, Ready, WorkIsRouted, Working
<1>3. \A h \in Governesses :
        \/ gov'[h] = gov[h]
        \/ /\ h = g /\ gov'[h].pc = "fail" /\ gov'[h].job = gov[h].job
           /\ gov'[h].todo = gov[h].todo
  BY <1>1 DEF KillWorker, TypeOK, GovRecord
<1>4. \A j \in Jobs : \/ worker'[j] = worker[j]
                      \/ j = gov[g].job /\ worker'[j].pc = "dead"
  BY <1>1 DEF KillWorker, TypeOK, WorkerRecord
<1>5. \A j \in Jobs : PastRoute(j) => PastRoute(j)'
  BY DEF KillWorker, PastRoute
<1>6. WorkIsRouted'
  BY <1>1, <1>2, <1>3, <1>4, <1>5, RoutedStep DEF Ready
<1>7. Reports'
  BY <1>1, <1>3, <1>4, QuietStep DEF Ready, KillWorker
<1> QED
  BY <1>6, <1>7

\* A transition of a routed job keeps every routed job routed.
LEMMA MoveReports ==
  ASSUME TypeOK, NEW j \in Jobs, NEW s, CanMove(j, s), PastRoute(j),
         \A i \in Jobs : job'[i].state = IF i = j THEN s ELSE job[i].state
  PROVE  \A i \in Jobs : PastRoute(i) => PastRoute(i)'
BY MoveKeepsPastRoute DEF PastRoute

LEMMA FailJobReports ==
  ASSUME Ready, NEW g \in Governesses, FailJob(g)
  PROVE  WorkIsRouted' /\ Reports'
<1> DEFINE j == gov[g].job
<1>1. TypeOK /\ CurrentJob /\ gov[g] \in GovRecord
  BY DEF Ready, TypeInv, TypeOK
<1>2. j \in Jobs /\ PastRoute(j)
  BY <1>1 DEF FailJob, CurrentJob, Ready, WorkIsRouted, Working
<1>3. CASE CanMove(j, "failed")
  <2> DEFINE r == [gov[g] EXCEPT !.pc = "report", !.message = "escalation"]
  <2>1. gov' = [gov EXCEPT ![g] = r]
    BY <1>3 DEF FailJob
  <2>2. /\ r.pc = "report" /\ r.job = j /\ r.todo = gov[g].todo
        /\ r.message = MessageFor("failed")
    BY <1>1 DEF GovRecord, MessageFor
  <2> HIDE DEF r
  <2>3. \A h \in Governesses : gov'[h] = IF h = g THEN r ELSE gov[h]
    BY <1>1, <2>1 DEF TypeOK
  <2>4. \A i \in Jobs : job'[i].state = IF i = j THEN "failed" ELSE job[i].state
    BY <1>1, <1>2, <1>3, MoveEffect DEF FailJob
  <2>5. ~Settled(j)
    BY <1>1, <1>2, <1>3, MoveFromUnsettled
  <2>6. \A i \in Jobs : PastRoute(i) => PastRoute(i)'
    BY <1>1, <1>2, <1>3, <2>4, MoveReports
  <2>7. WorkIsRouted'
    BY <1>1, <2>2, <2>3, <2>6, RoutedStep DEF FailJob, Ready, Working
  <2>8. Reports'
    BY <1>1, <1>2, <2>2, <2>3, <2>4, <2>5, GovSettles
       DEF FailJob, Ready, TERMINAL_STATES
  <2> QED
    BY <2>7, <2>8
<1>4. CASE ~CanMove(j, "failed")
  BY <1>1, <1>4, ResumedState, PcReports DEF FailJob, Working
<1> QED
  BY <1>3, <1>4

LEMMA GovReportReports ==
  ASSUME Ready, NEW g \in Governesses, GovReport(g)
  PROVE  WorkIsRouted' /\ Reports'
<1> DEFINE j == gov[g].job
           r == Resume(g, j)
<1>1. TypeOK /\ CurrentJob
  BY DEF Ready, TypeInv
<1>2. j \in Jobs /\ Owed(j, gov[g].message) /\ worker[j].pc # "notify"
  BY <1>1 DEF GovReport, CurrentJob, Ready, Reports, Debts, OneDebtor
<1>3. r.pc \in {"route", "recover"} /\ r.todo \subseteq gov[g].todo
  BY <1>1, ResumedState
<1> HIDE DEF r
<1>4. \A h \in Governesses : gov'[h] = IF h = g THEN r ELSE gov[h]
  BY <1>1 DEF GovReport, TypeOK, r
<1>5. \A h \in Governesses :
        gov'[h].pc = "report" => gov'[h] = gov[h] /\ gov[h].job # j
  BY <1>3, <1>4 DEF GovReport, Ready, Reports, OneDebtor
<1>6. Reports'
  BY <1>1, <1>2, <1>5, Discharge DEF GovReport, Ready
<1>7. WorkIsRouted'
  BY <1>1, <1>3, <1>4, RoutedStep DEF GovReport, Ready, PastRoute, Working
<1> QED
  BY <1>6, <1>7

LEMMA PlanReports ==
  ASSUME Ready, NEW g \in Governesses,
         ReadPending(g) \/ CountSlots(g) \/ \E j \in Jobs : Decide(g, j)
  PROVE  WorkIsRouted' /\ Reports'
<1>0. gov[g] \in GovRecord
  BY DEF Ready, TypeInv, TypeOK
<1>1. CASE ReadPending(g)
  <2> DEFINE pend == {j \in Jobs : job[j].state = "pending-route"}
             r == [gov[g] EXCEPT !.pc = "count", !.pend = pend]
  <2>1. gov' = [gov EXCEPT ![g] = r] /\ UNCHANGED <<job, worker, sent>>
    BY <1>1 DEF ReadPending
  <2> HIDE DEF pend
  <2>2. r.pc = "count" /\ r.todo = gov[g].todo
    BY <1>0 DEF GovRecord
  <2> HIDE DEF r
  <2> QED
    BY <2>1, <2>2, PcReports DEF Working
<1>2. CASE CountSlots(g)
  <2> PICK c : gov' = [gov EXCEPT ![g] =
                         [gov[g] EXCEPT !.pc = "route", !.count = c]]
    BY <1>2 DEF CountSlots
  <2> DEFINE r == [gov[g] EXCEPT !.pc = "route", !.count = c]
  <2>1. r.pc = "route" /\ r.todo = gov[g].todo
    BY <1>0 DEF GovRecord
  <2>2. gov' = [gov EXCEPT ![g] = r]
    OBVIOUS
  <2> HIDE DEF r
  <2> QED
    BY <1>2, <2>1, <2>2, PcReports DEF CountSlots, Working
<1>3. CASE \E j \in Jobs : Decide(g, j)
  <2>1. PICK j, t : gov' = [gov EXCEPT ![g] =
                              [gov[g] EXCEPT !.pc = "commit", !.job = j,
                                             !.target = t]]
    BY <1>3 DEF Decide
  <2> DEFINE r == [gov[g] EXCEPT !.pc = "commit", !.job = j, !.target = t]
  <2>2. r.pc = "commit" /\ r.todo = gov[g].todo
    BY <1>0 DEF GovRecord
  <2>3. gov' = [gov EXCEPT ![g] = r]
    BY <2>1
  <2> HIDE DEF r
  <2> QED
    BY <1>3, <2>2, <2>3, PcReports DEF Decide, Working
<1> QED
  BY <1>1, <1>2, <1>3

LEMMA QueueDecisionReports ==
  ASSUME Ready, NEW g \in Governesses, QueueDecision(g)
  PROVE  WorkIsRouted' /\ Reports'
<1> DEFINE r == Resume(g, gov[g].job)
<1>1. TypeOK /\ CurrentJob
  BY DEF Ready, TypeInv
<1>2. r.pc \in {"route", "recover"} /\ r.todo \subseteq gov[g].todo
  BY <1>1, ResumedState
<1> HIDE DEF r
<1>3. \A h \in Governesses : gov'[h] = IF h = g THEN r ELSE gov[h]
  BY <1>1 DEF QueueDecision, TypeOK, r
<1>4. \A i \in Jobs : job'[i].state = job[i].state
  BY <1>1 DEF QueueDecision, TypeOK, JobRecord
<1>5. WorkIsRouted'
  BY <1>1, <1>2, <1>3, <1>4, RoutedStep
     DEF QueueDecision, Ready, PastRoute, Working
<1>6. Reports'
  BY <1>1, <1>2, <1>3, <1>4, QuietStep DEF QueueDecision, Ready
<1> QED
  BY <1>5, <1>6

LEMMA CommitRouteReports ==
  ASSUME Ready, NEW g \in Governesses, CommitRoute(g)
  PROVE  WorkIsRouted' /\ Reports'
<1> DEFINE j == gov[g].job
           s == StateForDecision(gov[g].target)
<1>1. TypeOK /\ CurrentJob /\ gov[g] \in GovRecord
  BY DEF Ready, TypeInv, TypeOK
<1>2. j \in Jobs
  BY <1>1 DEF CommitRoute, CurrentJob
<1>3. s \in {"routed-utility", "escalated"} \cup ReturnedStates
  BY DEF StateForDecision, ReturnedStates
<1>4. CASE CanMove(j, s)
  <2> DEFINE p == IF gov[g].target = "utility" THEN "spawn" ELSE "report"
             r == [gov[g] EXCEPT !.pc = p, !.message = MessageFor(s)]
  <2>1. gov' = [gov EXCEPT ![g] = r]
    BY <1>4 DEF CommitRoute
  <2>2. p = IF s = "routed-utility" THEN "spawn" ELSE "report"
    BY DEF StateForDecision
  <2>3. \A i \in Jobs : job'[i].state = IF i = j THEN s ELSE job[i].state
    <3> DEFINE e == IF gov[g].target = "utility" THEN gov[g].epoch
                                                 ELSE job[j].routeEpoch
               q == [job[j] EXCEPT !.state = s, !.target = gov[g].target,
                                   !.routeEpoch = e]
    <3>1. job' = [job EXCEPT ![j] = q]
      BY <1>4 DEF CommitRoute
    <3> HIDE DEF e, s
    <3>2. q.state = s
      BY <1>1, <1>2 DEF TypeOK, JobRecord
    <3> HIDE DEF q
    <3> QED
      BY <1>1, <1>2, <3>1, <3>2 DEF TypeOK
  <2> HIDE DEF s, p
  <2>4. /\ r.pc = p /\ r.job = j /\ r.todo = gov[g].todo
        /\ r.message = MessageFor(s)
    BY <1>1 DEF GovRecord
  <2> HIDE DEF r
  <2>5. \A h \in Governesses : gov'[h] = IF h = g THEN r ELSE gov[h]
    BY <1>1, <2>1 DEF TypeOK
  <2>6. ~Settled(j)
    BY <1>1, <1>2, <1>3, <1>4, MoveFromUnsettled
  <2>7. \A i \in Jobs : PastRoute(i) => PastRoute(i)'
    <3>1. CASE PastRoute(j)
      BY <1>1, <1>2, <1>4, <2>3, <3>1, MoveReports
    <3>2. CASE ~PastRoute(j)
      BY <2>3, <3>2 DEF PastRoute
    <3> QED
      BY <3>1, <3>2
  <2>8. \A i \in Jobs : i = j /\ s = "routed-utility" => PastRoute(i)'
    BY <2>3 DEF PastRoute, ActiveStates
  <2>9. WorkIsRouted'
    BY <1>1, <1>2, <2>2, <2>4, <2>5, <2>7, <2>8, RoutedStep
       DEF CommitRoute, Ready, Working
  <2>10. CASE s = "routed-utility"
    <3>1. ~(s \in TERMINAL_STATES \cup ReturnedStates)
      BY <2>10 DEF TERMINAL_STATES, ReturnedStates
    <3>2. \A i \in Jobs : \/ job'[i].state = job[i].state
                          \/ ~Settled(i) /\ ~Settled(i)'
      BY <1>2, <2>3, <2>6, <3>1 DEF Settled
    <3>3. Reports'
      BY <1>1, <2>2, <2>4, <2>5, <2>10, <3>2, QuietStep DEF CommitRoute, Ready
    <3> QED
      BY <2>9, <3>3
  <2>11. CASE s # "routed-utility"
    <3>1. s \in TERMINAL_STATES \cup ReturnedStates
      BY <1>3, <2>11 DEF TERMINAL_STATES
    <3>2. Reports'
      BY <1>1, <1>2, <2>2, <2>3, <2>4, <2>5, <2>6, <2>11, <3>1, GovSettles
         DEF CommitRoute, Ready
    <3> QED
      BY <2>9, <3>2
  <2> QED
    BY <2>10, <2>11
<1>5. CASE ~CanMove(j, s)
  BY <1>5, ResetReports DEF CommitRoute
<1> QED
  BY <1>4, <1>5

LEMMA SpawnReports ==
  ASSUME Ready, NEW g \in Governesses, SpawnWorker(g) \/ SpawnFails(g)
  PROVE  WorkIsRouted' /\ Reports'
<1> DEFINE j == gov[g].job
           c == TakeSlot(g, j)
<1>1. TypeOK /\ CurrentJob /\ gov[g] \in GovRecord
  BY DEF Ready, TypeInv, TypeOK
<1>2. j \in Jobs /\ PastRoute(j)
  BY <1>1 DEF SpawnWorker, SpawnFails, CurrentJob, Ready, WorkIsRouted, Working
<1> HIDE DEF c
<1>3. CASE SpawnWorker(g)
  <2> DEFINE q == Resume(g, j)
             r == [q EXCEPT !.count = c]
  <2>1. gov' = [gov EXCEPT ![g] = r]
    BY <1>3 DEF SpawnWorker, c
  <2>2. /\ q \in GovRecord /\ q.pc \in {"route", "recover"}
        /\ q.todo \subseteq gov[g].todo
    BY <1>1, <1>2, ResumeType, ResumedState
  <2> HIDE DEF q
  <2>3. r.pc \in {"route", "recover"} /\ r.todo \subseteq gov[g].todo
    BY <2>2 DEF GovRecord
  <2> HIDE DEF r
  <2>4. \A h \in Governesses : gov'[h] = IF h = g THEN r ELSE gov[h]
    BY <1>1, <2>1 DEF TypeOK
  <2>5. \A i \in Jobs : \/ worker'[i] = worker[i]
                        \/ i = j /\ worker'[i].pc = "spawned"
    BY <1>1, <1>3 DEF SpawnWorker, TypeOK, Process
  <2>6. WorkIsRouted'
    BY <1>1, <1>2, <1>3, <2>3, <2>4, <2>5, RoutedStep
       DEF SpawnWorker, Ready, PastRoute, Working
  <2>7. Reports'
    BY <1>1, <1>3, <2>3, <2>4, <2>5, QuietStep DEF SpawnWorker, Ready
  <2> QED
    BY <2>6, <2>7
<1>4. CASE SpawnFails(g)
  <2> DEFINE r == [gov[g] EXCEPT !.pc = "fail", !.count = c]
  <2>1. gov' = [gov EXCEPT ![g] = r]
    BY <1>4 DEF SpawnFails, c
  <2>2. r.pc = "fail" /\ r.job = j /\ r.todo = gov[g].todo
    BY <1>1 DEF GovRecord
  <2> HIDE DEF r
  <2>3. \A i \in Jobs : i \in r.todo => PastRoute(i)
    BY <2>2 DEF Ready, WorkIsRouted
  <2> QED
    BY <1>2, <1>4, <2>1, <2>2, <2>3, LocalStep DEF SpawnFails
<1> QED
  BY <1>3, <1>4

-----------------------------------------------------------------------------
(* Steps of a worker, requests and time.                                   *)

\* A worker that changes its pc, and moves its job from one unsettled state
\* to another or not at all.
LEMMA WorkerLocalStep ==
  ASSUME Ready, NEW j \in Jobs,
         \A i \in Jobs \ {j} : worker'[i] = worker[i],
         worker[j].pc # "none",
         worker'[j].pc # "notify",
         \A i \in Jobs :
           \/ job'[i].state = job[i].state
           \/ ~Settled(i) /\ ~Settled(i)' /\ (PastRoute(i) => PastRoute(i)'),
         gov' = gov, sent' = sent
  PROVE  WorkIsRouted' /\ Reports'
<1>1. \A i \in Jobs : PastRoute(i) => PastRoute(i)'
  BY DEF PastRoute
<1>2. WorkIsRouted'
  BY <1>1, RoutedStep DEF Ready, TypeInv
<1>3. Reports'
  BY QuietStep DEF Ready, TypeInv
<1> QED
  BY <1>2, <1>3

\* Advancing the pc of one worker leaves every other worker alone.
LEMMA WorkerPcEffect ==
  ASSUME TypeOK, NEW j \in Jobs, NEW p, worker' = [worker EXCEPT ![j].pc = p]
  PROVE  worker'[j].pc = p /\ \A i \in Jobs \ {j} : worker'[i] = worker[i]
BY DEF TypeOK, WorkerRecord

LEMMA WorkerClaimReports ==
  ASSUME Ready, NEW j \in Jobs, WorkerClaim(j)
  PROVE  WorkIsRouted' /\ Reports'
<1>1. TypeOK
  BY DEF Ready, TypeInv
<1>2. CASE Claimable(j)
  <2> DEFINE q == [job[j] EXCEPT !.state = "claimed", !.claim = worker[j].epoch]
  <2>1. /\ job' = [job EXCEPT ![j] = q]
        /\ worker' = [worker EXCEPT ![j].pc = "claimed"]
    BY <1>2 DEF WorkerClaim
  <2>2. q.state = "claimed" /\ job[j].state = "routed-utility"
    BY <1>1, <1>2 DEF TypeOK, JobRecord, Claimable
  <2> HIDE DEF q
  <2>3. \A i \in Jobs : job'[i].state = IF i = j THEN "claimed" ELSE job[i].state
    BY <1>1, <2>1, <2>2 DEF TypeOK
  <2>4. \A i \in Jobs :
          \/ job'[i].state = job[i].state
          \/ ~Settled(i) /\ ~Settled(i)' /\ (PastRoute(i) => PastRoute(i)')
    BY <2>2, <2>3 DEF Settled, PastRoute, ActiveStates, ReturnedStates,
                      TERMINAL_STATES
  <2>5. worker'[j].pc = "claimed" /\ \A i \in Jobs \ {j} : worker'[i] = worker[i]
    BY <1>1, <2>1, WorkerPcEffect
  <2> QED
    BY <2>4, <2>5, WorkerLocalStep DEF WorkerClaim
<1>3. CASE ~Claimable(j)
  <2>1. worker'[j].pc = "dead" /\ \A i \in Jobs \ {j} : worker'[i] = worker[i]
    BY <1>1, <1>3, WorkerPcEffect DEF WorkerClaim
  <2> QED
    BY <1>3, <2>1, WorkerLocalStep DEF WorkerClaim
<1> QED
  BY <1>2, <1>3

LEMMA WorkerRunReports ==
  ASSUME Ready, NEW j \in Jobs, WorkerRun(j)
  PROVE  WorkIsRouted' /\ Reports'
<1>1. TypeOK /\ PastRoute(j)
  BY DEF Ready, TypeInv, WorkIsRouted, WorkerRun
<1>2. CASE CanMove(j, "running")
  <2>1. \A i \in Jobs : job'[i].state = IF i = j THEN "running" ELSE job[i].state
    BY <1>1, <1>2, MoveEffect DEF WorkerRun
  <2>2. ~Settled(j)
    BY <1>1, <1>2, MoveFromUnsettled
  <2>3. \A i \in Jobs :
          \/ job'[i].state = job[i].state
          \/ ~Settled(i) /\ ~Settled(i)' /\ (PastRoute(i) => PastRoute(i)')
    BY <2>1, <2>2 DEF Settled, PastRoute, ActiveStates, ReturnedStates,
                      TERMINAL_STATES
  <2>4. worker'[j].pc = "running" /\ \A i \in Jobs \ {j} : worker'[i] = worker[i]
    BY <1>1, <1>2, WorkerPcEffect DEF WorkerRun
  <2> QED
    BY <2>3, <2>4, WorkerLocalStep DEF WorkerRun
<1>3. CASE ~CanMove(j, "running")
  <2>1. worker'[j].pc = "dead" /\ \A i \in Jobs \ {j} : worker'[i] = worker[i]
    BY <1>1, <1>3, WorkerPcEffect DEF WorkerRun
  <2> QED
    BY <1>3, <2>1, WorkerLocalStep DEF WorkerRun
<1> QED
  BY <1>2, <1>3

LEMMA WorkerFinishReports ==
  ASSUME Ready, NEW j \in Jobs, WorkerFinish(j)
  PROVE  WorkIsRouted' /\ Reports'
<1>1. TypeOK /\ CurrentJob /\ PastRoute(j)
  BY DEF Ready, TypeInv, WorkIsRouted, WorkerFinish
<1>2. PICK o \in {"completed", "escalated", "failed"} :
        IF CanMove(j, o)
          THEN /\ Move(j, o)
               /\ worker' = [worker EXCEPT ![j] =
                               [worker[j] EXCEPT !.pc = "notify",
                                                 !.message = MessageFor(o)]]
          ELSE /\ worker' = [worker EXCEPT ![j].pc = "dead"]
               /\ UNCHANGED <<job, overdue>>
  BY DEF WorkerFinish
<1>3. CASE CanMove(j, o)
  <2> DEFINE r == [worker[j] EXCEPT !.pc = "notify", !.message = MessageFor(o)]
  <2>1. worker' = [worker EXCEPT ![j] = r] /\ Move(j, o)
    BY <1>2, <1>3
  <2>2. r.message = MessageFor(o)
    BY <1>1 DEF TypeOK, WorkerRecord
  <2> HIDE DEF r
  <2>3. worker'[j] = r /\ \A i \in Jobs \ {j} : worker'[i] = worker[i]
    BY <1>1, <2>1 DEF TypeOK
  <2>4. \A i \in Jobs : job'[i].state = IF i = j THEN o ELSE job[i].state
    BY <1>1, <2>1, MoveEffect
  <2>5. ~Settled(j) /\ o \in TERMINAL_STATES
    BY <1>1, <1>3, MoveFromUnsettled DEF TERMINAL_STATES
  <2>6. Reports'
    BY <1>1, <2>2, <2>3, <2>4, <2>5, WorkerSettles DEF WorkerFinish, Ready
  <2>7. \A i \in Jobs : PastRoute(i) => PastRoute(i)'
    BY <2>4, <2>5 DEF PastRoute
  <2>8. WorkIsRouted'
    BY <1>1, <2>3, <2>7, RoutedStep DEF WorkerFinish, Ready
  <2> QED
    BY <2>6, <2>8
<1>4. CASE ~CanMove(j, o)
  <2>1. worker'[j].pc = "dead" /\ \A i \in Jobs \ {j} : worker'[i] = worker[i]
    BY <1>1, <1>2, <1>4, WorkerPcEffect
  <2> QED
    BY <1>2, <1>4, <2>1, WorkerLocalStep DEF WorkerFinish
<1> QED
  BY <1>3, <1>4

LEMMA WorkerNotifyReports ==
  ASSUME Ready, NEW j \in Jobs, WorkerNotify(j)
  PROVE  WorkIsRouted' /\ Reports'
<1>1. TypeOK /\ CurrentJob
  BY DEF Ready, TypeInv
<1>2. worker'[j].pc = "dead" /\ \A i \in Jobs \ {j} : worker'[i] = worker[i]
  BY <1>1, WorkerPcEffect DEF WorkerNotify
<1>3. Owed(j, worker[j].message)
  BY DEF WorkerNotify, Ready, Reports, Debts
<1>4. \A g \in Governesses : gov'[g].pc = "report" =>
        gov'[g] = gov[g] /\ gov[g].job # j
  BY DEF WorkerNotify, Ready, Reports, OneDebtor
<1>5. Reports'
  BY <1>1, <1>2, <1>3, <1>4, Discharge DEF WorkerNotify, Ready
<1>6. WorkIsRouted'
  BY <1>1, <1>2, RoutedStep DEF WorkerNotify, Ready, PastRoute
<1> QED
  BY <1>5, <1>6

LEMMA OtherStepReports ==
  ASSUME Ready, NEW j \in Jobs,
         RequestRoute(j) \/ JobOverdue(j) \/ WorkerCrash(j)
  PROVE  WorkIsRouted' /\ Reports'
<1>1. TypeOK /\ CurrentJob
  BY DEF Ready, TypeInv
<1>2. CASE RequestRoute(j)
  <2>1. \A i \in Jobs : job'[i].state = IF i = j THEN "pending-route"
                                                 ELSE job[i].state
    BY <1>1, <1>2 DEF RequestRoute, TypeOK, JobRecord
  <2>2. job[j].state = "absent"
    BY <1>2 DEF RequestRoute, Requested
  <2>3. \A i \in Jobs : PastRoute(i) => PastRoute(i)'
    BY <2>1, <2>2 DEF PastRoute, ActiveStates, TERMINAL_STATES
  <2>4. \A i \in Jobs : \/ job'[i].state = job[i].state
                        \/ ~Settled(i) /\ ~Settled(i)'
    BY <2>1, <2>2 DEF Settled, ReturnedStates, TERMINAL_STATES
  <2>5. WorkIsRouted'
    BY <1>1, <1>2, <2>3, RoutedStep DEF RequestRoute, Ready
  <2>6. Reports'
    BY <1>1, <1>2, <2>4, QuietStep DEF RequestRoute, Ready
  <2> QED
    BY <2>5, <2>6
<1>3. CASE JobOverdue(j)
  <2>1. WorkIsRouted'
    BY <1>1, <1>3, RoutedStep DEF JobOverdue, Ready, PastRoute
  <2>2. Reports'
    BY <1>1, <1>3, QuietStep DEF JobOverdue, Ready
  <2> QED
    BY <2>1, <2>2
<1>4. CASE WorkerCrash(j)
  <2>1. worker'[j].pc = "dead" /\ \A i \in Jobs \ {j} : worker'[i] = worker[i]
    BY <1>1, <1>4, WorkerPcEffect DEF WorkerCrash
  <2> QED
    BY <1>4, <2>1, WorkerLocalStep DEF WorkerCrash, Alive
<1> QED
  BY <1>2, <1>3, <1>4

-----------------------------------------------------------------------------
LEMMA ReportsInit == Init => WorkIsRouted /\ Reports
<1> SUFFICES ASSUME Init PROVE WorkIsRouted /\ Reports
  OBVIOUS
<1>1. WorkIsRouted
  BY DEF Init, WorkIsRouted, Process, Down, Working
<1>2. Reports
  BY DEF Init, Reports, Debts, OneDebtor, ReportedOnceAndTruly, Process, Down
<1> QED
  BY <1>1, <1>2

LEMMA ReportsStep == Ready /\ [Next]_vars => WorkIsRouted' /\ Reports'
<1> SUFFICES ASSUME Ready, [Next]_vars PROVE WorkIsRouted' /\ Reports'
  OBVIOUS
<1>1. CASE \E g \in Governesses : GovStep(g) \/ GovCrash(g)
  BY <1>1, IdleStepReports, ScanReports, RecoverLocalReports,
     KillWorkerReports, FailJobReports, GovReportReports, PlanReports,
     QueueDecisionReports, CommitRouteReports, SpawnReports
     DEF GovStep, Recover, Route
<1>2. CASE \E j \in Jobs : \/ RequestRoute(j) \/ JobOverdue(j)
                           \/ WorkerStep(j) \/ WorkerCrash(j)
  BY <1>2, WorkerClaimReports, WorkerRunReports, WorkerFinishReports,
     WorkerNotifyReports, OtherStepReports DEF WorkerStep
<1>3. CASE UNCHANGED vars
  <2>1. WorkIsRouted'
    BY <1>3 DEF vars, Ready, WorkIsRouted, PastRoute
  <2>2. Reports'
    BY <1>3, QuietStep DEF vars, Ready, TypeInv
  <2> QED
    BY <2>1, <2>2
<1> QED
  BY <1>1, <1>2, <1>3 DEF Next

\* Whoever settles a job (its worker, a Governess that fails it, a Governess
\* that hands it back), whatever races and dies on the way, at most one bridge
\* message about it is ever sent, and the message agrees with the state the
\* journal keeps for good.
THEOREM ReportedOnce == Spec => []ReportedOnceAndTruly
<1>1. Init => Ready
  BY InitType, ReportsInit DEF Ready
<1>2. Ready /\ [Next]_vars => Ready'
  BY StepType, ReportsStep DEF Ready
<1>3. Ready => ReportedOnceAndTruly
  BY DEF Ready, Reports
<1> QED
  BY <1>1, <1>2, <1>3, PTL DEF Spec

-----------------------------------------------------------------------------
(* 2. The requester's view                                                 *)

\* The store knows "canceled"; nothing here ever asks for it.
NeverCanceled == \A j \in Jobs : job[j].state # "canceled"

Owning == Ready /\ RunnerOwnsJob /\ NeverCanceled

-----------------------------------------------------------------------------
(* What an operation does to the journal.                                  *)

\* A transition changes the state of one job and no other field.
LEMMA MoveRecord ==
  ASSUME TypeOK, NEW j \in Jobs, NEW s, Move(j, s)
  PROVE  /\ job'[j].state = s
         /\ job'[j].claim = job[j].claim
         /\ job'[j].routeEpoch = job[j].routeEpoch
         /\ job'[j].target = job[j].target
         /\ \A i \in Jobs \ {j} : job'[i] = job[i]
BY DEF Move, TypeOK, JobRecord

\* The route transition settles the job or records whom it was routed by.
LEMMA CommitEffect ==
  ASSUME TypeInv, NEW g \in Governesses, CommitRoute(g),
         CanMove(gov[g].job, StateForDecision(gov[g].target))
  PROVE  /\ gov[g].job \in Jobs
         /\ job'[gov[g].job].state = StateForDecision(gov[g].target)
         /\ job'[gov[g].job].target = gov[g].target
         /\ \A i \in Jobs \ {gov[g].job} : job'[i] = job[i]
         /\ gov[g].target = "utility" =>
              job'[gov[g].job].routeEpoch = gov[g].epoch
         /\ gov[g].target # "utility" =>
              job'[gov[g].job].routeEpoch = job[gov[g].job].routeEpoch
<1> DEFINE j == gov[g].job
           s == StateForDecision(gov[g].target)
           e == IF gov[g].target = "utility" THEN gov[g].epoch
                                             ELSE job[j].routeEpoch
<1>1. j \in Jobs /\ job \in [Jobs -> JobRecord]
  BY DEF CommitRoute, TypeInv, TypeOK, CurrentJob
<1> PICK q : q = [job[j] EXCEPT !.state = s, !.target = gov[g].target,
                                !.routeEpoch = e]
  OBVIOUS
<1>2. job' = [job EXCEPT ![j] = q]
  BY DEF CommitRoute
<1> HIDE DEF e, s
<1>3. q.state = s /\ q.routeEpoch = e /\ q.target = gov[g].target
  BY <1>1 DEF JobRecord
<1>4. job'[j] = q /\ \A i \in Jobs \ {j} : job'[i] = job[i]
  BY <1>1, <1>2
<1> QED
  BY <1>1, <1>3, <1>4 DEF e, s

\* Queueing a job leaves its state, its route and its claim alone.
LEMMA QueueEffect ==
  ASSUME TypeInv, NEW g \in Governesses, QueueDecision(g)
  PROVE  \A i \in Jobs : /\ job'[i].state = job[i].state
                         /\ job'[i].claim = job[i].claim
                         /\ job'[i].routeEpoch = job[i].routeEpoch
                         /\ job'[i].target \in {job[i].target, "utility"}
BY DEF QueueDecision, TypeInv, TypeOK, JobRecord

\* A claim is recorded under the epoch of the worker, which routed the job.
LEMMA ClaimEffect ==
  ASSUME TypeOK, NEW j \in Jobs, WorkerClaim(j), Claimable(j)
  PROVE  /\ job'[j].state = "claimed"
         /\ job'[j].claim = worker[j].epoch
         /\ job'[j].routeEpoch = job[j].routeEpoch
         /\ job'[j].target = job[j].target
         /\ \A i \in Jobs \ {j} : job'[i] = job[i]
         /\ worker'[j].pc = "claimed"
         /\ worker'[j].epoch = worker[j].epoch
         /\ \A i \in Jobs \ {j} : worker'[i] = worker[i]
<1> PICK q : q = [job[j] EXCEPT !.state = "claimed", !.claim = worker[j].epoch]
  OBVIOUS
<1>1. /\ job' = [job EXCEPT ![j] = q]
      /\ worker' = [worker EXCEPT ![j].pc = "claimed"]
  BY DEF WorkerClaim
<1>2. /\ q.state = "claimed" /\ q.claim = worker[j].epoch
      /\ q.routeEpoch = job[j].routeEpoch /\ q.target = job[j].target
  BY DEF TypeOK, JobRecord
<1>3. job'[j] = q /\ \A i \in Jobs \ {j} : job'[i] = job[i]
  BY <1>1 DEF TypeOK
<1>4. /\ worker'[j].pc = "claimed" /\ worker'[j].epoch = worker[j].epoch
      /\ \A i \in Jobs \ {j} : worker'[i] = worker[i]
  BY <1>1 DEF TypeOK, WorkerRecord
<1> QED
  BY <1>2, <1>3, <1>4

\* A request adds one pending job.
LEMMA RequestEffect ==
  ASSUME TypeOK, NEW j \in Jobs, RequestRoute(j)
  PROVE  /\ job[j].state = "absent"
         /\ job'[j].state = "pending-route"
         /\ job'[j].claim = job[j].claim
         /\ job'[j].routeEpoch = job[j].routeEpoch
         /\ \A i \in Jobs \ {j} : job'[i] = job[i]
BY DEF RequestRoute, Requested, TypeOK, JobRecord

-----------------------------------------------------------------------------
(* A worker owns the job it claimed.                                       *)

Claimed == {"claimed", "running"}

\* A step that starts no claim, and lets a claimed job only end.
LEMMA OwnersKept ==
  ASSUME Owning,
         \A j \in Jobs :
           worker'[j].pc \in Claimed =>
             /\ worker'[j] = worker[j]
             /\ \/ job'[j] = job[j]
                \/ job'[j].state \in TERMINAL_STATES
                \/ /\ job'[j].state = job[j].state
                   /\ job'[j].claim = job[j].claim
                   /\ job'[j].routeEpoch = job[j].routeEpoch
  PROVE  RunnerOwnsJob'
BY DEF Owning, RunnerOwnsJob, Claimed

\* The steps of a Governess.
LEMMA GovKeepsOwners ==
  ASSUME Owning, NEW g \in Governesses, GovStep(g) \/ GovCrash(g)
  PROVE  RunnerOwnsJob' /\ NeverCanceled'
<1>1. TypeInv /\ TypeOK /\ CurrentJob
  BY DEF Owning, Ready, TypeInv
<1>2. ASSUME UNCHANGED <<job, worker>>
      PROVE  RunnerOwnsJob' /\ NeverCanceled'
  BY <1>2 DEF Owning, RunnerOwnsJob, NeverCanceled
<1>3. CASE KillWorker(g)
  <2>1. \A j \in Jobs : worker'[j] = worker[j] \/ worker'[j].pc = "dead"
    BY <1>1, <1>3 DEF KillWorker, TypeOK, WorkerRecord
  <2> QED
    BY <1>3, <2>1, OwnersKept DEF KillWorker, Owning, NeverCanceled, Claimed
<1>4. CASE FailJob(g)
  <2> DEFINE j == gov[g].job
  <2>1. j \in Jobs
    BY <1>1, <1>4 DEF FailJob, CurrentJob
  <2>2. CASE CanMove(j, "failed")
    <3>1. job'[j].state = "failed" /\ \A i \in Jobs \ {j} : job'[i] = job[i]
      BY <1>1, <1>4, <2>1, <2>2, MoveRecord DEF FailJob
    <3> QED
      BY <1>4, <3>1, OwnersKept
         DEF FailJob, Owning, NeverCanceled, TERMINAL_STATES
  <2>3. CASE ~CanMove(j, "failed")
    BY <1>2, <1>4, <2>3 DEF FailJob
  <2> QED
    BY <2>2, <2>3
<1>5. CASE QueueDecision(g)
  BY <1>1, <1>5, QueueEffect, OwnersKept DEF QueueDecision, Owning, NeverCanceled
<1>6. CASE CommitRoute(g)
  <2> DEFINE j == gov[g].job
             s == StateForDecision(gov[g].target)
  <2>1. CASE CanMove(j, s)
    <3>1. j \in Jobs /\ job'[j].state = s /\ \A i \in Jobs \ {j} : job'[i] = job[i]
      BY <1>1, <1>6, <2>1, CommitEffect
    <3>2. s \in {"routed-utility", "escalated"} \cup ReturnedStates
      BY DEF StateForDecision, ReturnedStates
    <3>3. worker[j].pc \in Claimed => s \in TERMINAL_STATES
      <4>1. worker[j].pc \in Claimed =>
              job[j].state \in Claimed \cup TERMINAL_STATES
        BY <3>1 DEF Owning, RunnerOwnsJob, Claimed
      <4>2. s \in ALLOWED_TRANSITIONS[job[j].state] /\ job[j].state \in JobStates
        BY <1>1, <2>1, <3>1 DEF CanMove, Requested, TypeOK, JobRecord
      <4> HIDE DEF s
      <4> QED
        BY <3>2, <4>1, <4>2
           DEF ALLOWED_TRANSITIONS, JobStates, ActiveStates, ReturnedStates,
               TERMINAL_STATES, Claimed
    <3>4. RunnerOwnsJob'
      BY <1>6, <3>1, <3>3, OwnersKept DEF CommitRoute
    <3>5. NeverCanceled'
      BY <3>1, <3>2 DEF Owning, NeverCanceled, ReturnedStates
    <3> QED
      BY <3>4, <3>5
  <2>2. CASE ~CanMove(j, s)
    BY <1>2, <1>6, <2>2 DEF CommitRoute
  <2> QED
    BY <2>1, <2>2
<1>7. CASE SpawnWorker(g)
  <2>1. gov[g].job \in Jobs
    BY <1>1, <1>7 DEF SpawnWorker, CurrentJob
  <2>2. \A j \in Jobs : worker'[j] = worker[j] \/ worker'[j].pc = "spawned"
    BY <1>1, <1>7, <2>1 DEF SpawnWorker, TypeOK, Process
  <2> QED
    BY <1>7, <2>2, OwnersKept DEF SpawnWorker, Owning, NeverCanceled, Claimed
<1>8. CASE ~(\/ KillWorker(g) \/ FailJob(g) \/ QueueDecision(g)
             \/ CommitRoute(g) \/ SpawnWorker(g))
  <2>1. UNCHANGED <<job, worker>>
    BY <1>8 DEF GovStep, GovStart, GovActivate, GovRetire, BeginPass, Scan,
                Recover, Route, KeepJob, FenceJob, GovReport, ReadPending,
                CountSlots, Decide, SpawnFails, EndPass, GovCrash
  <2> QED
    BY <1>2, <2>1
<1> QED
  BY <1>3, <1>4, <1>5, <1>6, <1>7, <1>8

\* The steps of a worker, requests and time.
LEMMA WorkerKeepsOwners ==
  ASSUME Owning, NEW j \in Jobs,
         \/ RequestRoute(j) \/ JobOverdue(j)
         \/ WorkerStep(j) \/ WorkerCrash(j)
  PROVE  RunnerOwnsJob' /\ NeverCanceled'
<1>1. TypeOK
  BY DEF Owning, Ready, TypeInv
<1>2. CASE RequestRoute(j)
  <2>1. worker[j].pc \notin Claimed
    BY <1>1, <1>2, RequestEffect
       DEF Owning, RunnerOwnsJob, Claimed, TERMINAL_STATES
  <2> QED
    BY <1>1, <1>2, <2>1, RequestEffect, OwnersKept
       DEF RequestRoute, Owning, NeverCanceled
<1>3. CASE JobOverdue(j)
  BY <1>3 DEF JobOverdue, Owning, RunnerOwnsJob, NeverCanceled
<1>4. ASSUME worker' = [worker EXCEPT ![j].pc = "dead"], job' = job
      PROVE  RunnerOwnsJob' /\ NeverCanceled'
  <2>1. worker'[j].pc = "dead" /\ \A i \in Jobs \ {j} : worker'[i] = worker[i]
    BY <1>1, <1>4, WorkerPcEffect
  <2> QED
    BY <1>4, <2>1, OwnersKept DEF Owning, NeverCanceled, Claimed
<1>5. CASE WorkerClaim(j)
  <2>1. CASE Claimable(j)
    BY <1>1, <1>5, <2>1, ClaimEffect
       DEF Owning, RunnerOwnsJob, NeverCanceled, Claimable
  <2>2. CASE ~Claimable(j)
    BY <1>4, <1>5, <2>2 DEF WorkerClaim
  <2> QED
    BY <2>1, <2>2
<1>6. CASE WorkerRun(j)
  <2>1. CASE CanMove(j, "running")
    <3>1. /\ job'[j].state = "running"
          /\ job'[j].claim = job[j].claim
          /\ job'[j].routeEpoch = job[j].routeEpoch
          /\ \A i \in Jobs \ {j} : job'[i] = job[i]
      BY <1>1, <1>6, <2>1, MoveRecord DEF WorkerRun
    <3>2. /\ worker'[j].pc = "running" /\ worker'[j].epoch = worker[j].epoch
          /\ \A i \in Jobs \ {j} : worker'[i] = worker[i]
      BY <1>1, <1>6, <2>1 DEF WorkerRun, TypeOK, WorkerRecord
    <3>3. job[j].state \notin TERMINAL_STATES
      BY <1>1, <2>1 DEF CanMove, Requested, TypeOK, JobRecord, JobStates,
                        ALLOWED_TRANSITIONS, TERMINAL_STATES, ActiveStates,
                        ReturnedStates
    <3>4. job[j].claim = worker[j].epoch /\ job[j].routeEpoch = worker[j].epoch
      BY <1>6, <3>3 DEF WorkerRun, Owning, RunnerOwnsJob
    <3> QED
      BY <3>1, <3>2, <3>4 DEF Owning, RunnerOwnsJob, NeverCanceled
  <2>2. CASE ~CanMove(j, "running")
    BY <1>4, <1>6, <2>2 DEF WorkerRun
  <2> QED
    BY <2>1, <2>2
<1>7. CASE WorkerFinish(j)
  <2>1. PICK o \in {"completed", "escalated", "failed"} :
          IF CanMove(j, o)
            THEN /\ Move(j, o)
                 /\ worker' = [worker EXCEPT ![j] =
                                 [worker[j] EXCEPT !.pc = "notify",
                                                   !.message = MessageFor(o)]]
            ELSE /\ worker' = [worker EXCEPT ![j].pc = "dead"]
                 /\ UNCHANGED <<job, overdue>>
    BY <1>7 DEF WorkerFinish
  <2>2. CASE CanMove(j, o)
    <3>1. PICK r : r = [worker[j] EXCEPT !.pc = "notify",
                                         !.message = MessageFor(o)]
      OBVIOUS
    <3>2. r.pc = "notify"
      BY <1>1, <3>1 DEF TypeOK, WorkerRecord
    <3>3. worker'[j] = r /\ \A i \in Jobs \ {j} : worker'[i] = worker[i]
      BY <1>1, <2>1, <2>2, <3>1 DEF TypeOK
    <3>4. job'[j].state = o /\ \A i \in Jobs \ {j} : job'[i] = job[i]
      BY <1>1, <2>1, <2>2, MoveRecord
    <3> QED
      BY <3>2, <3>3, <3>4, OwnersKept DEF Owning, NeverCanceled, Claimed
  <2>3. CASE ~CanMove(j, o)
    BY <1>4, <2>1, <2>3
  <2> QED
    BY <2>2, <2>3
<1>8. CASE WorkerNotify(j) \/ WorkerCrash(j)
  BY <1>4, <1>8 DEF WorkerNotify, WorkerCrash
<1> QED
  BY <1>2, <1>3, <1>5, <1>6, <1>7, <1>8 DEF WorkerStep

\* Without requests there is no owner.
LEMMA OwnersInit == Init => RunnerOwnsJob /\ NeverCanceled
BY DEF Init, RunnerOwnsJob, NeverCanceled, Process

\* Owning is inductive.
LEMMA OwnersStep == Owning /\ [Next]_vars => Owning'
<1> SUFFICES ASSUME Owning, [Next]_vars PROVE Owning'
  OBVIOUS
<1>1. Ready'
  BY StepType, ReportsStep DEF Owning, Ready
<1>2. CASE UNCHANGED vars
  BY <1>1, <1>2 DEF vars, Owning, RunnerOwnsJob, NeverCanceled
<1>3. CASE Next
  BY <1>1, <1>3, GovKeepsOwners, WorkerKeepsOwners DEF Next, Owning
<1> QED
  BY <1>2, <1>3

\* Owning holds in every reachable state.
LEMMA SpecOwning == Spec => []Owning
<1>1. Init => Owning
  BY InitType, ReportsInit, OwnersInit DEF Owning, Ready
<1> QED
  BY <1>1, OwnersStep, PTL DEF Spec

\* A worker process that has claimed its job is its owner in the journal,
\* under the epoch it was spawned for, until the job has ended: no pass, no
\* epoch and no other process takes the job over (claimUtilityJob).
THEOREM RunnerOwns == Spec => []RunnerOwnsJob
<1>1. Owning => RunnerOwnsJob
  BY DEF Owning
<1> QED
  BY <1>1, SpecOwning, PTL

-----------------------------------------------------------------------------
(* Every step is a step of the promise, or a stutter.                      *)

\* The abstract state is the state of each job in the journal.
LEMMA AbstractStep ==
  ASSUME TypeOK, NEW j \in Jobs, NEW s,
         \A i \in Jobs : job'[i].state = IF i = j THEN s ELSE job[i].state,
         sent' = sent
  PROVE  Lifecycle!Step(j, job[j].state, s)
BY DEF Lifecycle!Step

\* A job no event is about stutters.
LEMMA AbstractStutter ==
  ASSUME \A i \in Jobs : job'[i].state = job[i].state, sent' = sent
  PROVE  UNCHANGED Lifecycle!lifecycleVars
<1>1. [i \in Jobs |-> job'[i].state] = [i \in Jobs |-> job[i].state]
  OBVIOUS
<1> QED
  BY <1>1 DEF Lifecycle!lifecycleVars

\* A message that is owed is what JobLifecycle tells the requester.
LEMMA AbstractTell ==
  ASSUME Owning, NEW j \in Jobs, NEW m, Owed(j, m), Dispatch(j, m), job' = job
  PROVE  Lifecycle!Tell(j)
<1>1. job[j].state \in Lifecycle!Ended \cup Lifecycle!Returned
  BY DEF Owning, NeverCanceled, Owed, Settled, TERMINAL_STATES, ReturnedStates,
         Lifecycle!Ended, Lifecycle!Returned
<1>2. m = Lifecycle!ReportOf(job[j].state)
  BY DEF Owed, MessageFor, Lifecycle!ReportOf
<1>3. sent[j] = <<>> /\ sent' = [sent EXCEPT ![j] = <<m>>]
  BY DEF Owed, Dispatch, Owning, Ready, TypeInv, TypeOK
<1> QED
  BY <1>1, <1>2, <1>3 DEF Lifecycle!Tell

\* An open job that is failed or escalated has ended for the requester.
LEMMA AbstractEnd ==
  ASSUME TypeOK, NEW j \in Jobs, NEW s \in {"failed", "escalated"},
         CanMove(j, s), s = "failed" => PastRoute(j),
         \A i \in Jobs : job'[i].state = IF i = j THEN s ELSE job[i].state,
         sent' = sent
  PROVE  Lifecycle!End(j)
<1>1. job[j].state \in JobStates /\ s \in ALLOWED_TRANSITIONS[job[j].state]
  BY DEF CanMove, Requested, TypeOK, JobRecord
<1>2. job[j].state \in Lifecycle!Open
  BY <1>1 DEF PastRoute, ALLOWED_TRANSITIONS, JobStates, ActiveStates,
              ReturnedStates, TERMINAL_STATES, Lifecycle!Open
<1>3. s \in Lifecycle!Ended \ {"completed"}
  BY DEF Lifecycle!Ended
<1> QED
  BY <1>2, <1>3, AbstractStep DEF Lifecycle!End

\* The decision of a Governess offers the job, hands it back or ends it.
LEMMA AbstractRoute ==
  ASSUME Owning, NEW g \in Governesses, CommitRoute(g)
  PROVE  Lifecycle!Next \/ UNCHANGED Lifecycle!lifecycleVars
<1> PICK j, s : j = gov[g].job /\ s = StateForDecision(gov[g].target)
  OBVIOUS
<1>1. TypeInv /\ TypeOK
  BY DEF Owning, Ready, TypeInv
<1>2. CASE ~CanMove(j, s)
  BY <1>2, AbstractStutter DEF CommitRoute
<1>3. CASE CanMove(j, s)
  <2>1. /\ j \in Jobs
        /\ \A i \in Jobs : job'[i].state = IF i = j THEN s ELSE job[i].state
    BY <1>1, <1>3, CommitEffect
  <2>2. s \in {"routed-utility", "escalated"} \cup ReturnedStates
    BY DEF StateForDecision, ReturnedStates
  <2>3. sent' = sent
    BY DEF CommitRoute
  <2>4. Lifecycle!Step(j, job[j].state, s)
    BY <1>1, <2>1, <2>3, AbstractStep
  <2>5. job[j].state \in JobStates /\ s \in ALLOWED_TRANSITIONS[job[j].state]
    BY <1>1, <1>3, <2>1 DEF CanMove, Requested, TypeOK, JobRecord
  <2>6. s # "escalated" => job[j].state = "pending-route"
    BY <2>2, <2>5 DEF ALLOWED_TRANSITIONS, JobStates, ActiveStates,
                      ReturnedStates, TERMINAL_STATES
  <2>7. CASE s = "routed-utility"
    BY <2>1, <2>4, <2>6, <2>7 DEF Lifecycle!Offer, Lifecycle!Next
  <2>8. CASE s \in ReturnedStates
    BY <2>1, <2>4, <2>6, <2>8
       DEF Lifecycle!Return, Lifecycle!Returned, ReturnedStates, Lifecycle!Next
  <2>9. CASE s = "escalated"
    BY <1>1, <1>3, <2>1, <2>3, <2>9, AbstractEnd DEF Lifecycle!Next
  <2> QED
    BY <2>2, <2>7, <2>8, <2>9
<1> QED
  BY <1>2, <1>3

\* The steps of a Governess.
LEMMA AbstractGovStep ==
  ASSUME Owning, NEW g \in Governesses, GovStep(g) \/ GovCrash(g)
  PROVE  Lifecycle!Next \/ UNCHANGED Lifecycle!lifecycleVars
<1> PICK j : j = gov[g].job
  OBVIOUS
<1>1. TypeInv /\ TypeOK /\ CurrentJob
  BY DEF Owning, Ready, TypeInv
<1>2. CASE FailJob(g)
  <2>1. j \in Jobs /\ PastRoute(j)
    BY <1>1, <1>2 DEF FailJob, CurrentJob, Owning, Ready, WorkIsRouted, Working
  <2>2. CASE CanMove(j, "failed")
    <3>1. \A i \in Jobs : job'[i].state = IF i = j THEN "failed" ELSE job[i].state
      BY <1>1, <1>2, <2>1, <2>2, MoveEffect DEF FailJob
    <3> QED
      BY <1>1, <1>2, <2>1, <2>2, <3>1, AbstractEnd DEF FailJob, Lifecycle!Next
  <2>3. CASE ~CanMove(j, "failed")
    BY <1>2, <2>3, AbstractStutter DEF FailJob
  <2> QED
    BY <2>2, <2>3
<1>3. CASE GovReport(g)
  <2>1. j \in Jobs /\ Owed(j, gov[g].message)
    BY <1>1, <1>3 DEF GovReport, CurrentJob, Owning, Ready, Reports, Debts
  <2> QED
    BY <1>3, <2>1, AbstractTell DEF GovReport, Lifecycle!Next
<1>4. CASE QueueDecision(g)
  BY <1>1, <1>4, QueueEffect, AbstractStutter DEF QueueDecision
<1>5. CASE CommitRoute(g)
  BY <1>5, AbstractRoute
<1>6. CASE ~(\/ FailJob(g) \/ GovReport(g) \/ QueueDecision(g) \/ CommitRoute(g))
  <2>1. UNCHANGED <<job, sent>>
    BY <1>6 DEF GovStep, GovStart, GovActivate, GovRetire, BeginPass, Scan,
                Recover, Route, KeepJob, FenceJob, KillWorker, ReadPending,
                CountSlots, Decide, SpawnWorker, SpawnFails, EndPass, GovCrash
  <2> QED
    BY <2>1, AbstractStutter
<1> QED
  BY <1>2, <1>3, <1>4, <1>5, <1>6

\* The steps of a worker, requests and time.
LEMMA AbstractWorkerStep ==
  ASSUME Owning, NEW j \in Jobs,
         \/ RequestRoute(j) \/ JobOverdue(j)
         \/ WorkerStep(j) \/ WorkerCrash(j)
  PROVE  Lifecycle!Next \/ UNCHANGED Lifecycle!lifecycleVars
<1>1. TypeOK
  BY DEF Owning, Ready, TypeInv
<1>2. CASE RequestRoute(j)
  <2>1. \A i \in Jobs : job'[i].state = IF i = j THEN "pending-route"
                                                 ELSE job[i].state
    BY <1>1, <1>2, RequestEffect
  <2>2. Lifecycle!Step(j, job[j].state, "pending-route")
    BY <1>1, <1>2, <2>1, AbstractStep DEF RequestRoute
  <2> QED
    BY <1>1, <1>2, <2>2, RequestEffect DEF Lifecycle!Submit, Lifecycle!Next
<1>3. CASE WorkerClaim(j)
  <2>1. CASE Claimable(j)
    <3>1. \A i \in Jobs : job'[i].state = IF i = j THEN "claimed"
                                                   ELSE job[i].state
      BY <1>1, <1>3, <2>1, ClaimEffect
    <3>2. Lifecycle!Step(j, job[j].state, "claimed")
      BY <1>1, <1>3, <3>1, AbstractStep DEF WorkerClaim
    <3>3. \A i \in Jobs \ {j} : job[i].state \in {"claimed", "running"} =>
                                  Scope[i] \cap Scope[j] = {}
      BY <2>1 DEF Claimable, HasActiveWriteConflict
    <3> QED
      BY <2>1, <3>2, <3>3 DEF Claimable, Lifecycle!Take, Lifecycle!Next
  <2>2. CASE ~Claimable(j)
    BY <1>3, <2>2, AbstractStutter DEF WorkerClaim
  <2> QED
    BY <2>1, <2>2
<1>4. CASE WorkerRun(j)
  <2>1. CASE CanMove(j, "running")
    <3>1. \A i \in Jobs : job'[i].state = IF i = j THEN "running"
                                                   ELSE job[i].state
      BY <1>1, <1>4, <2>1, MoveEffect DEF WorkerRun
    <3>2. Lifecycle!Step(j, job[j].state, "running")
      BY <1>1, <1>4, <3>1, AbstractStep DEF WorkerRun
    <3>3. job[j].state \in JobStates /\ "running" \in ALLOWED_TRANSITIONS[job[j].state]
      BY <1>1, <2>1 DEF CanMove, Requested, TypeOK, JobRecord
    <3>4. job[j].state = "claimed"
      BY <3>3 DEF ALLOWED_TRANSITIONS, JobStates, ActiveStates, ReturnedStates,
                  TERMINAL_STATES
    <3> QED
      BY <3>2, <3>4 DEF Lifecycle!Begin, Lifecycle!Next
  <2>2. CASE ~CanMove(j, "running")
    BY <1>4, <2>2, AbstractStutter DEF WorkerRun
  <2> QED
    BY <2>1, <2>2
<1>5. CASE WorkerFinish(j)
  <2>1. PICK o \in {"completed", "escalated", "failed"} :
          IF CanMove(j, o) THEN Move(j, o) ELSE UNCHANGED <<job, overdue>>
    BY <1>5 DEF WorkerFinish
  <2>2. sent' = sent
    BY <1>5 DEF WorkerFinish
  <2>3. CASE CanMove(j, o)
    <3>1. \A i \in Jobs : job'[i].state = IF i = j THEN o ELSE job[i].state
      BY <1>1, <2>1, <2>3, MoveEffect
    <3>2. job[j].state \in JobStates /\ o \in ALLOWED_TRANSITIONS[job[j].state]
      BY <1>1, <2>3 DEF CanMove, Requested, TypeOK, JobRecord
    <3>3. job[j].state = "running"
      <4>1. job[j].state = "running" \/ job[j].state \in TERMINAL_STATES
        BY <1>5 DEF WorkerFinish, Owning, RunnerOwnsJob
      <4> QED
        BY <3>2, <4>1 DEF ALLOWED_TRANSITIONS, JobStates, ActiveStates,
                          ReturnedStates, TERMINAL_STATES
    <3>4. Lifecycle!Step(j, "running", o)
      BY <1>1, <2>2, <3>1, <3>3, AbstractStep
    <3> QED
      BY <3>4 DEF Lifecycle!End, Lifecycle!Open, Lifecycle!Ended, Lifecycle!Next
  <2>4. CASE ~CanMove(j, o)
    BY <2>1, <2>2, <2>4, AbstractStutter
  <2> QED
    BY <2>3, <2>4
<1>6. CASE WorkerNotify(j)
  BY <1>6, AbstractTell
     DEF WorkerNotify, Owning, Ready, Reports, Debts, Lifecycle!Next
<1>7. CASE JobOverdue(j) \/ WorkerCrash(j)
  BY <1>7, AbstractStutter DEF JobOverdue, WorkerCrash
<1> QED
  BY <1>2, <1>3, <1>4, <1>5, <1>6, <1>7 DEF WorkerStep

\* The pipeline implements JobLifecycle.  Whatever its processes do, crash or
\* race, the requester sees a job that is offered once, taken by one worker
\* with no overlapping writer, ended once, completed only by a running worker,
\* and told about once with the message its end calls for.
THEOREM ImplementsLifecycle == Spec => LifecycleSpec
<1>1. Init => Lifecycle!Init
  <2> SUFFICES ASSUME Init PROVE Lifecycle!Init
    OBVIOUS
  <2> QED
    BY DEF Init, Lifecycle!Init
<1>2. Owning /\ [Next]_vars => [Lifecycle!Next]_(Lifecycle!lifecycleVars)
  <2> SUFFICES ASSUME Owning, [Next]_vars
               PROVE  Lifecycle!Next \/ UNCHANGED Lifecycle!lifecycleVars
    BY DEF Lifecycle!lifecycleVars
  <2>1. CASE UNCHANGED vars
    BY <2>1, AbstractStutter DEF vars
  <2>2. CASE Next
    BY <2>2, AbstractGovStep, AbstractWorkerStep DEF Next
  <2> QED
    BY <2>1, <2>2
<1> QED
  BY <1>1, <1>2, SpecOwning, PTL DEF Spec, LifecycleSpec, Lifecycle!Spec

-----------------------------------------------------------------------------
(* 3. Routing                                                              *)

Others(g) == \A h \in Governesses \ {g} : gov'[h] = gov[h]

\* A Governess moves on to the next job of the pass.
MovesOn(g, j) ==
  /\ gov'[g].pc = IF j \in gov[g].pend THEN "route" ELSE "recover"
  /\ gov'[g].epoch = gov[g].epoch
  /\ gov'[g].pend = gov[g].pend \ {j}

\* A Governess advances with its batch as it was.
Advances(g, to) ==
  /\ gov'[g].pc = to
  /\ gov'[g].epoch = gov[g].epoch
  /\ gov'[g].pend = gov[g].pend
  /\ gov'[g].count = gov[g].count

SameJob(g) == gov'[g].job = gov[g].job

-----------------------------------------------------------------------------
(* What each step does to the local state of a Governess.                  *)

\* A step that replaces the record of one Governess.
LEMMA GovReplaced ==
  ASSUME TypeOK, NEW g \in Governesses, NEW r, gov' = [gov EXCEPT ![g] = r]
  PROVE  gov'[g] = r /\ Others(g)
BY DEF TypeOK, Others

\* Where a Governess goes on after a job, and that it keeps the rest.
LEMMA ResumeFields ==
  ASSUME TypeOK, NEW g \in Governesses, NEW j
  PROVE  /\ Resume(g, j).pc = IF j \in gov[g].pend THEN "route" ELSE "recover"
         /\ Resume(g, j).epoch = gov[g].epoch
         /\ Resume(g, j).pend = gov[g].pend \ {j}
         /\ Resume(g, j).count = gov[g].count
BY DEF Resume, TypeOK, GovRecord

\* A Governess that has done with a job moves on to the next one.
LEMMA Resumed ==
  ASSUME TypeOK, NEW g \in Governesses, NEW j,
         gov' = [gov EXCEPT ![g] = Resume(g, j)]
  PROVE  Others(g) /\ MovesOn(g, j) /\ gov'[g].count = gov[g].count
<1> PICK r : r = Resume(g, j)
  OBVIOUS
<1>1. gov'[g] = r /\ Others(g)
  BY GovReplaced
<1> QED
  BY <1>1, ResumeFields DEF MovesOn

\* A Governess that begins anew: a start, a pass, an end or a crash.
LEMMA Restarted ==
  ASSUME TypeOK, NEW g \in Governesses, NEW e, NEW p,
         gov' = [gov EXCEPT ![g] = At(e, p)]
  PROVE  /\ Others(g) /\ gov'[g].pc = p /\ gov'[g].pend = {}
         /\ gov'[g].epoch = e
<1> PICK r : r = At(e, p)
  OBVIOUS
<1>1. gov'[g] = r /\ Others(g)
  BY GovReplaced
<1>2. r.pc = p /\ r.pend = {} /\ r.epoch = e
  BY DEF At, Down
<1> QED
  BY <1>1, <1>2

\* A Governess leaves, starts, or abandons its pass.
LEMMA LeaveEffect ==
  ASSUME TypeInv, NEW g \in Governesses
  PROVE  /\ GovRetire(g) \/ GovCrash(g) =>
              Others(g) /\ gov'[g].pc = "down" /\ gov'[g].pend = {}
         /\ EndPass(g) =>
              /\ Others(g) /\ gov'[g].pc = "idle" /\ gov'[g].pend = {}
              /\ gov'[g].epoch = gov[g].epoch
         /\ GovStart(g) =>
              /\ Others(g) /\ gov'[g].pc = "starting" /\ gov'[g].pend = {}
              /\ gov'[g].epoch = nextEpoch
         /\ GovActivate(g) =>
              /\ Others(g)
              /\ \/ gov'[g].pc = "down" /\ gov'[g].pend = {} /\ epochFile' = epochFile
                 \/ Advances(g, "idle") /\ epochFile' = gov[g].epoch
                    /\ ~(epochFile > gov[g].epoch)
         /\ BeginPass(g) => Others(g) /\ Advances(g, "scan")
<1>1. TypeOK /\ gov[g] \in GovRecord
  BY DEF TypeInv, TypeOK
<1>2. \A e, p : /\ Down(e).pc = "down" /\ Down(e).pend = {}
                /\ At(e, p).pc = p /\ At(e, p).pend = {} /\ At(e, p).epoch = e
  BY DEF Down, At
<1>3. GovRetire(g) \/ GovCrash(g) =>
        Others(g) /\ gov'[g].pc = "down" /\ gov'[g].pend = {}
  BY <1>1, <1>2, GovReplaced DEF GovRetire, GovCrash
<1>4. EndPass(g) => /\ Others(g) /\ gov'[g].pc = "idle" /\ gov'[g].pend = {}
                    /\ gov'[g].epoch = gov[g].epoch
  BY <1>1, Restarted DEF EndPass
<1>5. GovStart(g) => /\ Others(g) /\ gov'[g].pc = "starting"
                     /\ gov'[g].pend = {} /\ gov'[g].epoch = nextEpoch
  BY <1>1, Restarted, ZenonT(60) DEF GovStart
<1>6. \A p : gov' = [gov EXCEPT ![g].pc = p] => Others(g) /\ Advances(g, p)
  BY <1>1 DEF TypeOK, GovRecord, Others, Advances
<1>7. GovActivate(g) =>
        /\ Others(g)
        /\ \/ gov'[g].pc = "down" /\ gov'[g].pend = {} /\ epochFile' = epochFile
           \/ Advances(g, "idle") /\ epochFile' = gov[g].epoch
              /\ ~(epochFile > gov[g].epoch)
  BY <1>1, <1>2, <1>6, GovReplaced DEF GovActivate
<1>8. BeginPass(g) => Others(g) /\ Advances(g, "scan")
  BY <1>6 DEF BeginPass
<1> QED
  BY <1>3, <1>4, <1>5, <1>7, <1>8

\* Recovery looks at one job after the other.
LEMMA RecoverEffect ==
  ASSUME TypeInv, NEW g \in Governesses
  PROVE  /\ Scan(g) => Others(g) /\ Advances(g, "recover")
         /\ \A j \in Jobs : KeepJob(g, j) =>
              Others(g) /\ MovesOn(g, j) /\ gov'[g].count = gov[g].count
         /\ \A j \in Jobs : FenceJob(g, j) =>
              /\ Others(g)
              /\ Advances(g, "kill") \/ Advances(g, "fail")
              /\ gov'[g].job = j
         /\ KillWorker(g) => Others(g) /\ Advances(g, "fail") /\ SameJob(g)
         /\ FailJob(g) =>
              /\ Others(g) /\ gov'[g].count = gov[g].count
              /\ \/ Advances(g, "report") /\ SameJob(g)
                 \/ MovesOn(g, gov[g].job)
         /\ GovReport(g) =>
              Others(g) /\ MovesOn(g, gov[g].job) /\ gov'[g].count = gov[g].count
<1>1. TypeOK /\ gov[g] \in GovRecord
  BY DEF TypeInv, TypeOK
<1>2. \A p : gov' = [gov EXCEPT ![g].pc = p] =>
        Others(g) /\ Advances(g, p) /\ SameJob(g)
  BY <1>1 DEF TypeOK, GovRecord, Others, Advances, SameJob
<1>3. \A j : gov' = [gov EXCEPT ![g] = Resume(g, j)] =>
        Others(g) /\ MovesOn(g, j) /\ gov'[g].count = gov[g].count
  BY <1>1, Resumed
<1>4. Scan(g) => Others(g) /\ Advances(g, "recover")
  <2> SUFFICES ASSUME Scan(g) PROVE Others(g) /\ Advances(g, "recover")
    OBVIOUS
  <2>1. PICK a, b, c, d :
          gov' = [gov EXCEPT ![g] =
                    [gov[g] EXCEPT !.pc = "recover", !.todo = a, !.stale = b,
                                   !.late = c, !.known = d]]
    BY DEF Scan
  <2> PICK r : r = [gov[g] EXCEPT !.pc = "recover", !.todo = a, !.stale = b,
                                  !.late = c, !.known = d]
    OBVIOUS
  <2>2. /\ r.pc = "recover" /\ r.epoch = gov[g].epoch
        /\ r.pend = gov[g].pend /\ r.count = gov[g].count
    BY <1>1 DEF GovRecord
  <2> QED
    BY <1>1, <2>1, <2>2, GovReplaced DEF Advances
<1>5. \A j \in Jobs : KeepJob(g, j) =>
        Others(g) /\ MovesOn(g, j) /\ gov'[g].count = gov[g].count
  BY <1>3 DEF KeepJob
<1>6. \A j \in Jobs : FenceJob(g, j) =>
        /\ Others(g) /\ gov'[g].job = j
        /\ Advances(g, "kill") \/ Advances(g, "fail")
  <2> SUFFICES ASSUME NEW j \in Jobs, FenceJob(g, j)
               PROVE  /\ Others(g) /\ gov'[g].job = j
                      /\ Advances(g, "kill") \/ Advances(g, "fail")
    OBVIOUS
  <2> PICK p \in {"kill", "fail"} :
        gov' = [gov EXCEPT ![g] = [gov[g] EXCEPT !.job = j, !.pc = p]]
    BY DEF FenceJob
  <2> PICK r : r = [gov[g] EXCEPT !.job = j, !.pc = p]
    OBVIOUS
  <2>1. /\ r.job = j /\ r.pc = p /\ r.epoch = gov[g].epoch
        /\ r.pend = gov[g].pend /\ r.count = gov[g].count
    BY <1>1 DEF GovRecord
  <2> QED
    BY <1>1, <2>1, GovReplaced DEF Advances
<1>7. KillWorker(g) => Others(g) /\ Advances(g, "fail") /\ SameJob(g)
  BY <1>2 DEF KillWorker
<1>8. FailJob(g) =>
        /\ Others(g) /\ gov'[g].count = gov[g].count
        /\ \/ Advances(g, "report") /\ SameJob(g)
           \/ MovesOn(g, gov[g].job)
  <2>1. \A r : r = [gov[g] EXCEPT !.pc = "report", !.message = "escalation"]
                 => /\ r.pc = "report" /\ r.epoch = gov[g].epoch
                    /\ r.pend = gov[g].pend /\ r.count = gov[g].count
                    /\ r.job = gov[g].job
    BY <1>1 DEF GovRecord
  <2> QED
    BY <1>1, <1>3, <2>1, GovReplaced DEF FailJob, Advances, SameJob
<1>9. GovReport(g) =>
        Others(g) /\ MovesOn(g, gov[g].job) /\ gov'[g].count = gov[g].count
  BY <1>3 DEF GovReport
<1> QED
  BY <1>4, <1>5, <1>6, <1>7, <1>8, <1>9

\* Routing reads, counts, decides and carries out.
LEMMA RouteEffect ==
  ASSUME TypeInv, NEW g \in Governesses
  PROVE  /\ ReadPending(g) =>
              /\ Others(g) /\ gov'[g].pc = "count"
              /\ gov'[g].epoch = gov[g].epoch
              /\ gov'[g].pend = {j \in Jobs : job[j].state = "pending-route"}
         /\ CountSlots(g) =>
              /\ Others(g) /\ gov'[g].pc = "route"
              /\ gov'[g].epoch = gov[g].epoch
              /\ gov'[g].pend = gov[g].pend
              /\ \A t \in Tiers : gov'[g].count[t] =
                   Cardinality({j \in Jobs : /\ job[j].state \in ActiveStates
                                             /\ job[j].target = "utility"
                                             /\ Tier[j] = t})
         /\ \A j \in Jobs : Decide(g, j) =>
              /\ Others(g) /\ Advances(g, "commit") /\ gov'[g].job = j
              /\ gov'[g].target = "utility" => ~RoutedWriteConflict(j)
         /\ QueueDecision(g) =>
              /\ Others(g) /\ MovesOn(g, gov[g].job)
              /\ gov'[g].count = gov[g].count
         /\ CommitRoute(g) =>
              /\ Others(g)
              /\ \/ /\ ~CanMove(gov[g].job, StateForDecision(gov[g].target))
                    /\ gov'[g].pc = "idle" /\ gov'[g].pend = {}
                    /\ gov'[g].epoch = gov[g].epoch
                 \/ /\ CanMove(gov[g].job, StateForDecision(gov[g].target))
                    /\ SameJob(g)
                    /\ IF gov[g].target = "utility" THEN Advances(g, "spawn")
                                                    ELSE Advances(g, "report")
         /\ SpawnWorker(g) =>
              /\ Others(g) /\ MovesOn(g, gov[g].job)
              /\ gov'[g].count = TakeSlot(g, gov[g].job)
         /\ SpawnFails(g) =>
              /\ Others(g) /\ gov'[g].pc = "fail" /\ SameJob(g)
              /\ gov'[g].epoch = gov[g].epoch
              /\ gov'[g].pend = gov[g].pend
              /\ gov'[g].count = TakeSlot(g, gov[g].job)
<1>1. TypeOK /\ gov[g] \in GovRecord
  BY DEF TypeInv, TypeOK
<1>2. ReadPending(g) =>
        /\ Others(g) /\ gov'[g].pc = "count" /\ gov'[g].epoch = gov[g].epoch
        /\ gov'[g].pend = {j \in Jobs : job[j].state = "pending-route"}
  <2> PICK P : P = {j \in Jobs : job[j].state = "pending-route"}
    OBVIOUS
  <2> PICK r : r = [gov[g] EXCEPT !.pc = "count", !.pend = P]
    OBVIOUS
  <2>1. r.pc = "count" /\ r.epoch = gov[g].epoch /\ r.pend = P
    BY <1>1 DEF GovRecord
  <2> QED
    BY <1>1, <2>1, GovReplaced DEF ReadPending
<1>3. CountSlots(g) =>
        /\ Others(g) /\ gov'[g].pc = "route" /\ gov'[g].epoch = gov[g].epoch
        /\ gov'[g].pend = gov[g].pend
        /\ \A t \in Tiers : gov'[g].count[t] =
             Cardinality({j \in Jobs : /\ job[j].state \in ActiveStates
                                       /\ job[j].target = "utility"
                                       /\ Tier[j] = t})
  <2> DEFINE occupied(t) == {j \in Jobs : /\ job[j].state \in ActiveStates
                                          /\ job[j].target = "utility"
                                          /\ Tier[j] = t}
  <2> PICK C : C = [t \in Tiers |-> Cardinality(occupied(t))]
    OBVIOUS
  <2> PICK r : r = [gov[g] EXCEPT !.pc = "route", !.count = C]
    OBVIOUS
  <2>1. /\ r.pc = "route" /\ r.epoch = gov[g].epoch /\ r.pend = gov[g].pend
        /\ r.count = C
    BY <1>1 DEF GovRecord
  <2>2. CountSlots(g) => gov' = [gov EXCEPT ![g] = r]
    BY DEF CountSlots
  <2>3. \A t \in Tiers : C[t] = Cardinality(occupied(t))
    OBVIOUS
  <2>4. CountSlots(g) =>
          /\ Others(g) /\ gov'[g].pc = "route" /\ gov'[g].epoch = gov[g].epoch
          /\ gov'[g].pend = gov[g].pend /\ gov'[g].count = C
    BY <1>1, <2>1, <2>2, GovReplaced
  <2> QED
    BY <2>3, <2>4
<1>4. \A j \in Jobs : Decide(g, j) =>
        /\ Others(g) /\ Advances(g, "commit") /\ gov'[g].job = j
        /\ gov'[g].target = "utility" => ~RoutedWriteConflict(j)
  <2> SUFFICES ASSUME NEW j \in Jobs, Decide(g, j)
               PROVE  /\ Others(g) /\ Advances(g, "commit") /\ gov'[g].job = j
                      /\ gov'[g].target = "utility" => ~RoutedWriteConflict(j)
    OBVIOUS
  <2>1. PICK t \in Decisions(j) :
          gov' = [gov EXCEPT ![g] = [gov[g] EXCEPT !.pc = "commit", !.job = j,
                                                   !.target = t]]
    BY DEF Decide
  <2> PICK r : r = [gov[g] EXCEPT !.pc = "commit", !.job = j, !.target = t]
    OBVIOUS
  <2>2. /\ r.pc = "commit" /\ r.job = j /\ r.target = t
        /\ r.epoch = gov[g].epoch
        /\ r.pend = gov[g].pend /\ r.count = gov[g].count
    BY <1>1 DEF GovRecord
  <2>3. t = "utility" => ~RoutedWriteConflict(j)
    BY <2>1 DEF Decisions
  <2> QED
    BY <1>1, <2>1, <2>2, <2>3, GovReplaced DEF Advances
<1>5. \A j : gov' = [gov EXCEPT ![g] = Resume(g, j)] =>
        Others(g) /\ MovesOn(g, j) /\ gov'[g].count = gov[g].count
  BY <1>1, Resumed
<1>6. QueueDecision(g) => /\ Others(g) /\ MovesOn(g, gov[g].job)
                          /\ gov'[g].count = gov[g].count
  BY <1>5 DEF QueueDecision
<1>7. CommitRoute(g) =>
        /\ Others(g)
        /\ \/ /\ ~CanMove(gov[g].job, StateForDecision(gov[g].target))
              /\ gov'[g].pc = "idle" /\ gov'[g].pend = {}
              /\ gov'[g].epoch = gov[g].epoch
           \/ /\ CanMove(gov[g].job, StateForDecision(gov[g].target))
              /\ SameJob(g)
              /\ IF gov[g].target = "utility" THEN Advances(g, "spawn")
                                              ELSE Advances(g, "report")
  <2> PICK s : s = StateForDecision(gov[g].target)
    OBVIOUS
  <2> PICK p : p = IF gov[g].target = "utility" THEN "spawn" ELSE "report"
    OBVIOUS
  <2> PICK r : r = [gov[g] EXCEPT !.pc = p, !.message = MessageFor(s)]
    OBVIOUS
  <2>1. /\ r.pc = p /\ r.epoch = gov[g].epoch /\ r.pend = gov[g].pend
        /\ r.count = gov[g].count /\ r.job = gov[g].job
    BY <1>1 DEF GovRecord
  <2>2. CommitRoute(g) /\ CanMove(gov[g].job, s) => gov' = [gov EXCEPT ![g] = r]
    BY DEF CommitRoute
  <2>3. CommitRoute(g) /\ ~CanMove(gov[g].job, s) =>
          gov' = [gov EXCEPT ![g] = At(gov[g].epoch, "idle")]
    BY DEF CommitRoute
  <2>4. /\ At(gov[g].epoch, "idle").pc = "idle"
        /\ At(gov[g].epoch, "idle").pend = {}
        /\ At(gov[g].epoch, "idle").epoch = gov[g].epoch
    BY DEF At, Down
  <2> QED
    BY <1>1, <2>1, <2>2, <2>3, <2>4, GovReplaced DEF Advances, SameJob
<1>8. SpawnWorker(g) => /\ Others(g) /\ MovesOn(g, gov[g].job)
                        /\ gov'[g].count = TakeSlot(g, gov[g].job)
  <2> SUFFICES ASSUME SpawnWorker(g)
               PROVE  /\ Others(g) /\ MovesOn(g, gov[g].job)
                      /\ gov'[g].count = TakeSlot(g, gov[g].job)
    OBVIOUS
  <2> PICK q, c : q = Resume(g, gov[g].job) /\ c = TakeSlot(g, gov[g].job)
    OBVIOUS
  <2> PICK r : r = [q EXCEPT !.count = c]
    OBVIOUS
  <2>1. gov[g].job \in Jobs
    BY DEF SpawnWorker, TypeInv, CurrentJob
  <2>2. q \in GovRecord
    BY <1>1, <2>1, ResumeType
  <2>3. /\ r.pc = q.pc /\ r.epoch = q.epoch /\ r.pend = q.pend /\ r.count = c
    BY <2>2 DEF GovRecord
  <2>4. gov' = [gov EXCEPT ![g] = r]
    BY DEF SpawnWorker
  <2> QED
    BY <1>1, <2>3, <2>4, GovReplaced, ResumeFields DEF MovesOn
<1>9. SpawnFails(g) =>
        /\ Others(g) /\ gov'[g].pc = "fail" /\ SameJob(g)
        /\ gov'[g].epoch = gov[g].epoch /\ gov'[g].pend = gov[g].pend
        /\ gov'[g].count = TakeSlot(g, gov[g].job)
  <2> PICK c : c = TakeSlot(g, gov[g].job)
    OBVIOUS
  <2> PICK r : r = [gov[g] EXCEPT !.pc = "fail", !.count = c]
    OBVIOUS
  <2>1. /\ r.pc = "fail" /\ r.epoch = gov[g].epoch /\ r.pend = gov[g].pend
        /\ r.count = c /\ r.job = gov[g].job
    BY <1>1 DEF GovRecord
  <2>2. SpawnFails(g) => gov' = [gov EXCEPT ![g] = r]
    BY DEF SpawnFails
  <2> QED
    BY <1>1, <2>1, <2>2, GovReplaced DEF SameJob
<1> QED
  BY <1>2, <1>3, <1>4, <1>6, <1>7, <1>8, <1>9

-----------------------------------------------------------------------------
(* Epochs: one Governess each, and no route of an epoch that has not been  *)
(* activated.                                                              *)

Up(g) == gov[g].pc \notin {"down", "starting"}

EpochsOrdered ==
  /\ epochFile < nextEpoch
  /\ \A g \in Governesses : gov[g].pc # "down" => gov[g].epoch < nextEpoch
  /\ \A g, h \in Governesses :
       (g # h /\ gov[g].pc # "down" /\ gov[h].pc # "down")
         => gov[g].epoch # gov[h].epoch
  /\ \A g \in Governesses : Up(g) => gov[g].epoch <= epochFile
  /\ \A j \in Jobs : job[j].routeEpoch <= epochFile

\* Epochs are numbers.
LEMMA EpochNumbers ==
  ASSUME TypeOK
  PROVE  /\ epochFile \in Nat /\ nextEpoch \in Nat /\ MaxEpoch \in Nat
         /\ \A g \in Governesses : gov[g].epoch \in Nat
         /\ \A j \in Jobs : job[j].routeEpoch \in Nat
BY ConstantsAssumption DEF TypeOK, GovRecord, JobRecord, Epochs

\* A step that starts no Governess.
LEMMA EpochsKept ==
  ASSUME TypeOK, TypeOK', EpochsOrdered, nextEpoch' = nextEpoch,
         epochFile <= epochFile', epochFile' < nextEpoch,
         \A g \in Governesses :
           \/ gov'[g].pc = "down"
           \/ /\ gov[g].pc # "down" /\ gov'[g].epoch = gov[g].epoch
              /\ Up(g)' => Up(g) \/ gov[g].epoch <= epochFile',
         \A j \in Jobs : \/ job'[j].routeEpoch = job[j].routeEpoch
                         \/ job'[j].routeEpoch <= epochFile'
  PROVE  EpochsOrdered'
<1>1. /\ epochFile \in Nat /\ epochFile' \in Nat /\ nextEpoch \in Nat
      /\ \A g \in Governesses : gov[g].epoch \in Nat
      /\ \A j \in Jobs : job[j].routeEpoch \in Nat
  BY EpochNumbers DEF TypeOK, Epochs
<1>2. \A g \in Governesses : Up(g)' => gov'[g].epoch <= epochFile'
  <2> SUFFICES ASSUME NEW g \in Governesses, Up(g)'
               PROVE  gov'[g].epoch <= epochFile'
    OBVIOUS
  <2>1. gov'[g].epoch = gov[g].epoch /\ (Up(g) \/ gov[g].epoch <= epochFile')
    BY DEF Up
  <2>2. Up(g) => gov[g].epoch <= epochFile
    BY DEF EpochsOrdered
  <2> QED
    BY <1>1, <2>1, <2>2
<1>3. \A j \in Jobs : job'[j].routeEpoch <= epochFile'
  BY <1>1 DEF EpochsOrdered
<1> QED
  BY <1>1, <1>2, <1>3 DEF EpochsOrdered

\* A Governess that is working on its pass goes on under its epoch.
LEMMA PassKeepsEpoch ==
  ASSUME TypeInv, NEW g \in Governesses,
         \/ BeginPass(g) \/ Scan(g) \/ Recover(g) \/ Route(g)
  PROVE  Others(g) /\ Up(g) /\ Up(g)' /\ gov'[g].epoch = gov[g].epoch
<1>1. CASE BeginPass(g)
  BY <1>1, LeaveEffect DEF BeginPass, Up, Advances
<1>2. CASE Scan(g) \/ Recover(g)
  BY <1>2, RecoverEffect
     DEF Scan, Recover, KeepJob, FenceJob, KillWorker, FailJob, GovReport, Up,
         Advances, MovesOn
<1>3. CASE Route(g)
  <2>1. CASE EndPass(g)
    BY <2>1, LeaveEffect DEF EndPass, Up
  <2>2. CASE ~EndPass(g)
    BY <1>3, <2>2, RouteEffect
       DEF Route, ReadPending, CountSlots, Decide, QueueDecision, CommitRoute,
           SpawnWorker, SpawnFails, Up, Advances, MovesOn
  <2> QED
    BY <2>1, <2>2
<1> QED
  BY <1>1, <1>2, <1>3

\* No step of a pass but the route transition says who routed a job.
LEMMA PassKeepsRoute ==
  ASSUME TypeInv, NEW g \in Governesses, NEW j \in Jobs,
         \/ BeginPass(g) \/ Scan(g) \/ Recover(g) \/ Route(g)
  PROVE  \/ job'[j].routeEpoch = job[j].routeEpoch
         \/ job'[j].routeEpoch = gov[g].epoch
<1>1. CASE FailJob(g)
  <2>1. gov[g].job \in Jobs
    BY <1>1 DEF FailJob, TypeInv, CurrentJob
  <2> QED
    BY <1>1, <2>1, MoveRecord DEF FailJob, TypeInv
<1>2. CASE QueueDecision(g)
  BY <1>2, QueueEffect
<1>3. CASE CommitRoute(g)
  <2>1. CASE CanMove(gov[g].job, StateForDecision(gov[g].target))
    BY <1>3, <2>1, CommitEffect
  <2>2. CASE ~CanMove(gov[g].job, StateForDecision(gov[g].target))
    BY <1>3, <2>2 DEF CommitRoute
  <2> QED
    BY <2>1, <2>2
<1>4. CASE ~(FailJob(g) \/ QueueDecision(g) \/ CommitRoute(g))
  BY <1>4 DEF BeginPass, Scan, Recover, Route, KeepJob, FenceJob, KillWorker,
              GovReport, ReadPending, CountSlots, Decide, SpawnWorker,
              SpawnFails, EndPass
<1> QED
  BY <1>1, <1>2, <1>3, <1>4

\* No step of a worker or a requester says who routed a job.
LEMMA WorkerKeepsRoute ==
  ASSUME TypeOK, NEW j \in Jobs,
         \/ RequestRoute(j) \/ JobOverdue(j)
         \/ WorkerStep(j) \/ WorkerCrash(j)
  PROVE  \A i \in Jobs : job'[i].routeEpoch = job[i].routeEpoch
<1>1. CASE RequestRoute(j)
  BY <1>1, RequestEffect
<1>2. CASE WorkerClaim(j)
  BY <1>2, ClaimEffect DEF WorkerClaim
<1>3. CASE WorkerRun(j)
  BY <1>3, MoveRecord DEF WorkerRun
<1>4. CASE WorkerFinish(j)
  <2>1. PICK o : IF CanMove(j, o) THEN Move(j, o) ELSE UNCHANGED <<job, overdue>>
    BY <1>4 DEF WorkerFinish
  <2> QED
    BY <2>1, MoveRecord
<1>5. CASE JobOverdue(j) \/ WorkerNotify(j) \/ WorkerCrash(j)
  BY <1>5 DEF JobOverdue, WorkerNotify, WorkerCrash
<1> QED
  BY <1>1, <1>2, <1>3, <1>4, <1>5 DEF WorkerStep

\* The epoch in the file and those of the Governesses stay in order.
LEMMA EpochsStep ==
  ASSUME TypeInv, TypeInv', EpochsOrdered, [Next]_vars PROVE EpochsOrdered'
<1>1. TypeOK /\ TypeOK'
  BY DEF TypeInv
<1>2. ASSUME NEW g \in Governesses, GovStart(g) PROVE EpochsOrdered'
  <2>1. /\ Others(g) /\ gov'[g].epoch = nextEpoch /\ gov'[g].pc = "starting"
        /\ nextEpoch' = nextEpoch + 1 /\ epochFile' = epochFile /\ job' = job
    BY <1>2, LeaveEffect DEF GovStart
  <2> QED
    BY <1>1, <2>1, EpochNumbers DEF EpochsOrdered, Up, Others
<1>3. ASSUME NEW g \in Governesses, GovRetire(g) \/ GovCrash(g)
      PROVE  EpochsOrdered'
  <2>1. Others(g) /\ gov'[g].pc = "down"
    BY <1>3, LeaveEffect
  <2> QED
    BY <1>1, <1>3, <2>1, EpochNumbers
       DEF GovRetire, GovCrash, EpochsOrdered, Up, Others
<1>4. ASSUME NEW g \in Governesses, GovActivate(g) PROVE EpochsOrdered'
  <2>1. /\ Others(g)
        /\ \/ gov'[g].pc = "down" /\ epochFile' = epochFile
           \/ /\ gov'[g].epoch = gov[g].epoch /\ epochFile' = gov[g].epoch
              /\ ~(epochFile > gov[g].epoch)
    BY <1>4, LeaveEffect DEF Advances
  <2>2. /\ nextEpoch' = nextEpoch /\ job' = job /\ gov[g].pc = "starting"
        /\ gov[g].epoch < nextEpoch
    BY <1>4 DEF GovActivate, EpochsOrdered
  <2> QED
    <3>1. epochFile <= epochFile' /\ epochFile' < nextEpoch
      BY <1>1, <2>1, <2>2, EpochNumbers DEF EpochsOrdered
    <3>2. \A h \in Governesses :
            \/ gov'[h].pc = "down"
            \/ /\ gov'[h].epoch = gov[h].epoch
               /\ h # g => gov'[h] = gov[h]
               /\ h = g => gov[h].epoch <= epochFile'
      BY <1>1, <2>1, EpochNumbers DEF Others
    <3>3. \A h \in Governesses :
            \/ gov'[h].pc = "down"
            \/ /\ gov[h].pc # "down" /\ gov'[h].epoch = gov[h].epoch
               /\ Up(h)' => Up(h) \/ gov[h].epoch <= epochFile'
      BY <2>2, <3>2 DEF Up
    <3> QED
      BY <1>1, <2>2, <3>1, <3>3, EpochsKept
<1>5. ASSUME NEW g \in Governesses,
             BeginPass(g) \/ Scan(g) \/ Recover(g) \/ Route(g)
      PROVE  EpochsOrdered'
  <2>1. Others(g) /\ Up(g) /\ gov'[g].epoch = gov[g].epoch
    BY <1>5, PassKeepsEpoch
  <2>2. gov[g].epoch <= epochFile
    BY <2>1 DEF EpochsOrdered
  <2>3. nextEpoch' = nextEpoch /\ epochFile' = epochFile
    <3>1. CASE BeginPass(g)
      BY <1>1, <2>2, <3>1, EpochNumbers DEF BeginPass
    <3>2. CASE ~BeginPass(g)
      BY <1>5, <3>2 DEF Scan, Recover, Route, KeepJob, FenceJob, KillWorker,
           FailJob, GovReport, ReadPending, CountSlots, Decide, QueueDecision,
           CommitRoute, SpawnWorker, SpawnFails, EndPass
    <3> QED
      BY <3>1, <3>2
  <2>4. \A j \in Jobs : job'[j].routeEpoch \in {job[j].routeEpoch, gov[g].epoch}
    BY <1>5, PassKeepsRoute
  <2>5. epochFile < nextEpoch /\ Up(g) /\ gov[g].pc # "down"
    BY <2>1 DEF EpochsOrdered, Up
  <2> QED
    BY <1>1, <2>1, <2>2, <2>3, <2>4, <2>5, EpochNumbers, EpochsKept
       DEF Others, Up
<1>6. ASSUME NEW j \in Jobs, \/ RequestRoute(j) \/ JobOverdue(j)
                             \/ WorkerStep(j) \/ WorkerCrash(j)
      PROVE  EpochsOrdered'
  <2>1. UNCHANGED <<epochFile, nextEpoch, gov>>
    BY <1>6 DEF RequestRoute, JobOverdue, WorkerStep, WorkerClaim, WorkerRun,
                WorkerFinish, WorkerNotify, WorkerCrash
  <2> QED
    BY <1>1, <1>6, <2>1, WorkerKeepsRoute, EpochNumbers DEF EpochsOrdered, Up
<1>7. CASE UNCHANGED vars
  BY <1>7 DEF vars, EpochsOrdered, Up
<1> QED
  BY <1>2, <1>3, <1>4, <1>5, <1>6, <1>7 DEF Next, GovStep

-----------------------------------------------------------------------------
(* One worker process per job.                                             *)

\* A Governess that is about to spawn a worker for a job is the only one,
\* and is the first; a worker that is about to be killed exists.
OneSpawn ==
  /\ \A g \in Governesses :
       gov[g].pc = "spawn" => worker[gov[g].job].pc = "none"
  /\ \A g, h \in Governesses :
       (g # h /\ gov[g].pc = "spawn" /\ gov[h].pc = "spawn")
         => gov[g].job # gov[h].job
  /\ \A g \in Governesses :
       gov[g].pc = "kill" => worker[gov[g].job].pc # "none"

\* A step that leaves every job's worker absent or present.
LEMMA SpawnKept ==
  ASSUME OneSpawn, CurrentJob,
         \A g \in Governesses :
           \/ gov'[g].pc \notin {"spawn", "kill"}
           \/ gov'[g] = gov[g],
         \A j \in Jobs : worker'[j].pc = "none" <=> worker[j].pc = "none"
  PROVE  OneSpawn'
<1>1. \A g \in Governesses : gov[g].pc \in {"spawn", "kill"} => gov[g].job \in Jobs
  BY DEF CurrentJob
<1> QED
  BY <1>1 DEF OneSpawn

\* No step of a Governess breaks OneSpawn: only CommitRoute makes a spawner,
\* and the job was pending until then.
LEMMA SpawnGovStep ==
  ASSUME Owning, OneSpawn, NEW g \in Governesses, GovStep(g) \/ GovCrash(g)
  PROVE  OneSpawn'
<1>1. TypeInv /\ TypeOK /\ CurrentJob /\ WorkIsRouted
  BY DEF Owning, Ready, TypeInv
<1>2. \A h \in Governesses : gov[h].pc \in {"spawn", "kill"} => gov[h].job \in Jobs
  BY <1>1 DEF CurrentJob
<1>3. CASE \E j \in Jobs : FenceJob(g, j)
  <2>1. PICK j \in Jobs : FenceJob(g, j)
    BY <1>3
  <2>2. /\ Others(g) /\ gov'[g].job = j /\ worker' = worker
        /\ gov'[g].pc \in {"kill", "fail"}
    BY <1>1, <2>1, RecoverEffect DEF FenceJob, Advances
  <2>3. gov'[g].pc = "kill" => worker[j].pc # "none"
    <3>1. gov'[g].pc = "kill" => NeedsKill(g, j)
      BY <1>1, <2>1 DEF FenceJob, TypeOK, GovRecord
    <3> QED
      BY <3>1 DEF NeedsKill, Alive
  <2> QED
    BY <1>2, <2>2, <2>3 DEF OneSpawn, Others
<1>4. CASE KillWorker(g)
  <2>1. /\ Others(g) /\ gov'[g].pc = "fail" /\ worker[gov[g].job].pc # "none"
        /\ gov[g].job \in Jobs
    BY <1>1, <1>2, <1>4, RecoverEffect DEF KillWorker, Advances, OneSpawn
  <2>2. \A j \in Jobs : worker'[j].pc = "none" <=> worker[j].pc = "none"
    BY <1>1, <1>4, <2>1 DEF KillWorker, TypeOK, WorkerRecord
  <2> QED
    BY <1>1, <2>1, <2>2, SpawnKept DEF Others
<1>5. CASE CommitRoute(g)
  <2>1. worker' = worker /\ Others(g) /\ gov[g].job \in Jobs
    BY <1>1, <1>5, RouteEffect DEF CommitRoute, CurrentJob
  <2>2. CASE gov'[g].pc # "spawn"
    <3>1. gov'[g].pc \in {"idle", "report"}
      BY <1>1, <1>5, <2>2, RouteEffect DEF Advances
    <3> QED
      BY <1>1, <2>1, <3>1, SpawnKept DEF Others
  <2>3. CASE gov'[g].pc = "spawn"
    <3>1. /\ CanMove(gov[g].job, "routed-utility")
          /\ gov'[g].job = gov[g].job
      BY <1>1, <1>5, <2>3, RouteEffect
         DEF Advances, SameJob, StateForDecision
    <3>2. job[gov[g].job].state = "pending-route"
      BY <1>1, <2>1, <3>1 DEF CanMove, Requested, TypeOK, JobRecord, JobStates,
           ALLOWED_TRANSITIONS, TERMINAL_STATES, ActiveStates, ReturnedStates
    <3>3. ~PastRoute(gov[g].job)
      BY <3>2 DEF PastRoute, ActiveStates, TERMINAL_STATES
    <3>4. worker[gov[g].job].pc = "none"
      BY <1>1, <2>1, <3>3 DEF WorkIsRouted
    <3>5. \A h \in Governesses :
            gov[h].pc = "spawn" => gov[h].job # gov[g].job
      BY <1>1, <3>3 DEF WorkIsRouted, Working
    <3> QED
      BY <1>2, <2>1, <2>3, <3>1, <3>4, <3>5 DEF OneSpawn, Others
  <2> QED
    BY <2>2, <2>3
<1>6. CASE SpawnWorker(g)
  <2>1. /\ Others(g) /\ gov'[g].pc \in {"route", "recover"}
        /\ gov[g].job \in Jobs /\ gov[g].pc = "spawn"
    BY <1>1, <1>2, <1>6, RouteEffect DEF MovesOn, SpawnWorker
  <2>2. /\ worker'[gov[g].job].pc = "spawned"
        /\ \A j \in Jobs \ {gov[g].job} : worker'[j] = worker[j]
    BY <1>1, <1>6, <2>1 DEF SpawnWorker, TypeOK, Process
  <2> QED
    BY <1>2, <2>1, <2>2 DEF OneSpawn, Others
<1>7. CASE ~(\/ \E j \in Jobs : FenceJob(g, j)
             \/ KillWorker(g) \/ CommitRoute(g) \/ SpawnWorker(g))
  <2>1. worker' = worker
    BY <1>7 DEF GovStep, GovStart, GovActivate, GovRetire, BeginPass, Scan,
                Recover, Route, KeepJob, FailJob, GovReport, ReadPending,
                CountSlots, Decide, QueueDecision, SpawnFails, EndPass, GovCrash
  <2>2. Others(g) /\ gov'[g].pc \notin {"spawn", "kill"}
    BY <1>1, <1>7, LeaveEffect, RecoverEffect, RouteEffect
       DEF GovStep, Recover, Route, Advances, MovesOn
  <2> QED
    BY <1>1, <2>1, <2>2, SpawnKept DEF Others
<1> QED
  BY <1>3, <1>4, <1>5, <1>6, <1>7

\* No step of a worker, a request or the time breaks OneSpawn.
LEMMA SpawnWorkerStep ==
  ASSUME Owning, OneSpawn, NEW j \in Jobs,
         \/ RequestRoute(j) \/ JobOverdue(j)
         \/ WorkerStep(j) \/ WorkerCrash(j)
  PROVE  OneSpawn'
<1>1. TypeOK /\ CurrentJob
  BY DEF Owning, Ready, TypeInv
<1>2. \A i \in Jobs : worker'[i].pc = "none" <=> worker[i].pc = "none"
  <2>1. CASE RequestRoute(j) \/ JobOverdue(j)
    BY <2>1 DEF RequestRoute, JobOverdue
  <2>2. CASE WorkerFinish(j)
    <3>1. PICK o \in {"completed", "escalated", "failed"} :
            \/ worker' = [worker EXCEPT ![j] =
                            [worker[j] EXCEPT !.pc = "notify",
                                              !.message = MessageFor(o)]]
            \/ worker' = [worker EXCEPT ![j].pc = "dead"]
      BY <2>2 DEF WorkerFinish
    <3>2. worker[j].pc = "running"
      BY <2>2 DEF WorkerFinish
    <3> QED
      BY <1>1, <3>1, <3>2 DEF TypeOK, WorkerRecord
  <2>3. CASE WorkerClaim(j) \/ WorkerRun(j) \/ WorkerNotify(j) \/ WorkerCrash(j)
    BY <1>1, <2>3, ZenonT(60) DEF WorkerClaim, WorkerRun, WorkerNotify, WorkerCrash, Alive,
                      TypeOK, WorkerRecord
  <2> QED
    BY <2>1, <2>2, <2>3 DEF WorkerStep
<1>3. gov' = gov
  BY DEF RequestRoute, JobOverdue, WorkerStep, WorkerClaim, WorkerRun,
         WorkerFinish, WorkerNotify, WorkerCrash
<1> QED
  BY <1>1, <1>2, <1>3, SpawnKept

\* What routing relies on besides the ownership of jobs.
Orderly == Owning /\ EpochsOrdered /\ OneSpawn

\* Owners, epochs and spawns are in order in every reachable state.
LEMMA SpecOrderly == Spec => []Orderly
<1>1. Init => Orderly
  <2> SUFFICES ASSUME Init PROVE Orderly
    OBVIOUS
  <2>1. Owning
    BY InitType, ReportsInit, OwnersInit DEF Owning, Ready
  <2>2. EpochsOrdered /\ OneSpawn
    BY DEF Init, EpochsOrdered, OneSpawn, Down, Up, Process
  <2> QED
    BY <2>1, <2>2 DEF Orderly
<1>2. Orderly /\ [Next]_vars => Orderly'
  <2> SUFFICES ASSUME Orderly, [Next]_vars PROVE Orderly'
    OBVIOUS
  <2>1. Owning' /\ EpochsOrdered'
    BY OwnersStep, EpochsStep DEF Orderly, Owning, Ready
  <2>2. OneSpawn'
    <3>1. CASE UNCHANGED vars
      BY <3>1 DEF vars, Orderly, OneSpawn
    <3>2. CASE Next
      BY <3>2, SpawnGovStep, SpawnWorkerStep DEF Next, Orderly
    <3> QED
      BY <3>1, <3>2
  <2> QED
    BY <2>1, <2>2 DEF Orderly
<1> QED
  BY <1>1, <1>2, PTL DEF Spec

\* A job is given at most one worker process, whichever Governesses route,
\* die and take over meanwhile: the one that spawns is alone, and nobody has
\* spawned before (startRoutedUtilityJob).
THEOREM SpawnedOnce ==
  Spec => [](\A g \in Governesses :
               gov[g].pc = "spawn" =>
                 /\ worker[gov[g].job].pc = "none"
                 /\ \A h \in Governesses \ {g} :
                      gov[h].pc = "spawn" => gov[h].job # gov[g].job)
<1>1. Orderly => \A g \in Governesses :
                   gov[g].pc = "spawn" =>
                     /\ worker[gov[g].job].pc = "none"
                     /\ \A h \in Governesses \ {g} :
                          gov[h].pc = "spawn" => gov[h].job # gov[g].job
  BY DEF Orderly, OneSpawn
<1> QED
  BY <1>1, SpecOrderly, PTL

-----------------------------------------------------------------------------
(* Writers of a common path.                                               *)

Active(j) == job[j].state \in ActiveStates

\* A decision to use a helper still is free of conflicts with every job of
\* the same epoch when it is carried out, however long ago it was taken.
DecisionStands ==
  \A g \in Governesses, i \in Jobs :
    (/\ gov[g].pc = "commit" /\ gov[g].target = "utility"
     /\ Active(i) /\ job[i].routeEpoch = gov[g].epoch)
    => Scope[i] \cap Scope[gov[g].job] = {}

Scopes == WritersDisjoint /\ DecisionStands

\* A step that makes no job active or claimed and takes no decision.
LEMMA ScopesKept ==
  ASSUME Scopes,
         \A j \in Jobs :
           Active(j)' => /\ Active(j)
                         /\ job'[j].routeEpoch = job[j].routeEpoch
                         /\ job'[j].state \in Claimed => job[j].state \in Claimed,
         \A g \in Governesses : gov'[g].pc = "commit" => gov'[g] = gov[g]
  PROVE  Scopes'
<1>1. WritersDisjoint'
  <2>1. \A i, j \in Jobs :
          {job'[i].state, job'[j].state} \subseteq Claimed =>
            job'[i].state \in Claimed /\ job'[j].state \in Claimed
    OBVIOUS
  <2>2. \A i, j \in Jobs :
          job[i].state \in Claimed /\ job[j].state \in Claimed =>
            {job[i].state, job[j].state} \subseteq Claimed
    OBVIOUS
  <2> QED
    BY <2>1, <2>2 DEF Scopes, WritersDisjoint, Active, Claimed
<1>2. DecisionStands'
  BY DEF Scopes, DecisionStands, Active
<1> QED
  BY <1>1, <1>2 DEF Scopes

\* A job that ends is no longer active.
LEMMA EndedInactive ==
  \A s \in TERMINAL_STATES \cup ReturnedStates : s \notin ActiveStates
BY DEF TERMINAL_STATES, ReturnedStates, ActiveStates

\* No step of a Governess breaks Scopes: a decision to route stands on a
\* journal in which no other Governess of the epoch adds a writer.
LEMMA ScopesGovStep ==
  ASSUME Orderly, Scopes, NEW g \in Governesses, GovStep(g) \/ GovCrash(g)
  PROVE  Scopes'
<1>1. TypeInv /\ TypeOK /\ CurrentJob
  BY DEF Orderly, Owning, Ready, TypeInv
<1>2. CASE \E j \in Jobs : Decide(g, j)
  <2>1. PICK j \in Jobs : Decide(g, j)
    BY <1>2
  <2>2. /\ Others(g) /\ gov'[g].job = j /\ job' = job
        /\ gov'[g].target = "utility" => ~RoutedWriteConflict(j)
    BY <1>1, <2>1, RouteEffect DEF Decide
  <2>3. DecisionStands'
    BY <2>2 DEF Scopes, DecisionStands, RoutedWriteConflict, Active, Others
  <2>4. WritersDisjoint'
    BY <2>2 DEF Scopes, WritersDisjoint
  <2> QED
    BY <2>3, <2>4 DEF Scopes
<1>3. CASE FailJob(g)
  <2>1. gov[g].job \in Jobs
    BY <1>1, <1>3 DEF FailJob, CurrentJob
  <2>2. \A i \in Jobs : job'[i] = job[i] \/ job'[i].state = "failed"
    BY <1>1, <1>3, <2>1, MoveRecord DEF FailJob
  <2>3. \A i \in Jobs : Active(i)' => job'[i] = job[i]
    BY <2>2, EndedInactive DEF Active, TERMINAL_STATES
  <2>4. Others(g) /\ gov'[g].pc # "commit"
    BY <1>1, <1>3, RecoverEffect DEF Advances, MovesOn
  <2> QED
    BY <2>3, <2>4, ScopesKept DEF Others, Active
<1>4. CASE QueueDecision(g)
  <2>1. Others(g) /\ gov'[g].pc # "commit"
    BY <1>1, <1>4, RouteEffect DEF MovesOn
  <2> QED
    BY <1>1, <1>4, <2>1, QueueEffect, ScopesKept DEF Others, Active
<1>5. CASE CommitRoute(g)
  <2> PICK j : j = gov[g].job
    OBVIOUS
  <2> PICK s : s = StateForDecision(gov[g].target)
    OBVIOUS
  <2>1. j \in Jobs /\ Others(g) /\ gov'[g].pc # "commit" /\ gov[g].pc = "commit"
    BY <1>1, <1>5, RouteEffect DEF CommitRoute, CurrentJob, Advances
  <2>2. CASE ~CanMove(j, s)
    BY <1>5, <2>1, <2>2, ScopesKept DEF CommitRoute, Others, Active
  <2>3. CASE CanMove(j, s) /\ gov[g].target # "utility"
    <3>1. job'[j].state = s /\ \A i \in Jobs \ {j} : job'[i] = job[i]
      BY <1>1, <1>5, <2>3, CommitEffect
    <3>2. s \in TERMINAL_STATES \cup ReturnedStates
      BY <2>3 DEF StateForDecision, TERMINAL_STATES, ReturnedStates
    <3>3. \A i \in Jobs : Active(i)' => job'[i] = job[i]
      BY <3>1, <3>2, EndedInactive DEF Active
    <3> QED
      BY <2>1, <3>3, ScopesKept DEF Others, Active
  <2>4. CASE CanMove(j, s) /\ gov[g].target = "utility"
    <3>1. /\ job'[j].state = "routed-utility"
          /\ job'[j].routeEpoch = gov[g].epoch
          /\ \A i \in Jobs \ {j} : job'[i] = job[i]
      BY <1>1, <1>5, <2>4, CommitEffect DEF StateForDecision
    <3>2. \A i \in Jobs : Active(i) /\ job[i].routeEpoch = gov[g].epoch
                            => Scope[i] \cap Scope[j] = {}
      BY <2>1, <2>4 DEF Scopes, DecisionStands
    <3>3. WritersDisjoint'
      <4> SUFFICES ASSUME NEW i \in Jobs, NEW k \in Jobs, i # k,
                          job'[i].state \in ActiveStates,
                          job'[k].state \in ActiveStates,
                          \/ job'[i].routeEpoch = job'[k].routeEpoch
                          \/ {job'[i].state, job'[k].state}
                               \subseteq {"claimed", "running"}
                   PROVE  Scope[i] \cap Scope[k] = {}
        BY DEF WritersDisjoint
      <4>1. CASE i # j /\ k # j
        BY <3>1, <4>1 DEF Scopes, WritersDisjoint
      <4>2. CASE i = j
        BY <3>1, <3>2, <4>2 DEF Active
      <4>3. CASE k = j
        BY <3>1, <3>2, <4>3 DEF Active
      <4> QED
        BY <4>1, <4>2, <4>3
    <3>4. \A h \in Governesses \ {g} :
            gov[h].pc = "commit" => gov[h].epoch # gov[g].epoch
      BY <2>1 DEF Orderly, EpochsOrdered
    <3>5. DecisionStands'
      BY <2>1, <3>1, <3>4 DEF Scopes, DecisionStands, Active, Others
    <3> QED
      BY <3>3, <3>5 DEF Scopes
  <2> QED
    BY <2>2, <2>3, <2>4
<1>6. CASE ~(\/ \E j \in Jobs : Decide(g, j)
             \/ FailJob(g) \/ QueueDecision(g) \/ CommitRoute(g))
  <2>1. job' = job
    BY <1>6 DEF GovStep, GovStart, GovActivate, GovRetire, BeginPass, Scan,
                Recover, Route, KeepJob, FenceJob, KillWorker, GovReport,
                ReadPending, CountSlots, SpawnWorker, SpawnFails, EndPass,
                GovCrash
  <2>2. Others(g) /\ gov'[g].pc # "commit"
    BY <1>1, <1>6, LeaveEffect, RecoverEffect, RouteEffect
       DEF GovStep, Recover, Route, Advances, MovesOn
  <2> QED
    BY <2>1, <2>2, ScopesKept DEF Others, Active
<1> QED
  BY <1>2, <1>3, <1>4, <1>5, <1>6

\* No step of a worker breaks Scopes: its claim looks for writers again.
LEMMA ScopesWorkerStep ==
  ASSUME Orderly, Scopes, NEW j \in Jobs,
         \/ RequestRoute(j) \/ JobOverdue(j)
         \/ WorkerStep(j) \/ WorkerCrash(j)
  PROVE  Scopes'
<1>1. TypeOK
  BY DEF Orderly, Owning, Ready, TypeInv
<1>2. gov' = gov
  BY DEF RequestRoute, JobOverdue, WorkerStep, WorkerClaim, WorkerRun,
         WorkerFinish, WorkerNotify, WorkerCrash
<1>3. CASE RequestRoute(j)
  <2>1. ~Active(j)'
    BY <1>1, <1>3, RequestEffect DEF Active, ActiveStates
  <2> QED
    BY <1>1, <1>2, <1>3, <2>1, RequestEffect, ScopesKept DEF Active
<1>4. CASE WorkerClaim(j)
  <2>1. CASE Claimable(j)
    <3>1. /\ job'[j].state = "claimed" /\ job'[j].routeEpoch = job[j].routeEpoch
          /\ Active(j) /\ \A i \in Jobs \ {j} : job'[i] = job[i]
      BY <1>1, <1>4, <2>1, ClaimEffect DEF Claimable, Active, ActiveStates
    <3>2. \A i \in Jobs \ {j} : job[i].state \in {"claimed", "running"} =>
                                  Scope[i] \cap Scope[j] = {}
      BY <2>1 DEF Claimable, HasActiveWriteConflict
    <3>3. WritersDisjoint'
      <4> SUFFICES ASSUME NEW i \in Jobs, NEW k \in Jobs, i # k,
                          job'[i].state \in ActiveStates,
                          job'[k].state \in ActiveStates,
                          \/ job'[i].routeEpoch = job'[k].routeEpoch
                          \/ {job'[i].state, job'[k].state}
                               \subseteq {"claimed", "running"}
                   PROVE  Scope[i] \cap Scope[k] = {}
        BY DEF WritersDisjoint
      <4>1. Active(i) /\ Active(k)
        BY <3>1 DEF Active
      <4>2. CASE job'[i].routeEpoch = job'[k].routeEpoch
        BY <3>1, <4>1, <4>2 DEF Scopes, WritersDisjoint, Active
      <4>3. CASE {job'[i].state, job'[k].state} \subseteq {"claimed", "running"}
        <5>1. /\ job'[i].state \in {"claimed", "running"}
              /\ job'[k].state \in {"claimed", "running"}
          BY <4>3
        <5>2. CASE i # j /\ k # j
          BY <3>1, <4>1, <4>3, <5>2 DEF Scopes, WritersDisjoint, Active
        <5>3. CASE i = j
          BY <3>1, <3>2, <5>1, <5>3
        <5>4. CASE k = j
          BY <3>1, <3>2, <5>1, <5>4
        <5> QED
          BY <5>2, <5>3, <5>4
      <4> QED
        BY <4>2, <4>3
    <3>4. DecisionStands'
      BY <1>2, <3>1 DEF Scopes, DecisionStands, Active
    <3> QED
      BY <3>3, <3>4 DEF Scopes
  <2>2. CASE ~Claimable(j)
    BY <1>2, <1>4, <2>2, ScopesKept DEF WorkerClaim, Active
  <2> QED
    BY <2>1, <2>2
<1>5. CASE WorkerRun(j)
  <2>1. CASE CanMove(j, "running")
    <3>1. job[j].state = "claimed"
      BY <1>1, <2>1 DEF CanMove, Requested, TypeOK, JobRecord, JobStates,
           ALLOWED_TRANSITIONS, TERMINAL_STATES, ActiveStates, ReturnedStates
    <3>2. /\ job'[j].routeEpoch = job[j].routeEpoch
          /\ \A i \in Jobs \ {j} : job'[i] = job[i]
      BY <1>1, <1>5, <2>1, MoveRecord DEF WorkerRun
    <3> QED
      BY <1>2, <3>1, <3>2, ScopesKept DEF Active, ActiveStates, Claimed
  <2>2. CASE ~CanMove(j, "running")
    BY <1>2, <1>5, <2>2, ScopesKept DEF WorkerRun, Active
  <2> QED
    BY <2>1, <2>2
<1>6. CASE WorkerFinish(j)
  <2>1. PICK o \in {"completed", "escalated", "failed"} :
          IF CanMove(j, o) THEN Move(j, o) ELSE UNCHANGED <<job, overdue>>
    BY <1>6 DEF WorkerFinish
  <2>2. \A i \in Jobs : job'[i] = job[i] \/ job'[i].state = o
    BY <1>1, <2>1, MoveRecord
  <2>3. \A i \in Jobs : Active(i)' => job'[i] = job[i]
    BY <2>2, EndedInactive DEF Active, TERMINAL_STATES
  <2> QED
    BY <1>2, <2>3, ScopesKept DEF Active
<1>7. CASE JobOverdue(j) \/ WorkerNotify(j) \/ WorkerCrash(j)
  BY <1>2, <1>7, ScopesKept DEF JobOverdue, WorkerNotify, WorkerCrash, Active
<1> QED
  BY <1>3, <1>4, <1>5, <1>6, <1>7 DEF WorkerStep

\* Two helpers never write a common path together, and one epoch never routes
\* two such jobs at once, although the routing check reads the journal before
\* the transition is appended: nobody else routes under the same epoch, and
\* the claim looks again (hasWriteConflict, hasActiveWriteConflict).
THEOREM WritersKeptApart == Spec => []WritersDisjoint
<1>1. Init => Scopes
  <2> SUFFICES ASSUME Init PROVE Scopes
    OBVIOUS
  <2>1. /\ \A j \in Jobs : job[j].state \notin ActiveStates
        /\ \A g \in Governesses : gov[g].pc = "down"
    BY DEF Init, ActiveStates, Down
  <2> QED
    BY <2>1 DEF Scopes, WritersDisjoint, DecisionStands
<1>2. Orderly /\ Scopes /\ [Next]_vars => Scopes'
  <2> SUFFICES ASSUME Orderly, Scopes, [Next]_vars PROVE Scopes'
    OBVIOUS
  <2>1. CASE UNCHANGED vars
    BY <2>1, ScopesKept DEF vars, Active
  <2>2. CASE Next
    BY <2>2, ScopesGovStep, ScopesWorkerStep DEF Next
  <2> QED
    BY <2>1, <2>2
<1>3. Scopes => WritersDisjoint
  BY DEF Scopes
<1> QED
  BY <1>1, <1>2, <1>3, SpecOrderly, PTL DEF Spec

-----------------------------------------------------------------------------
(* The batch of requests a pass looks at.                                  *)

Batch ==
  /\ \A g \in Governesses :
       gov[g].pc \in {"down", "starting", "idle", "scan", "recover", "kill"}
         => gov[g].pend = {}
  /\ \A g \in Governesses : gov[g].pc \in {"fail", "report"} =>
       gov[g].job \in gov[g].pend \/ gov[g].pend = {}
  /\ \A g \in Governesses :
       gov[g].pc = "spawn" => gov[g].job \in gov[g].pend
  /\ \A g \in Governesses :
       gov[g].pc = "commit" => gov[g].job \in First(gov[g].pend)
  /\ \A g \in Governesses : gov[g].pend \subseteq Requested
  /\ \A j \in Jobs : before[j] \subseteq Requested

\* A job becomes pending when it is requested, and never again.
LEMMA PendingOnce ==
  ASSUME TypeInv, [Next]_vars
  PROVE  \A j \in Jobs :
           \/ job'[j].state = job[j].state
           \/ RequestRoute(j) /\ job[j].state = "absent"
                /\ job'[j].state = "pending-route"
           \/ job[j].state # "absent"
                /\ job'[j].state \notin {"absent", "pending-route"}
<1>1. TypeOK /\ CurrentJob
  BY DEF TypeInv
<1>2. ASSUME NEW j \in Jobs, NEW s \in JobStates \ {"pending-route"},
             CanMove(j, s), job'[j].state = s,
             \A i \in Jobs \ {j} : job'[i] = job[i]
      PROVE  \A i \in Jobs :
               \/ job'[i].state = job[i].state
               \/ job[i].state # "absent"
                    /\ job'[i].state \notin {"absent", "pending-route"}
  <2>1. job[j].state # "absent" /\ s # "absent"
    BY <1>2 DEF CanMove, Requested, JobStates, ActiveStates, ReturnedStates,
                TERMINAL_STATES
  <2> QED
    BY <1>2, <2>1
<1>3. ASSUME NEW g \in Governesses, FailJob(g)
      PROVE  \A i \in Jobs :
               \/ job'[i].state = job[i].state
               \/ job[i].state # "absent"
                    /\ job'[i].state \notin {"absent", "pending-route"}
  <2>1. gov[g].job \in Jobs /\ "failed" \in JobStates \ {"pending-route"}
    BY <1>1, <1>3 DEF FailJob, CurrentJob, JobStates, TERMINAL_STATES
  <2>2. CASE CanMove(gov[g].job, "failed")
    <3>1. job'[gov[g].job].state = "failed"
          /\ \A i \in Jobs \ {gov[g].job} : job'[i] = job[i]
      BY <1>1, <1>3, <2>1, <2>2, MoveRecord DEF FailJob
    <3> QED
      BY <1>2, <2>1, <2>2, <3>1
  <2>3. CASE ~CanMove(gov[g].job, "failed")
    BY <1>3, <2>3 DEF FailJob
  <2> QED
    BY <2>2, <2>3
<1>4. ASSUME NEW g \in Governesses, CommitRoute(g)
      PROVE  \A i \in Jobs :
               \/ job'[i].state = job[i].state
               \/ job[i].state # "absent"
                    /\ job'[i].state \notin {"absent", "pending-route"}
  <2> PICK j, s : j = gov[g].job /\ s = StateForDecision(gov[g].target)
    OBVIOUS
  <2>1. j \in Jobs /\ s \in JobStates \ {"pending-route"}
    BY <1>1, <1>4 DEF CommitRoute, CurrentJob, StateForDecision, JobStates,
                      ActiveStates, ReturnedStates, TERMINAL_STATES
  <2>2. CASE CanMove(j, s)
    <3>1. job'[j].state = s /\ \A i \in Jobs \ {j} : job'[i] = job[i]
      BY <1>4, <2>2, CommitEffect
    <3> QED
      BY <1>2, <2>1, <2>2, <3>1
  <2>3. CASE ~CanMove(j, s)
    BY <1>4, <2>3 DEF CommitRoute
  <2> QED
    BY <2>2, <2>3
<1>5. ASSUME NEW g \in Governesses, GovStep(g) \/ GovCrash(g)
      PROVE  \A i \in Jobs :
               \/ job'[i].state = job[i].state
               \/ job[i].state # "absent"
                    /\ job'[i].state \notin {"absent", "pending-route"}
  <2>1. CASE QueueDecision(g)
    BY <2>1, QueueEffect
  <2>2. CASE ~(FailJob(g) \/ CommitRoute(g) \/ QueueDecision(g))
    BY <1>5, <2>2
       DEF GovStep, GovStart, GovActivate, GovRetire, BeginPass, Scan,
           Recover, Route, KeepJob, FenceJob, KillWorker, GovReport,
           ReadPending, CountSlots, Decide, SpawnWorker, SpawnFails, EndPass,
           GovCrash
  <2> QED
    BY <1>3, <1>4, <2>1, <2>2
<1>6. ASSUME NEW j \in Jobs, WorkerStep(j)
      PROVE  \A i \in Jobs :
               \/ job'[i].state = job[i].state
               \/ job[i].state # "absent"
                    /\ job'[i].state \notin {"absent", "pending-route"}
  <2>1. {"claimed", "running", "completed", "escalated", "failed"}
          \subseteq JobStates \ {"pending-route"}
    BY DEF JobStates, ActiveStates, TERMINAL_STATES
  <2>2. CASE WorkerClaim(j)
    <3>1. CASE Claimable(j)
      BY <1>1, <2>2, <3>1, ClaimEffect DEF Claimable
    <3>2. CASE ~Claimable(j)
      BY <2>2, <3>2 DEF WorkerClaim
    <3> QED
      BY <3>1, <3>2
  <2>3. CASE WorkerRun(j)
    <3>1. CASE CanMove(j, "running")
      BY <1>1, <1>2, <2>1, <2>3, <3>1, MoveRecord DEF WorkerRun
    <3>2. CASE ~CanMove(j, "running")
      BY <2>3, <3>2 DEF WorkerRun
    <3> QED
      BY <3>1, <3>2
  <2>4. CASE WorkerFinish(j)
    <3>1. PICK o \in {"completed", "escalated", "failed"} :
            IF CanMove(j, o) THEN Move(j, o) ELSE UNCHANGED <<job, overdue>>
      BY <2>4 DEF WorkerFinish
    <3>2. CASE CanMove(j, o)
      BY <1>1, <1>2, <2>1, <3>1, <3>2, MoveRecord
    <3>3. CASE ~CanMove(j, o)
      BY <3>1, <3>3
    <3> QED
      BY <3>2, <3>3
  <2>5. CASE WorkerNotify(j)
    BY <2>5 DEF WorkerNotify
  <2> QED
    BY <1>6, <2>2, <2>3, <2>4, <2>5 DEF WorkerStep
<1>7. ASSUME NEW j \in Jobs, RequestRoute(j) \/ JobOverdue(j) \/ WorkerCrash(j)
      PROVE  \A i \in Jobs :
               \/ job'[i].state = job[i].state
               \/ RequestRoute(i) /\ job[i].state = "absent"
                    /\ job'[i].state = "pending-route"
  BY <1>1, <1>7, RequestEffect DEF JobOverdue, WorkerCrash
<1> QED
  BY <1>5, <1>6, <1>7 DEF Next, vars

\* A request is never forgotten, and its place in the journal is kept.
LEMMA RequestsKept ==
  ASSUME TypeInv, [Next]_vars
  PROVE  /\ Requested \subseteq Requested'
         /\ \A j \in Jobs : \/ before'[j] = before[j]
                            \/ before'[j] = Requested /\ j \notin Requested
<1>1. Requested \subseteq Requested'
  BY PendingOnce DEF Requested
<1>2. \A j \in Jobs : \/ before'[j] = before[j]
                      \/ before'[j] = Requested /\ j \notin Requested
  <2>1. CASE \E i \in Jobs : RequestRoute(i)
    BY <2>1 DEF RequestRoute, TypeInv, TypeOK
  <2>2. CASE ~\E i \in Jobs : RequestRoute(i)
    <3>1. before' = before
      BY <2>2, ZenonT(60) DEF Next, vars, GovStep, GovStart, GovActivate, GovRetire,
           BeginPass, Scan, Recover, Route, KeepJob, FenceJob, KillWorker,
           FailJob, GovReport, ReadPending, CountSlots, Decide, QueueDecision,
           CommitRoute, SpawnWorker, SpawnFails, EndPass, GovCrash, JobOverdue,
           WorkerStep, WorkerClaim, WorkerRun, WorkerFinish, WorkerNotify,
           WorkerCrash
    <3> QED
      BY <3>1
  <2> QED
    BY <2>1, <2>2
<1> QED
  BY <1>1, <1>2

\* The head of a batch stays its head.
LEMMA FirstKept ==
  ASSUME TypeInv, Batch, [Next]_vars, NEW g \in Governesses,
         NEW j \in First(gov[g].pend), gov'[g].pend = gov[g].pend
  PROVE  j \in First(gov[g].pend)'
<1>1. gov[g].pend \subseteq Requested /\ gov[g].pend \subseteq Jobs
  BY DEF Batch, TypeInv, TypeOK, GovRecord
<1>2. j \in gov[g].pend /\ before[j] \cap gov[g].pend = {}
  BY DEF First
<1>3. before'[j] = before[j]
  BY <1>1, <1>2, RequestsKept
<1> QED
  BY <1>2, <1>3 DEF First

\* What a pass has still to do stays what it read, in journal order.
LEMMA BatchStep ==
  ASSUME TypeInv, Batch, [Next]_vars PROVE Batch'
<1>1. TypeOK /\ CurrentJob
  BY DEF TypeInv
<1>2. \A j \in Jobs : before'[j] \subseteq Requested'
  BY RequestsKept DEF Batch
<1>3. ASSUME NEW g \in Governesses, gov'[g] = gov[g]
      PROVE  gov[g].pc = "commit" => gov[g].job \in First(gov[g].pend)'
  BY <1>3, FirstKept DEF Batch
<1>4. \A g \in Governesses : gov[g].pend \subseteq Requested'
  BY RequestsKept DEF Batch
<1>5. ASSUME UNCHANGED gov PROVE Batch'
  BY <1>2, <1>3, <1>4, <1>5 DEF Batch
<1>6. ASSUME NEW g \in Governesses, GovStep(g) \/ GovCrash(g)
      PROVE  Batch'
  <2>1. /\ Others(g)
        /\ gov'[g].pc \in {"down", "starting", "idle", "scan", "recover", "kill"}
             => gov'[g].pend = {}
        /\ gov'[g].pc \in {"fail", "report"} =>
             gov'[g].job \in gov'[g].pend \/ gov'[g].pend = {}
        /\ gov'[g].pc = "spawn" => gov'[g].job \in gov'[g].pend
        /\ gov'[g].pc = "commit" =>
             gov'[g].pend = gov[g].pend /\ gov'[g].job \in First(gov[g].pend)
        /\ gov'[g].pend \subseteq Requested
    <3>1. CASE \/ GovStart(g) \/ GovActivate(g) \/ GovRetire(g) \/ BeginPass(g)
               \/ GovCrash(g) \/ EndPass(g)
      BY <3>1, LeaveEffect
         DEF GovActivate, BeginPass, Batch, Advances
    <3>2. CASE Scan(g) \/ Recover(g)
      <4>1. \A j \in Jobs : j \in gov[g].pend \/ gov[g].pend = {} =>
              (j \in gov[g].pend \/ gov[g].pend \ {j} = {})
        OBVIOUS
      <4> QED
        BY <3>2, <4>1, RecoverEffect, ZenonT(60)
           DEF Scan, Recover, KeepJob, FenceJob, KillWorker, FailJob, GovReport,
               Batch, Advances, MovesOn, SameJob
    <3>3. CASE ReadPending(g)
      BY <3>3, RouteEffect DEF Requested
    <3>4. CASE CountSlots(g) \/ SpawnFails(g)
      BY <3>4, RouteEffect DEF SpawnFails, Batch, SameJob
    <3>5. CASE \E j \in Jobs : Decide(g, j)
      BY <3>5, RouteEffect DEF Decide, Batch, Advances
    <3>6. CASE QueueDecision(g) \/ SpawnWorker(g)
      BY <3>6, RouteEffect, ZenonT(60) DEF QueueDecision, SpawnWorker, Batch, MovesOn, First
    <3>7. CASE CommitRoute(g)
      BY <3>7, RouteEffect DEF CommitRoute, Batch, Advances, SameJob, First
    <3> QED
      BY <1>6, <3>1, <3>2, <3>3, <3>4, <3>5, <3>6, <3>7
         DEF GovStep, Route
  <2>2. gov'[g].pend \subseteq Requested'
    BY <2>1, RequestsKept
  <2>3. gov'[g].pc = "commit" => gov'[g].job \in First(gov[g].pend)'
    BY <2>1, FirstKept
  <2> QED
    BY <1>2, <1>3, <1>4, <2>1, <2>2, <2>3 DEF Batch, Others
<1>7. CASE \E j \in Jobs : \/ RequestRoute(j) \/ JobOverdue(j)
                           \/ WorkerStep(j) \/ WorkerCrash(j)
  BY <1>5, <1>7 DEF RequestRoute, JobOverdue, WorkerStep, WorkerClaim,
       WorkerRun, WorkerFinish, WorkerNotify, WorkerCrash
<1> QED
  BY <1>5, <1>6, <1>7 DEF Next, vars

-----------------------------------------------------------------------------
(* Requests of one tier are served in the order of the journal.            *)

\* A request that a pass left waiting while later ones were still to be
\* decided found its tier full, and the tier has not emptied in that pass.
PassedOver ==
  \A g \in Governesses, j \in Jobs, i \in Jobs :
    (/\ j \in gov[g].pend /\ i \in before[j] /\ i \notin gov[g].pend
     /\ job[i].state = "pending-route" /\ Tier[i] # DirectTier)
    => gov[g].pc # "count" /\ gov[g].count[Tier[i]] >= Limit[Tier[i]]

\* The journal still tells of the requests of a pass what it told before.
LEMMA QueueUnchanged ==
  ASSUME TypeInv, Batch, [Next]_vars, NEW g \in Governesses,
         NEW j \in gov[g].pend, NEW i \in before'[j],
         job'[i].state = "pending-route"
  PROVE  /\ j \in Jobs /\ i \in Jobs /\ i \in before[j]
         /\ job[i].state = "pending-route"
<1>1. j \in Jobs /\ j \in Requested
  BY DEF Batch, TypeInv, TypeOK, GovRecord
<1>2. before'[j] = before[j]
  BY <1>1, RequestsKept
<1>3. i \in Jobs /\ i \in Requested
  BY <1>1, <1>2 DEF Batch, TypeInv, TypeOK
<1>4. job[i].state = "pending-route"
  BY <1>3, PendingOnce DEF Requested
<1> QED
  BY <1>1, <1>2, <1>3, <1>4

\* Counting a slot only makes a tier fuller.
LEMMA SlotTaken ==
  ASSUME TypeOK, NEW g \in Governesses, NEW j \in Jobs, NEW t \in Tiers
  PROVE  /\ gov[g].count[t] \in Nat /\ TakeSlot(g, j)[t] >= gov[g].count[t]
         /\ TakeSlot(g, j)[t] \in Nat
         /\ Tier[j] = t /\ t # DirectTier =>
              TakeSlot(g, j)[t] = gov[g].count[t] + 1
<1>1. gov[g].count \in [Tiers -> Nat] /\ Tier[j] \in Tiers
  BY ConstantsAssumption DEF TypeOK, GovRecord
<1> QED
  BY <1>1 DEF TakeSlot

\* A request that a pass leaves behind is left because its tier was full.
LEMMA PassedOverStep ==
  ASSUME Ready, Batch, PassedOver, [Next]_vars PROVE PassedOver'
<1>1. TypeInv /\ TypeOK /\ CurrentJob
  BY DEF Ready, TypeInv
<1>2. ASSUME NEW g \in Governesses, gov'[g].pend \subseteq gov[g].pend,
             gov'[g].pc # "count" \/ gov[g].pc = "count",
             \A t \in Tiers : gov'[g].count[t] >= gov[g].count[t],
             \A i \in gov[g].pend \ gov'[g].pend :
               \/ job'[i].state # "pending-route" \/ Tier[i] = DirectTier
               \/ /\ gov'[g].pc # "count"
                  /\ gov'[g].count[Tier[i]] >= Limit[Tier[i]]
      PROVE  \A j \in Jobs, i \in Jobs :
               (/\ j \in gov'[g].pend /\ i \in before'[j] /\ i \notin gov'[g].pend
                /\ job'[i].state = "pending-route" /\ Tier[i] # DirectTier)
               => gov'[g].pc # "count" /\ gov'[g].count[Tier[i]] >= Limit[Tier[i]]
  <2> SUFFICES ASSUME NEW j \in Jobs, NEW i \in Jobs,
                      j \in gov'[g].pend, i \in before'[j], i \notin gov'[g].pend,
                      job'[i].state = "pending-route", Tier[i] # DirectTier
               PROVE  /\ gov'[g].pc # "count"
                      /\ gov'[g].count[Tier[i]] >= Limit[Tier[i]]
    OBVIOUS
  <2>1. i \in before[j] /\ job[i].state = "pending-route"
    BY <1>1, <1>2, QueueUnchanged
  <2>2. CASE i \in gov[g].pend
    BY <1>2, <2>2
  <2>3. CASE i \notin gov[g].pend
    <3>1. gov[g].pc # "count" /\ gov[g].count[Tier[i]] >= Limit[Tier[i]]
      BY <1>2, <2>1, <2>3 DEF PassedOver
    <3>2. /\ Tier[i] \in Tiers /\ gov[g].count[Tier[i]] \in Nat
          /\ gov'[g].count[Tier[i]] \in Nat /\ Limit[Tier[i]] \in Nat
      <4>1. TypeOK'
        BY <1>1, StepType DEF TypeInv
      <4> QED
        BY <1>1, <4>1, ConstantsAssumption DEF TypeOK, GovRecord
    <3>3. gov'[g].count[Tier[i]] >= gov[g].count[Tier[i]]
      BY <1>2, <3>2
    <3> QED
      BY <1>2, <3>1, <3>2, <3>3
  <2> QED
    BY <2>2, <2>3
<1> DEFINE Kept(g) ==
      \A j \in Jobs, i \in Jobs :
        (/\ j \in gov'[g].pend /\ i \in before'[j] /\ i \notin gov'[g].pend
         /\ job'[i].state = "pending-route" /\ Tier[i] # DirectTier)
        => gov'[g].pc # "count" /\ gov'[g].count[Tier[i]] >= Limit[Tier[i]]
<1>3. \A g \in Governesses : \A t \in Tiers :
        gov[g].count[t] \in Nat /\ gov[g].count[t] >= gov[g].count[t]
  BY <1>1 DEF TypeOK, GovRecord
<1>4. ASSUME NEW g \in Governesses, gov'[g] = gov[g] PROVE Kept(g)
  BY <1>2, <1>3, <1>4
<1>5. ASSUME NEW g \in Governesses, GovStep(g) \/ GovCrash(g) PROVE Kept(g)
  <2>1. CASE gov'[g].pend = {}
    BY <2>1
  <2>2. ASSUME NEW p, Advances(g, p), p # "count" PROVE Kept(g)
    BY <1>2, <1>3, <2>2 DEF Advances
  <2>3. ASSUME NEW j \in Jobs, MovesOn(g, j),
               \A t \in Tiers : gov'[g].count[t] >= gov[g].count[t],
               \/ job'[j].state # "pending-route" \/ Tier[j] = DirectTier
               \/ gov'[g].count[Tier[j]] >= Limit[Tier[j]]
        PROVE  Kept(g)
    <3>1. gov'[g].pc # "count" /\ gov'[g].pend = gov[g].pend \ {j}
      BY <2>3 DEF MovesOn
    <3> QED
      BY <1>2, <2>3, <3>1
  <2>4. CASE \/ GovStart(g) \/ GovActivate(g) \/ GovRetire(g) \/ BeginPass(g)
             \/ GovCrash(g) \/ EndPass(g)
    BY <1>1, <2>1, <2>2, <2>4, LeaveEffect
  <2>5. CASE Scan(g) \/ KillWorker(g) \/ \E j \in Jobs : FenceJob(g, j)
    BY <1>1, <2>2, <2>5, RecoverEffect
  <2>6. CASE \E j \in Jobs : KeepJob(g, j)
    <3>1. gov[g].pend = {}
      BY <2>6 DEF KeepJob, Batch
    <3> QED
      BY <1>1, <2>1, <2>6, <3>1, RecoverEffect DEF MovesOn
  <2>7. CASE FailJob(g)
    <3>1. /\ gov[g].job \in Jobs /\ PastRoute(gov[g].job)
          /\ job[gov[g].job].state # "absent"
      BY <1>1, <2>7
         DEF FailJob, CurrentJob, Ready, WorkIsRouted, Working, PastRoute,
             ActiveStates, TERMINAL_STATES
    <3>2. job'[gov[g].job].state # "pending-route"
      <4>1. job[gov[g].job].state # "pending-route"
        BY <3>1 DEF PastRoute, ActiveStates, TERMINAL_STATES
      <4> QED
        BY <1>1, <3>1, <4>1, PendingOnce
    <3>3. /\ gov'[g].count = gov[g].count
          /\ Advances(g, "report") \/ MovesOn(g, gov[g].job)
      BY <1>1, <2>7, RecoverEffect
    <3> QED
      BY <1>3, <2>2, <2>3, <3>1, <3>2, <3>3 DEF MovesOn
  <2>8. CASE GovReport(g)
    <3>1. gov[g].job \in Jobs /\ Settled(gov[g].job)
      BY <1>1, <2>8 DEF GovReport, CurrentJob, Ready, Reports, Debts, Owed
    <3>2. job'[gov[g].job].state # "pending-route"
      BY <2>8, <3>1 DEF GovReport, Settled, TERMINAL_STATES, ReturnedStates
    <3>3. gov'[g].count = gov[g].count /\ MovesOn(g, gov[g].job)
      BY <1>1, <2>8, RecoverEffect
    <3> QED
      BY <1>3, <2>3, <3>1, <3>2, <3>3 DEF MovesOn
  <2>9. CASE ReadPending(g)
    <3>1. \A j \in Jobs, i \in Jobs :
            job'[i].state = "pending-route" => i \in gov'[g].pend
      BY <1>1, <2>9, RouteEffect DEF ReadPending
    <3> QED
      BY <3>1
  <2>10. CASE CountSlots(g)
    <3>1. gov'[g].pend = gov[g].pend /\ job' = job /\ before' = before
      BY <1>1, <2>10, RouteEffect DEF CountSlots
    <3> QED
      BY <2>10, <3>1 DEF CountSlots, PassedOver
  <2>11. CASE \E j \in Jobs : Decide(g, j)
    BY <1>1, <2>2, <2>11, RouteEffect
  <2>12. CASE QueueDecision(g)
    <3>1. gov[g].job \in Jobs
      BY <1>1, <2>12 DEF QueueDecision, CurrentJob
    <3>2. gov'[g].count = gov[g].count /\ MovesOn(g, gov[g].job)
      BY <1>1, <2>12, RouteEffect
    <3>3. \/ Tier[gov[g].job] = DirectTier
          \/ gov'[g].count[Tier[gov[g].job]] >= Limit[Tier[gov[g].job]]
      <4>1. /\ gov[g].count[Tier[gov[g].job]] \in Nat
            /\ Limit[Tier[gov[g].job]] \in Nat
        BY <1>3, <3>1, ConstantsAssumption
      <4> QED
        BY <2>12, <3>2, <4>1 DEF QueueDecision, SlotAvailable
    <3> QED
      BY <1>3, <2>3, <3>1, <3>2, <3>3 DEF MovesOn
  <2>13. CASE CommitRoute(g)
    BY <1>1, <2>1, <2>2, <2>13, RouteEffect
  <2>14. CASE SpawnWorker(g) \/ SpawnFails(g)
    <3>1. gov[g].job \in Jobs /\ PastRoute(gov[g].job) /\ job' = job
      BY <1>1, <2>14
         DEF SpawnWorker, SpawnFails, CurrentJob, Ready, WorkIsRouted, Working
    <3>2. job'[gov[g].job].state # "pending-route"
      BY <3>1 DEF PastRoute, ActiveStates, TERMINAL_STATES
    <3>3. \A t \in Tiers : gov'[g].count[t] >= gov[g].count[t]
      BY <1>1, <2>14, <3>1, SlotTaken, RouteEffect
    <3>4. CASE SpawnWorker(g)
      <4>1. MovesOn(g, gov[g].job)
        BY <1>1, <3>4, RouteEffect
      <4> QED
        BY <2>3, <3>1, <3>2, <3>3, <4>1 DEF MovesOn
    <3>5. CASE SpawnFails(g)
      BY <1>1, <1>2, <3>3, <3>5, RouteEffect
    <3> QED
      BY <2>14, <3>4, <3>5
  <2> QED
    BY <1>5, <2>4, <2>5, <2>6, <2>7, <2>8, <2>9, <2>10, <2>11, <2>12, <2>13,
       <2>14 DEF GovStep, Recover, Route
<1>6. ASSUME NEW g \in Governesses PROVE Kept(g)
  <2>1. CASE UNCHANGED gov
    BY <1>4, <2>1
  <2>2. CASE \E h \in Governesses : GovStep(h) \/ GovCrash(h)
    <3>1. PICK h \in Governesses : GovStep(h) \/ GovCrash(h)
      BY <2>2
    <3>2. Others(h)
      BY <1>1, <3>1, LeaveEffect, RecoverEffect, RouteEffect
         DEF GovStep, Recover, Route
    <3> QED
      BY <1>4, <1>5, <3>1, <3>2 DEF Others
  <2>3. CASE \E j \in Jobs : \/ RequestRoute(j) \/ JobOverdue(j)
                             \/ WorkerStep(j) \/ WorkerCrash(j)
    BY <2>1, <2>3 DEF RequestRoute, JobOverdue, WorkerStep, WorkerClaim,
         WorkerRun, WorkerFinish, WorkerNotify, WorkerCrash
  <2> QED
    BY <2>1, <2>2, <2>3 DEF Next, vars
<1> QED
  BY <1>6 DEF PassedOver

\* Only the route transition hands a job to a helper.
LEMMA OnlyCommitOffers ==
  ASSUME Owning, [Next]_vars, NEW j \in Jobs,
         job[j].state = "pending-route", job'[j].state = "routed-utility"
  PROVE  \E g \in Governesses :
           /\ CommitRoute(g) /\ gov[g].job = j /\ gov[g].target = "utility"
           /\ SlotAvailable(g, j)
<1>1. TypeInv /\ TypeOK /\ CurrentJob
  BY DEF Owning, Ready, TypeInv
<1>2. ASSUME NEW g \in Governesses, GovStep(g) \/ GovCrash(g),
             ~CommitRoute(g)
      PROVE  FALSE
  <2>1. CASE FailJob(g)
    <3>1. gov[g].job \in Jobs
      BY <1>1, <2>1 DEF FailJob, CurrentJob
    <3> QED
      BY <1>1, <2>1, <3>1, MoveEffect DEF FailJob
  <2>2. CASE QueueDecision(g)
    BY <1>1, <2>2, QueueEffect
  <2>3. CASE ~(FailJob(g) \/ QueueDecision(g))
    BY <1>2, <2>3
       DEF GovStep, GovStart, GovActivate, GovRetire, BeginPass, Scan,
           Recover, Route, KeepJob, FenceJob, KillWorker, GovReport,
           ReadPending, CountSlots, Decide, SpawnWorker, SpawnFails, EndPass,
           GovCrash
  <2> QED
    BY <2>1, <2>2, <2>3
<1>3. ASSUME NEW i \in Jobs, \/ RequestRoute(i) \/ JobOverdue(i)
                             \/ WorkerStep(i) \/ WorkerCrash(i)
      PROVE  FALSE
  <2>1. CASE RequestRoute(i)
    BY <1>1, <2>1, RequestEffect
  <2>2. CASE WorkerClaim(i)
    BY <1>1, <2>2, ClaimEffect DEF WorkerClaim
  <2>3. CASE WorkerRun(i)
    BY <1>1, <2>3, MoveEffect DEF WorkerRun
  <2>4. CASE WorkerFinish(i)
    <3>1. PICK o \in {"completed", "escalated", "failed"} :
            IF CanMove(i, o) THEN Move(i, o) ELSE UNCHANGED <<job, overdue>>
      BY <2>4 DEF WorkerFinish
    <3> QED
      BY <1>1, <3>1, MoveEffect
  <2>5. CASE JobOverdue(i) \/ WorkerNotify(i) \/ WorkerCrash(i)
    BY <2>5 DEF JobOverdue, WorkerNotify, WorkerCrash
  <2> QED
    BY <1>3, <2>1, <2>2, <2>3, <2>4, <2>5 DEF WorkerStep
<1>4. PICK g \in Governesses : CommitRoute(g)
  BY <1>2, <1>3 DEF Next, vars
<1>5. CASE CanMove(gov[g].job, StateForDecision(gov[g].target))
  <2>1. gov[g].job = j /\ StateForDecision(gov[g].target) = "routed-utility"
    BY <1>1, <1>4, <1>5, CommitEffect
  <2>2. gov[g].target = "utility"
    BY <2>1 DEF StateForDecision
  <2> QED
    BY <1>4, <2>1, <2>2 DEF CommitRoute
<1>6. CASE ~CanMove(gov[g].job, StateForDecision(gov[g].target))
  BY <1>4, <1>6 DEF CommitRoute
<1> QED
  BY <1>5, <1>6

\* Both hold in every reachable state.
LEMMA SpecQueue == Spec => [](Batch /\ PassedOver)
<1>1. Init => Batch /\ PassedOver
  BY DEF Init, Batch, PassedOver, Down
<1>2. Orderly /\ Batch /\ PassedOver /\ [Next]_vars => Batch' /\ PassedOver'
  BY BatchStep, PassedOverStep DEF Orderly, Owning, Ready
<1> QED
  BY <1>1, <1>2, SpecOrderly, PTL DEF Spec

\* No job takes a slot of a limited tier while an earlier request of the tier
\* still waits, although a pass counts the slots once and the jobs it started
\* may end meanwhile (processPendingUtilityRoutes).
THEOREM QueueInOrder == Spec => TierQueueInOrder
<1>1. ASSUME Orderly, Batch, PassedOver, [Next]_vars,
             NEW i \in Jobs, NEW j \in Jobs,
             i \in before[j], Tier[i] = Tier[j], Tier[j] # DirectTier,
             job[i].state = "pending-route", job[j].state = "pending-route",
             job'[j].state = "routed-utility"
      PROVE  FALSE
  <2>1. PICK g \in Governesses :
          /\ CommitRoute(g) /\ gov[g].job = j /\ SlotAvailable(g, j)
    BY <1>1, OnlyCommitOffers DEF Orderly
  <2>2. j \in gov[g].pend /\ i \notin gov[g].pend
    BY <1>1, <2>1 DEF CommitRoute, Batch, First
  <2>3. gov[g].count[Tier[i]] >= Limit[Tier[i]]
    BY <1>1, <2>2 DEF PassedOver
  <2>4. gov[g].count[Tier[i]] \in Nat /\ Limit[Tier[i]] \in Nat
    BY <1>1, ConstantsAssumption
       DEF Orderly, Owning, Ready, TypeInv, TypeOK, GovRecord
  <2> QED
    BY <1>1, <2>1, <2>3, <2>4 DEF SlotAvailable
<1>2. Orderly /\ Batch /\ PassedOver /\ [Next]_vars =>
        [\A i, j \in Jobs :
           (/\ i \in before[j]
            /\ Tier[i] = Tier[j] /\ Tier[j] # DirectTier
            /\ job[i].state = "pending-route"
            /\ job[j].state = "pending-route")
           => job'[j].state # "routed-utility"]_vars
  BY <1>1
<1> QED
  BY <1>2, SpecOrderly, SpecQueue, PTL DEF Spec, TierQueueInOrder

-----------------------------------------------------------------------------
(* A tier keeps to its slots.                                              *)

Limited == Tiers \ {DirectTier}

\* The jobs of a tier that run, and those that still may be claimed: a claim
\* must carry the epoch in the file.
Occupants(t) ==
  {j \in Jobs : /\ Tier[j] = t
                /\ \/ job[j].state \in Claimed
                   \/ /\ job[j].state = "routed-utility"
                      /\ job[j].routeEpoch = epochFile}

\* The part of a pass in which its count of the slots is in use.
Counting(g) ==
  \/ gov[g].pc \in {"route", "commit", "spawn"}
  \/ gov[g].pc \in {"fail", "report"} /\ gov[g].pend # {}

\* A job is routed before its slot is counted.
NotYetCounted(g, t) ==
  IF gov[g].pc = "spawn" /\ Tier[gov[g].job] = t THEN 1 ELSE 0

SlotsCounted ==
  /\ \A j \in Jobs : Active(j) => job[j].target = "utility"
  /\ \A t \in Limited : Cardinality(Occupants(t)) <= Limit[t]
  /\ \A g \in Governesses, t \in Limited :
       Counting(g) /\ gov[g].epoch = epochFile =>
         Cardinality(Occupants(t)) <= gov[g].count[t] + NotYetCounted(g, t)

\* The occupants of a tier are finitely many jobs.
LEMMA Occupied ==
  \A t : /\ Occupants(t) \subseteq Jobs /\ IsFiniteSet(Occupants(t))
         /\ Cardinality(Occupants(t)) \in Nat
<1> SUFFICES ASSUME NEW t
             PROVE  /\ Occupants(t) \subseteq Jobs /\ IsFiniteSet(Occupants(t))
                    /\ Cardinality(Occupants(t)) \in Nat
  OBVIOUS
<1>1. Occupants(t) \subseteq Jobs
  BY DEF Occupants
<1>2. IsFiniteSet(Occupants(t))
  BY <1>1, ConstantsAssumption, FS_Subset
<1> QED
  BY <1>1, <1>2, FS_CardinalityType

\* Fewer occupants are fewer.
LEMMA FewerOccupants ==
  ASSUME NEW t, Occupants(t)' \subseteq Occupants(t)
  PROVE  /\ Cardinality(Occupants(t)') \in Nat
         /\ Cardinality(Occupants(t)') <= Cardinality(Occupants(t))
<1>1. IsFiniteSet(Occupants(t)) /\ Occupants(t)' \in SUBSET Occupants(t)
  BY Occupied
<1>2. IsFiniteSet(Occupants(t)') /\ Cardinality(Occupants(t)') <= Cardinality(Occupants(t))
  BY <1>1, FS_Subset
<1> QED
  BY <1>2, FS_CardinalityType

\* The numbers that SlotsCounted compares are naturals.
LEMMA CountNumbers ==
  ASSUME TypeOK
  PROVE  /\ \A t \in Limited : t \in Tiers /\ Limit[t] \in Nat
         /\ \A g \in Governesses, t \in Limited :
              gov[g].count[t] \in Nat /\ NotYetCounted(g, t) \in Nat
BY ConstantsAssumption DEF TypeOK, GovRecord, Limited, NotYetCounted

\* A step that adds no occupant and no count.
LEMMA SlotsKeptStep ==
  ASSUME TypeOK, TypeOK', SlotsCounted,
         \A j \in Jobs : Active(j)' => job'[j].target = "utility",
         \A t \in Limited : Occupants(t)' \subseteq Occupants(t),
         \A g \in Governesses, t \in Limited :
           Counting(g)' /\ gov'[g].epoch = epochFile' =>
             /\ Counting(g) /\ gov[g].epoch = epochFile
             /\ gov[g].count[t] + NotYetCounted(g, t)
                  <= gov'[g].count[t] + NotYetCounted(g, t)'
  PROVE  SlotsCounted'
<1>1. \A t \in Limited :
        /\ Cardinality(Occupants(t)) \in Nat
        /\ Cardinality(Occupants(t)') \in Nat
        /\ Cardinality(Occupants(t)') <= Cardinality(Occupants(t))
        /\ Limit[t] \in Nat
  BY Occupied, FewerOccupants, CountNumbers
<1>2. \A t \in Limited : Cardinality(Occupants(t)') <= Limit[t]
  <2> SUFFICES ASSUME NEW t \in Limited
               PROVE  Cardinality(Occupants(t)') <= Limit[t]
    OBVIOUS
  <2>1. Cardinality(Occupants(t)) <= Limit[t]
    BY DEF SlotsCounted
  <2> QED
    BY <1>1, <2>1
<1>3. ASSUME NEW g \in Governesses, NEW t \in Limited,
             Counting(g)', gov'[g].epoch = epochFile'
      PROVE  Cardinality(Occupants(t)') <= gov'[g].count[t] + NotYetCounted(g, t)'
  <2>1. /\ gov[g].count[t] \in Nat /\ NotYetCounted(g, t) \in Nat
        /\ gov'[g].count[t] \in Nat /\ NotYetCounted(g, t)' \in Nat
    BY CountNumbers DEF TypeOK, GovRecord, Limited, NotYetCounted
  <2>2. Cardinality(Occupants(t)) <= gov[g].count[t] + NotYetCounted(g, t)
    BY <1>3 DEF SlotsCounted
  <2>3. gov[g].count[t] + NotYetCounted(g, t)
          <= gov'[g].count[t] + NotYetCounted(g, t)'
    BY <1>3
  <2> QED
    BY <1>1, <2>1, <2>2, <2>3
<1> QED
  BY <1>2, <1>3 DEF SlotsCounted

\* A job that gives up its slot, or keeps it.
LEMMA OccupantsKept ==
  ASSUME epochFile' = epochFile,
         \A j \in Jobs :
           Active(j)' => /\ Active(j)
                         /\ job'[j].routeEpoch = job[j].routeEpoch
                         /\ job'[j].state \in Claimed =>
                              job[j].state \in Claimed
                         /\ job'[j].state = "routed-utility" =>
                              job[j].state = "routed-utility"
  PROVE  \A t : Occupants(t)' \subseteq Occupants(t)
<1>1. Claimed \subseteq ActiveStates /\ "routed-utility" \in ActiveStates
  BY DEF Claimed, ActiveStates
<1> QED
  BY <1>1 DEF Occupants, Active

\* Steps of a pass that change no job: the count stays good.
LEMMA LocalSlots ==
  ASSUME TypeOK, TypeOK', SlotsCounted, EpochsOrdered, NEW g \in Governesses,
         UNCHANGED <<job, epochFile>>, Others(g),
         \/ ~Counting(g)'
         \/ /\ Counting(g) /\ gov'[g].epoch = gov[g].epoch
            /\ \A t \in Limited :
                 gov[g].count[t] + NotYetCounted(g, t)
                   <= gov'[g].count[t] + NotYetCounted(g, t)'
  PROVE  SlotsCounted'
<1>1. \A j \in Jobs : Active(j)' => job'[j].target = "utility"
  BY DEF SlotsCounted, Active
<1>2. \A t \in Limited : Occupants(t)' \subseteq Occupants(t)
  BY DEF Occupants
<1>3. \A h \in Governesses, t \in Limited :
        Counting(h)' /\ gov'[h].epoch = epochFile' =>
          /\ Counting(h) /\ gov[h].epoch = epochFile
          /\ gov[h].count[t] + NotYetCounted(h, t)
               <= gov'[h].count[t] + NotYetCounted(h, t)'
  <2> SUFFICES ASSUME NEW h \in Governesses, NEW t \in Limited,
                      Counting(h)', gov'[h].epoch = epochFile'
               PROVE  /\ Counting(h) /\ gov[h].epoch = epochFile
                      /\ gov[h].count[t] + NotYetCounted(h, t)
                           <= gov'[h].count[t] + NotYetCounted(h, t)'
    OBVIOUS
  <2>1. gov[h].count[t] \in Nat /\ NotYetCounted(h, t) \in Nat
    BY CountNumbers
  <2>2. CASE h = g
    BY <2>2
  <2>3. CASE h # g
    <3>1. gov'[h] = gov[h]
      BY <2>3 DEF Others
    <3>2. NotYetCounted(h, t)' = NotYetCounted(h, t) /\ Counting(h)
      BY <3>1 DEF NotYetCounted, Counting
    <3> QED
      BY <2>1, <3>1, <3>2
  <2> QED
    BY <2>2, <2>3
<1> QED
  BY <1>1, <1>2, <1>3, SlotsKeptStep

\* A Governess activates its epoch: nothing has been routed under it yet.
LEMMA ActivateSlots ==
  ASSUME TypeInv, TypeInv', SlotsCounted, EpochsOrdered,
         NEW g \in Governesses, GovActivate(g)
  PROVE  SlotsCounted'
<1>1. TypeOK /\ TypeOK'
  BY DEF TypeInv
<1>2. /\ Others(g) /\ job' = job /\ gov[g].pc = "starting"
      /\ gov'[g].pc \in {"down", "idle"}
      /\ \/ epochFile' = epochFile
         \/ epochFile' = gov[g].epoch /\ ~(epochFile > gov[g].epoch)
  BY <1>1, LeaveEffect DEF GovActivate, Advances
<1>3. ~Counting(g)'
  BY <1>2 DEF Counting
<1>4. CASE epochFile' = epochFile
  BY <1>1, <1>2, <1>3, <1>4, LocalSlots
<1>5. CASE epochFile' = gov[g].epoch /\ ~(epochFile > gov[g].epoch)
  <2>1. \A j \in Jobs : job[j].routeEpoch = epochFile' =>
                          job[j].routeEpoch = epochFile
    BY <1>1, <1>5, EpochNumbers DEF EpochsOrdered
  <2>2. \A t \in Limited : Occupants(t)' \subseteq Occupants(t)
    BY <1>2, <2>1 DEF Occupants
  <2>3. \A j \in Jobs : Active(j)' => job'[j].target = "utility"
    BY <1>2 DEF SlotsCounted, Active
  <2>4. \A h \in Governesses : Counting(h)' => gov'[h].epoch # epochFile'
    <3> SUFFICES ASSUME NEW h \in Governesses, Counting(h)'
                 PROVE  gov'[h].epoch # epochFile'
      OBVIOUS
    <3>1. h # g /\ gov'[h] = gov[h] /\ gov[h].pc # "down"
      BY <1>2, <1>3 DEF Others, Counting
    <3> QED
      BY <1>2, <1>5, <3>1 DEF EpochsOrdered
  <2> QED
    BY <1>1, <2>2, <2>3, <2>4, SlotsKeptStep
<1> QED
  BY <1>2, <1>4, <1>5

\* The slots are counted: every occupant is among the jobs counted.
LEMMA CountSlotsSlots ==
  ASSUME TypeInv, TypeInv', SlotsCounted, NEW g \in Governesses, CountSlots(g)
  PROVE  SlotsCounted'
<1>1. TypeOK /\ TypeOK'
  BY DEF TypeInv
<1>2. /\ Others(g) /\ gov'[g].pc = "route" /\ job' = job
      /\ epochFile' = epochFile
      /\ \A t \in Tiers : gov'[g].count[t] =
           Cardinality({j \in Jobs : /\ job[j].state \in ActiveStates
                                     /\ job[j].target = "utility"
                                     /\ Tier[j] = t})
  BY RouteEffect DEF CountSlots
<1>3. ASSUME NEW t \in Limited
      PROVE  Cardinality(Occupants(t)') <= gov'[g].count[t] + NotYetCounted(g, t)'
  <2> DEFINE S == {j \in Jobs : /\ job[j].state \in ActiveStates
                                /\ job[j].target = "utility"
                                /\ Tier[j] = t}
  <2>1. Occupants(t)' = Occupants(t) /\ NotYetCounted(g, t)' = 0
    BY <1>2 DEF Occupants, NotYetCounted
  <2>2. Occupants(t) \in SUBSET S
    BY DEF Occupants, SlotsCounted, Active, Claimed, ActiveStates
  <2>3. IsFiniteSet(S)
    <3>1. S \in SUBSET Jobs
      OBVIOUS
    <3> QED
      BY <3>1, ConstantsAssumption, FS_Subset
  <2>4. Cardinality(S) \in Nat /\ Cardinality(Occupants(t)) <= Cardinality(S)
    BY <2>2, <2>3, FS_Subset, FS_CardinalityType
  <2>5. gov'[g].count[t] = Cardinality(S)
    BY <1>2 DEF Limited
  <2> HIDE DEF S
  <2> QED
    BY <2>1, <2>4, <2>5
<1>4. \A t \in Limited : Occupants(t)' = Occupants(t)
  BY <1>2 DEF Occupants
<1>5. ASSUME NEW h \in Governesses \ {g}, NEW t \in Limited,
             Counting(h)', gov'[h].epoch = epochFile'
      PROVE  Cardinality(Occupants(t)') <= gov'[h].count[t] + NotYetCounted(h, t)'
  <2>1. gov'[h] = gov[h]
    BY <1>2 DEF Others
  <2>2. Counting(h) /\ NotYetCounted(h, t)' = NotYetCounted(h, t)
    BY <1>5, <2>1 DEF Counting, NotYetCounted
  <2> QED
    BY <1>2, <1>4, <1>5, <2>1, <2>2 DEF SlotsCounted
<1>6. \A h \in Governesses, t \in Limited :
        Counting(h)' /\ gov'[h].epoch = epochFile' =>
          Cardinality(Occupants(t)') <= gov'[h].count[t] + NotYetCounted(h, t)'
  BY <1>3, <1>5
<1> QED
  BY <1>2, <1>4, <1>6 DEF SlotsCounted, Active

\* A job is offered to a helper while the count leaves a slot.
LEMMA OfferSlots ==
  ASSUME TypeInv, TypeInv', SlotsCounted, EpochsOrdered,
         NEW g \in Governesses, CommitRoute(g), gov[g].target = "utility",
         CanMove(gov[g].job, StateForDecision(gov[g].target))
  PROVE  SlotsCounted'
<1> PICK j : j = gov[g].job
  OBVIOUS
<1>1. TypeOK /\ TypeOK' /\ gov[g].pc = "commit" /\ SlotAvailable(g, j)
  BY DEF TypeInv, CommitRoute
<1>2. /\ j \in Jobs /\ job'[j].state = "routed-utility"
      /\ job'[j].routeEpoch = gov[g].epoch /\ job'[j].target = "utility"
      /\ \A i \in Jobs \ {j} : job'[i] = job[i]
  BY CommitEffect DEF StateForDecision
<1>3. /\ Others(g) /\ gov'[g].pc = "spawn" /\ gov'[g].job = j
      /\ gov'[g].count = gov[g].count /\ gov'[g].epoch = gov[g].epoch
      /\ epochFile' = epochFile
  BY RouteEffect DEF Advances, SameJob, CommitRoute
<1>4. \A t : Occupants(t)' \subseteq Occupants(t) \cup {j}
  BY <1>2, <1>3 DEF Occupants
<1>5. \A t : (Tier[j] # t \/ gov[g].epoch # epochFile) =>
               Occupants(t)' \subseteq Occupants(t)
  BY <1>2, <1>3 DEF Occupants, Claimed
<1>6. ASSUME NEW t \in Limited
      PROVE  /\ Cardinality(Occupants(t)') \in Nat
             /\ Cardinality(Occupants(t)') <= Cardinality(Occupants(t)) + 1
  <2>1. /\ IsFiniteSet(Occupants(t) \cup {j})
        /\ Cardinality(Occupants(t) \cup {j}) <= Cardinality(Occupants(t)) + 1
    BY Occupied, FS_AddElement
  <2>2. Occupants(t)' \in SUBSET (Occupants(t) \cup {j})
    BY <1>4
  <2>3. /\ IsFiniteSet(Occupants(t)')
        /\ Cardinality(Occupants(t)') <= Cardinality(Occupants(t) \cup {j})
    BY <2>1, <2>2, FS_Subset
  <2> QED
    BY <2>1, <2>3, Occupied, FS_CardinalityType
<1>7. \A t \in Limited : /\ Limit[t] \in Nat /\ t \in Tiers /\ t # DirectTier
                         /\ Cardinality(Occupants(t)) \in Nat
                         /\ Cardinality(Occupants(t)) <= Limit[t]
  BY <1>1, Occupied, CountNumbers DEF SlotsCounted, Limited
<1>8. \A t \in Limited :
        gov[g].epoch = epochFile =>
          Cardinality(Occupants(t)) <= gov[g].count[t]
  <2> SUFFICES ASSUME NEW t \in Limited, gov[g].epoch = epochFile
               PROVE  Cardinality(Occupants(t)) <= gov[g].count[t]
    OBVIOUS
  <2>1. Counting(g) /\ NotYetCounted(g, t) = 0
    BY <1>1 DEF Counting, NotYetCounted
  <2>2. Cardinality(Occupants(t)) <= gov[g].count[t] + 0
    BY <2>1 DEF SlotsCounted
  <2>3. gov[g].count[t] \in Nat
    BY <1>1, CountNumbers
  <2> QED
    BY <2>2, <2>3
<1>9. \A t \in Limited : Cardinality(Occupants(t)') <= Limit[t]
  <2> SUFFICES ASSUME NEW t \in Limited
               PROVE  Cardinality(Occupants(t)') <= Limit[t]
    OBVIOUS
  <2>1. CASE Tier[j] = t /\ gov[g].epoch = epochFile
    <3>1. gov[g].count[t] < Limit[t] /\ gov[g].count[t] \in Nat
      BY <1>1, <1>7, <2>1, CountNumbers DEF SlotAvailable
    <3> QED
      BY <1>6, <1>7, <1>8, <2>1, <3>1
  <2>2. CASE Tier[j] # t \/ gov[g].epoch # epochFile
    BY <1>5, <1>7, <2>2, FewerOccupants
  <2> QED
    BY <2>1, <2>2
<1>10. ASSUME NEW t \in Limited, gov[g].epoch = epochFile
       PROVE  Cardinality(Occupants(t)') <= gov'[g].count[t] + NotYetCounted(g, t)'
  <2>1. gov[g].count[t] \in Nat /\ Cardinality(Occupants(t)) <= gov[g].count[t]
    BY <1>1, <1>8, <1>10, CountNumbers
  <2>2. NotYetCounted(g, t)' = IF Tier[j] = t THEN 1 ELSE 0
    BY <1>3 DEF NotYetCounted
  <2>3. CASE Tier[j] = t
    BY <1>3, <1>6, <1>7, <2>1, <2>2, <2>3
  <2>4. CASE Tier[j] # t
    BY <1>3, <1>5, <1>6, <1>7, <2>1, <2>2, <2>4, FewerOccupants
  <2> QED
    BY <2>3, <2>4
<1>11. ASSUME NEW h \in Governesses \ {g}, NEW t \in Limited,
              Counting(h)', gov'[h].epoch = epochFile'
       PROVE  Cardinality(Occupants(t)') <= gov'[h].count[t] + NotYetCounted(h, t)'
  <2>1. gov'[h] = gov[h] /\ gov[h].pc # "down"
    BY <1>3, <1>11 DEF Others, Counting
  <2>2. Counting(h) /\ NotYetCounted(h, t)' = NotYetCounted(h, t)
    BY <1>11, <2>1 DEF Counting, NotYetCounted
  <2>3. gov[g].epoch # epochFile
    BY <1>1, <1>3, <1>11, <2>1 DEF EpochsOrdered
  <2>4. Cardinality(Occupants(t)) <= gov[h].count[t] + NotYetCounted(h, t)
    BY <1>3, <1>11, <2>1, <2>2 DEF SlotsCounted
  <2>5. gov[h].count[t] \in Nat /\ NotYetCounted(h, t) \in Nat
    BY <1>1, CountNumbers
  <2>6. Cardinality(Occupants(t)') <= Cardinality(Occupants(t))
    BY <1>5, <2>3, FewerOccupants
  <2> QED
    BY <1>6, <1>7, <2>1, <2>2, <2>4, <2>5, <2>6
<1>12. \A h \in Governesses, t \in Limited :
         Counting(h)' /\ gov'[h].epoch = epochFile' =>
           Cardinality(Occupants(t)') <= gov'[h].count[t] + NotYetCounted(h, t)'
  BY <1>3, <1>10, <1>11
<1>13. \A i \in Jobs : Active(i)' => job'[i].target = "utility"
  BY <1>2 DEF SlotsCounted, Active
<1> QED
  BY <1>9, <1>12, <1>13 DEF SlotsCounted

\* No step of a Governess breaks SlotsCounted.
LEMMA SlotsGovStep ==
  ASSUME Orderly, Orderly', Batch, Batch', SlotsCounted,
         NEW g \in Governesses, GovStep(g) \/ GovCrash(g)
  PROVE  SlotsCounted'
<1>1. /\ TypeInv /\ TypeOK /\ CurrentJob /\ EpochsOrdered
      /\ TypeInv' /\ TypeOK'
  BY DEF Orderly, Owning, Ready, TypeInv
<1>2. Others(g)
  BY <1>1, LeaveEffect, RecoverEffect, RouteEffect DEF GovStep, Recover, Route
<1>3. \A t \in Limited :
        gov[g].count[t] \in Nat /\ NotYetCounted(g, t) \in Nat
        /\ gov'[g].count[t] \in Nat
  BY <1>1, CountNumbers DEF TypeOK, GovRecord, Limited
<1>4. CASE \/ GovStart(g) \/ GovRetire(g) \/ GovCrash(g) \/ EndPass(g)
           \/ BeginPass(g) \/ Scan(g) \/ ReadPending(g)
  <2>1. ~Counting(g)'
    BY <1>1, <1>4, LeaveEffect, RecoverEffect, RouteEffect DEF Counting, Advances
  <2>2. UNCHANGED <<job, epochFile>>
    <3>1. CASE BeginPass(g)
      <4>1. gov[g].epoch <= epochFile /\ epochFile <= gov[g].epoch
        BY <1>1, <3>1 DEF BeginPass, EpochsOrdered, Up
      <4> QED
        BY <1>1, <3>1, <4>1, EpochNumbers DEF BeginPass
    <3>2. CASE ~BeginPass(g)
      BY <1>4, <3>2 DEF GovStart, GovRetire, GovCrash, EndPass, Scan, ReadPending
    <3> QED
      BY <3>1, <3>2
  <2> QED
    BY <1>1, <1>2, <2>1, <2>2, LocalSlots
<1>5. CASE \/ KillWorker(g) \/ \E j \in Jobs : KeepJob(g, j) \/ FenceJob(g, j)
  <2>1. gov[g].pend = {}
    BY <1>5 DEF KillWorker, KeepJob, FenceJob, Batch
  <2>2. ~Counting(g)'
    BY <1>1, <1>5, <2>1, RecoverEffect DEF Counting, Advances, MovesOn
  <2>3. UNCHANGED <<job, epochFile>>
    BY <1>5 DEF KillWorker, KeepJob, FenceJob
  <2> QED
    BY <1>1, <1>2, <2>2, <2>3, LocalSlots
<1>6. CASE GovActivate(g)
  BY <1>1, <1>6, ActivateSlots
<1>7. CASE CountSlots(g)
  BY <1>1, <1>7, CountSlotsSlots
<1>8. CASE \E j \in Jobs : Decide(g, j)
  <2>1. /\ Counting(g) /\ gov'[g].epoch = gov[g].epoch
        /\ gov'[g].count = gov[g].count
        /\ gov[g].pc = "route" /\ gov'[g].pc = "commit"
        /\ UNCHANGED <<job, epochFile>>
    BY <1>1, <1>8, RouteEffect DEF Decide, Counting, Advances
  <2>2. \A t : NotYetCounted(g, t) = 0 /\ NotYetCounted(g, t)' = 0
    BY <2>1 DEF NotYetCounted
  <2> QED
    BY <1>1, <1>2, <1>3, <2>1, <2>2, LocalSlots
<1>9. CASE GovReport(g)
  <2>1. /\ MovesOn(g, gov[g].job) /\ gov'[g].count = gov[g].count
        /\ gov[g].pc = "report" /\ UNCHANGED <<job, epochFile>>
    BY <1>1, <1>9, RecoverEffect DEF GovReport
  <2>2. \A t : NotYetCounted(g, t) = 0 /\ NotYetCounted(g, t)' = 0
    BY <2>1 DEF NotYetCounted, MovesOn
  <2>3. Counting(g)' => Counting(g) /\ gov'[g].epoch = gov[g].epoch
    BY <2>1 DEF Counting, MovesOn
  <2> QED
    BY <1>1, <1>2, <1>3, <2>1, <2>2, <2>3, LocalSlots
<1>10. CASE SpawnWorker(g) \/ SpawnFails(g)
  <2>1. /\ gov[g].job \in Jobs /\ gov[g].pc = "spawn"
        /\ UNCHANGED <<job, epochFile>>
    BY <1>1, <1>10 DEF SpawnWorker, SpawnFails, CurrentJob
  <2>2. /\ gov'[g].count = TakeSlot(g, gov[g].job)
        /\ gov'[g].pc # "spawn" /\ gov'[g].epoch = gov[g].epoch
    BY <1>1, <1>10, RouteEffect DEF MovesOn
  <2>3. ASSUME NEW t \in Limited
        PROVE  gov[g].count[t] + NotYetCounted(g, t)
                 <= gov'[g].count[t] + NotYetCounted(g, t)'
    <3>1. t \in Tiers /\ t # DirectTier
      BY DEF Limited
    <3>2. /\ TakeSlot(g, gov[g].job)[t] \in Nat
          /\ TakeSlot(g, gov[g].job)[t] >= gov[g].count[t]
          /\ Tier[gov[g].job] = t =>
               TakeSlot(g, gov[g].job)[t] = gov[g].count[t] + 1
      BY <1>1, <2>1, <3>1, SlotTaken
    <3>3. /\ NotYetCounted(g, t)' = 0
          /\ NotYetCounted(g, t) = IF Tier[gov[g].job] = t THEN 1 ELSE 0
      BY <2>1, <2>2 DEF NotYetCounted
    <3> QED
      BY <1>3, <2>2, <3>2, <3>3
  <2>4. Counting(g)
    BY <2>1 DEF Counting
  <2> QED
    BY <1>1, <1>2, <2>1, <2>2, <2>3, <2>4, LocalSlots
<1>11. ASSUME \A t : Occupants(t)' \subseteq Occupants(t),
              \A j \in Jobs : Active(j)' => job'[j].target = "utility",
              epochFile' = epochFile,
              \/ ~Counting(g)'
              \/ /\ Counting(g) /\ gov'[g].epoch = gov[g].epoch
                 /\ gov'[g].count = gov[g].count
                 /\ gov[g].pc # "spawn"
       PROVE  SlotsCounted'
  <2>1. \A h \in Governesses, t \in Limited :
          Counting(h)' /\ gov'[h].epoch = epochFile' =>
            /\ Counting(h) /\ gov[h].epoch = epochFile
            /\ gov[h].count[t] + NotYetCounted(h, t)
                 <= gov'[h].count[t] + NotYetCounted(h, t)'
    <3> SUFFICES ASSUME NEW h \in Governesses, NEW t \in Limited,
                        Counting(h)', gov'[h].epoch = epochFile'
                 PROVE  /\ Counting(h) /\ gov[h].epoch = epochFile
                        /\ gov[h].count[t] + NotYetCounted(h, t)
                             <= gov'[h].count[t] + NotYetCounted(h, t)'
      OBVIOUS
    <3>1. /\ gov[h].count[t] \in Nat /\ NotYetCounted(h, t) \in Nat
          /\ NotYetCounted(h, t)' \in Nat
      BY <1>1, CountNumbers DEF NotYetCounted
    <3>2. CASE h = g
      <4>1. NotYetCounted(g, t) = 0
        BY <1>11, <3>2 DEF NotYetCounted
      <4> QED
        BY <1>11, <3>1, <3>2, <4>1
    <3>3. CASE h # g
      <4>1. gov'[h] = gov[h]
        BY <1>2, <3>3 DEF Others
      <4>2. NotYetCounted(h, t)' = NotYetCounted(h, t) /\ Counting(h)
        BY <4>1 DEF NotYetCounted, Counting
      <4> QED
        BY <1>11, <3>1, <4>1, <4>2
    <3> QED
      BY <3>2, <3>3
  <2> QED
    BY <1>1, <1>11, <2>1, SlotsKeptStep
<1>12. CASE FailJob(g)
  <2>1. /\ gov[g].job \in Jobs /\ epochFile' = epochFile /\ gov[g].pc = "fail"
        /\ gov'[g].count = gov[g].count /\ gov'[g].epoch = gov[g].epoch
    BY <1>1, <1>12, RecoverEffect DEF FailJob, CurrentJob, Advances, MovesOn
  <2>2. \A i \in Jobs : job'[i] = job[i] \/ job'[i].state = "failed"
    BY <1>1, <1>12, <2>1, MoveRecord DEF FailJob
  <2>3. \A i \in Jobs : Active(i)' => job'[i] = job[i]
    BY <2>2, EndedInactive DEF Active, TERMINAL_STATES
  <2>4. \A t : Occupants(t)' \subseteq Occupants(t)
    BY <2>1, <2>3, OccupantsKept DEF Active
  <2>5. \A j \in Jobs : Active(j)' => job'[j].target = "utility"
    BY <2>3 DEF SlotsCounted, Active
  <2>6. Counting(g)' => Counting(g)
    BY <1>1, <1>12, <2>1, RecoverEffect DEF Counting, Advances, MovesOn
  <2> QED
    BY <1>11, <2>1, <2>4, <2>5, <2>6
<1>13. CASE QueueDecision(g)
  <2>1. /\ epochFile' = epochFile /\ gov[g].pc = "commit" /\ Counting(g)
        /\ gov'[g].count = gov[g].count /\ gov'[g].epoch = gov[g].epoch
    BY <1>1, <1>13, RouteEffect DEF QueueDecision, MovesOn, Counting
  <2>2. \A t : Occupants(t)' \subseteq Occupants(t)
    BY <1>1, <1>13, <2>1, QueueEffect, OccupantsKept DEF Active
  <2>3. \A j \in Jobs : Active(j)' => job'[j].target = "utility"
    BY <1>1, <1>13, QueueEffect DEF SlotsCounted, Active
  <2> QED
    BY <1>11, <2>1, <2>2, <2>3
<1>14. CASE CommitRoute(g)
  <2> PICK j, s : j = gov[g].job /\ s = StateForDecision(gov[g].target)
    OBVIOUS
  <2>1. epochFile' = epochFile /\ gov[g].pc = "commit" /\ Counting(g)
    BY <1>14 DEF CommitRoute, Counting
  <2>2. CASE ~CanMove(j, s)
    <3>1. job' = job /\ gov'[g].pc = "idle"
      BY <1>1, <1>14, <2>2, RouteEffect DEF CommitRoute
    <3> QED
      BY <1>1, <1>2, <2>1, <3>1, LocalSlots DEF Counting
  <2>3. CASE CanMove(j, s) /\ gov[g].target = "utility"
    BY <1>1, <1>14, <2>3, OfferSlots
  <2>4. CASE CanMove(j, s) /\ gov[g].target # "utility"
    <3>1. job'[j].state = s /\ \A i \in Jobs \ {j} : job'[i] = job[i]
      BY <1>1, <1>14, <2>4, CommitEffect
    <3>2. s \in TERMINAL_STATES \cup ReturnedStates
      BY <2>4 DEF StateForDecision, TERMINAL_STATES, ReturnedStates
    <3>3. \A i \in Jobs : Active(i)' => job'[i] = job[i]
      BY <3>1, <3>2, EndedInactive DEF Active
    <3>4. \A t : Occupants(t)' \subseteq Occupants(t)
      BY <2>1, <3>3, OccupantsKept DEF Active
    <3>5. \A i \in Jobs : Active(i)' => job'[i].target = "utility"
      BY <3>3 DEF SlotsCounted, Active
    <3>6. gov'[g].count = gov[g].count /\ gov'[g].epoch = gov[g].epoch
      BY <1>1, <1>14, <2>4, RouteEffect DEF Advances
    <3> QED
      BY <1>11, <2>1, <3>4, <3>5, <3>6
  <2> QED
    BY <2>2, <2>3, <2>4
<1> QED
  BY <1>4, <1>5, <1>6, <1>7, <1>8, <1>9, <1>10, <1>12, <1>13, <1>14
     DEF GovStep, Recover, Route

\* No step of a worker breaks SlotsCounted: it claims what was counted.
LEMMA SlotsWorkerStep ==
  ASSUME Orderly, Orderly', SlotsCounted, NEW j \in Jobs,
         \/ RequestRoute(j) \/ JobOverdue(j)
         \/ WorkerStep(j) \/ WorkerCrash(j)
  PROVE  SlotsCounted'
<1>1. TypeOK /\ TypeOK'
  BY DEF Orderly, Owning, Ready, TypeInv
<1>2. gov' = gov /\ epochFile' = epochFile
  BY DEF RequestRoute, JobOverdue, WorkerStep, WorkerClaim, WorkerRun,
         WorkerFinish, WorkerNotify, WorkerCrash
<1>3. ASSUME \A t : Occupants(t)' \subseteq Occupants(t),
             \A i \in Jobs : Active(i)' => job'[i].target = "utility"
      PROVE  SlotsCounted'
  <2>1. \A g \in Governesses, t \in Limited :
          Counting(g)' /\ gov'[g].epoch = epochFile' =>
            /\ Counting(g) /\ gov[g].epoch = epochFile
            /\ gov[g].count[t] + NotYetCounted(g, t)
                 <= gov'[g].count[t] + NotYetCounted(g, t)'
    <3>1. \A g \in Governesses, t \in Limited :
            gov[g].count[t] \in Nat /\ NotYetCounted(g, t) \in Nat
      BY <1>1, CountNumbers
    <3>2. \A g \in Governesses, t \in Limited :
            /\ NotYetCounted(g, t)' = NotYetCounted(g, t)
            /\ Counting(g)' => Counting(g)
      BY <1>2 DEF NotYetCounted, Counting
    <3> QED
      BY <1>2, <3>1, <3>2
  <2> QED
    BY <1>1, <1>3, <2>1, SlotsKeptStep
<1>4. ASSUME \A i \in Jobs :
               Active(i)' => /\ Active(i) /\ job'[i].target = job[i].target
                             /\ job'[i].routeEpoch = job[i].routeEpoch
                             /\ job'[i].state \in Claimed =>
                                  job[i].state \in Claimed
                             /\ job'[i].state = "routed-utility" =>
                                  job[i].state = "routed-utility"
      PROVE  SlotsCounted'
  <2>1. \A t : Occupants(t)' \subseteq Occupants(t)
    BY <1>2, <1>4, OccupantsKept
  <2>2. \A i \in Jobs : Active(i)' => job'[i].target = "utility"
    BY <1>4 DEF SlotsCounted
  <2> QED
    BY <1>3, <2>1, <2>2
<1>5. CASE job' = job
  BY <1>4, <1>5 DEF Active
<1>6. CASE RequestRoute(j)
  <2>1. ~Active(j)'
    BY <1>1, <1>6, RequestEffect DEF Active, ActiveStates
  <2> QED
    BY <1>1, <1>4, <1>6, <2>1, RequestEffect DEF Active
<1>7. CASE WorkerClaim(j)
  <2>1. CASE Claimable(j)
    <3>1. /\ job'[j].state = "claimed" /\ job[j].state = "routed-utility"
          /\ job'[j].target = job[j].target
          /\ job[j].routeEpoch = epochFile
          /\ \A i \in Jobs \ {j} : job'[i] = job[i]
      BY <1>1, <1>7, <2>1, ClaimEffect DEF Claimable
    <3>2. \A t : Occupants(t)' \subseteq Occupants(t)
      BY <1>2, <3>1 DEF Occupants, Claimed
    <3>3. \A i \in Jobs : Active(i)' => job'[i].target = "utility"
      BY <3>1 DEF SlotsCounted, Active, ActiveStates
    <3> QED
      BY <1>3, <3>2, <3>3
  <2>2. CASE ~Claimable(j)
    BY <1>5, <1>7, <2>2 DEF WorkerClaim
  <2> QED
    BY <2>1, <2>2
<1>8. CASE WorkerRun(j)
  <2>1. CASE CanMove(j, "running")
    <3>1. job[j].state = "claimed"
      BY <1>1, <2>1 DEF CanMove, Requested, TypeOK, JobRecord, JobStates,
           ALLOWED_TRANSITIONS, TERMINAL_STATES, ActiveStates, ReturnedStates
    <3>2. /\ job'[j].routeEpoch = job[j].routeEpoch
          /\ job'[j].state = "running" /\ job'[j].target = job[j].target
          /\ \A i \in Jobs \ {j} : job'[i] = job[i]
      BY <1>1, <1>8, <2>1, MoveRecord DEF WorkerRun
    <3> QED
      BY <1>4, <3>1, <3>2 DEF Active, ActiveStates, Claimed
  <2>2. CASE ~CanMove(j, "running")
    BY <1>5, <1>8, <2>2 DEF WorkerRun
  <2> QED
    BY <2>1, <2>2
<1>9. CASE WorkerFinish(j)
  <2>1. PICK o \in {"completed", "escalated", "failed"} :
          IF CanMove(j, o) THEN Move(j, o) ELSE UNCHANGED <<job, overdue>>
    BY <1>9 DEF WorkerFinish
  <2>2. \A i \in Jobs : job'[i] = job[i] \/ job'[i].state = o
    BY <1>1, <2>1, MoveRecord
  <2>3. \A i \in Jobs : Active(i)' => job'[i] = job[i]
    BY <2>2, EndedInactive DEF Active, TERMINAL_STATES
  <2> QED
    BY <1>4, <2>3 DEF Active
<1>10. CASE JobOverdue(j) \/ WorkerNotify(j) \/ WorkerCrash(j)
  BY <1>5, <1>10 DEF JobOverdue, WorkerNotify, WorkerCrash
<1> QED
  BY <1>6, <1>7, <1>8, <1>9, <1>10 DEF WorkerStep

\* The claimed and running jobs of a tier never exceed its slots: a pass that
\* counts once, jobs that end and start while it routes, a worker that takes
\* long to claim, and a change of Governess in the middle of it all
\* (countOccupiedSlots, claimUtilityJob).
THEOREM SlotsKept == Spec => []ClaimedWithinLimit
<1>1. Init => SlotsCounted
  <2> SUFFICES ASSUME Init PROVE SlotsCounted
    OBVIOUS
  <2>1. \A j \in Jobs : job[j].state \notin ActiveStates \cup Claimed
                          /\ job[j].state # "routed-utility"
    BY DEF Init, ActiveStates, Claimed
  <2>2. \A t : Occupants(t) = {}
    BY <2>1 DEF Occupants
  <2>3. \A t \in Limited : Cardinality(Occupants(t)) = 0 /\ Limit[t] \in Nat
    BY <2>2, FS_EmptySet, ConstantsAssumption DEF Limited
  <2>4. \A g \in Governesses : ~Counting(g)
    BY DEF Init, Counting, Down
  <2> QED
    BY <2>1, <2>3, <2>4 DEF SlotsCounted, Active
<1>2. /\ Orderly /\ Batch /\ SlotsCounted
      /\ Orderly' /\ Batch' /\ [Next]_vars
      => SlotsCounted'
  <2> SUFFICES ASSUME Orderly, Batch, SlotsCounted, Orderly', Batch', [Next]_vars
               PROVE  SlotsCounted'
    OBVIOUS
  <2>1. CASE UNCHANGED vars
    BY <2>1 DEF vars, SlotsCounted, Active, Occupants, Counting, NotYetCounted
  <2>2. CASE Next
    BY <2>2, SlotsGovStep, SlotsWorkerStep DEF Next
  <2> QED
    BY <2>1, <2>2
<1>3. SlotsCounted => ClaimedWithinLimit
  <2> SUFFICES ASSUME SlotsCounted, NEW t \in Limited
               PROVE  Cardinality({j \in Jobs :
                                     /\ job[j].state \in {"claimed", "running"}
                                     /\ Tier[j] = t}) <= Limit[t]
    BY DEF ClaimedWithinLimit, Limited
  <2> DEFINE S == {j \in Jobs : /\ job[j].state \in {"claimed", "running"}
                                /\ Tier[j] = t}
  <2>1. S \in SUBSET Occupants(t) /\ IsFiniteSet(Occupants(t))
    BY Occupied DEF Occupants, Claimed
  <2>2. IsFiniteSet(S) /\ Cardinality(S) <= Cardinality(Occupants(t))
    BY <2>1, FS_Subset
  <2>3. Cardinality(S) \in Nat /\ Cardinality(Occupants(t)) \in Nat
    BY <2>2, Occupied, FS_CardinalityType
  <2>4. Cardinality(Occupants(t)) <= Limit[t] /\ Limit[t] \in Nat
    BY ConstantsAssumption DEF SlotsCounted, Limited
  <2> HIDE DEF S
  <2>5. Cardinality(S) <= Limit[t]
    BY <2>2, <2>3, <2>4
  <2> QED
    BY <2>5 DEF S
<1> QED
  BY <1>1, <1>2, <1>3, SpecOrderly, SpecQueue, PTL DEF Spec
=============================================================================
