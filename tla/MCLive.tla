------------------------------- MODULE MCLive -------------------------------
(***************************************************************************)
(* The parts that must come to something, checked in one run: the store    *)
(* lock, helper jobs with one Governess, the fence of the Governess with   *)
(* the restart of its pane, the leases of native children; and, checked    *)
(* for safety alone, the control journal and the loop.  Init chooses the   *)
(* part of a behaviour; the variables of the others rest.                  *)
(***************************************************************************)
EXTENDS StoreLock, FiniteSets

CONSTANTS Parts, MaxEpoch, j1, j2, g1,          \* UtilityJobs
          MaxStarts, Beside, Limit, MaxWindows, \* GovernessFence
          Children, NoChild,                    \* NativeFallback
          Controls, MaxObs, CompactAt,          \* ControlJournal
          Primary, Peer, MaxIterations, MaxHops, MaxMsgs, MaxFollowUps, MaxCrashes,
          Outputs                               \* WorkLoop

VARIABLE part
VARIABLES epochFile, nextEpoch, job, before, overdue, worker, gov, sent
VARIABLES file, utility, loop, started, beside, pane, owned, attempts, hook, respawns,
          late, windows, fenceFaults
VARIABLES lease, settled, epoch, child, served
VARIABLES setup, state, at, ret, i, out, notes, owed, said, earned, queue, msg, count, hops,
          toPrimary, prompts, crashes
VARIABLES journal, end, gen, archive, written, disk, cache, proc, fence, effects, controlFaults

jobVars == <<epochFile, nextEpoch, job, before, overdue, worker, gov, sent>>
fenceVars == <<file, utility, loop, started, beside, pane, owned, attempts, hook, respawns,
               late, windows, fenceFaults>>
nativeVars == <<lease, settled, epoch, child, served>>
journalVars == <<journal, end, gen, archive, written, disk, cache, proc, fence, effects,
                 controlFaults>>
workVars == <<setup, state, at, ret, i, out, notes, owed, said, earned, queue, msg, count, hops,
              toPrimary, prompts, crashes>>
liveVars == <<part, vars, jobVars, fenceVars, nativeVars, journalVars, workVars>>

-----------------------------------------------------------------------------
(* The small instances.                                                    *)

\* One slot for two small jobs; the second one may go elsewhere.
OneSlot == [t \in {"direct", "nanny"} |-> 1]
Nannied == [j \in {j1, j2} |-> "nanny"]
AllTargets == {"utility", "driver", "peer", "requester", "escalate"}
Routes == [j \in {j1, j2} |-> IF j = j1 THEN {"utility"} ELSE AllTargets]
NoScope == [j \in {j1, j2} |-> {}]
Pipeline == INSTANCE UtilityJobs WITH
          Jobs <- {j1, j2}, Governesses <- {g1}, Tiers <- {"direct", "nanny"},
          DirectTier <- "direct", Tier <- Nannied, Limit <- OneSlot, Wanted <- Routes,
          Scope <- NoScope, NoJob <- NoChild

Fence == INSTANCE GovernessFence WITH MaxFaults <- 1, gov <- loop, faults <- fenceFaults

Native == INSTANCE NativeFallback WITH Requests <- 1..2, Mode <- "utility-first"

\* One Governess after the other.
Journal == INSTANCE ControlJournal WITH
          Overlap <- FALSE, MaxFaults <- 1, faults <- controlFaults

\* Reviews: one that passes, one that changes its mind, one that fails as a process, one
\* without a verdict.
Said(c, p, b) == [code |-> c, parsed |-> p, combined |-> b]
Reviews ==
  {Said(0, <<"text", "pass", "blank">>, <<"fail">>), Said(0, <<"text">>, <<"fail", "pass">>),
   Said(1, <<"pass">>, << >>), Said(0, << >>, <<"text">>)}
Work == INSTANCE WorkLoop WITH pc <- at

ASSUME LiveAssumption ==
  /\ Pipeline!ConstantsAssumption /\ Fence!FenceAssumption /\ Native!NativeAssumption
  /\ Journal!JournalAssumption /\ Work!LoopConstants

-----------------------------------------------------------------------------
LiveInit ==
  /\ part \in Parts /\ Init /\ Pipeline!Init /\ Fence!Init /\ Native!Init /\ Journal!Init
  /\ Work!Init /\ (part = "work" \/ setup = [paired |-> TRUE, human |-> FALSE, reviewers |-> {Peer}])

\* The others rest.
InLock ==
  part = "lock" /\ UNCHANGED <<part, jobVars, fenceVars, nativeVars, journalVars, workVars>>
InPipeline ==
  part = "jobs" /\ UNCHANGED <<part, vars, fenceVars, nativeVars, journalVars, workVars>>
InFence == part = "fence" /\ UNCHANGED <<part, vars, jobVars, nativeVars, journalVars, workVars>>
InNative == part = "native" /\ UNCHANGED <<part, vars, jobVars, fenceVars, journalVars, workVars>>
InJournal == part = "journal" /\ UNCHANGED <<part, vars, jobVars, fenceVars, nativeVars, workVars>>
InWork == part = "work" /\ UNCHANGED <<part, vars, jobVars, fenceVars, nativeVars, journalVars>>
LiveNext ==
  \/ InLock /\ Next
  \/ InPipeline /\ Pipeline!Next
  \/ InFence /\ Fence!Next
  \/ InNative /\ Native!Next
  \/ InJournal /\ Journal!Next
  \/ InWork /\ Work!Next

\* The fairness of each part.
LiveFairness ==
  /\ \A p \in Procs : WF_vars(part = "lock" /\ Step(p))
  /\ WF_vars(part = "lock" /\ GrowsOld)
  /\ WF_jobVars(part = "jobs" /\ Pipeline!GovStep(g1))
  /\ \A j \in {j1, j2} : /\ WF_jobVars(part = "jobs" /\ Pipeline!WorkerStep(j))
                         /\ WF_jobVars(part = "jobs" /\ Pipeline!JobOverdue(j))
  /\ \A g \in 1..MaxStarts : WF_fenceVars(part = "fence" /\ Fence!Run(g))
  /\ WF_fenceVars(part = "fence" /\ Fence!HookRuns)
  /\ WF_nativeVars(part = "native" /\ Native!Process)
LiveSpec == LiveInit /\ [][LiveNext]_liveVars /\ LiveFairness

-----------------------------------------------------------------------------
\* The type invariants of the parts.
LiveTypeOK ==
  /\ part = "lock" => TypeOK
  /\ part = "jobs" => Pipeline!TypeOK
  /\ part = "fence" => Fence!TypeOK
  /\ part = "native" => Native!TypeOK
  /\ part = "journal" => Journal!TypeOK
  /\ part = "work" => Work!TypeOK

\* UtilityJobs: every request reaches a terminal state or goes back to an agent.
EveryRequestSettles == Pipeline!EveryRequestSettles

\* GovernessFence: a superseded Governess acts once, and restarts keep to the budget.
FenceKept == part = "fence" => Fence!FenceKept

\* GovernessFence: the run is supervised again unless its budget is spent.
SupervisedUnlessSpent == part = "fence" => Fence!SupervisedUnlessSpent

\* NativeFallback: one native child in the slot of the run.
OneChildInTheSlot == part = "native" => Native!OneChildInTheSlot

\* NativeFallback: a child is served only under a lease of this epoch that is in time.
ServedInTime == [][part = "native" => Native!InTime]_liveVars

\* NativeFallback: a slot that is out of time is free again.
SlotFreed == part = "native" => Native!SlotFreed

\* ControlJournal: one effect for an idempotency key, and no record lost.
JournalKept == part = "journal" => Journal!JournalKept

\* ControlJournal: no Governess is ended by a transition its journal refuses.
JournalGoesOn == [][part = "journal" => Journal!GoesOn]_liveVars

\* WorkLoop: a run is completed by what its last work earned; the comments of a review survive.
WorkKept == part = "work" => Work!WorkKept
=============================================================================
