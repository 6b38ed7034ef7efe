----------------------------- MODULE LiveProofs -----------------------------
(***************************************************************************)
(* What is proved of the parts that MCLive composes.                       *)
(*                                                                         *)
(* The store lock is proved here: it excludes, for any number of           *)
(* processes, crashes and failed writes, as long as nobody breaks a stale  *)
(* lock.  Its invariant: whoever is between the exclusive create and the   *)
(* unlink owns the file that is there.  Only Break can take that file      *)
(* away, which is why the theorems assume it away and the run              *)
(* lock_stale_break shows that they must.                                  *)
(*                                                                         *)
(* So is the loop, whose invariant ties what a run has earned to the work  *)
(* that was reviewed, and the comments it owes to the next prompt.         *)
(*                                                                         *)
(* The other parts have modules of their own.  A behaviour of MCLive is    *)
(* one of each of its parts (a part that was not chosen rests), so what is *)
(* proved there of all instances holds of the ones that are checked here.  *)
(***************************************************************************)
EXTENDS MCLive, TLAPS

PipelineProofs ==
  INSTANCE UtilityJobsProofs WITH
    Jobs <- {j1, j2}, Governesses <- {g1}, Tiers <- {"direct", "nanny"},
    DirectTier <- "direct", Tier <- Nannied, Limit <- OneSlot, Wanted <- Routes,
    Scope <- NoScope, NoJob <- NoChild
FenceProofs ==
  INSTANCE GovernessFenceProofs WITH MaxFaults <- 1, gov <- loop, faults <- fenceFaults
NativeProofs ==
  INSTANCE NativeFallbackProofs WITH Requests <- 1..2, Mode <- "utility-first"
JournalProofs ==
  INSTANCE ControlJournalProofs WITH Overlap <- FALSE, MaxFaults <- 1, faults <- controlFaults

-----------------------------------------------------------------------------
(* The store lock                                                          *)

OwnerHolds ==
  \A p \in Procs : pc[p] \in Holding => lock.exists /\ lock.owner = p

Inv == /\ pc \in [Procs -> Holding \cup {"idle", "open", "check", "break"}]
       /\ OwnerHolds

\* The invariant survives every step but Break.
LEMMA StepKeepsOwner == Inv /\ NoBreak /\ [Next]_vars => Inv'
<1> SUFFICES ASSUME Inv, NoBreak, [Next]_vars
             PROVE  Inv'
  OBVIOUS
<1> USE DEF Inv, OwnerHolds, Holding, Goto, NoFile, FileOf
<1>1. ASSUME NEW p \in Procs, Acquire(p)
      PROVE  Inv'
  <2>1. CASE Begin(p) \/ Busy(p) \/ Check(p)
    BY <2>1 DEF Begin, Busy, Check, Stale
  <2>2. CASE Create(p)
    BY <2>2 DEF Create
  <2>3. CASE Break(p)
    BY <2>3 DEF Break, NoBreak
  <2>4. CASE WriteToken(p)
    BY <2>4 DEF WriteToken
  <2>5. QED
    BY <1>1, <2>1, <2>2, <2>3, <2>4 DEF Acquire
<1>2. ASSUME NEW p \in Procs, Operate(p)
      PROVE  Inv'
  <2>1. CASE Read(p) \/ AppendLocked(p) \/ NoAppend(p) \/ Release(p)
    BY <2>1 DEF Read, AppendLocked, NoAppend, Release
  <2>2. CASE Remove(p)
    BY <2>2 DEF Remove
  <2>3. QED
    BY <1>2, <2>1, <2>2 DEF Operate
<1>3. ASSUME NEW p \in Procs, TokenFails(p)
      PROVE  Inv'
  BY <1>3 DEF TokenFails
<1>4. ASSUME NEW p \in Procs, Crash(p)
      PROVE  Inv'
  BY <1>4 DEF Crash
<1>5. CASE GrowsOld
  BY <1>5 DEF GrowsOld, Abandoned
<1>6. CASE UNCHANGED vars
  BY <1>6 DEF vars
<1>7. QED
  BY <1>1, <1>2, <1>3, <1>4, <1>5, <1>6 DEF Next, Step

\* In a behaviour in which no process unlinks a stale lock, at most one
\* process is inside withStoreLock (acquireStoreLock, removeOwnedLock),
\* whatever dies and whatever write fails.
THEOREM ExclusionUnlessBroken == Spec => ExclusiveUnlessBroken
<1>1. Init => Inv
  BY DEF Init, Inv, OwnerHolds, Holding
<1>2. Inv /\ NoBreak /\ [Next]_vars => Inv'
  BY StepKeepsOwner
<1>3. Inv => MutualExclusion
  BY DEF Inv, OwnerHolds, MutualExclusion
<1>4. QED
  BY <1>1, <1>2, <1>3, PTL DEF Spec, ExclusiveUnlessBroken

InvRead == Inv /\ ReadIsCurrent

\* Only the owner of the lock appends, so a read made under the lock is still
\* current when its own append comes.
LEMMA StepKeepsRead == InvRead /\ NoBreak /\ [Next]_vars => ReadIsCurrent'
<1> SUFFICES ASSUME InvRead, NoBreak, [Next]_vars
             PROVE  ReadIsCurrent'
  OBVIOUS
<1> USE DEF InvRead, Inv, OwnerHolds, ReadIsCurrent, Holding, Goto
<1>1. ASSUME NEW p \in Procs, Acquire(p)
      PROVE  ReadIsCurrent'
  <2>1. CASE Begin(p) \/ Busy(p) \/ Check(p)
    BY <2>1 DEF Begin, Busy, Check
  <2>2. CASE Create(p) \/ WriteToken(p)
    BY <2>2 DEF Create, WriteToken
  <2>3. CASE Break(p)
    BY <2>3 DEF Break, NoBreak
  <2>4. QED
    BY <1>1, <2>1, <2>2, <2>3 DEF Acquire
<1>2. ASSUME NEW p \in Procs, Operate(p)
      PROVE  ReadIsCurrent'
  <2>1. CASE Read(p)
    BY <2>1 DEF Read
  <2>2. CASE AppendLocked(p)
    <3>1. \A q \in Procs : pc[q] = "append" => q = p
      BY <2>2 DEF AppendLocked
    <3>2. QED
      BY <2>2, <3>1 DEF AppendLocked
  <2>3. CASE NoAppend(p)
    BY <2>3 DEF NoAppend
  <2>4. CASE Release(p) \/ Remove(p)
    BY <2>4 DEF Release, Remove
  <2>5. QED
    BY <1>2, <2>1, <2>2, <2>3, <2>4 DEF Operate
<1>3. ASSUME NEW p \in Procs, TokenFails(p) \/ Crash(p)
      PROVE  ReadIsCurrent'
  BY <1>3 DEF TokenFails, Crash
<1>4. CASE GrowsOld \/ UNCHANGED vars
  BY <1>4 DEF GrowsOld, vars
<1>5. QED
  BY <1>1, <1>2, <1>3, <1>4 DEF Next, Step

\* In a behaviour in which no process unlinks a stale lock, an event is only
\* appended on a journal its writer has read (appendLocked in withStoreLock).
THEOREM CurrentReads == Spec => CurrentUnlessBroken
<1>1. Init => InvRead
  BY DEF Init, InvRead, Inv, OwnerHolds, ReadIsCurrent, Holding
<1>2. InvRead /\ NoBreak /\ [Next]_vars => InvRead'
  BY StepKeepsOwner, StepKeepsRead DEF InvRead
<1>3. InvRead => ReadIsCurrent
  BY DEF InvRead
<1>4. QED
  BY <1>1, <1>2, <1>3, PTL DEF Spec, CurrentUnlessBroken

\* What each process of the store may do next, and the file it may have made.
LEMMA LockTypes == Spec => []TypeOK
<1>1. Init => TypeOK
  BY LockConstants DEF LockConstants, Init, TypeOK, NoFile, Holding
<1>2. TypeOK /\ [Next]_vars => TypeOK'
  <2> SUFFICES ASSUME TypeOK, [Next]_vars
               PROVE  TypeOK'
    OBVIOUS
  <2> DEFINE Places == Holding \cup {"idle", "open", "check", "break"}
             LockFile == [exists : BOOLEAN, owner : Procs \cup {Gone}, token : BOOLEAN,
                          old : BOOLEAN]
  <2>1. ASSUME NEW p \in Procs, NEW q \in Places, Goto(p, q)
        PROVE  pc' \in [Procs -> Places]
    BY <2>1 DEF TypeOK, Goto
  <2>2. NoFile \in LockFile /\ ~NoFile.exists /\ \A p \in Procs : FileOf(p) \in LockFile /\ FileOf(p).exists
    BY DEF NoFile, FileOf
  <2>3. ASSUME NEW new \in LockFile, ~new.exists => new = NoFile, lock' = new
        PROVE  lock' \in LockFile /\ (~lock.exists => lock = NoFile)'
    BY <2>3 DEF NoFile
  <2>4. lock \in LockFile /\ (~lock.exists => lock = NoFile)
    BY DEF TypeOK
  <2>5. ASSUME NEW p \in Procs, lock.owner = p
        PROVE  lock.exists
    BY <2>4, <2>5, LockConstants DEF NoFile, LockConstants
  <2>6. /\ lock' \in LockFile /\ (~lock.exists => lock = NoFile)'
        /\ fresh' \in SUBSET Procs
    <3>1. ASSUME NEW p \in Procs, Create(p) \/ Break(p) \/ Remove(p)
          PROVE  lock' \in LockFile /\ (~lock.exists => lock = NoFile)'
      BY <2>2, <2>3, <3>1 DEF Create, Break, Remove
    <3>2. ASSUME NEW p \in Procs, NEW t \in BOOLEAN,
                 lock' = IF lock.owner = p THEN [lock EXCEPT !.token = t] ELSE lock
          PROVE  lock' \in LockFile /\ (~lock.exists => lock = NoFile)'
      <4>1. CASE lock.owner = p
        <5>1. [lock EXCEPT !.token = t] \in LockFile /\ [lock EXCEPT !.token = t].exists
          BY <2>4, <2>5, <4>1
        <5> QED
          BY <2>3, <3>2, <4>1, <5>1
      <4>2. CASE lock.owner # p
        BY <2>3, <2>4, <3>2, <4>2
      <4> QED
        BY <4>1, <4>2
    <3>3. ASSUME NEW p \in Procs, Crash(p)
          PROVE  lock' \in LockFile /\ (~lock.exists => lock = NoFile)'
      <4>1. CASE lock.owner = p
        <5>1. [lock EXCEPT !.owner = Gone] \in LockFile /\ [lock EXCEPT !.owner = Gone].exists
          BY <2>4, <2>5, <4>1
        <5> QED
          BY <2>3, <3>3, <4>1, <5>1 DEF Crash
      <4>2. CASE lock.owner # p
        BY <2>3, <2>4, <3>3, <4>2 DEF Crash
      <4> QED
        BY <4>1, <4>2
    <3>4. ASSUME GrowsOld
          PROVE  lock' \in LockFile /\ (~lock.exists => lock = NoFile)'
      <4>1. [lock EXCEPT !.old = TRUE] \in LockFile /\ [lock EXCEPT !.old = TRUE].exists
        BY <2>4, <3>4 DEF GrowsOld, Abandoned
      <4> QED
        BY <2>3, <3>4, <4>1 DEF GrowsOld
    <3>5. ASSUME UNCHANGED lock
          PROVE  lock' \in LockFile /\ (~lock.exists => lock = NoFile)'
      BY <2>3, <2>4, <3>5
    <3>6. lock' \in LockFile /\ (~lock.exists => lock = NoFile)'
      <4>1. ASSUME NEW p \in Procs, WriteToken(p) \/ TokenFails(p)
            PROVE  lock' \in LockFile /\ (~lock.exists => lock = NoFile)'
        BY <3>2, <4>1 DEF WriteToken, TokenFails
      <4> QED
        BY <3>1, <3>3, <3>4, <3>5, <4>1
           DEF Next, vars, Step, Acquire, Operate, Begin, Busy, Check, Read, AppendLocked,
               NoAppend, Release
    <3>7. fresh' \in SUBSET Procs
      BY DEF TypeOK, Next, vars, Step, Acquire, Operate, Begin, Create, Busy, Check, Break,
             WriteToken, TokenFails, Read, AppendLocked, NoAppend, Release, Remove, Crash, GrowsOld
    <3> QED
      BY <3>6, <3>7
  <2>7. pc' \in [Procs -> Places]
    <3>1. ASSUME NEW p \in Procs, Step(p) \/ TokenFails(p) \/ Crash(p)
          PROVE  pc' \in [Procs -> Places]
      BY <2>1, <3>1 DEF Step, Acquire, Operate, Begin, Create, Busy, Check, Break, WriteToken,
         TokenFails, Read, AppendLocked, NoAppend, Release, Remove, Crash, Holding
    <3>2. CASE UNCHANGED pc
      BY <3>2 DEF TypeOK
    <3> QED
      BY <3>1, <3>2 DEF Next, vars, GrowsOld
  <2>8. faults' \in 0..MaxFaults
    BY LockConstants
       DEF LockConstants, TypeOK, Next, vars, Step, Acquire, Operate, Begin, Create, Busy, Check, Break,
           WriteToken, TokenFails, Read, AppendLocked, NoAppend, Release, Remove, Crash, GrowsOld
  <2> QED
    BY <2>6, <2>7, <2>8 DEF TypeOK
<1> QED
  BY <1>1, <1>2, PTL DEF Spec

-----------------------------------------------------------------------------
(* The loop                                                                *)

\* Between a review and its decision, the drain included.
Reviewed == at = "decide" \/ (at \in {"drain", "forward"} /\ ret = "decide")

\* The limits of Work!TypeOK, and the range of the rest.
Within ==
  /\ state \in Work!Final \cup {"submitted", "working", "reviewing", "input-required"}
  /\ i \in 0..MaxIterations /\ hops \in 0..MaxHops /\ count \in 0..MaxMsgs
  /\ notes \subseteq Work!Pair /\ owed \subseteq Work!Pair
  /\ queue \subseteq [id : 1..count, to : Work!Pair]
  /\ earned \in {"nothing", "signal", "approved", "pr"}
Started ==
  /\ setup.reviewers \subseteq Work!Pair /\ setup.paired \in BOOLEAN
  /\ ret \in {"none", "pre", "worked", "decide"}
  /\ prompts \in Nat /\ crashes \in Nat
  /\ at = "forward" => hops < MaxHops

\* What was earned is of the work that was reviewed.
Earned ==
  /\ at = "review" \/ Reviewed \/ earned \in {"approved", "pr"} => setup.reviewers # {}
  /\ earned \in {"approved", "pr"} =>
       owed = {} /\ \A r \in setup.reviewers : Work!CleanPass(said[r])
  /\ at = "review" => earned = "signal"
  /\ at = "pr" => earned = "approved"
  /\ state = "completed" =>
       at = "over" /\ IF setup.reviewers = {} THEN earned = "signal" ELSE earned = "pr"

\* The comments that are owed are in the notes, but for those of the review that is on.
Carried == Reviewed \/ owed \subseteq notes

WorkInv == Within /\ Started /\ Earned /\ Carried

\* A review that passes is a clean pass.
LEMMA PassIsClean ==
  ASSUME Work!LoopConstants, NEW o \in Outputs, Work!Passes(o)
  PROVE  Work!CleanPass(o)
<1> DEFINE t == Work!Text(o)
<1>1. t \in {o.parsed, o.combined}
  BY DEF Work!Text
<1>2. PICK n \in DOMAIN t : /\ t[n] # "blank" /\ \A k \in DOMAIN t : k > n => t[k] = "blank"
                            /\ n \in Work!Signals(t)
  BY DEF Work!Passes, Work!FinalLine
<1>3. \A k \in Work!Signals(t) : t[k] = "pass"
  BY DEF Work!Passes
<1>4. \A k \in DOMAIN t : t[k] # "fail"
  BY <1>3 DEF Work!Signals
<1> HIDE DEF t
<1> QED
  BY <1>1, <1>2, <1>3, <1>4 DEF Work!CleanPass

\* What the assumption says of the limits.
LEMMA WorkLimits ==
  ASSUME Work!LoopConstants
  PROVE  /\ MaxIterations \in Nat /\ 1 \in 0..MaxIterations
         /\ MaxHops \in Nat /\ MaxMsgs \in Nat /\ MaxFollowUps \in Nat /\ MaxCrashes \in Nat
BY DEF Work!LoopConstants

\* The invariant holds when the loop starts.
LEMMA WorkInit ==
  ASSUME Work!LoopConstants, Work!Init
  PROVE  WorkInv
<1>1. setup.reviewers \subseteq Work!Pair /\ setup.paired \in BOOLEAN
  BY DEF Work!Init, Work!Pair
<1>2. Within
  BY WorkLimits DEF Work!Init, Within, Work!Pair, Work!Final
<1>3. Started
  BY <1>1 DEF Work!Init, Started
<1>4. Earned /\ Carried
  BY DEF Work!Init, Earned, Carried, Reviewed
<1> QED
  BY <1>2, <1>3, <1>4 DEF WorkInv

\* And after every step: a drain and a decision keep what the review said, and everything that
\* starts other work (the next prompt, a crash) takes back what was earned.
LEMMA WorkStep ==
  ASSUME Work!LoopConstants, WorkInv, [Work!Next]_(Work!vars)
  PROVE  WorkInv'
<1> USE WorkLimits DEF Work!Final, Work!Paired, Work!Enter, Work!Finish, Work!DrainThen,
                       Work!NextIteration, Work!review, Work!bridge, Work!bounds, Work!drain
<1>1. CASE Work!Begin
  BY <1>1 DEF WorkInv, Within, Started, Earned, Carried, Reviewed, Work!Begin
<1>2. CASE Work!Forward \/ Work!Forwarded \/ Work!ForwardFails \/ Work!DrainEnds
  BY <1>2 DEF WorkInv, Within, Started, Earned, Carried, Reviewed, Work!Forward,
              Work!Forwarded, Work!ForwardFails, Work!DrainEnds
<1>3. CASE Work!BeforeWork
  BY <1>3 DEF WorkInv, Within, Started, Earned, Carried, Reviewed, Work!BeforeWork
<1>4. CASE Work!Prompt
  BY <1>4 DEF WorkInv, Within, Started, Earned, Carried, Reviewed, Work!Prompt
<1>5. ASSUME NEW o \in {"errs", "ends", "signal"}, Work!Work(o)
      PROVE  WorkInv'
  BY <1>5 DEF WorkInv, Within, Started, Earned, Carried, Reviewed, Work!Work
<1>6. CASE Work!Worked
  BY <1>6 DEF WorkInv, Within, Started, Earned, Carried, Reviewed, Work!Worked
<1>7. ASSUME NEW outs \in [setup.reviewers -> Outputs], Work!Review(outs)
      PROVE  WorkInv'
  <2>1. \A r \in setup.reviewers : Work!Passes(outs[r]) => Work!CleanPass(outs[r])
    BY PassIsClean
  <2>2. Within' /\ Started'
    BY <1>7 DEF WorkInv, Within, Started, Work!Review
  <2>3. Reviewed' /\ at' \in {"drain", "decide"} /\ UNCHANGED <<setup, state>>
    BY <1>7 DEF Work!Review, Reviewed
  <2>4. setup.reviewers # {} /\ state # "completed"
    BY <1>7 DEF WorkInv, Earned, Work!Review
  <2>5. ASSUME earned' \in {"approved", "pr"}
        PROVE  owed' = {} /\ \A r \in setup.reviewers : Work!CleanPass(said'[r])
    <3>1. owed' = {r \in setup.reviewers : ~Work!Passes(outs[r])} /\ said' = outs
      BY <1>7 DEF Work!Review
    <3>2. owed' = {}
      BY <1>7, <2>5 DEF Work!Review, WorkInv, Earned
    <3> QED
      BY <2>1, <3>1, <3>2
  <2>6. Earned'
    BY <2>3, <2>4, <2>5 DEF Earned
  <2>7. Carried'
    BY <2>3 DEF Carried
  <2> QED
    BY <2>2, <2>6, <2>7 DEF WorkInv
<1>8. CASE Work!Decide
  <2>1. Within'
    BY <1>8 DEF WorkInv, Within, Started, Work!Decide
  <2>2. Started'
    BY <1>8 DEF WorkInv, Started, Work!Decide
  <2>3. Earned'
    BY <1>8 DEF WorkInv, Earned, Reviewed, Work!Decide
  <2>4. Carried'
    BY <1>8 DEF WorkInv, Earned, Carried, Work!Decide
  <2> QED
    BY <2>1, <2>2, <2>3, <2>4 DEF WorkInv
<1>9. ASSUME NEW ok \in BOOLEAN, Work!DraftPr(ok) \/ Work!Answer(ok)
      PROVE  WorkInv'
  BY <1>9 DEF WorkInv, Within, Started, Earned, Carried, Reviewed, Work!DraftPr, Work!Answer
<1>10. CASE Work!Exhausted \/ Work!Resume
  BY <1>10 DEF WorkInv, Within, Started, Earned, Carried, Reviewed, Work!Exhausted, Work!Resume
<1>11. CASE Work!Crash
  <2>1. Within' /\ Started'
    BY <1>11 DEF WorkInv, Within, Started, Work!Crash
  <2>2. Earned' /\ Carried'
    BY <1>11 DEF WorkInv, Earned, Carried, Reviewed, Work!Crash
  <2> QED
    BY <2>1, <2>2 DEF WorkInv
<1>12. ASSUME NEW t \in Work!Pair, Work!Sends(t) \/ Work!Receives(t)
       PROVE  WorkInv'
  BY <1>12 DEF WorkInv, Within, Started, Earned, Carried, Reviewed, Work!Sends, Work!Receives
<1>13. CASE UNCHANGED Work!vars
  BY <1>13 DEF Work!vars, WorkInv, Within, Started, Earned, Carried, Reviewed
<1> QED
  BY <1>1, <1>2, <1>3, <1>4, <1>5, <1>6, <1>7, <1>8, <1>9, <1>10, <1>11, <1>12,
     <1>13 DEF Work!Next

\* Whether a message was for the primary stays a Boolean.
LEMMA WorkMailed ==
  ASSUME toPrimary \in BOOLEAN, [Work!Next]_(Work!vars)
  PROVE  toPrimary' \in BOOLEAN
<1> USE DEF Work!DrainThen, Work!NextIteration, Work!drain
<1>1. CASE Work!Forwarded
  BY <1>1 DEF Work!Forwarded
<1>2. CASE \/ Work!Begin \/ Work!Forward \/ Work!ForwardFails \/ Work!DrainEnds
           \/ Work!BeforeWork \/ Work!Prompt \/ Work!Worked \/ Work!Decide
           \/ Work!Exhausted \/ Work!Crash \/ Work!Resume
  BY <1>2 DEF Work!Begin, Work!Forward, Work!ForwardFails, Work!DrainEnds, Work!BeforeWork,
              Work!Prompt, Work!Worked, Work!Decide, Work!Exhausted, Work!Crash, Work!Resume
<1>3. ASSUME NEW o, Work!Work(o) \/ Work!DraftPr(o) \/ Work!Answer(o) \/ Work!Review(o)
                    \/ Work!Sends(o) \/ Work!Receives(o)
      PROVE  toPrimary' \in BOOLEAN
  BY <1>3 DEF Work!Work, Work!DraftPr, Work!Answer, Work!Review, Work!Sends, Work!Receives
<1>4. CASE UNCHANGED Work!vars
  BY <1>4 DEF Work!vars
<1> QED
  BY <1>1, <1>2, <1>3, <1>4 DEF Work!Next

-----------------------------------------------------------------------------
(* The parts of a behaviour                                                *)

\* A part that was not chosen rests.
LEMMA PartsStep ==
  ASSUME [LiveNext]_liveVars
  PROVE  /\ [Next]_vars
         /\ [Pipeline!Next]_(Pipeline!vars)
         /\ [Fence!Next]_(Fence!vars)
         /\ [Native!Next]_(Native!vars)
         /\ [Journal!Next]_(Journal!vars)
         /\ [Work!Next]_(Work!vars)
BY DEF LiveNext, liveVars, jobVars, fenceVars, nativeVars, journalVars, workVars, InLock,
       InPipeline, InFence, InNative, InJournal, InWork, Pipeline!vars, Fence!vars,
       Fence!supervisor, Fence!restart, Fence!bounds, Native!vars, Journal!vars, Work!vars

\* The theorems of the parts are about the instances of MCLive.
LEMMA PipelineSame ==
  /\ Pipeline!Init <=> PipelineProofs!Init
  /\ Pipeline!Next <=> PipelineProofs!Next
  /\ Pipeline!vars = PipelineProofs!vars
<1>1. Pipeline!Init <=> PipelineProofs!Init
  BY DEF Pipeline!Init, PipelineProofs!Init, Pipeline!Down, PipelineProofs!Down,
         Pipeline!Process, PipelineProofs!Process
<1>2. ASSUME NEW g
      PROVE  Pipeline!CountSlots(g) <=> PipelineProofs!CountSlots(g)
  <2>1. ASSUME NEW S PROVE Pipeline!Cardinality(S) = PipelineProofs!Cardinality(S)
    BY DEF Pipeline!Cardinality, PipelineProofs!Cardinality
  <2> QED
    BY <2>1 DEF Pipeline!CountSlots, PipelineProofs!CountSlots, Pipeline!ActiveStates,
                PipelineProofs!ActiveStates
<1>3. ASSUME NEW g
      PROVE  Pipeline!Recover(g) <=> PipelineProofs!Recover(g)
  BY DEF Pipeline!Recover, Pipeline!KeepJob, Pipeline!First, Pipeline!NeedsRecovery,
         Pipeline!Alive, Pipeline!TERMINAL_STATES, Pipeline!Resume, Pipeline!FenceJob,
         Pipeline!NeedsKill, Pipeline!KillWorker, Pipeline!FailJob, Pipeline!CanMove,
         Pipeline!Requested, Pipeline!ALLOWED_TRANSITIONS, Pipeline!JobStates,
         Pipeline!ActiveStates, Pipeline!ReturnedStates, Pipeline!Move, Pipeline!GovReport,
         Pipeline!Dispatch, PipelineProofs!Recover, PipelineProofs!KeepJob,
         PipelineProofs!First, PipelineProofs!NeedsRecovery, PipelineProofs!Alive,
         PipelineProofs!TERMINAL_STATES, PipelineProofs!Resume, PipelineProofs!FenceJob,
         PipelineProofs!NeedsKill, PipelineProofs!KillWorker, PipelineProofs!FailJob,
         PipelineProofs!CanMove, PipelineProofs!Requested, PipelineProofs!ALLOWED_TRANSITIONS,
         PipelineProofs!JobStates, PipelineProofs!ActiveStates, PipelineProofs!ReturnedStates,
         PipelineProofs!Move, PipelineProofs!GovReport, PipelineProofs!Dispatch
<1>4. ASSUME NEW g
      PROVE  Pipeline!Route(g) <=> PipelineProofs!Route(g)
  BY <1>2 DEF Pipeline!Route, Pipeline!ReadPending, Pipeline!Decide, Pipeline!First,
         Pipeline!Decisions, Pipeline!RoutedWriteConflict, Pipeline!ActiveStates,
         Pipeline!QueueDecision, Pipeline!SlotAvailable, Pipeline!Resume, Pipeline!CommitRoute,
         Pipeline!StateForDecision, Pipeline!CanMove, Pipeline!Requested,
         Pipeline!ALLOWED_TRANSITIONS, Pipeline!JobStates, Pipeline!ReturnedStates,
         Pipeline!TERMINAL_STATES, Pipeline!MessageFor, Pipeline!At, Pipeline!Down,
         Pipeline!SpawnWorker, Pipeline!Process, Pipeline!TakeSlot, Pipeline!SpawnFails,
         Pipeline!EndPass, PipelineProofs!Route, PipelineProofs!ReadPending,
         PipelineProofs!Decide, PipelineProofs!First, PipelineProofs!Decisions,
         PipelineProofs!RoutedWriteConflict, PipelineProofs!ActiveStates,
         PipelineProofs!QueueDecision, PipelineProofs!SlotAvailable, PipelineProofs!Resume,
         PipelineProofs!CommitRoute, PipelineProofs!StateForDecision, PipelineProofs!CanMove,
         PipelineProofs!Requested, PipelineProofs!ALLOWED_TRANSITIONS,
         PipelineProofs!JobStates, PipelineProofs!ReturnedStates,
         PipelineProofs!TERMINAL_STATES, PipelineProofs!MessageFor, PipelineProofs!At,
         PipelineProofs!Down, PipelineProofs!SpawnWorker, PipelineProofs!Process,
         PipelineProofs!TakeSlot, PipelineProofs!SpawnFails, PipelineProofs!EndPass
<1>5. ASSUME NEW g
      PROVE  Pipeline!GovStep(g) <=> PipelineProofs!GovStep(g)
  BY <1>3, <1>4 DEF Pipeline!GovStep, Pipeline!GovStart, Pipeline!At, Pipeline!Down,
         Pipeline!GovActivate, Pipeline!GovRetire, Pipeline!BeginPass, Pipeline!Scan,
         Pipeline!ActiveStates, PipelineProofs!GovStep, PipelineProofs!GovStart,
         PipelineProofs!At, PipelineProofs!Down, PipelineProofs!GovActivate,
         PipelineProofs!GovRetire, PipelineProofs!BeginPass, PipelineProofs!Scan,
         PipelineProofs!ActiveStates
<1>6. ASSUME NEW j
      PROVE  Pipeline!WorkerStep(j) <=> PipelineProofs!WorkerStep(j)
  BY DEF Pipeline!WorkerStep, Pipeline!WorkerClaim, Pipeline!Claimable,
         Pipeline!HasActiveWriteConflict, Pipeline!WorkerRun, Pipeline!CanMove,
         Pipeline!Requested, Pipeline!ALLOWED_TRANSITIONS, Pipeline!JobStates,
         Pipeline!ActiveStates, Pipeline!ReturnedStates, Pipeline!TERMINAL_STATES,
         Pipeline!Move, Pipeline!WorkerFinish, Pipeline!MessageFor, Pipeline!WorkerNotify,
         Pipeline!Dispatch, PipelineProofs!WorkerStep, PipelineProofs!WorkerClaim,
         PipelineProofs!Claimable, PipelineProofs!HasActiveWriteConflict,
         PipelineProofs!WorkerRun, PipelineProofs!CanMove, PipelineProofs!Requested,
         PipelineProofs!ALLOWED_TRANSITIONS, PipelineProofs!JobStates,
         PipelineProofs!ActiveStates, PipelineProofs!ReturnedStates,
         PipelineProofs!TERMINAL_STATES, PipelineProofs!Move, PipelineProofs!WorkerFinish,
         PipelineProofs!MessageFor, PipelineProofs!WorkerNotify, PipelineProofs!Dispatch
<1>7. Pipeline!Next <=> PipelineProofs!Next
  BY <1>5, <1>6 DEF Pipeline!Next, Pipeline!GovCrash, Pipeline!Down, Pipeline!RequestRoute,
         Pipeline!Requested, Pipeline!JobOverdue, Pipeline!ActiveStates, Pipeline!WorkerCrash,
         Pipeline!Alive, PipelineProofs!Next, PipelineProofs!GovCrash, PipelineProofs!Down,
         PipelineProofs!RequestRoute, PipelineProofs!Requested, PipelineProofs!JobOverdue,
         PipelineProofs!ActiveStates, PipelineProofs!WorkerCrash, PipelineProofs!Alive
<1> QED
  BY <1>1, <1>7 DEF Pipeline!vars, PipelineProofs!vars

LEMMA FenceSame ==
  /\ Fence!Init <=> FenceProofs!Init
  /\ Fence!Next <=> FenceProofs!Next
  /\ Fence!vars = FenceProofs!vars
<1>1. Fence!Init <=> FenceProofs!Init
  BY DEF Fence!Init, FenceProofs!Init, Fence!Unborn, FenceProofs!Unborn, Fence!Loading,
         FenceProofs!Loading, Fence!Governesses, FenceProofs!Governesses
<1>2. Fence!Next <=> FenceProofs!Next
  BY DEF Fence!supervisor, Fence!restart, Fence!bounds, Fence!Governesses, Fence!Unborn,
         Fence!Loading, Fence!Ended, Fence!Become, Fence!Save, Fence!End, Fence!Current,
         Fence!Acquire, Fence!SaveReads, Fence!SaveRenames, Fence!Confirm, Fence!Activate,
         Fence!CycleBegins, Fence!Control, Fence!Effect, Fence!CycleEnds, Fence!Crash,
         Fence!StartBeside, Fence!Hook, Fence!Dead, Fence!Inspect, Fence!Record,
         Fence!Respawn, Fence!RespawnFails, Fence!Disown, Fence!WindowPasses, Fence!Run,
         Fence!HookRuns, Fence!Next, FenceProofs!supervisor, FenceProofs!restart,
         FenceProofs!bounds, FenceProofs!Governesses, FenceProofs!Unborn, FenceProofs!Loading,
         FenceProofs!Ended, FenceProofs!Become, FenceProofs!Save, FenceProofs!End,
         FenceProofs!Current, FenceProofs!Acquire, FenceProofs!SaveReads,
         FenceProofs!SaveRenames, FenceProofs!Confirm, FenceProofs!Activate,
         FenceProofs!CycleBegins, FenceProofs!Control, FenceProofs!Effect,
         FenceProofs!CycleEnds, FenceProofs!Crash, FenceProofs!StartBeside, FenceProofs!Hook,
         FenceProofs!Dead, FenceProofs!Inspect, FenceProofs!Record, FenceProofs!Respawn,
         FenceProofs!RespawnFails, FenceProofs!Disown, FenceProofs!WindowPasses,
         FenceProofs!Run, FenceProofs!HookRuns, FenceProofs!Next
<1> QED
  BY <1>1, <1>2 DEF Fence!vars, Fence!supervisor, Fence!restart, Fence!bounds,
    FenceProofs!vars, FenceProofs!supervisor, FenceProofs!restart, FenceProofs!bounds

LEMMA NativeSame ==
  /\ Native!Init <=> NativeProofs!Init
  /\ Native!Next <=> NativeProofs!Next
  /\ Native!vars = NativeProofs!vars
<1>1. Native!Init <=> NativeProofs!Init
  BY DEF Native!Init, NativeProofs!Init, Native!Absent, NativeProofs!Absent
<1>2. Native!Next <=> NativeProofs!Next
  BY DEF Native!Absent, Native!Active, Native!Expired, Native!To, Native!In, Native!First,
         Native!Request, Native!Grantable, Native!Busy, Native!Process, Native!Consume,
         Native!Start, Native!LeaseOf, Native!Tool, Native!Stop, Native!EvidenceSettles,
         Native!Elapses, Native!EpochAdvances, Native!Next, NativeProofs!Absent,
         NativeProofs!Active, NativeProofs!Expired, NativeProofs!To, NativeProofs!In,
         NativeProofs!First, NativeProofs!Request, NativeProofs!Grantable, NativeProofs!Busy,
         NativeProofs!Process, NativeProofs!Consume, NativeProofs!Start, NativeProofs!LeaseOf,
         NativeProofs!Tool, NativeProofs!Stop, NativeProofs!EvidenceSettles,
         NativeProofs!Elapses, NativeProofs!EpochAdvances, NativeProofs!Next
<1> QED
  BY <1>1, <1>2 DEF Native!vars, NativeProofs!vars

LEMMA JournalSame ==
  /\ Journal!Init <=> JournalProofs!Init
  /\ Journal!Next <=> JournalProofs!Next
  /\ Journal!vars = JournalProofs!vars
<1>1. Journal!Init <=> JournalProofs!Init
  BY DEF Journal!Init, Journal!NoIndex, Journal!Rests, Journal!At, Journal!Governesses,
         Journal!Keys, JournalProofs!Init, JournalProofs!NoIndex, JournalProofs!Rests,
         JournalProofs!At, JournalProofs!Governesses, JournalProofs!Keys
<1>2. ASSUME NEW recs, NEW id
      PROVE  Journal!LatestPhase(recs, id) = JournalProofs!LatestPhase(recs, id)
  BY DEF Journal!LatestPhase, Journal!Latest, JournalProofs!LatestPhase, JournalProofs!Latest
<1>3. ASSUME NEW recs, NEW key
      PROVE  Journal!LatestByKey(recs, key) = JournalProofs!LatestByKey(recs, key)
  BY DEF Journal!LatestByKey, Journal!TriesOf, Journal!IdsIn, Journal!IsObs,
         JournalProofs!LatestByKey, JournalProofs!TriesOf, JournalProofs!IdsIn,
         JournalProofs!IsObs
<1>4. ASSUME NEW recs, NEW key
      PROVE  Journal!Closed(recs, key) <=> JournalProofs!Closed(recs, key)
  BY <1>2, <1>3 DEF Journal!Closed, Journal!TriesOf, Journal!IdsIn, Journal!IsObs,
         Journal!Dispatched, JournalProofs!Closed, JournalProofs!TriesOf, JournalProofs!IdsIn,
         JournalProofs!IsObs, JournalProofs!Dispatched
<1>5. ASSUME NEW p, NEW r
      PROVE  Journal!After(p, r) = JournalProofs!After(p, r)
  BY DEF Journal!After, Journal!To, Journal!Operation, Journal!At, Journal!Rests, Journal!Idle,
         JournalProofs!After, JournalProofs!To, JournalProofs!Operation, JournalProofs!At,
         JournalProofs!Rests, JournalProofs!Idle
<1>6. ASSUME NEW from, NEW to
      PROVE  Journal!TransitionAllowed(from, to) <=> JournalProofs!TransitionAllowed(from, to)
  BY DEF Journal!TransitionAllowed, Journal!Settled, Journal!Rank,
         JournalProofs!TransitionAllowed, JournalProofs!Settled, JournalProofs!Rank
<1>7. ASSUME NEW g, NEW recs
      PROVE  Journal!Prepare(g, recs) <=> JournalProofs!Prepare(g, recs)
  BY <1>2, <1>3, <1>4, <1>5 DEF Journal!Prepare, Journal!TriesOf, Journal!IdsIn, Journal!IsObs,
         Journal!Become, Journal!Appending, Journal!At, Journal!Control, JournalProofs!Prepare,
         JournalProofs!TriesOf, JournalProofs!IdsIn, JournalProofs!IsObs, JournalProofs!Become,
         JournalProofs!Appending, JournalProofs!At, JournalProofs!Control
<1>8. ASSUME NEW g, NEW recs
      PROVE  Journal!Transition(g, recs) <=> JournalProofs!Transition(g, recs)
  BY <1>2, <1>5, <1>6 DEF Journal!Transition, Journal!IdsIn, Journal!IsObs, Journal!Become,
         Journal!Ended, Journal!Rests, Journal!Appending, Journal!At, JournalProofs!Transition,
         JournalProofs!IdsIn, JournalProofs!IsObs, JournalProofs!Become, JournalProofs!Ended,
         JournalProofs!Rests, JournalProofs!Appending, JournalProofs!At
<1>9. ASSUME NEW g, NEW recs
      PROVE  Journal!Reconciled(g, recs) <=> JournalProofs!Reconciled(g, recs)
  BY <1>2 DEF Journal!Reconciled, Journal!Pending, Journal!IdsIn, Journal!IsObs, Journal!Settled,
         Journal!Dispatched, Journal!Become, Journal!Idle, Journal!Rests, Journal!To,
         Journal!Operation, Journal!At, JournalProofs!Reconciled, JournalProofs!Pending,
         JournalProofs!IdsIn, JournalProofs!IsObs, JournalProofs!Settled,
         JournalProofs!Dispatched, JournalProofs!Become, JournalProofs!Idle, JournalProofs!Rests,
         JournalProofs!To, JournalProofs!Operation, JournalProofs!At
<1>10. ASSUME NEW g, NEW recs
      PROVE  Journal!Loaded(g, recs) <=> JournalProofs!Loaded(g, recs)
  BY <1>7, <1>8, <1>9 DEF Journal!Loaded, Journal!Observed, Journal!Indexed, Journal!IsObs,
         Journal!Become, Journal!Idle, Journal!Rests, Journal!Appending, Journal!At,
         Journal!Observation, JournalProofs!Loaded, JournalProofs!Observed, JournalProofs!Indexed,
         JournalProofs!IsObs, JournalProofs!Become, JournalProofs!Idle, JournalProofs!Rests,
         JournalProofs!Appending, JournalProofs!At, JournalProofs!Observation
<1>11. ASSUME NEW g
      PROVE  Journal!LoadCached(g) <=> JournalProofs!LoadCached(g)
  BY <1>10 DEF Journal!LoadCached, Journal!Stat, Journal!files, JournalProofs!LoadCached,
         JournalProofs!Stat, JournalProofs!files
<1>12. ASSUME NEW g
      PROVE  Journal!LoadIndexFile(g) <=> JournalProofs!LoadIndexFile(g)
  BY <1>10 DEF Journal!LoadIndexFile, Journal!Stat, Journal!files, JournalProofs!LoadIndexFile,
         JournalProofs!Stat, JournalProofs!files
<1>13. ASSUME NEW g
      PROVE  Journal!Rebuild(g) <=> JournalProofs!Rebuild(g)
  BY <1>10 DEF Journal!Rebuild, Journal!Stat, Journal!files, JournalProofs!Rebuild,
         JournalProofs!Stat, JournalProofs!files
<1>14. ASSUME NEW g
      PROVE  Journal!StoreIndex(g) <=> JournalProofs!StoreIndex(g)
  BY <1>5 DEF Journal!StoreIndex, Journal!Stat, Journal!files, Journal!Become,
         JournalProofs!StoreIndex, JournalProofs!Stat, JournalProofs!files, JournalProofs!Become
<1>15. ASSUME NEW recs
      PROVE  Journal!Retained(recs) = JournalProofs!Retained(recs)
  BY DEF Journal!Retained, Journal!Latest, Journal!IsObs, JournalProofs!Retained,
         JournalProofs!Latest, JournalProofs!IsObs
<1>16. ASSUME NEW g, NEW resume
      PROVE  Journal!Maintain(g, resume) <=> JournalProofs!Maintain(g, resume)
  BY <1>15 DEF Journal!Maintain, Journal!Cardinality, Journal!Become, Journal!Operation,
         Journal!At, JournalProofs!Maintain, JournalProofs!Cardinality, JournalProofs!Become,
         JournalProofs!Operation, JournalProofs!At
<1>17. ASSUME NEW g
      PROVE  (Journal!MaintainCycle(g) <=> JournalProofs!MaintainCycle(g))
             /\ (Journal!Start(g) <=> JournalProofs!Start(g))
  BY <1>16 DEF Journal!MaintainCycle, Journal!Start, Journal!files, Journal!Governesses,
         JournalProofs!MaintainCycle, JournalProofs!Start, JournalProofs!files,
         JournalProofs!Governesses
<1>18. ASSUME NEW g
      PROVE  (Journal!WriteArchive(g) <=> JournalProofs!WriteArchive(g))
             /\ (Journal!ReplaceJournal(g) <=> JournalProofs!ReplaceJournal(g))
  BY <1>15 DEF Journal!WriteArchive, Journal!ReplaceJournal, Journal!Become, Journal!At,
         Journal!Operation, Journal!NoIndex, JournalProofs!WriteArchive,
         JournalProofs!ReplaceJournal, JournalProofs!Become, JournalProofs!At,
         JournalProofs!Operation, JournalProofs!NoIndex
<1>19. ASSUME NEW g
      PROVE  Journal!Step(g) <=> JournalProofs!Step(g)
  BY <1>11, <1>12, <1>13, <1>14, <1>17, <1>18 DEF Journal!Step, Journal!ReadJournal,
         Journal!AppendRecord, Journal!Acquire, Journal!Issue, Journal!Effect,
         Journal!EffectFails, Journal!Observe, Journal!Reconcile, Journal!Retire, Journal!Crash,
         Journal!Fault, Journal!Become, Journal!At, Journal!Rests, Journal!Idle, Journal!Ended,
         Journal!Operation, Journal!To, Journal!Stat, Journal!files, Journal!Governesses,
         Journal!NoIndex, JournalProofs!Step, JournalProofs!ReadJournal,
         JournalProofs!AppendRecord, JournalProofs!Acquire, JournalProofs!Issue,
         JournalProofs!Effect, JournalProofs!EffectFails, JournalProofs!Observe,
         JournalProofs!Reconcile, JournalProofs!Retire, JournalProofs!Crash, JournalProofs!Fault,
         JournalProofs!Become, JournalProofs!At, JournalProofs!Rests, JournalProofs!Idle,
         JournalProofs!Ended, JournalProofs!Operation, JournalProofs!To, JournalProofs!Stat,
         JournalProofs!files, JournalProofs!Governesses, JournalProofs!NoIndex
<1>20. Journal!Next <=> JournalProofs!Next
  BY <1>19 DEF Journal!Next, Journal!Governesses, JournalProofs!Next, JournalProofs!Governesses
<1> QED
  BY <1>1, <1>20 DEF Journal!vars, JournalProofs!vars

\* A behaviour of MCLive is a behaviour of each of its parts.
LEMMA LiveParts ==
  /\ LiveSpec => Spec
  /\ LiveSpec => PipelineProofs!Spec
  /\ LiveSpec => FenceProofs!Spec
  /\ LiveSpec => NativeProofs!Spec
  /\ LiveSpec => JournalProofs!Spec
  /\ LiveSpec => Work!Spec
<1>1. LiveInit => /\ Init /\ PipelineProofs!Init /\ FenceProofs!Init /\ NativeProofs!Init
                  /\ JournalProofs!Init /\ Work!Init
  BY PipelineSame, FenceSame, NativeSame, JournalSame DEF LiveInit
<1>2. [LiveNext]_liveVars => /\ [Next]_vars
                             /\ [PipelineProofs!Next]_(PipelineProofs!vars)
                             /\ [FenceProofs!Next]_(FenceProofs!vars)
                             /\ [NativeProofs!Next]_(NativeProofs!vars)
                             /\ [JournalProofs!Next]_(JournalProofs!vars)
                             /\ [Work!Next]_(Work!vars)
  BY PartsStep, PipelineSame, FenceSame, NativeSame, JournalSame
     DEF Pipeline!vars, PipelineProofs!vars, Fence!vars, Fence!supervisor, Fence!restart,
         Fence!bounds, FenceProofs!vars, FenceProofs!supervisor, FenceProofs!restart,
         FenceProofs!bounds, Native!vars, NativeProofs!vars, Journal!vars, JournalProofs!vars
<1> QED
  BY <1>1, <1>2, PTL DEF LiveSpec, Spec, PipelineProofs!Spec, FenceProofs!Spec,
                         NativeProofs!Spec, JournalProofs!Spec, Work!Spec

\* The assumptions the theorems of the parts make, of the constants of MCLive.
LEMMA LiveConstants ==
  /\ PipelineProofs!ConstantsAssumption /\ FenceProofs!FenceAssumption
  /\ NativeProofs!NativeAssumption /\ JournalProofs!JournalAssumption
  /\ Work!LoopConstants
<1>1. ASSUME NEW S PROVE Pipeline!IsFiniteSet(S) <=> PipelineProofs!IsFiniteSet(S)
  BY DEF Pipeline!IsFiniteSet, PipelineProofs!IsFiniteSet
<1> QED
  BY <1>1, LiveAssumption
     DEF LiveAssumption, Pipeline!ConstantsAssumption, PipelineProofs!ConstantsAssumption,
         Pipeline!Targets, PipelineProofs!Targets, Fence!FenceAssumption,
         FenceProofs!FenceAssumption, Native!NativeAssumption, NativeProofs!NativeAssumption,
         Journal!JournalAssumption, JournalProofs!JournalAssumption

-----------------------------------------------------------------------------
(* The theorems                                                            *)

\* A Governess that was superseded acts once more at most, and the restarts of the pane
\* keep to their budget.
THEOREM FenceHolds == LiveSpec => []FenceKept
<1>1. FenceProofs!Spec => []FenceProofs!FenceKept
  BY LiveConstants, FenceProofs!FenceHolds
<1>2. FenceProofs!FenceKept => FenceKept
  BY DEF FenceKept, Fence!FenceKept, FenceProofs!FenceKept, Fence!SupersededActsOnce,
         FenceProofs!SupersededActsOnce, Fence!RespawnsWithinBudget,
         FenceProofs!RespawnsWithinBudget, Fence!Governesses, FenceProofs!Governesses
<1> QED
  BY <1>1, <1>2, LiveParts, PTL

\* The run has one slot for native children, and a lease serves one child.
THEOREM OneChild == LiveSpec => []OneChildInTheSlot
<1>1. NativeProofs!Spec => []NativeProofs!OneChildInTheSlot
  BY LiveConstants, NativeProofs!OneSlot
<1>2. NativeProofs!OneChildInTheSlot => OneChildInTheSlot
  <2>1. ASSUME NEW S PROVE Native!Cardinality(S) = NativeProofs!Cardinality(S)
    BY DEF Native!Cardinality, NativeProofs!Cardinality
  <2> QED
    BY <2>1 DEF OneChildInTheSlot, Native!OneChildInTheSlot, NativeProofs!OneChildInTheSlot,
                Native!Active, NativeProofs!Active
<1> QED
  BY <1>1, <1>2, LiveParts, PTL

\* A child is let through under a lease of this epoch, in time, with settled evidence.
THEOREM ServedUnderIt == LiveSpec => ServedInTime
<1>1. NativeProofs!Spec => [][NativeProofs!InTime]_(NativeProofs!vars)
  BY LiveConstants, NativeProofs!ServedUnderIt DEF NativeProofs!ServedInTime
<1>2. [NativeProofs!InTime]_(NativeProofs!vars) => (part = "native" => Native!InTime)
  BY DEF NativeProofs!InTime, Native!InTime, NativeProofs!vars
<1> QED
  BY <1>1, <1>2, LiveParts, PTL DEF ServedInTime

\* The effect of an idempotency key reaches the agents once, and compaction loses no record.
THEOREM JournalHolds == LiveSpec => []JournalKept
<1>1. JournalProofs!Spec => []JournalProofs!EffectOncePerKey
  BY LiveConstants, JournalProofs!EffectOnce
<1>2. JournalProofs!Spec => []JournalProofs!NoRecordLost
  BY LiveConstants, JournalProofs!NothingLost
<1>3. JournalProofs!EffectOncePerKey /\ JournalProofs!NoRecordLost => JournalKept
  BY DEF JournalKept, Journal!JournalKept, Journal!EffectOncePerKey,
         JournalProofs!EffectOncePerKey, Journal!NoRecordLost, JournalProofs!NoRecordLost,
         Journal!Keys, JournalProofs!Keys, Journal!Governesses, JournalProofs!Governesses
<1> QED
  BY <1>1, <1>2, <1>3, LiveParts, PTL

\* No Governess is ended by a transition that its own journal refuses.
THEOREM JournalNeverEnds == LiveSpec => JournalGoesOn
<1>1. JournalProofs!Spec => [][JournalProofs!GoesOn]_(JournalProofs!vars)
  BY LiveConstants, JournalProofs!NeverEnded DEF JournalProofs!NeverEndedByJournal
<1>2. [JournalProofs!GoesOn]_(JournalProofs!vars) => (part = "journal" => Journal!GoesOn)
  BY DEF JournalProofs!GoesOn, Journal!GoesOn, JournalProofs!vars, Journal!Governesses,
         JournalProofs!Governesses
<1> QED
  BY <1>1, <1>2, LiveParts, PTL DEF JournalGoesOn

\* A run is completed by what its last work earned, the pass of every reviewer included, and the
\* comments of a review are in the next prompt.
THEOREM WorkHolds == LiveSpec => []WorkKept
<1>1. WorkInv => WorkKept
  BY DEF WorkKept, Work!WorkKept, Work!CompletedEarned, Work!CommentsCarried, WorkInv, Earned,
         Carried, Reviewed
<1> QED
  BY <1>1, LiveConstants, LiveParts, WorkInit, WorkStep, PTL DEF Work!Spec

\* The types of the parts.
THEOREM TypesHold == LiveSpec => []LiveTypeOK
<1>1. PipelineProofs!Spec => []PipelineProofs!TypeOK
  BY LiveConstants, PipelineProofs!TypeCorrect, PTL
<1>2. FenceProofs!Spec => []FenceProofs!TypeOK
  BY LiveConstants, FenceProofs!TypeCorrect
<1>3. NativeProofs!Spec => []NativeProofs!TypeOK
  BY LiveConstants, NativeProofs!TypeCorrect
<1>4. JournalProofs!Spec => []JournalProofs!TypeOK
  BY LiveConstants, JournalProofs!TypeCorrect
<1>5. /\ TypeOK /\ Pipeline!TypeOK /\ Fence!TypeOK /\ Native!TypeOK /\ Journal!TypeOK
      /\ Work!TypeOK
      => LiveTypeOK
  BY DEF LiveTypeOK
<1>6. PipelineProofs!TypeOK => Pipeline!TypeOK
  BY DEF Pipeline!TypeOK, Pipeline!Epochs, Pipeline!JobRecord, Pipeline!WorkerRecord,
         Pipeline!GovRecord, Pipeline!MessageTypes, Pipeline!GovPcs, Pipeline!JobStates,
         Pipeline!ActiveStates, Pipeline!ReturnedStates, Pipeline!TERMINAL_STATES,
         Pipeline!Targets, PipelineProofs!TypeOK, PipelineProofs!Epochs,
         PipelineProofs!JobRecord, PipelineProofs!WorkerRecord, PipelineProofs!GovRecord,
         PipelineProofs!MessageTypes, PipelineProofs!GovPcs, PipelineProofs!JobStates,
         PipelineProofs!ActiveStates, PipelineProofs!ReturnedStates,
         PipelineProofs!TERMINAL_STATES, PipelineProofs!Targets
<1>7. FenceProofs!TypeOK => Fence!TypeOK
  BY DEF Fence!TypeOK, FenceProofs!TypeOK, Fence!Governesses, FenceProofs!Governesses
<1>8. NativeProofs!TypeOK => Native!TypeOK
  BY DEF Native!TypeOK, NativeProofs!TypeOK, Native!States, NativeProofs!States, Native!Active,
         NativeProofs!Active
<1>9. JournalProofs!TypeOK => Journal!TypeOK
  BY DEF Journal!TypeOK, Journal!Records, Journal!Ids, Journal!ControlIds, Journal!Keys,
         Journal!Governesses, Journal!Tries, Journal!Phases, JournalProofs!TypeOK,
         JournalProofs!Records, JournalProofs!Ids, JournalProofs!ControlIds, JournalProofs!Keys,
         JournalProofs!Governesses, JournalProofs!Tries, JournalProofs!Phases
<1>10. WorkInv /\ toPrimary \in BOOLEAN => Work!TypeOK
  BY DEF WorkInv, Within, Work!TypeOK
<1>11. Work!Init => toPrimary \in BOOLEAN
  BY DEF Work!Init
<1>12. toPrimary \in BOOLEAN /\ [Work!Next]_(Work!vars) => (toPrimary \in BOOLEAN)'
  BY WorkMailed
<1>13. Work!Spec => []Work!TypeOK
  BY <1>10, <1>11, <1>12, LiveConstants, WorkInit, WorkStep, PTL DEF Work!Spec
<1> QED
  BY <1>1, <1>2, <1>3, <1>4, <1>5, <1>6, <1>7, <1>8, <1>9, <1>13, LiveParts, LockTypes, PTL
=============================================================================
