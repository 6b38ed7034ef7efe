# A TLA+ verification project for `loop`

`src/loop-fork/src/loop` runs two coding agents (Claude and Codex) side by side
in tmux, lets them exchange durable messages over a *bridge*, watches them from
a supervisor process called the *Governess*, and gives them a pool of helper
workers (*Direct*, *Nanny*, *Au Pair*) for bounded jobs.  There is no server
and no database: every component is an operating-system process, and processes
share state through append-only journals, whole-file JSON records and lock files in
the run directory `<run>/`.  That is what makes the code hard to test and worth
modelling: any two processes may be between a read and the append that depends
on it, any process may be killed between two appends, and a replacement process
may already be working.

All paths below are relative to `src/loop-fork/src/loop` unless they start with
`src/`.

Where to begin: section 1 has the system, section 2 the modules in reading order,
section 3 what a few of them keep and leave out, section 4 the runs.

## 1. Inventory

| component | state it keeps | what makes it hard | what makes it correct | module |
|---|---|---|---|---|
| **Helper jobs** `utility-store.ts`, `utility-runtime.ts`, `task-router.ts`, `utility-execution-tier.ts` | `<run>/utility/jobs.jsonl`, `epoch`; detached workers | Governess and workers interleave; judgments from one stale read; crashes; epoch change | a job has one owner, ends once, is reported once and truthfully; overlapping writers never run together; slots and queue order hold; every request settles | `UtilityJobs`, `JobLifecycle` |
| **Store lock** `utility-store.ts:305-385` (the same scheme in `native-subagent.ts:410-479`) | `*.lock` with the owner's token and time | check-then-unlink of a stale lock by two contenders; a crashed holder | at most one process inside; a crash never blocks the store for ever | `StoreLock` |
| **Task routing** `delegation-policy.ts`, `hooks/emit.ts`, `task-router.ts`, `utility-workspace.ts` | a job per denied call, a readiness record per tier | hook and Governess judge the same call at different times, in different words, over other paths | a denied call is served by the tier that was ready; an admitted request stays admitted | `HelperRouting` |
| **Helper conversation** `utility-runtime.ts` | budgets, repeats, evidence | parallel tool calls; abort by events and timers | a completed job has what was asked for, within its budgets | `HelperConversation` |
| **Read tools** `utility-tools.ts` | none | limits of broker and request cut from either end | pages carry their numbers and join up | `ToolOutput` |
| **Patch application** `utility-tools.ts`, `bridge-utility.ts` | patches with preimages, application record | editors between look, check, apply and record | no patch over changes it did not know of; the record says what was done | `PatchApply` |
| **Bridge ledger** `bridge-store.ts` | `<run>/bridge.jsonl`, no lock | read-decide-append by several processes | duplicates are suppressed, the backlog is bounded, a superseded message has a successor | `BridgeLedger` |
| **Bridge delivery** `bridge-runtime.ts`, `bridge-dispatch.ts`, `bridge.ts` | claim files, in-flight injections | push by a worker races pull by the agent; claims age out | one consumer; an unacknowledged message is retried; none is settled and lost while its reader lives | `BridgeDelivery` |
| **Bridge worker** `bridge-runtime.ts` | pid file, version of the journal | two spawn at once; a change between drain and sleep | one worker stays; none sleeps long over a pending message | `BridgeWorker` |
| **Bridge MCP server** `bridge.ts` | request queue, sweep timer | pushes between answers, torn frames, end of input | answers in order, a message once, the sweep goes on | `BridgeServer` |
| **Governess fence and pane** `governess.ts:6279-7082`, `governess-pane-liveness.ts` | `governess-state.json`, epoch, restart events | read-then-rename race of an old and a new Governess; unlocked budget | a superseded Governess acts once at most (with one beside the pane); restarts keep to their budget; the run is supervised again | `GovernessFence` |
| **Governess controls** `governess-journal.ts` | `governess-control.jsonl`, index | compaction concurrent with append; stale index | one effect per idempotency key; no record lost | `ControlJournal` |
| **Governess cycle** `governess.ts`, `governess-detect.ts`, `governess-recover.ts` | idle episode, recovery history | late answers of judges, restart within a ladder | the human is called once per episode; recoveries keep their distance | `GovernessCycle` |
| **Driver roles** `governess.ts`, `governess-usage-limits.ts` | driver, pauses, notes, lease | limits read from a tracker that may miss one | an agent is told once; no cycle leaves the role with a limited agent | `DriverRoles` |
| **Handover and exit** `governess-handoff.ts`, `governess-exit.ts`, `governess.ts:4600-5100, 6432-6608` | run state, bundles, acceptance | partial failure between stop, kill and launch | the old session dies only for an accepted successor; never two pairs | `Handover` |
| **Native subagents** `native-subagent.ts` | lease journal, epoch | lazy expiry; the child outlives its lease | one child in the slot, served in time, a slot that is freed | `NativeFallback` |
| **Launch** `cli.ts`, `launch-reservation.ts`, `paired-options.ts`, `tmux.ts`, `run-process-cleanup.ts` | manifests, lock, session, app server | unlocked manifest writes beside a locked reservation; a sweep | one live session per workspace or branch, no lost app server | `PairedLaunch` |
| **Start of the Claude pane** `tmux.ts` | screen as captured | late and dropped keys; a draft looks like a suggestion | no key on the wrong screen, no draft pasted over | `ClaudeStartup` |
| **Run state** `run-state.ts` | `manifest.json`, `transcript.jsonl` | manifests of older versions, read-modify-write by many, torn lines | an update changes what it is about; entries keep their order; a selector finds the run meant | `RunStore` |
| **Clearing at start** `stale-bridge-cleanup.ts`, `claude-config-gc.ts`, `run-process-cleanup.ts` | registrations, pids | pids are used again, runs are resumed while they are looked at | what is over and can be judged is ended, and nothing else | `StaleCleanup` |
| **Worktrees** `worktree.ts` | branches, directories, `PLAN.md` | two launches, half-finished ones | a worktree per launch, the plan with one of them | `WorktreeEntry` |
| **Self-update** `update.ts` | staged binary, metadata, last check | several starting processes, deaths between files | the installed binary is whole, ever newer, announced as what it is, but for updates that meet and staged files that do not belong together | `SelfUpdate` |
| **The loop** `paired-loop.ts`, `single-loop.ts`, `iteration.ts`, `review.ts` | iteration, comments, queue | several verdicts, a failing pull request, mail in between | a run is completed by what its last work earned; comments survive | `WorkLoop` |
| **Codex** `codex-tmux-proxy.ts`, `codex-app-server.ts`, `runner.ts` | connections, pending ids, turns | reconnects with requests in flight, late callbacks | a request is answered once by its own answer; a turn has its own result | `CodexProxy`, `CodexServer`, `CodexInject` |
| **Websocket client** `ws-client.ts` | bytes not taken yet, a message in pieces | chunks cut anywhere, control frames in between, a caller that listens late | a message whole, once, in order; a ping answered; nothing after a close | `WsClient` |
| **Claude process** `claude-sdk-server.ts` | child, session, open turn | late results, exits, restarts | a turn has its own answer, in its session | `ClaudeSdk` |
| **Model calls** `openai-compatible.ts`, `governess-llm.ts`, `pi-runtime.ts` | attempts, timers | retries, missed aborts, drafts before the answer | in time, paid for, understood as meant | `ModelCall` |
| **Memory checkpoints** `memory-checkpoint.ts`, `hooks/emit.ts`, `cli.ts` | a file per boundary, the latest, promotions | hooks of one boundary at once, curators beside them, deaths between two files | a boundary has one checkpoint; a promotion says what it was made of | `MemoryCheckpoint` |

Not modelled: the shell lexer and path policy, option parsing, prompts,
git and port helpers, the terminal and web interfaces, usage accounting, the world model and
observability.  `PROJECT.json` has each with its reason; section 8 says more.

The components meet in files.  Agents send over the *bridge ledger*; a *worker*, an *MCP
server* or a poll takes messages from it (*delivery*).  A *hook* turns a tool call of an agent into a
helper job (*routing*); the *Governess* routes it, a worker converses (*conversation*, *tools*,
*model calls*), and its result goes back over the bridge; a patch is applied by the agent.
The Governess fences itself by an *epoch* which the helper store and the leases share,
journals what it types into the panes (*controls*), and ends a run by a *handover* through a *launch*.
Every start of loop first *updates* itself and *clears* what is over.

## 2. Modules, and the order they were written in

1. `UtilityJobs` with its abstract specification `JobLifecycle`, `StoreLock`, `BridgeDelivery`,
   `Handover`: the core, each with theorems.
2. The Governess: `ControlJournal`, `GovernessFence` (with the liveness of its pane, and
   theorems), `GovernessCycle`, `DriverRoles`, `NativeFallback`.
3. Launch and run: `PairedLaunch` (with theorems), `ClaudeStartup`, `RunStore`, `StaleCleanup`, `WorktreeEntry`,
   `SelfUpdate`, `MemoryCheckpoint`.
4. The bridge: `BridgeLedger`, `BridgeWorker`, `BridgeServer`.
5. Agents and helpers: `CodexProxy`, `CodexServer`, `CodexInject`, `ClaudeSdk`, `WorkLoop`,
   `HelperRouting`, `HelperConversation`, `ToolOutput`, `PatchApply`, `ModelCall`, `WsClient`.
6. `MCJobs`, `MCLive` and `MCSystem` check several of them in one run (section 4).

The proofs of a module `M` are in `MProofs`.  Those of `BridgeWorker`, `BridgeLedger` and `BridgeServer` are in
`BridgeDeliveryProofs`, those of `ClaudeSdk` in `PairedLaunchProofs`.  Those of `StoreLock` and
`WorkLoop`, and the theorems of the properties that the run *live* checks, are in `LiveProofs`, which instantiates
the proofs of its other parts.

Next in the plan: theorems about the modules that *system_safe* alone checks (section 6 names those that have
some already).  Of the model, what is left is listed in section 8.

## 3. The modules and the code

Every process of the code has a program counter (`pc`) in the modules wherever
another process may step in between; a file operation, a locked store operation and
a stretch of synchronous code that no other process can see into is one action.  Names are those of
the source where TLA+ allows it, and `PROJECT.json` gives the lines of every definition.  An
operator with a suffix after an underscore (`FailJob_NoReread`) is a deliberate bug of the kind
a change could bring, used to show that a property can fail; no specification contains one.

### `UtilityJobs`, `JobLifecycle` (helper jobs)

| state | code |
|---|---|
| `epochFile`, `nextEpoch` | `<run>/utility/epoch`, the clock epochs are drawn from |
| `job`, `before` | the snapshots `snapshotFromEvents` derives from `jobs.jsonl`; the order of the requests in it |
| `overdue` | jobs whose last event is older than the limit of their state |
| `worker` | the detached process of `runUtilityWorker`, one per routed job |
| `gov` | a Governess inside `processPendingUtilityRoutes` and `recoverStaleUtilityJobs`: what it read, what is left to do |
| `sent` | bridge messages about a job |

A Governess reads the active jobs once (`Scan`) and then works through what it
read: keeps, terminates (`KillWorker`), fails (`FailJob`) and reports each job, with
every store operation of the others in between; then it reads the pending requests,
counts the slots, decides, commits each route and spawns its worker.  A worker claims
(`WorkerClaim`), runs, finishes and sends its result as four steps.  Everybody may
crash between any two steps when `Faults`.

`JobLifecycle` is what the store promises of one job: submitted, offered or
returned, taken, begun, ended, told at most once.  `UtilityJobs` instantiates it for each
job, and the run *jobs* checks the refinement (`LifecycleSpec`).

The claim-time check `hasActiveWriteConflict` (`utility-store.ts:720`) is in the
model, but `WritersDisjoint` also holds without it: routing refuses a request
whose scope meets that of an active job in the same epoch, a decision once taken still stands when it is
carried out, and a job of another epoch is never claimed.  `WritersKeptApart` is proved that way.

### `StoreLock` (the lock file)

`lock` is the file (its creator, whether the token is written, whether it is old),
`pc` the place of a process in `acquireStoreLock`, the read, the append and
`removeOwnedLock`, `fresh` the processes whose read of the journal is still current.  Each
file-system call is an action.

### `BridgeDelivery` (push, nudge and poll)

`ledger` is the state of a message in `bridge.jsonl`, `claim` the claim file of a message
or of the agent's inbox, `dl` a deliverer (the worker, and every `send_message`
call, which delivers at once), `rd` a `receive_messages` call.  Creating, statting and
unlinking a claim file are separate steps; so are the second look at the ledger, the
injected turn and the acknowledgement.  A reader reads, filters the claimed messages,
settles the rest one by one and only then returns them.  The app server is *accept*, *refuse* or
*accept and lose the answer*.  A steer whose answer is lost and that is followed by a start
of the same prompt (`codex-app-server.ts:1473`) counts as one attempt.

### `Handover` (from the request to the end of the old session)

| state | code |
|---|---|
| `disk`, `gov` | `governess-state.json`; the run state in memory, and where the Governess is in `notifyHandoverAgents`, `requestDrainedAgentExits`, `allHandoverAgentsExited`, `advanceHandoverControl` |
| `journal` | the idempotency keys of the controls that were dispatched |
| `agent`, `bundle`, `asked` | a TUI as hooks and pane show it (*busy*, *idle*, `/exit` *typed*, *exiting*, *gone*); its bundle files by epoch; the drain requests it got |
| `sess`, `accepted` | replacement sessions; `acceptance.json` |
| `old` | the old session, and why it ended |

The observation of the agents at the start of a tick (`Tick`), the look at the terminal
before the journal entry and the one inside `tmuxFallback`, the typed text and the Enter
after 250 ms are separate steps.  The exit key is keyed by the epoch of the
Governess and the drain key by the epoch of the handover, as in the code.  `Interlocked`
says whether the replacement passes `reservePairedLaunch`; *FALSE* is the environment the
repository's tests use (they inject a launcher) and shows the rest of the protocol, *TRUE* is
the code as it is started.

Read from the code and not a property: a handover begun in memory is on disk only after
the first pass, so that a crash before it forgets the handover while the request is out;
after a restart `/exit` may be typed to an agent a second time; an `/exit` refused
at the second look is noted as requested and never typed again, and a drain request whose
dispatch is journalled but which was not sent is never sent (`Spoilt`).  The
handover then waits for the agent to leave by itself or for the human.  The
specification `src/specs/governess-runtime/spec.md:31` describes the close of a drained TUI
without that exception.

### The Governess: `ControlJournal`, `GovernessFence`, `GovernessCycle`, `DriverRoles`, `NativeFallback`

`ControlJournal` keeps the records of `governess-control.jsonl` as a set, each with its place in the
order of the appends (`at`), the index in memory and on disk with the size and mtime they were stored with,
and the effects that happened.  An index stands for the records it was built from.  A prepare, an append, the effect, its settlement and each half of a compaction are steps; a
Governess may die at each of them.  `Overlap` says whether the old and the new Governess write at the
same time: the properties hold for *FALSE* (one at a time, with crashes), and section 7 has what *TRUE*
shows.

`GovernessFence` has the epoch in the state file and in the utility store, each Governess with the
epoch it took, the hook of the dead pane and the restarts it counts in its window.  `GovernessCycle`
and `DriverRoles` count time in cycles; what a judge or the usage tracker answers is any of the
answers the code tells apart.  `NativeFallback` has the lease, the evidence that it needs, the child
that uses it, and elapsing time as a step.

### Launch and run: `PairedLaunch`, `ClaudeStartup`, `RunStore`, `StaleCleanup`, `WorktreeEntry`, `SelfUpdate`, `MemoryCheckpoint`

`PairedLaunch` is a set of launchers over manifests, tmux, one reservation lock and app servers; only
the reservation is under the lock.  `RunStore` looks at the same manifest from the side of its
text: what is read from manifests of older versions and hand-written ones, what an update writes
back, and what is left when two updates overlap.  Fields are told apart by how they are read (must be
right; must lie in the run; dropped when wrong; any text).  `StaleCleanup` has the processes of
the machine by pid, with pids that are used again between two looks; each `ps`, each look at a run and each
signal may fail, and `spared` are the pids which the sweep preserves for that.  `SelfUpdate` has any number of
starts of each process, each of which may die at every file operation; `hurt` remembers where that leaves
files of two releases side by side, and `mixed` that one update began while another was underway
or waiting.  Both are in no file: they are what its properties exempt.  `ClaudeStartup` counts
polls, with the limits of the code scaled down together, and is the only module in which a
screen is modelled, by what `unblockClaudePane` tells apart.  `MemoryCheckpoint` has the hook processes of one
agent and the curators; a checkpoint is its boundary, its time and whether git knew the commit.

### The bridge: `BridgeLedger`, `BridgeWorker`, `BridgeServer`

`BridgeLedger` is the sequence of lines; a send reads, decides and appends up to three lines, with
others in between.  Two of its properties hold *unless blind*: unless the line that matters was appended
after the read.  `BridgeWorker` has the pid file, the drains, and the sleep with its arming of the file
watch.  `BridgeServer` is one process with a queue of requests, the flush after each, the sweep and
its several ends.

### Agents and helpers

`CodexProxy`: connections of the TUI, links to the app server, ids in flight, and the evidence by which it
judges its session dead.  `CodexServer`: spawned servers, one client, late callbacks that do not name
their server.  `ClaudeSdk`: the same for the Claude child.  `WorkLoop`: iterations, reviewers, comments,
mail and the state in the manifest.

`HelperRouting`: from a command (its stages) or packet to a helper: the decision of the hook, rooting
of paths, resolution, admission, choice of tier.  Files, directories and commands are classes: what
the source tells apart about a command is its stage's command, names and cut.  `HelperConversation`
has the three harnesses.  `ToolOutput` and `PatchApply` are the tools.  `ModelCall` has the timers of one
call; what a model writes is a short sequence of pieces (a tag, a brace, an object of one
kind, a heading).

`WsClient` is one connection.  The server's stream is a script of frames, with the pieces they come in chosen
by the environment; `MessagesWhole` compares what was handed over with what RFC 6455 makes of the script,
read without a reader's state.  The caller learns of its client by a promise and listens when its
microtask runs, behind as many further promises as its own functions have.

### Composites

`MCLive` and `MCSystem` check several components in one run.  `Init` chooses the `part` of a
behaviour; every action is an action of that part, and the variables of the others rest, so
that the states of a run are the sum, not the product, of those of its parts, and a property
of a part is `part = ... => ...`.  In `MCSystem` the parts also share their variables:
`x1`, `x2`, ... stand for the variables of the part that was chosen, in their order
(`INSTANCE ... WITH journal <- x1, ...`), which keeps states small.  A part is
exactly the module it instantiates; nothing is composed *between* parts, and every
interaction of components that is modelled is inside a module (a second Governess, a
sweep, another sender are actors of the modules).  The assumptions of the parts on their constants
are ASSUMEd there.

## 4. The runs

| run | parts and instance | shows |
|---|---|---|
| *jobs* | `UtilityJobs`: 2 Governesses that crash (interchangeable, hence a symmetry), 2 epochs, and 2 requests in two settings: one Nanny slot without scopes, or one path to write without the limited tier | every property in both settings: ownership of the runner, slots, writers apart, reports once and true, queue order, refinement of `JobLifecycle` |
| *live* | `StoreLock` (3 processes, 2 faults), `UtilityJobs` (2 requests, 1 Governess, any target), `GovernessFence` (3 starts, 1 beside the pane, 1 restart per window), `NativeFallback` (2 requests, 2 children), `ControlJournal` (2 Governesses one after the other, 1 control, compaction at 3 records, 1 fault), `WorkLoop` (paired or single, 3 iterations, 2 messages, 2 hops, 1 further prompt, 1 crash, 4 outputs of a review) | the lock excludes until a stale file is broken and never blocks for ever; every request settles; a superseded Governess acts once at most while one is started beside the pane, and the run is supervised again unless its budget is spent; one child in its slot, in time, and the slot is freed; one effect for an idempotency key, no record lost and no Governess ended by its own journal; a run is completed by what its last work earned, and the comments of a review survive |
| *delivery_live* | 1 message with a ttl, 2 deliverers, 1 reader, app server or tmux, 1 fault | no double turn without a fault, nothing settled unread, every message arrives |
| *handover* | 2 agents, 3 replacements, 2 epochs, 1 turn, 1 fault, no reservation | asked once, closed with a bundle, never two pairs, teardown only for a successor, one replacement and one more for each fault, completion |
| *system_safe* | the 22 other modules, one part each; see below | the seven `...Kept` properties |
| *jobs_slot_overrun*, *jobs_lost_result* | 1 Governess, no crash | violations: two running workers in a tier of one slot; a completed result is never sent |
| *lock_stale_break* | 3 processes, 1 crash | violation: two contenders break a stale file, the second unlinks a fresh one |
| *delivery_slow_turn*, *delivery_two_owners* | 2 deliverers; 1 deliverer and 1 reader | violations: a message injected twice after 60 s; pushed and polled |
| *handover_circular* | as *handover*, with the reservation, 1 epoch, 2 replacements, no fault | violation: the launch waits for the old session and the old session for the launch |
| *worker_gap* | `BridgeWorker`, 2 senders, no fault | violation: two workers retire in favour of each other |

The properties of *system_safe* are conjunctions, one conjunct per part, and each part's own is again the
conjunction of its named properties, which have their comments in its module:

| property | parts | named properties |
|---|---|---|
| `GovernessKept` | `GovernessCycle`, `DriverRoles` | `CalledOncePerEpisode`, `Spaced`; `PreparedOnce`, `DriverKept` |
| `LaunchKept` | `PairedLaunch`, `ClaudeStartup`, `RunStore`, `MemoryCheckpoint` | `OneOwnerUnlessResumed`, `ServerAccounted`; `NoKeyAstray`, `DraftKept`; `InOrder`, `RightRun`; `CheckpointsKept`, `PromotionsKept` |
| `SetupKept` | `SelfUpdate`, `WorktreeEntry`, `StaleCleanup`, `RunStore` | `InstalledWhole`, `NeverBack`, `ToldTruly`; `OwnTree`, `PlanFollows`; `RegistrationKept`, `StruckRightly`, `NoneLeft`; `UpdatesKeep`, `NeverLost`, `Agrees` |
| `BridgeKept` | `BridgeLedger`, `BridgeWorker`, `BridgeServer` | `KeyHeldUnlessBlind`, `SupersededHasSuccessor`, `BacklogHeldUnlessBlind`; `SleepsOnlyWhenEmpty`, `OneWorkerStays`; `AnsweredInOrder`, `AllAnswered`, `TakenOnce`, `SweepsAgain` |
| `CodexKept` | `CodexProxy`, `CodexServer`, `CodexInject`, `WsClient` | `AnswersOwed`, `NeverStranded`, `StopsWhenDead`, `ReboundSpared`; `OwnResult`, `BegunWithinLimit`, `NoStrayServer`; `InjectKept`; `MessagesWhole`, `LostOnlyEarly`, `WrittenRightly` |
| `HelpersKept` | `HelperConversation`, `ToolOutput`, `ClaudeSdk`, `HelperRouting`, `ModelCall` | `CompletedWithEvidence`, `WithinBudget`, `RejectionsCounted`; `NumberedRight`, `PagesCover`, `CutLast`; `OwnAnswer`, `SessionsKept`, `OwnChild`; `DeniedIsServed`, `LaneAgrees`, `AdmittedIsBounded`; `InTime`, `RepeatedForCause`, `Accounted`, `Concluded` |
| `PatchKept` | `PatchApply` | `WrittenOnPreimages`, `RecordedTruly` |

Its bounds, in `system_safe.cfg` and in the INSTANCEs of `MCSystem`: two agents, launchers, children and
updaters; two episodes and three
recoveries; three runs and one crash of a launcher; three senders with a backlog of one; two workers
with a fault; two connections and two links of the proxy; three servers with two faults; three turns of Claude with a
fault; four tool calls of a helper; two jobs on
common files with one edit and one crash; pages of two lines; three releases, with any number of starts of two processes until two updates have met;
two worktrees with one death; two pids and three events around a sweep; two requests and two
changes at the MCP server; a call with up to two retries and five pieces of text; three updates of a manifest by two
writers and three entries of a transcript with two crashes;
scripts of up to three frames of two pieces each; two hooks and two curators with a death.

Why the bounds are enough.  The races of these protocols need two processes and one
object: a slot is contended by two requests, a claim by two deliverers, a manifest by two
writers, a lock by two contenders and the file of a dead third, hence three.  One fault hits every step
once; a second one is only needed where recovery itself may fail (the lock, the servers).  Two epochs
give an old Governess and its successor.  A second message adds interleavings of independent claim
files, not new ones.  A limit the code counts to (retries, repeats, restarts, polls) is scaled to the
least value at which reaching it, and going one beyond, are different.  Deadlock is not checked in the
runs whose systems stop: a run ends, a call is over, the bounded inputs are used up.

Every property of a passing run has a mutant in `PROJECT.json`: a definition of the model changed the
way a plausible bug would change the code, under which the run finds the property violated.  The
modules hold a further mutant for the conjuncts that the listed one does not reach.

Some properties exempt what the code does get wrong, and say so: a reader that dies with a batch it has
settled (`dropped` in `BridgeDelivery`), an exit refused at the second look (`Spoilt` in `Handover`), two Governesses that
write one control journal (`Overlap`), updates that meet or leave files of two releases (`mixed`, `Mismatched` in `SelfUpdate`).  These
cases are not covered by a property; `PROJECT.json` says so at the hazard, and section 3 or 7 has each.

## 5. Fairness

* `UtilityJobs`: weak fairness of a Governess that is up, of a started worker, and of
  the deadlines.  The Governess ticks on a timer, its pane is respawned when it dies, and
  a worker is an operating-system process.  Crashes and requests are not fair.
* `StoreLock`: a live process goes on (the operations are synchronous), and a file
  grows old.
* `GovernessFence`: a Governess that runs goes on, and tmux runs the hook of a dead pane.  That a
  Governess dies is not fair.
* `NativeFallback`: the Governess processes the requests, which expires leases.  That a child starts
  or ends is not fair.
* `BridgeDelivery`: the deliverer retries (the worker wakes at least every poll interval), notices
  and claims age, an agent that was nudged reads.  A pane or an app server that is
  tried again and again accepts at last: strong fairness of `PaneReady`, `Nudge` and `Accept`, for
  a busy turn ends.  An agent that polls by itself is not assumed.
* `BridgeWorker` (*worker_gap*): a call that was begun and a worker that runs go on.
* `Handover`: the Governess goes on and is respawned, turns end, a request leads to a
  bundle, an entered `/exit` ends the TUI, a started replacement comes up and accepts, and the
  human tries a failed launch again (strong, as the key is read once per tick).  That an agent
  leaves by itself, that a turn starts, or any fault is not fair.
* *system_safe* checks safety alone, without fairness.

## 6. What is proved

| theorem | states | argument |
|---|---|---|
| `TypeCorrect` (`UtilityJobsProofs`) | `TypeOK` with `CurrentJob`: a Governess that acts on a job names one | one lemma per action; the helpers `GovUpdate`, `ResumeType`, `MoveType` carry what most actions share |
| `ReportedOnce` (`UtilityJobsProofs`) | `ReportedOnceAndTruly` | `WorkIsRouted` and `Reports`, see below |
| `RunnerOwns` (`UtilityJobsProofs`) | `RunnerOwnsJob` | `Owning`: with it, no job is ever canceled in the model, and what a Governess acts on is ready for it |
| `ImplementsLifecycle` (`UtilityJobsProofs`) | `Spec => LifecycleSpec`, the refinement of `JobLifecycle` for every job | `Owning`; one lemma per action says which step of the promised life it is, or that it stutters |
| `SpawnedOnce` (`UtilityJobsProofs`) | a job gets at most one worker process | `Orderly`: epochs of running Governesses differ and are below the next one (`EpochsOrdered`), and who is about to spawn a worker is alone with that job (`OneSpawn`).  It justifies the one worker per job of the model |
| `WritersKeptApart` (`UtilityJobsProofs`) | `WritersDisjoint` | `DecisionStands`: what was decided on an earlier read is free of conflicts when it is carried out |
| `QueueInOrder` (`UtilityJobsProofs`) | `TierQueueInOrder` (an action property) | `Batch`, `PassedOver`: a request left waiting in a pass found its tier full, and the count of a pass never falls |
| `SlotsKept` (`UtilityJobsProofs`) | `ClaimedWithinLimit` | `SlotsCounted`: the Governess of the current epoch has counted at least the jobs that run or may still be claimed under it |
| `ExclusionUnlessBroken` (`LiveProofs`) | at most one process inside `withStoreLock` in a behaviour in which no stale file is broken | while nothing is broken, who is inside owns the file |
| `CurrentReads` (`LiveProofs`) | under the same condition an event is appended on a journal its writer has read as it is | a process between read and append is current, because it is alone |
| `TypeCorrect` (`BridgeDeliveryProofs`) | `TypeOK` of the delivery | `Shape`: what each step of a deliverer and a reader has in hand |
| `NothingSettledBehindTheAgent` (`BridgeDeliveryProofs`) | `DeliveredMeansConsumed` | `Settled`: a deliverer acknowledges after its turn, a reader at rest owes nothing |
| `PushedOnceUnlessFault` (`BridgeDeliveryProofs`) | `InjectedOnceUnlessFault`, provided no turn outlasts its claim (`~Slow`) | `OneTurn`, see below |
| `WorkerTypes` (`BridgeDeliveryProofs`) | `TypeOK` of `BridgeWorker` | `WShape`, `Waits`: no worker knows a version that is still to come |
| `WorkerHolds` (`BridgeDeliveryProofs`) | `BridgeWorker`'s `WorkerKept`: `SleepsOnlyWhenEmpty` and `OneWorkerStays` | `Waits` and `Named`, see below |
| `LedgerTypes` (`BridgeDeliveryProofs`) | `TypeOK` of `BridgeLedger` | `LedgerInv`, see below |
| `LedgerHolds` (`BridgeDeliveryProofs`) | `BridgeLedger`'s `LedgerKept`: `SupersededHasSuccessor`, `KeyHeldUnlessBlind` and `BacklogHeldUnlessBlind` | `LedgerInv` |
| `ServerTypes` (`BridgeDeliveryProofs`) | `TypeOK` of `BridgeServer` | `SrvInv`, see below |
| `ServerHolds` (`BridgeDeliveryProofs`) | `BridgeServer`'s `ServerKept`: `AnsweredInOrder`, `AllAnswered`, `TakenOnce` and `SweepsAgain` | `SrvInv` |
| `TypeCorrect` (`HandoverProofs`) | `TypeOK` of the handover | `Shape`: past *idle* a run state has the epoch of its handover, a launched one its session, and what the Governess does fits its mode |
| `AskedAtMostOnce` (`HandoverProofs`) | `AskedOnce` | `Asking`: the journal holds the key of every request that was sent, and of the one about to be sent, which was not sent before |
| `NoneClosedWithoutBundle` (`HandoverProofs`) | `ClosedWithBundle` | `Closing`, see below |
| `OnePairAtATime` (`HandoverProofs`) | `NeverTwoPairs` | `OnePair`: from the decision to launch on, every old agent is gone, and none comes back |
| `SessionKilledForSuccessor` (`HandoverProofs`) | `TornDownForSuccessor` | `Handing`: every bundle is taken in from the launch on; before the session is killed the launched replacement is on disk, came up and accepted |
| `OneReplacement` (`HandoverProofs`) | `OneReplacementPerFault` | `StraysCounted`: a live replacement that is not the one the Governess has in hand has cost a failure, and a launch begins only with nothing in hand |
| `TypeCorrect` (`GovernessFenceProofs`) | `TypeOK` of the fence and the pane | `Shape`: Governesses are born in turn, the hook runs over a dead pane, recorded restarts are within the budget |
| `FenceHolds` (`GovernessFenceProofs`) | `FenceKept`: `SupersededActsOnce` and `RespawnsWithinBudget` | `Fenced`, see below |
| `TypeCorrect` (`PairedLaunchProofs`) | `TypeOK` of the launches | `Shape`: a launcher past its reservation has a run that exists, one it made or one that is resumed |
| `LaunchHolds` (`PairedLaunchProofs`) | `PairedLaunch`'s `LaunchKept`: `OneOwnerUnlessResumed` and `ServerAccounted` | `LaunchInv`, see below |
| `SdkTypesHold` (`PairedLaunchProofs`) | `TypeOK` of `ClaudeSdk` | `SdkInv`, see below |
| `SdkHolds` (`PairedLaunchProofs`) | `ClaudeSdk`'s `SdkKept`: `OwnAnswer`, `OwnChild` and `SessionsKept` | `SdkInv` and `SessInv`, see below |
| `TypeCorrect` (`NativeFallbackProofs`) | `TypeOK` of the leases | the same invariant, `Slotted` |
| `OneSlot` (`NativeFallbackProofs`) | `NativeFallback`'s `OneChildInTheSlot` | `Slotted`: two active leases are one, and whom a lease has served is the child it is bound to |
| `ServedUnderIt` (`NativeFallbackProofs`) | `NativeFallback`'s `ServedInTime` (an action property) | `Slotted`: an active lease is of a request whose evidence has settled |
| `TypeCorrect` (`ControlJournalProofs`) | `TypeOK` of the journal and its indexes, if Governesses do not overlap (`~Overlap`) | `IInv`, see below |
| `EffectOnce` (`ControlJournalProofs`) | `EffectOncePerKey`, if `~Overlap` | `IInv` |
| `NothingLost` (`ControlJournalProofs`) | `NoRecordLost`, if `~Overlap` | `IInv` |
| `NeverEnded` (`ControlJournalProofs`) | `NeverEndedByJournal` (an action property), if `~Overlap` | `IInv` |
| `WorkHolds` (`LiveProofs`) | `WorkKept`: `CompletedEarned` and `CommentsCarried` of the loop | `WorkInv`, see below |
| `FenceHolds`, `OneChild`, `ServedUnderIt`, `JournalHolds`, `JournalNeverEnds`, `TypesHold` (`LiveProofs`) | `FenceKept`, `OneChildInTheSlot`, `ServedInTime`, `JournalKept`, `JournalGoesOn`, `LiveTypeOK` of `MCLive` | a behaviour of `LiveSpec` is one of each part (`LiveParts`), and the instances meet the assumptions (`LiveConstants`) |

All but the last row are for any number of jobs, processes, tiers, epochs, agents, sessions and faults,
from the assumptions on the constants named in each module (`ConstantsAssumption`,
`LockConstants`, `DeliveryConstants`, `HandoverAssumption`, `FenceAssumption`, `LaunchAssumption`,
`NativeAssumption`, `JournalAssumption`, `LoopConstants`,
`WorkerConstants`, `LedgerConstants`, `SdkConstants`, `ServerConstants`).  The last nine are hypotheses of the theorems; `MCLive` and `MCSystem` assume them of their instances, so that
TLC evaluates them.  The runs *live* and *system_safe* check what these theorems state through those
instances, and `LiveProofs` derives what *live* checks from them.

`ReportedOnceAndTruly` is not inductive: nothing in it says why the second of a worker and
two recovering Governesses does not report.  The invariant that is (`WorkIsRouted` and
`Reports`, on top of the type invariant) gives each settled job at most one *debtor*, the
process that appended the terminal event and has still to send the message.  While there is a debtor
nothing was sent; the store refuses a second terminal event, so a debtor is made only by
the step that settles the job; and a message is sent only by the debtor, which then is
none.  One lemma per action shows this, and two transfer lemmas (`QuietStep`, `LocalStep`)
carry the steps that touch neither journal nor messages.

`ClosedWithBundle` relates a terminal to the run state on disk and to a file the agent
wrote, while `/exit` is typed on what the Governess has in memory.  `Closing` is what makes
the three agree: a handover on disk is the one in memory, no agent counts as asked
before its handover is on disk, and the bundles taken in are those of that handover.  It has to
hold over a handover begun in memory only, over a start that reads the file, and over
a retried launch; `RunStateStep` sorts every step into the six ways the pair of run
states can change, and each conjunct is shown for each of the six.

`InjectedOnceUnlessFault` needs that the claim of a deliverer is still its own when the turn is accepted.
The code ages claims by the clock alone, so that without `~Slow` it is false (*delivery_slow_turn*).
With it, `OneTurn` holds as long as nothing has failed: no claim grows old, nobody breaks one, the holder of
the claim is the only deliverer past its second look at the journal, and a message that had its turn is
known to be settled there or is still in the hands of that holder.

`SleepsOnlyWhenEmpty` is about a look at the journal, a decision on how long to wait and a wait for another
version, with appends in between.  `Waits` says it of a worker that has decided and does not sleep yet, and needs that
what is pending grows only with the version.  `OneWorkerStays` compares workers that know of each
other by a file only.  `Named` says when the file can be without a pid although workers run: a call is about
to write one, or a worker took its own away and is gone.  So of two that were started one is gone, or
the file names the one that stays.

`LedgerKept` is about decisions that rest on a read, with any number of appends of other processes before their own.
`LedgerInv` follows each call (`CallOK`): what it has seen is in the journal for good, so that of
this only less can be pending later, and its own line comes after its decision.  A message with the same key
that it had seen would have been found, because of calls that have begun one is the first (`OneIsFirst`, from
the well-foundedness of the numbers); what it replaced is settled before its own line.

`ServerKept` is about requests that come in chunks, wait in a queue and are answered behind notices that the sweep and
other calls push.  `SrvInv` orders all three places at once (`InOrder`): what was asked later is behind in the
queue, in the input and among the answers, the head of the queue alone may have its answer before it leaves, namely
while its flush runs.  Every request that asks for an answer has got one, has failed or still waits in one of those places
(`Asked`), and the server closes only after its input, with nothing waiting (`Ends`); so none is missing at the end.  Exactly
what was written has left the inbox, each message in one line (`Once`); that a flush writes each pending message once
rests on the list of a finite set (`Listed`).

`SupersededActsOnce` is about a look at the epoch file that precedes each control.  `Fenced` has to say why a second look
after a late control always finds the newer epoch: epochs are handed out in turn and to one
Governess each, of two Governesses that run one has the newest epoch there is, and one that acted late has a
newer epoch before it in the file and is neither acting nor saving.  The second of these is
where the premise comes from: it holds while one Governess is started beside the pane and not with two
(section 7).

`OneOwnerUnlessResumed` is decided under the reservation lock from manifests that were read before the sessions
were asked about, and all that comes after is without the lock.  `LaunchInv` follows a run from its
reservation on.  Until somebody resumes it, it is its maker's (`Made`): the manifest names the maker,
is active until the session is created, which is not before it is named in the manifest, and names the app server
while that is up.  A sweep may write to it all the same, so `Judged` says that it judges only runs
whose process is dead, and stays right about that.  A run *holds* its workspace while its session is
live or its maker may still create it; `HoldsBefore` shows that no step but a reservation makes a run hold one.
`Scanned` then says that what a launcher read under the lock still shows every run that holds a
workspace, whatever happened since, because the lock of a live launcher is not broken; and
`Granted` that it is refused each of their workspaces.

`OwnAnswer` is about messages that name no turn: the client takes the next result of its child as the answer to
the turn that waits.  `SdkInv` says what may be on the way (`Exchange`): between two turns of a child, none of which was
given up, nothing is unread and no prompt is left; while one waits, there is at most its prompt or the
continuation after its background tasks, not yet taken, or the end of what the child wrote to one of them.  It needs that all
children but the client's have exited and, once the client's is ready, nothing of theirs is unread
(`ChildOK`): that is what the wait in `cleanup()` and the startup grace are for.  A turn that times out takes
the premise away for the turns of that child, and `OwnAnswer` claims no more.

`SessionsKept` is about what a child had in its transcript when it answered, while the client only hands a session
on: from the first message of an answer to its fields, past `cleanup()` as the last one it had, and on to the next
child.  `SessInv` follows that way.  With a persistent session there is one session from the first answer on
(`OneSession`), the call that replaces a child asks for it (`Resumes`), and the client has read its name before it
reads a result (`Begun`); so an answer to the last turn, when it is on its way, knew all that were read before it
(`Remembers`).  Without one every turn has a child and a session of its own (`OfItsOwn`), but only until a turn is
given up: the child of that turn is not told to exit, and the next turn finds it (`Fresh`).

`OneChildInTheSlot` depends on a pass that decides requests in their order and looks at the slot again
after each grant, while other operations find the first lease in a state and expire what is due on the
way.  `Slotted` says of every journal of leases that at most one is active, that an active one has settled
evidence, and that only the child a lease is bound to was ever served under it; that holds of a lease that has
expired too, which is why a child that stops late, or whose tool comes after the next grant, changes nothing.

`EffectOncePerKey` is a fact about the journal, and the code decides from an index.  `IInv` says when an index can be
trusted: the index file, or the cache of any Governess, whose stat is that of the journal has exactly its records
(`Current`).  It follows every operation (`Fits`): what a Governess has in hand while it appends or compacts
is the journal, what it is about to append ranks above every record of that control, and what it is about to
rename away is in the archive.  Each of these needs that no other Governess runs (`OneAtATime`, from
`~Overlap`); with two it is false (section 7).  The records of a control rise in rank (`Sound`), so the latest
one tells whether the control was dispatched, and an effect that happened is `Backed` by a dispatched record.  A key
with such a record is never open again, since `Closed` asks for it; one at a time, no key is even tried twice.

`CompletedEarned` compares the end of a run with reviews that lie a drain, a decision and a turn for the pull
request behind it, and any of those may fail, bring mail or be the last thing before a crash.  `WorkInv` keeps
what the run has *earned* tied to the work that was reviewed: whatever has earned approval owes no comment and
had a clean pass of every reviewer (`PassIsClean`: the verdict the code reads off an output is one), and the
next prompt and a crash take it back.  What is owed is in the notes except between a review and its
decision, drains included (`Carried`), so that it is there when the next prompt is made.

Only model-checked: liveness and everything that needs fairness or ENABLED (out of
the prover's reach), and every module that only the run *system_safe* checks, except
`PairedLaunch`, `BridgeWorker`, `BridgeLedger`, `BridgeServer` and `ClaudeSdk`.  The *violation* runs and the theorems do not
disagree: what fails there is stated without the premise of the theorem (`~Slow`, nothing broken, no fault) or is another property.

## 7. Where the code and its documentation disagree

By a run, each quoted with the line that says otherwise in `PROJECT.json`:

1. *jobs_slot_overrun*: a job judged unclaimed from an old read is failed while its worker
   starts; nobody stops the worker, and the slot is given away.
2. *jobs_lost_result*: a worker judged overdue is killed between recording its result and
   sending it; the result is never sent.
3. *lock_stale_break*: between the stat of a stale lock and its unlink by name
   another process breaks it and makes its own, which is then unlinked.
4. *delivery_slow_turn*: a delivery claim is stale after 60 s, a turn request may take far longer.
5. *delivery_two_owners*: a poll filters claimed messages before, not while, it settles
   them.
6. *handover_circular*: the replacement is launched into the workspace the old run still
   owns, and is refused; the old run is stopped only after the replacement is up.
   The order in the specifications (`src/specs/governess-runtime/spec.md:28`, "teardown-first";
   `src/specs/handover-fidelity-dedup/spec.md:36`) is not the order in the code.
7. *worker_gap*: two workers started at once may both retire, and reconciliation ceases.

Four properties of the modules are true to a document and false of the code.  They are stated in
the modules and in no run, because the runs are limited in number; TLC finds each violated when it is
given to the run of its part:

* `CalledOnOwnAssessment` (`GovernessCycle`; `governess.ts:4056-4058`): the human is called about an idle
  episode on the assessment of an earlier one.
* `StuckCallsHuman` (`GovernessCycle`; `src/specs/governess-pane/spec.md:46`): an agent may stay stuck without a call.
* `RestoredAfterCooldown` (`DriverRoles`; `governess.ts:5460`): the initial driver is not restored after the cooldown.
* `OneOwner` (`PairedLaunch`; `src/specs/active-launch-interlock/spec.md`): a cold resume of a run in a final
  state passes without the conflict rule, so that two sessions own a workspace.  The runs check
  `OneOwnerUnlessResumed`.

With two Governesses started beside the pane (`Beside = 2` of `GovernessFence`) one that is superseded may act
more than once: an older one that saves last puts its epoch back in the file.  `SupersededActsOnce` has
the premise `beside <= 1`.

`ControlJournal` with `Overlap = TRUE` (a compaction while the old Governess still appends,
`governess-journal.ts:367-369`) also loses records and repeats an effect; the runs have *FALSE*.

Read from the code while modelling, and in the models as it is.  None of them is a property.

*Governess.*  A reset of the clock rolls the epoch forward.  Two Governesses started together may both
end; a survivor whose epoch is older than the store's fails closed in routing.  A failed respawn is
not tried again, and one by hand between two hooks goes over the budget.  Messages about roles
are suppressed by their idempotency key within an epoch.

*Launch and run state.*  The sweep of abandoned runs clears the transport fields whatever they
are by then, and lists the sessions once.  "tmux bridge delivery instead" is announced and then the launch throws "missing Codex
proxy".  A launcher killed before it bound its run leaves a "submitted" run that
blocks until it is resumed.  A manifest is changed without a lock, so that an update is lost when two
writers overlap (`RunStore`'s properties except the writers that were overtaken); an
unreadable one is replaced by a fresh one; an invalid adapter identity makes all of it
unreadable while other invalid fields are dropped; an unknown state is read as "working"; a
rewrite drops what the reader does not know; temporary files of dead writers stay.  A transcript entry
behind a torn line is lost with it.

*Bridge.*  A message is appended before the line that dead-letters it or its replaced one, so it may
be delivered though its sender was refused; a replacement may be dead-lettered with both lost.  Only the target of
the first pending message is nudged (`bridge-runtime.ts:1466`).  A worker that dies between the
accepted turn and the acknowledgement injects again (`bridge-runtime.ts:1302`).  A reader that dies between its
acknowledgements and its answer has settled messages that nobody reads (`bridge-dispatch.ts:55`; `dropped`).  Three calls at once may leave two
workers running and no pid in the file: the third worker leaves because of another's pid, and as its own
is written by then it removes that; their claims still keep the two from delivering one message twice.  A request of the MCP
server whose handler throws is never answered (`bridge.ts:841`), and if it was the last one, its rejection ends the server
without a last flush (`bridge.ts:847`); a torn frame ends the server whatever is
queued; a signal ends it without its output, though messages in it are acknowledged.

*Codex and Claude.*  A proxy stopped during a reconnect leaves the new upstream attached; answers of the TUI to requests
of the server go to whichever upstream is there.  `handleUnexpectedExit` does not know of which server it
hears; a completion that comes before the turn is registered is lost until the timeout; the fallback
`codex exec` may run the prompt a further time.  The Claude client keeps a dead child as ready, so that the next
turn ends by its timeout alone; a late result of a turn that timed out settles the next one of the same
child; the comment at `claude-sdk-server.ts:587-588`, "force a fresh session ID and avoid carrying state across
independent loop turns", does not hold after a timeout.

*Websocket.*  `ws-client.test.ts:120` has "preserves a first frame coalesced with the HTTP upgrade"; that holds for a caller
who awaits `connectWs` itself.  A message that comes with the HTTP answer is handed to nobody if the caller is behind
a further promise, as the connector of `codex-app-server.ts` is (`LostOnlyEarly`).  After a
protocol error the chunks that still come are read and handed over.  A close of the server is answered
after a close of the client's own, and pings after either.

*The loop.*  Comments of a review are lost when the turn that has them fails (`src/loop-fork/README.md:249`), at the
iteration limit, or when mail is drained during the review.  The primary may work on mail
after the approval, and the pull request is created unreviewed (`src/loop-fork/README.md:29`).  A signal leaves
the manifest in "working" or "reviewing".

*Helpers.*  `utility-runtime.ts:128-129` says that a read plan "advances only after that step
succeeds", but a focused check that exits non-zero advances it, except under the direct harness.
`validatedPatchTargets` sorts by code unit and `validatedImages` by locale, so that a patch whose names order
differently is always refused (`Mixed` in `PatchApply`).  A bounded page whose last line is
blank loses it.  A crash between git apply and the record leaves a job refused for drift for ever.  A focused check of an adopted linked
worktree has absolute scopes and relative operands, which `utility-workspace.ts` refuses, although
`governess-hooks.test.ts` pins that combination; other calls that the hook denies and the Governess gives
back are a read plan with an output boundary, and `wc -l` with a cut.  An error of telemetry after the route was
appended reports "route-failed" and lets the call run though the job is queued.

*Models.*  A timeout or abort through pi is an error like any other, so that `judgeAgent` says "unreachable", never "timeout",
although `governess-llm.test.ts:352` has "AbortError from timeout returns timeout" for the other client.  An
abort during the start of pi is missed, and its own ten minutes remain.  The HTTP client has no timer on the
body; tokens of retried answers are not counted.  A block of thoughts that is not closed lets a draft be taken for
the answer.

*Setup.*  A torn binary may be installed despite "refusing to install unverified binary" (`update.ts:181`), in
two ways.  A start may read a staged binary that another one is rewriting beside older metadata.  And one process at a
time: a start dies between the two unlinks (`update.ts:220-221`), or is refused one of them; the next finds
nothing whole to apply, downloads the next release and dies inside `writeFileSync` (line 195) beside the metadata that
was left; the start after that finds both files and installs what it finds (line 218).  If it dies between the
binary and the metadata instead, the release is announced under the version of the older one.  A bridge of a run that is over
outlives the sweep when a `ps -p` for it fails or takes longer than 750 ms, when its run cannot be inspected, or when the signal is
refused; and the note of a bridge whose command line could not be read is removed although the bridge lives
(`run-process-cleanup.ts:256`).  A release staged late is applied
over a newer one installed by hand; the time of the check is saved before the question, so that a
failed check waits six hours.  A boundary that comes
again writes the latest with a content no checkpoint has, so that a promotion of the latest names a source
that is soon gone; two promotions whose titles have one slug overwrite each other's markdown, and a death
between the files leaves one without provenance (`PromotionsKept` says with which exceptions it holds).
Two launches that ask for the same worktree race; either may take
`PLAN.md`.  Bridges and registrations of a run with a final manifest are removed though its session is open.

## 8. What is not modelled

`PROJECT.json` lists every component with its status, and maps more than a quarter of the lines of the
implementation.  The rest is of these kinds:

* **Views** (about a quarter of all lines): the board of the Governess in `governess.ts`, the panel,
  the observability tables, the web interface with its live data, the layout of tmux and its command lines.  They
  read journals and manifests and write text; a model of them would restate the formatting.
* **Analysis of strings**: the lexer of the shell commands in `delegation-policy.ts`, the walk of a path in
  `utility-path-policy.ts`, the classification of pane texts in `governess-detect.ts`, options and
  prompts.  The modules have the classes that the callers tell apart, and any text may be of any class.
* **Arithmetic over usage**: quotas, context sizes, token prices.  Where it decides, the decision is a choice of
  the environment (`DriverRoles`).
* **One process, one file**: ports, git helpers, notifications.
* **Derived records**: the world model, replay, reports and evaluation scripts.

Of the modelled components: two Governesses at once during a handover (each alone is in `Handover`, both in
`GovernessFence`); a state file whose write fails; validity and digests of bundles; the exit menu; ticks
in which tmux does not answer (in `GovernessCycle`, not in `Handover`); the worktree copy of a tree
without commits; a registration whose command is missing; prompts and traces of model calls.  Components
meet in one module only where section 3 says so: a run of the whole system, with a Governess, its helpers,
the bridge and a launch at once, is out of TLC's reach at bounds where it would say more.
