------------------------------ MODULE Handover ------------------------------
(***************************************************************************)
(* The graceful handover of a loop to a fresh one, as the Governess drives *)
(* it (governess.ts, governess-exit.ts, governess-handoff.ts, the control  *)
(* journal of governess-journal.ts) against the launch reservation of the  *)
(* replacement (launch-reservation.ts).                                    *)
(*                                                                         *)
(* The Governess asks each agent to drain, waits for its bundle, types     *)
(* "/exit" into the drained agent's terminal, launches the replacement     *)
(* loop once every agent has left, and kills the old session once the      *)
(* replacement is ready and has accepted the manifest.  Its run state is in*)
(* memory and is saved to governess-state.json at the points of the code;  *)
(* a control is journalled as dispatched before its effect.  The Governess *)
(* may die between any two steps; the next one loads the saved state under *)
(* a new epoch.  One Governess runs at a time, so its fence always holds   *)
(* and is left out.                                                        *)
(***************************************************************************)
EXTENDS Integers, FiniteSets

CONSTANTS Agents,       \* the agents of the old loop
          Sessions,     \* names for the tmux sessions of replacement loops
          NoSession,
          Interlocked,  \* the replacement passes the reservation of its workspace
          MaxEpoch,     \* bound: Governess incarnations
          MaxTurns,     \* bound: turns that a peer or the human starts
          MaxFaults     \* bound: crashes, failures and unanswered probes

ASSUME HandoverAssumption ==
  /\ NoSession \notin Sessions
  /\ Interlocked \in BOOLEAN
  /\ MaxEpoch \in Nat \ {0}
  /\ MaxTurns \in Nat /\ MaxFaults \in Nat

VARIABLES disk,      \* governess-state.json
          gov,       \* the Governess process and its run state
          journal,   \* governess-control.jsonl: the keys of dispatched controls
          agent,     \* the agents' terminals
          turns,     \* how many turns others have started
          asked,     \* how often an agent got the drain request of an epoch
          bundle,    \* the epochs an agent has a bundle file for
          sess,      \* the replacement sessions
          accepted,  \* acceptance.json of the manifest: the session that wrote it last
          old,       \* the old session: "up", or why it is down
          faults

vars == <<disk, gov, journal, agent, turns, asked, bundle, sess, accepted, old,
          faults>>
loop == <<agent, turns, asked, bundle>>
successor == <<sess, accepted>>

Epochs == 1..MaxEpoch
Key(kind, e, a) == [kind |-> kind, epoch |-> e, agent |-> a]

-----------------------------------------------------------------------------
(* The run state and the Governess process.                                *)

\* freshRunState, as far as the handover reads it.
Fresh == [epoch |-> 0, mode |-> "idle", handoverEpoch |-> 0, notified |-> {},
          requested |-> {}, bundles |-> {}, session |-> NoSession]

\* A dead Governess keeps nothing.
Down(pc) == [pc |-> pc, st |-> Fresh, safe |-> {}, todo |-> {}, who |-> {},
             new |-> NoSession, keyed |-> FALSE]

Init ==
  /\ disk = Fresh /\ gov = Down("down") /\ journal = {}
  /\ agent = [a \in Agents |-> "busy"]
  /\ turns = 0
  /\ asked = [a \in Agents |-> [e \in Epochs |-> 0]]
  /\ bundle = [a \in Agents |-> {}]
  /\ sess = [s \in Sessions |-> "none"] /\ accepted = NoSession
  /\ old = "up" /\ faults = 0

Fault == faults < MaxFaults /\ faults' = faults + 1

\* saveGovernessState, after the run state became s, and the next pc.
SaveAndGo(s, pc) ==
  /\ disk' = s
  /\ gov' = [gov EXCEPT !.st = s, !.pc = pc]
Go(pc) == gov' = [gov EXCEPT !.pc = pc] /\ UNCHANGED disk

\* After the handover is advanced: the key is read once per tick.
Rest == IF gov.keyed THEN "tick" ELSE "keys"

\* advanceHandoverControl is entered with a mode; driveHandoverControl saves
\* what it leaves alone.
Entry(mode) == CASE mode = "handover" -> "notify"
                 [] mode = "launched" -> "probe"
                 [] OTHER             -> "keys"

\* runGoverness: load the state, acquire the next epoch, save; a launched
\* handover is looked at before the first tick.
Start ==
  /\ gov.pc = "down" /\ old = "up" /\ disk.epoch < MaxEpoch
  /\ LET s == [disk EXCEPT !.epoch = @ + 1]
     IN  /\ disk' = s
         /\ gov' = [Down(IF s.mode = "launched" THEN "probe" ELSE "tick")
                      EXCEPT !.st = s]
  /\ UNCHANGED <<journal, loop, successor, old, faults>>

Begin(s) == [s EXCEPT !.mode = "handover", !.handoverEpoch = s.epoch,
                      !.notified = {}, !.requested = {}, !.bundles = {},
                      !.session = NoSession]

Observe == {a \in Agents : agent[a] # "busy"}

\* One cycle: the agents' states are taken, then the handover is advanced.
Tick ==
  /\ gov.pc = "tick"
  /\ gov' = [gov EXCEPT !.pc = Entry(gov.st.mode), !.safe = Observe,
                        !.todo = Agents, !.keyed = FALSE]
  /\ UNCHANGED <<disk, journal, loop, successor, old, faults>>

\* maybeBeginSessionPressureHandover: the cycle itself begins a handover.
PressureHandover ==
  /\ gov.pc = "tick" /\ gov.st.mode = "idle"
  /\ gov' = [gov EXCEPT !.pc = "notify", !.st = Begin(gov.st), !.safe = Observe,
                        !.todo = Agents, !.keyed = FALSE]
  /\ UNCHANGED <<disk, journal, loop, successor, old, faults>>

-----------------------------------------------------------------------------
(* notifyHandoverAgents.                                                   *)

Handled(a) == gov.todo \ {a}

\* The agents this pass asks: not yet notified and not busy at the tick.
Askable(a) == a \in gov.todo /\ a \notin gov.st.notified /\ a \in gov.safe

\* directInputIsSafe: the last turn has ended and the composer is empty.
InputSafe(a) == agent[a] = "idle"

DrainKey(a) == Key("drain", gov.st.handoverEpoch, a)
ExitKey(a) == Key("exit", gov.st.epoch, a)

\* Mutant: the journal is not asked.
Spent_Never(key) == FALSE

\* prepareGovernessControl hands back the record of the key: one that was
\* dispatched is never sent again, whatever became of it.
Spent(key) == key \in journal

\* Dispatched before: only the progress bit is set.
NoteAsked(a) ==
  /\ gov.pc = "notify" /\ Askable(a) /\ Spent(DrainKey(a))
  /\ LET s == [gov.st EXCEPT !.notified = @ \cup {a}]
     IN  disk' = s /\ gov' = [gov EXCEPT !.st = s, !.todo = Handled(a)]
  /\ UNCHANGED <<journal, loop, successor, old, faults>>

PassOver(a) ==
  /\ gov.pc = "notify" /\ a \in gov.todo
  /\ ~Askable(a) \/ (~Spent(DrainKey(a)) /\ ~InputSafe(a))
  /\ gov' = [gov EXCEPT !.todo = Handled(a)]
  /\ UNCHANGED <<disk, journal, loop, successor, old, faults>>

\* The control is journalled as dispatched before the request is sent.
DispatchDrain(a) ==
  /\ gov.pc = "notify" /\ Askable(a) /\ ~Spent(DrainKey(a)) /\ InputSafe(a)
  /\ journal' = journal \cup {DrainKey(a)}
  /\ gov' = [gov EXCEPT !.pc = "drain", !.todo = Handled(a), !.who = {a}]
  /\ UNCHANGED <<disk, loop, successor, old, faults>>

\* adapter.requestDrain: the request is in the agent's inbox.
SendDrain(a) ==
  /\ gov.pc = "drain" /\ a \in gov.who
  /\ asked' = [asked EXCEPT ![a][gov.st.handoverEpoch] = @ + 1]
  /\ Go("asked")
  /\ UNCHANGED <<journal, agent, turns, bundle, successor, old, faults>>

\* The bridge refuses: the control has failed after it was dispatched.
DrainFails(a) ==
  /\ gov.pc = "drain" /\ a \in gov.who
  /\ Fault
  /\ Go("notify")
  /\ UNCHANGED <<journal, loop, successor, old>>

MarkAsked(a) ==
  /\ gov.pc = "asked" /\ a \in gov.who
  /\ SaveAndGo([gov.st EXCEPT !.notified = @ \cup {a}], "notify")
  /\ UNCHANGED <<journal, loop, successor, old, faults>>

\* Mutant: the bundles of the current epoch are looked for.
CollectBundles_OwnEpoch ==
  /\ gov.pc = "notify" /\ gov.todo = {}
  /\ gov' = [gov EXCEPT
       !.pc = "exits", !.todo = Agents,
       !.st.bundles = @ \cup {a \in Agents : gov.st.epoch \in bundle[a]}]
  /\ UNCHANGED <<disk, journal, loop, successor, old, faults>>

\* Every agent was looked at; the valid bundles of this handover are taken in.
CollectBundles ==
  /\ gov.pc = "notify" /\ gov.todo = {}
  /\ gov' = [gov EXCEPT
       !.pc = "exits", !.todo = Agents,
       !.st.bundles = @ \cup {a \in Agents : gov.st.handoverEpoch \in bundle[a]}]
  /\ UNCHANGED <<disk, journal, loop, successor, old, faults>>

-----------------------------------------------------------------------------
(* requestDrainedAgentExits.                                               *)

\* Mutant: an agent is closed before its bundle is there.
Closable_NoBundle(a) ==
  /\ a \in gov.todo /\ a \in gov.st.notified
  /\ a \notin gov.st.requested /\ agent[a] # "gone" /\ a \in gov.safe
  /\ InputSafe(a)

\* Drained, not asked to leave yet, still there and not busy at the tick.
Closable(a) ==
  /\ a \in gov.todo /\ a \in gov.st.notified \cap gov.st.bundles
  /\ a \notin gov.st.requested /\ agent[a] # "gone" /\ a \in gov.safe
  /\ InputSafe(a)

NoteExit(a) ==
  /\ gov.pc = "exits" /\ Closable(a) /\ Spent(ExitKey(a))
  /\ LET s == [gov.st EXCEPT !.requested = @ \cup {a}]
     IN  disk' = s /\ gov' = [gov EXCEPT !.st = s, !.todo = Handled(a)]
  /\ UNCHANGED <<journal, loop, successor, old, faults>>

PassOverExit(a) ==
  /\ gov.pc = "exits" /\ a \in gov.todo /\ ~Closable(a)
  /\ gov' = [gov EXCEPT !.todo = Handled(a)]
  /\ UNCHANGED <<disk, journal, loop, successor, old, faults>>

DispatchExit(a) ==
  /\ gov.pc = "exits" /\ Closable(a) /\ ~Spent(ExitKey(a))
  /\ journal' = journal \cup {ExitKey(a)}
  /\ gov' = [gov EXCEPT !.pc = "type", !.todo = Handled(a), !.who = {a}]
  /\ UNCHANGED <<disk, loop, successor, old, faults>>

\* tmuxFallback: the text, and after the settle window the Enter key.
TypeExit(a) ==
  /\ gov.pc = "type" /\ a \in gov.who /\ InputSafe(a)
  /\ agent' = [agent EXCEPT ![a] = "typed"]
  /\ Go("enter")
  /\ UNCHANGED <<journal, turns, asked, bundle, successor, old, faults>>

\* The terminal is no longer safe: the dispatched control fails.
ExitRefused(a) ==
  /\ gov.pc = "type" /\ a \in gov.who /\ ~InputSafe(a)
  /\ Go("exits")
  /\ UNCHANGED <<journal, loop, successor, old, faults>>

EnterExit(a) ==
  /\ gov.pc = "enter" /\ a \in gov.who
  /\ agent' = [agent EXCEPT ![a] = IF @ = "typed" THEN "exiting" ELSE @]
  /\ Go("entered")
  /\ UNCHANGED <<journal, turns, asked, bundle, successor, old, faults>>

MarkExit(a) ==
  /\ gov.pc = "entered" /\ a \in gov.who
  /\ SaveAndGo([gov.st EXCEPT !.requested = @ \cup {a}], "exits")
  /\ UNCHANGED <<journal, loop, successor, old, faults>>

-----------------------------------------------------------------------------
(* allHandoverAgentsExited and the launch of the replacement.              *)

Drained == gov.st.notified \cap gov.st.bundles
\* Mutant: the bundles are enough.
Gone_Any == Agents

Gone == {a \in Agents : agent[a] = "gone"}

AllExited ==
  /\ gov.pc = "exits" /\ gov.todo = {} /\ Agents \subseteq Drained \cap Gone
  /\ Go("launch")
  /\ UNCHANGED <<journal, loop, successor, old, faults>>

StillWaiting ==
  /\ gov.pc = "exits" /\ gov.todo = {} /\ ~(Agents \subseteq Drained \cap Gone)
  /\ SaveAndGo(gov.st, Rest)
  /\ UNCHANGED <<journal, loop, successor, old, faults>>

\* A tmux probe is not answered: nothing is concluded.
Unanswered ==
  /\ gov.pc = "probe" \/ (gov.pc = "exits" /\ gov.todo = {})
  /\ Fault
  /\ SaveAndGo(gov.st, Rest)
  /\ UNCHANGED <<journal, loop, successor, old>>

LaunchError == SaveAndGo([gov.st EXCEPT !.mode = "launch-error"], Rest)

\* assertNoConflict: a run whose session is live or unknown owns its workspace,
\* and the replacement is started in the workspace of the old run.
Conflict == Interlocked /\ old = "up"

\* The launcher reports the conflict, or fails for another reason.
LaunchFails ==
  /\ gov.pc = "launch"
  /\ IF Conflict THEN UNCHANGED faults ELSE Fault
  /\ LaunchError
  /\ UNCHANGED <<journal, loop, successor, old>>

LaunchCreates(s) ==
  /\ gov.pc = "launch" /\ ~Conflict /\ sess[s] = "none"
  /\ sess' = [sess EXCEPT ![s] = "starting"]
  /\ gov' = [gov EXCEPT !.pc = "spawned", !.new = s]
  /\ UNCHANGED <<disk, journal, loop, accepted, old, faults>>

\* The launcher is killed after 60 s; the session it made stays.
LaunchTimesOut ==
  /\ gov.pc = "spawned"
  /\ Fault
  /\ LaunchError
  /\ UNCHANGED <<journal, loop, successor, old>>

\* Mutant: the launched session is not recorded.
LaunchReports_Unrecorded ==
  /\ gov.pc = "spawned" /\ sess[gov.new] # "dead"
  /\ SaveAndGo(gov.st, Rest)
  /\ UNCHANGED <<journal, loop, successor, old, faults>>

\* Mutant: the handover is saved as launched without its session.
LaunchReports_NoSession ==
  /\ gov.pc = "spawned" /\ sess[gov.new] # "dead"
  /\ SaveAndGo([gov.st EXCEPT !.mode = "launched"], Rest)
  /\ UNCHANGED <<journal, loop, successor, old, faults>>

LaunchReports ==
  /\ gov.pc = "spawned" /\ sess[gov.new] # "dead"
  /\ SaveAndGo([gov.st EXCEPT !.mode = "launched", !.session = gov.new], Rest)
  /\ UNCHANGED <<journal, loop, successor, old, faults>>

LaunchedDead ==
  /\ gov.pc = "spawned" /\ sess[gov.new] = "dead"
  /\ LaunchError
  /\ UNCHANGED <<journal, loop, successor, old, faults>>

-----------------------------------------------------------------------------
(* The launched replacement is probed on every tick and at a start.        *)

\* Mutant: three live panes are enough.
TakenOver_Ready == sess[gov.st.session] = "ready"

\* replacementSessionAlive, replacementSessionReady and
\* readGovernessHandoffAcceptance.
TakenOver == sess[gov.st.session] = "ready" /\ accepted = gov.st.session

ReplacementLost ==
  /\ gov.pc = "probe" /\ sess[gov.st.session] = "dead"
  /\ LaunchError
  /\ UNCHANGED <<journal, loop, successor, old, faults>>

ReplacementPending ==
  /\ gov.pc = "probe" /\ sess[gov.st.session] # "dead" /\ ~TakenOver
  /\ SaveAndGo(gov.st, Rest)
  /\ UNCHANGED <<journal, loop, successor, old, faults>>

ReplacementTakesOver ==
  /\ gov.pc = "probe" /\ TakenOver
  /\ SaveAndGo(gov.st, "stop")
  /\ UNCHANGED <<journal, loop, successor, old, faults>>

\* stopGovernessLoop: the run is marked stopped, its processes are cleaned up
\* and the session is killed; the Governess ends.
Stop(why) ==
  /\ old' = why
  /\ agent' = [a \in Agents |-> "gone"]
  /\ gov' = Down("ended")
  /\ UNCHANGED <<disk, journal, turns, asked, bundle, successor, faults>>

HandedOver == gov.pc = "stop" /\ Stop("handed over")

\* kill-session is not confirmed: the Governess ends all the same.
StopFails ==
  /\ gov.pc = "stop"
  /\ Fault
  /\ gov' = Down("ended")
  /\ UNCHANGED <<disk, journal, loop, successor, old>>

-----------------------------------------------------------------------------
(* The keys of exitKeyAction; the menu is left out.                        *)

NoKey ==
  /\ gov.pc = "keys"
  /\ Go("tick")
  /\ UNCHANGED <<journal, loop, successor, old, faults>>

\* [h]: begin, or try a failed launch again with the same bundles.
HandoverKey ==
  /\ gov.pc = "keys" /\ gov.st.mode \in {"idle", "launch-error"}
  /\ LET s == IF gov.st.mode = "idle" THEN Begin(gov.st)
                                      ELSE [gov.st EXCEPT !.mode = "handover"]
     IN  gov' = [gov EXCEPT !.pc = "notify", !.st = s, !.todo = Agents,
                            !.keyed = TRUE]
  /\ UNCHANGED <<disk, journal, loop, successor, old, faults>>

\* [e]
TeardownKey == gov.pc = "keys" /\ Stop("torn down")

Crash ==
  /\ gov.pc \notin {"down", "ended"}
  /\ Fault
  /\ gov' = Down("down")
  /\ UNCHANGED <<disk, journal, loop, successor, old>>

-----------------------------------------------------------------------------
(* The agents, as the Governess reads them from hooks, panes and files.    *)

AgentMoves(a, from, to) ==
  /\ old = "up" /\ agent[a] \in from
  /\ agent' = [agent EXCEPT ![a] = to]
  /\ UNCHANGED <<disk, gov, journal, asked, bundle, successor, old>>

\* A message of the peer or of the human.
TurnStarts(a) ==
  /\ turns < MaxTurns /\ turns' = turns + 1
  /\ AgentMoves(a, {"idle"}, "busy") /\ UNCHANGED faults

TurnEnds(a) == AgentMoves(a, {"busy"}, "idle") /\ UNCHANGED <<turns, faults>>
Exits(a) == AgentMoves(a, {"exiting"}, "gone") /\ UNCHANGED <<turns, faults>>

\* The drained agent leaves by itself, as it was asked to.
Leaves(a) ==
  bundle[a] # {} /\ AgentMoves(a, {"idle"}, "gone") /\ UNCHANGED <<turns, faults>>

Dies(a) ==
  AgentMoves(a, {"busy", "idle", "typed"}, "gone") /\ Fault /\ UNCHANGED turns

\* The agent reads its request and writes the bundle for that epoch.
WritesBundle(a, e) ==
  /\ old = "up" /\ agent[a] \in {"busy", "idle"} /\ asked[a][e] > 0 /\ e \notin bundle[a]
  /\ agent' = [agent EXCEPT ![a] = "busy"]
  /\ bundle' = [bundle EXCEPT ![a] = @ \cup {e}]
  /\ UNCHANGED <<disk, gov, journal, turns, asked, successor, old, faults>>

-----------------------------------------------------------------------------
(* The replacement: its session comes up and its Governess accepts.        *)

Boots(s) ==
  /\ sess[s] = "starting"
  /\ sess' = [sess EXCEPT ![s] = "ready"]
  /\ UNCHANGED <<disk, gov, journal, loop, accepted, old, faults>>

\* acceptGovernessHandoff, at the start of the replacement's Governess.
Accepts(s) ==
  /\ sess[s] \in {"starting", "ready"} /\ accepted = NoSession
  /\ accepted' = s
  /\ UNCHANGED <<disk, gov, journal, loop, sess, old, faults>>

\* A second replacement, or a restarted Governess, accepts over the first.
AcceptsAgain(s) ==
  /\ sess[s] \in {"starting", "ready"} /\ accepted \notin {NoSession, s}
  /\ accepted' = s
  /\ UNCHANGED <<disk, gov, journal, loop, sess, old, faults>>

SessionDies(s) ==
  /\ sess[s] \in {"starting", "ready"}
  /\ Fault
  /\ sess' = [sess EXCEPT ![s] = "dead"]
  /\ UNCHANGED <<disk, gov, journal, loop, accepted, old>>

-----------------------------------------------------------------------------
Drain == \/ CollectBundles
         \/ \E a \in Agents : NoteAsked(a) \/ PassOver(a) \/ DispatchDrain(a)
                              \/ SendDrain(a) \/ DrainFails(a) \/ MarkAsked(a)
Close == \E a \in Agents : NoteExit(a) \/ PassOverExit(a) \/ DispatchExit(a)
                           \/ TypeExit(a) \/ ExitRefused(a) \/ EnterExit(a)
                           \/ MarkExit(a)
Launch == \/ AllExited \/ StillWaiting \/ LaunchFails
          \/ (\E s \in Sessions : LaunchCreates(s))
          \/ LaunchTimesOut \/ LaunchReports \/ LaunchedDead
Probe == Unanswered \/ ReplacementLost \/ ReplacementPending \/ ReplacementTakesOver
Finish == HandedOver \/ StopFails
Keys == NoKey \/ HandoverKey \/ TeardownKey
OldAgent == \E a \in Agents : \/ TurnStarts(a) \/ TurnEnds(a) \/ Exits(a)
                              \/ Leaves(a) \/ Dies(a)
                              \/ \E e \in Epochs : WritesBundle(a, e)
Successor == \E s \in Sessions : Boots(s) \/ Accepts(s) \/ AcceptsAgain(s)
                                 \/ SessionDies(s)

Next == Start \/ Tick \/ PressureHandover \/ Drain \/ Close \/ Launch \/ Probe
        \/ Finish \/ Keys \/ Crash \/ OldAgent \/ Successor

Spec == Init /\ [][Next]_vars

\* The scheduler runs the Governess and starts it again when it died (its pane
\* is respawned), turns end, an agent that was asked writes its bundle and acts
\* on an entered "/exit", the replacement comes up, and the human tries a failed
\* launch again.  That a drained agent leaves by itself is not assumed.
FairSpec ==
  /\ Spec
  /\ WF_vars(Start) /\ WF_vars(Tick) /\ WF_vars(NoKey) /\ WF_vars(Drain)
  /\ WF_vars(Close) /\ WF_vars(Launch) /\ WF_vars(Probe) /\ WF_vars(Finish)
  /\ SF_vars(HandoverKey /\ gov.st.mode = "launch-error")
  /\ \A a \in Agents :
       /\ WF_vars(TurnEnds(a)) /\ WF_vars(Exits(a))
       /\ \A e \in Epochs : WF_vars(WritesBundle(a, e))
  /\ \A s \in Sessions : WF_vars(Boots(s)) /\ WF_vars(Accepts(s))

-----------------------------------------------------------------------------
(* Properties.                                                             *)

RunState == [epoch : 0..MaxEpoch, mode : {"idle", "handover", "launched", "launch-error"},
             handoverEpoch : 0..MaxEpoch, notified : SUBSET Agents,
             requested : SUBSET Agents, bundles : SUBSET Agents,
             session : Sessions \cup {NoSession}]

\* Every variable keeps its type (the files of the run, the Governess and the
\* terminals); a launched handover names its session (readExitControl).
TypeOK ==
  /\ disk \in RunState
  /\ gov \in [pc : {"down", "tick", "notify", "drain", "asked", "exits", "type",
                    "enter", "entered", "launch", "spawned", "probe", "stop",
                    "keys", "ended"},
              st : RunState, safe : SUBSET Agents, todo : SUBSET Agents,
              who : SUBSET Agents, new : Sessions \cup {NoSession}, keyed : BOOLEAN]
  /\ journal \subseteq [kind : {"drain", "exit"}, epoch : Epochs, agent : Agents]
  /\ agent \in [Agents -> {"busy", "idle", "typed", "exiting", "gone"}]
  /\ turns \in 0..MaxTurns
  /\ asked \in [Agents -> [Epochs -> Nat]] /\ bundle \in [Agents -> SUBSET Epochs]
  /\ sess \in [Sessions -> {"none", "starting", "ready", "dead"}]
  /\ accepted \in Sessions \cup {NoSession}
  /\ old \in {"up", "handed over", "torn down"}
  /\ faults \in 0..MaxFaults
  /\ disk.mode = "launched" => disk.session # NoSession

Live(s) == sess[s] \in {"starting", "ready"}

\* An agent gets the drain request of a handover at most once, whatever dies
\* between the request and the note of it ("a dispatched control is never
\* re-injected").
AskedOnce == \A a \in Agents : \A e \in Epochs : asked[a][e] <= 1

\* "/exit" is typed only to an agent whose bundle for the handover on disk
\* exists ("Governess never closes an agent TUI before its epoch-matching
\* ready bundle").
ClosedWithBundle ==
  \A a \in Agents :
    agent[a] \in {"typed", "exiting"} => disk.handoverEpoch \in bundle[a]

\* The agents of the replacement never work beside those of the old loop.
NeverTwoPairs ==
  (\E s \in Sessions : Live(s)) => \A a \in Agents : agent[a] = "gone"

\* The old session is killed for a handover only when the replacement is on
\* disk, came up, the manifest was accepted and every bundle is there.
TornDownForSuccessor ==
  old = "handed over" =>
    /\ disk.mode = "launched" /\ sess[disk.session] \in {"ready", "dead"}
    /\ accepted # NoSession
    /\ \A a \in Agents : disk.handoverEpoch \in bundle[a]

\* There is one replacement, and at most one more for each failure on the way: a launcher that was killed
\* after 60 s leaves a session behind, but a retry, a restart or a probe without an answer adds none of
\* its own (launchReplacementLoop).
OneReplacementPerFault == Cardinality({s \in Sessions : Live(s)}) <= 1 + faults

\* What leaves a handover unfinished: a request that was dispatched and never
\* sent, an agent that died without its bundle, an "/exit" typed and never
\* entered, or refused by a terminal that had just become busy: its control is
\* spent, and the next pass notes the exit as requested.
Spoilt ==
  \E a \in Agents :
    \/ /\ Key("drain", disk.handoverEpoch, a) \in journal
       /\ asked[a][disk.handoverEpoch] = 0 /\ gov.pc # "drain"
    \/ agent[a] = "gone" /\ disk.handoverEpoch \notin bundle[a]
    \/ agent[a] = "typed" /\ gov.pc # "enter"
    \/ a \in disk.requested /\ agent[a] \in {"idle", "busy"}

\* A handover ends with a replacement that is up (README.md: the agents finish
\* and exit "before a fresh paired loop starts"), over crashes of the Governess,
\* failed launches and lost sessions.
HandoverCompletes ==
  disk.mode = "handover" ~> \/ \E s \in Sessions : sess[s] = "ready"
                            \/ old = "torn down" \/ Spoilt
=============================================================================
