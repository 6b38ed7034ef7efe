--------------------------- MODULE HandoverProofs ---------------------------
(***************************************************************************)
(* Safety of the handover, for any agents, replacement sessions, restarts, *)
(* turns and faults: types, at most one request per agent and handover, no *)
(* agent closed without its bundle, and never two pairs of agents.         *)
(***************************************************************************)
EXTENDS Handover, FiniteSetTheorems, TLAPS

Pcs == {"down", "tick", "notify", "drain", "asked", "exits", "type", "enter",
        "entered", "launch", "spawned", "probe", "stop", "keys", "ended"}
Process == [pc : Pcs, st : RunState, safe : SUBSET Agents, todo : SUBSET Agents,
            who : SUBSET Agents, new : Sessions \cup {NoSession}, keyed : BOOLEAN]

\* Where the Governess is while it drives a handover, and while it looks at
\* a launched replacement.
Driving == {"notify", "drain", "asked", "exits", "type", "enter", "entered",
            "launch", "spawned"}
Probing == {"probe", "stop"}

\* A run state in memory or on disk: past "idle" it has the epoch of its
\* handover, and a launched one its session.
RunStateOK(s) ==
  /\ s \in RunState
  /\ s.mode # "idle" => s.handoverEpoch \in Epochs
  /\ s.mode = "launched" => s.session # NoSession

ProcessOK(g) ==
  /\ g \in Process /\ RunStateOK(g.st)
  /\ g.pc \notin {"down", "ended"} => g.st.epoch \in Epochs
  /\ g.pc \in Driving => g.st.mode = "handover"
  /\ g.pc \in Probing => g.st.mode = "launched"
  /\ g.pc = "spawned" => g.new \in Sessions

RunsOK == RunStateOK(disk) /\ ProcessOK(gov)

WorldOK ==
  /\ journal \subseteq [kind : {"drain", "exit"}, epoch : Epochs, agent : Agents]
  /\ agent \in [Agents -> {"busy", "idle", "typed", "exiting", "gone"}]
  /\ turns \in 0..MaxTurns
  /\ asked \in [Agents -> [Epochs -> Nat]] /\ bundle \in [Agents -> SUBSET Epochs]
  /\ sess \in [Sessions -> {"none", "starting", "ready", "dead"}]
  /\ accepted \in Sessions \cup {NoSession}
  /\ old \in {"up", "handed over", "torn down"}
  /\ faults \in 0..MaxFaults

Shape == RunsOK /\ WorldOK

-----------------------------------------------------------------------------
(* The run state and the Governess.                                        *)

\* The run state of a new run is well formed.
LEMMA FreshOK == RunStateOK(Fresh)
  BY HandoverAssumption DEF RunStateOK, Fresh, RunState

\* So is a Governess that is gone.
LEMMA DownOK == \A pc \in {"down", "ended"} : ProcessOK(Down(pc))
  BY FreshOK DEF ProcessOK, RunStateOK, Down, Process, Pcs, Driving, Probing

\* The run state s is saved, and the Governess goes on at pc.
LEMMA SaveStep ==
  ASSUME RunsOK, NEW s, RunStateOK(s), NEW pc \in Pcs, SaveAndGo(s, pc),
         s.epoch = gov.st.epoch, gov.pc \notin {"down", "ended"},
         pc \in Driving => s.mode = "handover",
         pc \in Probing => s.mode = "launched",
         pc # "spawned"
  PROVE  RunsOK'
<1>1. disk' = s /\ gov' = [gov EXCEPT !.st = s, !.pc = pc]
  BY DEF SaveAndGo
<1>2. [gov EXCEPT !.st = s, !.pc = pc] \in Process
  BY DEF RunsOK, ProcessOK, Process, RunStateOK
<1>3. gov'.st = s /\ gov'.pc = pc
  BY <1>1 DEF RunsOK, ProcessOK, Process
<1> QED
  BY <1>1, <1>2, <1>3 DEF RunsOK, ProcessOK

\* A tick ends, with the run state s saved.
LEMMA RestStep ==
  ASSUME RunsOK, NEW s, RunStateOK(s), SaveAndGo(s, Rest),
         s.epoch = gov.st.epoch, gov.pc \notin {"down", "ended"}
  PROVE  RunsOK'
<1>1. Rest \in Pcs /\ Rest \notin Driving \cup Probing
  BY DEF Rest, Pcs, Driving, Probing
<1> QED
  BY <1>1, SaveStep DEF Driving

\* The run state is kept, and so is the file.
LEMMA SameRunState ==
  ASSUME RunsOK, UNCHANGED disk, gov.pc \notin {"down", "ended"},
         gov' \in Process, gov'.st = gov.st,
         gov'.pc \in Driving => gov.st.mode = "handover",
         gov'.pc \in Probing => gov.st.mode = "launched",
         gov'.pc = "spawned" => gov'.new \in Sessions
  PROVE  RunsOK'
  BY DEF RunsOK, ProcessOK

\* The Governess is gone.
LEMMA DownStep ==
  ASSUME RunsOK, UNCHANGED disk, NEW pc \in {"down", "ended"}, gov' = Down(pc)
  PROVE  RunsOK'
  BY DownOK DEF RunsOK

\* An agent is noted: as asked or as asked to leave.
LEMMA NoteOK ==
  ASSUME NEW s, RunStateOK(s), NEW a \in Agents
  PROVE  LET n == [s EXCEPT !.notified = @ \cup {a}]
             r == [s EXCEPT !.requested = @ \cup {a}]
         IN  /\ RunStateOK(n) /\ n.epoch = s.epoch /\ n.mode = s.mode
             /\ RunStateOK(r) /\ r.epoch = s.epoch /\ r.mode = s.mode
  BY DEF RunStateOK, RunState

\* The mode of a handover is changed after a failed launch and to retry it.
LEMMA ModeOK ==
  ASSUME NEW s, RunStateOK(s), s.mode # "idle"
  PROVE  LET e == [s EXCEPT !.mode = "launch-error"]
             h == [s EXCEPT !.mode = "handover"]
         IN  /\ RunStateOK(e) /\ e.epoch = s.epoch
             /\ RunStateOK(h) /\ h.epoch = s.epoch /\ h.mode = "handover"
  BY DEF RunStateOK, RunState

\* The launched session is recorded.
LEMMA LaunchedOK ==
  ASSUME NEW s, RunStateOK(s), s.mode # "idle", NEW n \in Sessions
  PROVE  LET l == [s EXCEPT !.mode = "launched", !.session = n]
         IN  RunStateOK(l) /\ l.epoch = s.epoch
  BY HandoverAssumption DEF RunStateOK, RunState

\* A handover begins in the Governess's own epoch.
LEMMA BeginOK ==
  ASSUME NEW s, RunStateOK(s), s.epoch \in Epochs
  PROVE  /\ RunStateOK(Begin(s)) /\ Begin(s).epoch = s.epoch
         /\ Begin(s).mode = "handover"
  BY HandoverAssumption DEF RunStateOK, RunState, Begin, Epochs

\* The Governess only goes on: the run state is untouched.
LEMMA WalkRuns ==
  ASSUME RunsOK,
         \/ Tick \/ NoKey \/ AllExited \/ \E s \in Sessions : LaunchCreates(s)
         \/ \E a \in Agents :
              \/ PassOver(a) \/ DispatchDrain(a) \/ SendDrain(a) \/ DrainFails(a)
              \/ PassOverExit(a) \/ DispatchExit(a) \/ TypeExit(a) \/ ExitRefused(a)
              \/ EnterExit(a)
  PROVE  RunsOK'
<1>1. CASE Tick
  <2>1. gov' \in Process /\ gov'.st = gov.st /\ gov'.pc = Entry(gov.st.mode)
    BY <1>1 DEF Tick, RunsOK, ProcessOK, Process, Pcs, Entry, Observe
  <2> QED
    BY <1>1, <2>1, SameRunState DEF Tick, Entry, Driving, Probing
<1>2. CASE NoKey \/ AllExited \/ \E s \in Sessions : LaunchCreates(s)
  <2>1. gov' \in Process /\ gov'.st = gov.st /\ UNCHANGED disk
    BY <1>2 DEF NoKey, AllExited, LaunchCreates, RunsOK, ProcessOK, Process, Pcs, Go
  <2>2. /\ gov.pc \notin {"down", "ended"} /\ gov'.pc \notin Probing
        /\ gov'.pc \in Driving => gov.st.mode = "handover"
        /\ gov'.pc = "spawned" => gov'.new \in Sessions
    BY <1>2 DEF NoKey, AllExited, LaunchCreates, RunsOK, ProcessOK, Process, Go,
       Driving, Probing
  <2> QED
    BY <2>1, <2>2, SameRunState
<1>3. ASSUME NEW a \in Agents,
             \/ PassOver(a) \/ DispatchDrain(a) \/ SendDrain(a) \/ DrainFails(a)
             \/ PassOverExit(a) \/ DispatchExit(a) \/ TypeExit(a) \/ ExitRefused(a)
             \/ EnterExit(a)
      PROVE  RunsOK'
  <2>1. gov' \in Process /\ gov'.st = gov.st /\ UNCHANGED disk
    <3>1. CASE PassOver(a) \/ PassOverExit(a)
      BY <3>1 DEF PassOver, PassOverExit, Handled, RunsOK, ProcessOK, Process
    <3>2. CASE DispatchDrain(a)
      BY <3>2 DEF DispatchDrain, Handled, RunsOK, ProcessOK, Process, Pcs
    <3>3. CASE DispatchExit(a)
      BY <3>3 DEF DispatchExit, Handled, RunsOK, ProcessOK, Process, Pcs
    <3>4. CASE \/ SendDrain(a) \/ DrainFails(a) \/ TypeExit(a) \/ ExitRefused(a)
               \/ EnterExit(a)
      BY <3>4 DEF SendDrain, DrainFails, TypeExit, ExitRefused, EnterExit, Go, RunsOK,
         ProcessOK, Process, Pcs
    <3> QED
      BY <1>3, <3>1, <3>2, <3>3, <3>4
  <2>2. gov.pc \in {"notify", "drain", "exits", "type", "enter"}
    BY <1>3 DEF PassOver, DispatchDrain, SendDrain, DrainFails, PassOverExit,
       DispatchExit, TypeExit, ExitRefused, EnterExit
  <2>3. gov'.pc = gov.pc
        \/ gov'.pc \in {"drain", "asked", "notify", "type", "enter", "exits", "entered"}
    BY <1>3 DEF PassOver, DispatchDrain, SendDrain, DrainFails, PassOverExit,
       DispatchExit, TypeExit, ExitRefused, EnterExit, Go, RunsOK, ProcessOK, Process
  <2> QED
    BY <2>1, <2>2, <2>3, SameRunState DEF RunsOK, ProcessOK, Driving, Probing
<1> QED
  BY <1>1, <1>2, <1>3

\* An agent is noted while the Governess looks at one after the other.
LEMMA NoteRuns ==
  ASSUME RunsOK, NEW a \in Agents, NoteAsked(a) \/ NoteExit(a) PROVE RunsOK'
<1>1. PICK s : /\ disk' = s /\ gov' = [gov EXCEPT !.st = s, !.todo = Handled(a)]
               /\ RunStateOK(s) /\ s.epoch = gov.st.epoch /\ s.mode = gov.st.mode
  BY NoteOK, ZenonT(60) DEF NoteAsked, NoteExit, RunsOK, ProcessOK
<1>2. [gov EXCEPT !.st = s, !.todo = Handled(a)] \in Process
  BY <1>1 DEF RunsOK, ProcessOK, Process, RunStateOK, Handled
<1>3. gov'.st = s /\ gov'.pc = gov.pc /\ gov'.new = gov.new
  BY <1>1 DEF RunsOK, ProcessOK, Process
<1> QED
  BY <1>1, <1>2, <1>3 DEF RunsOK, ProcessOK

\* An agent is noted after its control took effect.
LEMMA MarkRuns ==
  ASSUME RunsOK, NEW a \in Agents, MarkAsked(a) \/ MarkExit(a) PROVE RunsOK'
<1> DEFINE n == [gov.st EXCEPT !.notified = @ \cup {a}]
           r == [gov.st EXCEPT !.requested = @ \cup {a}]
<1>1. /\ gov.pc \in {"asked", "entered"}
      /\ SaveAndGo(n, "notify") \/ SaveAndGo(r, "exits")
  BY DEF MarkAsked, MarkExit
<1>2. \A s \in {n, r} : RunStateOK(s) /\ s.epoch = gov.st.epoch /\ s.mode = "handover"
  BY <1>1, NoteOK, ZenonT(60) DEF RunsOK, ProcessOK, Driving
<1> HIDE DEF n, r
<1> QED
  BY <1>1, <1>2, SaveStep DEF Pcs, Probing

\* The tick ends with the run state as it was, or with a failed launch.
LEMMA RestRuns ==
  ASSUME RunsOK, StillWaiting \/ Unanswered \/ ReplacementPending PROVE RunsOK'
  BY RestStep DEF StillWaiting, Unanswered, ReplacementPending, RunsOK, ProcessOK

\* The launch, or the launched replacement, has failed.
LEMMA LaunchErrorRuns ==
  ASSUME RunsOK, LaunchFails \/ LaunchTimesOut \/ LaunchedDead \/ ReplacementLost
  PROVE  RunsOK'
<1> DEFINE s == [gov.st EXCEPT !.mode = "launch-error"]
<1>1. SaveAndGo(s, Rest) /\ gov.pc \in Driving \cup Probing
  BY DEF LaunchFails, LaunchTimesOut, LaunchedDead, ReplacementLost, LaunchError,
         Driving, Probing
<1>2. RunStateOK(s) /\ s.epoch = gov.st.epoch
  BY <1>1, ModeOK DEF RunsOK, ProcessOK
<1> HIDE DEF s
<1> QED
  BY <1>1, <1>2, RestStep DEF Driving, Probing

\* The Governess ends or dies.
LEMMA EndRuns ==
  ASSUME RunsOK, Finish \/ TeardownKey \/ Crash PROVE RunsOK'
  BY DownStep DEF Finish, HandedOver, StopFails, TeardownKey, Crash, Stop

\* The launcher reports the session it made.
LEMMA LaunchReportsRuns ==
  ASSUME RunsOK, LaunchReports PROVE RunsOK'
<1> DEFINE s == [gov.st EXCEPT !.mode = "launched", !.session = gov.new]
<1>1. SaveAndGo(s, Rest) /\ gov.pc = "spawned"
  BY DEF LaunchReports
<1>2. RunStateOK(s) /\ s.epoch = gov.st.epoch
  BY <1>1, LaunchedOK DEF RunsOK, ProcessOK, Driving
<1> HIDE DEF s
<1> QED
  BY <1>1, <1>2, RestStep

\* The probe finds the replacement ready.
LEMMA ReplacementTakesOverRuns ==
  ASSUME RunsOK, ReplacementTakesOver PROVE RunsOK'
<1>1. SaveAndGo(gov.st, "stop") /\ gov.pc = "probe"
  BY DEF ReplacementTakesOver
<1> QED
  BY <1>1, SaveStep DEF RunsOK, ProcessOK, Pcs, Driving, Probing

\* The bundles are taken into the run state in memory.
LEMMA CollectBundlesRuns ==
  ASSUME RunsOK, CollectBundles PROVE RunsOK'
<1> DEFINE b == gov.st.bundles \cup {a \in Agents : gov.st.handoverEpoch \in bundle[a]}
           s == [gov.st EXCEPT !.bundles = b]
<1>1. /\ gov' = [gov EXCEPT !.pc = "exits", !.todo = Agents, !.st = s]
      /\ gov.pc = "notify" /\ UNCHANGED disk
  BY DEF CollectBundles, RunsOK, ProcessOK, Process, RunState
<1>2. b \in SUBSET Agents
  BY DEF RunsOK, ProcessOK, RunStateOK, RunState
<1> HIDE DEF b
<1>3. RunStateOK(s) /\ s.epoch = gov.st.epoch /\ s.mode = gov.st.mode
  BY <1>2 DEF RunsOK, ProcessOK, RunStateOK, RunState
<1> HIDE DEF s
<1>4. [gov EXCEPT !.pc = "exits", !.todo = Agents, !.st = s] \in Process
  BY <1>3 DEF RunsOK, ProcessOK, Process, Pcs, RunStateOK
<1>5. gov'.st = s /\ gov'.pc = "exits"
  BY <1>1 DEF RunsOK, ProcessOK, Process
<1> QED
  BY <1>1, <1>3, <1>4, <1>5 DEF RunsOK, ProcessOK, Driving, Probing

\* The cycle itself begins a handover.
LEMMA PressureHandoverRuns ==
  ASSUME RunsOK, PressureHandover PROVE RunsOK'
<1> DEFINE s == Begin(gov.st)
<1>1. /\ gov' = [gov EXCEPT !.pc = "notify", !.st = s, !.safe = Observe,
                           !.todo = Agents, !.keyed = FALSE]
      /\ gov.pc = "tick" /\ UNCHANGED disk
  BY DEF PressureHandover
<1>2. RunStateOK(s) /\ s.epoch = gov.st.epoch /\ s.mode = "handover"
  BY <1>1, BeginOK DEF RunsOK, ProcessOK
<1> HIDE DEF s
<1>3. [gov EXCEPT !.pc = "notify", !.st = s, !.safe = Observe, !.todo = Agents,
                  !.keyed = FALSE] \in Process
  BY <1>2 DEF RunsOK, ProcessOK, Process, Pcs, RunStateOK, Observe
<1>4. gov'.st = s /\ gov'.pc = "notify"
  BY <1>1 DEF RunsOK, ProcessOK, Process
<1> QED
  BY <1>1, <1>2, <1>3, <1>4 DEF RunsOK, ProcessOK, Probing

\* The human begins a handover, or tries a failed launch again.
LEMMA HandoverKeyRuns ==
  ASSUME RunsOK, HandoverKey PROVE RunsOK'
<1> DEFINE s == IF gov.st.mode = "idle" THEN Begin(gov.st)
                                      ELSE [gov.st EXCEPT !.mode = "handover"]
<1>1. /\ gov' = [gov EXCEPT !.pc = "notify", !.st = s, !.todo = Agents, !.keyed = TRUE]
      /\ gov.pc = "keys" /\ UNCHANGED disk
  BY DEF HandoverKey
<1>2. RunStateOK(s) /\ s.epoch = gov.st.epoch /\ s.mode = "handover"
  <2>1. CASE gov.st.mode = "idle"
    BY <1>1, <2>1, BeginOK DEF RunsOK, ProcessOK
  <2>2. CASE gov.st.mode # "idle"
    BY <2>2, ModeOK DEF RunsOK, ProcessOK
  <2> QED
    BY <2>1, <2>2
<1> HIDE DEF s
<1>3. [gov EXCEPT !.pc = "notify", !.st = s, !.todo = Agents, !.keyed = TRUE] \in Process
  BY <1>2 DEF RunsOK, ProcessOK, Process, Pcs, RunStateOK
<1>4. gov'.st = s /\ gov'.pc = "notify"
  BY <1>1 DEF RunsOK, ProcessOK, Process
<1> QED
  BY <1>1, <1>2, <1>3, <1>4 DEF RunsOK, ProcessOK, Probing

\* A Governess starts from the saved run state.
LEMMA StartRuns ==
  ASSUME RunsOK, Start PROVE RunsOK'
<1> DEFINE s == [disk EXCEPT !.epoch = @ + 1]
           pc == IF s.mode = "launched" THEN "probe" ELSE "tick"
<1>1. disk' = s /\ gov' = [Down(pc) EXCEPT !.st = s] /\ disk.epoch < MaxEpoch
  BY DEF Start
<1>2. RunStateOK(s) /\ s.epoch \in Epochs
  BY <1>1, HandoverAssumption DEF RunsOK, RunStateOK, RunState, Epochs
<1>3. pc \in Pcs \ (Driving \cup {"stop"}) /\ (pc = "probe" => s.mode = "launched")
  BY DEF Pcs, Driving
<1> HIDE DEF s, pc
<1>4. gov' \in Process /\ gov'.st = s /\ gov'.pc = pc
  BY <1>1, <1>2, <1>3 DEF Down, Process, RunStateOK
<1> QED
  BY <1>1, <1>2, <1>3, <1>4 DEF RunsOK, ProcessOK, Driving, Probing

\* Every step keeps the run state, in memory and on disk, well formed.
LEMMA RunsStep ==
  ASSUME RunsOK, [Next]_vars PROVE RunsOK'
<1>1. CASE Drain
  BY <1>1, CollectBundlesRuns, NoteRuns, WalkRuns, MarkRuns DEF Drain
<1>2. CASE Close
  BY <1>2, NoteRuns, WalkRuns, MarkRuns DEF Close
<1>3. CASE Launch
  BY <1>3, WalkRuns, RestRuns, LaunchErrorRuns, LaunchReportsRuns DEF Launch
<1>4. CASE Probe
  BY <1>4, RestRuns, LaunchErrorRuns, ReplacementTakesOverRuns DEF Probe
<1>5. CASE Finish \/ Keys \/ Crash
  BY <1>5, EndRuns, WalkRuns, HandoverKeyRuns DEF Keys
<1>6. CASE OldAgent \/ Successor
  BY <1>6 DEF OldAgent, AgentMoves, TurnStarts, TurnEnds, Exits, Leaves, Dies,
     WritesBundle, Successor, Boots, Accepts, AcceptsAgain, SessionDies, RunsOK
<1>7. CASE UNCHANGED vars
  BY <1>7 DEF vars, RunsOK
<1> QED
  BY <1>1, <1>2, <1>3, <1>4, <1>5, <1>6, <1>7, StartRuns, WalkRuns,
     PressureHandoverRuns DEF Next

\* Only these steps take the Governess to where it sends a request, types an
\* "/exit", launches, waits for the launcher or kills the old session.
LEMMA Entering ==
  ASSUME RunsOK, Next
  PROVE  /\ gov'.pc = "drain" => UNCHANGED gov \/ \E a \in Agents : DispatchDrain(a)
         /\ gov'.pc = "type" => UNCHANGED gov \/ \E a \in Agents : DispatchExit(a)
         /\ gov'.pc = "launch" => UNCHANGED gov \/ AllExited
         /\ gov'.pc = "spawned" => UNCHANGED gov \/ \E s \in Sessions : LaunchCreates(s)
         /\ gov'.pc = "stop" => UNCHANGED gov \/ ReplacementTakesOver
<1>1. CASE Start \/ Tick \/ PressureHandover \/ NoKey
  BY <1>1, ZenonT(60) DEF Start, Tick, PressureHandover, NoKey, RunsOK, ProcessOK, Process, Down, Go,
     Entry
<1>2. CASE HandoverKey
  <2>1. gov'.pc = "notify"
    BY <1>2 DEF HandoverKey, RunsOK, ProcessOK, Process
  <2> QED
    BY <2>1
<1>3. CASE Crash \/ Finish \/ TeardownKey
  <2>1. \E pc \in {"down", "ended"} : gov' = Down(pc)
    BY <1>3 DEF Crash, Finish, HandedOver, StopFails, TeardownKey, Stop
  <2> QED
    BY <2>1 DEF Down
<1>4. CASE Drain
  BY <1>4 DEF Drain, CollectBundles, NoteAsked, PassOver, DispatchDrain, SendDrain,
     DrainFails, MarkAsked, RunsOK, ProcessOK, Process, Go, SaveAndGo
<1>5. CASE Close
  BY <1>5 DEF Close, NoteExit, PassOverExit, DispatchExit, TypeExit, ExitRefused,
     EnterExit, MarkExit, RunsOK, ProcessOK, Process, Go, SaveAndGo
<1>6. CASE Launch
  BY <1>6 DEF Launch, AllExited, StillWaiting, LaunchFails, LaunchCreates,
     LaunchTimesOut, LaunchReports, LaunchedDead, RunsOK, ProcessOK, Process, Go,
     SaveAndGo, Rest, LaunchError
<1>7. CASE Probe
  BY <1>7 DEF Probe, Unanswered, ReplacementLost, ReplacementPending,
     ReplacementTakesOver, RunsOK, ProcessOK, Process, SaveAndGo, Rest, LaunchError
<1>8. CASE OldAgent \/ Successor
  BY <1>8 DEF OldAgent, AgentMoves, TurnStarts, TurnEnds, Exits, Leaves, Dies,
     WritesBundle, Successor, Boots, Accepts, AcceptsAgain, SessionDies
<1> QED
  BY <1>1, <1>2, <1>3, <1>4, <1>5, <1>6, <1>7, <1>8 DEF Next, Keys

\* What a step does to the agents.
LEMMA AgentStep ==
  ASSUME WorldOK, Next, NEW a \in Agents
  PROVE  /\ bundle[a] \subseteq bundle'[a]
         /\ agent[a] = "gone" => agent'[a] = "gone"
         /\ agent'[a] \in {"typed", "exiting"} =>
              \/ agent[a] \in {"typed", "exiting"}
              \/ gov.pc = "type" /\ a \in gov.who
<1>1. CASE Start \/ Tick \/ PressureHandover \/ Crash \/ Drain
  BY <1>1 DEF Start, Tick, PressureHandover, Crash, Drain, CollectBundles, NoteAsked,
     PassOver, DispatchDrain, SendDrain, DrainFails, MarkAsked, loop
<1>2. CASE Close
  BY <1>2 DEF Close, NoteExit, PassOverExit, DispatchExit, TypeExit, ExitRefused,
     EnterExit, MarkExit, InputSafe, WorldOK, loop
<1>3. CASE Launch \/ Probe
  BY <1>3 DEF Launch, AllExited, StillWaiting, LaunchFails, LaunchCreates,
     LaunchTimesOut, LaunchReports, LaunchedDead, Probe, Unanswered, ReplacementLost,
     ReplacementPending, ReplacementTakesOver, loop
<1>4. CASE Finish \/ Keys
  BY <1>4 DEF Finish, HandedOver, StopFails, Keys, NoKey, HandoverKey, TeardownKey, Stop,
     WorldOK, loop
<1>5. CASE \E b \in Agents : \E e \in Epochs : WritesBundle(b, e)
  BY <1>5 DEF WritesBundle, WorldOK
<1>6. CASE \E b \in Agents :
             TurnStarts(b) \/ TurnEnds(b) \/ Exits(b) \/ Leaves(b) \/ Dies(b)
  <2> PICK b \in Agents :
        TurnStarts(b) \/ TurnEnds(b) \/ Exits(b) \/ Leaves(b) \/ Dies(b)
    BY <1>6
  <2>1. /\ UNCHANGED bundle
        /\ \E from \in SUBSET {"busy", "idle", "typed", "exiting"},
              to \in {"busy", "idle", "gone"} :
             agent[b] \in from /\ agent' = [agent EXCEPT ![b] = to]
    BY DEF TurnStarts, TurnEnds, Exits, Leaves, Dies, AgentMoves
  <2> QED
    BY <2>1 DEF WorldOK
<1>7. CASE Successor
  BY <1>7 DEF Successor, Boots, Accepts, AcceptsAgain, SessionDies, loop
<1> QED
  BY <1>1, <1>2, <1>3, <1>4, <1>5, <1>6, <1>7 DEF Next, OldAgent

-----------------------------------------------------------------------------
(* The rest of the state.                                                  *)

\* The bound of the faults is kept.
LEMMA FaultOK == ASSUME WorldOK, Fault PROVE faults' \in 0..MaxFaults
<1>1. faults \in 0..MaxFaults /\ MaxFaults \in Nat
  BY HandoverAssumption DEF WorldOK
<1> QED
  BY <1>1 DEF Fault

\* The steps of the Governess that touch nothing else of the world.
LEMMA QuietStep ==
  ASSUME WorldOK, UNCHANGED <<journal, loop, successor, old>>,
         Fault \/ UNCHANGED faults
  PROVE  WorldOK'
  BY FaultOK DEF WorldOK, loop, successor

\* A control is journalled.
LEMMA KeyOK ==
  ASSUME WorldOK, NEW kind \in {"drain", "exit"}, NEW e \in Epochs, NEW a \in Agents,
         journal' = journal \cup {Key(kind, e, a)},
         UNCHANGED <<loop, successor, old, faults>>
  PROVE  WorldOK'
<1>1. Key(kind, e, a) \in [kind : {"drain", "exit"}, epoch : Epochs, agent : Agents]
  BY DEF Key
<1> HIDE DEF Key
<1> QED
  BY <1>1 DEF WorldOK, loop, successor

\* A request is counted.
LEMMA SendDrainWorld ==
  ASSUME Shape, NEW a \in Agents, SendDrain(a) PROVE WorldOK'
<1> DEFINE e == gov.st.handoverEpoch
           n == [asked[a] EXCEPT ![e] = @ + 1]
<1>1. e \in Epochs
  BY DEF SendDrain, Shape, RunsOK, ProcessOK, RunStateOK, Driving
<1>2. asked' = [asked EXCEPT ![a] = n]
  BY DEF SendDrain
<1> HIDE DEF e
<1>3. n \in [Epochs -> Nat]
  <2>1. asked[a] \in [Epochs -> Nat]
    BY DEF Shape, WorldOK
  <2> QED
    BY <1>1, <2>1
<1> HIDE DEF n
<1>4. asked' \in [Agents -> [Epochs -> Nat]]
  BY <1>2, <1>3 DEF Shape, WorldOK
<1> QED
  BY <1>4 DEF SendDrain, Shape, WorldOK, successor

\* An agent moves.
LEMMA AgentMovesWorld ==
  ASSUME WorldOK, NEW a \in Agents, NEW from,
         NEW to \in {"busy", "idle", "typed", "exiting", "gone"},
         AgentMoves(a, from, to), turns' \in 0..MaxTurns, Fault \/ UNCHANGED faults
  PROVE  WorldOK'
  BY FaultOK DEF WorldOK, AgentMoves, successor

\* Every step keeps the rest of the state well formed.
LEMMA WorldStep ==
  ASSUME Shape, [Next]_vars PROVE WorldOK'
<1> USE DEF Shape
<1>1. CASE Start \/ Tick \/ PressureHandover \/ Crash
  BY <1>1, QuietStep DEF Start, Tick, PressureHandover, Crash
<1>2. CASE Drain
  <2>1. CASE CollectBundles
    BY <2>1, QuietStep DEF CollectBundles
  <2>2. ASSUME NEW a \in Agents, NoteAsked(a) \/ PassOver(a) \/ DrainFails(a) \/ MarkAsked(a)
        PROVE  WorldOK'
    BY <2>2, QuietStep DEF NoteAsked, PassOver, DrainFails, MarkAsked
  <2>3. ASSUME NEW a \in Agents, DispatchDrain(a) PROVE WorldOK'
    <3>1. gov.st.handoverEpoch \in Epochs
      BY <2>3 DEF DispatchDrain, RunsOK, ProcessOK, RunStateOK, Driving
    <3> QED
      BY <2>3, <3>1, KeyOK DEF DispatchDrain, DrainKey
  <2> QED
    BY <1>2, <2>1, <2>2, <2>3, SendDrainWorld DEF Drain
<1>3. CASE Close
  <2> SUFFICES ASSUME NEW a \in Agents,
                      \/ NoteExit(a) \/ PassOverExit(a) \/ ExitRefused(a) \/ MarkExit(a)
                      \/ DispatchExit(a) \/ TypeExit(a) \/ EnterExit(a)
               PROVE  WorldOK'
    BY <1>3 DEF Close
  <2>1. CASE NoteExit(a) \/ PassOverExit(a) \/ ExitRefused(a) \/ MarkExit(a)
    BY <2>1, QuietStep DEF NoteExit, PassOverExit, ExitRefused, MarkExit
  <2>2. CASE DispatchExit(a)
    <3>1. gov.st.epoch \in Epochs
      BY <2>2 DEF DispatchExit, RunsOK, ProcessOK
    <3> QED
      BY <2>2, <3>1, KeyOK DEF DispatchExit, ExitKey
  <2>3. CASE TypeExit(a)
    BY <2>3 DEF TypeExit, WorldOK, successor
  <2>4. CASE EnterExit(a)
    BY <2>4 DEF EnterExit, WorldOK, successor
  <2> QED
    BY <2>1, <2>2, <2>3, <2>4
<1>4. CASE Launch
  <2>1. CASE \/ AllExited \/ StillWaiting \/ LaunchFails
             \/ LaunchTimesOut \/ LaunchReports \/ LaunchedDead
    BY <2>1, QuietStep DEF AllExited, StillWaiting, LaunchFails, LaunchTimesOut,
         LaunchReports, LaunchedDead
  <2>2. ASSUME NEW s \in Sessions, LaunchCreates(s) PROVE WorldOK'
    BY <2>2 DEF LaunchCreates, WorldOK, loop
  <2> QED
    BY <1>4, <2>1, <2>2 DEF Launch
<1>5. CASE Probe
  BY <1>5, QuietStep DEF Probe, Unanswered, ReplacementLost, ReplacementPending,
       ReplacementTakesOver
<1>6. CASE Finish
  <2>1. CASE HandedOver
    BY <2>1 DEF HandedOver, Stop, WorldOK, successor
  <2>2. CASE StopFails
    BY <2>2, QuietStep DEF StopFails
  <2> QED
    BY <1>6, <2>1, <2>2 DEF Finish
<1>7. CASE Keys
  <2>1. CASE NoKey \/ HandoverKey
    BY <2>1, QuietStep DEF NoKey, HandoverKey
  <2>2. CASE TeardownKey
    BY <2>2 DEF TeardownKey, Stop, WorldOK, successor
  <2> QED
    BY <1>7, <2>1, <2>2 DEF Keys
<1>8. CASE OldAgent
  <2> SUFFICES ASSUME NEW a \in Agents,
                      \/ TurnStarts(a) \/ TurnEnds(a) \/ Exits(a) \/ Leaves(a) \/ Dies(a)
                      \/ \E e \in Epochs : WritesBundle(a, e)
               PROVE  WorldOK'
    BY <1>8 DEF OldAgent
  <2>1. CASE TurnStarts(a)
    <3>1. turns' \in 0..MaxTurns
      <4>1. turns \in 0..MaxTurns /\ MaxTurns \in Nat
        BY HandoverAssumption DEF WorldOK
      <4> QED
        BY <2>1, <4>1 DEF TurnStarts
    <3> QED
      BY <2>1, <3>1, AgentMovesWorld DEF TurnStarts
  <2>2. CASE TurnEnds(a) \/ Exits(a) \/ Leaves(a) \/ Dies(a)
    <3>1. turns' \in 0..MaxTurns /\ (Fault \/ UNCHANGED faults)
      BY <2>2 DEF TurnEnds, Exits, Leaves, Dies, WorldOK
    <3> QED
      BY <2>2, <3>1, AgentMovesWorld DEF TurnEnds, Exits, Leaves, Dies
  <2>3. ASSUME NEW e \in Epochs, WritesBundle(a, e) PROVE WorldOK'
    BY <2>3 DEF WritesBundle, WorldOK, successor
  <2> QED
    BY <2>1, <2>2, <2>3
<1>9. CASE Successor
  <2> SUFFICES ASSUME NEW s \in Sessions,
                      Boots(s) \/ Accepts(s) \/ AcceptsAgain(s) \/ SessionDies(s)
               PROVE  WorldOK'
    BY <1>9 DEF Successor
  <2>1. CASE Boots(s)
    BY <2>1 DEF Boots, WorldOK, loop
  <2>2. CASE Accepts(s) \/ AcceptsAgain(s)
    BY <2>2 DEF Accepts, AcceptsAgain, WorldOK, loop
  <2>3. CASE SessionDies(s)
    BY <2>3, FaultOK DEF SessionDies, WorldOK, loop
  <2> QED
    BY <2>1, <2>2, <2>3
<1>10. CASE UNCHANGED vars
  BY <1>10 DEF vars, loop, successor, WorldOK
<1> QED
  BY <1>1, <1>2, <1>3, <1>4, <1>5, <1>6, <1>7, <1>8, <1>9, <1>10 DEF Next

\* The initial state is well formed.
LEMMA ShapeInit == ASSUME Init PROVE Shape
<1>1. RunsOK
  BY FreshOK, DownOK DEF Init, RunsOK
<1>2. WorldOK
  BY HandoverAssumption DEF Init, WorldOK
<1> QED
  BY <1>1, <1>2 DEF Shape

\* Shape is inductive.
LEMMA Shaped == Spec => []Shape
<1>1. ASSUME Shape, [Next]_vars PROVE Shape'
  BY <1>1, RunsStep, WorldStep DEF Shape
<1> QED
  BY <1>1, ShapeInit, PTL DEF Spec

\* The files of the run, the Governess and the terminals keep their types, and
\* a saved "launched" names its session, which readExitControl insists on.
THEOREM TypeCorrect == Spec => []TypeOK
<1>1. Shape => TypeOK
  BY DEF Shape, RunsOK, RunStateOK, ProcessOK, Process, Pcs, WorldOK, TypeOK
<1> QED
  BY <1>1, Shaped, PTL

-----------------------------------------------------------------------------
(* At most one request per agent and handover.                             *)

\* The journal is the memory of what was asked: whatever an agent was asked is
\* in it, and what is about to be sent is in it and was not sent before.
Asking ==
  /\ \A a \in Agents : \A e \in Epochs :
       asked[a][e] <= 1 /\ (asked[a][e] > 0 => Key("drain", e, a) \in journal)
  /\ gov.pc = "drain" =>
       \A a \in gov.who : /\ DrainKey(a) \in journal
                          /\ asked[a][gov.st.handoverEpoch] = 0

\* The journal only grows, and only SendDrain asks an agent.
LEMMA Journalled ==
  ASSUME Next
  PROVE  /\ journal \subseteq journal'
         /\ UNCHANGED asked \/ \E a \in Agents : SendDrain(a)
<1>1. CASE Start \/ Tick \/ PressureHandover \/ Crash
  BY <1>1 DEF Start, Tick, PressureHandover, Crash, loop
<1>2. CASE Drain
  BY <1>2 DEF Drain, CollectBundles, NoteAsked, PassOver, DispatchDrain, SendDrain,
     DrainFails, MarkAsked, loop
<1>3. CASE Close
  BY <1>3 DEF Close, NoteExit, PassOverExit, DispatchExit, TypeExit, ExitRefused,
     EnterExit, MarkExit, loop
<1>4. CASE Launch
  BY <1>4 DEF Launch, AllExited, StillWaiting, LaunchFails, LaunchCreates,
     LaunchTimesOut, LaunchReports, LaunchedDead, loop
<1>5. CASE Probe \/ Finish \/ Keys
  BY <1>5 DEF Probe, Unanswered, ReplacementLost, ReplacementPending,
     ReplacementTakesOver, Finish, HandedOver, StopFails, Keys, NoKey, HandoverKey,
     TeardownKey, Stop, loop
<1>6. CASE OldAgent \/ Successor
  BY <1>6 DEF OldAgent, AgentMoves, TurnStarts, TurnEnds, Exits, Leaves, Dies,
     WritesBundle, Successor, Boots, Accepts, AcceptsAgain, SessionDies, loop
<1> QED
  BY <1>1, <1>2, <1>3, <1>4, <1>5, <1>6 DEF Next

\* The request that is sent is the first one, and it is in the journal.
LEMMA SendDrainAsks ==
  ASSUME Shape, Asking, NEW a \in Agents, SendDrain(a) PROVE Asking'
<1> DEFINE h == gov.st.handoverEpoch
<1>1. /\ h \in Epochs /\ asked[a][h] = 0 /\ Key("drain", h, a) \in journal
      /\ gov'.pc = "asked" /\ UNCHANGED journal
  BY DEF SendDrain, Go, Asking, DrainKey, Shape, RunsOK, ProcessOK, Process,
         RunStateOK, Driving
<1>2. asked' = [asked EXCEPT ![a] = [asked[a] EXCEPT ![h] = asked[a][h] + 1]]
  BY DEF SendDrain
<1> HIDE DEF h
<1>3. ASSUME NEW b \in Agents, NEW e \in Epochs
      PROVE  asked'[b][e] = IF b = a /\ e = h THEN 1 ELSE asked[b][e]
  <2>1. asked \in [Agents -> [Epochs -> Nat]]
    BY DEF Shape, WorldOK
  <2> QED
    BY <1>1, <1>2, <2>1
<1> QED
  BY <1>1, <1>3 DEF Asking

\* A request that was not in the journal was never sent.
LEMMA DispatchDrainAsks ==
  ASSUME Shape, Asking, NEW a \in Agents, DispatchDrain(a)
  PROVE  \A b \in gov'.who : /\ DrainKey(b)' \in journal'
                             /\ asked[b][gov'.st.handoverEpoch] = 0
<1>1. gov'.who = {a} /\ gov'.st = gov.st
  BY DEF DispatchDrain, Shape, RunsOK, ProcessOK, Process
<1>2. gov.st.handoverEpoch \in Epochs
  BY DEF DispatchDrain, Shape, RunsOK, ProcessOK, RunStateOK, Driving
<1>3. asked[a][gov.st.handoverEpoch] = 0
  <2>1. asked[a][gov.st.handoverEpoch] \in Nat
    BY <1>2 DEF Shape, WorldOK
  <2> QED
    BY <1>2, <2>1 DEF DispatchDrain, Asking, Spent, DrainKey
<1> QED
  BY <1>1, <1>3 DEF DispatchDrain, DrainKey

\* Asking is inductive.
LEMMA AskingStep ==
  ASSUME Shape, Asking, [Next]_vars PROVE Asking'
<1>1. CASE UNCHANGED vars
  BY <1>1 DEF vars, Asking, DrainKey
<1>2. CASE \E a \in Agents : SendDrain(a)
  BY <1>2, SendDrainAsks
<1>3. CASE Next /\ UNCHANGED asked
  <2>1. journal \subseteq journal'
    BY <1>3, Journalled
  <2>2. CASE gov'.pc = "drain" /\ ~UNCHANGED gov
    <3>1. PICK a \in Agents : DispatchDrain(a)
      BY <1>3, <2>2, Entering DEF Shape
    <3> QED
      BY <1>3, <2>1, <3>1, DispatchDrainAsks DEF Asking
  <2>3. CASE gov'.pc # "drain" \/ UNCHANGED gov
    BY <1>3, <2>1, <2>3 DEF Asking, DrainKey
  <2> QED
    BY <2>2, <2>3
<1> QED
  BY <1>1, <1>2, <1>3, Journalled

\* An agent gets the drain request of a handover at most once, over any crash
\* of the Governess between the journal, the request and the note of it.
THEOREM AskedAtMostOnce == Spec => []AskedOnce
<1>1. Init => Asking
  BY DEF Init, Asking, Down
<1>2. Shape /\ Asking /\ [Next]_vars => Asking'
  BY AskingStep
<1>3. Asking => AskedOnce
  BY DEF Asking, AskedOnce
<1> QED
  BY <1>1, <1>2, <1>3, Shaped, PTL DEF Spec

-----------------------------------------------------------------------------
(* Never two pairs of agents.                                              *)

\* From the decision to launch on, nobody of the old loop is left.
OnePair ==
  (gov.pc = "launch" \/ \E s \in Sessions : sess[s] # "none") =>
    \A a \in Agents : agent[a] = "gone"

\* A session appears only at the launch.
LEMMA SessionStep ==
  ASSUME WorldOK, Next, NEW s \in Sessions, sess'[s] # "none"
  PROVE  sess[s] # "none" \/ gov.pc = "launch"
<1>1. CASE Start \/ Tick \/ PressureHandover \/ Crash
  BY <1>1 DEF Start, Tick, PressureHandover, Crash, successor
<1>2. CASE Drain
  BY <1>2 DEF Drain, CollectBundles, NoteAsked, PassOver, DispatchDrain, SendDrain,
     DrainFails, MarkAsked, successor
<1>3. CASE Close
  BY <1>3 DEF Close, NoteExit, PassOverExit, DispatchExit, TypeExit, ExitRefused,
     EnterExit, MarkExit, successor
<1>4. CASE Launch
  BY <1>4 DEF Launch, AllExited, StillWaiting, LaunchFails, LaunchCreates,
     LaunchTimesOut, LaunchReports, LaunchedDead, successor
<1>5. CASE Probe \/ Finish \/ Keys
  BY <1>5 DEF Probe, Unanswered, ReplacementLost, ReplacementPending,
     ReplacementTakesOver, Finish, HandedOver, StopFails, Keys, NoKey, HandoverKey,
     TeardownKey, Stop, successor
<1>6. CASE OldAgent
  BY <1>6 DEF OldAgent, AgentMoves, TurnStarts, TurnEnds, Exits, Leaves, Dies,
     WritesBundle, successor
<1>7. CASE Successor
  BY <1>7 DEF Successor, Boots, Accepts, AcceptsAgain, SessionDies, WorldOK
<1> QED
  BY <1>1, <1>2, <1>3, <1>4, <1>5, <1>6, <1>7 DEF Next

\* OnePair is inductive.
LEMMA OnePairStep ==
  ASSUME Shape, OnePair, [Next]_vars PROVE OnePair'
<1>1. CASE UNCHANGED vars
  BY <1>1 DEF vars, OnePair
<1>2. CASE Next
  <2>1. CASE AllExited
    BY <2>1 DEF AllExited, Gone, OnePair, loop
  <2>2. CASE ~AllExited /\ (gov'.pc = "launch" \/ \E s \in Sessions : sess'[s] # "none")
    <3>1. gov.pc = "launch" \/ \E s \in Sessions : sess[s] # "none"
      BY <1>2, <2>2, Entering, SessionStep DEF Shape
    <3>2. \A a \in Agents : agent'[a] = "gone"
      BY <1>2, <3>1, AgentStep DEF OnePair, Shape
    <3> QED
      BY <3>2 DEF OnePair
  <2> QED
    BY <2>1, <2>2 DEF OnePair
<1> QED
  BY <1>1, <1>2

\* The agents of a replacement never work beside those of the old loop.
THEOREM OnePairAtATime == Spec => []NeverTwoPairs
<1>1. Init => OnePair
  BY DEF Init, OnePair, Down
<1>2. Shape /\ OnePair /\ [Next]_vars => OnePair'
  BY OnePairStep
<1>3. OnePair => NeverTwoPairs
  BY DEF OnePair, NeverTwoPairs, Live
<1> QED
  BY <1>1, <1>2, <1>3, Shaped, PTL DEF Spec

-----------------------------------------------------------------------------
(* No agent is closed without its bundle.                                  *)

Up == gov.pc \notin {"down", "ended"}

\* The bundles that were taken in are there, for the handover of the run state.
Collected(s) == \A a \in s.bundles : s.handoverEpoch \in bundle[a]

\* The handover on disk is the one in memory, and it is on disk before an agent
\* counts as asked; so the bundle an "/exit" relied on is of that handover.
Closing ==
  /\ \A a \in Agents : agent[a] \in {"typed", "exiting"} =>
       disk.mode # "idle" /\ disk.handoverEpoch \in bundle[a]
  /\ Collected(gov.st) /\ Collected(disk)
  /\ Up /\ disk.mode # "idle" =>
       gov.st.mode # "idle" /\ gov.st.handoverEpoch = disk.handoverEpoch
  /\ gov.st.notified \cup disk.notified # {} => disk.mode # "idle"
  /\ gov.pc = "type" => gov.who \subseteq gov.st.notified \cap gov.st.bundles

SameHandover(s, t) ==
  /\ t.handoverEpoch = s.handoverEpoch /\ t.bundles = s.bundles
  /\ t.mode = "idle" <=> s.mode = "idle"

\* What a step may do to the run state in memory and on disk.
Untouched ==
  /\ UNCHANGED disk /\ SameHandover(gov.st, gov'.st)
  /\ gov'.st.notified = gov.st.notified /\ (Up' => Up)
Saved == Up /\ gov.st.mode # "idle" /\ disk' = gov'.st /\ SameHandover(gov.st, gov'.st)
Begun == Up /\ UNCHANGED disk /\ gov.st.mode = "idle" /\ gov'.st = Begin(gov.st)
Forgotten == UNCHANGED disk /\ gov'.st = Fresh /\ ~Up'

\* Saving a run state of the same handover.
LEMMA SaveTouches ==
  ASSUME RunsOK, NEW s, NEW pc, SaveAndGo(s, pc), SameHandover(gov.st, s),
         gov.pc \in Driving \cup Probing
  PROVE  Saved
<1>1. gov'.st = s /\ disk' = s
  BY DEF SaveAndGo, RunsOK, ProcessOK, Process
<1>2. Up /\ gov.st.mode # "idle"
  BY DEF Up, RunsOK, ProcessOK, Driving, Probing
<1> QED
  BY <1>1, <1>2 DEF Saved

\* Noting an agent in a run state of the same handover.
LEMMA NoteTouches ==
  ASSUME RunsOK, NEW s, NEW t, disk' = s, gov' = [gov EXCEPT !.st = s, !.todo = t],
         SameHandover(gov.st, s), gov.pc \in Driving
  PROVE  Saved
<1>1. gov'.st = s /\ disk' = s
  BY DEF RunsOK, ProcessOK, Process
<1>2. Up /\ gov.st.mode # "idle"
  BY DEF Up, RunsOK, ProcessOK, Driving
<1> QED
  BY <1>1, <1>2 DEF Saved

\* The edits of the run state that keep the handover.
LEMMA EditsKeep ==
  ASSUME NEW s, RunStateOK(s), s.mode # "idle", NEW a \in Agents,
         NEW n \in Sessions \cup {NoSession}
  PROVE  /\ SameHandover(s, s)
         /\ SameHandover(s, [s EXCEPT !.notified = @ \cup {a}])
         /\ SameHandover(s, [s EXCEPT !.requested = @ \cup {a}])
         /\ SameHandover(s, [s EXCEPT !.mode = "launch-error"])
         /\ SameHandover(s, [s EXCEPT !.mode = "launched", !.session = n])
  BY DEF RunStateOK, RunState, SameHandover

\* Every step is one of these, a look at the bundles or a start.
LEMMA RunStateStep ==
  ASSUME Shape, Next
  PROVE  Untouched \/ Saved \/ Begun \/ Forgotten \/ CollectBundles \/ Start
<1> USE DEF Shape
<1>1. ASSUME UNCHANGED disk, gov'.st = gov.st, Up' => Up PROVE Untouched
  BY <1>1 DEF Untouched, SameHandover
<1>2. gov.pc \in Driving \cup Probing => gov.st.mode # "idle" /\ RunStateOK(gov.st)
  BY DEF RunsOK, ProcessOK, Driving, Probing
<1>3. CASE Tick \/ NoKey
  BY <1>1, <1>3 DEF Tick, NoKey, Go, RunsOK, ProcessOK, Process, Up
<1>4. CASE PressureHandover
  BY <1>4 DEF PressureHandover, RunsOK, ProcessOK, Process, Begun, Up
<1>5. CASE Crash \/ Finish \/ TeardownKey
  <2>1. UNCHANGED disk /\ \E pc \in {"down", "ended"} : gov' = Down(pc)
    BY <1>5 DEF Crash, Finish, HandedOver, StopFails, TeardownKey, Stop
  <2>2. gov'.st = Fresh /\ gov'.pc \in {"down", "ended"}
    BY <2>1 DEF Down
  <2> QED
    BY <2>1, <2>2 DEF Forgotten, Up
<1>6. CASE Drain /\ ~CollectBundles
  <2> PICK a \in Agents : \/ NoteAsked(a) \/ PassOver(a) \/ DispatchDrain(a)
                          \/ SendDrain(a) \/ DrainFails(a) \/ MarkAsked(a)
    BY <1>6 DEF Drain
  <2>1. CASE NoteAsked(a)
    BY <1>2, <2>1, EditsKeep, NoteTouches DEF NoteAsked, Driving
  <2>2. CASE PassOver(a) \/ DispatchDrain(a) \/ SendDrain(a) \/ DrainFails(a)
    BY <1>1, <2>2 DEF PassOver, DispatchDrain, SendDrain, DrainFails, Go, RunsOK,
       ProcessOK, Process, Up
  <2>3. CASE MarkAsked(a)
    BY <1>2, <2>3, EditsKeep, SaveTouches DEF MarkAsked, Driving
  <2> QED
    BY <2>1, <2>2, <2>3
<1>7. CASE Close
  <2> PICK a \in Agents : \/ NoteExit(a) \/ PassOverExit(a) \/ DispatchExit(a)
                          \/ TypeExit(a) \/ ExitRefused(a) \/ EnterExit(a)
                          \/ MarkExit(a)
    BY <1>7 DEF Close
  <2>1. CASE NoteExit(a)
    BY <1>2, <2>1, EditsKeep, NoteTouches DEF NoteExit, Driving
  <2>2. CASE PassOverExit(a) \/ DispatchExit(a) \/ TypeExit(a) \/ ExitRefused(a)
             \/ EnterExit(a)
    BY <1>1, <2>2 DEF PassOverExit, DispatchExit, TypeExit, ExitRefused, EnterExit, Go,
       RunsOK, ProcessOK, Process, Up
  <2>3. CASE MarkExit(a)
    BY <1>2, <2>3, EditsKeep, SaveTouches DEF MarkExit, Driving
  <2> QED
    BY <2>1, <2>2, <2>3
<1>8. CASE AllExited \/ \E s \in Sessions : LaunchCreates(s)
  BY <1>1, <1>8 DEF AllExited, LaunchCreates, Go, RunsOK, ProcessOK, Process, Up
<1>9. CASE StillWaiting \/ Unanswered \/ ReplacementPending \/ ReplacementTakesOver
  <2>1. SameHandover(gov.st, gov.st)
    BY DEF SameHandover
  <2> QED
    BY <1>9, <2>1, SaveTouches DEF StillWaiting, Unanswered, ReplacementPending,
       ReplacementTakesOver, Driving, Probing
<1>10. CASE LaunchFails \/ LaunchTimesOut \/ LaunchedDead \/ ReplacementLost
  <2>1. SameHandover(gov.st, [gov.st EXCEPT !.mode = "launch-error"])
    BY <1>2, <1>10 DEF LaunchFails, LaunchTimesOut, LaunchedDead, ReplacementLost,
       Driving, Probing, RunStateOK, RunState, SameHandover
  <2> QED
    BY <1>10, <2>1, SaveTouches DEF LaunchFails, LaunchTimesOut, LaunchedDead,
       ReplacementLost, LaunchError, Driving, Probing
<1>11. CASE LaunchReports
  <2>1. SameHandover(gov.st, [gov.st EXCEPT !.mode = "launched", !.session = gov.new])
    BY <1>2, <1>11 DEF LaunchReports, Driving, RunStateOK, RunState, SameHandover
  <2> QED
    BY <1>11, <2>1, SaveTouches DEF LaunchReports, Driving
<1>12. CASE HandoverKey
  <2>1. CASE gov.st.mode = "idle"
    <3>1. gov'.st = Begin(gov.st) /\ UNCHANGED disk /\ gov.pc = "keys"
      BY <1>12, <2>1 DEF HandoverKey, RunsOK, ProcessOK, Process
    <3> QED
      BY <2>1, <3>1 DEF Begun, Up
  <2>2. CASE gov.st.mode = "launch-error"
    <3>1. /\ gov'.st = [gov.st EXCEPT !.mode = "handover"]
          /\ UNCHANGED disk /\ gov.pc = "keys"
      BY <1>12, <2>2 DEF HandoverKey, RunsOK, ProcessOK, Process
    <3> QED
      BY <2>2, <3>1 DEF RunsOK, ProcessOK, RunStateOK, RunState, Untouched,
         SameHandover, Up
  <2> QED
    BY <1>12, <2>1, <2>2 DEF HandoverKey
<1>13. CASE OldAgent \/ Successor
  BY <1>1, <1>13 DEF OldAgent, AgentMoves, TurnStarts, TurnEnds, Exits, Leaves, Dies,
     WritesBundle, Successor, Boots, Accepts, AcceptsAgain, SessionDies, Up
<1> QED
  BY <1>3, <1>4, <1>5, <1>6, <1>7, <1>8, <1>9, <1>10, <1>11, <1>12, <1>13
     DEF Next, Launch, Probe, Keys


\* Once begun on disk, a handover stays the one on disk.
LEMMA DiskKeeps ==
  ASSUME Shape, Closing, Next, disk.mode # "idle"
  PROVE  disk'.mode # "idle" /\ disk'.handoverEpoch = disk.handoverEpoch
<1>1. CASE Saved
  BY <1>1 DEF Saved, SameHandover, Closing
<1>2. CASE Start
  BY <1>2 DEF Start, Shape, RunsOK, RunStateOK, RunState
<1> QED
  BY <1>1, <1>2, RunStateStep DEF Untouched, Begun, Forgotten, CollectBundles

\* An agent that is typed to has its bundle for the handover on disk.
LEMMA ClosedStep ==
  ASSUME Shape, Closing, Next, NEW a \in Agents, agent'[a] \in {"typed", "exiting"}
  PROVE  disk'.mode # "idle" /\ disk'.handoverEpoch \in bundle'[a]
<1>1. disk.mode # "idle" /\ disk.handoverEpoch \in bundle[a]
  <2>1. CASE agent[a] \in {"typed", "exiting"}
    BY <2>1 DEF Closing
  <2>2. CASE gov.pc = "type" /\ a \in gov.who
    BY <2>2 DEF Closing, Collected, Up
  <2> QED
    BY <2>1, <2>2, AgentStep DEF Shape
<1> QED
  BY <1>1, DiskKeeps, AgentStep DEF Shape

\* A start takes the handover from disk.
LEMMA StartState ==
  ASSUME Shape, Start
  PROVE  gov'.st = disk' /\ SameHandover(disk, disk') /\ disk'.notified = disk.notified
<1>1. disk' = [disk EXCEPT !.epoch = @ + 1] /\ gov'.st = disk'
  BY DEF Start, Down
<1> QED
  BY <1>1 DEF Shape, RunsOK, RunStateOK, RunState, SameHandover

\* The bundles of the handover in memory are taken in.
LEMMA CollectState ==
  ASSUME Shape, CollectBundles
  PROVE  /\ UNCHANGED <<disk, bundle>> /\ Up
         /\ gov'.st = [gov.st EXCEPT !.bundles =
              @ \cup {a \in Agents : gov.st.handoverEpoch \in bundle[a]}]
  BY DEF CollectBundles, Shape, RunsOK, ProcessOK, Process, RunState, loop, Up

\* What was taken in stays true.
LEMMA CollectedStep ==
  ASSUME Shape, Closing, Next PROVE Collected(gov.st)' /\ Collected(disk)'
<1>1. \A a \in Agents : bundle[a] \subseteq bundle'[a]
  BY AgentStep DEF Shape
<1>2. ASSUME NEW s, s \in RunState, Collected(s)
      PROVE  \A a \in s.bundles : s.handoverEpoch \in bundle'[a]
  BY <1>1, <1>2 DEF Collected, RunState
<1>3. disk \in RunState /\ gov.st \in RunState /\ Collected(gov.st) /\ Collected(disk)
  BY DEF Shape, RunsOK, ProcessOK, RunStateOK, Closing
<1>4. CASE Untouched \/ Saved
  BY <1>2, <1>3, <1>4 DEF Untouched, Saved, SameHandover, Collected
<1>5. CASE Begun
  BY <1>2, <1>3, <1>5 DEF Begun, Begin, Collected, RunState
<1>6. CASE Forgotten
  BY <1>2, <1>3, <1>6 DEF Forgotten, Fresh, Collected
<1>7. CASE CollectBundles
  <2>1. /\ gov'.st.handoverEpoch = gov.st.handoverEpoch
        /\ gov'.st.bundles = gov.st.bundles
             \cup {a \in Agents : gov.st.handoverEpoch \in bundle[a]}
    BY <1>3, <1>7, CollectState DEF RunState
  <2> QED
    BY <1>3, <1>7, <2>1, CollectState DEF Collected
<1>8. CASE Start
  BY <1>2, <1>3, <1>8, StartState DEF SameHandover, Collected
<1> QED
  BY <1>4, <1>5, <1>6, <1>7, <1>8, RunStateStep

\* Memory and disk keep agreeing on the handover.
LEMMA AgreedStep ==
  ASSUME Shape, Closing, Next
  PROVE  /\ (Up /\ disk.mode # "idle")' =>
              gov'.st.mode # "idle" /\ gov'.st.handoverEpoch = disk'.handoverEpoch
         /\ gov'.st.notified \cup disk'.notified # {} => disk'.mode # "idle"
<1>1. gov.st \in RunState
  BY DEF Shape, RunsOK, ProcessOK, RunStateOK
<1>2. CASE Untouched
  BY <1>2 DEF Untouched, SameHandover, Closing
<1>3. CASE Saved
  BY <1>3 DEF Saved, SameHandover
<1>4. CASE Begun
  BY <1>1, <1>4 DEF Begun, Begin, Closing, RunState
<1>5. CASE Forgotten
  BY <1>5 DEF Forgotten, Fresh, Closing
<1>6. CASE CollectBundles
  BY <1>1, <1>6, CollectState DEF Closing, RunState
<1>7. CASE Start
  BY <1>7, StartState DEF SameHandover, Closing
<1> QED
  BY <1>2, <1>3, <1>4, <1>5, <1>6, <1>7, RunStateStep

\* Closing is inductive.
LEMMA ClosingStep ==
  ASSUME Shape, Closing, [Next]_vars PROVE Closing'
<1>1. CASE UNCHANGED vars
  BY <1>1 DEF vars, loop, Closing, Collected, Up
<1>2. CASE Next
  <2>1. gov'.pc = "type" => gov'.who \subseteq gov'.st.notified \cap gov'.st.bundles
    <3>1. ASSUME NEW a \in Agents, DispatchExit(a)
          PROVE  gov'.who \subseteq gov'.st.notified \cap gov'.st.bundles
      BY <3>1 DEF DispatchExit, Closable, Shape, RunsOK, ProcessOK, Process
    <3> QED
      BY <1>2, <3>1, Entering DEF Shape, Closing
  <2> QED
    BY <1>2, <2>1, ClosedStep, CollectedStep, AgreedStep DEF Closing
<1> QED
  BY <1>1, <1>2

\* "/exit" reaches only an agent that has written its bundle for the handover
\* on disk, over any crash, restart or retried launch.
THEOREM NoneClosedWithoutBundle == Spec => []ClosedWithBundle
<1>1. Init => Closing
  BY DEF Init, Closing, Collected, Down, Fresh, Up
<1>2. Shape /\ Closing /\ [Next]_vars => Closing'
  BY ClosingStep
<1>3. Closing => ClosedWithBundle
  BY DEF Closing, ClosedWithBundle
<1> QED
  BY <1>1, <1>2, <1>3, Shaped, PTL DEF Spec

-----------------------------------------------------------------------------
(* The old session is killed for a replacement that took over.             *)

Replaced == sess[disk.session] \in {"ready", "dead"} /\ accepted # NoSession

\* From the launch on every bundle was taken in; before the session is killed
\* the launched replacement is on disk, was seen ready and has accepted.
Handing ==
  /\ gov.pc \in {"launch", "spawned"} \/ gov.st.mode = "launched" =>
       Agents \subseteq gov.st.bundles
  /\ disk.mode = "launched" => Agents \subseteq disk.bundles
  /\ gov.pc = "stop" => disk = gov.st /\ Replaced
  /\ old = "handed over" => gov.pc = "ended" /\ disk.mode = "launched" /\ Replaced

\* The file changes only by saving the run state in memory.
LEMMA DiskStep == ASSUME Shape, Next PROVE disk' = disk \/ disk' = gov'.st
  BY RunStateStep, StartState, CollectState DEF Untouched, Saved, Begun, Forgotten

\* Only a launcher's report makes a handover launched.
LEMMA ModeStep ==
  ASSUME Shape, Next, gov'.st.mode = "launched"
  PROVE  gov'.st = gov.st \/ LaunchReports \/ Start
<1> USE DEF Shape
<1>1. gov.pc \in Driving => gov.st.mode = "handover"
  BY DEF RunsOK, ProcessOK
<1>2. gov.st \in RunState
  BY DEF RunsOK, ProcessOK, RunStateOK
<1>3. CASE Tick \/ NoKey \/ AllExited \/ \E s \in Sessions : LaunchCreates(s)
  BY <1>3 DEF Tick, NoKey, AllExited, LaunchCreates, Go, RunsOK, ProcessOK, Process
<1>4. CASE PressureHandover \/ HandoverKey
  <2>1. \/ gov'.st = Begin(gov.st)
        \/ gov'.st = [gov.st EXCEPT !.mode = "handover"]
    BY <1>4 DEF PressureHandover, HandoverKey, RunsOK, ProcessOK, Process
  <2>2. gov'.st.mode = "handover"
    BY <1>2, <2>1 DEF Begin, RunState
  <2> QED
    BY <2>2
<1>5. CASE Crash \/ Finish \/ TeardownKey
  <2>1. \E pc \in {"down", "ended"} : gov' = Down(pc)
    BY <1>5 DEF Crash, Finish, HandedOver, StopFails, TeardownKey, Stop
  <2>2. gov'.st.mode = "idle"
    BY <2>1 DEF Down, Fresh
  <2> QED
    BY <2>2
<1>6. CASE Drain
  <2>1. CASE CollectBundles
    <3>1. gov'.st.mode = "handover"
      BY <1>1, <1>2, <2>1, CollectState DEF CollectBundles, Driving, RunState
    <3> QED
      BY <3>1
  <2>2. ASSUME NEW a \in Agents, NoteAsked(a) \/ MarkAsked(a) PROVE FALSE
    <3>1. gov'.st = [gov.st EXCEPT !.notified = @ \cup {a}] /\ gov.pc \in Driving
      BY <2>2 DEF NoteAsked, MarkAsked, SaveAndGo, RunsOK, ProcessOK, Process, Driving
    <3> QED
      BY <1>1, <1>2, <3>1 DEF RunState
  <2>3. ASSUME NEW a \in Agents,
               PassOver(a) \/ DispatchDrain(a) \/ SendDrain(a) \/ DrainFails(a)
        PROVE  gov'.st = gov.st
    BY <2>3 DEF PassOver, DispatchDrain, SendDrain, DrainFails, Go, RunsOK, ProcessOK,
       Process
  <2> QED
    BY <1>6, <2>1, <2>2, <2>3 DEF Drain
<1>7. CASE Close
  <2>1. ASSUME NEW a \in Agents, NoteExit(a) \/ MarkExit(a) PROVE FALSE
    <3>1. gov'.st = [gov.st EXCEPT !.requested = @ \cup {a}] /\ gov.pc \in Driving
      BY <2>1 DEF NoteExit, MarkExit, SaveAndGo, RunsOK, ProcessOK, Process, Driving
    <3> QED
      BY <1>1, <1>2, <3>1 DEF RunState
  <2>2. ASSUME NEW a \in Agents, \/ PassOverExit(a) \/ DispatchExit(a) \/ TypeExit(a)
                                 \/ ExitRefused(a) \/ EnterExit(a)
        PROVE  gov'.st = gov.st
    BY <2>2 DEF PassOverExit, DispatchExit, TypeExit, ExitRefused, EnterExit, Go, RunsOK,
       ProcessOK, Process
  <2> QED
    BY <1>7, <2>1, <2>2 DEF Close
<1>8. CASE StillWaiting \/ Unanswered \/ ReplacementPending \/ ReplacementTakesOver
  BY <1>8 DEF StillWaiting, Unanswered, ReplacementPending, ReplacementTakesOver,
     SaveAndGo, RunsOK, ProcessOK, Process
<1>9. CASE LaunchFails \/ LaunchTimesOut \/ LaunchedDead \/ ReplacementLost
  <2>1. gov'.st.mode = "launch-error"
    BY <1>2, <1>9, ZenonT(60) DEF LaunchFails, LaunchTimesOut, LaunchedDead, ReplacementLost,
       LaunchError, SaveAndGo, RunsOK, ProcessOK, Process, RunState
  <2> QED
    BY <2>1
<1>10. CASE OldAgent \/ Successor
  BY <1>10 DEF OldAgent, AgentMoves, TurnStarts, TurnEnds, Exits, Leaves, Dies,
     WritesBundle, Successor, Boots, Accepts, AcceptsAgain, SessionDies
<1> QED
  BY <1>3, <1>4, <1>5, <1>6, <1>7, <1>8, <1>9, <1>10 DEF Next, Launch, Probe, Keys

\* What was seen of a replacement stays: it came up, and one has accepted.
LEMMA SuccessorStep ==
  ASSUME WorldOK, Next
  PROVE  /\ \A s \in Sessions : sess[s] \in {"ready", "dead"} =>
              sess'[s] \in {"ready", "dead"}
         /\ accepted # NoSession => accepted' # NoSession
<1>1. CASE UNCHANGED successor
  BY <1>1 DEF successor
<1>2. CASE \E s \in Sessions : LaunchCreates(s)
  BY <1>2 DEF LaunchCreates, WorldOK
<1>3. CASE Successor
  BY <1>3, HandoverAssumption DEF Successor, Boots, Accepts, AcceptsAgain, SessionDies,
     WorldOK
<1>4. UNCHANGED successor \/ Successor \/ \E s \in Sessions : LaunchCreates(s)
  <2>1. CASE Start \/ Tick \/ PressureHandover \/ Crash \/ Drain
    BY <2>1 DEF Start, Tick, PressureHandover, Crash, Drain, CollectBundles, NoteAsked,
       PassOver, DispatchDrain, SendDrain, DrainFails, MarkAsked
  <2>2. CASE Close
    BY <2>2 DEF Close, NoteExit, PassOverExit, DispatchExit, TypeExit, ExitRefused,
       EnterExit, MarkExit
  <2>3. CASE Launch
    BY <2>3 DEF Launch, AllExited, StillWaiting, LaunchFails, LaunchTimesOut,
       LaunchReports, LaunchedDead
  <2>4. CASE Probe \/ Finish \/ Keys
    BY <2>4 DEF Probe, Unanswered, ReplacementLost, ReplacementPending,
       ReplacementTakesOver, Finish, HandedOver, StopFails, Keys, NoKey, HandoverKey,
       TeardownKey, Stop
  <2>5. CASE OldAgent
    BY <2>5 DEF OldAgent, AgentMoves, TurnStarts, TurnEnds, Exits, Leaves, Dies,
       WritesBundle
  <2> QED
    BY <2>1, <2>2, <2>3, <2>4, <2>5 DEF Next
<1> QED
  BY <1>1, <1>2, <1>3, <1>4

\* A Governess that has ended does nothing, and only HandedOver kills the
\* session for a replacement.
LEMMA EndStep ==
  ASSUME Shape, Next
  PROVE  /\ gov.pc = "ended" => UNCHANGED <<disk, gov>>
         /\ old' = "handed over" => old = "handed over" \/ HandedOver
<1>1. CASE Start \/ Tick \/ PressureHandover \/ Crash \/ Drain
  BY <1>1 DEF Start, Tick, PressureHandover, Crash, Drain, CollectBundles, NoteAsked,
     PassOver, DispatchDrain, SendDrain, DrainFails, MarkAsked
<1>2. CASE Close
  BY <1>2 DEF Close, NoteExit, PassOverExit, DispatchExit, TypeExit, ExitRefused,
     EnterExit, MarkExit
<1>3. CASE Launch
  BY <1>3 DEF Launch, AllExited, StillWaiting, LaunchFails, LaunchCreates,
     LaunchTimesOut, LaunchReports, LaunchedDead
<1>4. CASE Probe \/ Finish \/ Keys
  BY <1>4 DEF Probe, Unanswered, ReplacementLost, ReplacementPending,
     ReplacementTakesOver, Finish, HandedOver, StopFails, Keys, NoKey, HandoverKey,
     TeardownKey, Stop
<1>5. CASE OldAgent \/ Successor
  BY <1>5 DEF OldAgent, AgentMoves, TurnStarts, TurnEnds, Exits, Leaves, Dies,
     WritesBundle, Successor, Boots, Accepts, AcceptsAgain, SessionDies
<1> QED
  BY <1>1, <1>2, <1>3, <1>4, <1>5 DEF Next

\* Handing is inductive.
LEMMA HandingStep ==
  ASSUME Shape, Handing, [Next]_vars PROVE Handing'
<1>1. CASE UNCHANGED vars
  BY <1>1 DEF vars, successor, Handing, Replaced
<1>2. CASE Next
  <2>1. gov'.st.mode = "launched" => Agents \subseteq gov'.st.bundles
    <3>1. CASE LaunchReports
      <4>1. gov'.st = [gov.st EXCEPT !.mode = "launched", !.session = gov.new]
        BY <3>1 DEF LaunchReports, SaveAndGo, Shape, RunsOK, ProcessOK, Process
      <4> QED
        BY <3>1, <4>1 DEF LaunchReports, Handing, Shape, RunsOK, ProcessOK, RunStateOK,
           RunState
    <3>2. CASE Start
      <4>1. gov'.st = disk' /\ disk'.bundles = disk.bundles /\ disk'.mode = disk.mode
        BY <3>2, StartState DEF Start, Shape, RunsOK, RunStateOK, RunState, SameHandover
      <4> QED
        BY <4>1 DEF Handing
    <3> QED
      BY <1>2, <3>1, <3>2, ModeStep DEF Handing
  <2>2. gov'.pc \in {"launch", "spawned"} => Agents \subseteq gov'.st.bundles
    <3>1. CASE AllExited
      BY <3>1 DEF AllExited, Drained, Go, Shape, RunsOK, ProcessOK, Process
    <3>2. ASSUME NEW s \in Sessions, LaunchCreates(s)
          PROVE  Agents \subseteq gov'.st.bundles
      BY <3>2 DEF LaunchCreates, Handing, Shape, RunsOK, ProcessOK, Process
    <3> QED
      BY <1>2, <3>1, <3>2, Entering DEF Handing, Shape
  <2>3. disk'.mode = "launched" => Agents \subseteq disk'.bundles
    BY <1>2, <2>1, DiskStep DEF Handing
  <2>4. disk.mode = "launched" /\ UNCHANGED disk /\ Replaced => Replaced'
    BY <1>2, SuccessorStep, HandoverAssumption DEF Replaced, Shape, RunsOK, RunStateOK,
       RunState
  <2>5. gov'.pc = "stop" => disk' = gov'.st /\ Replaced'
    <3>1. CASE ReplacementTakesOver
      <4>1. disk' = gov.st /\ gov'.st = gov.st /\ gov.st.mode = "launched"
        BY <3>1 DEF ReplacementTakesOver, SaveAndGo, Shape, RunsOK, ProcessOK, Process,
           Probing
      <4>2. gov.st.session # NoSession
        BY <4>1 DEF Shape, RunsOK, ProcessOK, RunStateOK
      <4> QED
        BY <3>1, <4>1, <4>2 DEF ReplacementTakesOver, TakenOver, successor, Replaced
    <3>2. CASE gov.pc = "stop" /\ UNCHANGED gov
      <4>1. disk = gov.st /\ Replaced /\ disk.mode = "launched"
        BY <3>2 DEF Handing, Shape, RunsOK, ProcessOK, Probing
      <4> QED
        BY <1>2, <2>4, <3>2, <4>1, DiskStep
    <3> QED
      BY <1>2, <3>1, <3>2, Entering DEF Shape
  <2>6. old' = "handed over" =>
          gov'.pc = "ended" /\ disk'.mode = "launched" /\ Replaced'
    <3>1. CASE HandedOver
      <4>1. gov'.pc = "ended" /\ UNCHANGED disk
        BY <3>1 DEF HandedOver, Stop, Down
      <4>2. disk.mode = "launched" /\ Replaced
        BY <3>1 DEF HandedOver, Handing, Shape, RunsOK, ProcessOK, Probing
      <4> QED
        BY <2>4, <4>1, <4>2
    <3>2. CASE old = "handed over"
      BY <1>2, <2>4, <3>2, EndStep DEF Handing
    <3> QED
      BY <1>2, <3>1, <3>2, EndStep
  <2> QED
    BY <2>1, <2>2, <2>3, <2>5, <2>6 DEF Handing
<1> QED
  BY <1>1, <1>2

\* The old session is killed for a handover only when the replacement is on
\* disk and came up, the manifest was accepted and every bundle is there.
THEOREM SessionKilledForSuccessor == Spec => []TornDownForSuccessor
<1>1. Init => Handing /\ Closing
  BY DEF Init, Handing, Closing, Collected, Down, Fresh, Up
<1>2. Shape /\ Handing /\ [Next]_vars => Handing'
  BY HandingStep
<1>3. Shape /\ Closing /\ [Next]_vars => Closing'
  BY ClosingStep
<1>4. Handing /\ Closing => TornDownForSuccessor
  BY DEF Handing, Replaced, Closing, Collected, TornDownForSuccessor
<1> QED
  BY <1>1, <1>2, <1>3, <1>4, Shaped, PTL DEF Spec

-----------------------------------------------------------------------------
(* One replacement, and one more for each failure.                         *)

\* The Governess knows the session s as its replacement: it was just launched,
\* or the handover is launched with it, or the Governess has ended.
Held(s) == \/ gov.pc = "spawned" /\ gov.new = s
           \/ gov.pc # "down" /\ gov.st.mode = "launched" /\ gov.st.session = s
           \/ gov.pc = "ended"

Living == {s \in Sessions : Live(s)}

\* The replacements that the Governess does not know; each has cost a failure.  A second launch is
\* possible only after a launch error.
Strays == {s \in Living : ~Held(s)}

StraysCounted ==
  /\ IsFiniteSet(Living) /\ Cardinality(Living) <= 1 + faults
  /\ Cardinality(Strays) <= faults

\* A fault is counted.
LEMMA FaultCounts == ASSUME WorldOK, Fault PROVE faults' = faults + 1 /\ faults' # faults
<1>1. faults \in 0..MaxFaults /\ MaxFaults \in Nat
  BY HandoverAssumption DEF WorldOK
<1> QED
  BY <1>1 DEF Fault

\* Faults are never taken back.
LEMMA FaultsOnlyGrow ==
  ASSUME WorldOK, Next PROVE faults' = faults \/ faults' = faults + 1
<1>1. Fault => faults' = faults + 1
  BY FaultCounts
<1>2. CASE Start \/ Tick \/ PressureHandover \/ Crash \/ Drain
  BY <1>1, <1>2 DEF Start, Tick, PressureHandover, Crash, Drain, CollectBundles, NoteAsked,
     PassOver, DispatchDrain, SendDrain, DrainFails, MarkAsked
<1>3. CASE Close
  BY <1>3 DEF Close, NoteExit, PassOverExit, DispatchExit, TypeExit, ExitRefused,
     EnterExit, MarkExit
<1>4. CASE Launch
  BY <1>1, <1>4 DEF Launch, AllExited, StillWaiting, LaunchFails, LaunchCreates,
     LaunchTimesOut, LaunchReports, LaunchedDead
<1>5. CASE Probe \/ Finish \/ Keys
  BY <1>1, <1>5 DEF Probe, Unanswered, ReplacementLost, ReplacementPending,
     ReplacementTakesOver, Finish, HandedOver, StopFails, Keys, NoKey, HandoverKey,
     TeardownKey, Stop
<1>6. CASE OldAgent \/ Successor
  BY <1>1, <1>6 DEF OldAgent, AgentMoves, TurnStarts, TurnEnds, Exits, Leaves, Dies,
     WritesBundle, Successor, Boots, Accepts, AcceptsAgain, SessionDies
<1> QED
  BY <1>2, <1>3, <1>4, <1>5, <1>6 DEF Next

\* What the Governess is held to where it launches: the handover is on, and
\* so it knows no session yet.
LEMMA LaunchHoldsNone ==
  ASSUME Shape, gov.pc = "launch" PROVE \A s \in Sessions : ~Held(s)
  BY DEF Held, Shape, RunsOK, ProcessOK, Driving

\* The session of a launched handover is kept.
LEMMA LaunchedIsKept ==
  ASSUME Shape, Next, faults' = faults, NEW s \in Sessions, sess[s] # "dead",
         gov.pc # "down", gov.st.mode = "launched", gov.st.session = s
  PROVE  Held(s)'
<1> USE DEF Shape
<1>1. gov.pc \notin Driving /\ gov.pc \notin {"launch", "spawned"}
  BY DEF RunsOK, ProcessOK, Driving
<1>2. ~Fault
  BY FaultCounts
<1>3. CASE gov.pc = "ended"
  BY <1>3, EndStep DEF Held
<1>4. CASE gov'.st = gov.st /\ gov'.pc # "down"
  BY <1>4 DEF Held
<1>5. CASE HandedOver \/ TeardownKey
  <2>1. gov' = Down("ended")
    BY <1>5 DEF HandedOver, TeardownKey, Stop
  <2>2. gov'.pc = "ended"
    BY <2>1 DEF Down
  <2> QED
    BY <2>2 DEF Held
<1>6. CASE Tick \/ NoKey
  <2>1. gov'.st = gov.st /\ gov'.pc # "down"
    BY <1>6 DEF Tick, NoKey, Entry, Go, RunsOK, ProcessOK, Process
  <2> QED
    BY <1>4, <2>1
<1>7. CASE ReplacementPending \/ ReplacementTakesOver
  <2>1. gov'.st = gov.st /\ gov'.pc # "down"
    BY <1>7 DEF ReplacementPending, ReplacementTakesOver, SaveAndGo, Rest, RunsOK,
       ProcessOK, Process
  <2> QED
    BY <1>4, <2>1
<1>8. CASE OldAgent \/ Successor
  <2>1. UNCHANGED gov
    BY <1>8 DEF OldAgent, AgentMoves, TurnStarts, TurnEnds, Exits, Leaves, Dies,
       WritesBundle, Successor, Boots, Accepts, AcceptsAgain, SessionDies
  <2> QED
    BY <1>4, <2>1
<1>9. ~Start /\ ~PressureHandover /\ ~Crash /\ ~Unanswered /\ ~ReplacementLost
      /\ ~StopFails /\ ~HandoverKey
  BY <1>1, <1>2 DEF Start, PressureHandover, Crash, Unanswered, ReplacementLost, StopFails,
     HandoverKey, Driving
<1>10. ~Drain /\ ~Close /\ ~Launch
  BY <1>1 DEF Driving, Drain, CollectBundles, NoteAsked, PassOver, DispatchDrain, SendDrain,
     DrainFails, MarkAsked, Close, NoteExit, PassOverExit, DispatchExit, TypeExit,
     ExitRefused, EnterExit, MarkExit, Launch, AllExited, StillWaiting, LaunchFails,
     LaunchCreates, LaunchTimesOut, LaunchReports, LaunchedDead
<1> QED
  BY <1>5, <1>6, <1>7, <1>8, <1>9, <1>10 DEF Next, Probe, Finish, Keys

\* So is the session that was just launched.
LEMMA SpawnedIsKept ==
  ASSUME Shape, Next, faults' = faults, NEW s \in Sessions, sess[s] # "dead",
         gov.pc = "spawned", gov.new = s
  PROVE  Held(s)'
<1> USE DEF Shape
<1>1. ~Fault
  BY FaultCounts
<1>2. CASE LaunchReports
  <2>1. gov'.st = [gov.st EXCEPT !.mode = "launched", !.session = gov.new]
        /\ gov'.pc # "down"
    BY <1>2 DEF LaunchReports, SaveAndGo, Rest, RunsOK, ProcessOK, Process
  <2> QED
    BY <2>1 DEF Held, RunsOK, ProcessOK, RunStateOK, RunState
<1>3. CASE UNCHANGED gov
  BY <1>3 DEF Held
<1>4. LaunchReports \/ OldAgent \/ Successor
  <2>1. ~Start /\ ~Tick /\ ~PressureHandover /\ ~Crash /\ ~Probe /\ ~Finish /\ ~Keys
    BY <1>1 DEF Start, Tick, PressureHandover, Crash, Probe, Unanswered, ReplacementLost,
       ReplacementPending, ReplacementTakesOver, Finish, HandedOver, StopFails, Keys, NoKey,
       HandoverKey, TeardownKey
  <2>2. ~Drain /\ ~Close
    BY DEF Drain, CollectBundles, NoteAsked, PassOver, DispatchDrain, SendDrain,
       DrainFails, MarkAsked, Close, NoteExit, PassOverExit, DispatchExit, TypeExit,
       ExitRefused, EnterExit, MarkExit
  <2>3. Launch => LaunchReports
    BY <1>1 DEF Launch, AllExited, StillWaiting, LaunchFails, LaunchCreates,
       LaunchTimesOut, LaunchReports, LaunchedDead
  <2> QED
    BY <2>1, <2>2, <2>3 DEF Next
<1>5. OldAgent \/ Successor => UNCHANGED gov
  BY DEF OldAgent, AgentMoves, TurnStarts, TurnEnds, Exits, Leaves, Dies, WritesBundle,
     Successor, Boots, Accepts, AcceptsAgain, SessionDies
<1> QED
  BY <1>2, <1>3, <1>4, <1>5

\* How a session comes to be.
LEMMA SessionsStep ==
  ASSUME Shape, Next
  PROVE  (\A s \in Sessions : Live(s)' => Live(s)) \/ \E s \in Sessions : LaunchCreates(s)
<1> USE DEF Shape
<1>1. CASE Successor
  BY <1>1 DEF Successor, Boots, Accepts, AcceptsAgain, SessionDies, WorldOK, Live
<1>2. CASE UNCHANGED sess
  BY <1>2 DEF Live
<1>3. UNCHANGED sess \/ Successor \/ \E s \in Sessions : LaunchCreates(s)
  <2>1. CASE Start \/ Tick \/ PressureHandover \/ Crash \/ Drain
    BY <2>1 DEF Start, Tick, PressureHandover, Crash, Drain, CollectBundles, NoteAsked,
       PassOver, DispatchDrain, SendDrain, DrainFails, MarkAsked, successor
  <2>2. CASE Close
    BY <2>2 DEF Close, NoteExit, PassOverExit, DispatchExit, TypeExit, ExitRefused,
       EnterExit, MarkExit, successor
  <2>3. CASE Launch
    BY <2>3 DEF Launch, AllExited, StillWaiting, LaunchFails, LaunchTimesOut,
       LaunchReports, LaunchedDead, successor
  <2>4. CASE Probe \/ Finish \/ Keys
    BY <2>4 DEF Probe, Unanswered, ReplacementLost, ReplacementPending,
       ReplacementTakesOver, Finish, HandedOver, StopFails, Keys, NoKey, HandoverKey,
       TeardownKey, Stop, successor
  <2>5. CASE OldAgent
    BY <2>5 DEF OldAgent, AgentMoves, TurnStarts, TurnEnds, Exits, Leaves, Dies,
       WritesBundle, successor
  <2> QED
    BY <2>1, <2>2, <2>3, <2>4, <2>5 DEF Next
<1> QED
  BY <1>1, <1>2, <1>3

\* A step that fails nothing keeps the replacement that the Governess knows.
LEMMA HeldIsKept ==
  ASSUME Shape, Next, faults' = faults, NEW s \in Sessions, Held(s), sess[s] # "dead"
  PROVE  Held(s)'
<1>1. CASE gov.pc = "ended"
  BY <1>1, EndStep DEF Held
<1> QED
  BY <1>1, LaunchedIsKept, SpawnedIsKept DEF Held

\* A launch adds the one that it has in hand; a failure makes at most that one a stray.
LEMMA StraysStep ==
  ASSUME Shape, StraysCounted, Next PROVE StraysCounted'
<1>1. faults \in Nat /\ (faults' = faults \/ faults' = faults + 1)
  <2>1. faults' = faults \/ faults' = faults + 1
    BY FaultsOnlyGrow DEF Shape
  <2>2. faults \in 0..MaxFaults /\ MaxFaults \in Nat
    BY HandoverAssumption DEF Shape, WorldOK
  <2> QED
    BY <2>1, <2>2
<1>2. /\ IsFiniteSet(Living) /\ IsFiniteSet(Strays) /\ Strays \in SUBSET Living
      /\ Cardinality(Living) \in Nat /\ Cardinality(Strays) \in Nat
  BY FS_Subset, FS_CardinalityType DEF StraysCounted, Strays
<1>3. ASSUME NEW n \in Sessions, LaunchCreates(n) PROVE StraysCounted'
  <2>1. Strays = Living
    BY <1>3, LaunchHoldsNone DEF Strays, Living, LaunchCreates
  <2>2. /\ sess' = [sess EXCEPT ![n] = "starting"] /\ gov'.pc = "spawned" /\ gov'.new = n
        /\ faults' = faults
    BY <1>3 DEF LaunchCreates, Shape, RunsOK, ProcessOK, Process
  <2>3. Living' \in SUBSET (Living \cup {n})
    BY <2>2 DEF Living, Live, Shape, WorldOK
  <2>4. IsFiniteSet(Living \cup {n}) /\ Cardinality(Living \cup {n}) <= Cardinality(Living) + 1
    BY <1>2, FS_AddElement
  <2>5. IsFiniteSet(Living') /\ Cardinality(Living') <= Cardinality(Living \cup {n})
    BY <2>3, <2>4, FS_Subset
  <2>6. Strays' \in SUBSET Strays
    BY <2>1, <2>2, <2>3 DEF Strays, Held
  <2>7. Cardinality(Strays') <= Cardinality(Strays)
    BY <1>2, <2>6, FS_Subset
  <2>8. Cardinality(Living') \in Nat /\ Cardinality(Living \cup {n}) \in Nat
        /\ Cardinality(Strays') \in Nat
    BY <1>2, <2>4, <2>5, <2>6, FS_CardinalityType, FS_Subset
  <2> QED
    BY <1>1, <1>2, <2>1, <2>2, <2>4, <2>5, <2>7, <2>8 DEF StraysCounted
<1>4. ASSUME \A s \in Sessions : Live(s)' => Live(s) PROVE StraysCounted'
  <2>1. Living' \in SUBSET Living /\ Strays' \in SUBSET Living'
    BY <1>4 DEF Living, Strays
  <2>2. /\ IsFiniteSet(Living') /\ Cardinality(Living') <= Cardinality(Living)
        /\ Cardinality(Living') \in Nat
    BY <1>2, <2>1, FS_Subset, FS_CardinalityType
  <2>3. CASE faults' = faults
    <3>1. Strays' \in SUBSET Strays
      BY <2>1, <2>3, HeldIsKept DEF Strays, Living, Live
    <3>2. Cardinality(Strays') <= Cardinality(Strays) /\ Cardinality(Strays') \in Nat
      BY <1>2, <3>1, FS_Subset, FS_CardinalityType
    <3> QED
      BY <1>1, <1>2, <2>2, <2>3, <3>2 DEF StraysCounted
  <2>4. CASE faults' = faults + 1
    <3>1. Cardinality(Strays') <= Cardinality(Living') /\ Cardinality(Strays') \in Nat
      BY <2>1, <2>2, FS_Subset, FS_CardinalityType
    <3> QED
      BY <1>1, <1>2, <2>2, <2>4, <3>1 DEF StraysCounted
  <2> QED
    BY <1>1, <2>3, <2>4
<1> QED
  BY <1>3, <1>4, SessionsStep

\* A handover has one replacement and at most one more for each failure on the way, for any agents,
\* names of sessions, turns, faults and restarts of a Governess.
THEOREM OneReplacement == Spec => []OneReplacementPerFault
<1>1. Init => StraysCounted
  <2> SUFFICES ASSUME Init PROVE StraysCounted
    OBVIOUS
  <2>1. Living = {} /\ Strays = {} /\ faults = 0
    BY DEF Init, Living, Strays, Live
  <2> QED
    BY <2>1, FS_EmptySet DEF StraysCounted
<1>2. Shape /\ StraysCounted /\ [Next]_vars => StraysCounted'
  <2>1. CASE UNCHANGED vars
    BY <2>1 DEF vars, successor, StraysCounted, Strays, Living, Live, Held
  <2> QED
    BY <2>1, StraysStep
<1>3. StraysCounted => OneReplacementPerFault
  BY DEF StraysCounted, Living, OneReplacementPerFault
<1> QED
  BY <1>1, <1>2, <1>3, Shaped, PTL DEF Spec
=============================================================================
