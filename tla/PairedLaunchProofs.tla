------------------------- MODULE PairedLaunchProofs -------------------------
(***************************************************************************)
(* One owner for a workspace and an account of every app server, for any   *)
(* number of launchers, runs and crashes; and, of the Claude process that  *)
(* a launched loop talks to, that each turn gets its own answer.           *)
(***************************************************************************)
EXTENDS PairedLaunch, SequenceTheorems, WellFoundedInduction, TLAPS

\* Before a launcher has a run, and from then until it ends.
Before == {"start", "sweep", "repair", "settle", "lock", "scan"}
Launching == {"task", "prepare", "write", "probe", "serve", "record", "proxy", "create",
              "panes", "catch", "fail", "failed", "handoff", "attached", "cancel"}
\* Where it may still create the session of its run.
Creating == {"task", "prepare", "write", "probe", "serve", "record", "proxy", "create"}

Copies == Manifests \cup {Nobody} \cup [Runs -> Manifests \cup {Nobody}]
Memory == [want : Runs \cup {New}, sees : SUBSET Runs, todo : SUBSET Runs, copy : Copies,
           run : Runs \cup {0}, kind : {"none", "new", "attach", "cold"},
           mine : BOOLEAN, holds : BOOLEAN]

\* The types, and what they do not say of the runs a launcher has in mind.
Types ==
  /\ man \in [Runs -> Manifests \cup {Nobody}]
  /\ tmux \in SUBSET Runs /\ (\A r \in tmux : Exists(r)) /\ resumed \in SUBSET Runs
  /\ lock \in Launchers \cup {Nobody}
  /\ server \in [Launchers -> {"none", "up", "closed"}]
  /\ at \in [Launchers -> Before \cup Launching \cup {"out", "handed", "crashed"}]
  /\ mem \in [Launchers -> Memory]
MindOf(l) ==
  LET m == mem[l]
  IN  /\ at[l] \in Before => m.kind = "none" /\ server[l] # "up"
      /\ at[l] \in Launching \cup {"handed"} => m.kind # "none"
      /\ m.kind # "none" => m.run \in Runs /\ Exists(m.run)
      /\ m.kind \in {"attach", "cold"} => m.run \in resumed
      /\ at[l] \in Before => m.want = New \/ Exists(m.want)
      /\ at[l] = "sweep" => \A r \in m.todo : Exists(r)
      /\ at[l] \in {"repair", "settle"} =>
           m.run \in Runs /\ Exists(m.run) /\ m.copy \in Manifests
           /\ \A r \in m.todo : Exists(r)
      /\ at[l] = "settle" => m.copy.transport # Nobody
      /\ at[l] = "scan" => /\ m.copy \in [Runs -> Manifests \cup {Nobody}]
                           /\ m.want # New => m.copy[m.want] # Nobody
      /\ at[l] = "write" => m.copy \in Manifests
      /\ server[l] = "up" => m.kind # "none"
Minds == \A l \in Launchers : MindOf(l)
Shape == LaunchAssumption /\ Types /\ Minds

-----------------------------------------------------------------------------
(* Types                                                                   *)

\* The shape at the start.
LEMMA ShapeInit == LaunchAssumption /\ Init => Shape
<1> SUFFICES ASSUME LaunchAssumption, Init PROVE Shape
  OBVIOUS
<1>1. PICK l \in Launchers, old \in BOOLEAN, s \in {"failed", "submitted"} :
        man = [r \in Runs |-> IF old /\ r = First
                              THEN [Earlier(l) EXCEPT !.state = s] ELSE Nobody]
  BY DEF Init
<1>2. [Earlier(l) EXCEPT !.state = s] \in Manifests
  BY DEF Earlier, Manifests, Active
<1>3. man \in [Runs -> Manifests \cup {Nobody}]
  BY <1>1, <1>2
<1>4. Empty \in Memory
  BY DEF Empty, Memory, Copies
<1>5. Types
  BY <1>3, <1>4 DEF Types, Init, Before
<1>6. Minds
  BY DEF Minds, MindOf, Init, Empty, Before, Launching
<1> QED
  BY <1>5, <1>6 DEF Shape

\* Of some runs there is a first.
LEMMA Least ==
  ASSUME LaunchAssumption, NEW T \in SUBSET Runs, T # {}
  PROVE  \E r \in T : \A q \in T : r <= q
<1>1. T \subseteq Nat
  BY DEF LaunchAssumption
<1>2. PICK r \in T : \A q \in T : ~(<<q, r>> \in OpToRel(<, Nat))
  BY <1>1, WFMin, NatLessThanWellFounded
<1>3. \A q \in T : ~(q < r)
  BY <1>1, <1>2 DEF OpToRel
<1> QED
  BY <1>1, <1>3

\* The index that a reservation takes is free.
LEMMA NextRunIsFree ==
  ASSUME Shape, \E r \in Runs : ~Exists(r)
  PROVE  NextRun \in Runs /\ ~Exists(NextRun)
<1> DEFINE U == {r \in Runs : ~Exists(r)}
<1>1. \E r \in U : \A q \in U : r <= q
  BY Least DEF Shape
<1> QED
  BY <1>1 DEF NextRun

\* A manifest is updated to another one.
LEMMA UpdateShape ==
  ASSUME Shape, NEW r \in Runs, NEW m \in Manifests, Update(r, m)
  PROVE  /\ man' \in [Runs -> Manifests \cup {Nobody}]
         /\ man'[r] = m /\ \A q \in Runs : q # r => man'[q] = man[q]
         /\ \A q \in Runs : Exists(q) => Exists(q)'
BY DEF Shape, Types, Update, Exists, LaunchAssumption

\* The launcher looks at the first of the runs it has left.
LEMMA InspectEffect ==
  ASSUME Shape, NEW l \in Launchers, Inspect(l)
  PROVE  \E r \in mem[l].todo :
           /\ r \in Runs /\ man[r] \in Manifests /\ Exists(r)
           /\ mem' = [mem EXCEPT ![l].todo = @ \ {r}, ![l].run = r, ![l].copy = man[r]]
           /\ Goes(l, IF ~(Abandoned(man[r], r, mem[l].sees)) THEN "sweep"
                      ELSE IF man[r].state \in Active THEN "repair"
                      ELSE IF man[r].transport # Nobody THEN "settle" ELSE "sweep")
<1>1. /\ mem[l].todo \in SUBSET Runs /\ mem[l].todo # {}
      /\ \A r \in mem[l].todo : Exists(r)
  BY DEF Shape, Types, Minds, MindOf, Memory, Inspect
<1>2. PICK r \in mem[l].todo :
        r = CHOOSE q \in mem[l].todo : \A p \in mem[l].todo : q <= p
  BY <1>1, Least DEF Shape
<1>3. r \in Runs /\ man[r] \in Manifests /\ Exists(r)
  BY <1>1, <1>2 DEF Shape, Types, Exists
<1> QED
  BY <1>2, <1>3 DEF Inspect

\* What a launcher does before it decides.
LEMMA SweepTypes ==
  ASSUME Shape, NEW l \in Launchers,
         \/ ListSessions(l) \/ Inspect(l) \/ Repair(l) \/ Settle(l) \/ SweptAll(l)
         \/ Lock(l) \/ LockBusy(l)
  PROVE  Types' /\ (\A r \in Runs : Exists(r) => Exists(r)')
<1>1. mem[l] \in Memory /\ MindOf(l)
  BY DEF Shape, Types, Minds
<1>2. CASE ListSessions(l)
  <2>1. PICK want \in {New} \cup {r \in Runs : Exists(r)}, known \in BOOLEAN :
       mem' = [mem EXCEPT ![l].want = want, ![l].todo = {r \in Runs : Exists(r)},
                          ![l].sees = IF known THEN tmux ELSE Runs]
    BY <1>2 DEF ListSessions
  <2>2. mem' \in [Launchers -> Memory]
    BY <1>1, <2>1 DEF Shape, Types, Memory
  <2> QED
    BY <1>2, <2>2 DEF ListSessions, Goes, Shape, Types, Before, Exists
<1>3. CASE Inspect(l)
  <2>1. PICK r \in mem[l].todo :
          /\ r \in Runs /\ man[r] \in Manifests
          /\ mem' = [mem EXCEPT ![l].todo = @ \ {r}, ![l].run = r, ![l].copy = man[r]]
          /\ Goes(l, IF ~(Abandoned(man[r], r, mem[l].sees)) THEN "sweep"
                     ELSE IF man[r].state \in Active THEN "repair"
                     ELSE IF man[r].transport # Nobody THEN "settle" ELSE "sweep")
    BY <1>3, InspectEffect
  <2>2. mem' \in [Launchers -> Memory]
    BY <1>1, <2>1, ZenonT(60) DEF Shape, Types, Memory, Copies
  <2>3. at' \in [Launchers -> Before \cup Launching \cup {"out", "handed", "crashed"}]
    BY <2>1 DEF Shape, Types, Goes, Before
  <2> QED
    BY <1>3, <2>2, <2>3 DEF Inspect, Shape, Types, Exists
<1>4. CASE Repair(l) \/ Settle(l)
  <2>1. MyRun(l) \in Runs /\ man[MyRun(l)] \in Manifests /\ mem[l].copy \in Manifests
    BY <1>1, <1>4 DEF MindOf, MyRun, Repair, Settle, Exists, Shape, Types
  <2>2. CASE Repair(l)
    <3>1. [man[MyRun(l)] EXCEPT !.state = "failed"] \in Manifests
      BY <2>1 DEF Manifests
    <3> QED
      BY <2>1, <2>2, <3>1, UpdateShape DEF Repair, Goes, Shape, Types, Before
  <2>3. CASE Settle(l)
    <3>1. [man[MyRun(l)] EXCEPT !.transport = Nobody] \in Manifests
      BY <2>1 DEF Manifests
    <3> QED
      BY <2>1, <2>3, <3>1, UpdateShape DEF Settle, Goes, Shape, Types, Before
  <2> QED
    BY <1>4, <2>2, <2>3
<1>5. CASE SweptAll(l)
  <2>1. mem' \in [Launchers -> Memory]
    BY <1>1, <1>5 DEF SweptAll, Shape, Types, Memory, Copies
  <2> QED
    BY <1>5, <2>1 DEF SweptAll, Goes, Shape, Types, Before, Exists
<1>6. CASE Lock(l)
  <2>1. mem' \in [Launchers -> Memory]
    BY <1>1, <1>6 DEF Lock, Shape, Types, Memory, Copies
  <2> QED
    BY <1>6, <2>1 DEF Lock, Goes, Shape, Types, Before, Exists
<1>7. CASE LockBusy(l)
  BY <1>7 DEF LockBusy, Goes, Shape, Types, Before, Exists
<1> QED
  BY <1>2, <1>3, <1>4, <1>5, <1>6, <1>7

\* What is decided under the lock.
LEMMA DecideTypes ==
  ASSUME Shape, NEW l \in Launchers, Decide(l)
  PROVE  Types' /\ (\A r \in Runs : Exists(r) => Exists(r)')
<1>1. mem[l] \in Memory /\ MindOf(l) /\ at[l] = "scan"
  BY DEF Shape, Types, Minds, Decide
<1>2. /\ mem[l].copy \in [Runs -> Manifests \cup {Nobody}]
      /\ mem[l].want # New => mem[l].want \in Runs /\ mem[l].copy[mem[l].want] \in Manifests
  BY <1>1 DEF MindOf, Memory
<1>3. PICK live : Refuse(l, live) \/ ReserveNew(l, live) \/ ReserveRequested(l, live)
  BY DEF Decide
<1>4. lock' \in Launchers \cup {Nobody} /\ UNCHANGED <<tmux, server>>
  BY DEF Decide, Shape, Types
<1>5. CASE Refuse(l, live)
  <2>1. mem' \in [Launchers -> Memory]
    BY <1>1, <1>5 DEF Refuse, Shape, Types, Memory, Copies
  <2> QED
    BY <1>4, <1>5, <2>1 DEF Refuse, Goes, Shape, Types, Before, Exists
<1>6. CASE ReserveNew(l, live)
  <2>1. NextRun \in Runs
    BY <1>6, NextRunIsFree DEF ReserveNew
  <2>2. [state |-> "submitted", attempt |-> l, pid |-> l, session |-> FALSE,
         transport |-> Nobody, place |-> Place[l]] \in Manifests
    BY DEF Manifests, Active
  <2>3. mem' \in [Launchers -> Memory]
    BY <1>1, <1>6, <2>1 DEF ReserveNew, Claims, Shape, Types, Memory, Copies
  <2> QED
    BY <1>4, <1>6, <2>1, <2>2, <2>3, UpdateShape
       DEF ReserveNew, Goes, Shape, Types, Launching
<1>7. CASE ReserveRequested(l, live)
  <2>1. [mem[l].copy[mem[l].want] EXCEPT !.attempt = l] \in Manifests
    BY <1>2, <1>7 DEF ReserveRequested, Manifests
  <2>2. mem' \in [Launchers -> Memory]
    BY <1>1, <1>2, <1>7 DEF ReserveRequested, Claims, Shape, Types, Memory, Copies
  <2>3. man' \in [Runs -> Manifests \cup {Nobody}] /\ \A r \in Runs : Exists(r) => Exists(r)'
    BY <1>2, <1>7, <2>1, UpdateShape DEF ReserveRequested, Shape, Types, Exists
  <2> QED
    BY <1>2, <1>4, <1>7, <2>2, <2>3 DEF ReserveRequested, Goes, Shape, Types, Launching
<1> QED
  BY <1>1, <1>3, <1>5, <1>6, <1>7 DEF Creating, Launching

\* A launcher with a run of its own updates that, and goes on.
LEMMA LaunchTypes ==
  ASSUME Shape, NEW l \in Launchers,
         \/ ResolveTask(l) \/ ReadPrepared(l) \/ WritePrepared(l) \/ Probe(l) \/ Serve(l)
         \/ Record(l) \/ StartProxy(l) \/ Create(l) \/ Panes(l) \/ Catch(l) \/ Fail(l)
         \/ Failed(l) \/ HandOff(l) \/ Detach(l) \/ Cancel(l)
  PROVE  Types' /\ (\A r \in Runs : Exists(r) => Exists(r)')
<1>1. mem[l] \in Memory /\ MindOf(l)
  BY DEF Shape, Types, Minds
<1>2. at[l] \in Launching
  BY DEF ResolveTask, ReadPrepared, WritePrepared, Probe, Serve, Record, StartProxy, Create,
     Panes, Catch, Fail, Failed, HandOff, Detach, Cancel, Launching
<1>3. /\ MyRun(l) \in Runs /\ man[MyRun(l)] \in Manifests /\ Exists(MyRun(l))
      /\ at[l] = "write" => mem[l].copy \in Manifests
  BY <1>1, <1>2 DEF MindOf, MyRun, Exists, Shape, Types
<1>4. ASSUME NEW m \in Manifests, Update(MyRun(l), m)
      PROVE  /\ man' \in [Runs -> Manifests \cup {Nobody}]
             /\ \A r \in Runs : Exists(r) => Exists(r)'
  BY <1>3, <1>4, UpdateShape
<1>5. ASSUME \/ mem' = mem
              \/ \E b \in BOOLEAN : mem' = [mem EXCEPT ![l].holds = b]
              \/ mem' = [mem EXCEPT ![l].mine = TRUE]
              \/ mem' = [mem EXCEPT ![l].copy = man[MyRun(l)]]
       PROVE  mem' \in [Launchers -> Memory]
  <2>1. CASE mem' = mem
    BY <2>1 DEF Shape, Types
  <2>2. ASSUME NEW b \in BOOLEAN, mem' = [mem EXCEPT ![l].holds = b]
        PROVE  mem' \in [Launchers -> Memory]
    BY <1>1, <2>2 DEF Shape, Types, Memory
  <2>3. CASE mem' = [mem EXCEPT ![l].mine = TRUE]
    BY <1>1, <2>3 DEF Shape, Types, Memory
  <2>4. CASE mem' = [mem EXCEPT ![l].copy = man[MyRun(l)]]
    BY <1>1, <1>3, <2>4 DEF Shape, Types, Memory, Copies
  <2> QED
    BY <1>5, <2>1, <2>2, <2>3, <2>4
<1>6. CASE ResolveTask(l)
  BY <1>6 DEF ResolveTask, Goes, Shape, Types, Launching, Exists
<1>7. CASE ReadPrepared(l)
  <2>1. mem' \in [Launchers -> Memory]
    BY <1>7, <1>5 DEF ReadPrepared
  <2> QED
    BY <1>7, <2>1 DEF ReadPrepared, Goes, Shape, Types, Launching, Exists
<1>8. CASE WritePrepared(l)
  <2>1. [mem[l].copy EXCEPT !.pid = l,
           !.state = IF mem[l].copy.state \in Active THEN mem[l].copy.state ELSE "submitted"]
          \in Manifests
    BY <1>3, <1>8 DEF WritePrepared, Manifests, Active
  <2>2. mem' \in [Launchers -> Memory]
    BY <1>1, <1>8 DEF WritePrepared, Shape, Types, Memory, Copies
  <2> QED
    BY <1>4, <1>8, <2>1, <2>2 DEF WritePrepared, Goes, Shape, Types, Launching
<1>9. CASE Probe(l)
  <2>1. [man[MyRun(l)] EXCEPT !.pid = l, !.session = TRUE] \in Manifests
    BY <1>3 DEF Manifests
  <2> QED
    BY <1>4, <1>9, <2>1 DEF Probe, Goes, Shape, Types, Launching, Exists
<1>10. CASE Serve(l)
  <2>1. mem' \in [Launchers -> Memory]
    BY <1>10, <1>5 DEF Serve
  <2> QED
    BY <1>10, <2>1 DEF Serve, Goes, Shape, Types, Launching, Exists
<1>11. CASE Record(l)
  <2>1. [man[MyRun(l)] EXCEPT !.transport = l] \in Manifests
    BY <1>3 DEF Manifests
  <2> QED
    BY <1>4, <1>11, <2>1 DEF Record, Goes, Shape, Types, Launching
<1>12. \A closed \in BOOLEAN : Cleared(man[MyRun(l)], l, closed) \in Manifests
  BY <1>3 DEF Cleared, Manifests
<1>13. CASE StartProxy(l)
  <2>1. mem' \in [Launchers -> Memory]
    BY <1>13, <1>5 DEF StartProxy
  <2>2. /\ man' \in [Runs -> Manifests \cup {Nobody}]
        /\ \A r \in Runs : Exists(r) => Exists(r)'
    BY <1>4, <1>12, <1>13 DEF StartProxy, Shape, Types, Exists
  <2> QED
    BY <1>13, <2>1, <2>2 DEF StartProxy, Goes, Shape, Types, Launching
<1>14. CASE Create(l)
  <2>1. mem' \in [Launchers -> Memory]
    BY <1>14, <1>5 DEF Create
  <2> QED
    BY <1>3, <1>14, <2>1 DEF Create, Goes, Shape, Types, Launching, Exists
<1>15. CASE Panes(l)
  <2>1. mem' \in [Launchers -> Memory]
    BY <1>15, <1>5 DEF Panes
  <2>2. /\ [man[MyRun(l)] EXCEPT !.pid = l, !.session = TRUE,
              !.transport = IF mem[l].holds THEN l ELSE Nobody] \in Manifests
        /\ [man[MyRun(l)] EXCEPT !.state = IF @ \in Active THEN "input-required" ELSE @]
             \in Manifests
    BY <1>3, ZenonT(60) DEF Manifests, Active
  <2>3. /\ man' \in [Runs -> Manifests \cup {Nobody}]
        /\ \A r \in Runs : Exists(r) => Exists(r)'
    BY <1>4, <1>15, <2>2 DEF Panes, Shape, Types, Exists
  <2> QED
    BY <1>15, <2>1, <2>3 DEF Panes, Goes, Shape, Types, Launching
<1>16. CASE Catch(l)
  <2>1. mem' \in [Launchers -> Memory]
    BY <1>16, <1>5 DEF Catch, LetGo
  <2>2. /\ man' \in [Runs -> Manifests \cup {Nobody}]
        /\ \A r \in Runs : Exists(r) => Exists(r)'
    BY <1>4, <1>12, <1>16 DEF Catch, Shape, Types, Exists
  <2> QED
    BY <1>16, <2>1, <2>2 DEF Catch, Closes, Goes, Shape, Types, Launching
<1>17. CASE Fail(l)
  BY <1>17 DEF Fail, Closes, Goes, Shape, Types, Launching, Exists
<1>18. CASE Failed(l)
  <2>1. PICK m \in Manifests : m = Cleared(man[MyRun(l)], l, server[l] = "closed")
    BY <1>12
  <2>2. [m EXCEPT !.state = IF @ \in Active THEN "failed" ELSE @] \in Manifests
    BY DEF Manifests
  <2>3. /\ man' \in [Runs -> Manifests \cup {Nobody}]
        /\ \A r \in Runs : Exists(r) => Exists(r)'
    BY <1>4, <1>18, <2>1, <2>2 DEF Failed
  <2> QED
    BY <1>18, <2>3 DEF Failed, Goes, Shape, Types, Launching
<1>19. CASE HandOff(l) \/ Detach(l)
  <2>1. mem' \in [Launchers -> Memory]
    BY <1>19, <1>5 DEF HandOff, Detach, LetGo
  <2> QED
    BY <1>19, <2>1 DEF HandOff, Detach, Goes, Shape, Types, Launching, Exists
<1>20. CASE Cancel(l)
  <2>1. ASSUME NEW s \in {"failed", man[MyRun(l)].state}
        PROVE  [man[MyRun(l)] EXCEPT !.attempt = Nobody, !.state = s] \in Manifests
    BY <1>3 DEF Manifests
  <2>2. /\ man' \in [Runs -> Manifests \cup {Nobody}]
        /\ \A r \in Runs : Exists(r) => Exists(r)'
    BY <1>4, <1>20, <2>1 DEF Cancel, Shape, Types, Exists
  <2> QED
    BY <1>20, <2>2 DEF Cancel, Goes, Shape, Types, Launching
<1> QED
  BY <1>6, <1>7, <1>8, <1>9, <1>10, <1>11, <1>13, <1>14, <1>15, <1>16, <1>17, <1>18, <1>19, <1>20

\* The types are kept.
LEMMA TypesStep ==
  ASSUME Shape, [Next]_vars
  PROVE  Types' /\ (\A r \in Runs : Exists(r) => Exists(r)')
<1>1. ASSUME NEW l \in Launchers, Step(l)
      PROVE  Types' /\ (\A r \in Runs : Exists(r) => Exists(r)')
  <2>1. CASE \/ ListSessions(l) \/ Inspect(l) \/ Repair(l) \/ Settle(l) \/ SweptAll(l)
             \/ Lock(l) \/ LockBusy(l)
    BY <2>1, SweepTypes
  <2>2. CASE Decide(l)
    BY <2>2, DecideTypes
  <2>3. CASE \/ ResolveTask(l) \/ ReadPrepared(l) \/ WritePrepared(l) \/ Probe(l) \/ Serve(l)
             \/ Record(l) \/ StartProxy(l) \/ Create(l) \/ Panes(l) \/ Catch(l) \/ Fail(l)
             \/ Failed(l) \/ HandOff(l) \/ Detach(l) \/ Cancel(l)
    BY <2>3, LaunchTypes
  <2> QED
    BY <1>1, <2>1, <2>2, <2>3 DEF Step
<1>2. ASSUME NEW l \in Launchers, Crash(l)
      PROVE  Types' /\ (\A r \in Runs : Exists(r) => Exists(r)')
  BY <1>2 DEF Crash, Goes, Shape, Types, Exists
<1>3. ASSUME NEW r \in Runs, SessionEnds(r)
      PROVE  Types' /\ (\A q \in Runs : Exists(q) => Exists(q)')
  <2>1. CASE man' = man
    BY <1>3, <2>1 DEF SessionEnds, Shape, Types, Exists
  <2>2. CASE Update(r, [man[r] EXCEPT !.state = "completed"])
    <3>1. CASE man[r] \in Manifests
      <4>1. [man[r] EXCEPT !.state = "completed"] \in Manifests
        BY <3>1 DEF Manifests
      <4> QED
        BY <1>3, <2>2, <4>1, UpdateShape DEF SessionEnds, Shape, Types
    <3>2. CASE man[r] = Nobody
      BY <1>3, <3>2 DEF SessionEnds, Shape, Types, Exists
    <3> QED
      BY <3>1, <3>2 DEF Shape, Types
  <2> QED
    BY <1>3, <2>1, <2>2 DEF SessionEnds
<1>4. CASE UNCHANGED vars
  BY <1>4 DEF vars, Shape, Types, Exists
<1> QED
  BY <1>1, <1>2, <1>3, <1>4 DEF Next

-----------------------------------------------------------------------------
(* What one launcher does to the others.                                   *)

\* One launcher moves no other; at most it closes the app server of one.
LEMMA Others ==
  ASSUME Shape, NEW l \in Launchers, Step(l) \/ Crash(l), NEW k \in Launchers, k # l
  PROVE  /\ at'[k] = at[k] /\ mem'[k] = mem[k]
         /\ server'[k] = server[k] \/ server'[k] = "closed"
<1>1. CASE Crash(l)
  BY <1>1 DEF Crash, Goes, Shape, Types
<1>2. CASE Step(l)
  <2>1. at'[k] = at[k]
    BY <1>2 DEF Step, Shape, Types, Goes, ListSessions, Inspect, Repair, Settle, SweptAll,
       Lock, LockBusy, Decide, Refuse, ReserveNew, ReserveRequested, ResolveTask,
       ReadPrepared, WritePrepared, Probe, Serve, Record, StartProxy, Create, Panes, Catch,
       Fail, Failed, HandOff, Detach, Cancel
  <2>2. mem'[k] = mem[k]
    BY <1>2 DEF Step, Shape, Types, LetGo, Claims, ListSessions, Inspect, Repair, Settle,
       SweptAll, Lock, LockBusy, Decide, Refuse, ReserveNew, ReserveRequested, ResolveTask,
       ReadPrepared, WritePrepared, Probe, Serve, Record, StartProxy, Create, Panes, Catch,
       Fail, Failed, HandOff, Detach, Cancel
  <2>3. server'[k] = server[k] \/ server'[k] = "closed"
    BY <1>2 DEF Step, Shape, Types, Closes, ListSessions, Inspect, Repair, Settle, SweptAll,
       Lock, LockBusy, Decide, Refuse, ReserveNew, ReserveRequested, ResolveTask,
       ReadPrepared, WritePrepared, Probe, Serve, Record, StartProxy, Create, Panes, Catch,
       Fail, Failed, HandOff, Detach, Cancel
  <2> QED
    BY <2>1, <2>2, <2>3
<1> QED
  BY <1>1, <1>2

\* A run that was resumed stays so.
LEMMA ResumedGrows == ASSUME Shape, [Next]_vars PROVE resumed \subseteq resumed'
<1>1. ASSUME NEW l \in Launchers, Step(l) PROVE resumed \subseteq resumed'
  BY <1>1 DEF Step, ListSessions, Inspect, Repair, Settle, SweptAll, Lock, LockBusy, Decide,
     Refuse, ReserveNew, ReserveRequested, ResolveTask, ReadPrepared, WritePrepared, Probe,
     Serve, Record, StartProxy, Create, Panes, Catch, Fail, Failed, HandOff, Detach, Cancel
<1> QED
  BY <1>1 DEF Next, Crash, SessionEnds, vars

\* What a launcher has in mind stays true of it ...
LEMMA OwnMind ==
  ASSUME Shape, Types', \A r \in Runs : Exists(r) => Exists(r)', resumed \subseteq resumed',
         NEW l \in Launchers, Step(l) \/ Crash(l)
  PROVE  MindOf(l)'
<1>1. mem[l] \in Memory /\ MindOf(l) /\ New \notin Runs /\ Runs \subseteq Nat \ {0}
  BY DEF Shape, Types, Minds, LaunchAssumption
<1>2. CASE Crash(l)
  BY <1>1, <1>2 DEF Crash, Goes, Shape, Types, MindOf, Memory, Before, Launching, Exists
<1>3. CASE ListSessions(l)
  <2>1. PICK want \in {New} \cup {r \in Runs : Exists(r)}, known \in BOOLEAN :
       mem'[l] = [mem[l] EXCEPT !.want = want, !.todo = {r \in Runs : Exists(r)},
                                !.sees = IF known THEN tmux ELSE Runs]
    BY <1>3 DEF ListSessions, Shape, Types
  <2>2. at[l] = "start" /\ at'[l] = "sweep" /\ UNCHANGED <<man, server>>
    BY <1>3 DEF ListSessions, Goes, Shape, Types
  <2> QED
    BY <1>1, <2>1, <2>2 DEF MindOf, Memory, Before, Launching, Exists
<1>4. CASE Inspect(l)
  <2>1. PICK r \in mem[l].todo :
          /\ r \in Runs /\ man[r] \in Manifests /\ Exists(r)
          /\ mem' = [mem EXCEPT ![l].todo = @ \ {r}, ![l].run = r, ![l].copy = man[r]]
          /\ Goes(l, IF ~(Abandoned(man[r], r, mem[l].sees)) THEN "sweep"
                     ELSE IF man[r].state \in Active THEN "repair"
                     ELSE IF man[r].transport # Nobody THEN "settle" ELSE "sweep")
    BY <1>4, InspectEffect
  <2>2. /\ at[l] = "sweep" /\ at'[l] \in {"sweep", "repair", "settle"}
        /\ at'[l] = "settle" => man[r].transport # Nobody
        /\ UNCHANGED <<man, server>>
    BY <1>4, <2>1 DEF Inspect, Goes, Shape, Types
  <2>3. mem'[l] = [mem[l] EXCEPT !.todo = @ \ {r}, !.run = r, !.copy = man[r]]
    BY <2>1 DEF Shape, Types
  <2>4. /\ mem[l].kind = "none" /\ server[l] # "up"
        /\ mem[l].want = New \/ Exists(mem[l].want)
        /\ \A q \in mem[l].todo : Exists(q)
    BY <1>1, <2>2 DEF MindOf, Before
  <2>5. /\ mem'[l].kind = "none" /\ mem'[l].want = mem[l].want /\ mem'[l].run = r
        /\ mem'[l].copy = man[r] /\ mem'[l].todo \subseteq mem[l].todo
    BY <1>1, <2>3, <2>4 DEF Memory
  <2> QED
    BY <1>1, <2>1, <2>2, <2>4, <2>5 DEF MindOf, Before, Launching, Exists
<1>5. CASE Repair(l) \/ Settle(l)
  <2>1. /\ at[l] \in {"repair", "settle"} /\ at'[l] \in {"sweep", "settle"} /\ mem' = mem
        /\ at'[l] = "settle" => mem[l].copy.transport # Nobody
        /\ server'[l] \in {server[l], "closed"}
    BY <1>5 DEF Repair, Settle, Goes, Shape, Types
  <2> QED
    BY <1>1, <2>1 DEF MindOf, Memory, Before, Launching
<1>6. CASE SweptAll(l)
  <2>1. /\ at[l] = "sweep" /\ at'[l] = "lock" /\ UNCHANGED <<man, server>>
        /\ mem'[l] = [mem[l] EXCEPT !.sees = {}, !.copy = Nobody, !.run = 0]
    BY <1>6 DEF SweptAll, Goes, Shape, Types
  <2> QED
    BY <1>1, <2>1 DEF MindOf, Memory, Before, Launching, Exists
<1>7. CASE Lock(l)
  <2>1. /\ at[l] = "lock" /\ at'[l] = "scan" /\ UNCHANGED <<man, server>>
        /\ mem'[l] = [mem[l] EXCEPT !.copy = man]
    BY <1>7 DEF Lock, Goes, Shape, Types
  <2> QED
    BY <1>1, <2>1 DEF MindOf, Memory, Before, Launching, Exists, Shape, Types
<1>8. CASE LockBusy(l)
  <2>1. at[l] = "lock" /\ at'[l] = "out" /\ UNCHANGED <<man, server, mem>>
    BY <1>8 DEF LockBusy, Goes, Shape, Types
  <2> QED
    BY <1>1, <2>1 DEF MindOf, Before, Launching, Exists
<1>9. CASE Decide(l)
  <2>1. PICK live : Refuse(l, live) \/ ReserveNew(l, live) \/ ReserveRequested(l, live)
    BY <1>9 DEF Decide
  <2>2. at[l] = "scan" /\ server' = server
    BY <1>9 DEF Decide
  <2>3. CASE Refuse(l, live)
    <3>1. at'[l] = "out" /\ man' = man /\ mem'[l] = [mem[l] EXCEPT !.copy = Nobody]
      BY <2>3 DEF Refuse, Goes, Shape, Types
    <3> QED
      BY <1>1, <2>2, <3>1 DEF MindOf, Memory, Before, Launching, Exists
  <2>4. CASE ReserveNew(l, live)
    <3>1. NextRun \in Runs
      BY <2>4, NextRunIsFree DEF ReserveNew
    <3>2. /\ at'[l] = "task" /\ man'[NextRun] # Nobody
          /\ mem'[l] = [mem[l] EXCEPT !.run = NextRun, !.kind = "new", !.copy = Nobody]
      <4>1. [state |-> "submitted", attempt |-> l, pid |-> l, session |-> FALSE,
             transport |-> Nobody, place |-> Place[l]] \in Manifests
        BY DEF Manifests, Active
      <4>2. man'[NextRun] \in Manifests
        BY <2>4, <3>1, <4>1, UpdateShape DEF ReserveNew
      <4> QED
        BY <2>4, <4>2 DEF ReserveNew, Claims, Goes, Shape, Types, LaunchAssumption
    <3> QED
      BY <1>1, <2>2, <3>1, <3>2 DEF MindOf, Memory, Before, Launching, Exists
  <2>5. CASE ReserveRequested(l, live)
    <3>1. PICK kind \in {"attach", "cold"} :
            mem'[l] = [mem[l] EXCEPT !.run = mem[l].want, !.kind = kind, !.copy = Nobody]
      BY <2>5 DEF ReserveRequested, Claims, Shape, Types
    <3>2. /\ at'[l] = "task" /\ mem[l].want # New /\ mem[l].want \in resumed'
          /\ mem[l].want \in Runs
      BY <1>1, <2>5 DEF ReserveRequested, Goes, Shape, Types, Memory
    <3>3. man'[mem[l].want] # Nobody
      BY <1>1, <2>2, <3>2 DEF MindOf, Before, Exists
    <3> QED
      BY <1>1, <2>2, <3>1, <3>2, <3>3 DEF MindOf, Memory, Before, Launching, Exists
  <2> QED
    BY <2>1, <2>3, <2>4, <2>5
<1>10. CASE \/ ResolveTask(l) \/ ReadPrepared(l) \/ WritePrepared(l) \/ Probe(l) \/ Serve(l)
            \/ Record(l) \/ StartProxy(l) \/ Create(l) \/ Panes(l) \/ Catch(l) \/ Fail(l)
            \/ Failed(l) \/ HandOff(l) \/ Detach(l) \/ Cancel(l)
  <2>1. at[l] \in Launching
    BY <1>10 DEF ResolveTask, ReadPrepared, WritePrepared, Probe, Serve, Record, StartProxy,
       Create, Panes, Catch, Fail, Failed, HandOff, Detach, Cancel, Launching
  <2>2. at'[l] \in Launching \cup {"out", "handed"}
    BY <1>10 DEF ResolveTask, ReadPrepared, WritePrepared, Probe, Serve, Record, StartProxy,
       Create, Panes, Catch, Fail, Failed, HandOff, Detach, Cancel, Launching, Goes, Shape,
       Types
  <2>3. mem'[l].kind = mem[l].kind /\ mem'[l].run = mem[l].run
    BY <1>1, <1>10 DEF ResolveTask, ReadPrepared, WritePrepared, Probe, Serve, Record,
       StartProxy, Create, Panes, Catch, Fail, Failed, HandOff, Detach, Cancel, LetGo, Shape,
       Types, Memory
  <2>4. at'[l] = "write" => mem'[l].copy \in Manifests
    <3>1. at'[l] = "write" => ReadPrepared(l) /\ mem'[l].copy = man[MyRun(l)]
      BY <1>1, <1>10 DEF ResolveTask, ReadPrepared, WritePrepared, Probe, Serve, Record,
         StartProxy, Create, Panes, Catch, Fail, Failed, HandOff, Detach, Cancel, Goes, Shape,
         Types, Memory
    <3>2. man[MyRun(l)] \in Manifests
      BY <1>1, <2>1 DEF MindOf, MyRun, Exists, Shape, Types
    <3> QED
      BY <3>1, <3>2
  <2> QED
    BY <1>1, <2>1, <2>2, <2>3, <2>4 DEF MindOf, Before, Launching
<1> QED
  BY <1>2, <1>3, <1>4, <1>5, <1>6, <1>7, <1>8, <1>9, <1>10 DEF Step

\* ... and of the others.
LEMMA ShapeStep == ASSUME Shape, [Next]_vars PROVE Shape'
<1>1. Types' /\ (\A r \in Runs : Exists(r) => Exists(r)') /\ resumed \subseteq resumed'
  BY TypesStep, ResumedGrows
<1>2. ASSUME NEW k \in Launchers, at'[k] = at[k], mem'[k] = mem[k],
             server'[k] = server[k] \/ server'[k] = "closed"
      PROVE  MindOf(k)'
  BY <1>1, <1>2 DEF Shape, Types, Minds, MindOf, Memory, Before, Launching
<1>3. ASSUME NEW l \in Launchers, Step(l) \/ Crash(l) PROVE Minds'
  BY <1>1, <1>2, <1>3, OwnMind, Others DEF Minds
<1>4. ASSUME UNCHANGED <<at, mem, server>> PROVE Minds'
  BY <1>2, <1>4 DEF Minds
<1> QED
  BY <1>1, <1>3, <1>4 DEF Next, SessionEnds, vars, Shape

-----------------------------------------------------------------------------
(* A run and the launcher that made it.                                    *)

\* l made the run r.
By(l, r) == mem[l].kind = "new" /\ mem[l].run = r
OneMaker ==
  \A l, k \in Launchers :
    mem[l].kind = "new" /\ mem[k].kind = "new" /\ mem[l].run = mem[k].run => l = k

\* While nobody has resumed it, a run is its maker's: the manifest names it, is active
\* until there is a session, and names its app server while that is up.
MadeBy(l) ==
  LET m == man[mem[l].run]
  IN  mem[l].kind = "new" /\ mem[l].run \notin resumed =>
        /\ m.pid = l /\ m.transport \in {Nobody, l}
        /\ at[l] \in Creating => m.state \in Active /\ mem[l].run \notin tmux
        /\ at[l] \in {"serve", "record", "proxy", "create"} => m.session
        /\ at[l] = "write" => mem[l].copy = m
        /\ server[l] = "up" =>
             /\ at[l] \notin {"task", "prepare", "write", "probe", "serve"}
             /\ at[l] \notin {"record", "crashed"} => m.transport = l
             /\ at[l] \in {"record", "proxy", "create", "panes"} => mem[l].holds
Made == \A l \in Launchers : MadeBy(l)

\* A step that is not about the run r leaves it as it is.
LEMMA Reach ==
  ASSUME Shape, NEW l \in Launchers, Step(l) \/ Crash(l), NEW r \in Runs, Exists(r),
         r \notin resumed',
         mem[l].run # r \/ at[l] \notin Launching \cup {"repair", "settle"}
  PROVE  man'[r] = man[r] /\ (r \in tmux' <=> r \in tmux)
<1>1. man' = man \/ \E q \in Runs : q # r /\ \E m : man' = [man EXCEPT ![q] = m]
  <2>1. CASE \/ ListSessions(l) \/ Inspect(l) \/ SweptAll(l) \/ Lock(l) \/ LockBusy(l)
             \/ Crash(l)
    BY <2>1 DEF ListSessions, Inspect, SweptAll, Lock, LockBusy, Crash
  <2>2. CASE Decide(l)
    <3>1. PICK live : Refuse(l, live) \/ ReserveNew(l, live) \/ ReserveRequested(l, live)
      BY <2>2 DEF Decide
    <3>2. CASE Refuse(l, live)
      BY <3>2 DEF Refuse
    <3>3. CASE ReserveNew(l, live)
      <4>1. NextRun \in Runs /\ NextRun # r
        BY <3>3, NextRunIsFree DEF ReserveNew
      <4> QED
        BY <3>3, <4>1 DEF ReserveNew, Update
    <3>4. CASE ReserveRequested(l, live)
      <4>1. mem[l].want \in Runs /\ mem[l].want # r
        BY <3>4 DEF ReserveRequested, Shape, Types, Memory
      <4> QED
        BY <3>4, <4>1 DEF ReserveRequested, Update
    <3> QED
      BY <3>1, <3>2, <3>3, <3>4
  <2>3. \/ MyRun(l) \in Runs /\ MyRun(l) # r
        \/ at[l] \notin Launching \cup {"repair", "settle"}
    BY DEF MyRun, Shape, Minds, MindOf
  <2>4. CASE Repair(l) \/ Settle(l)
    BY <2>3, <2>4 DEF Repair, Settle, Update
  <2>5. CASE \/ ResolveTask(l) \/ ReadPrepared(l) \/ WritePrepared(l) \/ Probe(l) \/ Serve(l)
             \/ Record(l) \/ StartProxy(l) \/ Create(l) \/ Panes(l) \/ Catch(l) \/ Fail(l)
             \/ Failed(l) \/ HandOff(l) \/ Detach(l) \/ Cancel(l)
    BY <2>3, <2>5 DEF ResolveTask, ReadPrepared, WritePrepared, Probe, Serve, Record,
       StartProxy, Create, Panes, Catch, Fail, Failed, HandOff, Detach, Cancel, Launching,
       Update
  <2> QED
    BY <2>1, <2>2, <2>4, <2>5 DEF Step
<1>2. r \in tmux' <=> r \in tmux
  <2>1. CASE Create(l) \/ Fail(l)
    BY <2>1 DEF Create, Fail, MyRun, Launching
  <2>2. CASE \/ ListSessions(l) \/ Inspect(l) \/ Repair(l) \/ Settle(l) \/ SweptAll(l)
             \/ Lock(l) \/ LockBusy(l) \/ Decide(l) \/ Crash(l)
             \/ ResolveTask(l) \/ ReadPrepared(l) \/ WritePrepared(l) \/ Probe(l) \/ Serve(l)
             \/ Record(l) \/ StartProxy(l) \/ Panes(l) \/ Catch(l)
             \/ Failed(l) \/ HandOff(l) \/ Detach(l) \/ Cancel(l)
    BY <2>2 DEF ListSessions, Inspect, Repair, Settle, SweptAll, Lock, LockBusy, Decide,
       Crash, ResolveTask, ReadPrepared, WritePrepared, Probe, Serve, Record, StartProxy,
       Panes, Catch, Failed, HandOff, Detach, Cancel
  <2> QED
    BY <2>1, <2>2 DEF Step
<1> QED
  BY <1>1, <1>2 DEF Shape, Types

\* What the maker of a run does keeps it its own.
LEMMA MakerStep ==
  ASSUME Shape, Shape', NEW l \in Launchers, Step(l) \/ Crash(l), MadeBy(l),
         mem[l].kind = "new"
  PROVE  MadeBy(l)'
<1>1. /\ mem[l] \in Memory /\ MindOf(l) /\ l # Nobody /\ l # Old
      /\ at[l] \in Launching
  <2>1. at[l] \in Working
    BY DEF Step, Crash, ListSessions, Inspect, Repair, Settle, SweptAll, Lock, LockBusy,
       Decide, ResolveTask, ReadPrepared, WritePrepared, Probe, Serve, Record, StartProxy,
       Create, Panes, Catch, Fail, Failed, HandOff, Detach, Cancel, Working
  <2> QED
    BY <2>1 DEF Shape, Types, Minds, MindOf, LaunchAssumption, Before, Launching, Working
<1>2. mem[l].run \in Runs /\ man[mem[l].run] \in Manifests
  BY <1>1 DEF MindOf, Shape, Types, Exists
<1>3. PICK m \in Manifests : m = man[mem[l].run]
  BY <1>2
<1> PICK r \in Runs : r = mem[l].run
  BY <1>2
<1>4. /\ at'[l] = "write" => ReadPrepared(l)
      /\ mem'[l].kind = "new" /\ mem'[l].run = r
      /\ man'[r] \in Manifests
  <2>1. Step(l) => \/ ResolveTask(l) \/ ReadPrepared(l) \/ WritePrepared(l) \/ Probe(l)
                   \/ Serve(l) \/ Record(l) \/ StartProxy(l) \/ Create(l) \/ Panes(l)
                   \/ Catch(l) \/ Fail(l) \/ Failed(l) \/ HandOff(l) \/ Detach(l)
                   \/ Cancel(l)
    BY <1>1 DEF Step, ListSessions, Inspect, Repair, Settle, SweptAll, Lock, LockBusy,
       Decide, Launching
  <2>2. mem'[l].kind = "new" /\ mem'[l].run = r /\ (at'[l] = "write" => ReadPrepared(l))
    BY <1>1, <2>1 DEF ResolveTask, ReadPrepared, WritePrepared, Probe, Serve, Record,
       StartProxy, Create, Panes, Catch, Fail, Failed, HandOff, Detach, Cancel, Crash, LetGo,
       Goes, Shape, Types, Memory
  <2> QED
    BY <2>2 DEF Shape, Types, Minds, MindOf, Exists
<1> SUFFICES ASSUME r \notin resumed', r \notin resumed PROVE MadeBy(l)'
  BY <1>4, ResumedGrows DEF MadeBy, Next
<1>5. /\ m.pid = l /\ m.transport \in {Nobody, l}
      /\ at[l] \in Creating => m.state \in Active /\ r \notin tmux
      /\ at[l] \in {"serve", "record", "proxy", "create"} => m.session
      /\ at[l] = "write" => mem[l].copy = m
      /\ server[l] = "up" =>
           /\ at[l] \notin {"task", "prepare", "write", "probe", "serve"}
           /\ at[l] \notin {"record", "crashed"} => m.transport = l
           /\ at[l] \in {"record", "proxy", "create", "panes"} => mem[l].holds
  BY <1>3 DEF MadeBy
\* It is enough to look at what it made of the manifest.
<1>6. ASSUME NEW n \in Manifests, man'[r] = n, n.pid = l, n.transport \in {Nobody, l},
             at'[l] \in Creating => n.state \in Active /\ r \notin tmux',
             at'[l] \in {"serve", "record", "proxy", "create"} => n.session,
             at'[l] = "write" => mem'[l].copy = n,
             server'[l] = "up" =>
               /\ at'[l] \notin {"task", "prepare", "write", "probe", "serve"}
               /\ at'[l] \notin {"record", "crashed"} => n.transport = l
               /\ at'[l] \in {"record", "proxy", "create", "panes"} => mem'[l].holds
      PROVE  MadeBy(l)'
  BY <1>4, <1>6 DEF MadeBy
<1>7. ASSUME man' = man, tmux' = tmux, server'[l] \in {server[l], "closed"},
             at'[l] \notin Creating \cup {"panes"}, at[l] # "record"
      PROVE  MadeBy(l)'
  BY <1>1, <1>3, <1>5, <1>6, <1>7 DEF Creating, Launching
<1>8. CASE Crash(l)
  <2>1. at'[l] = "crashed" /\ UNCHANGED <<man, tmux, server>>
    BY <1>8 DEF Crash, Goes, Shape, Types
  <2> QED
    BY <1>3, <1>5, <1>6, <2>1 DEF Creating
<1>9. CASE ResolveTask(l)
  <2>1. at'[l] \in {"prepare", "cancel"} /\ at[l] = "task" /\ UNCHANGED <<man, tmux, server>>
    BY <1>9 DEF ResolveTask, Goes, Shape, Types
  <2> QED
    BY <1>3, <1>5, <1>6, <2>1 DEF Creating
<1>10. CASE ReadPrepared(l)
  <2>1. /\ at'[l] \in {"write", "cancel"} /\ at[l] = "prepare" /\ UNCHANGED <<man, tmux, server>>
        /\ at'[l] = "write" => mem'[l].copy = m
    BY <1>1, <1>3, <1>10 DEF ReadPrepared, Goes, Shape, Types, MyRun, Memory
  <2> QED
    BY <1>3, <1>5, <1>6, <2>1 DEF Creating
<1>11. CASE WritePrepared(l)
  <2>1. /\ at'[l] = "probe" /\ at[l] = "write" /\ UNCHANGED <<tmux, server>>
        /\ man'[r] = [m EXCEPT !.pid = l,
                        !.state = IF m.state \in Active THEN m.state ELSE "submitted"]
    BY <1>3, <1>5, <1>11 DEF WritePrepared, Goes, Shape, Types, MyRun, Update
  <2>2. /\ man'[r].pid = l /\ man'[r].transport = m.transport
        /\ man'[r].state \in Active
    BY <1>3, <1>5, <2>1 DEF Manifests, Creating
  <2> QED
    BY <1>4, <1>5, <1>6, <2>1, <2>2 DEF Creating
<1>12. CASE Probe(l)
  <2>1. /\ at'[l] \in {"cancel", "handoff", "serve"} /\ at[l] = "probe"
        /\ UNCHANGED <<tmux, server>>
        /\ \/ man'[r] = m /\ at'[l] = "cancel"
           \/ man'[r] = [m EXCEPT !.pid = l, !.session = TRUE]
    BY <1>3, <1>12 DEF Probe, Goes, Shape, Types, MyRun, Update
  <2>2. /\ man'[r].pid = l /\ man'[r].transport = m.transport /\ man'[r].state = m.state
        /\ at'[l] = "serve" => man'[r].session
    <3>1. CASE man'[r] = m /\ at'[l] = "cancel"
      BY <1>5, <3>1
    <3>2. CASE man'[r] = [m EXCEPT !.pid = l, !.session = TRUE]
      BY <1>5, <3>2 DEF Manifests
    <3> QED
      BY <2>1, <3>1, <3>2
  <2> QED
    BY <1>4, <1>5, <1>6, <2>1, <2>2 DEF Creating
<1>13. CASE Serve(l)
  <2>1. /\ at[l] = "serve" /\ UNCHANGED <<man, tmux>>
        /\ \/ at'[l] = "record" /\ mem'[l].holds
           \/ at'[l] = "catch" /\ server'[l] = "closed"
           \/ at'[l] = "create" /\ server'[l] = server[l]
    BY <1>1, <1>13 DEF Serve, Goes, Shape, Types, Memory
  <2> QED
    BY <1>3, <1>5, <1>6, <2>1 DEF Creating
<1>14. CASE Record(l)
  <2>1. /\ at'[l] = "proxy" /\ at[l] = "record" /\ UNCHANGED <<tmux, server, mem>>
        /\ man'[r] = [m EXCEPT !.transport = l]
    BY <1>3, <1>14 DEF Record, Goes, Shape, Types, MyRun, Update
  <2>2. /\ man'[r].pid = l /\ man'[r].transport = l /\ man'[r].state = m.state
        /\ man'[r].session = m.session
    BY <1>3, <1>5, <2>1 DEF Manifests
  <2> QED
    BY <1>4, <1>5, <1>6, <2>1, <2>2 DEF Creating
\* A manifest is cleared of a server that is closed.
<1>15. ASSUME NEW closed \in BOOLEAN, man'[r] = Cleared(m, l, closed),
              server'[l] \in {server[l], "closed"}, closed => server'[l] = "closed",
              at'[l] \in {"catch", "cancel"}, at[l] \in {"proxy", "catch"}
       PROVE  MadeBy(l)'
  <2>1. /\ man'[r].pid = l /\ man'[r].transport \in {Nobody, l}
        /\ ~closed => man'[r].transport = m.transport
    BY <1>3, <1>5, <1>15 DEF Cleared, Manifests
  <2> QED
    BY <1>4, <1>5, <1>6, <1>15, <2>1 DEF Creating
<1>16. CASE StartProxy(l)
  <2>1. CASE at'[l] = "create"
    <3>1. at[l] = "proxy" /\ UNCHANGED <<man, tmux, server, mem>>
      BY <1>16, <2>1 DEF StartProxy, Goes, Shape, Types
    <3> QED
      BY <1>3, <1>5, <1>6, <2>1, <3>1 DEF Creating
  <2>2. CASE at'[l] # "create"
    <3>1. PICK closed \in BOOLEAN :
            /\ server' = IF closed THEN [server EXCEPT ![l] = "closed"] ELSE server
            /\ Update(MyRun(l), Cleared(man[MyRun(l)], l, closed))
            /\ Goes(l, "catch") /\ at[l] = "proxy"
      BY <1>16, <2>2 DEF StartProxy, Goes, Shape, Types
    <3>2. /\ man'[r] = Cleared(m, l, closed) /\ at'[l] = "catch"
          /\ server'[l] \in {server[l], "closed"} /\ (closed => server'[l] = "closed")
      BY <1>3, <3>1 DEF Update, MyRun, Goes, Shape, Types
    <3> QED
      BY <1>15, <3>1, <3>2
  <2> QED
    BY <2>1, <2>2
<1>17. CASE Create(l)
  <2>1. /\ at[l] = "create" /\ at'[l] \in {"panes", "catch"} /\ UNCHANGED <<man, server>>
        /\ mem'[l].holds = mem[l].holds
    BY <1>1, <1>17 DEF Create, Goes, Shape, Types, Memory
  <2> QED
    BY <1>3, <1>5, <1>6, <2>1 DEF Creating
<1>18. CASE Panes(l)
  <2>1. /\ at[l] = "panes" /\ at'[l] \in {"handoff", "catch", "cancel"}
        /\ UNCHANGED <<tmux, server>>
        /\ \/ man'[r] = [m EXCEPT !.pid = l, !.session = TRUE,
                           !.transport = IF mem[l].holds THEN l ELSE Nobody]
           \/ man'[r] = m
           \/ man'[r] = [m EXCEPT !.state = IF @ \in Active THEN "input-required" ELSE @]
    BY <1>3, <1>18 DEF Panes, Goes, Shape, Types, MyRun, Update
  <2>2. /\ man'[r].pid = l
        /\ man'[r].transport = m.transport
           \/ man'[r].transport = IF mem[l].holds THEN l ELSE Nobody
    BY <1>3, <1>5, <2>1, ZenonT(60) DEF Manifests
  <2> QED
    BY <1>1, <1>4, <1>5, <1>6, <2>1, <2>2 DEF Creating, Memory
<1>19. CASE Catch(l)
  <2>1. at[l] = "catch" /\ at'[l] \in {"cancel", "fail"} /\ tmux' = tmux
    BY <1>19 DEF Catch, Goes, Shape, Types
  <2>2. \/ UNCHANGED <<man, server>>
        \/ /\ at'[l] = "cancel" /\ server'[l] \in {server[l], "closed"}
           /\ man'[r] = Cleared(m, l, server'[l] = "closed")
    BY <1>3, <1>19 DEF Catch, Closes, Goes, Shape, Types, MyRun, Update
  <2> QED
    BY <1>7, <1>15, <2>1, <2>2 DEF Creating
<1>20. CASE Fail(l)
  <2>1. /\ at[l] = "fail" /\ at'[l] = "failed" /\ man' = man
        /\ server'[l] \in {server[l], "closed"}
    BY <1>20 DEF Fail, Closes, Goes, Shape, Types
  <2> QED
    BY <1>3, <1>5, <1>6, <2>1 DEF Creating
<1>21. CASE Failed(l)
  <2>1. PICK c \in Manifests : c = Cleared(m, l, server[l] = "closed")
    BY <1>3 DEF Cleared, Manifests
  <2>2. /\ at[l] = "failed" /\ at'[l] \in {"handed", "cancel"} /\ UNCHANGED <<tmux, server>>
        /\ man'[r] = [c EXCEPT !.state = IF @ \in Active THEN "failed" ELSE @]
    BY <1>3, <1>21, <2>1 DEF Failed, Goes, Shape, Types, MyRun, Update
  <2>3. /\ c.pid = l /\ c.transport \in {Nobody, l}
        /\ server[l] = "up" => c.transport = l
    BY <1>3, <1>5, <2>1, <2>2 DEF Cleared, Manifests
  <2>4. man'[r].pid = l /\ man'[r].transport = c.transport
    BY <2>1, <2>2, <2>3 DEF Manifests
  <2> QED
    BY <1>4, <1>6, <2>2, <2>3, <2>4 DEF Creating
<1>22. CASE HandOff(l) \/ Detach(l)
  <2>1. /\ at[l] \in {"handoff", "attached"} /\ UNCHANGED <<man, tmux, server>>
        /\ at'[l] \in {"attached", "fail", "cancel", "handed"}
    BY <1>22 DEF HandOff, Detach, Goes, Shape, Types
  <2> QED
    BY <1>7, <2>1 DEF Creating
<1>23. CASE Cancel(l)
  <2>1. /\ at[l] = "cancel" /\ at'[l] = "out" /\ UNCHANGED <<tmux, server>>
        /\ \/ man'[r] = m
           \/ \E s \in {"failed", m.state} :
                man'[r] = [m EXCEPT !.attempt = Nobody, !.state = s]
    <3>1. CASE man' = man
      BY <1>3, <1>23, <3>1 DEF Cancel, Goes, Shape, Types
    <3>2. PICK s \in {"failed", m.state} :
            s = IF mem[l].kind = "new" /\ ~m.session /\ m.state \in Active
                THEN "failed" ELSE m.state
      OBVIOUS
    <3>3. CASE Update(r, [m EXCEPT !.attempt = Nobody, !.state = s])
      BY <1>3, <1>23, <3>3 DEF Cancel, Goes, Shape, Types, Update
    <3> QED
      BY <1>3, <1>23, <3>1, <3>2, <3>3 DEF Cancel, MyRun
  <2>2. man'[r].pid = l /\ man'[r].transport = m.transport
    <3>1. CASE man'[r] = m
      BY <1>5, <3>1
    <3>2. ASSUME NEW s \in {"failed", m.state},
                 man'[r] = [m EXCEPT !.attempt = Nobody, !.state = s]
          PROVE  man'[r].pid = m.pid /\ man'[r].transport = m.transport
      BY <3>2 DEF Manifests
    <3> QED
      BY <1>5, <2>1, <3>1, <3>2
  <2> QED
    BY <1>4, <1>5, <1>6, <2>1, <2>2 DEF Creating
<1>24. at[l] \notin Before
  BY <1>1 DEF Before, Launching
<1> QED
  BY <1>8, <1>9, <1>10, <1>11, <1>12, <1>13, <1>14, <1>16, <1>17, <1>18, <1>19, <1>20, <1>21,
     <1>22, <1>23, <1>24
     DEF Step, ListSessions, Inspect, Repair, Settle, SweptAll, Lock, LockBusy, Decide, Before

\* A run that is reserved is its maker's.
LEMMA NewRun ==
  ASSUME Shape, Shape', NEW l \in Launchers, Decide(l), mem'[l].kind = "new"
  PROVE  /\ MadeBy(l)' /\ mem[l].want = New
         /\ mem'[l].run \in Runs /\ ~Exists(mem'[l].run) /\ at'[l] = "task"
         /\ man'[mem'[l].run].place = Place[l]
         /\ \E live \in {f \in [Runs -> {"live", "dead", "unknown"}] :
                           \A r \in Runs : f[r] \in Answers(r)} : ~Refused(l, live)
<1>1. mem[l] \in Memory /\ MindOf(l) /\ at[l] = "scan"
  BY DEF Shape, Types, Minds, Decide
<1>2. mem[l].kind = "none" /\ server[l] # "up" /\ UNCHANGED <<tmux, server>>
  BY <1>1 DEF MindOf, Before, Decide
<1>3. PICK live \in {f \in [Runs -> {"live", "dead", "unknown"}] :
                       \A r \in Runs : f[r] \in Answers(r)} : ReserveNew(l, live)
  <2>1. ASSUME NEW live, Refuse(l, live) \/ ReserveRequested(l, live)
        PROVE  mem'[l].kind # "new"
    BY <1>1, <1>2, <2>1 DEF Refuse, ReserveRequested, Claims, Shape, Types, Memory
  <2> QED
    BY <2>1 DEF Decide
<1>4. NextRun \in Runs /\ ~Exists(NextRun) /\ NextRun \notin tmux
  BY <1>3, NextRunIsFree DEF ReserveNew, Shape, Types
<1>5. /\ mem'[l].run = NextRun /\ at'[l] = "task"
      /\ man'[NextRun] = [state |-> "submitted", attempt |-> l, pid |-> l, session |-> FALSE,
                          transport |-> Nobody, place |-> Place[l]]
  BY <1>1, <1>3, <1>4 DEF ReserveNew, Claims, Update, Goes, Shape, Types, Memory
<1>6. MadeBy(l)'
  BY <1>2, <1>4, <1>5 DEF MadeBy, Active
<1> QED
  BY <1>3, <1>4, <1>5, <1>6 DEF ReserveNew

\* Nobody else has that run.
LEMMA Makers ==
  ASSUME Shape, Shape', NEW l \in Launchers, Step(l) \/ Crash(l)
  PROVE  /\ mem[l].kind # "none" => mem'[l].kind = mem[l].kind /\ mem'[l].run = mem[l].run
         /\ mem[l].kind = "none" /\ mem'[l].kind = "new" => Decide(l)
<1>1. mem[l] \in Memory /\ MindOf(l)
  BY DEF Shape, Types, Minds
<1>2. CASE \/ ListSessions(l) \/ Inspect(l) \/ Repair(l) \/ Settle(l) \/ SweptAll(l)
           \/ Lock(l) \/ LockBusy(l)
  <2>1. at[l] \in Before /\ mem[l].kind = "none"
    BY <1>1, <1>2 DEF ListSessions, Inspect, Repair, Settle, SweptAll, Lock, LockBusy,
       Before, MindOf
  <2>2. mem'[l].kind = "none"
    <3>1. CASE ListSessions(l)
      <4>1. PICK want, todo, sees :
              mem' = [mem EXCEPT ![l].want = want, ![l].todo = todo, ![l].sees = sees]
        BY <3>1, ZenonT(60) DEF ListSessions
      <4> QED
        BY <1>1, <2>1, <4>1 DEF Shape, Types, Memory
    <3>2. CASE Inspect(l)
      <4>1. PICK r : mem' = [mem EXCEPT ![l].todo = @ \ {r}, ![l].run = r, ![l].copy = man[r]]
        BY <3>2, InspectEffect
      <4> QED
        BY <1>1, <2>1, <4>1 DEF Shape, Types, Memory
    <3>3. CASE Repair(l) \/ Settle(l) \/ SweptAll(l) \/ Lock(l) \/ LockBusy(l)
      BY <1>1, <2>1, <3>3 DEF Repair, Settle, SweptAll, Lock, LockBusy, Shape, Types, Memory
    <3> QED
      BY <1>2, <3>1, <3>2, <3>3
  <2> QED
    BY <2>1, <2>2
<1>3. CASE Decide(l)
  BY <1>1, <1>3 DEF Decide, Before, MindOf
<1>4. CASE \/ ResolveTask(l) \/ ReadPrepared(l) \/ WritePrepared(l) \/ Probe(l) \/ Serve(l)
           \/ Record(l) \/ StartProxy(l) \/ Create(l) \/ Panes(l) \/ Catch(l) \/ Fail(l)
           \/ Failed(l) \/ HandOff(l) \/ Detach(l) \/ Cancel(l) \/ Crash(l)
  BY <1>1, <1>4 DEF ResolveTask, ReadPrepared, WritePrepared, Probe, Serve, Record,
     StartProxy, Create, Panes, Catch, Fail, Failed, HandOff, Detach, Cancel, LetGo, Crash,
     Shape, Types, Memory
<1> QED
  BY <1>2, <1>3, <1>4 DEF Step

\* Of a run there is one maker.
LEMMA OneMakerStep == ASSUME Shape, Shape', OneMaker, [Next]_vars PROVE OneMaker'
<1>1. ASSUME NEW l \in Launchers, Step(l) \/ Crash(l) PROVE OneMaker'
  <2>1. \A k \in Launchers : mem[k].kind # "none" => mem[k].run \in Runs /\ Exists(mem[k].run)
    BY DEF Shape, Minds, MindOf
  <2>2. \A k \in Launchers : k # l => mem'[k] = mem[k]
    BY <1>1, Others
  <2>3. CASE mem[l].kind # "none"
    BY <1>1, <2>2, <2>3, Makers DEF OneMaker
  <2>4. CASE mem[l].kind = "none"
    <3>1. mem'[l].kind = "new" => ~Exists(mem'[l].run)
      BY <1>1, <2>4, Makers, NewRun
    <3> QED
      BY <2>1, <2>2, <3>1 DEF OneMaker
  <2> QED
    BY <2>3, <2>4
<1>2. ASSUME mem' = mem PROVE OneMaker'
  BY <1>2 DEF OneMaker
<1> QED
  BY <1>1, <1>2 DEF Next, SessionEnds, vars

-----------------------------------------------------------------------------
(* A run and those that sweep it.                                          *)

\* A run that nobody resumed has a maker, or is of an earlier launch and at rest.
Unmade ==
  \A r \in Runs : Exists(r) /\ r \notin resumed =>
    \/ \E l \in Launchers : By(l, r)
    \/ man[r].pid = Old /\ man[r].transport = Nobody /\ r \notin tmux

\* A run that was judged abandoned is that of a dead process, as long as nobody
\* resumed it; and the app server that its manifest named is of its maker.
JudgedBy(k) ==
  LET r == mem[k].run
  IN  at[k] \in {"repair", "settle"} /\ r \notin resumed =>
        /\ ~Alive(man[r].pid)
        /\ mem[k].copy.transport # Nobody =>
             mem[k].copy.transport \in Launchers /\ By(mem[k].copy.transport, r)
Judged == \A k \in Launchers : JudgedBy(k)

\* The dead stay dead.
LEMMA DeadStay ==
  ASSUME Shape, NEW l \in Launchers, Step(l) \/ Crash(l), NEW p, ~Alive(p)
  PROVE  ~Alive(p)' /\ p # l
<1>1. at[l] \in Working
  BY DEF Step, Crash, ListSessions, Inspect, Repair, Settle, SweptAll, Lock, LockBusy,
     Decide, ResolveTask, ReadPrepared, WritePrepared, Probe, Serve, Record, StartProxy,
     Create, Panes, Catch, Fail, Failed, HandOff, Detach, Cancel, Working
<1> QED
  BY <1>1, Others DEF Alive

\* Who updates a run that nobody has resumed made it, or has judged it.
LEMMA Updaters ==
  ASSUME Shape, Shape', OneMaker, Judged, NEW l \in Launchers, Step(l) \/ Crash(l),
         NEW r \in Runs, Exists(r), r \notin resumed'
  PROVE  \/ man'[r] = man[r] /\ (r \in tmux' <=> r \in tmux)
         \/ By(l, r) /\ at[l] \in Launching
         \/ /\ ~Alive(man[r].pid) /\ (r \in tmux' <=> r \in tmux)
            /\ \/ /\ Repair(l) /\ man'[r] = [man[r] EXCEPT !.state = "failed"]
                  /\ server' = server
               \/ /\ Settle(l) /\ man'[r] = [man[r] EXCEPT !.transport = Nobody]
                  /\ \E k \in Launchers : By(k, r) /\ server' = [server EXCEPT ![k] = "closed"]
<1>1. r \notin resumed /\ mem[l] \in Memory /\ MindOf(l)
  BY ResumedGrows DEF Next, Shape, Types, Minds
<1>2. CASE mem[l].run # r \/ at[l] \notin Launching \cup {"repair", "settle"}
  BY <1>2, Reach
<1>3. CASE mem[l].run = r /\ at[l] \in Launching
  BY <1>1, <1>3 DEF By, MindOf, Memory
<1>4. CASE mem[l].run = r /\ at[l] \in {"repair", "settle"}
  <2>1. /\ ~Alive(man[r].pid)
        /\ mem[l].copy.transport # Nobody =>
             mem[l].copy.transport \in Launchers /\ By(mem[l].copy.transport, r)
    BY <1>1, <1>4 DEF Judged, JudgedBy
  <2>2. CASE Crash(l)
    BY <2>2 DEF Crash
  <2>3. CASE Repair(l)
    BY <1>4, <2>1, <2>3 DEF Repair, Update, MyRun, Shape, Types
  <2>4. CASE Settle(l)
    <3>1. mem[l].copy.transport \in Launchers /\ By(mem[l].copy.transport, r)
      BY <1>1, <2>1, <2>4 DEF Settle, MindOf
    <3> QED
      BY <1>4, <2>1, <2>4, <3>1 DEF Settle, Update, MyRun, Shape, Types
  <2> QED
    BY <1>4, <2>2, <2>3, <2>4 DEF Step, ListSessions, Inspect, SweptAll, Lock, LockBusy,
       Decide, ResolveTask, ReadPrepared, WritePrepared, Probe, Serve, Record, StartProxy,
       Create, Panes, Catch, Fail, Failed, HandOff, Detach, Cancel
<1> QED
  BY <1>2, <1>3, <1>4

\* What others do leaves a run to its maker.
LEMMA MadeStep ==
  ASSUME Shape, Shape', OneMaker, Judged, Made, NEW k \in Launchers, Step(k) \/ Crash(k)
  PROVE  Made'
<1>0. MadeBy(k)'
  <2>1. CASE mem[k].kind = "new"
    BY <2>1, MakerStep DEF Made
  <2>2. CASE mem[k].kind = "none" /\ mem'[k].kind = "new"
    BY <2>2, Makers, NewRun
  <2>3. CASE mem'[k].kind # "new"
    BY <2>3 DEF MadeBy
  <2>4. mem[k].kind # "none" => mem'[k].kind = mem[k].kind
    BY Makers
  <2> QED
    BY <2>1, <2>2, <2>3, <2>4
<1> SUFFICES ASSUME NEW l \in Launchers, l # k PROVE MadeBy(l)'
  BY <1>0 DEF Made
<1> SUFFICES ASSUME mem[l].kind = "new", mem[l].run \notin resumed' PROVE MadeBy(l)'
  BY Others DEF MadeBy
<1> PICK r : r = mem[l].run
  OBVIOUS
<1>1. /\ at'[l] = at[l] /\ mem'[l] = mem[l] /\ r \in Runs /\ Exists(r) /\ r \notin resumed
      /\ server'[l] = server[l] \/ server'[l] = "closed"
      /\ man[r] \in Manifests
  BY Others, ResumedGrows DEF Shape, Minds, MindOf, Next, Types, Exists
<1>2. ~By(k, r)
  BY DEF OneMaker, By
<1>3. /\ man[r].pid = l /\ man[r].transport \in {Nobody, l}
      /\ at[l] \in Creating => man[r].state \in Active /\ r \notin tmux
      /\ at[l] \in {"serve", "record", "proxy", "create"} => man[r].session
      /\ at[l] = "write" => mem[l].copy = man[r]
      /\ server[l] = "up" =>
           /\ at[l] \notin {"task", "prepare", "write", "probe", "serve"}
           /\ at[l] \notin {"record", "crashed"} => man[r].transport = l
           /\ at[l] \in {"record", "proxy", "create", "panes"} => mem[l].holds
  BY <1>1 DEF Made, MadeBy
<1>4. CASE man'[r] = man[r] /\ (r \in tmux' <=> r \in tmux)
  BY <1>1, <1>3, <1>4 DEF MadeBy
<1>5. CASE ~Alive(man[r].pid) /\ (r \in tmux' <=> r \in tmux)
  <2>1. at[l] \notin Working
    BY <1>3, <1>5 DEF Alive
  <2>2. CASE man'[r] = [man[r] EXCEPT !.state = "failed"] /\ server' = server
    <3>1. man'[r].pid = l /\ man'[r].transport = man[r].transport
      BY <1>1, <1>3, <2>2 DEF Manifests
    <3> QED
      BY <1>1, <1>3, <2>1, <2>2, <3>1 DEF MadeBy, Working, Creating
  <2>3. CASE /\ man'[r] = [man[r] EXCEPT !.transport = Nobody]
             /\ \E h \in Launchers : By(h, r) /\ server' = [server EXCEPT ![h] = "closed"]
    <3>1. man'[r].pid = l /\ man'[r].transport = Nobody
      BY <1>1, <1>3, <2>3 DEF Manifests
    <3>2. server'[l] = "closed"
      BY <2>3 DEF OneMaker, By, Shape, Types
    <3> QED
      BY <1>1, <1>3, <2>1, <3>1, <3>2 DEF MadeBy, Working, Creating
  <2> QED
    BY <1>1, <1>2, <1>4, <1>5, <2>2, <2>3, Updaters
<1> QED
  BY <1>1, <1>2, <1>4, <1>5, Updaters

\* A maker stays the maker of its run.
LEMMA ByStays ==
  ASSUME Shape, Shape', NEW k \in Launchers, Step(k) \/ Crash(k), NEW l \in Launchers,
         NEW r, By(l, r)
  PROVE  By(l, r)'
BY Others, Makers DEF By

\* A run comes to be when it is reserved.
LEMMA OnlyNew ==
  ASSUME Shape, Shape', NEW k \in Launchers, Step(k) \/ Crash(k), NEW r \in Runs,
         ~Exists(r), Exists(r)'
  PROVE  Decide(k) /\ mem'[k].kind = "new" /\ mem'[k].run = r
<1>1. man'[r] # man[r]
  BY DEF Exists
<1>2. CASE Decide(k)
  <2>1. PICK live : Refuse(k, live) \/ ReserveNew(k, live) \/ ReserveRequested(k, live)
    BY <1>2 DEF Decide
  <2>2. CASE ReserveNew(k, live)
    <3>1. NextRun \in Runs
      BY <2>2, NextRunIsFree DEF ReserveNew
    <3>2. NextRun = r
      BY <1>1, <2>2, <3>1 DEF ReserveNew, Update, Shape, Types
    <3>3. mem'[k] = [mem[k] EXCEPT !.run = NextRun, !.kind = "new", !.copy = Nobody]
      BY <2>2 DEF ReserveNew, Claims, Shape, Types
    <3>4. mem[k] \in Memory
      BY DEF Shape, Types
    <3> QED
      BY <1>2, <3>2, <3>3, <3>4 DEF Memory
  <2>3. CASE Refuse(k, live)
    BY <1>1, <2>3 DEF Refuse
  <2>4. CASE ReserveRequested(k, live)
    <3>1. mem[k].want = r
      BY <1>1, <2>4 DEF ReserveRequested, Update, Shape, Types
    <3> QED
      BY <1>2, <2>4, <3>1 DEF ReserveRequested, Decide, Shape, Minds, MindOf, Before
  <2> QED
    BY <2>1, <2>2, <2>3, <2>4
<1>3. CASE at[k] \in Launching \cup {"repair", "settle"}
  <2>1. mem[k].run \in Runs /\ Exists(mem[k].run)
    BY <1>3 DEF Shape, Minds, MindOf, Launching
  <2>2. man' = man \/ \E m : man' = [man EXCEPT ![mem[k].run] = m]
    BY <1>3 DEF Step, ListSessions, Inspect, Repair, Settle, SweptAll, Lock, LockBusy,
       Decide, ResolveTask, ReadPrepared, WritePrepared, Probe, Serve, Record,
       StartProxy, Create, Panes, Catch, Fail, Failed, HandOff, Detach, Cancel, Crash,
       Launching, Update, MyRun
  <2> QED
    BY <1>1, <2>1, <2>2 DEF Shape, Types
<1>4. CASE \/ ListSessions(k) \/ Inspect(k) \/ SweptAll(k) \/ Lock(k) \/ LockBusy(k)
           \/ Crash(k)
  BY <1>1, <1>4 DEF ListSessions, Inspect, SweptAll, Lock, LockBusy, Crash
<1> QED
  BY <1>2, <1>3, <1>4 DEF Step, Repair, Settle, ResolveTask, ReadPrepared,
     WritePrepared, Probe, Serve, Record, StartProxy, Create, Panes, Catch, Fail,
     Failed, HandOff, Detach, Cancel, Launching

\* What nobody made is left alone.
LEMMA UnmadeStep ==
  ASSUME Shape, Shape', OneMaker, Judged, Unmade, NEW k \in Launchers, Step(k) \/ Crash(k)
  PROVE  Unmade'
<1> SUFFICES ASSUME NEW r \in Runs, Exists(r)', r \notin resumed',
                    \A l \in Launchers : ~By(l, r)'
             PROVE  (man[r].pid = Old /\ man[r].transport = Nobody /\ r \notin tmux)'
  BY DEF Unmade
<1>1. CASE Exists(r)
  <2>1. \A l \in Launchers : ~By(l, r)
    BY ByStays
  <2>2. /\ man[r].pid = Old /\ man[r].transport = Nobody /\ r \notin tmux
        /\ man[r] \in Manifests
    BY <1>1, <2>1, ResumedGrows DEF Unmade, Next, Shape, Types, Exists
  <2>3. \/ man'[r] = man[r]
        \/ man'[r] = [man[r] EXCEPT !.state = "failed"]
        \/ man'[r] = [man[r] EXCEPT !.transport = Nobody]
    BY <1>1, <2>1, Updaters
  <2>4. man'[r].pid = Old /\ man'[r].transport = Nobody
    BY <2>2, <2>3 DEF Manifests
  <2>5. r \notin tmux'
    BY <1>1, <2>1, <2>2, Updaters
  <2> QED
    BY <2>4, <2>5
<1>2. CASE ~Exists(r)
  <2>1. mem'[k].kind = "new" /\ mem'[k].run = r
    BY <1>2, OnlyNew
  <2> QED
    BY <2>1 DEF By
<1> QED
  BY <1>1, <1>2

\* A judgement holds until it is carried out.
LEMMA JudgedStep ==
  ASSUME Shape, Shape', OneMaker, Judged, Unmade, Made, NEW k \in Launchers,
         Step(k) \/ Crash(k)
  PROVE  Judged'
<1>0. \A r \in Runs : Exists(r) /\ r \notin resumed' /\ ~Alive(man[r].pid)
                        => man'[r].pid = man[r].pid
  <2> SUFFICES ASSUME NEW r \in Runs, Exists(r), r \notin resumed', ~Alive(man[r].pid)
               PROVE  man'[r].pid = man[r].pid
    OBVIOUS
  <2>1. ~By(k, r)
    <3> SUFFICES ASSUME By(k, r) PROVE FALSE
      OBVIOUS
    <3>1. man[r].pid = k
      BY ResumedGrows DEF Made, MadeBy, By, Next
    <3> QED
      BY <3>1, DeadStay
  <2>2. man[r] \in Manifests
    BY DEF Shape, Types, Exists
  <2>3. CASE man'[r] = [man[r] EXCEPT !.state = "failed"]
             \/ man'[r] = [man[r] EXCEPT !.transport = Nobody]
    BY <2>2, <2>3 DEF Manifests
  <2> QED
    BY <2>1, <2>3, Updaters
<1> SUFFICES ASSUME NEW l \in Launchers PROVE JudgedBy(l)'
  BY DEF Judged
<1>1. CASE at'[l] = at[l] /\ mem'[l] = mem[l]
  <2>1. at[l] \in {"repair", "settle"} => mem[l].run \in Runs /\ Exists(mem[l].run)
    BY DEF Shape, Minds, MindOf
  <2> QED
    BY <1>0, <1>1, <2>1, DeadStay, ByStays, ResumedGrows DEF Judged, JudgedBy, Next
<1>2. CASE l = k /\ at'[l] \in {"repair", "settle"}
  <2>1. CASE Inspect(k)
    <3>1. PICK r \in mem[k].todo :
            /\ r \in Runs /\ man[r] \in Manifests /\ Exists(r)
            /\ mem' = [mem EXCEPT ![k].todo = @ \ {r}, ![k].run = r, ![k].copy = man[r]]
            /\ Goes(k, IF ~(Abandoned(man[r], r, mem[k].sees)) THEN "sweep"
                       ELSE IF man[r].state \in Active THEN "repair"
                       ELSE IF man[r].transport # Nobody THEN "settle" ELSE "sweep")
      BY <2>1, InspectEffect
    <3>2. mem'[k].run = r /\ mem'[k].copy = man[r] /\ UNCHANGED <<man, resumed>>
      <4>1. mem[k] \in Memory
        BY DEF Shape, Types
      <4>2. mem'[k] = [mem[k] EXCEPT !.todo = @ \ {r}, !.run = r, !.copy = man[r]]
        BY <3>1 DEF Shape, Types
      <4> QED
        BY <2>1, <4>1, <4>2, ZenonT(60) DEF Inspect, Memory
    <3>3. ~Alive(man[r].pid)
      BY <1>2, <3>1 DEF Goes, Abandoned, Shape, Types
    <3>4. ASSUME r \notin resumed, man[r].transport # Nobody
          PROVE  man[r].transport \in Launchers /\ By(man[r].transport, r)
      <4>1. PICK h \in Launchers : By(h, r)
        BY <3>1, <3>4 DEF Unmade
      <4>2. man[r].transport = h
        BY <3>4, <4>1 DEF Made, MadeBy, By
      <4> QED
        BY <4>1, <4>2
    <3> QED
      BY <1>2, <3>2, <3>3, <3>4, DeadStay, ByStays DEF JudgedBy
  <2>2. CASE Repair(k)
    <3>1. at[k] = "repair" /\ mem' = mem
      BY <2>2 DEF Repair
    <3>2. mem[k].run \in Runs /\ Exists(mem[k].run)
      BY <3>1 DEF Shape, Minds, MindOf
    <3> QED
      BY <1>0, <1>2, <3>1, <3>2, DeadStay, ByStays, ResumedGrows DEF Judged, JudgedBy, Next
  <2> QED
    BY <1>2, <2>1, <2>2, ZenonT(60) DEF Step, ListSessions, Settle, SweptAll, Lock, LockBusy,
       Decide, Refuse, ReserveNew, ReserveRequested, ResolveTask, ReadPrepared,
       WritePrepared, Probe, Serve, Record, StartProxy, Create, Panes, Catch, Fail, Failed,
       HandOff, Detach, Cancel, Crash, Goes, Shape, Types
<1>3. CASE at'[l] \notin {"repair", "settle"}
  BY <1>3 DEF JudgedBy
<1> QED
  BY <1>1, <1>2, <1>3, Others

-----------------------------------------------------------------------------
(* One owner for a workspace.                                              *)

\* A run that has a session, or whose maker may still create it.
Holds(r) == r \in tmux \/ \E l \in Launchers : By(l, r) /\ at[l] \in Creating

\* The manifest of a session says so, as long as the run was not resumed.
InTmux == \A r \in tmux : r \notin resumed => man[r].session

\* Who decides has the lock, and what it read still says which runs hold a workspace.
ScannedBy(k) ==
  at[k] = "scan" =>
    /\ lock = k
    /\ \A r \in Runs : Exists(r) /\ r \notin resumed /\ Holds(r) =>
         LET m == mem[k].copy[r]
         IN  /\ m # Nobody /\ m.place = man[r].place
             /\ m.state \in Active \/ (m.session /\ r \in tmux)
Scanned == \A k \in Launchers : ScannedBy(k)

\* Two runs that hold their workspaces are apart.
Apart ==
  \A r, q \in Runs :
    r # q /\ Exists(r) /\ Exists(q) /\ {r, q} \cap resumed = {} /\ Holds(r) /\ Holds(q)
      => ~Conflict(man[r].place, man[q].place)

\* Whatever its maker does, a run keeps its workspace and its session in the manifest.
LEMMA MakerKeeps ==
  ASSUME Shape, NEW k \in Launchers, Step(k) \/ Crash(k), MadeBy(k), mem[k].kind = "new",
         at[k] \in Launching, NEW r \in Runs, r = mem[k].run, r \notin resumed
  PROVE  man'[r].place = man[r].place /\ (man[r].session => man'[r].session)
<1>1. PICK m \in Manifests : m = man[r]
  BY DEF Shape, Types, Minds, MindOf, Exists
<1> DEFINE Kept(n) == n.place = m.place /\ (m.session => n.session)
<1> SUFFICES Kept(man'[r])
  BY <1>1
<1> SUFFICES ASSUME man' # man PROVE Kept(man'[r])
  BY <1>1
<1> HIDE DEF Kept
<1>2. ASSUME NEW n, man' = [man EXCEPT ![r] = n], Kept(n) PROVE Kept(man'[r])
  BY <1>2 DEF Shape, Types
<1>3. ASSUME NEW s, NEW t, NEW c \in BOOLEAN
      PROVE  /\ Kept([m EXCEPT !.pid = k, !.state = s]) /\ Kept([m EXCEPT !.transport = k])
             /\ Kept([m EXCEPT !.pid = k, !.session = TRUE])
             /\ Kept([m EXCEPT !.pid = k, !.session = TRUE, !.transport = t])
             /\ Kept([m EXCEPT !.state = s])
             /\ Kept([m EXCEPT !.attempt = Nobody, !.state = s])
  BY DEF Kept, Manifests
<1>4. ASSUME NEW s, NEW c \in BOOLEAN
      PROVE  Kept(Cleared(m, k, c)) /\ Kept([Cleared(m, k, c) EXCEPT !.state = s])
  <2>1. PICK n \in Manifests : n = Cleared(m, k, c) /\ Kept(n)
    <3>1. [m EXCEPT !.transport = Nobody] \in Manifests
      BY DEF Manifests
    <3>2. Kept(m) /\ Kept([m EXCEPT !.transport = Nobody])
      BY DEF Kept, Manifests
    <3> QED
      BY <3>1, <3>2 DEF Cleared
  <2>2. Kept([n EXCEPT !.state = s])
    BY <2>1 DEF Kept, Manifests
  <2> QED
    BY <2>1, <2>2
<1>5. CASE WritePrepared(k)
  <2>1. mem[k].copy = m /\ at[k] = "write"
    BY <1>1, <1>5 DEF MadeBy, WritePrepared
  <2> QED
    BY <1>2, <1>3, <1>5, <2>1 DEF WritePrepared, Update, MyRun
<1>6. CASE Probe(k)
  BY <1>1, <1>2, <1>3, <1>6 DEF Probe, Update, MyRun
<1>7. CASE Record(k)
  BY <1>1, <1>2, <1>3, <1>7 DEF Record, Update, MyRun
<1>8. CASE StartProxy(k)
  BY <1>1, <1>2, <1>4, <1>8 DEF StartProxy, Update, MyRun
<1>9. CASE Panes(k)
  <2>1. PICK s, t :
          \/ man' = [man EXCEPT ![r] = [m EXCEPT !.pid = k, !.session = TRUE, !.transport = t]]
          \/ man' = [man EXCEPT ![r] = [m EXCEPT !.state = s]]
    BY <1>1, <1>9 DEF Panes, Update, MyRun
  <2> QED
    BY <1>2, <1>3, <2>1
<1>10. CASE Catch(k)
  <2>1. PICK c \in BOOLEAN : man' = [man EXCEPT ![r] = Cleared(m, k, c)]
    BY <1>1, <1>10 DEF Catch, Update, MyRun
  <2> QED
    BY <1>2, <1>4, <2>1
<1>11. CASE Failed(k)
  <2>1. PICK c \in BOOLEAN :
          \E s : man' = [man EXCEPT ![r] = [Cleared(m, k, c) EXCEPT !.state = s]]
    BY <1>1, <1>11 DEF Failed, Update, MyRun
  <2> QED
    BY <1>2, <1>4, <2>1
<1>12. CASE Cancel(k)
  <2>1. PICK s : man' = [man EXCEPT ![r] = [m EXCEPT !.attempt = Nobody, !.state = s]]
    BY <1>1, <1>12 DEF Cancel, Update, MyRun
  <2> QED
    BY <1>2, <1>3, <2>1
<1> QED
  BY <1>5, <1>6, <1>7, <1>8, <1>9, <1>10, <1>11, <1>12
     DEF Step, Crash, ListSessions, Inspect, Repair, Settle, SweptAll, Lock, LockBusy, Decide,
     ResolveTask, ReadPrepared, Serve, Create, Fail, HandOff, Detach, Launching

\* No run gets hold of a workspace but when it is reserved.
LEMMA HoldsBefore ==
  ASSUME Shape, Shape', OneMaker, Judged, Made, NEW k \in Launchers, Step(k) \/ Crash(k),
         NEW r \in Runs, Exists(r), r \notin resumed', Holds(r)'
  PROVE  /\ Holds(r) /\ man'[r].place = man[r].place
         /\ r \in tmux => r \in tmux'
         /\ r \in tmux' => man[r].session \/ r \in tmux
         /\ man[r].session => man'[r].session
<1>1. r \notin resumed /\ man[r] \in Manifests
  BY ResumedGrows DEF Next, Shape, Types, Exists
<1>2. ASSUME NEW l \in Launchers, By(l, r)', at'[l] \in Creating
      PROVE  By(l, r) /\ at[l] \in Creating
  <2>1. CASE l # k
    BY <1>2, <2>1, Others DEF By
  <2>2. CASE l = k
    <3>1. mem[k].kind # "none"
      BY <1>2, <2>2, Makers, NewRun DEF By, Shape, Minds, MindOf
    <3>2. By(k, r)
      BY <1>2, <2>2, <3>1, Makers DEF By
    <3>3. at[k] \in Launching
      <4>1. at[k] \in Working /\ MindOf(k)
        BY DEF Step, Crash, ListSessions, Inspect, Repair, Settle, SweptAll, Lock, LockBusy,
           Decide, ResolveTask, ReadPrepared, WritePrepared, Probe, Serve, Record,
           StartProxy, Create, Panes, Catch, Fail, Failed, HandOff, Detach, Cancel, Working,
           Shape, Minds
      <4> QED
        BY <3>1, <4>1 DEF MindOf, Before, Launching, Working
    <3>4. at[k] \in Creating
      BY <1>2, <2>2, <3>3, ZenonT(60) DEF Step, Crash, ListSessions, Inspect, Repair, Settle, SweptAll,
         Lock, LockBusy, Decide, ResolveTask, ReadPrepared, WritePrepared, Probe, Serve,
         Record, StartProxy, Create, Panes, Catch, Fail, Failed, HandOff, Detach, Cancel,
         Goes, Launching, Creating, Shape, Types
    <3> QED
      BY <2>2, <3>2, <3>4
  <2> QED
    BY <2>1, <2>2
<1>3. CASE /\ r \in tmux' <=> r \in tmux
           /\ \/ man'[r] = man[r]
              \/ man'[r] = [man[r] EXCEPT !.state = "failed"]
              \/ man'[r] = [man[r] EXCEPT !.transport = Nobody]
  <2>1. man'[r].place = man[r].place /\ man'[r].session = man[r].session
    BY <1>1, <1>3 DEF Manifests
  <2> QED
    BY <1>2, <1>3, <2>1 DEF Holds
<1>4. CASE By(k, r) /\ at[k] \in Launching
  <2>1. /\ at[k] \in Creating => r \notin tmux
        /\ at[k] = "create" => man[r].session
        /\ at[k] = "write" => mem[k].copy = man[r]
        /\ MyRun(k) = r
    BY <1>1, <1>4 DEF Made, MadeBy, By, MyRun
  <2>2. man'[r].place = man[r].place /\ (man[r].session => man'[r].session)
    BY <1>1, <1>4, MakerKeeps DEF Made, By
  <2>3. CASE r \in tmux
    <3>1. r \in tmux'
      BY <1>2, <1>1, <2>3 DEF Holds, Made, MadeBy, By
    <3> QED
      BY <2>2, <2>3, <3>1 DEF Holds
  <2>4. CASE r \notin tmux
    <3>1. r \in tmux' => at[k] = "create"
      BY <1>4, <2>4 DEF Step, Crash, ListSessions, Inspect, Repair, Settle, SweptAll,
         Lock, LockBusy, Decide, ResolveTask, ReadPrepared, WritePrepared, Probe, Serve,
         Record, StartProxy, Create, Panes, Catch, Fail, Failed, HandOff, Detach, Cancel
    <3> QED
      BY <1>2, <1>4, <2>1, <2>2, <2>4, <3>1 DEF Holds, Creating
  <2> QED
    BY <2>3, <2>4
<1> QED
  BY <1>3, <1>4, Updaters

\* A session is of a run whose manifest says so.
LEMMA InTmuxStep ==
  ASSUME Shape, Shape', OneMaker, Judged, Made, InTmux, NEW k \in Launchers,
         Step(k) \/ Crash(k)
  PROVE  InTmux'
<1> SUFFICES ASSUME NEW r \in Runs, r \in tmux', r \notin resumed' PROVE man'[r].session
  BY DEF InTmux, Shape, Types
<1>1. Exists(r)
  <2>1. CASE r \in tmux
    BY <2>1 DEF Shape, Types
  <2>2. CASE r \notin tmux
    <3>1. at[k] = "create" /\ r = mem[k].run
      BY <2>2 DEF Step, Crash, ListSessions, Inspect, Repair, Settle, SweptAll, Lock, LockBusy,
         Decide, ResolveTask, ReadPrepared, WritePrepared, Probe, Serve, Record, StartProxy,
         Create, Panes, Catch, Fail, Failed, HandOff, Detach, Cancel, MyRun
    <3> QED
      BY <3>1 DEF Shape, Minds, MindOf, Launching
  <2> QED
    BY <2>1, <2>2
<1>2. Holds(r)' /\ r \notin resumed
  BY ResumedGrows DEF Holds, Next
<1>3. (man[r].session \/ r \in tmux) /\ (man[r].session => man'[r].session)
  BY <1>1, <1>2, HoldsBefore
<1> QED
  BY <1>2, <1>3 DEF InTmux

\* The lock is kept while its holder decides.
LEMMA LockStays ==
  ASSUME Shape, NEW l \in Launchers, at[l] = "scan", lock = l, NEW k \in Launchers, k # l,
         Step(k) \/ Crash(k)
  PROVE  lock' = l
<1>1. Alive(l) /\ l # Nobody
  BY DEF Alive, Working, Shape, LaunchAssumption
<1>2. CASE Lock(k) \/ Decide(k)
  BY <1>1, <1>2 DEF Lock, Decide
<1> QED
  BY <1>2 DEF Step, Crash, ListSessions, Inspect, Repair, Settle, SweptAll, LockBusy,
     ResolveTask, ReadPrepared, WritePrepared, Probe, Serve, Record, StartProxy, Create,
     Panes, Catch, Fail, Failed, HandOff, Detach, Cancel

\* While a launcher decides nobody else reserves, so what it read stays good.
LEMMA ScannedStep ==
  ASSUME Shape, Shape', OneMaker, Judged, Made, InTmux, Scanned, NEW k \in Launchers,
         Step(k) \/ Crash(k)
  PROVE  Scanned'
<1> SUFFICES ASSUME NEW l \in Launchers, at'[l] = "scan" PROVE ScannedBy(l)'
  BY DEF Scanned, ScannedBy
<1>1. CASE l # k
  <2>1. at[l] = "scan" /\ mem'[l] = mem[l] /\ lock = l
    BY <1>1, Others DEF Scanned, ScannedBy
  <2>2. lock' = l
    BY <1>1, <2>1, LockStays
  <2>3. ~Decide(k)
    BY <1>1, <2>1 DEF Scanned, ScannedBy, Decide
  <2> SUFFICES ASSUME NEW r \in Runs, Exists(r)', r \notin resumed', Holds(r)'
               PROVE  LET m == mem[l].copy[r]
                      IN  /\ m # Nobody /\ m.place = man'[r].place
                          /\ m.state \in Active \/ (m.session /\ r \in tmux')
    BY <2>1, <2>2 DEF ScannedBy
  <2>4. Exists(r) /\ r \notin resumed
    BY <2>3, OnlyNew, ResumedGrows DEF Next
  <2>5. Holds(r) /\ man'[r].place = man[r].place /\ (r \in tmux => r \in tmux')
    BY <2>4, HoldsBefore
  <2> QED
    BY <2>1, <2>4, <2>5 DEF Scanned, ScannedBy
<1>2. CASE l = k
  <2>1. Lock(k)
    BY <1>2, SMTT(90) DEF Step, Crash, ListSessions, Inspect, Repair, Settle, SweptAll, Lock, LockBusy,
       Decide, Refuse, ReserveNew, ReserveRequested, ResolveTask, ReadPrepared,
       WritePrepared, Probe, Serve, Record, StartProxy, Create, Panes, Catch, Fail, Failed,
       HandOff, Detach, Cancel, Goes, Shape, Types
  <2>2. lock' = k /\ mem'[k].copy = man /\ UNCHANGED <<man, tmux, resumed>>
    BY <2>1 DEF Lock, Shape, Types, Memory
  <2> SUFFICES ASSUME NEW r \in Runs, Exists(r), r \notin resumed, Holds(r)'
               PROVE  man[r].state \in Active \/ (man[r].session /\ r \in tmux)
    BY <1>2, <2>2 DEF ScannedBy, Exists
  <2>3. Holds(r)
    BY <2>2, HoldsBefore
  <2>4. CASE r \in tmux
    BY <2>4 DEF InTmux
  <2>5. CASE r \notin tmux
    BY <2>3, <2>5 DEF Holds, Made, MadeBy, By
  <2> QED
    BY <2>4, <2>5
<1> QED
  BY <1>1, <1>2

\* Who reserves a run is refused the workspace of every run that holds one.
LEMMA Granted ==
  ASSUME Shape, Scanned, NEW k \in Launchers, at[k] = "scan", mem[k].want = New,
         NEW live \in [Runs -> {"live", "dead", "unknown"}],
         \A r \in Runs : live[r] \in Answers(r), ~Refused(k, live),
         NEW q \in Runs, Exists(q), q \notin resumed, Holds(q)
  PROVE  ~Conflict(man[q].place, Place[k])
<1> PICK m : m = mem[k].copy[q]
  OBVIOUS
<1>1. /\ m # Nobody /\ m.place = man[q].place
      /\ m.state \in Active \/ (m.session /\ q \in tmux)
  BY DEF Scanned, ScannedBy
<1>2. q \in tmux => live[q] # "dead"
  BY DEF Answers
<1>3. CanStillOwn(m, live[q])
  BY <1>1, <1>2 DEF CanStillOwn
<1>4. q # New
  BY DEF Shape, LaunchAssumption
<1> QED
  BY <1>1, <1>3, <1>4 DEF Refused, Binding

\* Runs that hold their workspaces stay apart.
LEMMA ApartStep ==
  ASSUME Shape, Shape', OneMaker, Judged, Made, Scanned, Apart, NEW k \in Launchers,
         Step(k) \/ Crash(k)
  PROVE  Apart'
<1>1. ASSUME NEW r \in Runs, Exists(r)', r \notin resumed', Holds(r)'
      PROVE  \/ Exists(r) /\ r \notin resumed /\ Holds(r) /\ man'[r].place = man[r].place
             \/ /\ ~Exists(r) /\ Decide(k) /\ mem'[k].kind = "new" /\ mem'[k].run = r
                /\ man'[r].place = Place[k]
  <2>1. CASE Exists(r)
    BY <1>1, <2>1, HoldsBefore, ResumedGrows DEF Next
  <2>2. CASE ~Exists(r)
    <3>1. Decide(k) /\ mem'[k].kind = "new" /\ mem'[k].run = r
      BY <1>1, <2>2, OnlyNew
    <3> QED
      BY <2>2, <3>1, NewRun
  <2> QED
    BY <2>1, <2>2
<1>2. ASSUME NEW r \in Runs, NEW q \in Runs, r # q,
             Exists(q), q \notin resumed, Holds(q), man'[q].place = man[q].place,
             Decide(k), mem'[k].kind = "new", mem'[k].run = r,
             man'[r].place = Place[k]
      PROVE  ~Conflict(man'[q].place, man'[r].place)
  <2>1. at[k] = "scan"
    BY <1>2 DEF Decide
  <2>2. mem[k].want = New
    BY <1>2, NewRun
  <2>3. PICK live \in {f \in [Runs -> {"live", "dead", "unknown"}] :
                         \A p \in Runs : f[p] \in Answers(p)} : ~Refused(k, live)
    BY <1>2, NewRun
  <2> QED
    BY <1>2, <2>1, <2>2, <2>3, Granted
<1>3. ASSUME NEW r \in Runs, NEW q \in Runs, r # q, Exists(r)', Exists(q)',
             {r, q} \cap resumed' = {}, Holds(r)', Holds(q)'
      PROVE  ~Conflict(man'[r].place, man'[q].place)
  <2>1. r \notin resumed' /\ q \notin resumed'
    BY <1>3
  <2>2. CASE Exists(r) /\ Exists(q)
    <3>1. /\ r \notin resumed /\ Holds(r) /\ man'[r].place = man[r].place
          /\ q \notin resumed /\ Holds(q) /\ man'[q].place = man[q].place
      BY <1>1, <1>3, <2>1, <2>2
    <3> QED
      BY <1>3, <2>2, <3>1 DEF Apart
  <2>3. CASE ~Exists(r) /\ Exists(q)
    <3>1. ~Conflict(man'[q].place, man'[r].place)
      BY <1>1, <1>2, <1>3, <2>1, <2>3
    <3> QED
      BY <3>1 DEF Conflict
  <2>4. CASE Exists(r) /\ ~Exists(q)
    BY <1>1, <1>2, <1>3, <2>1, <2>4
  <2>5. CASE ~Exists(r) /\ ~Exists(q)
    BY <1>1, <1>3, <2>1, <2>5
  <2> QED
    BY <2>2, <2>3, <2>4, <2>5
<1> QED
  BY <1>3 DEF Apart

-----------------------------------------------------------------------------
(* The inductive invariant.                                                *)

LaunchInv ==
  Shape /\ OneMaker /\ Made /\ Unmade /\ Judged /\ InTmux /\ Scanned /\ Apart

\* At the start there is at most the run of an earlier launch.
LEMMA InvInit == LaunchAssumption /\ Init => LaunchInv
<1> SUFFICES ASSUME LaunchAssumption, Init PROVE LaunchInv
  OBVIOUS
<1>1. /\ \A l \in Launchers : at[l] = "start" /\ mem[l].kind = "none"
      /\ tmux = {} /\ resumed = {}
  BY DEF Init, Empty
<1>2. \A r \in Runs : Exists(r) => man[r].pid = Old /\ man[r].transport = Nobody
  <2>1. PICK l \in Launchers, old \in BOOLEAN, s \in {"failed", "submitted"} :
          man = [r \in Runs |-> IF old /\ r = First
                                THEN [Earlier(l) EXCEPT !.state = s] ELSE Nobody]
    BY DEF Init
  <2> QED
    BY <2>1 DEF Exists, Earlier
<1>3. OneMaker /\ Made
  BY <1>1 DEF OneMaker, Made, MadeBy
<1>4. Unmade /\ Judged
  BY <1>1, <1>2 DEF Unmade, Judged, JudgedBy
<1>5. InTmux /\ Scanned /\ Apart
  BY <1>1 DEF InTmux, Scanned, ScannedBy, Apart, Holds, By
<1> QED
  BY <1>3, <1>4, <1>5, ShapeInit DEF LaunchInv

\* A session that ends takes nothing from the others.
LEMMA SessionStep ==
  ASSUME LaunchInv, Shape', NEW e \in Runs, SessionEnds(e)
  PROVE  LaunchInv'
<1>1. /\ Exists(e) /\ e \in tmux /\ tmux' = tmux \ {e}
      /\ UNCHANGED <<lock, server, at, mem, resumed>>
  BY DEF LaunchInv, Shape, Types, SessionEnds
<1>2. ASSUME NEW r \in Runs, Exists(r)
      PROVE  /\ man'[r].pid = man[r].pid /\ man'[r].transport = man[r].transport
             /\ man'[r].session = man[r].session /\ man'[r].place = man[r].place
             /\ r # e => man'[r] = man[r]
  <2>1. man[r] \in Manifests
    BY <1>2 DEF LaunchInv, Shape, Types, Exists
  <2>2. man'[r] = man[r] \/ (r = e /\ man'[r] = [man[r] EXCEPT !.state = "completed"])
    BY DEF SessionEnds, Update, LaunchInv, Shape, Types
  <2>3. CASE man'[r] = [man[r] EXCEPT !.state = "completed"] /\ r = e
    BY <2>1, <2>3 DEF Manifests
  <2> QED
    BY <2>2, <2>3
<1>3. \A r \in Runs : Exists(r)' <=> Exists(r)
  <2>1. \A r \in Runs : r # e => man'[r] = man[r]
    BY DEF SessionEnds, Update, LaunchInv, Shape, Types
  <2>2. Exists(e)'
    BY <1>1, TypesStep DEF Next, LaunchInv
  <2> QED
    BY <1>1, <2>1, <2>2 DEF Exists
<1>4. \A l \in Launchers : By(l, e) /\ e \notin resumed => at[l] \notin Creating
  BY <1>1 DEF LaunchInv, Made, MadeBy, By
<1>5. \A r \in Runs : Holds(r)' => Holds(r)
  BY <1>1 DEF Holds, By
<1>6. OneMaker'
  BY <1>1 DEF LaunchInv, OneMaker
<1>7. Made'
  <2> SUFFICES ASSUME NEW l \in Launchers, mem[l].kind = "new", mem[l].run \notin resumed
               PROVE  MadeBy(l)'
    BY <1>1 DEF Made, MadeBy
  <2>1. mem[l].run \in Runs /\ Exists(mem[l].run) /\ MadeBy(l)
    BY DEF LaunchInv, Made, Shape, Minds, MindOf
  <2>2. CASE mem[l].run = e
    BY <1>1, <1>2, <1>4, <2>1, <2>2 DEF MadeBy, By, Creating
  <2>3. CASE mem[l].run # e
    BY <1>1, <1>2, <2>1, <2>3 DEF MadeBy
  <2> QED
    BY <2>2, <2>3
<1>8. Unmade'
  BY <1>1, <1>2, <1>3 DEF LaunchInv, Unmade, By
<1>9. Judged'
  <2> SUFFICES ASSUME NEW l \in Launchers, at[l] \in {"repair", "settle"} PROVE JudgedBy(l)'
    BY <1>1 DEF Judged, JudgedBy
  <2>1. mem[l].run \in Runs /\ Exists(mem[l].run) /\ JudgedBy(l)
    BY DEF LaunchInv, Judged, Shape, Minds, MindOf
  <2> QED
    BY <1>1, <1>2, <2>1 DEF JudgedBy, Alive, By
<1>10. InTmux'
  BY <1>1, <1>2 DEF LaunchInv, InTmux, Shape, Types
<1>11. Scanned'
  <2> SUFFICES ASSUME NEW l \in Launchers, at[l] = "scan" PROVE ScannedBy(l)'
    BY <1>1 DEF Scanned, ScannedBy
  <2> SUFFICES ASSUME NEW r \in Runs, Exists(r), r \notin resumed, Holds(r)'
               PROVE  LET m == mem[l].copy[r]
                      IN  /\ m # Nobody /\ m.place = man'[r].place
                          /\ m.state \in Active \/ (m.session /\ r \in tmux')
    BY <1>1, <1>3 DEF LaunchInv, Scanned, ScannedBy
  <2>1. r # e
    BY <1>1, <1>4 DEF Holds, By
  <2> QED
    BY <1>1, <1>2, <1>5, <2>1 DEF LaunchInv, Scanned, ScannedBy
<1>12. Apart'
  BY <1>1, <1>2, <1>3, <1>5 DEF LaunchInv, Apart
<1> QED
  BY <1>6, <1>7, <1>8, <1>9, <1>10, <1>11, <1>12 DEF LaunchInv

\* Every step keeps it.
LEMMA InvStep == ASSUME LaunchInv, [Next]_vars PROVE LaunchInv'
<1>1. Shape' /\ OneMaker'
  BY ShapeStep, OneMakerStep DEF LaunchInv
<1>2. ASSUME NEW k \in Launchers, Step(k) \/ Crash(k) PROVE LaunchInv'
  BY <1>1, <1>2, MadeStep, UnmadeStep, JudgedStep, InTmuxStep, ScannedStep, ApartStep
     DEF LaunchInv
<1>3. ASSUME NEW r \in Runs, SessionEnds(r) PROVE LaunchInv'
  BY <1>1, <1>3, SessionStep
<1>4. CASE UNCHANGED vars
  <2>1. OneMaker' /\ Made' /\ Unmade' /\ Judged' /\ InTmux'
    BY <1>4 DEF vars, LaunchInv, OneMaker, Made, MadeBy, Unmade, Judged, JudgedBy, InTmux,
       By, Exists, Alive
  <2>2. Scanned' /\ Apart'
    BY <1>4 DEF vars, LaunchInv, Scanned, ScannedBy, Apart, Holds, By, Exists
  <2> QED
    BY <1>1, <2>1, <2>2 DEF LaunchInv
<1> QED
  BY <1>2, <1>3, <1>4 DEF Next

\* The types of the launch, which gcAbandonedRunProcesses and the launchers keep.
THEOREM TypeCorrect == ASSUME LaunchAssumption PROVE Spec => []TypeOK
<1>1. Shape => TypeOK
  BY DEF Shape, Types, TypeOK, Memory, Before, Launching, Working
<1>2. Init => Shape
  BY ShapeInit
<1>3. Shape /\ [Next]_vars => Shape'
  BY ShapeStep
<1> QED
  BY <1>1, <1>2, <1>3, PTL DEF Spec

\* Two live sessions never share a workspace or a branch unless one was resumed cold, and
\* an app server that outlives its launcher is named in the manifest
\* (reservePairedLaunch, terminalizeFailedStart).
THEOREM LaunchHolds == ASSUME LaunchAssumption PROVE Spec => []LaunchKept
<1>1. LaunchInv => LaunchKept
  <2> SUFFICES ASSUME LaunchInv PROVE LaunchKept
    OBVIOUS
  <2>1. OneOwnerUnlessResumed
    BY DEF OneOwnerUnlessResumed, LaunchInv, Apart, Holds, Shape, Types
  <2>2. ServerAccounted
    <3> SUFFICES ASSUME NEW l \in Launchers, server[l] = "up", at[l] \in {"out", "handed"},
                        MyRun(l) \notin resumed
                 PROVE  man[MyRun(l)].transport = l
      BY DEF ServerAccounted
    <3>1. mem[l] \in Memory /\ MindOf(l) /\ MadeBy(l)
      BY DEF LaunchInv, Shape, Types, Minds, Made
    <3>2. mem[l].kind = "new"
      BY <3>1 DEF MindOf, Memory, MyRun
    <3> QED
      BY <3>1, <3>2 DEF MadeBy, MyRun
  <2> QED
    BY <2>1, <2>2 DEF LaunchKept
<1>2. Init => LaunchInv
  BY InvInit
<1>3. LaunchInv /\ [Next]_vars => LaunchInv'
  BY InvStep
<1> QED
  BY <1>1, <1>2, <1>3, PTL DEF Spec
-----------------------------------------------------------------------------
(* The Claude client.  Its child answers the prompts in the order they are *)
(* written, and as long as no turn of the child is given up, nothing is on *)
(* its way between two turns: what is read belongs to the turn that waits. *)

CONSTANTS Models, MaxTurns, MaxProcs, MaxFails
VARIABLES conf, client, procs, told, where, want, turns, fails
C == INSTANCE ClaudeSdk WITH MaxFaults <- MaxFails, at <- where, faults <- fails

\* What a child reads and writes, a child, a turn, and the fields of the client.
Ask == [turn : Nat, part : {"prompt", "continue"}]
Said == [kind : {"init", "task", "result"}, turn : Nat, tasks : BOOLEAN, proc : Nat]
ModelNames == Models \cup {"none"}
ChildRecord == [life : {"up", "ending", "dead"}, model : ModelNames, inbox : Seq(Ask),
                out : Seq(Said), busy : BOOLEAN, session : 1 .. C!Prior]
Outcomes == {"open", "failed", "result", "timeout", "exit", "closed"}
TurnRecord == [model : ModelNames, outcome : Outcomes,
               proc : Nat, by : Seq(Said \cup [proc : Nat]),
               knew : SUBSET Nat]
ClientRecord == [child : Nat, ready : BOOLEAN, started : BOOLEAN, model : ModelNames,
           session : 0 .. C!Prior, last : 0 .. C!Prior, resume : 0 .. C!Prior, turn : Nat,
           tasks : BOOLEAN, draining : BOOLEAN]
Places == {"idle", "restart", "launch", "grace", "write", "await", "after", "closing", "closed"}

SdkTypes ==
  /\ client \in ClientRecord /\ procs \in Seq(ChildRecord) /\ turns \in Seq(TurnRecord)
  /\ where \in Places
  /\ conf \in [persistent : BOOLEAN, prior : {0, C!Prior}]
  /\ want \in [model : ModelNames, resume : 0 .. C!Prior, start : BOOLEAN]
  /\ told \in [1 .. C!Prior -> SUBSET Nat] /\ fails \in Nat

\* All children but the client's have exited, and once it is ready nothing of theirs is unread.
ChildOK ==
  /\ client.child \in 0 .. Len(procs)
  /\ client.started <=> client.child # 0
  /\ client.ready => client.started
  /\ client.started /\ where # "grace" => client.ready
  /\ where \in {"restart", "grace", "write", "await", "after"} => client.started
  /\ client.started => procs[client.child].model = client.model
  /\ client.started /\ where \in {"launch", "grace", "write"} => client.model = want.model
  /\ \A p \in DOMAIN procs :
       /\ p # client.child => procs[p].life = "dead"
       /\ procs[p].life = "dead" => procs[p].inbox = << >>
       /\ client.ready /\ p # client.child => procs[p].out = << >>
       /\ \A k \in DOMAIN procs[p].out : procs[p].out[k].proc = p

\* The turn that is open is the last one, and the client's child has it.
TurnOK ==
  /\ client.turn # 0 => /\ where = "await" /\ client.turn = Len(turns)
                        /\ turns[client.turn].outcome = "open"
                        /\ turns[client.turn].proc = client.child
  /\ where \in {"restart", "launch", "grace", "write"} /\ ~want.start =>
       /\ Len(turns) # 0 /\ turns[Len(turns)].outcome = "open"
       /\ turns[Len(turns)].proc = 0 /\ turns[Len(turns)].model = want.model
  /\ where = "write" => ~want.start
  /\ \A j \in DOMAIN turns :
       /\ turns[j].proc \in 0 .. Len(procs)
       /\ turns[j].proc # 0 => procs[turns[j].proc].model = turns[j].model

\* No turn of child p was given up.
Faithful(p) ==
  \A i \in DOMAIN turns : turns[i].proc = p => turns[i].outcome \notin {"timeout", "exit"}

Says(k, j, tasks, p) == [kind |-> k, turn |-> j, tasks |-> tasks, proc |-> p]
\* Between two turns nothing is on its way; within one, its prompt or its answer.
Quiet(p) == procs[p].inbox = << >> /\ procs[p].out = << >>
Asked(p, j) ==
  /\ procs[p].out = << >> /\ ~client.tasks /\ ~client.draining
  /\ \E part \in {"prompt", "continue"} : procs[p].inbox = <<[turn |-> j, part |-> part]>>
Answering(p, j) ==
  /\ procs[p].inbox = << >> /\ ~client.draining
  /\ \/ /\ ~client.tasks
        /\ procs[p].out \in {<<Says("init", j, FALSE, p), Says("result", j, FALSE, p)>>,
                             <<Says("result", j, FALSE, p)>>,
                             <<Says("init", j, TRUE, p), Says("task", j, TRUE, p),
                               Says("result", j, TRUE, p)>>,
                             <<Says("task", j, TRUE, p), Says("result", j, TRUE, p)>>}
     \/ client.tasks /\ procs[p].out = <<Says("result", j, TRUE, p)>>
Talking(p, j) == Quiet(p) \/ Asked(p, j) \/ Answering(p, j)

Exchange ==
  where \notin {"closing", "closed"} /\ client.child # 0 /\ Faithful(client.child) =>
    IF client.turn = 0 THEN Quiet(client.child) ELSE Talking(client.child, client.turn)

SdkInv == SdkTypes /\ ChildOK /\ TurnOK /\ Exchange /\ C!OwnAnswer /\ C!OwnChild

\* A turn keeps its model, its child and, once it is settled, its outcome and whose that was.
Lasting ==
  /\ \A j \in DOMAIN turns :
       /\ j \in DOMAIN turns' /\ turns'[j].model = turns[j].model
       /\ turns[j].outcome # "open" =>
             turns'[j].outcome = turns[j].outcome /\ turns'[j].by = turns[j].by
       /\ turns[j].proc # 0 \/ turns[j].outcome # "open" => turns'[j].proc = turns[j].proc
  /\ \A p \in DOMAIN procs : p \in DOMAIN procs' /\ procs'[p].model = procs[p].model

\* No settled turn is settled again, and a step that settles none by a result or an exit leaves
\* whose they were.
LEMMA OwnStays ==
  ASSUME SdkInv, SdkTypes', TurnOK', Lasting,
         \A j \in DOMAIN turns' : turns'[j].outcome \in {"result", "exit"} =>
           j \in DOMAIN turns /\ turns[j].outcome = turns'[j].outcome
  PROVE  C!OwnAnswer' /\ C!OwnChild'
<1>1. /\ turns \in Seq(TurnRecord) /\ turns' \in Seq(TurnRecord) /\ Len(turns) \in Nat
      /\ DOMAIN turns = 1 .. Len(turns) /\ DOMAIN turns' = 1 .. Len(turns')
  BY DEF SdkInv, SdkTypes
<1>2. ASSUME NEW j \in DOMAIN turns', turns'[j].outcome = "result"
      PROVE  /\ turns'[j].by[1].proc = turns'[j].proc
             /\ \/ turns'[j].by[1].turn = j /\ ~turns'[j].by[1].tasks
                \/ \E i \in C!Left(j)' : turns'[i].proc = turns'[j].proc
  <2>1. /\ j \in DOMAIN turns /\ turns[j].outcome = "result"
        /\ turns'[j].by = turns[j].by /\ turns'[j].proc = turns[j].proc
    BY <1>2 DEF Lasting
  <2>2. \/ turns[j].by[1].turn = j /\ ~turns[j].by[1].tasks
        \/ \E i \in C!Left(j) : turns[i].proc = turns[j].proc
    BY <2>1 DEF SdkInv, C!OwnAnswer
  <2>3. ASSUME NEW i \in C!Left(j) PROVE i \in C!Left(j)' /\ turns'[i].proc = turns[i].proc
    <3>1. i \in 1 .. j - 1 /\ i \in DOMAIN turns /\ turns[i].outcome \in {"timeout", "exit"}
      BY <1>1, <2>1 DEF C!Left
    <3> QED
      BY <3>1 DEF C!Left, Lasting
  <2> QED
    BY <2>1, <2>2, <2>3 DEF SdkInv, C!OwnAnswer
<1>3. C!OwnAnswer'
  BY <1>2 DEF C!OwnAnswer
<1>4. C!OwnChild'
  BY DEF C!OwnChild, SdkInv, Lasting, TurnOK
<1> QED
  BY <1>3, <1>4

\* Neither a turn nor a child is touched.
LEMMA Untold ==
  ASSUME SdkInv, UNCHANGED <<procs, turns>>, SdkTypes', TurnOK'
  PROVE  C!OwnAnswer' /\ C!OwnChild'
BY DEF SdkInv, C!OwnAnswer, C!OwnChild, C!Left

\* The fields after cleanup().
LEMMA CleanedType ==
  ASSUME C!SdkConstants, NEW c \in ClientRecord
  PROVE  /\ C!Cleaned(c) \in ClientRecord
         /\ C!Cleaned(c).child = 0 /\ ~C!Cleaned(c).started /\ ~C!Cleaned(c).ready
         /\ C!Cleaned(c).turn = c.turn
<1>1. 0 \in 0 .. C!Prior /\ 0 \in Nat
  BY DEF C!SdkConstants, C!Prior
<1> QED
  BY <1>1 DEF C!Cleaned, ClientRecord

\* cleanup() once the child has exited.
LEMMA CleanedStep ==
  ASSUME C!SdkConstants, SdkInv, C!Dead, where \in {"restart", "after", "closing"},
         client' = C!Cleaned(client),
         where' \in {"launch", "idle", "closed"}, where' = "launch" => where = "restart",
         UNCHANGED <<conf, procs, told, want, turns, fails>>
  PROVE  SdkInv'
<1>1. SdkTypes'
  BY CleanedType DEF SdkInv, SdkTypes, Places
<1>2. /\ client'.child = 0 /\ ~client'.started /\ ~client'.ready /\ client'.turn = client.turn
  BY CleanedType DEF SdkInv, SdkTypes
<1>3. ChildOK'
  BY <1>1, <1>2 DEF SdkInv, SdkTypes, ChildOK, C!Dead, C!Child
<1>4. TurnOK'
  BY <1>2 DEF SdkInv, TurnOK
<1>5. Exchange'
  BY <1>2 DEF Exchange
<1> QED
  BY <1>1, <1>3, <1>4, <1>5, Untold DEF SdkInv

\* The three steps that go on after the child has gone: a restart, a failed turn, and close.
LEMMA CleanStep ==
  ASSUME C!SdkConstants, SdkInv, C!Restarted \/ C!ClosedAfterTurn \/ C!Closed PROVE SdkInv'
BY CleanedStep DEF C!Restarted, C!ClosedAfterTurn, C!Closed, C!Gone

\* What is appended, and what is changed in place.
LEMMA Longer ==
  ASSUME NEW S, NEW s \in Seq(S), NEW e \in S, NEW t, t = Append(s, e)
  PROVE  /\ t \in Seq(S) /\ Len(t) = Len(s) + 1 /\ t[Len(t)] = e
         /\ \A j \in DOMAIN s : j \in DOMAIN t /\ t[j] = s[j]
         /\ \A j \in DOMAIN t : j \in DOMAIN s \/ j = Len(t)
OBVIOUS
\* One element of a list is replaced, and the others stay.
LEMMA Changed ==
  ASSUME NEW S, NEW s \in Seq(S), NEW i \in DOMAIN s, NEW e \in S, NEW t, t = [s EXCEPT ![i] = e]
  PROVE  /\ t \in Seq(S) /\ Len(t) = Len(s) /\ DOMAIN t = DOMAIN s
         /\ t[i] = e /\ \A j \in DOMAIN s \ {i} : t[j] = s[j]
BY ExceptSeq

\* A child that is told to exit goes on with what it has read.
LEMMA KilledOK ==
  ASSUME SdkInv
  PROVE  LET ps == C!Killed(client.child)
         IN  /\ ps \in Seq(ChildRecord) /\ Len(ps) = Len(procs) /\ DOMAIN ps = DOMAIN procs
             /\ \A p \in DOMAIN procs :
                  /\ ps[p].model = procs[p].model /\ ps[p].inbox = procs[p].inbox
                  /\ ps[p].out = procs[p].out /\ ps[p].session = procs[p].session
                  /\ ps[p].life = "up" => procs[p].life = "up"
                  /\ ps[p].life = "dead" <=> procs[p].life = "dead"
<1> DEFINE p == client.child
           e == [procs[p] EXCEPT !.life = "ending"]
<1>1. procs \in Seq(ChildRecord) /\ p \in 0 .. Len(procs)
  BY DEF SdkInv, SdkTypes, ChildOK
<1>2. CASE p = 0 \/ procs[p].life = "dead"
  BY <1>1, <1>2 DEF C!Killed
<1>3. CASE p # 0 /\ procs[p].life # "dead"
  <2>1. p \in DOMAIN procs /\ procs[p] \in ChildRecord
    BY <1>1, <1>3
  <2>2. e \in ChildRecord /\ e.life = "ending" /\ e.model = procs[p].model
        /\ e.inbox = procs[p].inbox /\ e.out = procs[p].out /\ e.session = procs[p].session
    BY <2>1 DEF ChildRecord
  <2>3. C!Killed(p) = [procs EXCEPT ![p] = e]
    BY <1>3, <2>1 DEF C!Killed
  <2> HIDE DEF e, p
  <2>4. /\ C!Killed(p) \in Seq(ChildRecord) /\ Len(C!Killed(p)) = Len(procs)
        /\ DOMAIN C!Killed(p) = DOMAIN procs
        /\ C!Killed(p)[p] = e /\ \A j \in DOMAIN procs \ {p} : C!Killed(p)[j] = procs[j]
    BY <1>1, <2>1, <2>2, <2>3, Changed
  <2> QED
    BY <1>3, <2>2, <2>4 DEF p
<1> QED
  BY <1>1, <1>2, <1>3

\* A call: it may have the child it cannot use killed.
LEMMA CallStep ==
  ASSUME C!SdkConstants, SdkInv, NEW m \in Models, NEW start \in BOOLEAN, C!Call(m, start)
  PROVE  SdkInv'
<1> DEFINE r == IF turns = << >> THEN conf.prior ELSE 0
           again == C!NeedsRestart(m, r)
           new == [model |-> m, outcome |-> "open", proc |-> 0, by |-> << >>, knew |-> {}]
<1>1. /\ SdkTypes /\ where = "idle" /\ where' = IF again THEN "restart" ELSE "launch"
      /\ want'.model = m /\ want'.start = start
      /\ turns' = IF start THEN turns ELSE Append(turns, new)
      /\ procs' = IF again THEN C!Killed(client.child) ELSE procs
      /\ UNCHANGED <<conf, client, told, fails>>
  BY DEF SdkInv, C!Call
<1>2. want' \in [model : ModelNames, resume : 0 .. C!Prior, start : BOOLEAN]
  <2>1. C!Known(r) \in 0 .. C!Prior /\ r \in 0 .. C!Prior
    BY <1>1 DEF SdkTypes, C!Known, ClientRecord, C!SdkConstants, C!Prior
  <2> QED
    BY <2>1 DEF C!Call, ModelNames
<1>3. new \in TurnRecord
  BY DEF TurnRecord, Outcomes, ModelNames
<1>4. /\ turns' \in Seq(TurnRecord) /\ Len(turns') \in {Len(turns), Len(turns) + 1}
      /\ \A j \in DOMAIN turns : turns'[j] = turns[j]
      /\ \A j \in DOMAIN turns' \ DOMAIN turns : turns'[j] = new
      /\ ~start => Len(turns') = Len(turns) + 1 /\ turns'[Len(turns')] = new
  <2>1. turns \in Seq(TurnRecord)
    BY <1>1 DEF SdkTypes
  <2>2. CASE start
    BY <1>1, <2>1, <2>2
  <2>3. CASE ~start
    <3> HIDE DEF new
    <3>1. turns' = Append(turns, new)
      BY <1>1, <2>3
    <3> QED
      BY <1>3, <2>1, <3>1, Longer
  <2> QED
    BY <2>2, <2>3
<1>5. /\ procs' \in Seq(ChildRecord) /\ Len(procs') = Len(procs)
      /\ \A p \in DOMAIN procs :
           /\ procs'[p].model = procs[p].model /\ procs'[p].inbox = procs[p].inbox
           /\ procs'[p].out = procs[p].out
           /\ procs'[p].life = "dead" <=> procs[p].life = "dead"
  BY <1>1, KilledOK DEF SdkTypes
<1>6. SdkTypes'
  BY <1>1, <1>2, <1>4, <1>5 DEF SdkTypes, Places
<1>7. again => client.started
  BY DEF C!NeedsRestart
<1>8. client.started /\ ~again => client.model = m
  BY DEF C!NeedsRestart
<1>9. ChildOK'
  BY <1>1, <1>5, <1>6, <1>7, <1>8 DEF SdkInv, ChildOK, SdkTypes
<1>10. TurnOK'
  BY <1>1, <1>4, <1>5, <1>6, SMTT(30) DEF SdkInv, TurnOK, SdkTypes
<1>11. Lasting
  BY <1>1, <1>4, <1>5 DEF Lasting, SdkTypes
<1>12. Exchange'
  <2>1. SUFFICES ASSUME client.child # 0, Faithful(client.child)' PROVE Quiet(client.child)'
    <3>1. client' = client /\ client.turn = 0 /\ where # "await"
      BY <1>1 DEF SdkInv, TurnOK
    <3> QED
      BY <3>1 DEF Exchange, Faithful, Quiet
  <2>2. Faithful(client.child)
    BY <1>1, <1>4, <2>1 DEF Faithful, SdkTypes
  <2>3. Quiet(client.child) /\ client.child \in DOMAIN procs
    BY <1>1, <2>1, <2>2 DEF SdkInv, Exchange, ChildOK, TurnOK, SdkTypes
  <2> QED
    BY <1>1, <1>5, <2>3 DEF Quiet
<1> QED
  BY <1>4, <1>6, <1>9, <1>10, <1>11, <1>12, OwnStays DEF SdkInv

\* A turn is settled; it keeps its model and its child.
LEMMA SettledOK ==
  ASSUME SdkTypes, NEW j \in DOMAIN turns, NEW o \in Outcomes,
         NEW e, e = [turns[j] EXCEPT !.outcome = o], turns' = [turns EXCEPT ![j] = e]
  PROVE  /\ turns' \in Seq(TurnRecord) /\ Len(turns') = Len(turns) /\ DOMAIN turns' = DOMAIN turns
         /\ \A i \in DOMAIN turns :
              /\ turns'[i].model = turns[i].model /\ turns'[i].proc = turns[i].proc
              /\ turns'[i].by = turns[i].by /\ turns'[i].knew = turns[i].knew
              /\ turns'[i].outcome = (IF i = j THEN o ELSE turns[i].outcome)
<1>1. turns \in Seq(TurnRecord) /\ turns[j] \in TurnRecord
  BY DEF SdkTypes
<1>2. /\ e \in TurnRecord /\ e.outcome = o /\ e.model = turns[j].model
      /\ e.proc = turns[j].proc /\ e.by = turns[j].by /\ e.knew = turns[j].knew
  BY <1>1 DEF TurnRecord
<1>3. /\ turns' \in Seq(TurnRecord) /\ Len(turns') = Len(turns) /\ DOMAIN turns' = DOMAIN turns
      /\ turns'[j] = e /\ \A i \in DOMAIN turns \ {j} : turns'[i] = turns[i]
  BY <1>1, <1>2, Changed
<1> QED
  BY <1>2, <1>3

\* The child could not be started: the fields are cleaned, and the turn has failed.
LEMMA FailStep ==
  ASSUME C!SdkConstants, SdkInv, where \in {"launch", "grace"}, C!Dead, NEW c \in ClientRecord,
         c.turn = client.turn, C!CallFails(C!Cleaned(c)), fails' \in Nat,
         UNCHANGED <<conf, procs, told, want>>
  PROVE  SdkInv'
<1>1. /\ client' = C!Cleaned(c) /\ turns' = C!Settled("failed") /\ where' = "idle"
      /\ SdkTypes /\ client.turn = 0
  BY DEF C!CallFails, SdkInv, TurnOK
<1>2. /\ client' \in ClientRecord /\ client'.child = 0 /\ ~client'.started /\ ~client'.ready
      /\ client'.turn = 0
  BY <1>1, CleanedType
<1>3. /\ turns' \in Seq(TurnRecord) /\ Len(turns') = Len(turns) /\ DOMAIN turns' = DOMAIN turns
      /\ \A i \in DOMAIN turns :
           /\ turns'[i].model = turns[i].model /\ turns'[i].proc = turns[i].proc
           /\ turns'[i].by = turns[i].by
           /\ turns'[i].outcome = turns[i].outcome
                \/ (turns[i].outcome = "open" /\ turns'[i].outcome = "failed")
  <2>1. CASE want.start
    BY <1>1, <2>1 DEF C!Settled, SdkTypes
  <2>2. CASE ~want.start
    <3>1. /\ Len(turns) \in DOMAIN turns /\ turns[Len(turns)].outcome = "open"
          /\ "failed" \in Outcomes
      BY <1>1, <2>2 DEF SdkInv, TurnOK, SdkTypes, Outcomes
    <3> DEFINE e == [turns[Len(turns)] EXCEPT !.outcome = "failed"]
    <3>2. turns' = [turns EXCEPT ![Len(turns)] = e]
      BY <1>1, <2>2 DEF C!Settled, C!This
    <3>3. e = [turns[Len(turns)] EXCEPT !.outcome = "failed"]
      OBVIOUS
    <3> HIDE DEF e
    <3> QED
      BY <1>1, <3>1, <3>2, <3>3, SettledOK
  <2> QED
    BY <2>1, <2>2
<1>4. SdkTypes'
  BY <1>1, <1>2, <1>3 DEF SdkTypes, Places
<1>5. ChildOK'
  BY <1>1, <1>2, <1>4 DEF SdkInv, SdkTypes, ChildOK, C!Dead, C!Child
<1>6. TurnOK'
  BY <1>1, <1>2, <1>3 DEF SdkInv, TurnOK
<1>7. Exchange'
  BY <1>2 DEF Exchange
<1>8. Lasting
  BY <1>3 DEF Lasting
<1> QED
  BY <1>3, <1>4, <1>5, <1>6, <1>7, <1>8, OwnStays DEF SdkInv

\* start(): the child that is there, none, or a new one.
LEMMA LaunchStep == ASSUME C!SdkConstants, SdkInv, C!Launch PROVE SdkInv'
<1> DEFINE resume == IF want.resume # 0 /\ client.child = 0 THEN want.resume ELSE client.resume
           set == [client EXCEPT !.model = want.model, !.resume = resume]
           none == [set EXCEPT !.resume = 0]
           p == Len(procs) + 1
           new == [life |-> "up", model |-> want.model, inbox |-> << >>, out |-> << >>,
                   busy |-> FALSE, session |-> IF resume # 0 THEN resume ELSE p]
<1>1. SdkTypes /\ where = "launch" /\ UNCHANGED <<conf, told, want>> /\ client.turn = 0
  BY DEF SdkInv, C!Launch, TurnOK
<1>2. 0 \in 0 .. C!Prior /\ resume \in 0 .. C!Prior
  BY <1>1 DEF SdkTypes, ClientRecord, C!SdkConstants, C!Prior
<1>3. /\ set \in ClientRecord /\ set.model = want.model /\ set.child = client.child
      /\ set.started = client.started /\ set.ready = client.ready /\ set.turn = client.turn
      /\ none \in ClientRecord /\ none.turn = client.turn
  BY <1>1, <1>2 DEF SdkTypes, ClientRecord
<1>4. CASE client.started
  <2>1. /\ client' = set /\ where' = (IF want.start THEN "idle" ELSE "write")
        /\ UNCHANGED <<procs, turns, fails>>
    BY <1>4 DEF C!Launch
  <2> HIDE DEF set
  <2>2. SdkTypes'
    BY <1>1, <1>3, <2>1 DEF SdkTypes, Places
  <2>3. ChildOK'
    BY <1>1, <1>3, <1>4, <2>1 DEF SdkInv, ChildOK
  <2>4. TurnOK'
    BY <1>1, <1>3, <2>1 DEF SdkInv, TurnOK
  <2>5. Exchange'
    BY <1>1, <1>3, <2>1 DEF SdkInv, Exchange, Faithful, Quiet
  <2> QED
    BY <2>1, <2>2, <2>3, <2>4, <2>5, Untold DEF SdkInv
<1>5. CASE ~client.started /\ C!Fault /\ C!CallFails(C!Cleaned(none)) /\ UNCHANGED procs
  <2>1. C!Dead /\ fails' \in Nat
    BY <1>1, <1>5 DEF SdkInv, ChildOK, C!Dead, C!Fault, SdkTypes
  <2> HIDE DEF none
  <2> QED
    BY <1>1, <1>3, <1>5, <2>1, FailStep
<1>6. CASE /\ ~client.started /\ p <= MaxProcs /\ where' = "grace"
           /\ client' = [set EXCEPT !.resume = 0, !.started = TRUE, !.child = p]
           /\ procs' = Append(procs, new) /\ UNCHANGED <<turns, fails>>
  <2>1. client.child = 0 /\ ~client.ready /\ Len(procs) \in Nat /\ procs \in Seq(ChildRecord)
    BY <1>1, <1>6 DEF SdkInv, ChildOK, SdkTypes
  <2>2. /\ client' \in ClientRecord /\ client'.child = p /\ client'.started /\ ~client'.ready
        /\ client'.turn = 0 /\ client'.model = want.model
    <3>1. p \in Nat /\ client' = [set EXCEPT !.resume = 0, !.started = TRUE, !.child = p]
      BY <1>6, <2>1
    <3> HIDE DEF set, new, p
    <3>2. client' \in ClientRecord
      BY <1>2, <1>3, <3>1 DEF ClientRecord
    <3>3. /\ client'.child = p /\ client'.started /\ client'.ready = set.ready
          /\ client'.turn = set.turn /\ client'.model = set.model
      BY <1>3, <3>1 DEF ClientRecord
    <3> QED
      BY <1>1, <1>3, <2>1, <3>2, <3>3
  <2>3. new \in ChildRecord
    BY <1>1, <1>2, <1>6, <2>1 DEF SdkTypes, ChildRecord, C!SdkConstants, C!Prior
  <2>4. new.life = "up" /\ new.inbox = << >> /\ new.out = << >> /\ new.model = want.model
    OBVIOUS
  <2> HIDE DEF new, set
  <2>5. /\ procs' \in Seq(ChildRecord) /\ Len(procs') = p /\ procs'[p] = new
        /\ \A q \in DOMAIN procs : q \in DOMAIN procs' /\ procs'[q] = procs[q]
        /\ \A q \in DOMAIN procs' : q \in DOMAIN procs \/ q = p
    BY <1>6, <2>1, <2>3, Longer
  <2>6. SdkTypes'
    BY <1>1, <1>6, <2>2, <2>5 DEF SdkTypes, Places
  <2>7. ChildOK'
    BY <1>1, <1>6, <2>1, <2>2, <2>4, <2>5 DEF SdkInv, ChildOK
  <2>8. TurnOK'
    BY <1>1, <1>6, <2>1, <2>2, <2>5 DEF SdkInv, TurnOK
  <2>9. Exchange'
    BY <2>2, <2>4, <2>5 DEF Exchange, Quiet
  <2>10. Lasting
    BY <1>6, <2>5 DEF Lasting
  <2> QED
    BY <1>6, <2>6, <2>7, <2>8, <2>9, <2>10, OwnStays DEF SdkInv
<1> QED
  BY <1>4, <1>5, <1>6 DEF C!Launch

\* The grace is over: the child is gone, or what was left of the one before is dropped.
LEMMA StartedStep == ASSUME C!SdkConstants, SdkInv, C!Started PROVE SdkInv'
<1>1. /\ SdkTypes /\ where = "grace" /\ client.started /\ client.child \in DOMAIN procs
      /\ client.turn = 0 /\ UNCHANGED <<conf, told, want, fails>>
  BY DEF SdkInv, ChildOK, TurnOK, C!Started, SdkTypes
<1>2. CASE procs[client.child].life = "dead"
  <2>1. C!CallFails(C!Cleaned(client)) /\ UNCHANGED procs
    BY <1>2 DEF C!Started, C!Child
  <2>2. C!Dead /\ client \in ClientRecord /\ fails' \in Nat
    BY <1>1, <1>2 DEF C!Dead, C!Child, SdkTypes
  <2> QED
    BY <1>1, <2>1, <2>2, FailStep
<1>3. CASE procs[client.child].life # "dead"
  <2>1. /\ client' = [client EXCEPT !.ready = TRUE]
        /\ where' = IF want.start THEN "idle" ELSE "write"
        /\ procs' = [p \in DOMAIN procs |->
                       IF p = client.child THEN procs[p] ELSE [procs[p] EXCEPT !.out = << >>]]
        /\ UNCHANGED turns
    BY <1>3 DEF C!Started, C!Child
  <2>2. /\ client' \in ClientRecord /\ client'.child = client.child /\ client'.started /\ client'.ready
        /\ client'.turn = client.turn /\ client'.model = client.model
    BY <1>1, <2>1 DEF SdkTypes, ClientRecord
  <2>3. procs \in Seq(ChildRecord) /\ DOMAIN procs = 1 .. Len(procs) /\ Len(procs) \in Nat
    BY <1>1 DEF SdkTypes
  <2>4. ASSUME NEW p \in DOMAIN procs
        PROVE  /\ procs'[p] \in ChildRecord /\ procs'[p].model = procs[p].model
               /\ procs'[p].life = procs[p].life /\ procs'[p].inbox = procs[p].inbox
               /\ procs'[p].out = IF p = client.child THEN procs[p].out ELSE << >>
    <3>1. procs[p] \in ChildRecord
      BY <2>3
    <3>2. << >> \in Seq(Said)
      OBVIOUS
    <3> QED
      BY <2>1, <3>1, <3>2 DEF ChildRecord
  <2>5. procs' \in Seq(ChildRecord) /\ Len(procs') = Len(procs) /\ DOMAIN procs' = DOMAIN procs
    <3>1. procs' \in [1 .. Len(procs) -> ChildRecord]
      BY <2>1, <2>3, <2>4
    <3> QED
      BY <2>3, <3>1
  <2>6. SdkTypes'
    BY <1>1, <2>1, <2>2, <2>5 DEF SdkTypes, Places
  <2>7. ChildOK'
    BY <1>1, <2>1, <2>2, <2>4, <2>5 DEF SdkInv, ChildOK
  <2>8. TurnOK'
    BY <1>1, <2>1, <2>2, <2>4, <2>5 DEF SdkInv, TurnOK
  <2>9. Exchange'
    BY <1>1, <2>1, <2>2, <2>4, <2>5 DEF SdkInv, Exchange, Faithful, Quiet
  <2>10. Lasting
    BY <2>1, <2>4, <2>5 DEF Lasting
  <2> QED
    BY <2>1, <2>6, <2>7, <2>8, <2>9, <2>10, OwnStays DEF SdkInv
<1> QED
  BY <1>2, <1>3

\* What is written to a child that is not up is lost.
LEMMA SentOK ==
  ASSUME SdkInv, NEW j \in Nat, NEW part \in {"prompt", "continue"}, procs' = C!Sent(j, part)
  PROVE  /\ procs' \in Seq(ChildRecord) /\ Len(procs') = Len(procs) /\ DOMAIN procs' = DOMAIN procs
         /\ \A p \in DOMAIN procs :
              /\ procs'[p].model = procs[p].model /\ procs'[p].life = procs[p].life
              /\ procs'[p].out = procs[p].out /\ procs'[p].session = procs[p].session
              /\ procs'[p].inbox = IF p = client.child /\ procs[p].life = "up"
                               THEN Append(procs[p].inbox, [turn |-> j, part |-> part])
                               ELSE procs[p].inbox
<1> DEFINE c == client.child
           ask == [turn |-> j, part |-> part]
           e == [procs[c] EXCEPT !.inbox = Append(@, ask)]
<1>1. procs \in Seq(ChildRecord) /\ c \in 0 .. Len(procs)
  BY DEF SdkInv, SdkTypes, ChildOK
<1>2. CASE c = 0 \/ procs[c].life # "up"
  BY <1>1, <1>2 DEF C!Sent, C!Child
<1>3. CASE c # 0 /\ procs[c].life = "up"
  <2>1. c \in DOMAIN procs /\ procs[c] \in ChildRecord
    BY <1>1, <1>3
  <2>2. ask \in Ask
    BY DEF Ask
  <2>3. procs' = [procs EXCEPT ![c] = e]
    BY <1>3, <2>1 DEF C!Sent, C!Child
  <2> HIDE DEF ask
  <2>4. Append(procs[c].inbox, ask) \in Seq(Ask)
    BY <2>1, <2>2 DEF ChildRecord
  <2>5. /\ e \in ChildRecord /\ e.life = procs[c].life /\ e.model = procs[c].model
        /\ e.out = procs[c].out /\ e.inbox = Append(procs[c].inbox, ask)
        /\ e.session = procs[c].session
    BY <2>1, <2>4 DEF ChildRecord
  <2> HIDE DEF e, c
  <2>6. /\ procs' \in Seq(ChildRecord) /\ Len(procs') = Len(procs) /\ DOMAIN procs' = DOMAIN procs
        /\ procs'[c] = e /\ \A i \in DOMAIN procs \ {c} : procs'[i] = procs[i]
    BY <1>1, <2>1, <2>3, <2>5, Changed
  <2> QED
    BY <1>3, <2>5, <2>6 DEF c, ask
<1> QED
  BY <1>2, <1>3

\* One call goes to the child, which was quiet if no turn of it was given up.
LEMMA WriteStep == ASSUME C!SdkConstants, SdkInv, C!Write PROVE SdkInv'
<1> DEFINE n == Len(turns)
           c == client.child
           e == [turns[n] EXCEPT !.proc = c]
<1>1. /\ SdkTypes /\ where = "write" /\ where' = "await" /\ client.started /\ client.ready
      /\ c \in DOMAIN procs /\ c # 0 /\ client.turn = 0 /\ ~want.start
      /\ UNCHANGED <<conf, told, want, fails>>
  BY DEF SdkInv, ChildOK, TurnOK, C!Write, SdkTypes
<1>2. /\ turns \in Seq(TurnRecord) /\ n \in DOMAIN turns
      /\ n \in Nat /\ n # 0 /\ turns[n] \in TurnRecord
      /\ turns[n].outcome = "open" /\ turns[n].proc = 0 /\ turns[n].model = want.model
  BY <1>1 DEF SdkInv, TurnOK, SdkTypes
<1>3. /\ client' \in ClientRecord /\ client'.child = c /\ client'.started /\ client'.ready
      /\ client'.turn = n /\ client'.model = client.model /\ ~client'.tasks /\ ~client'.draining
  BY <1>1, <1>2 DEF C!Write, C!This, SdkTypes, ClientRecord
<1>4. /\ e \in TurnRecord /\ e.outcome = "open" /\ e.proc = c /\ e.model = turns[n].model
      /\ e.by = turns[n].by
  BY <1>1, <1>2 DEF TurnRecord, SdkTypes, ClientRecord
<1>5. turns' = [turns EXCEPT ![n] = e] /\ procs' = C!Sent(n, "prompt")
  BY <1>2 DEF C!Write, C!This
<1> HIDE DEF e, n, c
<1>6. /\ turns' \in Seq(TurnRecord) /\ Len(turns') = Len(turns) /\ DOMAIN turns' = DOMAIN turns
      /\ turns'[n] = e /\ \A i \in DOMAIN turns \ {n} : turns'[i] = turns[i]
  BY <1>2, <1>4, <1>5, Changed
<1>7. /\ procs' \in Seq(ChildRecord) /\ Len(procs') = Len(procs) /\ DOMAIN procs' = DOMAIN procs
      /\ \A p \in DOMAIN procs :
           /\ procs'[p].model = procs[p].model /\ procs'[p].life = procs[p].life
           /\ procs'[p].out = procs[p].out
           /\ procs'[p].inbox = IF p = c /\ procs[p].life = "up"
                                THEN Append(procs[p].inbox, [turn |-> n, part |-> "prompt"])
                                ELSE procs[p].inbox
  BY <1>2, <1>5, SentOK DEF c
<1>8. SdkTypes'
  BY <1>1, <1>3, <1>6, <1>7 DEF SdkTypes, Places
<1>9. ChildOK'
  <2>1. ChildOK
    BY DEF SdkInv
  <2>2. \A p \in DOMAIN procs : p # c => procs'[p].inbox = procs[p].inbox
    BY <1>7
  <2>3. procs[c].life = "dead" => procs'[c].inbox = procs[c].inbox
    BY <1>1, <1>7
  <2> QED
    BY <1>1, <1>3, <1>7, <2>1, <2>2, <2>3 DEF ChildOK, c
<1>10. procs[c].model = want.model
  BY <1>1 DEF SdkInv, ChildOK, c
<1>11. TurnOK'
  <2>1. ASSUME NEW j \in DOMAIN turns'
        PROVE  /\ turns'[j].proc \in 0 .. Len(procs')
               /\ turns'[j].proc # 0 => procs'[turns'[j].proc].model = turns'[j].model
    <3>1. CASE j = n
      BY <1>1, <1>2, <1>4, <1>6, <1>7, <1>10, <3>1 DEF SdkTypes
    <3>2. CASE j # n
      <4>1. j \in DOMAIN turns /\ turns'[j] = turns[j]
        BY <1>6, <2>1, <3>2
      <4>2. /\ turns[j].proc \in 0 .. Len(procs)
            /\ turns[j].proc # 0 => procs[turns[j].proc].model = turns[j].model
        BY <4>1 DEF SdkInv, TurnOK
      <4>3. turns[j].proc # 0 => turns[j].proc \in DOMAIN procs
        BY <1>1, <4>2 DEF SdkTypes
      <4> QED
        BY <1>7, <4>1, <4>2, <4>3
    <3> QED
      BY <3>1, <3>2
  <2> QED
    BY <1>1, <1>2, <1>3, <1>4, <1>6, <2>1 DEF TurnOK, n, c
<1>12. Exchange'
  <2>1. SUFFICES ASSUME Faithful(client.child)' PROVE Talking(client.child, client.turn)'
    BY <1>2, <1>3 DEF Exchange
  <2>2. Faithful(c)
    <3>1. ASSUME NEW i \in DOMAIN turns, turns[i].proc = c
          PROVE  turns[i].outcome \notin {"timeout", "exit"}
      <4>1. i # n
        BY <1>1, <1>2, <3>1
      <4> QED
        BY <1>3, <1>6, <2>1, <3>1, <4>1 DEF Faithful
    <3> QED
      BY <3>1 DEF Faithful
  <2>3. Quiet(c)
    BY <1>1, <2>2 DEF SdkInv, Exchange, c
  <2>4. Append(<< >>, [turn |-> n, part |-> "prompt"]) = <<[turn |-> n, part |-> "prompt"]>>
    OBVIOUS
  <2> QED
    BY <1>1, <1>3, <1>7, <2>3, <2>4 DEF Talking, Asked, Quiet
<1>13. Lasting
  <2>1. \A p \in DOMAIN procs : p \in DOMAIN procs' /\ procs'[p].model = procs[p].model
    BY <1>7
  <2> QED
    BY <1>2, <1>4, <1>6, <2>1 DEF Lasting
<1>14. \A j \in DOMAIN turns' : turns'[j].outcome \in {"result", "exit"} =>
         j \in DOMAIN turns /\ turns[j].outcome = turns'[j].outcome
  BY <1>4, <1>6
<1> QED
  BY <1>8, <1>9, <1>11, <1>12, <1>13, <1>14, OwnStays DEF SdkInv

\* The tasks are over: the child is asked to go on.
LEMMA DrainedStep == ASSUME C!SdkConstants, SdkInv, C!Drained PROVE SdkInv'
<1> DEFINE n == client.turn
           c == client.child
<1>1. /\ SdkTypes /\ n # 0 /\ n \in Nat /\ client.draining
      /\ UNCHANGED <<conf, told, where, want, turns, fails>>
      /\ c = 0 \/ c \in DOMAIN procs
  BY DEF SdkInv, ChildOK, C!Drained, SdkTypes, ClientRecord
<1>2. /\ client' \in ClientRecord /\ client'.child = c /\ client'.started = client.started
      /\ client'.ready = client.ready /\ client'.turn = n /\ client'.model = client.model
      /\ ~client'.tasks /\ ~client'.draining
  BY <1>1 DEF C!Drained, SdkTypes, ClientRecord
<1>3. procs' = C!Sent(n, "continue")
  BY DEF C!Drained
<1> HIDE DEF c, n
<1>4. /\ procs' \in Seq(ChildRecord) /\ Len(procs') = Len(procs) /\ DOMAIN procs' = DOMAIN procs
      /\ \A p \in DOMAIN procs :
           /\ procs'[p].model = procs[p].model /\ procs'[p].life = procs[p].life
           /\ procs'[p].out = procs[p].out
           /\ procs'[p].inbox = IF p = c /\ procs[p].life = "up"
                                THEN Append(procs[p].inbox, [turn |-> n, part |-> "continue"])
                                ELSE procs[p].inbox
  BY <1>1, <1>3, SentOK DEF c
<1>5. SdkTypes'
  BY <1>1, <1>2, <1>4 DEF SdkTypes
<1>6. ChildOK'
  <2>1. ChildOK
    BY DEF SdkInv
  <2>2. \A p \in DOMAIN procs : procs[p].life = "dead" => procs'[p].inbox = procs[p].inbox
    BY <1>4
  <2>3. \A p \in DOMAIN procs : procs'[p].model = procs[p].model /\ procs'[p].life = procs[p].life
                                /\ procs'[p].out = procs[p].out
    BY <1>4
  <2>4. client.started => c \in DOMAIN procs
    BY <1>1, <2>1 DEF ChildOK, c
  <2> QED
    BY <1>1, <1>2, <1>4, <2>1, <2>2, <2>3, <2>4 DEF ChildOK, c
<1>7. TurnOK'
  <2>1. \A p \in DOMAIN procs : procs'[p].model = procs[p].model
    BY <1>4
  <2>2. \A j \in DOMAIN turns : turns[j].proc # 0 => turns[j].proc \in DOMAIN procs
    BY <1>1 DEF SdkInv, TurnOK, SdkTypes
  <2> QED
    BY <1>1, <1>2, <1>4, <2>1, <2>2 DEF SdkInv, TurnOK, c, n
<1>8. Exchange'
  <2>1. SUFFICES ASSUME where \notin {"closing", "closed"}, c # 0, Faithful(client.child)'
                 PROVE  Talking(client.child, client.turn)'
    BY <1>1, <1>2 DEF Exchange
  <2>2. Faithful(c)
    BY <1>1, <1>2, <2>1 DEF Faithful
  <2>4. Quiet(c)
    BY <1>1, <2>1, <2>2 DEF SdkInv, Exchange, Talking, Asked, Answering, c, n
  <2>3. Append(<< >>, [turn |-> n, part |-> "continue"]) = <<[turn |-> n, part |-> "continue"]>>
    OBVIOUS
  <2> QED
    BY <1>1, <1>2, <1>4, <2>1, <2>3, <2>4 DEF Talking, Asked, Quiet
<1>9. Lasting
  <2>1. \A p \in DOMAIN procs : p \in DOMAIN procs' /\ procs'[p].model = procs[p].model
    BY <1>4
  <2> QED
    BY <1>1, <2>1 DEF Lasting
<1> QED
  BY <1>1, <1>5, <1>6, <1>7, <1>8, <1>9, OwnStays DEF SdkInv


\* A child keeps its messages, its prompts and its model: only its tasks end.
LEMMA TaskEndsStep == ASSUME SdkInv, NEW p \in DOMAIN procs, C!TaskEnds(p) PROVE SdkInv'
<1> DEFINE e == [procs[p] EXCEPT !.busy = FALSE]
<1>1. /\ SdkTypes /\ procs' = [procs EXCEPT ![p] = e]
      /\ UNCHANGED <<conf, client, told, where, want, turns, fails>>
  BY DEF SdkInv, C!TaskEnds
<1>2. procs \in Seq(ChildRecord) /\ procs[p] \in ChildRecord
  BY <1>1 DEF SdkTypes
<1>3. /\ e \in ChildRecord /\ e.model = procs[p].model /\ e.life = procs[p].life
      /\ e.inbox = procs[p].inbox /\ e.out = procs[p].out
  BY <1>2 DEF ChildRecord
<1> HIDE DEF e
<1>4. /\ procs' \in Seq(ChildRecord) /\ Len(procs') = Len(procs) /\ DOMAIN procs' = DOMAIN procs
      /\ procs'[p] = e /\ \A i \in DOMAIN procs \ {p} : procs'[i] = procs[i]
  BY <1>1, <1>2, <1>3, Changed
<1>5. \A i \in DOMAIN procs :
        /\ procs'[i].model = procs[i].model /\ procs'[i].life = procs[i].life
        /\ procs'[i].inbox = procs[i].inbox /\ procs'[i].out = procs[i].out
  BY <1>3, <1>4
<1>6. SdkTypes'
  BY <1>1, <1>4 DEF SdkTypes
<1>7. client.child = 0 \/ client.child \in DOMAIN procs
  BY <1>1 DEF SdkInv, ChildOK, SdkTypes
<1>8. ChildOK'
  BY <1>1, <1>4, <1>5, <1>7 DEF SdkInv, ChildOK
<1>9. \A j \in DOMAIN turns : turns[j].proc # 0 => turns[j].proc \in DOMAIN procs
  BY <1>1 DEF SdkInv, TurnOK, SdkTypes
<1>10. TurnOK'
  BY <1>1, <1>4, <1>5, <1>9 DEF SdkInv, TurnOK
<1>11. Exchange'
  <2>1. UNCHANGED <<client, where, turns>>
    BY <1>1
  <2>2. CASE client.child = 0
    BY <2>1, <2>2 DEF Exchange
  <2>3. CASE client.child \in DOMAIN procs
    <3>1. Exchange
      BY DEF SdkInv
    <3>2. /\ procs'[client.child].inbox = procs[client.child].inbox
          /\ procs'[client.child].out = procs[client.child].out
      BY <1>5, <2>3
    <3> QED
      BY <2>1, <3>1, <3>2 DEF Exchange, Faithful, Talking, Quiet, Asked, Answering
  <2> QED
    BY <1>7, <2>2, <2>3
<1>12. Lasting
  BY <1>1, <1>4, <1>5 DEF Lasting
<1> QED
  BY <1>1, <1>6, <1>8, <1>10, <1>11, <1>12, OwnStays DEF SdkInv

\* The turn there is has not been settled: it is the last, and the client's child has it.
LEMMA OpenTurn ==
  ASSUME SdkInv, client.turn # 0
  PROVE  /\ SdkTypes /\ client.turn \in DOMAIN turns /\ client.turn = Len(turns) /\ where = "await"
         /\ turns[client.turn].outcome = "open" /\ turns[client.turn].proc = client.child
         /\ client.child # 0 /\ client.child \in DOMAIN procs /\ client.started /\ client.ready
         /\ Len(turns) \in Nat /\ turns \in Seq(TurnRecord)
<1>1. /\ SdkTypes /\ where = "await" /\ client.turn = Len(turns)
      /\ turns[client.turn].outcome = "open" /\ turns[client.turn].proc = client.child
  BY DEF SdkInv, TurnOK
<1>2. client.started /\ client.ready /\ client.child \in 0 .. Len(procs) /\ client.child # 0
  BY <1>1 DEF SdkInv, ChildOK
<1> QED
  BY <1>1, <1>2 DEF SdkTypes

\* A turn ends, and nothing changes in what its child is asked and says.
LEMMA TurnEnds ==
  ASSUME SdkInv, client.turn # 0, client' = [client EXCEPT !.turn = 0],
         where' \in {"idle", "after"},
         fails' \in Nat, UNCHANGED <<conf, told, want>>,
         turns' \in Seq(TurnRecord), Len(turns') = Len(turns), DOMAIN turns' = DOMAIN turns,
         \A i \in DOMAIN turns : turns'[i].model = turns[i].model /\ turns'[i].proc = turns[i].proc
                                 /\ (i # client.turn => turns'[i].by = turns[i].by
                                                        /\ turns'[i].outcome = turns[i].outcome),
         procs' \in Seq(ChildRecord), Len(procs') = Len(procs), DOMAIN procs' = DOMAIN procs,
         \A i \in DOMAIN procs : /\ procs'[i].model = procs[i].model
                                 /\ procs[i].life = "dead" => procs'[i].life = "dead"
                                 /\ procs'[i].life = "dead" => procs'[i].inbox = << >>
                                 /\ i # client.child => procs'[i].out = procs[i].out
                                 /\ \A k \in DOMAIN procs'[i].out : procs'[i].out[k].proc = i
  PROVE  SdkTypes' /\ ChildOK' /\ TurnOK' /\ Lasting
<1>1. /\ SdkTypes /\ client.turn \in DOMAIN turns /\ client.turn = Len(turns) /\ where = "await"
      /\ turns[client.turn].outcome = "open" /\ turns[client.turn].proc = client.child
      /\ client.child # 0 /\ client.child \in DOMAIN procs /\ client.started /\ client.ready
  BY OpenTurn
<1>2. /\ client' \in ClientRecord /\ client'.child = client.child /\ client'.started = client.started
      /\ client'.ready = client.ready /\ client'.turn = 0 /\ client'.model = client.model
  BY <1>1 DEF SdkTypes, ClientRecord
<1>3. SdkTypes'
  BY <1>1, <1>2 DEF SdkTypes, Places
<1>4. ChildOK'
  <2>1. ChildOK
    BY DEF SdkInv
  <2>2. client'.child \in 0 .. Len(procs')
    BY <1>2, <2>1 DEF ChildOK
  <2>3. /\ client'.started <=> client'.child # 0
        /\ client'.ready => client'.started
        /\ client'.started /\ where' # "grace" => client'.ready
        /\ client'.started => procs'[client'.child].model = client'.model
    BY <1>1, <1>2, <2>1 DEF ChildOK
  <2>4. ASSUME NEW i \in DOMAIN procs
        PROVE  /\ i # client'.child => procs'[i].life = "dead" /\ procs'[i].out = << >>
               /\ procs'[i].life = "dead" => procs'[i].inbox = << >>
               /\ \A k \in DOMAIN procs'[i].out : procs'[i].out[k].proc = i
    BY <1>1, <1>2, <2>1 DEF ChildOK
  <2> QED
    BY <1>1, <1>2, <2>2, <2>3, <2>4 DEF ChildOK
<1>5. \A j \in DOMAIN turns : turns[j].proc # 0 => turns[j].proc \in DOMAIN procs
  BY <1>1 DEF SdkInv, TurnOK, SdkTypes
<1>6. TurnOK'
  <2>1. TurnOK
    BY DEF SdkInv
  <2>2. ASSUME NEW j \in DOMAIN turns
        PROVE  /\ turns'[j].proc \in 0 .. Len(procs')
               /\ turns'[j].proc # 0 => procs'[turns'[j].proc].model = turns'[j].model
    BY <1>5, <2>1 DEF TurnOK
  <2> QED
    BY <1>1, <1>2, <2>2 DEF TurnOK
<1>7. Lasting
  BY <1>1 DEF Lasting
<1> QED
  BY <1>3, <1>4, <1>6, <1>7

\* The turn timed out: what its child says from now on is not looked for.
LEMMA TimesOutStep == ASSUME SdkInv, C!TimesOut PROVE SdkInv'
<1> DEFINE n == client.turn
<1>1. /\ SdkTypes /\ n \in DOMAIN turns /\ n = Len(turns) /\ where = "await"
      /\ turns[n].outcome = "open" /\ turns[n].proc = client.child
      /\ client.child # 0
  BY OpenTurn DEF C!TimesOut
<1>2. /\ n # 0 /\ client' = [client EXCEPT !.turn = 0] /\ where' = "idle" /\ fails' \in Nat
      /\ turns' = [turns EXCEPT ![n].outcome = "timeout"] /\ UNCHANGED <<conf, procs, told, want>>
  BY <1>1 DEF C!TimesOut, C!Rejected, C!Fault, SdkTypes
<1>3. client'.child = client.child /\ client'.turn = 0
  BY <1>1, <1>2 DEF SdkTypes, ClientRecord
<1>4. SdkTypes /\ n \in DOMAIN turns /\ "timeout" \in Outcomes
  BY <1>1 DEF Outcomes
<1> DEFINE e == [turns[n] EXCEPT !.outcome = "timeout"]
<1>10. turns' = [turns EXCEPT ![n] = e]
  BY <1>2
<1>11. e = [turns[n] EXCEPT !.outcome = "timeout"]
  OBVIOUS
<1> HIDE DEF e
<1>5. /\ turns' \in Seq(TurnRecord) /\ Len(turns') = Len(turns) /\ DOMAIN turns' = DOMAIN turns
      /\ \A i \in DOMAIN turns :
           /\ turns'[i].model = turns[i].model /\ turns'[i].proc = turns[i].proc
           /\ turns'[i].by = turns[i].by
           /\ turns'[i].outcome = IF i = n THEN "timeout" ELSE turns[i].outcome
  BY <1>4, <1>10, <1>11, SettledOK
<1>6. /\ procs \in Seq(ChildRecord)
      /\ \A i \in DOMAIN procs : /\ procs[i].life = "dead" => procs[i].inbox = << >>
                                 /\ \A k \in DOMAIN procs[i].out : procs[i].out[k].proc = i
  BY <1>1 DEF SdkInv, ChildOK, SdkTypes
<1>7. SdkTypes' /\ ChildOK' /\ TurnOK' /\ Lasting
  BY <1>2, <1>5, <1>6, TurnEnds DEF n
<1>8. Exchange'
  <2>1. ~Faithful(client.child)'
    BY <1>1, <1>3, <1>5 DEF Faithful
  <2> QED
    BY <2>1 DEF Exchange
<1>9. \A j \in DOMAIN turns' : turns'[j].outcome \in {"result", "exit"} =>
         j \in DOMAIN turns /\ turns[j].outcome = turns'[j].outcome
  BY <1>5
<1> QED
  BY <1>7, <1>8, <1>9, OwnStays DEF SdkInv

\* close(): the child is killed and no turn is looked for any more.
LEMMA CloseStep == ASSUME C!SdkConstants, SdkInv, C!Close PROVE SdkInv'
<1> DEFINE n == client.turn
<1>1. /\ SdkTypes /\ where' = "closing" /\ client' = [client EXCEPT !.turn = 0]
      /\ turns' = IF n = 0 THEN turns ELSE [turns EXCEPT ![n].outcome = "closed"]
      /\ procs' = C!Killed(client.child) /\ UNCHANGED <<conf, told, want, fails>>
  BY DEF SdkInv, C!Close
<1>2. /\ client' \in ClientRecord /\ client'.child = client.child /\ client'.started = client.started
      /\ client'.ready = client.ready /\ client'.turn = 0 /\ client'.model = client.model
  BY <1>1 DEF SdkTypes, ClientRecord
<1>3. /\ turns' \in Seq(TurnRecord) /\ Len(turns') = Len(turns) /\ DOMAIN turns' = DOMAIN turns
      /\ \A i \in DOMAIN turns :
           /\ turns'[i].model = turns[i].model /\ turns'[i].proc = turns[i].proc
           /\ turns'[i].by = turns[i].by
           /\ turns'[i].outcome = turns[i].outcome
                \/ (turns[i].outcome = "open" /\ turns'[i].outcome = "closed")
  <2>1. CASE n = 0
    BY <1>1, <2>1 DEF SdkTypes
  <2>2. CASE n # 0
    <3>1. SdkTypes /\ n \in DOMAIN turns /\ turns[n].outcome = "open" /\ "closed" \in Outcomes
      BY <1>1, <2>2, OpenTurn DEF Outcomes
    <3> DEFINE e == [turns[n] EXCEPT !.outcome = "closed"]
    <3>2. turns' = [turns EXCEPT ![n] = e]
      BY <1>1, <2>2
    <3>3. e = [turns[n] EXCEPT !.outcome = "closed"]
      OBVIOUS
    <3> HIDE DEF e
    <3>4. /\ turns' \in Seq(TurnRecord) /\ Len(turns') = Len(turns) /\ DOMAIN turns' = DOMAIN turns
          /\ \A i \in DOMAIN turns :
               /\ turns'[i].model = turns[i].model /\ turns'[i].proc = turns[i].proc
               /\ turns'[i].by = turns[i].by
               /\ turns'[i].outcome = (IF i = n THEN "closed" ELSE turns[i].outcome)
      BY <3>1, <3>2, <3>3, SettledOK
    <3> QED
      BY <3>1, <3>4
  <2> QED
    BY <2>1, <2>2
<1>4. /\ procs' \in Seq(ChildRecord) /\ Len(procs') = Len(procs) /\ DOMAIN procs' = DOMAIN procs
      /\ \A p \in DOMAIN procs :
           /\ procs'[p].model = procs[p].model /\ procs'[p].inbox = procs[p].inbox
           /\ procs'[p].out = procs[p].out
           /\ procs'[p].life = "dead" <=> procs[p].life = "dead"
  BY <1>1, KilledOK
<1>5. SdkTypes'
  BY <1>1, <1>2, <1>3, <1>4 DEF SdkTypes, Places
<1>6. ChildOK'
  <2>1. ChildOK /\ where \in {"idle", "await"}
    BY DEF SdkInv, C!Close
  <2>2. client.started => client.child \in DOMAIN procs
    BY <1>1, <2>1 DEF ChildOK, SdkTypes
  <2> QED
    BY <1>1, <1>2, <1>4, <2>1, <2>2 DEF ChildOK
<1>7. TurnOK'
  <2>1. TurnOK
    BY DEF SdkInv
  <2>2. \A j \in DOMAIN turns : turns[j].proc # 0 => turns[j].proc \in DOMAIN procs
    BY <1>1, <2>1 DEF TurnOK, SdkTypes
  <2> QED
    BY <1>1, <1>2, <1>3, <1>4, <2>1, <2>2 DEF TurnOK
<1>8. Exchange'
  BY <1>1 DEF Exchange
<1>9. Lasting
  BY <1>3, <1>4 DEF Lasting
<1> QED
  BY <1>3, <1>5, <1>6, <1>7, <1>8, <1>9, OwnStays DEF SdkInv

\* The last turn is settled by its own child: by an answer to it, or after a turn of that child
\* was given up.
LEMMA OwnSettled ==
  ASSUME SdkInv, client.turn # 0, SdkTypes', TurnOK', Lasting, Len(turns') = Len(turns),
         \A i \in DOMAIN turns : i # client.turn => turns'[i].by = turns[i].by
                                                    /\ turns'[i].outcome = turns[i].outcome,
         turns'[client.turn].proc = client.child, turns'[client.turn].by[1].proc = client.child,
         turns'[client.turn].outcome = "result" /\ Faithful(client.child) =>
           turns'[client.turn].by[1].turn = client.turn /\ ~turns'[client.turn].by[1].tasks
  PROVE  C!OwnAnswer' /\ C!OwnChild'
<1> DEFINE n == client.turn
<1>1. /\ SdkTypes /\ n \in DOMAIN turns /\ n = Len(turns) /\ turns[n].outcome = "open"
      /\ Len(turns) \in Nat /\ turns \in Seq(TurnRecord) /\ turns' \in Seq(TurnRecord)
      /\ DOMAIN turns = 1 .. Len(turns) /\ DOMAIN turns' = 1 .. Len(turns)
  BY OpenTurn DEF SdkTypes
<1>2. ASSUME NEW i \in DOMAIN turns, turns[i].outcome \in {"timeout", "exit"}
      PROVE  \A j \in DOMAIN turns : i < j => i \in C!Left(j)' /\ turns'[i].proc = turns[i].proc
  BY <1>1, <1>2 DEF C!Left, Lasting
<1>3. ASSUME NEW j \in DOMAIN turns', turns'[j].outcome = "result"
      PROVE  /\ turns'[j].by[1].proc = turns'[j].proc
             /\ \/ turns'[j].by[1].turn = j /\ ~turns'[j].by[1].tasks
                \/ \E i \in C!Left(j)' : turns'[i].proc = turns'[j].proc
  <2>1. CASE j = n
    <3>1. CASE Faithful(client.child)
      BY <1>3, <2>1, <3>1
    <3>2. CASE ~Faithful(client.child)
      <4>1. PICK i \in DOMAIN turns : turns[i].proc = client.child
                                      /\ turns[i].outcome \in {"timeout", "exit"}
        BY <3>2 DEF Faithful
      <4>2. i # n
        BY <1>1, <4>1
      <4>3. i < n
        BY <1>1, <4>2
      <4> QED
        BY <1>1, <1>2, <2>1, <4>1, <4>3
    <3> QED
      BY <3>1, <3>2
  <2>2. CASE j # n
    <3>1. /\ j \in DOMAIN turns /\ turns[j].outcome = "result"
          /\ turns'[j].by = turns[j].by /\ turns'[j].proc = turns[j].proc
      BY <1>1, <1>3, <2>2 DEF Lasting
    <3>2. /\ turns[j].by[1].proc = turns[j].proc
          /\ \/ turns[j].by[1].turn = j /\ ~turns[j].by[1].tasks
             \/ \E i \in C!Left(j) : turns[i].proc = turns[j].proc
      BY <3>1 DEF SdkInv, C!OwnAnswer
    <3>3. ASSUME NEW i \in C!Left(j) PROVE i \in C!Left(j)' /\ turns'[i].proc = turns[i].proc
      <4>1. i \in DOMAIN turns /\ i < j /\ turns[i].outcome \in {"timeout", "exit"}
        BY <1>1, <3>1 DEF C!Left
      <4> QED
        BY <1>2, <3>1, <4>1
    <3> QED
      BY <3>1, <3>2, <3>3
  <2> QED
    BY <2>1, <2>2
<1>4. C!OwnAnswer'
  BY <1>3 DEF C!OwnAnswer
<1>5. ASSUME NEW j \in DOMAIN turns', turns'[j].outcome = "exit"
      PROVE  turns'[j].by[1].proc = turns'[j].proc
  <2>1. CASE j = n
    BY <2>1
  <2>2. CASE j # n
    BY <1>1, <1>5, <2>2 DEF SdkInv, C!OwnChild, Lasting
  <2> QED
    BY <2>1, <2>2
<1>6. C!OwnChild'
  BY <1>5 DEF C!OwnChild, TurnOK
<1> QED
  BY <1>4, <1>6

\* A child ends: the turn there is, if any, was its own.
LEMMA ExitStep == ASSUME SdkInv, NEW p \in DOMAIN procs, C!Exit(p) PROVE SdkInv'
<1> DEFINE e == [procs[p] EXCEPT !.life = "dead", !.inbox = << >>]
           n == client.turn
<1>9. SdkTypes /\ ChildOK
  BY DEF SdkInv
<1>10. fails' \in Nat
  BY <1>9 DEF SdkTypes, C!Exit, C!Fault
<1>11. p = client.child /\ p # 0
  BY <1>9 DEF SdkTypes, ChildOK, C!Exit
<1>1. /\ SdkTypes /\ procs' = [procs EXCEPT ![p] = e] /\ UNCHANGED <<conf, told, want>>
      /\ p = client.child /\ p # 0 /\ fails' \in Nat
  BY <1>9, <1>10, <1>11 DEF C!Exit
<1>2. procs \in Seq(ChildRecord) /\ procs[p] \in ChildRecord
  BY <1>1 DEF SdkTypes
<1>3. /\ e \in ChildRecord /\ e.model = procs[p].model /\ e.life = "dead"
      /\ e.inbox = << >> /\ e.out = procs[p].out
  <2>1. << >> \in Seq(Ask)
    OBVIOUS
  <2> QED
    BY <1>2, <2>1 DEF ChildRecord
<1> HIDE DEF e
<1>4. /\ procs' \in Seq(ChildRecord) /\ Len(procs') = Len(procs) /\ DOMAIN procs' = DOMAIN procs
      /\ procs'[p] = e /\ \A i \in DOMAIN procs \ {p} : procs'[i] = procs[i]
  BY <1>1, <1>2, <1>3, Changed
<1>5. \A i \in DOMAIN procs :
        /\ procs'[i].model = procs[i].model /\ procs'[i].out = procs[i].out
        /\ procs'[i].life = IF i = p THEN "dead" ELSE procs[i].life
        /\ procs'[i].inbox = IF i = p THEN << >> ELSE procs[i].inbox
  BY <1>3, <1>4
<1>6. \A i \in DOMAIN procs :
        /\ procs[i].life = "dead" => procs'[i].life = "dead"
        /\ procs'[i].life = "dead" => procs'[i].inbox = << >>
        /\ \A k \in DOMAIN procs'[i].out : procs'[i].out[k].proc = i
  BY <1>5 DEF SdkInv, ChildOK
<1>7. CASE n = 0 \/ where \in {"closing", "closed"}
  <2>1. n = 0 /\ UNCHANGED <<client, turns, where>>
    BY <1>7 DEF SdkInv, TurnOK, C!Exit
  <2>2. SdkTypes'
    BY <1>1, <1>4, <2>1 DEF SdkTypes
  <2>3. ChildOK'
    BY <1>1, <1>4, <1>5, <1>6, <2>1 DEF SdkInv, ChildOK
  <2>4. \A j \in DOMAIN turns : turns[j].proc # 0 => turns[j].proc \in DOMAIN procs
    BY <1>1 DEF SdkInv, TurnOK, SdkTypes
  <2>5. TurnOK'
    BY <1>1, <1>4, <1>5, <2>1, <2>4 DEF SdkInv, TurnOK
  <2>6. Exchange'
    BY <1>1, <1>5, <2>1 DEF SdkInv, Exchange, Faithful, Quiet
  <2>7. Lasting
    BY <1>4, <1>5, <2>1 DEF Lasting
  <2> QED
    BY <2>1, <2>2, <2>3, <2>5, <2>6, <2>7, OwnStays DEF SdkInv
<1>8. CASE n # 0 /\ where \notin {"closing", "closed"}
  <2> DEFINE b == <<[proc |-> p]>>
             t == [turns[n] EXCEPT !.outcome = "exit", !.by = b]
  <2>1. /\ client' = [client EXCEPT !.turn = 0] /\ where' = "idle"
        /\ turns' = [turns EXCEPT ![n].outcome = "exit", ![n].by = b]
    BY <1>8 DEF C!Exit
  <2>2. SdkTypes /\ n \in DOMAIN turns /\ turns[n].proc = client.child
    BY <1>8, OpenTurn
  <2>3. turns' = [turns EXCEPT ![n] = t]
    BY <2>1, <2>2
  <2>5. b \in Seq(Said \cup [proc : Nat]) /\ b[1].proc = p /\ "exit" \in Outcomes
    <3>1. p \in Nat
      BY <1>2
    <3> QED
      BY <3>1 DEF Outcomes
  <2>6. client'.turn = 0 /\ client'.child = client.child
    BY <1>1, <2>1 DEF SdkTypes, ClientRecord
  <2> HIDE DEF b
  <2>4. /\ t \in TurnRecord /\ t.model = turns[n].model /\ t.proc = turns[n].proc
        /\ t.by = b /\ t.outcome = "exit"
    <3>1. turns[n] \in TurnRecord
      BY <2>2 DEF SdkTypes
    <3> QED
      BY <2>5, <3>1 DEF TurnRecord
  <2> HIDE DEF t, n
  <2>11. /\ turns' \in Seq(TurnRecord) /\ Len(turns') = Len(turns) /\ DOMAIN turns' = DOMAIN turns
         /\ turns'[n] = t /\ \A i \in DOMAIN turns \ {n} : turns'[i] = turns[i]
    BY <2>2, <2>3, <2>4, Changed DEF SdkTypes
  <2>7. /\ turns' \in Seq(TurnRecord) /\ Len(turns') = Len(turns) /\ DOMAIN turns' = DOMAIN turns
        /\ \A i \in DOMAIN turns :
             /\ turns'[i].model = turns[i].model /\ turns'[i].proc = turns[i].proc
             /\ turns'[i].by = (IF i = n THEN b ELSE turns[i].by)
             /\ turns'[i].outcome = (IF i = n THEN "exit" ELSE turns[i].outcome)
    BY <2>4, <2>11
  <2>8. SdkTypes' /\ ChildOK' /\ TurnOK' /\ Lasting
    BY <1>1, <1>4, <1>5, <1>6, <1>8, <2>1, <2>7, TurnEnds DEF n
  <2>9. Exchange'
    <3>1. ~Faithful(client.child)'
      BY <2>2, <2>6, <2>7 DEF Faithful
    <3> QED
      BY <3>1 DEF Exchange
  <2>10. C!OwnAnswer' /\ C!OwnChild'
    BY <1>1, <1>8, <2>2, <2>5, <2>7, <2>8, OwnSettled DEF n
  <2> QED
    BY <2>8, <2>9, <2>10 DEF SdkInv
<1> QED
  BY <1>7, <1>8

\* What handleMessage reads first from a list of one, and what it leaves.
LEMMA One == ASSUME NEW a, NEW s, s = <<a>> PROVE s # << >> /\ Head(s) = a /\ Tail(s) = << >>
OBVIOUS
\* The same of a list of two.
LEMMA Two ==
  ASSUME NEW a, NEW b, NEW s, s = <<a, b>> PROVE s # << >> /\ Head(s) = a /\ Tail(s) = <<b>>
OBVIOUS
\* The same of a list of three.
LEMMA Three ==
  ASSUME NEW a, NEW b, NEW c, NEW s, s = <<a, b, c>>
  PROVE s # << >> /\ Head(s) = a /\ Tail(s) = <<b, c>>
OBVIOUS
\* What a child writes behind an empty list.
LEMMA Joined ==
  ASSUME NEW a, NEW b, NEW c
  PROVE  /\ << >> \o <<a>> \o << >> \o <<b>> = <<a, b>>
         /\ << >> \o <<a>> \o <<b>> \o <<c>> = <<a, b, c>>
<1> DEFINE S == {a, b, c}
<1>4. <<a>> \in Seq(S) /\ <<b>> \in Seq(S) /\ <<a, b>> \in Seq(S) /\ b \in S /\ c \in S
  OBVIOUS
<1>5. Append(<<a>>, b) = <<a, b>>
  <2>1. /\ Append(<<a>>, b) \in Seq(S) /\ Len(Append(<<a>>, b)) = 2 /\ Len(<<a, b>>) = 2
        /\ Append(<<a>>, b)[1] = a /\ Append(<<a>>, b)[2] = b
    BY <1>4
  <2>2. \A i \in 1 .. 2 : i = 1 \/ i = 2
    OBVIOUS
  <2>3. \A i \in 1 .. Len(<<a, b>>) : Append(<<a>>, b)[i] = <<a, b>>[i]
    BY <2>1, <2>2
  <2> QED
    BY <1>4, <2>1, <2>3, SeqEqual
<1>9. Append(<<a, b>>, c) = <<a, b, c>>
  <2>1. /\ Append(<<a, b>>, c) \in Seq(S) /\ <<a, b, c>> \in Seq(S)
        /\ Len(Append(<<a, b>>, c)) = 3 /\ Len(<<a, b, c>>) = 3
    BY <1>4
  <2>2. /\ Append(<<a, b>>, c)[1] = a /\ Append(<<a, b>>, c)[2] = b /\ Append(<<a, b>>, c)[3] = c
    BY <1>4
  <2>3. \A i \in 1 .. 3 : i = 1 \/ i = 2 \/ i = 3
    OBVIOUS
  <2>4. \A i \in 1 .. Len(<<a, b, c>>) : Append(<<a, b>>, c)[i] = <<a, b, c>>[i]
    BY <2>1, <2>2, <2>3
  <2> QED
    BY <2>1, <2>4, SeqEqual
<1> HIDE DEF S
<1>6. << >> \o <<a>> = <<a>> /\ <<a>> \o << >> = <<a>>
  BY <1>4, ConcatEmptySeq
<1>7. <<a>> \o <<b>> = <<a, b>>
  BY <1>4, <1>5, AppendIsConcat
<1>8. <<a, b>> \o <<c>> = <<a, b, c>>
  BY <1>4, <1>9, AppendIsConcat
<1> QED
  BY <1>6, <1>7, <1>8, Zenon

\* What is read is taken from the front.
LEMMA Rest ==
  ASSUME NEW S, NEW s \in Seq(S), s # << >>, NEW p, \A k \in DOMAIN s : s[k].proc = p
  PROVE  /\ Head(s) \in S /\ Tail(s) \in Seq(S) /\ Head(s).proc = p
         /\ \A k \in DOMAIN Tail(s) : Tail(s)[k].proc = p
OBVIOUS

\* What is said behind what was said before.
LEMMA Grows ==
  ASSUME NEW S, NEW s \in Seq(S), NEW p, \A k \in DOMAIN s : s[k].proc = p,
         NEW a \in S, NEW b \in S, a.proc = p, b.proc = p
  PROVE  /\ s \o <<a>> \o << >> \o <<b>> \in Seq(S)
         /\ \A k \in DOMAIN (s \o <<a>> \o << >> \o <<b>>) :
               (s \o <<a>> \o << >> \o <<b>>)[k].proc = p
         /\ \A c \in S : c.proc = p =>
              /\ s \o <<a>> \o <<c>> \o <<b>> \in Seq(S)
              /\ \A k \in DOMAIN (s \o <<a>> \o <<c>> \o <<b>>) :
                    (s \o <<a>> \o <<c>> \o <<b>>)[k].proc = p
<1>1. ASSUME NEW u \in Seq(S), \A k \in DOMAIN u : u[k].proc = p, NEW c \in S, c.proc = p
      PROVE  u \o <<c>> \in Seq(S) /\ \A k \in DOMAIN (u \o <<c>>) : (u \o <<c>>)[k].proc = p
  <2> DEFINE v == Append(u, c)
  <2>1. v \in Seq(S) /\ \A k \in DOMAIN v : v[k].proc = p
    BY <1>1
  <2> QED
    BY <1>1, <2>1, AppendIsConcat
<1> DEFINE w == s \o <<a>>
<1>2. w \in Seq(S) /\ \A k \in DOMAIN w : w[k].proc = p
  BY <1>1
<1> HIDE DEF w
<1>3. w \o << >> = w
  BY <1>2, ConcatEmptySeq
<1>4. ASSUME NEW c \in S, c.proc = p
      PROVE  w \o <<c>> \in Seq(S) /\ \A k \in DOMAIN (w \o <<c>>) : (w \o <<c>>)[k].proc = p
  BY <1>1, <1>2, <1>4
<1>5. ASSUME NEW c \in S, c.proc = p
      PROVE  /\ w \o <<c>> \o <<b>> \in Seq(S)
             /\ \A k \in DOMAIN (w \o <<c>> \o <<b>>) : (w \o <<c>> \o <<b>>)[k].proc = p
  <2> DEFINE x == w \o <<c>>
  <2>1. x \in Seq(S) /\ \A k \in DOMAIN x : x[k].proc = p
    BY <1>4, <1>5
  <2> HIDE DEF x
  <2>2. x \o <<b>> \in Seq(S) /\ \A k \in DOMAIN (x \o <<b>>) : (x \o <<b>>)[k].proc = p
    BY <1>1, <2>1
  <2> QED
    BY <2>2 DEF x
<1> QED
  BY <1>3, <1>4, <1>5 DEF w

\* The child that is up takes a prompt: the answer is on its way.
LEMMA AnswerStep ==
  ASSUME C!SdkConstants, SdkInv, NEW p \in DOMAIN procs, C!Answer(p) PROVE SdkInv'
<1> DEFINE q == Head(procs[p].inbox)
           said(k, tasks) == Says(k, q.turn, tasks, p)
           answer(tasks) == procs[p].out \o <<said("init", tasks)>>
                              \o (IF tasks THEN <<said("task", tasks)>> ELSE << >>)
                              \o <<said("result", tasks)>>
           t == [turns[q.turn] EXCEPT !.knew = told'[procs[p].session]]
<1>1. PICK tasks \in BOOLEAN :
        procs' = [procs EXCEPT ![p].inbox = Tail(@), ![p].busy = @ \/ tasks,
                        ![p].out = answer(tasks)]
  BY DEF C!Answer, Says
<1>2. /\ SdkTypes /\ ChildOK /\ p = client.child /\ p # 0 /\ procs[p].life = "up"
      /\ procs[p].inbox # << >> /\ UNCHANGED <<conf, client, where, want, fails>>
      /\ procs \in Seq(ChildRecord) /\ procs[p] \in ChildRecord /\ turns \in Seq(TurnRecord)
  BY SMTT(30) DEF SdkInv, ChildOK, SdkTypes, C!Answer
<1>3. q \in Ask /\ Tail(procs[p].inbox) \in Seq(Ask) /\ q.turn \in Nat /\ p \in Nat
  <2>1. procs[p].inbox \in Seq(Ask) /\ procs[p].inbox # << >> /\ p \in Nat
    BY <1>2 DEF ChildRecord
  <2>2. q \in Ask /\ Tail(procs[p].inbox) \in Seq(Ask)
    BY <2>1
  <2> HIDE DEF q
  <2> QED
    BY <2>1, <2>2 DEF Ask
<1> HIDE DEF q
<1>4. told' \in [1 .. C!Prior -> SUBSET Nat] /\ told'[procs[p].session] \in SUBSET Nat
  <2>1. told' = [told EXCEPT ![procs[p].session] = @ \cup {q.turn}]
    BY DEF C!Answer, q
  <2> QED
    BY <1>2, <1>3, <2>1, SMTT(30) DEF SdkTypes, ChildRecord
<1>5. /\ turns' \in Seq(TurnRecord) /\ Len(turns') = Len(turns) /\ DOMAIN turns' = DOMAIN turns
      /\ \A i \in DOMAIN turns :
           /\ turns'[i].model = turns[i].model /\ turns'[i].proc = turns[i].proc
           /\ turns'[i].by = turns[i].by /\ turns'[i].outcome = turns[i].outcome
  <2>1. turns' = [turns EXCEPT ![q.turn].knew = told'[procs[p].session]]
    BY DEF C!Answer, q
  <2>2. CASE q.turn \notin DOMAIN turns
    <3>1. \A i \in DOMAIN turns : turns'[i] = turns[i]
      BY <2>1, <2>2
    <3>2. /\ DOMAIN turns = 1 .. Len(turns) /\ Len(turns) \in Nat
          /\ \A i \in DOMAIN turns : turns[i] \in TurnRecord
      BY <1>2
    <3>3. turns' = [i \in DOMAIN turns |-> turns'[i]]
      BY <2>1
    <3>4. turns' \in [1 .. Len(turns) -> TurnRecord]
      BY <3>1, <3>2, <3>3
    <3> QED
      BY <3>1, <3>2, <3>4
  <2>3. CASE q.turn \in DOMAIN turns
    <3>1. turns' = [turns EXCEPT ![q.turn] = t]
      BY <2>1
    <3>2. turns[q.turn] \in TurnRecord
      BY <1>2, <2>3
    <3>3. /\ t \in TurnRecord /\ t.model = turns[q.turn].model /\ t.proc = turns[q.turn].proc
          /\ t.by = turns[q.turn].by /\ t.outcome = turns[q.turn].outcome
      BY <1>4, <3>2 DEF TurnRecord
    <3> HIDE DEF t
    <3>4. /\ turns' \in Seq(TurnRecord) /\ Len(turns') = Len(turns) /\ DOMAIN turns' = DOMAIN turns
          /\ turns'[q.turn] = t /\ \A i \in DOMAIN turns \ {q.turn} : turns'[i] = turns[i]
      BY <1>2, <2>3, <3>1, <3>3, Changed
    <3> QED
      BY <3>3, <3>4
  <2> QED
    BY <2>2, <2>3
<1> HIDE DEF t
<1> DEFINE o == answer(tasks)
           e == [procs[p] EXCEPT !.inbox = Tail(@), !.busy = @ \/ tasks, !.out = o]
<1>6. /\ o \in Seq(Said) /\ \A k \in DOMAIN o : o[k].proc = p
      /\ procs[p].out = << >> =>
           o \in {<<said("init", FALSE), said("result", FALSE)>>,
                  <<said("init", TRUE), said("task", TRUE), said("result", TRUE)>>}
  <2> DEFINE a == said("init", tasks)
             b == said("task", tasks)
             c == said("result", tasks)
  <2>1. a \in Said /\ b \in Said /\ c \in Said /\ a.proc = p /\ b.proc = p /\ c.proc = p
    BY <1>3 DEF Says, Said
  <2>2. procs[p].out \in Seq(Said) /\ \A k \in DOMAIN procs[p].out : procs[p].out[k].proc = p
    BY <1>2 DEF ChildRecord, ChildOK
  <2>3. o = procs[p].out \o <<a>> \o (IF tasks THEN <<b>> ELSE << >>) \o <<c>>
    OBVIOUS
  <2>4. /\ tasks => a = said("init", TRUE) /\ b = said("task", TRUE) /\ c = said("result", TRUE)
        /\ ~tasks => a = said("init", FALSE) /\ c = said("result", FALSE)
    OBVIOUS
  <2> HIDE DEF a, b, c, o, answer, said
  <2>5. CASE tasks
    <3>1. o = procs[p].out \o <<a>> \o <<b>> \o <<c>>
      BY <2>3, <2>5
    <3>2. o \in Seq(Said) /\ \A k \in DOMAIN o : o[k].proc = p
      BY <2>1, <2>2, <3>1, Grows
    <3>3. procs[p].out = << >> => o = << >> \o <<a>> \o <<b>> \o <<c>>
      BY <3>1
    <3>4. << >> \o <<a>> \o <<b>> \o <<c>> = <<a, b, c>>
      BY Joined, Zenon
    <3> QED
      BY <2>4, <2>5, <3>2, <3>3, <3>4
  <2>6. CASE ~tasks
    <3>1. o = procs[p].out \o <<a>> \o << >> \o <<c>>
      BY <2>3, <2>6
    <3>2. o \in Seq(Said) /\ \A k \in DOMAIN o : o[k].proc = p
      BY <2>1, <2>2, <3>1, Grows
    <3>3. procs[p].out = << >> => o = << >> \o <<a>> \o << >> \o <<c>>
      BY <3>1
    <3>4. << >> \o <<a>> \o << >> \o <<c>> = <<a, c>>
      BY Joined, Zenon
    <3> QED
      BY <2>4, <2>6, <3>2, <3>3, <3>4
  <2> QED
    BY <2>5, <2>6
<1>7. procs' = [procs EXCEPT ![p] = e]
  BY <1>1
<1> HIDE DEF o, answer
<1>8. /\ e \in ChildRecord /\ e.model = procs[p].model /\ e.life = "up"
      /\ e.inbox = Tail(procs[p].inbox) /\ e.out = o
  BY <1>2, <1>3, <1>6 DEF ChildRecord
<1> HIDE DEF e
<1>9. /\ procs' \in Seq(ChildRecord) /\ Len(procs') = Len(procs) /\ DOMAIN procs' = DOMAIN procs
      /\ procs'[p] = e /\ \A i \in DOMAIN procs \ {p} : procs'[i] = procs[i]
  BY <1>2, <1>7, <1>8, Changed
<1>10. \A i \in DOMAIN procs :
         /\ procs'[i].model = procs[i].model /\ procs'[i].life = procs[i].life
         /\ i # p => procs'[i] = procs[i]
  BY <1>2, <1>8, <1>9
<1>11. SdkTypes'
  BY <1>2, <1>4, <1>5, <1>9 DEF SdkTypes
<1>12. ChildOK'
  BY <1>2, <1>6, <1>8, <1>9, <1>10 DEF ChildOK
<1>13. TurnOK'
  <2>1. \A j \in DOMAIN turns : turns[j].proc # 0 => turns[j].proc \in DOMAIN procs
    BY <1>2 DEF SdkInv, TurnOK, SdkTypes
  <2>2. TurnOK
    BY DEF SdkInv
  <2>3. ASSUME NEW j \in DOMAIN turns
        PROVE  /\ turns'[j].proc \in 0 .. Len(procs')
               /\ turns'[j].proc # 0 => procs'[turns'[j].proc].model = turns'[j].model
    BY <1>5, <1>9, <1>10, <2>1, <2>2 DEF TurnOK
  <2>4. Len(turns) # 0 => Len(turns) \in DOMAIN turns
    BY <1>2
  <2> HIDE DEF said
  <2> QED
    BY <1>2, <1>5, <2>2, <2>3, <2>4 DEF TurnOK
<1>14. Exchange'
  <2>1. SUFFICES ASSUME where \notin {"closing", "closed"}, Faithful(client.child)'
                 PROVE  client.turn # 0 /\ Answering(client.child, client.turn)'
    BY <1>2 DEF Exchange, Talking
  <2>2. Faithful(p)
    BY <1>2, <1>5, <2>1 DEF Faithful
  <2>3. client.turn # 0 /\ Asked(p, client.turn)
    BY <1>2, <2>1, <2>2 DEF SdkInv, Exchange, Talking, Quiet, Answering
  <2>4. PICK part \in {"prompt", "continue"} :
          procs[p].inbox = <<[turn |-> client.turn, part |-> part]>>
    BY <2>3 DEF Asked
  <2>5. q.turn = client.turn /\ Tail(procs[p].inbox) = << >>
    BY <2>4 DEF q
  <2>6. /\ procs'[p].inbox = << >> /\ procs[p].out = << >> /\ procs'[p].out = o
        /\ ~client.tasks /\ ~client.draining
    BY <1>8, <1>9, <2>3, <2>5 DEF Asked
  <2> QED
    BY <1>2, <1>6, <2>3, <2>5, <2>6 DEF Answering
<1>15. Lasting
  BY <1>5, <1>9, <1>10 DEF Lasting
<1> QED
  BY <1>5, <1>11, <1>12, <1>13, <1>14, <1>15, OwnStays DEF SdkInv

\* What a message does to the fields: tasks behind an answer are noted, and then waited for.
LEMMA FieldsRead ==
  ASSUME SdkTypes, NEW p \in DOMAIN procs, C!Read(p), procs[p].out # << >>,
         NEW msg, msg = Head(procs[p].out)
  PROVE  /\ client' \in ClientRecord /\ client'.child = client.child /\ client'.model = client.model
         /\ client'.started = client.started /\ client'.ready = client.ready
         /\ client'.turn =
              (IF msg.kind = "result" /\ client.turn # 0 /\ ~client.tasks THEN 0
               ELSE client.turn)
         /\ client'.tasks <=> client.tasks \/ (msg.kind = "task" /\ client.turn # 0)
         /\ client'.draining <=>
               client.draining \/ (msg.kind = "result" /\ client.turn # 0 /\ client.tasks)
<1> DEFINE c1 == [client EXCEPT !.session = procs[p].session, !.last = procs[p].session]
           c2 == [client EXCEPT !.tasks = TRUE]
           c3 == [client EXCEPT !.draining = TRUE]
           c4 == [client EXCEPT !.turn = 0]
<1>1. /\ client \in ClientRecord /\ procs[p].out \in Seq(Said) /\ msg \in Said
      /\ procs[p].session \in 0 .. C!Prior
  <2>1. client \in ClientRecord /\ procs[p] \in ChildRecord
    BY DEF SdkTypes
  <2>2. procs[p].out \in Seq(Said) /\ procs[p].session \in 0 .. C!Prior
    BY <2>1 DEF ChildRecord
  <2> QED
    BY <2>1, <2>2
<1>2. msg.kind \in {"init", "task", "result"}
  BY <1>1 DEF Said
<1>3. /\ msg.kind = "init" => client' = c1
      /\ msg.kind = "task" /\ client.turn # 0 => client' = c2
      /\ msg.kind = "result" /\ client.turn # 0 /\ client.tasks => client' = c3
      /\ msg.kind = "result" /\ client.turn # 0 /\ ~client.tasks => client' = c4
      /\ msg.kind \in {"task", "result"} /\ client.turn = 0 => client' = client
  BY DEF C!Read
<1>4. CASE msg.kind = "init"
  BY <1>1, <1>3, <1>4 DEF ClientRecord
<1>5. CASE msg.kind = "task" /\ client.turn # 0
  BY <1>1, <1>3, <1>5 DEF ClientRecord
<1>6. CASE msg.kind = "result" /\ client.turn # 0 /\ client.tasks
  BY <1>1, <1>3, <1>6 DEF ClientRecord
<1>7. CASE msg.kind = "result" /\ client.turn # 0 /\ ~client.tasks
  BY <1>1, <1>3, <1>7 DEF ClientRecord
<1>8. CASE msg.kind \in {"task", "result"} /\ client.turn = 0
  BY <1>1, <1>3, <1>8
<1> QED
  BY <1>2, <1>4, <1>5, <1>6, <1>7, <1>8

\* A message that settles no turn.
LEMMA ReadOn ==
  ASSUME C!SdkConstants, SdkInv, NEW p \in DOMAIN procs, C!Read(p),
         ~(Head(procs[p].out).kind = "result" /\ client.turn # 0 /\ ~client.tasks)
  PROVE  SdkInv'
<1> DEFINE msg == Head(procs[p].out)
           e == [procs[p] EXCEPT !.out = Tail(@)]
<1>1. /\ SdkTypes /\ ChildOK /\ procs' = [procs EXCEPT ![p] = e] /\ procs[p].out # << >>
      /\ UNCHANGED <<conf, told, where, want, turns, fails>>
  BY DEF SdkInv, C!Read
<1>2. procs \in Seq(ChildRecord) /\ procs[p] \in ChildRecord /\ p # 0
  BY <1>1 DEF SdkTypes
<1>3. /\ procs[p].out \in Seq(Said) /\ \A k \in DOMAIN procs[p].out : procs[p].out[k].proc = p
  BY <1>1, <1>2 DEF ChildRecord, ChildOK
<1>4. /\ Tail(procs[p].out) \in Seq(Said)
      /\ \A k \in DOMAIN Tail(procs[p].out) : Tail(procs[p].out)[k].proc = p
  BY <1>1, <1>3, Rest
<1>5. /\ e \in ChildRecord /\ e.model = procs[p].model /\ e.life = procs[p].life
      /\ e.inbox = procs[p].inbox /\ e.out = Tail(procs[p].out)
  BY <1>2, <1>4 DEF ChildRecord
<1>6. /\ client' \in ClientRecord /\ client'.child = client.child /\ client'.model = client.model
      /\ client'.started = client.started /\ client'.ready = client.ready
      /\ client'.turn = client.turn
      /\ client'.tasks <=> client.tasks \/ (msg.kind = "task" /\ client.turn # 0)
      /\ client'.draining <=>
               client.draining \/ (msg.kind = "result" /\ client.turn # 0 /\ client.tasks)
  BY <1>1, FieldsRead
<1> HIDE DEF e, msg
<1>7. /\ procs' \in Seq(ChildRecord) /\ Len(procs') = Len(procs) /\ DOMAIN procs' = DOMAIN procs
      /\ procs'[p] = e /\ \A i \in DOMAIN procs \ {p} : procs'[i] = procs[i]
  BY <1>1, <1>2, <1>5, Changed
<1>8. \A i \in DOMAIN procs :
        /\ procs'[i].model = procs[i].model /\ procs'[i].life = procs[i].life
        /\ procs'[i].inbox = procs[i].inbox
        /\ procs'[i].out = IF i = p THEN Tail(procs[p].out) ELSE procs[i].out
  BY <1>5, <1>7
<1>9. SdkTypes'
  BY <1>1, <1>6, <1>7 DEF SdkTypes
<1>10. client.child = 0 \/ client.child \in DOMAIN procs
  BY <1>1, <1>2 DEF ChildOK
<1>11. ChildOK'
  <2>1. ASSUME NEW i \in DOMAIN procs
        PROVE  /\ i # client.child => procs'[i].life = "dead"
               /\ procs'[i].life = "dead" => procs'[i].inbox = << >>
               /\ client.ready /\ i # client.child => procs'[i].out = << >>
               /\ \A k \in DOMAIN procs'[i].out : procs'[i].out[k].proc = i
    <3>1. CASE i = p
      <4>1. \A k \in DOMAIN procs'[i].out : procs'[i].out[k].proc = i
        BY <1>4, <1>8, <3>1
      <4>2. client.ready => i = client.child
        BY <1>1, <3>1 DEF ChildOK
      <4> QED
        BY <1>1, <1>8, <3>1, <4>1, <4>2 DEF ChildOK
    <3>2. CASE i # p
      BY <1>1, <1>8, <3>2 DEF ChildOK
    <3> QED
      BY <3>1, <3>2
  <2> QED
    BY <1>1, <1>6, <1>7, <1>8, <1>10, <2>1 DEF ChildOK
<1>12. TurnOK'
  <2>1. TurnOK
    BY DEF SdkInv
  <2>2. \A j \in DOMAIN turns : turns[j].proc # 0 => turns[j].proc \in DOMAIN procs
    BY <1>2, <2>1 DEF TurnOK
  <2> QED
    BY <1>1, <1>6, <1>7, <1>8, <2>1, <2>2 DEF TurnOK
<1>13. Exchange'
  <2>1. SUFFICES ASSUME where \notin {"closing", "closed"}, client.child # 0,
                        Faithful(client.child)'
                 PROVE  IF client.turn = 0 THEN Quiet(client.child)'
                        ELSE Talking(client.child, client.turn)'
    BY <1>1, <1>6 DEF Exchange
  <2>2. Faithful(client.child)
    BY <1>1, <1>6, <2>1 DEF Faithful
  <2>3. Exchange
    BY DEF SdkInv
  <2>4. CASE client.turn = 0
    <3>1. Quiet(client.child)
      BY <2>1, <2>2, <2>3, <2>4 DEF Exchange
    <3>2. client.child # p
      BY <1>1, <3>1 DEF Quiet
    <3> QED
      BY <1>6, <1>8, <1>10, <2>1, <2>4, <3>1, <3>2 DEF Quiet
  <2>5. CASE client.turn # 0
    <3> DEFINE n == client.turn
    <3>1. p = client.child
      BY <1>1, <2>5, OpenTurn DEF ChildOK
    <3>2. Talking(p, n)
      BY <2>1, <2>2, <2>3, <2>5, <3>1 DEF Exchange
    <3>3. Answering(p, n)
      BY <1>1, <3>2 DEF Talking, Quiet, Asked
    <3>4. procs'[p].inbox = << >> /\ ~client.draining /\ procs'[p].out = Tail(procs[p].out)
      BY <1>8, <3>3 DEF Answering
    <3>5. CASE ~client.tasks
               /\ procs[p].out = <<Says("init", n, FALSE, p), Says("result", n, FALSE, p)>>
      <4>1. msg = Says("init", n, FALSE, p) /\ procs'[p].out = <<Says("result", n, FALSE, p)>>
        BY <3>4, <3>5, Two DEF msg
      <4>2. ~client'.tasks /\ ~client'.draining
        BY <1>6, <3>4, <3>5, <4>1 DEF Says
      <4> QED
        BY <1>6, <2>5, <3>1, <3>4, <4>1, <4>2 DEF Talking, Answering
    <3>6. CASE ~client.tasks /\ procs[p].out = <<Says("result", n, FALSE, p)>>
      <4>1. msg = Says("result", n, FALSE, p)
        BY <3>6, One DEF msg
      <4>2. msg.kind = "result"
        BY <4>1 DEF Says
      <4> QED
        BY <2>5, <3>6, <4>2 DEF msg
    <3>7. CASE ~client.tasks /\ procs[p].out = <<Says("init", n, TRUE, p), Says("task", n, TRUE, p),
                                                 Says("result", n, TRUE, p)>>
      <4>1. /\ msg = Says("init", n, TRUE, p)
            /\ procs'[p].out = <<Says("task", n, TRUE, p), Says("result", n, TRUE, p)>>
        <5> DEFINE x == Says("init", n, TRUE, p)
                   y == Says("task", n, TRUE, p)
                   z == Says("result", n, TRUE, p)
        <5>1. procs[p].out = <<x, y, z>>
          BY <3>7
        <5> HIDE DEF x, y, z
        <5>2. Head(procs[p].out) = x /\ Tail(procs[p].out) = <<y, z>>
          BY <5>1, Three
        <5> QED
          BY <3>4, <5>2 DEF msg, x, y, z
      <4>2. ~client'.tasks /\ ~client'.draining
        BY <1>6, <3>4, <3>7, <4>1 DEF Says
      <4> QED
        BY <1>6, <2>5, <3>1, <3>4, <4>1, <4>2 DEF Talking, Answering
    <3>8. CASE ~client.tasks
               /\ procs[p].out = <<Says("task", n, TRUE, p), Says("result", n, TRUE, p)>>
      <4>1. msg = Says("task", n, TRUE, p) /\ procs'[p].out = <<Says("result", n, TRUE, p)>>
        BY <3>4, <3>8, Two DEF msg
      <4>2. client'.tasks /\ ~client'.draining
        BY <1>6, <2>5, <3>4, <3>8, <4>1 DEF Says
      <4> QED
        BY <1>6, <2>5, <3>1, <3>4, <4>1, <4>2 DEF Talking, Answering
    <3>9. CASE client.tasks /\ procs[p].out = <<Says("result", n, TRUE, p)>>
      <4>1. procs'[p].out = << >>
        BY <3>4, <3>9, One
      <4> QED
        BY <1>6, <2>5, <3>1, <3>4, <4>1 DEF Talking, Quiet
    <3> QED
      BY <3>3, <3>5, <3>6, <3>7, <3>8, <3>9 DEF Answering
  <2> QED
    BY <2>4, <2>5
<1>14. Lasting
  BY <1>1, <1>7, <1>8 DEF Lasting
<1> QED
  BY <1>1, <1>9, <1>11, <1>12, <1>13, <1>14, OwnStays DEF SdkInv

\* The answer that ends a turn: of its child, and to it if no turn of that child was given up.
LEMMA ReadEnds ==
  ASSUME C!SdkConstants, SdkInv, NEW p \in DOMAIN procs, C!Read(p),
         Head(procs[p].out).kind = "result", client.turn # 0, ~client.tasks
  PROVE  SdkInv'
<1> DEFINE msg == Head(procs[p].out)
           n == client.turn
           b == <<msg>>
           t == [turns[n] EXCEPT !.outcome = "result", !.by = b]
           e == [procs[p] EXCEPT !.out = Tail(@)]
           d == [procs[p] EXCEPT !.out = Tail(@), !.life = "ending"]
<1>1. /\ SdkTypes /\ ChildOK /\ n \in DOMAIN turns /\ n = Len(turns) /\ where = "await"
      /\ turns[n].outcome = "open" /\ turns[n].proc = client.child /\ client.ready
      /\ client.child # 0 /\ turns \in Seq(TurnRecord)
  BY OpenTurn DEF SdkInv
<1>2. procs[p].out # << >> /\ p = client.child
  BY <1>1 DEF C!Read, ChildOK
<1>3. /\ turns' = [turns EXCEPT ![n].outcome = "result", ![n].by = b]
      /\ client' = [client EXCEPT !.turn = 0] /\ where' \in {"idle", "after"}
      /\ UNCHANGED <<conf, told, want, fails>>
  BY DEF C!Read
<1>4. procs' = [procs EXCEPT ![p] = e] \/ (procs' = [procs EXCEPT ![p] = d] /\ procs[p].life = "up")
  <2> DEFINE read == [procs EXCEPT ![p].out = Tail(@)]
  <2>1. procs' = read \/ (procs' = [read EXCEPT ![p].life = "ending"] /\ read[p].life = "up")
    BY <1>2 DEF C!Read
  <2>2. procs \in Seq(ChildRecord) /\ procs[p] \in ChildRecord
    BY <1>1 DEF SdkTypes
  <2>3. read = [procs EXCEPT ![p] = e] /\ read[p] = e /\ e.life = procs[p].life
    BY <2>2 DEF ChildRecord
  <2>4. [read EXCEPT ![p].life = "ending"] = [procs EXCEPT ![p] = d]
    BY <2>2 DEF ChildRecord
  <2> QED
    BY <2>1, <2>3, <2>4
<1>5. procs \in Seq(ChildRecord) /\ procs[p] \in ChildRecord
  BY <1>1 DEF SdkTypes
<1>6. /\ procs[p].out \in Seq(Said) /\ \A k \in DOMAIN procs[p].out : procs[p].out[k].proc = p
  BY <1>1, <1>5 DEF ChildRecord, ChildOK
<1>7. /\ Tail(procs[p].out) \in Seq(Said) /\ msg \in Said /\ msg.proc = p
      /\ \A k \in DOMAIN Tail(procs[p].out) : Tail(procs[p].out)[k].proc = p
  BY <1>2, <1>6, Rest
<1>8. /\ e \in ChildRecord /\ e.model = procs[p].model /\ e.life = procs[p].life
      /\ e.inbox = procs[p].inbox /\ e.out = Tail(procs[p].out)
      /\ d \in ChildRecord /\ d.model = procs[p].model /\ d.life = "ending"
      /\ d.inbox = procs[p].inbox /\ d.out = Tail(procs[p].out)
  BY <1>5, <1>7 DEF ChildRecord
<1>9. b \in Seq(Said \cup [proc : Nat]) /\ b[1] = msg /\ "result" \in Outcomes
  BY <1>7 DEF Outcomes
<1>10. turns' = [turns EXCEPT ![n] = t]
  BY <1>1, <1>3
<1> HIDE DEF b, d, e
<1>11. /\ t \in TurnRecord /\ t.model = turns[n].model /\ t.proc = turns[n].proc
       /\ t.by = b /\ t.outcome = "result"
  <2>1. turns[n] \in TurnRecord
    BY <1>1
  <2> QED
    BY <1>9, <2>1 DEF TurnRecord
<1> HIDE DEF t, n, msg
<1>12. /\ turns' \in Seq(TurnRecord) /\ Len(turns') = Len(turns) /\ DOMAIN turns' = DOMAIN turns
       /\ turns'[n] = t /\ \A i \in DOMAIN turns \ {n} : turns'[i] = turns[i]
  BY <1>1, <1>10, <1>11, Changed
<1>13. \A i \in DOMAIN turns :
         /\ turns'[i].model = turns[i].model /\ turns'[i].proc = turns[i].proc
         /\ i # n => turns'[i].by = turns[i].by /\ turns'[i].outcome = turns[i].outcome
  BY <1>11, <1>12
<1>14. /\ procs' \in Seq(ChildRecord) /\ Len(procs') = Len(procs) /\ DOMAIN procs' = DOMAIN procs
       /\ \A i \in DOMAIN procs \ {p} : procs'[i] = procs[i]
       /\ procs'[p].model = procs[p].model /\ procs'[p].inbox = procs[p].inbox
       /\ procs'[p].out = Tail(procs[p].out)
       /\ procs'[p].life = "dead" <=> procs[p].life = "dead"
  <2>1. CASE procs' = [procs EXCEPT ![p] = e]
    <3>1. /\ procs' \in Seq(ChildRecord) /\ Len(procs') = Len(procs) /\ DOMAIN procs' = DOMAIN procs
          /\ procs'[p] = e /\ \A i \in DOMAIN procs \ {p} : procs'[i] = procs[i]
      BY <1>5, <1>8, <2>1, Changed
    <3> QED
      BY <1>8, <3>1
  <2>2. CASE procs' = [procs EXCEPT ![p] = d] /\ procs[p].life = "up"
    <3>1. /\ procs' \in Seq(ChildRecord) /\ Len(procs') = Len(procs) /\ DOMAIN procs' = DOMAIN procs
          /\ procs'[p] = d /\ \A i \in DOMAIN procs \ {p} : procs'[i] = procs[i]
      BY <1>5, <1>8, <2>2, Changed
    <3> QED
      BY <1>8, <2>2, <3>1
  <2> QED
    BY <1>4, <2>1, <2>2
<1>15. ASSUME NEW i \in DOMAIN procs
       PROVE  /\ procs'[i].model = procs[i].model
              /\ procs[i].life = "dead" => procs'[i].life = "dead"
              /\ procs'[i].life = "dead" => procs'[i].inbox = << >>
              /\ i # client.child => procs'[i].out = procs[i].out
              /\ \A k \in DOMAIN procs'[i].out : procs'[i].out[k].proc = i
  <2>1. CASE i = p
    <3>1. \A k \in DOMAIN procs'[i].out : procs'[i].out[k].proc = i
      BY <1>7, <1>14, <2>1
    <3> QED
      BY <1>1, <1>2, <1>14, <2>1, <3>1 DEF ChildOK
  <2>2. CASE i # p
    BY <1>1, <1>14, <2>2 DEF ChildOK
  <2> QED
    BY <2>1, <2>2
<1>16. SdkTypes' /\ ChildOK' /\ TurnOK' /\ Lasting
  <2>1. fails' \in Nat
    BY <1>1, <1>3 DEF SdkTypes
  <2> QED
    BY <1>3, <1>12, <1>13, <1>14, <1>15, <2>1, TurnEnds DEF n
<1>17. Faithful(client.child) => /\ msg.turn = n /\ ~msg.tasks
                                 /\ procs[p].inbox = << >> /\ Tail(procs[p].out) = << >>
  <2>1. SUFFICES ASSUME Faithful(client.child)
                 PROVE  /\ msg.turn = n /\ ~msg.tasks
                        /\ procs[p].inbox = << >> /\ Tail(procs[p].out) = << >>
    OBVIOUS
  <2>2. Answering(p, n)
    BY <1>1, <1>2, <2>1 DEF SdkInv, Exchange, Talking, Quiet, Asked, n
  <2>3. CASE procs[p].out = <<Says("init", n, FALSE, p), Says("result", n, FALSE, p)>>
    <3>1. msg = Says("init", n, FALSE, p)
      BY <2>3, Two DEF msg
    <3> QED
      BY <3>1 DEF msg, Says
  <2>4. CASE procs[p].out = <<Says("result", n, FALSE, p)>>
    <3>1. msg = Says("result", n, FALSE, p) /\ Tail(procs[p].out) = << >>
      BY <2>4, One DEF msg
    <3> QED
      BY <2>2, <3>1 DEF Says, Answering
  <2>5. CASE procs[p].out =
        <<Says("init", n, TRUE, p), Says("task", n, TRUE, p), Says("result", n, TRUE, p)>>
    <3> DEFINE x == Says("init", n, TRUE, p)
               y == Says("task", n, TRUE, p)
               z == Says("result", n, TRUE, p)
    <3>1. procs[p].out = <<x, y, z>>
      BY <2>5
    <3> HIDE DEF x, y, z
    <3>2. msg = x
      BY <3>1, Three DEF msg
    <3> QED
      BY <3>2 DEF msg, x, Says
  <2>6. CASE procs[p].out = <<Says("task", n, TRUE, p), Says("result", n, TRUE, p)>>
    <3>1. msg = Says("task", n, TRUE, p)
      BY <2>6, Two DEF msg
    <3> QED
      BY <3>1 DEF msg, Says
  <2> QED
    BY <2>2, <2>3, <2>4, <2>5, <2>6 DEF Answering
<1>18. Exchange'
  <2>1. client'.turn = 0 /\ client'.child = client.child
    BY <1>1, <1>3 DEF SdkTypes, ClientRecord
  <2>2. SUFFICES ASSUME Faithful(client.child)' PROVE Quiet(client.child)'
    BY <2>1 DEF Exchange
  <2>3. ASSUME NEW i \in DOMAIN turns, turns[i].proc = client.child
        PROVE  turns[i].outcome \notin {"timeout", "exit"}
    <3>1. CASE i = n
      BY <1>1, <3>1
    <3>2. CASE i # n
      BY <1>12, <1>13, <2>1, <2>2, <2>3, <3>2 DEF Faithful
    <3> QED
      BY <3>1, <3>2
  <2>4. Faithful(client.child)
    BY <2>3 DEF Faithful
  <2> QED
    BY <1>2, <1>14, <1>17, <2>1, <2>4 DEF Quiet
<1>19. C!OwnAnswer' /\ C!OwnChild'
  <2>1. /\ turns'[n].proc = client.child /\ turns'[n].by[1] = msg /\ msg.proc = client.child
    BY <1>1, <1>2, <1>7, <1>9, <1>11, <1>12
  <2> QED
    BY <1>12, <1>13, <1>16, <1>17, <2>1, OwnSettled DEF n
<1> QED
  BY <1>16, <1>18, <1>19 DEF SdkInv

\* Nothing is in use before the first call.
LEMMA SdkBegins == ASSUME C!SdkConstants, C!Init PROVE SdkInv
<1>1. /\ client = C!Idle /\ procs = << >> /\ where = "idle" /\ want = C!NoCall /\ turns = << >>
      /\ fails = 0 /\ told = [s \in 1 .. C!Prior |-> {}]
      /\ conf \in [persistent : BOOLEAN, prior : {0, C!Prior}]
  BY DEF C!Init
<1>2. SdkTypes
  <2>1. 0 \in 0 .. C!Prior /\ 0 \in Nat /\ "none" \in ModelNames
    BY DEF C!SdkConstants, C!Prior, ModelNames
  <2>2. client \in ClientRecord
    BY <1>1, <2>1 DEF C!Idle, ClientRecord
  <2>3. want \in [model : ModelNames, resume : 0 .. C!Prior, start : BOOLEAN]
    BY <1>1, <2>1 DEF C!NoCall
  <2> QED
    BY <1>1, <2>1, <2>2, <2>3 DEF SdkTypes, Places
<1>3. ChildOK
  BY <1>1 DEF ChildOK, C!Idle
<1>4. TurnOK
  BY <1>1 DEF TurnOK, C!Idle
<1>5. Exchange /\ C!OwnAnswer /\ C!OwnChild
  BY <1>1 DEF Exchange, C!OwnAnswer, C!OwnChild, C!Idle
<1> QED
  BY <1>2, <1>3, <1>4, <1>5 DEF SdkInv

\* Every step of the loop, the client and the children keeps it.
LEMMA SdkStep == ASSUME C!SdkConstants, SdkInv, [C!Next]_C!vars PROVE SdkInv'
<1>1. CASE C!Loop
  BY <1>1, CallStep, CloseStep DEF C!Loop
<1>2. CASE C!Client
  <2>1. CASE C!Launch \/ C!Started \/ C!Write \/ C!Drained
    BY <2>1, LaunchStep, StartedStep, WriteStep, DrainedStep
  <2>2. CASE C!Restarted \/ C!ClosedAfterTurn \/ C!Closed
    BY <2>2, CleanStep
  <2>3. ASSUME NEW p \in DOMAIN procs, C!Read(p) PROVE SdkInv'
    BY <2>3, ReadOn, ReadEnds
  <2> QED
    BY <1>2, <2>1, <2>2, <2>3 DEF C!Client
<1>3. CASE C!Process
  BY <1>3, AnswerStep, TaskEndsStep, ExitStep DEF C!Process
<1>4. CASE C!TimesOut
  BY <1>4, TimesOutStep
<1>5. CASE UNCHANGED C!vars
  <2>1. UNCHANGED <<conf, client, procs, told, where, want, turns, fails>>
    BY <1>5 DEF C!vars
  <2>2. SdkTypes'
    BY <2>1 DEF SdkInv, SdkTypes
  <2>3. ChildOK'
    BY <2>1 DEF SdkInv, ChildOK
  <2>4. TurnOK'
    BY <2>1 DEF SdkInv, TurnOK
  <2>5. Exchange'
    BY <2>1 DEF SdkInv, Exchange, Faithful, Talking, Quiet, Asked, Answering
  <2> QED
    BY <2>1, <2>2, <2>3, <2>4, <2>5, Untold DEF SdkInv
<1> QED
  BY <1>1, <1>2, <1>3, <1>4, <1>5 DEF C!Next

\* So it holds in every state of the client.
LEMMA SdkInvHolds == ASSUME C!SdkConstants PROVE C!Spec => []SdkInv
<1>1. C!Init => SdkInv
  BY SdkBegins
<1>2. SdkInv /\ [C!Next]_C!vars => SdkInv'
  BY SdkStep
<1> QED
  BY <1>1, <1>2, PTL DEF C!Spec

\* The types of the client, its children and its turns, which startClaudeSdk and
\* runTurnExclusive keep.
THEOREM SdkTypesHold == ASSUME C!SdkConstants PROVE C!Spec => []C!TypeOK
<1>1. ASSUME SdkInv PROVE C!TypeOK
  <2>1. SdkTypes /\ ChildOK /\ TurnOK
    BY <1>1 DEF SdkInv
  <2>2. Len(turns) \in Nat /\ client.turn \in Nat
    BY <2>1 DEF SdkTypes, ClientRecord
  <2>3. client.child \in 0 .. Len(procs) /\ client.turn \in 0 .. Len(turns)
    BY <2>1, <2>2 DEF ChildOK, TurnOK
  <2>4. \A p \in DOMAIN procs :
          procs[p].life \in {"up", "ending", "dead"} /\ procs[p].session \in 1 .. C!Prior
    <3>1. \A p \in DOMAIN procs : procs[p] \in ChildRecord
      BY <2>1 DEF SdkTypes
    <3> QED
      BY <3>1 DEF ChildRecord
  <2>5. \A j \in DOMAIN turns :
          turns[j].outcome \in {"open", "failed", "result", "timeout", "exit", "closed"}
    <3>1. \A j \in DOMAIN turns : turns[j] \in TurnRecord
      BY <2>1 DEF SdkTypes
    <3> QED
      BY <3>1 DEF TurnRecord, Outcomes
  <2> QED
    BY <2>1, <2>3, <2>4, <2>5 DEF C!TypeOK, C!This, SdkTypes, Places, ChildOK, TurnOK
<1> QED
  BY <1>1, SdkInvHolds, PTL

-----------------------------------------------------------------------------
(* The sessions: whose turns the transcript of a session holds.            *)

\* The turns that were given up.
GivenUp == {j \in DOMAIN turns : turns[j].outcome \in {"timeout", "exit"}}

\* A prompt, an answer and an entry of a transcript are of the child that its turn was written to.
Mail ==
  /\ client.resume = 0 /\ Len(procs) <= MaxProcs
  /\ \A p \in DOMAIN procs : \A k \in DOMAIN procs[p].inbox :
       procs[p].inbox[k].turn \in DOMAIN turns /\ turns[procs[p].inbox[k].turn].proc = p
  /\ \A p \in DOMAIN procs : \A k \in DOMAIN procs[p].out :
       /\ procs[p].out[k].turn \in DOMAIN turns /\ turns[procs[p].out[k].turn].proc = p
       /\ procs[p].out[k].turn \in told[procs[p].session]
       /\ procs[p].out[k].turn \in turns[procs[p].out[k].turn].knew
  /\ \A s \in DOMAIN told : \A i \in told[s] :
       i \in DOMAIN turns /\ turns[i].proc # 0 /\ procs[turns[i].proc].session = s
  /\ \A j \in C!Answered : j \in turns[j].knew
  /\ \A j \in DOMAIN turns : turns[j].outcome = "result" => turns[j].proc # 0

\* What a persistent session knew with each answer, read or not, of all that were before.
Remembers ==
  conf.persistent =>
    /\ \A p \in DOMAIN procs : \A k \in DOMAIN procs[p].out :
         procs[p].out[k].turn = Len(turns) => C!Answered \subseteq turns[Len(turns)].knew
    /\ \A j \in C!Answered : {i \in C!Answered : i <= j} \subseteq turns[j].knew

\* There is one such session from the first answer on, and the client has its name.
OneSession ==
  conf.persistent /\ C!Answered # {} =>
    /\ client.last # 0 /\ client.session \in {0, client.last}
    /\ C!Answered \subseteq told[client.last]
    /\ \A p \in DOMAIN procs :
         p = client.child \/ procs[p].out # << >> => procs[p].session = client.last

\* Otherwise a child is told to exit once it has answered.
OneEach ==
  ~conf.persistent =>
    /\ \A j \in DOMAIN turns : turns[j].outcome = "result" => procs[turns[j].proc].life # "up"
    /\ \A j \in C!Answered : turns[j].knew = {j} \/ C!Left(j) # {}

\* The next child is started in that session; and the first one in the session of an earlier run.
Resumes ==
  /\ conf.persistent /\ C!Answered # {} /\ where \in {"restart", "launch"} =>
       want.resume = client.last
  /\ want.start /\ where \in {"restart", "launch", "grace"} => turns = << >>
  /\ conf.prior # 0 =>
       /\ turns = << >> => client.session = 0 /\ client.last = 0
       /\ turns # << >> /\ turns[1].proc # 0 => procs[turns[1].proc].session = conf.prior
       /\ Len(turns) = 1 =>
            /\ where \in {"restart", "launch"} => want.resume = conf.prior
            /\ where = "launch" => client.child = 0
            /\ where \in {"grace", "write"} => procs[client.child].session = conf.prior

\* The client knows the session of its child before it reads an answer.
Begun ==
  client.child # 0 =>
    /\ where = "grace" => Quiet(client.child)
    /\ where # "grace" => \A k \in DOMAIN procs[client.child].out :
         procs[client.child].out[k].kind # "init" =>
           \/ \E i \in 1 .. k - 1 : procs[client.child].out[i].kind = "init"
           \/ client.session = procs[client.child].session
              /\ client.last = procs[client.child].session

\* Without a persistent session each turn has a child and a session of its own, until one is given up.
OfItsOwn ==
  /\ \A p \in DOMAIN procs : procs[p].session = p \/ (p = 1 /\ procs[p].session = C!Prior)
  /\ \A i, j \in DOMAIN turns : turns[i].proc = turns[j].proc /\ turns[i].proc # 0 => i = j
  /\ \A j \in DOMAIN turns : turns[j].knew \subseteq {j}
Fresh ==
  ~conf.persistent =>
    /\ turns = << >> => procs = << >> /\ where \in {"idle", "closing", "closed"}
    /\ GivenUp = {} =>
         /\ OfItsOwn /\ where # "restart"
         /\ where = "idle" => client.child = 0
         /\ where = "launch" => /\ client.child = 0 /\ want.resume \in {0, C!Prior}
                                /\ want.resume # 0 => procs = << >>
         /\ where \in {"grace", "write"} => \A i \in DOMAIN turns : turns[i].proc # client.child

SessInv == /\ Mail /\ Remembers /\ OneSession /\ OneEach
           /\ Resumes /\ Begun /\ Fresh

\* No turn gets a result, and what was answered, knew and was given up stays.
TurnsStay ==
  /\ DOMAIN turns \subseteq DOMAIN turns'
  /\ \A i \in DOMAIN turns :
       /\ turns'[i].knew = turns[i].knew
       /\ turns[i].proc # 0 => turns'[i].proc = turns[i].proc
       /\ turns[i].outcome \in {"result", "timeout", "exit"} =>
            turns'[i].outcome = turns[i].outcome /\ turns'[i].by = turns[i].by
       /\ turns'[i].outcome = "result" => turns[i].outcome = "result"
  /\ \A i \in DOMAIN turns' \ DOMAIN turns :
       turns'[i].knew = {} /\ turns'[i].proc = 0 /\ turns'[i].outcome = "open"

\* No child says anything, and what it is asked is for it.
ChildrenStay ==
  /\ DOMAIN procs \subseteq DOMAIN procs'
  /\ \A p \in DOMAIN procs :
       /\ procs'[p].session = procs[p].session
       /\ procs'[p].life = "up" => procs[p].life = "up"
       /\ \A k \in DOMAIN procs'[p].out :
            \E m \in DOMAIN procs[p].out : procs'[p].out[k] = procs[p].out[m]
       /\ \A k \in DOMAIN procs'[p].inbox :
            \/ \E m \in DOMAIN procs[p].inbox : procs'[p].inbox[k] = procs[p].inbox[m]
            \/ procs'[p].inbox[k].turn \in DOMAIN turns' /\ turns'[procs'[p].inbox[k].turn].proc = p
  /\ \A p \in DOMAIN procs' \ DOMAIN procs : procs'[p].out = << >> /\ procs'[p].inbox = << >>

\* The shape of the lists, before a step and after it.
LEMMA SdkShape ==
  ASSUME SdkInv
  PROVE  /\ SdkTypes /\ ChildOK /\ TurnOK
         /\ turns \in Seq(TurnRecord) /\ Len(turns) \in Nat /\ DOMAIN turns = 1 .. Len(turns)
         /\ procs \in Seq(ChildRecord) /\ Len(procs) \in Nat /\ DOMAIN procs = 1 .. Len(procs)
         /\ \A p \in DOMAIN procs : /\ procs[p].inbox \in Seq(Ask) /\ procs[p].out \in Seq(Said)
                                    /\ procs[p].session \in 1 .. C!Prior /\ procs[p].session \in Nat
         /\ told \in [1 .. C!Prior -> SUBSET Nat]
         /\ \A j \in DOMAIN turns : turns[j].proc # 0 => turns[j].proc \in DOMAIN procs
         /\ client \in ClientRecord
         /\ client.child # 0 => client.child \in DOMAIN procs
<1>1. SdkTypes /\ ChildOK /\ TurnOK
  BY DEF SdkInv
<1>2. turns \in Seq(TurnRecord) /\ procs \in Seq(ChildRecord) /\ client \in ClientRecord
      /\ told \in [1 .. C!Prior -> SUBSET Nat]
  BY <1>1 DEF SdkTypes
<1>3. ASSUME NEW p \in DOMAIN procs
      PROVE  /\ procs[p].inbox \in Seq(Ask) /\ procs[p].out \in Seq(Said)
             /\ procs[p].session \in 1 .. C!Prior /\ procs[p].session \in Nat
  <2>1. procs[p] \in ChildRecord
    BY <1>2
  <2> QED
    BY <2>1 DEF ChildRecord
<1>4. /\ Len(turns) \in Nat /\ DOMAIN turns = 1 .. Len(turns)
      /\ Len(procs) \in Nat /\ DOMAIN procs = 1 .. Len(procs)
  BY <1>2
<1>5. \A j \in DOMAIN turns : turns[j].proc # 0 => turns[j].proc \in DOMAIN procs
  BY <1>1, <1>4 DEF TurnOK
<1>6. client.child # 0 => client.child \in DOMAIN procs
  BY <1>1, <1>4 DEF ChildOK
<1> QED
  BY <1>1, <1>2, <1>3, <1>4, <1>5, <1>6

\* The shape after a step.
LEMMA ShapeNext ==
  ASSUME SdkInv'
  PROVE  /\ turns' \in Seq(TurnRecord) /\ Len(turns') \in Nat /\ DOMAIN turns' = 1 .. Len(turns')
         /\ procs' \in Seq(ChildRecord) /\ Len(procs') \in Nat /\ DOMAIN procs' = 1 .. Len(procs')
         /\ \A p \in DOMAIN procs' : procs'[p].out \in Seq(Said)
         /\ told' \in [1 .. C!Prior -> SUBSET Nat] /\ client' \in ClientRecord
<1>1. turns' \in Seq(TurnRecord) /\ procs' \in Seq(ChildRecord) /\ client' \in ClientRecord
      /\ told' \in [1 .. C!Prior -> SUBSET Nat]
  BY DEF SdkInv, SdkTypes
<1>2. ASSUME NEW p \in DOMAIN procs' PROVE procs'[p].out \in Seq(Said)
  <2>1. procs'[p] \in ChildRecord
    BY <1>1
  <2> QED
    BY <2>1 DEF ChildRecord
<1> QED
  BY <1>1, <1>2

\* Whom the turns were answered by stays, and who gave up.
LEMMA AnsweredStay ==
  ASSUME SdkInv, SdkInv', TurnsStay
  PROVE  /\ C!Answered' = C!Answered /\ GivenUp \subseteq GivenUp'
         /\ \A j \in DOMAIN turns : C!Left(j) \subseteq C!Left(j)'
<1>1. \A j \in DOMAIN turns : turns[j].outcome = "result" <=> turns'[j].outcome = "result"
  BY DEF TurnsStay
<1>2. \A j \in DOMAIN turns' : turns'[j].outcome = "result" => j \in DOMAIN turns
  BY DEF TurnsStay
<1>3. \A j \in DOMAIN turns : turns[j].outcome = "result" => turns'[j].by = turns[j].by
  BY DEF TurnsStay
<1>4. C!Answered' = C!Answered
  BY <1>1, <1>2, <1>3 DEF C!Answered, TurnsStay
<1>5. GivenUp \subseteq GivenUp'
  BY DEF GivenUp, TurnsStay
<1>6. ASSUME NEW j \in DOMAIN turns, NEW i \in C!Left(j) PROVE i \in C!Left(j)'
  <2>1. i \in 1 .. j - 1 /\ i \in DOMAIN turns /\ turns[i].outcome \in {"timeout", "exit"}
    BY <1>6, SdkShape DEF C!Left
  <2> QED
    BY <2>1 DEF C!Left, TurnsStay
<1> QED
  BY <1>4, <1>5, <1>6

\* A step at which no child says anything leaves what the transcripts hold.
LEMMA MailStays ==
  ASSUME SdkInv, SdkInv', Mail, TurnsStay, ChildrenStay, told' = told,
         client'.resume = 0, Len(procs') <= MaxProcs
  PROVE  Mail'
<1>1. /\ DOMAIN turns \subseteq DOMAIN turns' /\ DOMAIN procs \subseteq DOMAIN procs'
      /\ \A p \in DOMAIN procs : p # 0
  BY SdkShape DEF TurnsStay, ChildrenStay
<1>2. ASSUME NEW p \in DOMAIN procs', NEW k \in DOMAIN procs'[p].inbox
      PROVE  procs'[p].inbox[k].turn \in DOMAIN turns' /\ turns'[procs'[p].inbox[k].turn].proc = p
  <2>1. p \in DOMAIN procs
    BY <1>2 DEF ChildrenStay
  <2>2. CASE \E m \in DOMAIN procs[p].inbox : procs'[p].inbox[k] = procs[p].inbox[m]
    <3>1. PICK m \in DOMAIN procs[p].inbox : procs'[p].inbox[k] = procs[p].inbox[m]
      BY <2>2
    <3>2. procs[p].inbox[m].turn \in DOMAIN turns /\ turns[procs[p].inbox[m].turn].proc = p
      BY <2>1 DEF Mail
    <3> QED
      BY <1>1, <2>1, <3>1, <3>2 DEF TurnsStay
  <2> QED
    BY <2>1, <2>2 DEF ChildrenStay
<1>3. ASSUME NEW p \in DOMAIN procs', NEW k \in DOMAIN procs'[p].out
      PROVE  /\ procs'[p].out[k].turn \in DOMAIN turns' /\ turns'[procs'[p].out[k].turn].proc = p
             /\ procs'[p].out[k].turn \in told'[procs'[p].session]
             /\ procs'[p].out[k].turn \in turns'[procs'[p].out[k].turn].knew
  <2>1. p \in DOMAIN procs
    BY <1>3 DEF ChildrenStay
  <2>2. PICK m \in DOMAIN procs[p].out : procs'[p].out[k] = procs[p].out[m]
    BY <2>1 DEF ChildrenStay
  <2>3. /\ procs[p].out[m].turn \in DOMAIN turns /\ turns[procs[p].out[m].turn].proc = p
        /\ procs[p].out[m].turn \in told[procs[p].session]
        /\ procs[p].out[m].turn \in turns[procs[p].out[m].turn].knew
    BY <2>1 DEF Mail
  <2>4. procs'[p].session = procs[p].session
    BY <2>1 DEF ChildrenStay
  <2> QED
    BY <1>1, <2>1, <2>2, <2>3, <2>4 DEF TurnsStay
<1>4. ASSUME NEW s \in DOMAIN told', NEW i \in told'[s]
      PROVE  i \in DOMAIN turns' /\ turns'[i].proc # 0 /\ procs'[turns'[i].proc].session = s
  <2>1. i \in DOMAIN turns /\ turns[i].proc # 0 /\ procs[turns[i].proc].session = s
    BY DEF Mail
  <2>2. turns[i].proc \in DOMAIN procs
    BY <2>1, SdkShape
  <2> QED
    BY <1>1, <2>1, <2>2 DEF TurnsStay, ChildrenStay
<1>5. \A j \in C!Answered' : j \in turns'[j].knew
  BY AnsweredStay DEF Mail, TurnsStay, C!Answered
<1>6. \A j \in DOMAIN turns' : turns'[j].outcome = "result" => turns'[j].proc # 0
  BY DEF Mail, TurnsStay
<1> QED
  BY <1>2, <1>3, <1>4, <1>5, <1>6 DEF Mail

\* Nor does it change what a persistent session has known, and who was told to exit.
LEMMA MemoryStays ==
  ASSUME SdkInv, SdkInv', Mail, Remembers, OneEach, TurnsStay, ChildrenStay, conf' = conf
  PROVE  Remembers' /\ OneEach'
<1>1. /\ C!Answered' = C!Answered /\ C!Answered \subseteq DOMAIN turns
      /\ \A j \in DOMAIN turns : j \in DOMAIN turns' /\ turns'[j].knew = turns[j].knew
  BY AnsweredStay DEF TurnsStay, C!Answered
<1>2. ASSUME conf.persistent, NEW p \in DOMAIN procs', NEW k \in DOMAIN procs'[p].out,
             procs'[p].out[k].turn = Len(turns')
      PROVE  C!Answered' \subseteq turns'[Len(turns')].knew
  <2>1. p \in DOMAIN procs
    BY <1>2 DEF ChildrenStay
  <2>2. PICK m \in DOMAIN procs[p].out : procs'[p].out[k] = procs[p].out[m]
    BY <2>1 DEF ChildrenStay
  <2>3. procs[p].out[m].turn \in DOMAIN turns
    BY <2>1 DEF Mail
  <2>4. Len(turns') = Len(turns) /\ Len(turns) \in DOMAIN turns
    <3>1. /\ Len(turns) \in Nat /\ DOMAIN turns = 1 .. Len(turns)
          /\ Len(turns') \in Nat /\ DOMAIN turns' = 1 .. Len(turns')
      BY SdkShape, ShapeNext
    <3>2. Len(turns') \in 1 .. Len(turns)
      BY <1>2, <2>2, <2>3, <3>1
    <3>3. 1 .. Len(turns) \subseteq 1 .. Len(turns')
      BY <3>1 DEF TurnsStay
    <3>4. Len(turns) \in 1 .. Len(turns)
      BY <3>1, <3>2
    <3>5. Len(turns) \in 1 .. Len(turns')
      BY <3>3, <3>4
    <3>7. \A a, b \in Nat : a \in 1 .. b /\ b \in 1 .. a => a = b
      OBVIOUS
    <3>6. Len(turns') = Len(turns)
      BY <3>1, <3>2, <3>5, <3>7
    <3> QED
      BY <3>1, <3>4, <3>6
  <2> QED
    BY <1>1, <1>2, <2>1, <2>2, <2>4 DEF Remembers
<1>3. ASSUME conf.persistent
      PROVE  \A j \in C!Answered' : {i \in C!Answered' : i <= j} \subseteq turns'[j].knew
  BY <1>1, <1>3 DEF Remembers
<1>4. Remembers'
  BY <1>2, <1>3 DEF Remembers
<1>5. ASSUME ~conf.persistent, NEW j \in DOMAIN turns', turns'[j].outcome = "result"
      PROVE  procs'[turns'[j].proc].life # "up"
  <2>1. j \in DOMAIN turns /\ turns[j].outcome = "result"
    BY <1>5 DEF TurnsStay
  <2>2. turns[j].proc # 0 /\ turns[j].proc \in DOMAIN procs /\ procs[turns[j].proc].life # "up"
    BY <1>5, <2>1, SdkShape DEF Mail, OneEach
  <2> QED
    BY <2>1, <2>2 DEF TurnsStay, ChildrenStay
<1>6. ASSUME ~conf.persistent, NEW j \in C!Answered'
      PROVE  turns'[j].knew = {j} \/ C!Left(j)' # {}
  <2>1. turns[j].knew = {j} \/ C!Left(j) # {}
    BY <1>1, <1>6 DEF OneEach
  <2>2. C!Left(j) \subseteq C!Left(j)'
    BY <1>1, <1>6, AnsweredStay
  <2> QED
    BY <1>1, <1>6, <2>1, <2>2
<1>7. OneEach'
  BY <1>5, <1>6 DEF OneEach
<1> QED
  BY <1>4, <1>7

\* A persistent session stays the one there is.
LEMMA SessionStays ==
  ASSUME SdkInv, SdkInv', OneSession, TurnsStay, ChildrenStay, UNCHANGED <<conf, told>>,
         client'.last = client.last, client'.session \in {0, client.session},
         \/ client'.child \in {0, client.child}
         \/ conf.persistent /\ C!Answered # {} => procs'[client'.child].session = client.last
  PROVE  OneSession'
<1>1. C!Answered' = C!Answered
  BY AnsweredStay
<1>2. SUFFICES ASSUME conf.persistent, C!Answered # {}
               PROVE  /\ client'.last # 0 /\ client'.session \in {0, client'.last}
                      /\ C!Answered' \subseteq told'[client'.last]
                      /\ \A p \in DOMAIN procs' :
                           p = client'.child \/ procs'[p].out # << >> =>
                             procs'[p].session = client'.last
  BY <1>1 DEF OneSession
<1>3. /\ client.last # 0 /\ client.session \in {0, client.last}
      /\ C!Answered \subseteq told[client.last]
  BY <1>2 DEF OneSession
<1>4. ASSUME NEW p \in DOMAIN procs', p = client'.child \/ procs'[p].out # << >>
      PROVE  procs'[p].session = client.last
  <2>1. CASE procs'[p].out # << >>
    <3>1. p \in DOMAIN procs
      BY <2>1 DEF ChildrenStay
    <3>2. 1 \in DOMAIN procs'[p].out
      <4>1. procs'[p].out \in Seq(Said)
        BY ShapeNext
      <4> QED
        BY <2>1, <4>1
    <3>3. PICK m \in DOMAIN procs[p].out : TRUE
      BY <3>1, <3>2 DEF ChildrenStay
    <3>4. procs[p].out # << >>
      BY <3>3
    <3> QED
      BY <1>2, <3>1, <3>4 DEF OneSession, ChildrenStay
  <2>2. CASE p = client'.child /\ client'.child \in {0, client.child}
    <3>1. p # 0 /\ p = client.child
      BY <2>2, ShapeNext
    <3>2. p \in DOMAIN procs
      BY <3>1, SdkShape
    <3> QED
      BY <1>2, <3>1, <3>2 DEF OneSession, ChildrenStay
  <2> QED
    BY <1>2, <1>4, <2>1, <2>2
<1> QED
  BY <1>1, <1>3, <1>4

\* What such a step keeps of the invariant.
LEMMA Quietly ==
  ASSUME SdkInv, SdkInv', SessInv, TurnsStay, ChildrenStay, UNCHANGED <<conf, told>>,
         client'.resume = 0, Len(procs') <= MaxProcs,
         client'.last = client.last, client'.session \in {0, client.session},
         \/ client'.child \in {0, client.child}
         \/ conf.persistent /\ C!Answered # {} => procs'[client'.child].session = client.last
  PROVE  Mail' /\ Remembers' /\ OneSession' /\ OneEach'
BY MailStays, MemoryStays, SessionStays DEF SessInv

\* Nothing happens to a turn.
LEMMA NoTurn == ASSUME UNCHANGED turns PROVE TurnsStay
BY DEF TurnsStay
\* Nothing happens to a child.
LEMMA NoChild == ASSUME UNCHANGED procs PROVE ChildrenStay
BY DEF ChildrenStay

\* A turn that was open is settled by no result.
LEMMA NoResult ==
  ASSUME DOMAIN turns' = DOMAIN turns,
         \A i \in DOMAIN turns :
           /\ turns'[i].proc = turns[i].proc /\ turns'[i].knew = turns[i].knew
           /\ \/ turns'[i].outcome = turns[i].outcome /\ turns'[i].by = turns[i].by
              \/ turns[i].outcome = "open" /\ turns'[i].outcome # "result"
  PROVE  TurnsStay
BY DEF TurnsStay

\* The turns and the children are as far apart as they were.
LEMMA StillApart ==
  ASSUME SdkInv, OfItsOwn, TurnsStay, ChildrenStay, DOMAIN procs' = DOMAIN procs,
         \A i \in DOMAIN turns : turns'[i].proc = turns[i].proc
  PROVE  OfItsOwn'
<1>1. \A p \in DOMAIN procs' : procs'[p].session = p \/ (p = 1 /\ procs'[p].session = C!Prior)
  BY DEF OfItsOwn, ChildrenStay
<1>2. \A i, j \in DOMAIN turns' : turns'[i].proc = turns'[j].proc /\ turns'[i].proc # 0 => i = j
  BY DEF OfItsOwn, TurnsStay
<1>3. \A j \in DOMAIN turns' : turns'[j].knew \subseteq {j}
  BY DEF OfItsOwn, TurnsStay
<1> QED
  BY <1>1, <1>2, <1>3 DEF OfItsOwn

\* The fields after cleanup().
LEMMA CleanedFields ==
  ASSUME C!SdkConstants, NEW c \in ClientRecord
  PROVE  /\ C!Cleaned(c).child = 0 /\ C!Cleaned(c).session = 0
         /\ C!Cleaned(c).last = c.last /\ C!Cleaned(c).resume = c.resume
BY DEF C!Cleaned, ClientRecord

\* cleanup() forgets the session, but for the next child.
LEMMA CleanSessions ==
  ASSUME C!SdkConstants, SdkInv, SdkInv', SessInv, C!Restarted \/ C!ClosedAfterTurn \/ C!Closed
  PROVE  SessInv'
<1>1. /\ UNCHANGED <<conf, procs, told, want, turns>> /\ client' = C!Cleaned(client)
      /\ <<where, where'>> \in {<<"restart", "launch">>, <<"after", "idle">>, <<"closing", "closed">>}
  BY DEF C!Restarted, C!ClosedAfterTurn, C!Closed, C!Gone
<1>2. /\ client'.child = 0 /\ client'.session = 0 /\ client'.last = client.last
      /\ client'.resume = client.resume
  BY <1>1, CleanedFields, SdkShape
<1>3. Mail' /\ Remembers' /\ OneSession' /\ OneEach'
  BY <1>1, <1>2, NoTurn, NoChild, Quietly DEF SessInv, Mail
<1>4. C!Answered' = C!Answered /\ GivenUp \subseteq GivenUp'
  BY <1>1, NoTurn, AnsweredStay
<1>5. Resumes'
  BY <1>1, <1>2, <1>4 DEF SessInv, Resumes
<1>6. Begun'
  BY <1>2 DEF Begun
<1>7. Fresh'
  <2>1. ASSUME ~conf.persistent, GivenUp' = {} PROVE OfItsOwn' /\ where # "restart"
    <3>1. OfItsOwn /\ where # "restart"
      BY <1>4, <2>1 DEF SessInv, Fresh
    <3> QED
      BY <1>1, <3>1, NoTurn, NoChild, StillApart
  <2>2. ~conf.persistent /\ turns = << >> => procs = << >> /\ where = "closing"
    BY <1>1 DEF SessInv, Fresh
  <2> QED
    BY <1>1, <1>2, <2>1, <2>2 DEF Fresh
<1> QED
  BY <1>3, <1>5, <1>6, <1>7 DEF SessInv

\* A child that is told to exit, or not, says no more.
LEMMA KilledStay ==
  ASSUME SdkInv, procs' \in {procs, C!Killed(client.child)}
  PROVE  /\ ChildrenStay /\ Len(procs') = Len(procs) /\ DOMAIN procs' = DOMAIN procs
         /\ \A p \in DOMAIN procs : procs'[p].inbox = procs[p].inbox
                                    /\ procs'[p].out = procs[p].out
                                    /\ procs'[p].session = procs[p].session
<1>1. /\ Len(procs') = Len(procs) /\ DOMAIN procs' = DOMAIN procs
      /\ \A p \in DOMAIN procs :
           /\ procs'[p].inbox = procs[p].inbox /\ procs'[p].out = procs[p].out
           /\ procs'[p].session = procs[p].session
           /\ procs'[p].life = "up" => procs[p].life = "up"
  BY KilledOK
<1>2. ChildrenStay
  BY <1>1 DEF ChildrenStay
<1> QED
  BY <1>1, <1>2

\* A call chooses the session that the next child resumes, if there has to be one.
LEMMA CallSessions ==
  ASSUME C!SdkConstants, SdkInv, SdkInv', SessInv, NEW m \in Models, NEW start \in BOOLEAN,
         C!Call(m, start)
  PROVE  SessInv'
<1> DEFINE r == IF turns = << >> THEN conf.prior ELSE 0
           again == C!NeedsRestart(m, r)
           new == [model |-> m, outcome |-> "open", proc |-> 0, by |-> << >>, knew |-> {}]
<1>1. /\ where = "idle" /\ where' = IF again THEN "restart" ELSE "launch"
      /\ want' = [model |-> m, start |-> start,
                  resume |-> IF again \/ conf.persistent THEN C!Known(r) ELSE r]
      /\ start => conf.persistent /\ turns = << >> /\ procs = << >>
      /\ turns' = IF start THEN turns ELSE Append(turns, new)
      /\ procs' = IF again THEN C!Killed(client.child) ELSE procs
      /\ UNCHANGED <<conf, client, told>>
  BY DEF C!Call
<1>2. /\ want'.start = start
      /\ want'.resume = IF again \/ conf.persistent THEN C!Known(r) ELSE r
      /\ conf.prior \in {0, C!Prior} /\ conf.persistent \in BOOLEAN
  BY <1>1, SdkShape DEF SdkTypes
<1>3. /\ ~start => Len(turns') = Len(turns) + 1 /\ turns'[Len(turns')] = new
      /\ \A j \in DOMAIN turns : j \in DOMAIN turns' /\ turns'[j] = turns[j]
      /\ \A j \in DOMAIN turns' \ DOMAIN turns : turns'[j] = new
  <2>1. turns \in Seq(TurnRecord)
    BY SdkShape
  <2>2. CASE start
    BY <1>1, <2>2
  <2>3. CASE ~start
    <3>1. new \in TurnRecord
      BY DEF TurnRecord, Outcomes, ModelNames
    <3> HIDE DEF new
    <3>2. turns' = Append(turns, new)
      BY <1>1, <2>3
    <3> QED
      BY <2>1, <2>3, <3>1, <3>2, Longer
  <2> QED
    BY <2>2, <2>3
<1>4. new.proc = 0 /\ new.knew = {} /\ new.outcome = "open"
  OBVIOUS
<1> HIDE DEF new, again
<1>5. TurnsStay
  BY <1>3, <1>4 DEF TurnsStay
<1>6. /\ ChildrenStay /\ Len(procs') = Len(procs) /\ DOMAIN procs' = DOMAIN procs
      /\ \A p \in DOMAIN procs : procs'[p].inbox = procs[p].inbox /\ procs'[p].out = procs[p].out
                                 /\ procs'[p].session = procs[p].session
  BY <1>1, KilledStay
<1>7. Mail' /\ Remembers' /\ OneSession' /\ OneEach'
  BY <1>1, <1>5, <1>6, Quietly DEF SessInv, Mail
<1>8. /\ C!Answered' = C!Answered /\ C!Answered \subseteq DOMAIN turns
      /\ GivenUp \subseteq GivenUp'
  BY <1>5, AnsweredStay DEF C!Answered
<1>9. Resumes'
  <2>1. ASSUME conf.persistent, C!Answered # {} PROVE want'.resume = client.last
    <3>1. client.last # 0 /\ client.session \in {0, client.last}
      BY <2>1 DEF SessInv, OneSession
    <3>2. turns # << >>
      BY <1>8, <2>1
    <3> QED
      BY <1>2, <2>1, <3>1, <3>2 DEF C!Known
  <2>2. want'.start => turns' = << >>
    BY <1>1, <1>2
  <2>3. ASSUME conf.prior # 0
        PROVE  /\ turns' = << >> => client.session = 0 /\ client.last = 0
               /\ turns' # << >> /\ turns'[1].proc # 0 =>
                    procs'[turns'[1].proc].session = conf.prior
               /\ Len(turns') = 1 => want'.resume = conf.prior
                                     /\ (where' = "launch" => client.child = 0)
    <3>1. turns' = << >> => turns = << >>
      BY <1>3, SdkShape
    <3>2. ASSUME turns' # << >>, turns'[1].proc # 0
          PROVE  procs'[turns'[1].proc].session = conf.prior
      <4>1. 1 \in DOMAIN turns'
        BY <3>2, ShapeNext
      <4>2. 1 \in DOMAIN turns /\ turns'[1] = turns[1]
        BY <1>3, <1>4, <3>2, <4>1
      <4>3. turns[1].proc \in DOMAIN procs
        BY <3>2, <4>2, SdkShape
      <4> QED
        BY <1>6, <2>3, <3>2, <4>2, <4>3 DEF SessInv, Resumes
    <3>3. ASSUME Len(turns') = 1 PROVE turns = << >> /\ ~start
      <4>1. Len(turns) \in Nat /\ turns \in Seq(TurnRecord)
        BY SdkShape
      <4>2. CASE start
        BY <1>1, <3>3, <4>1, <4>2
      <4>3. CASE ~start
        BY <1>3, <3>3, <4>1, <4>3
      <4> QED
        BY <4>2, <4>3
    <3>4. turns = << >> => client.session = 0 /\ client.last = 0
      BY <2>3 DEF SessInv, Resumes
    <3>5. ASSUME Len(turns') = 1, where' = "launch" PROVE client.child = 0
      <4>1. ~again /\ turns = << >>
        BY <1>1, <3>3, <3>5
      <4>2. ~client.started
        BY <2>3, <3>4, <4>1 DEF again, C!NeedsRestart
      <4> QED
        BY <4>2, SdkShape DEF ChildOK
    <3>6. Len(turns') = 1 => want'.resume = conf.prior
      BY <1>2, <2>3, <3>3 DEF C!Known
    <3> QED
      BY <3>1, <3>2, <3>4, <3>5, <3>6
  <2> QED
    BY <1>1, <1>8, <2>1, <2>2, <2>3 DEF Resumes
<1>10. Begun'
  <2>1. client.child # 0 => client.child \in DOMAIN procs
    BY SdkShape
  <2> QED
    BY <1>1, <1>6, <2>1 DEF SessInv, Begun
<1>11. Fresh'
  <2>1. SUFFICES ASSUME ~conf.persistent
                 PROVE  /\ turns' # << >>
                        /\ GivenUp' = {} =>
                             /\ OfItsOwn' /\ where' = "launch" /\ client.child = 0
                             /\ want'.resume \in {0, C!Prior}
                             /\ want'.resume # 0 => procs' = << >>
    BY <1>1 DEF Fresh
  <2>2. ~start /\ turns' # << >>
    <3>1. ~start
      BY <1>1, <2>1
    <3>2. turns' = Append(turns, new) /\ turns \in Seq(TurnRecord)
      BY <1>1, <3>1, SdkShape
    <3> QED
      BY <3>1, <3>2
  <2>3. ASSUME GivenUp' = {}
        PROVE  /\ OfItsOwn' /\ where' = "launch" /\ client.child = 0
               /\ want'.resume \in {0, C!Prior} /\ (want'.resume # 0 => procs' = << >>)
    <3>1. OfItsOwn /\ client.child = 0
      BY <1>1, <1>8, <2>1, <2>3 DEF SessInv, Fresh
    <3>2. ~client.started
      BY <3>1, SdkShape DEF ChildOK
    <3>3. ~again
      BY <3>2 DEF again, C!NeedsRestart
    <3>4. want'.resume = r /\ procs' = procs
      BY <1>1, <1>2, <2>1, <3>3
    <3>5. OfItsOwn'
      BY <1>3, <1>5, <1>6, <3>1, StillApart
    <3>6. r # 0 => procs = << >>
      BY <2>1 DEF SessInv, Fresh
    <3> QED
      BY <1>1, <1>2, <3>1, <3>3, <3>4, <3>5, <3>6
  <2> QED
    BY <2>2, <2>3
<1> QED
  BY <1>7, <1>9, <1>10, <1>11 DEF SessInv

\* A child that could not be started leaves the session to the next one.
LEMMA FailSessions ==
  ASSUME C!SdkConstants, SdkInv, SdkInv', SessInv, where \in {"launch", "grace"},
         NEW c \in ClientRecord, c.last = client.last, c.resume = 0,
         C!CallFails(C!Cleaned(c)), UNCHANGED <<conf, procs, told, want>>
  PROVE  SessInv'
<1>1. client' = C!Cleaned(c) /\ turns' = C!Settled("failed") /\ where' = "idle"
  BY DEF C!CallFails
<1>2. client'.child = 0 /\ client'.session = 0 /\ client'.last = client.last /\ client'.resume = 0
  BY <1>1, CleanedFields
<1>3. /\ DOMAIN turns' = DOMAIN turns
      /\ \A i \in DOMAIN turns :
           /\ turns'[i].proc = turns[i].proc /\ turns'[i].knew = turns[i].knew
           /\ \/ turns'[i].outcome = turns[i].outcome /\ turns'[i].by = turns[i].by
              \/ turns[i].outcome = "open" /\ turns'[i].outcome # "result"
  <2>1. CASE want.start
    BY <1>1, <2>1 DEF C!Settled
  <2>2. CASE ~want.start
    <3>1. SdkTypes /\ Len(turns) \in DOMAIN turns /\ turns[Len(turns)].outcome = "open"
          /\ "failed" \in Outcomes
      BY <2>2, SdkShape DEF TurnOK, Outcomes
    <3> DEFINE e == [turns[Len(turns)] EXCEPT !.outcome = "failed"]
    <3>2. turns' = [turns EXCEPT ![Len(turns)] = e]
      BY <1>1, <2>2 DEF C!Settled, C!This
    <3>3. e = [turns[Len(turns)] EXCEPT !.outcome = "failed"]
      OBVIOUS
    <3> HIDE DEF e
    <3>4. /\ DOMAIN turns' = DOMAIN turns
          /\ \A i \in DOMAIN turns :
               /\ turns'[i].proc = turns[i].proc /\ turns'[i].by = turns[i].by
               /\ turns'[i].knew = turns[i].knew
               /\ turns'[i].outcome = (IF i = Len(turns) THEN "failed" ELSE turns[i].outcome)
      BY <3>1, <3>2, <3>3, SettledOK
    <3> QED
      BY <3>1, <3>4
  <2> QED
    BY <2>1, <2>2
<1>4. TurnsStay /\ ChildrenStay
  BY <1>3, NoResult, NoChild
<1>5. Mail' /\ Remembers' /\ OneSession' /\ OneEach'
  BY <1>2, <1>4, Quietly DEF SessInv, Mail
<1>6. GivenUp \subseteq GivenUp' /\ (turns' = << >> <=> turns = << >>) /\ (turns # << >> => 1 \in DOMAIN turns)
  BY <1>3, <1>4, AnsweredStay, SdkShape, ShapeNext
<1>7. Resumes'
  BY <1>1, <1>2, <1>3, <1>6 DEF SessInv, Resumes
<1>8. Begun'
  BY <1>2 DEF Begun
<1>9. Fresh'
  <2>1. ASSUME ~conf.persistent PROVE turns # << >> /\ (GivenUp' = {} => OfItsOwn')
    <3>1. turns # << >>
      BY <2>1 DEF SessInv, Fresh
    <3>2. GivenUp' = {} => OfItsOwn
      BY <1>6, <2>1 DEF SessInv, Fresh
    <3> QED
      BY <1>3, <1>4, <3>1, <3>2, StillApart
  <2> QED
    BY <1>1, <1>2, <1>6, <2>1 DEF Fresh
<1> QED
  BY <1>5, <1>7, <1>8, <1>9 DEF SessInv

\* start() gives a new child the session it was told to resume, or one of its own.
LEMMA LaunchSessions ==
  ASSUME C!SdkConstants, SdkInv, SdkInv', SessInv, C!Launch PROVE SessInv'
<1> DEFINE resume == IF want.resume # 0 /\ client.child = 0 THEN want.resume ELSE client.resume
           set == [client EXCEPT !.model = want.model, !.resume = resume]
           none == [set EXCEPT !.resume = 0]
           p == Len(procs) + 1
           new == [life |-> "up", model |-> want.model, inbox |-> << >>, out |-> << >>,
                   busy |-> FALSE, session |-> IF resume # 0 THEN resume ELSE p]
<1>1. /\ SdkTypes /\ ChildOK /\ TurnOK /\ where = "launch" /\ UNCHANGED <<conf, told, want>>
      /\ client \in ClientRecord /\ client.resume = 0 /\ Len(procs) \in Nat
      /\ 0 \in 0 .. C!Prior /\ want.resume \in 0 .. C!Prior
  BY SdkShape DEF C!Launch, SessInv, Mail, SdkTypes, C!SdkConstants, C!Prior
<1>2. resume \in 0 .. C!Prior /\ resume = IF client.child = 0 THEN want.resume ELSE 0
  BY <1>1
<1> HIDE DEF resume
<1>3. /\ set \in ClientRecord /\ set.child = client.child /\ set.session = client.session
      /\ set.last = client.last /\ set.resume = resume
      /\ none \in ClientRecord /\ none.last = client.last /\ none.resume = 0
  BY <1>1, <1>2 DEF SdkTypes, ClientRecord
<1>4. ASSUME ~conf.persistent PROVE turns # << >>
  BY <1>1, <1>4 DEF SessInv, Fresh
<1>5. CASE client.started
  <2>1. /\ client' = set /\ where' = (IF want.start THEN "idle" ELSE "write")
        /\ UNCHANGED <<procs, turns>>
    BY <1>5 DEF C!Launch, resume
  <2> HIDE DEF set
  <2>2. client.child # 0 /\ client'.child = client.child /\ client'.resume = 0
    BY <1>1, <1>2, <1>3, <1>5, <2>1 DEF ChildOK
  <2>3. TurnsStay /\ ChildrenStay
    BY <2>1, NoTurn, NoChild
  <2>4. Mail' /\ Remembers' /\ OneSession' /\ OneEach'
    BY <1>1, <1>3, <2>1, <2>2, <2>3, Quietly DEF SessInv, Mail
  <2>5. Resumes'
    BY <1>1, <1>3, <2>1, <2>2 DEF SessInv, Resumes
  <2>6. Begun'
    BY <1>1, <1>3, <2>1, <2>2 DEF SessInv, Begun
  <2>7. GivenUp' = GivenUp
    BY <2>1 DEF GivenUp
  <2>8. Fresh'
    BY <1>1, <1>4, <2>1, <2>2, <2>7 DEF SessInv, Fresh
  <2> QED
    BY <2>4, <2>5, <2>6, <2>8 DEF SessInv
<1>6. CASE ~client.started /\ C!CallFails(C!Cleaned(none)) /\ UNCHANGED procs
  <2> HIDE DEF none
  <2> QED
    BY <1>1, <1>3, <1>6, FailSessions
<1>7. CASE /\ ~client.started /\ p <= MaxProcs /\ where' = "grace"
           /\ client' = [set EXCEPT !.resume = 0, !.started = TRUE, !.child = p]
           /\ procs' = Append(procs, new) /\ UNCHANGED turns
  <2>1. client.child = 0 /\ resume = want.resume /\ procs \in Seq(ChildRecord)
    BY <1>1, <1>2, <1>7, SdkShape DEF ChildOK
  <2> HIDE DEF set
  <2>2. /\ client'.child = p /\ client'.session = client.session /\ client'.last = client.last
        /\ client'.resume = 0
    BY <1>1, <1>3, <1>7 DEF ClientRecord
  <2>3. new \in ChildRecord
    <3>1. want.model \in ModelNames /\ p \in 1 .. C!Prior
      BY <1>1, <1>7 DEF SdkTypes, C!SdkConstants, C!Prior
    <3>2. (IF resume # 0 THEN resume ELSE p) \in 1 .. C!Prior
      BY <1>2, <3>1 DEF C!SdkConstants, C!Prior
    <3>3. << >> \in Seq(Ask) /\ << >> \in Seq(Said)
      OBVIOUS
    <3> QED
      BY <3>1, <3>2, <3>3 DEF ChildRecord
  <2>4. /\ new.inbox = << >> /\ new.out = << >>
        /\ new.session = IF want.resume # 0 THEN want.resume ELSE p
    BY <2>1
  <2> HIDE DEF new
  <2>5. /\ Len(procs') = p /\ procs'[p] = new
        /\ \A q \in DOMAIN procs : q \in DOMAIN procs' /\ procs'[q] = procs[q]
        /\ \A q \in DOMAIN procs' : q \in DOMAIN procs \/ q = p
    BY <1>1, <1>7, <2>1, <2>3, Longer
  <2>6. TurnsStay
    BY <1>7, NoTurn
  <2>7. ChildrenStay
    <3>1. ASSUME NEW q \in DOMAIN procs
          PROVE  /\ procs'[q].session = procs[q].session
                 /\ procs'[q].life = "up" => procs[q].life = "up"
                 /\ \A k \in DOMAIN procs'[q].out :
                      \E m \in DOMAIN procs[q].out : procs'[q].out[k] = procs[q].out[m]
                 /\ \A k \in DOMAIN procs'[q].inbox :
                      \E m \in DOMAIN procs[q].inbox : procs'[q].inbox[k] = procs[q].inbox[m]
      BY <2>5
    <3>2. \A q \in DOMAIN procs' \ DOMAIN procs : procs'[q].out = << >> /\ procs'[q].inbox = << >>
      BY <2>4, <2>5
    <3> QED
      BY <2>5, <3>1, <3>2 DEF ChildrenStay
  <2>8. conf.persistent /\ C!Answered # {} => procs'[p].session = client.last
    <3>1. ASSUME conf.persistent, C!Answered # {} PROVE procs'[p].session = client.last
      <4>1. want.resume = client.last /\ client.last # 0
        BY <1>1, <3>1 DEF SessInv, Resumes, OneSession
      <4> QED
        BY <2>4, <2>5, <4>1
    <3> QED
      BY <3>1
  <2>9. Mail' /\ Remembers' /\ OneSession' /\ OneEach'
    BY <1>1, <1>7, <2>2, <2>5, <2>6, <2>7, <2>8, Quietly
  <2>10. Resumes'
    <3>1. want.start => turns = << >>
      BY <1>1 DEF SessInv, Resumes
    <3>2. ASSUME conf.prior # 0
          PROVE  /\ turns = << >> => client.session = 0 /\ client.last = 0
                 /\ turns # << >> /\ turns[1].proc # 0 =>
                      procs'[turns[1].proc].session = conf.prior
                 /\ Len(turns) = 1 => procs'[p].session = conf.prior
      <4>1. turns # << >> /\ turns[1].proc # 0 =>
              turns[1].proc \in DOMAIN procs /\ procs[turns[1].proc].session = conf.prior
        BY <3>2, SdkShape DEF SessInv, Resumes
      <4>2. Len(turns) = 1 => want.resume = conf.prior
        BY <1>1, <3>2 DEF SessInv, Resumes
      <4> QED
        BY <2>4, <2>5, <3>2, <4>1, <4>2 DEF SessInv, Resumes
    <3> QED
      BY <1>1, <1>7, <2>2, <3>1, <3>2 DEF Resumes
  <2>11. Begun'
    BY <1>7, <2>2, <2>4, <2>5 DEF Begun, Quiet
  <2>12. Fresh'
    <3>1. ASSUME ~conf.persistent, GivenUp = {}
          PROVE  OfItsOwn' /\ \A i \in DOMAIN turns : turns[i].proc # p
      <4>1. OfItsOwn /\ want.resume \in {0, C!Prior} /\ (want.resume # 0 => procs = << >>)
        BY <1>1, <3>1 DEF SessInv, Fresh
      <4>2. ASSUME NEW q \in DOMAIN procs'
            PROVE  procs'[q].session = q \/ (q = 1 /\ procs'[q].session = C!Prior)
        <5>1. CASE q \in DOMAIN procs
          BY <2>5, <4>1, <5>1 DEF OfItsOwn
        <5>2. CASE q = p
          BY <1>1, <2>4, <2>5, <4>1, <5>2
        <5> QED
          BY <2>5, <5>1, <5>2
      <4>3. OfItsOwn'
        BY <1>7, <4>1, <4>2 DEF OfItsOwn
      <4>4. \A i \in DOMAIN turns : turns[i].proc # p
        BY <1>1 DEF TurnOK
      <4> QED
        BY <4>3, <4>4
    <3>2. GivenUp' = GivenUp
      BY <1>7 DEF GivenUp
    <3> QED
      BY <1>1, <1>4, <1>7, <2>2, <3>1, <3>2 DEF Fresh
  <2> QED
    BY <2>9, <2>10, <2>11, <2>12 DEF SessInv
<1> QED
  BY <1>5, <1>6, <1>7 DEF C!Launch, resume

\* The grace is over: the client goes on with a child that has said nothing yet.
LEMMA StartedSessions ==
  ASSUME C!SdkConstants, SdkInv, SdkInv', SessInv, C!Started PROVE SessInv'
<1>1. /\ SdkTypes /\ ChildOK /\ where = "grace" /\ client.started /\ client.child \in DOMAIN procs
      /\ client.child # 0 /\ client \in ClientRecord /\ client.resume = 0
      /\ UNCHANGED <<conf, told, want>>
  BY SdkShape DEF C!Started, ChildOK, SessInv, Mail
<1>2. CASE procs[client.child].life = "dead"
  <2>1. C!CallFails(C!Cleaned(client)) /\ UNCHANGED procs
    BY <1>2 DEF C!Started, C!Child
  <2> QED
    BY <1>1, <2>1, FailSessions
<1>3. CASE procs[client.child].life # "dead"
  <2>1. /\ client' = [client EXCEPT !.ready = TRUE]
        /\ where' = IF want.start THEN "idle" ELSE "write"
        /\ procs' = [p \in DOMAIN procs |->
                       IF p = client.child THEN procs[p] ELSE [procs[p] EXCEPT !.out = << >>]]
        /\ UNCHANGED turns
    BY <1>3 DEF C!Started, C!Child
  <2>2. /\ client'.child = client.child /\ client'.session = client.session
        /\ client'.last = client.last /\ client'.resume = 0
    BY <1>1, <2>1 DEF ClientRecord
  <2>3. ASSUME NEW p \in DOMAIN procs
        PROVE  /\ procs'[p].session = procs[p].session /\ procs'[p].life = procs[p].life
               /\ procs'[p].inbox = procs[p].inbox
               /\ procs'[p].out = IF p = client.child THEN procs[p].out ELSE << >>
    <3>1. procs[p] \in ChildRecord
      BY SdkShape
    <3> QED
      BY <2>1, <3>1 DEF ChildRecord
  <2>4. DOMAIN procs' = DOMAIN procs /\ Len(procs') = Len(procs)
    <3>1. DOMAIN procs' = DOMAIN procs
      BY <2>1
    <3>2. /\ DOMAIN procs = 1 .. Len(procs) /\ DOMAIN procs' = 1 .. Len(procs')
          /\ Len(procs) \in Nat /\ Len(procs') \in Nat
      BY SdkShape, ShapeNext
    <3>3. \A a, b \in Nat : 1 .. a = 1 .. b => a = b
      <4>1. ASSUME NEW a \in Nat, NEW b \in Nat, 1 .. a = 1 .. b, a < b PROVE FALSE
        <5>1. b \in 1 .. b /\ b \notin 1 .. a
          BY <4>1
        <5> QED
          BY <4>1, <5>1
      <4>2. ASSUME NEW a \in Nat, NEW b \in Nat, 1 .. a = 1 .. b, b < a PROVE FALSE
        <5>1. a \in 1 .. a /\ a \notin 1 .. b
          BY <4>2
        <5> QED
          BY <4>2, <5>1
      <4> QED
        BY <4>1, <4>2
    <3>4. 1 .. Len(procs) = 1 .. Len(procs')
      BY <3>1, <3>2
    <3> QED
      BY <3>1, <3>2, <3>3, <3>4
  <2>5. TurnsStay
    BY <2>1, NoTurn
  <2>6. ChildrenStay
    <3>1. ASSUME NEW p \in DOMAIN procs, NEW k \in DOMAIN procs'[p].out
          PROVE  \E m \in DOMAIN procs[p].out : procs'[p].out[k] = procs[p].out[m]
      <4>1. CASE p = client.child
        BY <2>3, <3>1, <4>1
      <4>2. CASE p # client.child
        <5>1. procs'[p].out = << >>
          BY <2>3, <4>2
        <5> QED
          BY <3>1, <5>1
      <4> QED
        BY <4>1, <4>2
    <3> QED
      BY <2>3, <2>4, <3>1 DEF ChildrenStay
  <2>7. Mail' /\ Remembers' /\ OneSession' /\ OneEach'
    BY <1>1, <2>2, <2>4, <2>5, <2>6, Quietly DEF SessInv, Mail
  <2>8. Resumes'
    <3>1. conf.prior # 0 /\ turns # << >> /\ turns[1].proc # 0 =>
            procs'[turns[1].proc].session = conf.prior
      <4>1. turns # << >> /\ turns[1].proc # 0 => turns[1].proc \in DOMAIN procs
        BY SdkShape
      <4> QED
        BY <2>3, <4>1 DEF SessInv, Resumes
    <3>2. procs'[client.child].session = procs[client.child].session
      BY <1>1, <2>3
    <3> QED
      BY <1>1, <2>1, <2>2, <3>1, <3>2 DEF SessInv, Resumes
  <2>9. Begun'
    <3>1. procs'[client.child].out = << >>
      BY <1>1, <2>3 DEF SessInv, Begun, Quiet
    <3> QED
      BY <2>1, <2>2, <3>1 DEF Begun
  <2>10. Fresh'
    <3>1. GivenUp' = GivenUp
      BY <2>1 DEF GivenUp
    <3>2. ASSUME ~conf.persistent PROVE turns # << >> /\ ~want.start
      BY <1>1, <3>2 DEF SessInv, Fresh, Resumes
    <3>3. OfItsOwn => OfItsOwn'
      BY <2>1, <2>4, <2>5, <2>6, StillApart
    <3> QED
      BY <1>1, <2>1, <2>2, <3>1, <3>2, <3>3 DEF SessInv, Fresh
  <2> QED
    BY <2>7, <2>8, <2>9, <2>10 DEF SessInv
<1> QED
  BY <1>2, <1>3

\* What is asked of the child of a turn is for it.
LEMMA SentStay ==
  ASSUME SdkInv, NEW j \in Nat, NEW part \in {"prompt", "continue"}, procs' = C!Sent(j, part),
         j \in DOMAIN turns', turns'[j].proc = client.child
  PROVE  /\ ChildrenStay /\ DOMAIN procs' = DOMAIN procs /\ Len(procs') = Len(procs)
         /\ \A p \in DOMAIN procs : procs'[p].out = procs[p].out
                                    /\ procs'[p].session = procs[p].session
<1>1. /\ Len(procs') = Len(procs) /\ DOMAIN procs' = DOMAIN procs
      /\ \A p \in DOMAIN procs :
           /\ procs'[p].life = procs[p].life /\ procs'[p].session = procs[p].session
           /\ procs'[p].out = procs[p].out
           /\ procs'[p].inbox = IF p = client.child /\ procs[p].life = "up"
                            THEN Append(procs[p].inbox, [turn |-> j, part |-> part])
                            ELSE procs[p].inbox
  BY SentOK
<1>2. ASSUME NEW p \in DOMAIN procs, NEW k \in DOMAIN procs'[p].inbox
      PROVE  \/ \E m \in DOMAIN procs[p].inbox : procs'[p].inbox[k] = procs[p].inbox[m]
             \/ procs'[p].inbox[k].turn \in DOMAIN turns' /\ turns'[procs'[p].inbox[k].turn].proc = p
  <2> DEFINE a == [turn |-> j, part |-> part]
  <2>1. procs[p].inbox \in Seq(Ask) /\ a \in Ask /\ a.turn = j
    BY SdkShape DEF Ask
  <2> HIDE DEF a
  <2>2. CASE p = client.child /\ procs[p].life = "up"
    <3>1. procs'[p].inbox = Append(procs[p].inbox, a)
      BY <1>1, <2>2 DEF a
    <3>2. \/ k \in DOMAIN procs[p].inbox /\ procs'[p].inbox[k] = procs[p].inbox[k]
          \/ procs'[p].inbox[k] = a
      BY <1>2, <2>1, <3>1
    <3> QED
      BY <2>1, <2>2, <3>2
  <2>3. CASE ~(p = client.child /\ procs[p].life = "up")
    BY <1>1, <1>2, <2>3
  <2> QED
    BY <2>2, <2>3
<1>3. ChildrenStay
  BY <1>1, <1>2 DEF ChildrenStay
<1> QED
  BY <1>1, <1>3

\* The turn is written to the child, in whose session it will be.
LEMMA WriteSessions ==
  ASSUME C!SdkConstants, SdkInv, SdkInv', SessInv, C!Write PROVE SessInv'
<1> DEFINE n == Len(turns)
           c == client.child
<1>1. /\ where = "write" /\ where' = "await" /\ client.child # 0 /\ client \in ClientRecord
      /\ c \in DOMAIN procs /\ turns' = [turns EXCEPT ![n].proc = c] /\ procs' = C!Sent(n, "prompt")
      /\ client' = [client EXCEPT !.turn = n, !.tasks = FALSE, !.draining = FALSE]
      /\ UNCHANGED <<conf, told, want>>
  BY SdkShape DEF C!Write, C!This, ChildOK
<1>2. n \in DOMAIN turns /\ turns[n].proc = 0 /\ turns[n].outcome = "open" /\ n \in Nat
  BY <1>1, SdkShape DEF TurnOK
<1>3. /\ client'.child = c /\ client'.session = client.session /\ client'.last = client.last
      /\ client'.resume = client.resume
  BY <1>1 DEF ClientRecord
<1>4. /\ DOMAIN turns' = DOMAIN turns
      /\ \A i \in DOMAIN turns :
           /\ turns'[i].knew = turns[i].knew /\ turns'[i].by = turns[i].by
           /\ turns'[i].outcome = turns[i].outcome
           /\ turns'[i].proc = IF i = n THEN c ELSE turns[i].proc
  <2>1. \A i \in DOMAIN turns : turns[i] \in TurnRecord
    BY SdkShape
  <2> QED
    BY <1>1, <1>2, <2>1 DEF TurnRecord
<1> HIDE DEF n, c
<1>5. TurnsStay
  BY <1>2, <1>4 DEF TurnsStay
<1>6. /\ ChildrenStay /\ DOMAIN procs' = DOMAIN procs /\ Len(procs') = Len(procs)
      /\ \A p \in DOMAIN procs : procs'[p].out = procs[p].out
                                 /\ procs'[p].session = procs[p].session
  BY <1>1, <1>2, <1>4, SentStay DEF c
<1>7. Mail' /\ Remembers' /\ OneSession' /\ OneEach'
  BY <1>1, <1>3, <1>5, <1>6, Quietly DEF SessInv, Mail, c
<1>8. Resumes'
  <2>1. ASSUME conf.prior # 0, turns'[1].proc # 0 PROVE procs'[turns'[1].proc].session = conf.prior
    <3>1. 1 \in DOMAIN turns /\ Len(turns) \in Nat
      BY <1>2, SdkShape
    <3>2. CASE n = 1
      <4>1. conf.prior # 0 /\ Len(turns) = 1 /\ where \in {"grace", "write"}
        BY <1>1, <2>1, <3>2 DEF n
      <4>2. Resumes
        BY DEF SessInv
      <4>3. procs[c].session = conf.prior
        BY <4>1, <4>2 DEF Resumes, c
      <4>4. turns'[1].proc = c
        BY <1>4, <3>1, <3>2
      <4>5. procs'[c].session = procs[c].session
        BY <1>1, <1>6 DEF c
      <4> QED
        BY <4>1, <4>3, <4>4, <4>5
    <3>3. CASE n # 1
      <4>1. turns'[1].proc = turns[1].proc /\ turns[1].proc \in DOMAIN procs
        BY <1>4, <2>1, <3>1, <3>3, SdkShape
      <4>2. procs[turns[1].proc].session = conf.prior
        BY <2>1, <3>1, <4>1 DEF SessInv, Resumes
      <4> QED
        BY <1>6, <4>1, <4>2
    <3> QED
      BY <3>2, <3>3
  <2>2. turns' # << >>
    BY <1>2, <1>4
  <2> QED
    BY <1>1, <2>1, <2>2 DEF Resumes
<1>9. Begun'
  BY <1>1, <1>3, <1>6 DEF SessInv, Begun, c
<1>10. Fresh'
  <2>1. turns' # << >> /\ GivenUp \subseteq GivenUp'
    BY <1>2, <1>4, <1>5, AnsweredStay
  <2>2. ASSUME ~conf.persistent, GivenUp' = {} PROVE OfItsOwn'
    <3>1. OfItsOwn /\ \A i \in DOMAIN turns : turns[i].proc # c
      BY <1>1, <2>1, <2>2 DEF SessInv, Fresh, c
    <3>2. \A p \in DOMAIN procs' :
            procs'[p].session = p \/ (p = 1 /\ procs'[p].session = C!Prior)
      BY <1>6, <3>1 DEF OfItsOwn
    <3>3. \A i, j \in DOMAIN turns' :
            turns'[i].proc = turns'[j].proc /\ turns'[i].proc # 0 => i = j
      BY <1>4, <3>1 DEF OfItsOwn
    <3>4. \A j \in DOMAIN turns' : turns'[j].knew \subseteq {j}
      BY <1>4, <3>1 DEF OfItsOwn
    <3> QED
      BY <3>2, <3>3, <3>4 DEF OfItsOwn
  <2> QED
    BY <1>1, <2>1, <2>2 DEF Fresh
<1> QED
  BY <1>7, <1>8, <1>9, <1>10 DEF SessInv

\* A step that leaves the turns, or settles one without a result, and starts no child.
LEMMA Elsewhere ==
  ASSUME C!SdkConstants, SdkInv, SdkInv', SessInv, TurnsStay, ChildrenStay,
         DOMAIN procs' = DOMAIN procs, Len(procs') = Len(procs), DOMAIN turns' = DOMAIN turns,
         \A i \in DOMAIN turns : turns'[i].proc = turns[i].proc,
         UNCHANGED <<conf, told, want>>, client'.child = client.child,
         client'.session = client.session, client'.last = client.last,
         client'.resume = client.resume,
         \/ where' = where
         \/ where \in {"idle", "await"} /\ where' = "closing"
         \/ where = "await" /\ where' = "idle" /\ turns # << >> /\ (~conf.persistent => GivenUp' # {}),
         \A p \in DOMAIN procs : procs'[p].out = procs[p].out,
         where = "grace" => \A p \in DOMAIN procs : procs[p].inbox = << >> => procs'[p].inbox = << >>
  PROVE  SessInv'
<1>1. Mail' /\ Remembers' /\ OneSession' /\ OneEach'
  BY Quietly DEF SessInv, Mail
<1>2. /\ C!Answered' = C!Answered /\ GivenUp \subseteq GivenUp'
      /\ (turns' = << >> <=> turns = << >>)
      /\ turns # << >> => 1 \in DOMAIN turns
      /\ procs = << >> => procs' = << >>
  BY AnsweredStay, SdkShape, ShapeNext
<1>3. Len(turns') = Len(turns)
  <2>1. /\ DOMAIN turns = 1 .. Len(turns) /\ DOMAIN turns' = 1 .. Len(turns')
        /\ Len(turns) \in Nat /\ Len(turns') \in Nat
    BY SdkShape, ShapeNext
  <2>2. \A a, b \in Nat : 1 .. a = 1 .. b => a = b
    <3>1. ASSUME NEW a \in Nat, NEW b \in Nat, 1 .. a = 1 .. b, a # b PROVE FALSE
      <4>1. a \in 1 .. a \/ b \in 1 .. b
        BY <3>1
      <4>2. a \in 1 .. b <=> a \in 1 .. a
        BY <3>1
      <4>3. b \in 1 .. b <=> b \in 1 .. a
        BY <3>1
      <4> QED
        BY <3>1, <4>1, <4>2, <4>3
    <3> QED
      BY <3>1
  <2>3. 1 .. Len(turns) = 1 .. Len(turns')
    BY <2>1
  <2> QED
    BY <2>1, <2>2, <2>3
<1>4. client.child # 0 => client.child \in DOMAIN procs
  BY SdkShape
<1>5. Resumes'
  <2>1. Resumes
    BY DEF SessInv
  <2>2. conf.prior # 0 /\ turns # << >> /\ turns[1].proc # 0 =>
          turns[1].proc \in DOMAIN procs /\ procs'[turns[1].proc].session = conf.prior
    <3>1. turns # << >> => 1 \in DOMAIN turns
      BY <1>2
    <3>2. turns # << >> /\ turns[1].proc # 0 => turns[1].proc \in DOMAIN procs
      BY <3>1, SdkShape
    <3>3. conf.prior # 0 /\ turns # << >> /\ turns[1].proc # 0 =>
            procs[turns[1].proc].session = conf.prior
      BY <2>1 DEF Resumes
    <3> QED
      BY <3>2, <3>3 DEF ChildrenStay
  <2>3. where \in {"grace", "write"} => client.child # 0
    BY SdkShape DEF ChildOK
  <2>4. where \in {"grace", "write"} => procs'[client.child].session = procs[client.child].session
    BY <1>4, <2>3 DEF ChildrenStay
  <2> QED
    BY <1>2, <1>3, <2>1, <2>2, <2>3, <2>4 DEF Resumes
<1>6. Begun'
  <2> DEFINE c == client.child
  <2>1. SUFFICES ASSUME c # 0
                 PROVE  /\ where' = "grace" => procs'[c].inbox = << >> /\ procs'[c].out = << >>
                        /\ where' # "grace" => \A k \in DOMAIN procs'[c].out :
                             procs'[c].out[k].kind # "init" =>
                               \/ \E i \in 1 .. k - 1 : procs'[c].out[i].kind = "init"
                               \/ client.session = procs'[c].session
                                  /\ client.last = procs'[c].session
    BY DEF Begun, Quiet
  <2>2. c \in DOMAIN procs /\ procs'[c].out = procs[c].out /\ procs'[c].session = procs[c].session
    BY <1>4, <2>1 DEF ChildrenStay
  <2>3. where = "grace" /\ procs[c].inbox = << >> => procs'[c].inbox = << >>
    BY <2>2
  <2>4. /\ where = "grace" => Quiet(c)
        /\ where # "grace" => \A k \in DOMAIN procs[c].out :
             procs[c].out[k].kind # "init" =>
               \/ \E i \in 1 .. k - 1 : procs[c].out[i].kind = "init"
               \/ client.session = procs[c].session /\ client.last = procs[c].session
    BY <2>1 DEF SessInv, Begun
  <2>5. where' = "grace" <=> where = "grace"
    OBVIOUS
  <2> HIDE DEF c
  <2>6. where' = "grace" => procs'[c].inbox = << >> /\ procs'[c].out = << >>
    BY <2>2, <2>3, <2>4, <2>5 DEF Quiet
  <2> QED
    BY <2>2, <2>4, <2>5, <2>6
<1>7. Fresh'
  <2>1. ASSUME ~conf.persistent, GivenUp' = {}
        PROVE  /\ OfItsOwn' /\ where' # "restart"
               /\ where' = "idle" => client'.child = 0
               /\ where' = "launch" => /\ client'.child = 0 /\ want'.resume \in {0, C!Prior}
                                       /\ want'.resume # 0 => procs' = << >>
               /\ where' \in {"grace", "write"} =>
                    \A i \in DOMAIN turns' : turns'[i].proc # client'.child
    <3>1. GivenUp = {}
      BY <1>2, <2>1
    <3>2. OfItsOwn
      BY <2>1, <3>1 DEF SessInv, Fresh
    <3>3. OfItsOwn'
      BY <3>2, StillApart
    <3> QED
      BY <1>2, <2>1, <3>1, <3>3 DEF SessInv, Fresh
  <2>2. ~conf.persistent /\ turns' = << >> =>
          procs' = << >> /\ where' \in {"idle", "closing", "closed"}
    BY <1>2 DEF SessInv, Fresh
  <2> QED
    BY <2>1, <2>2 DEF Fresh
<1> QED
  BY <1>1, <1>5, <1>6, <1>7 DEF SessInv

\* A turn is settled otherwise than by a result.
LEMMA NotByResult ==
  ASSUME SdkInv, NEW n \in DOMAIN turns, turns[n].outcome = "open",
         NEW o \in Outcomes \ {"result"}, turns' = [turns EXCEPT ![n].outcome = o]
  PROVE  /\ TurnsStay /\ DOMAIN turns' = DOMAIN turns /\ turns'[n].outcome = o
         /\ \A i \in DOMAIN turns : turns'[i].proc = turns[i].proc
<1> DEFINE e == [turns[n] EXCEPT !.outcome = o]
<1>1. SdkTypes /\ turns' = [turns EXCEPT ![n] = e] /\ e = [turns[n] EXCEPT !.outcome = o]
  BY SdkShape
<1> HIDE DEF e
<1>2. /\ DOMAIN turns' = DOMAIN turns
      /\ \A i \in DOMAIN turns :
           /\ turns'[i].proc = turns[i].proc /\ turns'[i].by = turns[i].by
           /\ turns'[i].knew = turns[i].knew
           /\ turns'[i].outcome = (IF i = n THEN o ELSE turns[i].outcome)
  BY <1>1, SettledOK
<1>3. TurnsStay
  BY <1>2, NoResult
<1> QED
  BY <1>2, <1>3

\* A child is asked to go on, its tasks end, or a turn times out.
LEMMA DrainedSessions ==
  ASSUME C!SdkConstants, SdkInv, SdkInv', SessInv, C!Drained PROVE SessInv'
<1> DEFINE n == client.turn
<1>1. /\ n # 0 /\ client' = [client EXCEPT !.tasks = FALSE, !.draining = FALSE]
      /\ procs' = C!Sent(n, "continue") /\ UNCHANGED <<conf, told, where, want, turns>>
  BY DEF C!Drained
<1>2. n \in DOMAIN turns /\ turns[n].proc = client.child /\ n \in Nat /\ where = "await"
  BY <1>1, OpenTurn, SdkShape
<1>3. /\ client'.child = client.child /\ client'.session = client.session
      /\ client'.last = client.last /\ client'.resume = client.resume
  BY <1>1, SdkShape DEF ClientRecord
<1> HIDE DEF n
<1>4. /\ ChildrenStay /\ DOMAIN procs' = DOMAIN procs /\ Len(procs') = Len(procs)
      /\ \A p \in DOMAIN procs : procs'[p].out = procs[p].out
  BY <1>1, <1>2, SentStay
<1> QED
  BY <1>1, <1>2, <1>3, <1>4, NoTurn, Elsewhere

\* The end of its tasks leaves what a child is asked and says.
LEMMA TaskSessions ==
  ASSUME C!SdkConstants, SdkInv, SdkInv', SessInv, NEW p \in DOMAIN procs, C!TaskEnds(p)
  PROVE  SessInv'
<1>1. /\ procs' = [procs EXCEPT ![p].busy = FALSE]
      /\ UNCHANGED <<conf, client, told, where, want, turns>>
  BY DEF C!TaskEnds
<1>2. /\ DOMAIN procs' = DOMAIN procs /\ Len(procs') = Len(procs)
      /\ \A i \in DOMAIN procs :
           /\ procs'[i].session = procs[i].session /\ procs'[i].life = procs[i].life
           /\ procs'[i].out = procs[i].out /\ procs'[i].inbox = procs[i].inbox
  <2>1. \A i \in DOMAIN procs : procs[i] \in ChildRecord
    BY SdkShape
  <2> QED
    BY <1>1, <2>1 DEF ChildRecord
<1>3. ChildrenStay
  BY <1>2 DEF ChildrenStay
<1> QED
  BY <1>1, <1>2, <1>3, NoTurn, Elsewhere

\* A turn that timed out was given up.
LEMMA TimeoutSessions ==
  ASSUME C!SdkConstants, SdkInv, SdkInv', SessInv, C!TimesOut PROVE SessInv'
<1> DEFINE n == client.turn
<1>1. /\ n # 0 /\ where = "await" /\ where' = "idle" /\ client' = [client EXCEPT !.turn = 0]
      /\ turns' = [turns EXCEPT ![n].outcome = "timeout"] /\ UNCHANGED <<conf, procs, told, want>>
  BY DEF C!TimesOut, C!Rejected
<1>2. n \in DOMAIN turns /\ turns[n].outcome = "open" /\ "timeout" \in Outcomes \ {"result"}
  BY <1>1, OpenTurn DEF Outcomes
<1>3. /\ client'.child = client.child /\ client'.session = client.session
      /\ client'.last = client.last /\ client'.resume = client.resume
  BY <1>1, SdkShape DEF ClientRecord
<1> HIDE DEF n
<1>4. /\ TurnsStay /\ DOMAIN turns' = DOMAIN turns /\ turns'[n].outcome = "timeout"
      /\ \A i \in DOMAIN turns : turns'[i].proc = turns[i].proc
  BY <1>1, <1>2, NotByResult
<1>5. n \in GivenUp' /\ turns # << >>
  BY <1>2, <1>4 DEF GivenUp
<1> QED
  BY <1>1, <1>3, <1>4, <1>5, NoChild, Elsewhere

\* close() settles the turn there is, and has the child killed.
LEMMA CloseSessions ==
  ASSUME C!SdkConstants, SdkInv, SdkInv', SessInv, C!Close PROVE SessInv'
<1> DEFINE n == client.turn
<1>1. /\ where \in {"idle", "await"} /\ where' = "closing" /\ client' = [client EXCEPT !.turn = 0]
      /\ turns' = IF n = 0 THEN turns ELSE [turns EXCEPT ![n].outcome = "closed"]
      /\ procs' = C!Killed(client.child) /\ UNCHANGED <<conf, told, want>>
  BY DEF C!Close
<1>2. /\ client'.child = client.child /\ client'.session = client.session
      /\ client'.last = client.last /\ client'.resume = client.resume
  BY <1>1, SdkShape DEF ClientRecord
<1>3. /\ TurnsStay /\ DOMAIN turns' = DOMAIN turns
      /\ \A i \in DOMAIN turns : turns'[i].proc = turns[i].proc
  <2>1. CASE n = 0
    BY <1>1, <2>1, NoTurn
  <2>2. CASE n # 0
    <3>1. n \in DOMAIN turns /\ turns[n].outcome = "open" /\ "closed" \in Outcomes \ {"result"}
      BY <2>2, OpenTurn DEF Outcomes
    <3>2. turns' = [turns EXCEPT ![n].outcome = "closed"]
      BY <1>1, <2>2
    <3> HIDE DEF n
    <3> QED
      BY <3>1, <3>2, NotByResult
  <2> QED
    BY <2>1, <2>2
<1>4. /\ ChildrenStay /\ Len(procs') = Len(procs) /\ DOMAIN procs' = DOMAIN procs
      /\ \A p \in DOMAIN procs : procs'[p].out = procs[p].out /\ procs'[p].inbox = procs[p].inbox
  BY <1>1, KilledStay
<1> QED
  BY <1>1, <1>2, <1>3, <1>4, Elsewhere

\* A turn whose child ended was given up; what the child has said is still read.
LEMMA ExitSessions ==
  ASSUME C!SdkConstants, SdkInv, SdkInv', SessInv, NEW p \in DOMAIN procs, C!Exit(p)
  PROVE  SessInv'
<1> DEFINE n == client.turn
<1>1. /\ procs' = [procs EXCEPT ![p].life = "dead", ![p].inbox = << >>]
      /\ UNCHANGED <<conf, told, want>>
  BY DEF C!Exit
<1>2. /\ DOMAIN procs' = DOMAIN procs /\ Len(procs') = Len(procs)
      /\ \A i \in DOMAIN procs :
           /\ procs'[i].session = procs[i].session /\ procs'[i].out = procs[i].out
           /\ procs'[i].life = "up" => procs[i].life = "up"
           /\ procs'[i].inbox \in {procs[i].inbox, << >>}
  <2>1. \A i \in DOMAIN procs : procs[i] \in ChildRecord
    BY SdkShape
  <2> QED
    BY <1>1, <2>1 DEF ChildRecord
<1>3. ChildrenStay
  <2>1. ASSUME NEW i \in DOMAIN procs, NEW k \in DOMAIN procs'[i].inbox
        PROVE  \E m \in DOMAIN procs[i].inbox : procs'[i].inbox[k] = procs[i].inbox[m]
    BY <1>2, <2>1
  <2> QED
    BY <1>2, <2>1 DEF ChildrenStay
<1>4. CASE n = 0 \/ where \in {"closing", "closed"}
  <2>1. UNCHANGED <<client, turns, where>>
    BY <1>4 DEF C!Exit
  <2> QED
    BY <1>1, <1>2, <1>3, <2>1, NoTurn, Elsewhere
<1>5. CASE n # 0 /\ where \notin {"closing", "closed"}
  <2>1. /\ client' = [client EXCEPT !.turn = 0] /\ where' = "idle"
        /\ turns' = [turns EXCEPT ![n].outcome = "exit", ![n].by = <<[proc |-> p]>>]
    BY <1>5 DEF C!Exit
  <2>2. n \in DOMAIN turns /\ turns[n].outcome = "open" /\ where = "await"
    BY <1>5, OpenTurn
  <2>3. /\ client'.child = client.child /\ client'.session = client.session
        /\ client'.last = client.last /\ client'.resume = client.resume
    BY <2>1, SdkShape DEF ClientRecord
  <2>4. /\ DOMAIN turns' = DOMAIN turns
        /\ \A i \in DOMAIN turns :
             /\ turns'[i].proc = turns[i].proc /\ turns'[i].knew = turns[i].knew
             /\ i # n => turns'[i].outcome = turns[i].outcome /\ turns'[i].by = turns[i].by
        /\ turns'[n].outcome = "exit"
    <3>1. \A i \in DOMAIN turns : turns[i] \in TurnRecord
      BY SdkShape
    <3> QED
      BY <2>1, <2>2, <3>1 DEF TurnRecord
  <2> HIDE DEF n
  <2>5. TurnsStay
    BY <2>2, <2>4, NoResult
  <2>6. n \in GivenUp' /\ turns # << >>
    BY <2>2, <2>4 DEF GivenUp
  <2> QED
    BY <1>1, <1>2, <1>3, <2>1, <2>2, <2>3, <2>4, <2>5, <2>6, Elsewhere
<1> QED
  BY <1>4, <1>5

\* Every child has a session of its own as long as no turn was given up: what is in it is its turn.
LEMMA OneTurnInIt ==
  ASSUME C!SdkConstants, SdkInv, Mail, OfItsOwn, NEW n \in DOMAIN turns, turns[n].proc # 0
  PROVE  told[procs[turns[n].proc].session] \subseteq {n}
<1> DEFINE p == turns[n].proc
           s == procs[p].session
<1>1. p \in DOMAIN procs /\ s \in 1 .. C!Prior /\ DOMAIN told = 1 .. C!Prior
  BY SdkShape
<1>2. /\ DOMAIN procs = 1 .. Len(procs) /\ Len(procs) \in Nat /\ Len(procs) <= MaxProcs
      /\ MaxProcs \in Nat /\ C!Prior = MaxProcs + 1
  BY SdkShape DEF Mail, C!SdkConstants, C!Prior
<1>3. ASSUME NEW i \in told[s] PROVE i = n
  <2> DEFINE q == turns[i].proc
  <2>1. i \in DOMAIN turns /\ q # 0 /\ procs[q].session = s
    BY <1>1 DEF Mail
  <2>2. q \in DOMAIN procs
    BY <2>1, SdkShape
  <2>3. /\ s = p \/ (p = 1 /\ s = C!Prior)
        /\ s = q \/ (q = 1 /\ s = C!Prior)
    BY <1>1, <2>1, <2>2 DEF OfItsOwn
  <2>4. p \in Nat /\ q \in Nat /\ p <= MaxProcs /\ q <= MaxProcs
    <3> HIDE DEF p, q
    <3> QED
      BY <1>1, <1>2, <2>2
  <2>5. p = q
    <3> HIDE DEF p, q, s
    <3> QED
      BY <1>2, <2>3, <2>4
  <2> QED
    BY <2>1, <2>5 DEF OfItsOwn
<1> QED
  BY <1>3

\* What is said, u, is what was said before, s, and then what begins with a.
After(s, u, a, b, c) ==
  /\ \A k \in DOMAIN s : k \in DOMAIN u /\ u[k] = s[k]
  /\ \A k \in DOMAIN u \ DOMAIN s :
       /\ u[k] \in {a, b, c}
       /\ u[k] = a \/ (Len(s) + 1 \in 1 .. k - 1 /\ u[Len(s) + 1] = a)

\* An answer is said so, with a task or without.
LEMMA Behind ==
  ASSUME NEW S, NEW s \in Seq(S), NEW a \in S, NEW b \in S, NEW c \in S
  PROVE  /\ After(s, s \o <<a>> \o << >> \o <<c>>, a, b, c)
         /\ After(s, s \o <<a>> \o <<b>> \o <<c>>, a, b, c)
<1> DEFINE v == Append(s, a)
           w == Append(v, b)
<1>1. v \in Seq(S) /\ w \in Seq(S)
  OBVIOUS
<1>2. s \o <<a>> = v
  BY AppendIsConcat
<1>3. v \o <<b>> = w
  BY <1>1, AppendIsConcat
<1>4. v \o << >> = v
  BY <1>1, ConcatEmptySeq
<1>5. v \o <<c>> = Append(v, c)
  BY <1>1, AppendIsConcat
<1>6. w \o <<c>> = Append(w, c)
  BY <1>1, AppendIsConcat
<1>7. After(s, Append(v, c), a, b, c)
  BY DEF After
<1>8. After(s, Append(w, c), a, b, c)
  BY DEF After
<1> QED
  <2> HIDE DEF v, w
  <2> QED
    BY <1>2, <1>3, <1>4, <1>5, <1>6, <1>7, <1>8, Zenon

\* The child takes a prompt, which is then in the transcript of its session.
LEMMA AnswerSessions ==
  ASSUME C!SdkConstants, SdkInv, SdkInv', SessInv, NEW p \in DOMAIN procs, C!Answer(p)
  PROVE  SessInv'
<1> DEFINE q == Head(procs[p].inbox)
           j == q.turn
           s == procs[p].session
           said(k, tasks) == [kind |-> k, turn |-> q.turn, tasks |-> tasks, proc |-> p]
           answer(tasks) == procs[p].out \o <<said("init", tasks)>>
                              \o (IF tasks THEN <<said("task", tasks)>> ELSE << >>)
                              \o <<said("result", tasks)>>
<1>1. PICK tasks \in BOOLEAN :
        procs' = [procs EXCEPT ![p].inbox = Tail(@), ![p].busy = @ \/ tasks,
                        ![p].out = answer(tasks)]
  BY DEF C!Answer
<1>2. /\ procs[p].life = "up" /\ procs[p].inbox # << >> /\ told' = [told EXCEPT ![s] = @ \cup {j}]
      /\ turns' = [turns EXCEPT ![j].knew = told'[s]]
      /\ UNCHANGED <<conf, client, where, want>>
  BY DEF C!Answer
<1>3. /\ p = client.child /\ p # 0 /\ p \in Nat /\ procs \in Seq(ChildRecord)
      /\ procs[p] \in ChildRecord /\ procs[p].inbox \in Seq(Ask) /\ procs[p].out \in Seq(Said)
      /\ s \in 1 .. C!Prior /\ told \in [1 .. C!Prior -> SUBSET Nat]
  BY <1>2, SdkShape DEF ChildOK
<1>4. /\ q = procs[p].inbox[1] /\ 1 \in DOMAIN procs[p].inbox /\ q \in Ask /\ q.turn \in Nat
      /\ Tail(procs[p].inbox) \in Seq(Ask)
      /\ \A k \in DOMAIN Tail(procs[p].inbox) :
           k + 1 \in DOMAIN procs[p].inbox /\ Tail(procs[p].inbox)[k] = procs[p].inbox[k + 1]
  <2>1. /\ q = procs[p].inbox[1] /\ 1 \in DOMAIN procs[p].inbox /\ q \in Ask
        /\ Tail(procs[p].inbox) \in Seq(Ask)
        /\ \A k \in DOMAIN Tail(procs[p].inbox) :
             k + 1 \in DOMAIN procs[p].inbox /\ Tail(procs[p].inbox)[k] = procs[p].inbox[k + 1]
    BY <1>2, <1>3
  <2> HIDE DEF q
  <2> QED
    BY <2>1 DEF Ask
<1>5. j \in DOMAIN turns /\ turns[j].proc = p
  BY <1>4 DEF SessInv, Mail
<1> DEFINE o == answer(tasks)
           e == [procs[p] EXCEPT !.inbox = Tail(@), !.busy = @ \/ tasks, !.out = o]
<1>6. /\ o \in Seq(Said)
      /\ \A k \in DOMAIN procs[p].out : k \in DOMAIN o /\ o[k] = procs[p].out[k]
      /\ \A k \in DOMAIN o \ DOMAIN procs[p].out :
           /\ o[k].turn = j
           /\ o[k].kind = "init" \/ \E i \in 1 .. k - 1 : o[i].kind = "init"
  <2> DEFINE a == said("init", tasks)
             b == said("task", tasks)
             c == said("result", tasks)
  <2>1. /\ a \in Said /\ b \in Said /\ c \in Said
        /\ a.turn = j /\ b.turn = j /\ c.turn = j /\ a.kind = "init"
    <3> HIDE DEF q
    <3> QED
      BY <1>3, <1>4 DEF Said
  <2>2. o = procs[p].out \o <<a>> \o (IF tasks THEN <<b>> ELSE << >>) \o <<c>>
    OBVIOUS
  <2> HIDE DEF a, b, c, o, answer, said, j, q
  <2>3. o \in {procs[p].out \o <<a>> \o << >> \o <<c>>, procs[p].out \o <<a>> \o <<b>> \o <<c>>}
    BY <2>2
  <2>4. /\ \A k \in DOMAIN procs[p].out : k \in DOMAIN o /\ o[k] = procs[p].out[k]
        /\ \A k \in DOMAIN o \ DOMAIN procs[p].out :
             /\ o[k] \in {a, b, c}
             /\ o[k] = a \/ (Len(procs[p].out) + 1 \in 1 .. k - 1 /\ o[Len(procs[p].out) + 1] = a)
    <3> DEFINE x == procs[p].out
    <3>1. x \in Seq(Said) /\ a \in Said /\ b \in Said /\ c \in Said
      BY <1>3, <2>1
    <3> HIDE DEF x
    <3>2. /\ After(x, x \o <<a>> \o << >> \o <<c>>, a, b, c)
          /\ After(x, x \o <<a>> \o <<b>> \o <<c>>, a, b, c)
      BY <3>1, Behind, Zenon
    <3> QED
      BY <2>3, <3>2, Zenon DEF After, x
  <2>5. o \in Seq(Said)
    BY <1>3, <2>1, <2>2
  <2> QED
    BY <2>1, <2>4, <2>5
<1>7. procs' = [procs EXCEPT ![p] = e]
  BY <1>1
<1> HIDE DEF o, answer, said, q, j, s
<1>8. /\ e \in ChildRecord /\ e.session = s /\ e.life = procs[p].life
      /\ e.inbox = Tail(procs[p].inbox) /\ e.out = o
  BY <1>3, <1>4, <1>6 DEF ChildRecord, s
<1> HIDE DEF e
<1>9. /\ Len(procs') = Len(procs) /\ DOMAIN procs' = DOMAIN procs
      /\ procs'[p] = e /\ \A i \in DOMAIN procs \ {p} : procs'[i] = procs[i]
  BY <1>3, <1>7, <1>8, Changed
<1>10. \A i \in DOMAIN procs : procs'[i].session = procs[i].session /\ procs'[i].life = procs[i].life
  BY <1>8, <1>9 DEF s
<1>11. /\ DOMAIN turns' = DOMAIN turns /\ turns'[j].knew = told'[s]
       /\ \A i \in DOMAIN turns :
            /\ turns'[i].proc = turns[i].proc /\ turns'[i].by = turns[i].by
            /\ turns'[i].outcome = turns[i].outcome
            /\ i # j => turns'[i].knew = turns[i].knew
  <2>1. \A i \in DOMAIN turns : turns[i] \in TurnRecord
    BY SdkShape
  <2> QED
    BY <1>2, <1>5, <2>1 DEF TurnRecord
<1>12. /\ DOMAIN told' = DOMAIN told /\ told'[s] = told[s] \cup {j}
       /\ \A t \in DOMAIN told : t # s => told'[t] = told[t]
  BY <1>2, <1>3
<1>13. C!Answered' = C!Answered /\ GivenUp' = GivenUp
  BY <1>11 DEF C!Answered, GivenUp
<1>14. Mail'
  <2>1. ASSUME NEW i \in DOMAIN procs', NEW k \in DOMAIN procs'[i].inbox
        PROVE  procs'[i].inbox[k].turn \in DOMAIN turns' /\ turns'[procs'[i].inbox[k].turn].proc = i
    <3>1. CASE i = p
      <4>1. k + 1 \in DOMAIN procs[p].inbox /\ procs'[p].inbox[k] = procs[p].inbox[k + 1]
        BY <1>4, <1>8, <1>9, <2>1, <3>1
      <4>2. procs[p].inbox[k + 1].turn \in DOMAIN turns
            /\ turns[procs[p].inbox[k + 1].turn].proc = p
        BY <4>1 DEF SessInv, Mail
      <4> QED
        BY <1>11, <3>1, <4>1, <4>2
    <3>2. CASE i # p
      BY <1>9, <1>11, <2>1, <3>2 DEF SessInv, Mail
    <3> QED
      BY <3>1, <3>2
  <2>2. ASSUME NEW i \in DOMAIN procs', NEW k \in DOMAIN procs'[i].out
        PROVE  /\ procs'[i].out[k].turn \in DOMAIN turns' /\ turns'[procs'[i].out[k].turn].proc = i
               /\ procs'[i].out[k].turn \in told'[procs'[i].session]
               /\ procs'[i].out[k].turn \in turns'[procs'[i].out[k].turn].knew
    <3>1. CASE i = p /\ k \notin DOMAIN procs[p].out
      <4>1. procs'[i].out[k].turn = j /\ procs'[i].session = s
        BY <1>6, <1>8, <1>9, <2>2, <3>1
      <4> QED
        BY <1>5, <1>11, <1>12, <3>1, <4>1
    <3>2. CASE i # p \/ k \in DOMAIN procs[p].out
      <4> DEFINE t == procs[i].out[k].turn
      <4>1. i \in DOMAIN procs /\ k \in DOMAIN procs[i].out /\ procs'[i].out[k] = procs[i].out[k]
        BY <1>6, <1>8, <1>9, <2>2, <3>2
      <4>2. /\ t \in DOMAIN turns /\ turns[t].proc = i
            /\ t \in told[procs[i].session] /\ t \in turns[t].knew
        BY <4>1 DEF SessInv, Mail
      <4>3. procs[i].session \in DOMAIN told
        BY <1>3, <4>1, SdkShape
      <4> QED
        BY <1>10, <1>11, <1>12, <4>1, <4>2, <4>3
    <3> QED
      BY <3>1, <3>2
  <2>3. ASSUME NEW t \in DOMAIN told', NEW i \in told'[t]
        PROVE  i \in DOMAIN turns' /\ turns'[i].proc # 0 /\ procs'[turns'[i].proc].session = t
    <3>1. i \in DOMAIN turns /\ turns[i].proc # 0 /\ procs[turns[i].proc].session = t
      <4>1. CASE t = s /\ i = j
        BY <1>3, <1>5, <4>1 DEF s
      <4>2. CASE ~(t = s /\ i = j)
        BY <1>12, <2>3, <4>2 DEF SessInv, Mail
      <4> QED
        BY <4>1, <4>2
    <3>2. turns[i].proc \in DOMAIN procs
      BY <3>1, SdkShape
    <3> QED
      BY <1>10, <1>11, <3>1, <3>2
  <2>4. \A i \in C!Answered' : i \in turns'[i].knew
    BY <1>11, <1>12, <1>13 DEF SessInv, Mail, C!Answered
  <2>5. \A i \in DOMAIN turns' : turns'[i].outcome = "result" => turns'[i].proc # 0
    BY <1>11 DEF SessInv, Mail
  <2>6. client'.resume = 0 /\ Len(procs') <= MaxProcs
    BY <1>2, <1>9 DEF SessInv, Mail
  <2> QED
    BY <2>1, <2>2, <2>3, <2>4, <2>5, <2>6 DEF Mail
<1>15. ASSUME conf.persistent PROVE C!Answered \subseteq told'[s]
  <2>1. C!Answered # {} => client.last = s /\ C!Answered \subseteq told[client.last]
    BY <1>3, <1>15 DEF SessInv, OneSession, s
  <2> QED
    BY <1>12, <2>1
<1>16. Remembers'
  <2>1. Len(turns') = Len(turns)
    <3>1. turns' = [turns EXCEPT ![j] = turns'[j]] /\ turns \in Seq(TurnRecord)
      BY <1>2, <1>5, SdkShape
    <3> QED
      BY <3>1
  <2>2. ASSUME conf.persistent, NEW i \in DOMAIN procs', NEW k \in DOMAIN procs'[i].out,
               procs'[i].out[k].turn = Len(turns')
        PROVE  C!Answered' \subseteq turns'[Len(turns')].knew
    <3>1. CASE j = Len(turns)
      BY <1>11, <1>13, <1>15, <2>1, <2>2, <3>1
    <3>2. CASE j # Len(turns)
      <4>1. i \in DOMAIN procs /\ k \in DOMAIN procs[i].out /\ procs'[i].out[k] = procs[i].out[k]
        BY <1>6, <1>8, <1>9, <2>1, <2>2, <3>2
      <4>2. C!Answered \subseteq turns[Len(turns)].knew
        BY <2>1, <2>2, <4>1 DEF SessInv, Remembers
      <4>3. Len(turns) \in DOMAIN turns
        BY <2>1, <2>2, <4>1 DEF SessInv, Mail
      <4> QED
        BY <1>11, <1>13, <2>1, <3>2, <4>2, <4>3
    <3> QED
      BY <3>1, <3>2
  <2>3. ASSUME conf.persistent, NEW i \in C!Answered'
        PROVE  {k \in C!Answered' : k <= i} \subseteq turns'[i].knew
    <3>1. CASE i = j
      BY <1>11, <1>13, <1>15, <2>3, <3>1
    <3>2. CASE i # j
      BY <1>11, <1>13, <2>3, <3>2 DEF SessInv, Remembers, C!Answered
    <3> QED
      BY <3>1, <3>2
  <2> QED
    BY <1>2, <2>2, <2>3 DEF Remembers
<1>17. OneSession'
  <2>1. SUFFICES ASSUME conf.persistent, C!Answered # {}
                 PROVE  /\ client.last # 0 /\ client.session \in {0, client.last}
                        /\ C!Answered \subseteq told'[client.last]
                        /\ \A i \in DOMAIN procs' : i = client.child \/ procs'[i].out # << >> =>
                             procs'[i].session = client.last
    BY <1>2, <1>13 DEF OneSession
  <2>2. client.last = s /\ client.last # 0 /\ client.session \in {0, client.last}
    BY <1>3, <2>1 DEF SessInv, OneSession, s
  <2>3. ASSUME NEW i \in DOMAIN procs', i = client.child \/ procs'[i].out # << >>
        PROVE  procs'[i].session = client.last
    <3>1. CASE i = p
      BY <1>8, <1>9, <2>2, <3>1
    <3>2. CASE i # p
      BY <1>3, <1>9, <2>1, <2>3, <3>2 DEF SessInv, OneSession
    <3> QED
      BY <3>1, <3>2
  <2> QED
    BY <1>15, <2>1, <2>2, <2>3
<1>18. OneEach'
  <2>1. ASSUME ~conf.persistent, NEW i \in DOMAIN turns, turns[i].outcome = "result"
        PROVE  procs'[turns'[i].proc].life # "up" /\ i # j
    <3>1. turns[i].proc \in DOMAIN procs /\ procs[turns[i].proc].life # "up"
      BY <2>1, SdkShape DEF SessInv, Mail, OneEach
    <3> QED
      BY <1>2, <1>5, <1>10, <1>11, <3>1
  <2>2. ASSUME ~conf.persistent, NEW i \in C!Answered PROVE turns'[i].knew = {i} \/ C!Left(i)' # {}
    <3>1. i \in DOMAIN turns /\ i # j
      BY <2>1, <2>2 DEF C!Answered
    <3>2. turns[i].knew = {i} \/ C!Left(i) # {}
      BY <2>2 DEF SessInv, OneEach
    <3>3. ASSUME NEW k \in C!Left(i) PROVE k \in C!Left(i)'
      <4>1. k \in 1 .. i - 1 /\ k \in DOMAIN turns /\ turns[k].outcome \in {"timeout", "exit"}
        BY <3>1, SdkShape DEF C!Left
      <4> QED
        BY <1>11, <4>1 DEF C!Left
    <3> QED
      BY <1>11, <3>1, <3>2, <3>3
  <2> QED
    BY <1>2, <1>11, <1>13, <2>1, <2>2 DEF OneEach
<1>19. turns # << >> /\ turns' # << >> /\ 1 \in DOMAIN turns /\ Len(turns') = Len(turns)
  <2>1. turns' = [turns EXCEPT ![j] = turns'[j]] /\ turns \in Seq(TurnRecord)
    BY <1>2, <1>5, SdkShape
  <2> QED
    BY <1>5, <1>11, <2>1
<1>20. Resumes'
  <2>1. conf.prior # 0 /\ turns[1].proc # 0 =>
          turns[1].proc \in DOMAIN procs /\ procs'[turns'[1].proc].session = conf.prior
    BY <1>10, <1>11, <1>19, SdkShape DEF SessInv, Resumes
  <2>2. procs'[client.child].session = procs[client.child].session
    BY <1>3, <1>10
  <2> QED
    BY <1>2, <1>11, <1>13, <1>19, <2>1, <2>2 DEF SessInv, Resumes
<1>21. Begun'
  <2>1. where # "grace"
    BY <1>2, <1>3 DEF SessInv, Begun, Quiet
  <2>2. ASSUME NEW k \in DOMAIN o, o[k].kind # "init"
        PROVE  \/ \E i \in 1 .. k - 1 : o[i].kind = "init"
               \/ client.session = s /\ client.last = s
    <3>1. CASE k \in DOMAIN procs[p].out
      <4>1. \/ \E i \in 1 .. k - 1 : procs[p].out[i].kind = "init"
            \/ client.session = s /\ client.last = s
        BY <1>3, <1>6, <2>1, <2>2, <3>1 DEF SessInv, Begun, s
      <4>2. ASSUME NEW i \in 1 .. k - 1 PROVE i \in DOMAIN procs[p].out
        BY <1>3, <3>1
      <4> QED
        BY <1>6, <4>1, <4>2
    <3>2. CASE k \notin DOMAIN procs[p].out
      BY <1>6, <2>2, <3>2
    <3> QED
      BY <3>1, <3>2
  <2> QED
    BY <1>2, <1>3, <1>8, <1>9, <2>1, <2>2 DEF Begun
<1>22. Fresh'
  <2>1. ASSUME ~conf.persistent, GivenUp = {} PROVE OfItsOwn'
    <3>1. OfItsOwn
      BY <2>1 DEF SessInv, Fresh
    <3>2. told[s] \subseteq {j}
      BY <1>3, <1>5, <3>1, OneTurnInIt DEF SessInv, s
    <3>3. \A i \in DOMAIN procs' : procs'[i].session = i \/ (i = 1 /\ procs'[i].session = C!Prior)
      BY <1>9, <1>10, <3>1 DEF OfItsOwn
    <3>4. \A i, k \in DOMAIN turns' : turns'[i].proc = turns'[k].proc /\ turns'[i].proc # 0 => i = k
      BY <1>11, <3>1 DEF OfItsOwn
    <3>5. \A i \in DOMAIN turns' : turns'[i].knew \subseteq {i}
      BY <1>11, <1>12, <3>1, <3>2 DEF OfItsOwn
    <3> QED
      BY <3>3, <3>4, <3>5 DEF OfItsOwn
  <2>2. procs # << >>
    BY <1>3
  <2> QED
    BY <1>2, <1>11, <1>13, <1>19, <2>1, <2>2 DEF SessInv, Fresh
<1> QED
  BY <1>14, <1>16, <1>17, <1>18, <1>20, <1>21, <1>22 DEF SessInv

\* What a message is read from, and what is left behind it.
LEMMA ReadList ==
  ASSUME SdkInv, NEW p \in DOMAIN procs, procs[p].out # << >>
  PROVE  /\ Head(procs[p].out) = procs[p].out[1] /\ 1 \in DOMAIN procs[p].out
         /\ Head(procs[p].out) \in Said /\ Tail(procs[p].out) \in Seq(Said)
         /\ DOMAIN procs[p].out = 1 .. Len(procs[p].out)
         /\ \A k \in DOMAIN Tail(procs[p].out) :
              /\ k \in Nat /\ k + 1 \in DOMAIN procs[p].out
              /\ Tail(procs[p].out)[k] = procs[p].out[k + 1]
         /\ \A k \in DOMAIN procs[p].out : k # 1 =>
              k - 1 \in DOMAIN Tail(procs[p].out) /\ Tail(procs[p].out)[k - 1] = procs[p].out[k]
<1>1. procs[p].out \in Seq(Said)
  BY SdkShape
<1> QED
  BY <1>1

\* When the head is read, the client knows the session if it did not before.
LEMMA BegunOn ==
  ASSUME SdkInv, SdkInv', Begun, where # "grace", where' # "grace", NEW p \in DOMAIN procs,
         procs[p].out # << >>, p = client.child, client'.child = client.child,
         p \in DOMAIN procs', procs'[p].session = procs[p].session,
         procs'[p].out = Tail(procs[p].out),
         \/ client'.session = client.session /\ client'.last = client.last
            /\ Head(procs[p].out).kind # "init"
         \/ client'.session = procs[p].session /\ client'.last = procs[p].session
  PROVE  Begun'
<1> DEFINE s == procs[p].session
           o == procs[p].out
<1>1. SUFFICES ASSUME NEW k \in DOMAIN Tail(o), Tail(o)[k].kind # "init"
               PROVE  \/ \E i \in 1 .. k - 1 : Tail(o)[i].kind = "init"
                      \/ client'.session = s /\ client'.last = s
  BY DEF Begun
<1>2. SUFFICES ASSUME client'.session = client.session, client'.last = client.last, o[1].kind # "init"
               PROVE  \/ \E i \in 1 .. k - 1 : Tail(o)[i].kind = "init"
                      \/ client.session = s /\ client.last = s
  BY ReadList
<1>3. k \in Nat /\ k + 1 \in DOMAIN o /\ o[k + 1] = Tail(o)[k] /\ client.child # 0
  BY ReadList, SdkShape
<1>4. CASE \E i \in 1 .. (k + 1) - 1 : o[i].kind = "init"
  <2>1. PICK i \in 1 .. (k + 1) - 1 : o[i].kind = "init"
    BY <1>4
  <2>2. i # 1 /\ i \in DOMAIN o /\ i - 1 \in 1 .. k - 1
    <3>1. i # 1
      BY <1>2, <2>1
    <3>2. DOMAIN o = 1 .. Len(o) /\ o \in Seq(Said)
      BY SdkShape
    <3> HIDE DEF o
    <3> QED
      BY <1>3, <2>1, <3>1, <3>2
  <2>3. Tail(o)[i - 1] = o[i]
    BY <2>2, ReadList
  <2> QED
    BY <2>1, <2>2, <2>3
<1>5. CASE ~ \E i \in 1 .. (k + 1) - 1 : o[i].kind = "init"
  <2>1. o[k + 1].kind # "init"
    BY <1>1, <1>3
  <2> QED
    BY <1>3, <1>5, <2>1 DEF Begun
<1> QED
  BY <1>4, <1>5

\* A message that settles no turn; the first of an answer names the session.
LEMMA ReadOnSessions ==
  ASSUME C!SdkConstants, SdkInv, SdkInv', SessInv, NEW p \in DOMAIN procs, C!Read(p),
         ~(Head(procs[p].out).kind = "result" /\ client.turn # 0 /\ ~client.tasks)
  PROVE  SessInv'
<1> DEFINE msg == Head(procs[p].out)
           s == procs[p].session
<1>1. /\ procs' = [procs EXCEPT ![p].out = Tail(@)] /\ procs[p].out # << >>
      /\ UNCHANGED <<conf, told, where, want, turns>>
  BY DEF C!Read
<1>2. /\ SdkTypes /\ client \in ClientRecord /\ s \in 1 .. C!Prior /\ s # 0
      /\ p # 0 /\ client.resume = 0
  BY SdkShape DEF SessInv, Mail
<1>3. client'.child = client.child
  BY <1>1, <1>2, FieldsRead
<1>4. /\ client'.resume = client.resume
      /\ \/ client'.session = client.session /\ client'.last = client.last /\ msg.kind # "init"
         \/ client'.session = s /\ client'.last = s
  <2> DEFINE c1 == [client EXCEPT !.session = procs[p].session, !.last = procs[p].session]
             c2 == [client EXCEPT !.tasks = TRUE]
             c3 == [client EXCEPT !.draining = TRUE]
             c4 == [client EXCEPT !.turn = 0]
  <2>1. IF msg.kind = "init" THEN client' = c1 ELSE client' \in {c2, c3, c4, client}
    BY DEF C!Read
  <2>2. /\ c1.resume = client.resume /\ c1.session = s /\ c1.last = s
        /\ c2.resume = client.resume /\ c2.session = client.session /\ c2.last = client.last
        /\ c3.resume = client.resume /\ c3.session = client.session /\ c3.last = client.last
        /\ c4.resume = client.resume /\ c4.session = client.session /\ c4.last = client.last
    BY <1>2 DEF ClientRecord
  <2> HIDE DEF c1, c2, c3, c4
  <2> QED
    BY <2>1, <2>2
<1>5. /\ DOMAIN procs' = DOMAIN procs /\ Len(procs') = Len(procs)
      /\ \A i \in DOMAIN procs :
           /\ procs'[i].session = procs[i].session /\ procs'[i].life = procs[i].life
           /\ procs'[i].inbox = procs[i].inbox
           /\ procs'[i].out = IF i = p THEN Tail(procs[p].out) ELSE procs[i].out
  <2>1. \A i \in DOMAIN procs : procs[i] \in ChildRecord
    BY SdkShape
  <2> QED
    BY <1>1, <2>1 DEF ChildRecord
<1>6. /\ procs[p].out[1] = msg /\ 1 \in DOMAIN procs[p].out
      /\ \A k \in DOMAIN Tail(procs[p].out) :
           k + 1 \in DOMAIN procs[p].out /\ Tail(procs[p].out)[k] = procs[p].out[k + 1]
  BY <1>1, ReadList
<1>7. turns # << >>
  <2>1. procs[p].out[1].turn \in DOMAIN turns
    BY <1>6 DEF SessInv, Mail
  <2> QED
    BY <2>1
<1> HIDE DEF msg, s
<1>8. TurnsStay /\ ChildrenStay
  <2>1. ASSUME NEW i \in DOMAIN procs, NEW k \in DOMAIN procs'[i].out
        PROVE  \E m \in DOMAIN procs[i].out : procs'[i].out[k] = procs[i].out[m]
    BY <1>5, <1>6, <2>1
  <2> QED
    BY <1>1, <1>5, <2>1, NoTurn DEF ChildrenStay
<1>9. Mail' /\ Remembers' /\ OneEach'
  BY <1>1, <1>2, <1>4, <1>5, <1>8, MailStays, MemoryStays DEF SessInv, Mail
<1>10. C!Answered' = C!Answered /\ GivenUp' = GivenUp
  BY <1>1 DEF C!Answered, GivenUp
<1>11. conf.persistent /\ C!Answered # {} => client'.last = client.last
  BY <1>1, <1>4 DEF SessInv, OneSession, s
<1>12. OneSession'
  <2>1. SUFFICES ASSUME conf.persistent, C!Answered # {}
                 PROVE  /\ client'.last # 0 /\ client'.session \in {0, client'.last}
                        /\ C!Answered \subseteq told[client'.last]
                        /\ \A i \in DOMAIN procs : i = client.child \/ procs'[i].out # << >> =>
                             procs'[i].session = client'.last
    BY <1>1, <1>3, <1>5, <1>10 DEF OneSession
  <2>2. /\ client.last # 0 /\ client.session \in {0, client.last} /\ s = client.last
        /\ C!Answered \subseteq told[client.last]
    BY <1>1, <2>1 DEF SessInv, OneSession, s
  <2>3. ASSUME NEW i \in DOMAIN procs, i = client.child \/ procs'[i].out # << >>
        PROVE  procs'[i].session = client.last
    BY <1>1, <1>5, <2>1, <2>3 DEF SessInv, OneSession
  <2> QED
    BY <1>4, <1>11, <2>1, <2>2, <2>3
<1>13. Resumes'
  <2>1. conf.prior # 0 /\ turns[1].proc # 0 =>
          turns[1].proc \in DOMAIN procs /\ procs'[turns[1].proc].session = conf.prior
    <3>1. 1 \in DOMAIN turns
      BY <1>7, SdkShape
    <3> QED
      BY <1>5, <1>7, <3>1, SdkShape DEF SessInv, Resumes
  <2>2. where \in {"grace", "write"} => procs'[client.child].session = procs[client.child].session
    <3>1. where \in {"grace", "write"} => client.child \in DOMAIN procs
      BY SdkShape DEF ChildOK
    <3> QED
      BY <1>5, <3>1
  <2> QED
    BY <1>1, <1>3, <1>7, <1>10, <1>11, <2>1, <2>2 DEF SessInv, Resumes
<1>14. Begun'
  <2>1. CASE client.child = 0
    BY <1>3, <2>1 DEF Begun
  <2>2. CASE client.child # 0 /\ where = "grace"
    <3>1. Quiet(client.child) /\ client.child \in DOMAIN procs
      BY <2>2, SdkShape DEF SessInv, Begun
    <3>2. client.child # p
      BY <1>1, <3>1 DEF Quiet
    <3> QED
      BY <1>1, <1>3, <1>5, <2>2, <3>1, <3>2 DEF Begun, Quiet
  <2>3. CASE client.child # 0 /\ where # "grace"
    <3>1. p = client.child
      BY <1>1, <2>3, SdkShape DEF ChildOK
    <3> QED
      BY <1>1, <1>3, <1>4, <1>5, <2>3, <3>1, BegunOn DEF SessInv, msg, s
  <2> QED
    BY <2>1, <2>2, <2>3
<1>15. Fresh'
  <2>1. procs # << >>
    BY <1>2
  <2>2. OfItsOwn => OfItsOwn'
    BY <1>1, <1>5, <1>8, StillApart
  <2> QED
    BY <1>1, <1>3, <1>7, <1>10, <2>1, <2>2 DEF SessInv, Fresh
<1> QED
  BY <1>9, <1>12, <1>13, <1>14, <1>15 DEF SessInv

\* The answer that ends a turn: its session holds the turn, and all that were answered before.
LEMMA ReadEndsSessions ==
  ASSUME C!SdkConstants, SdkInv, SdkInv', SessInv, NEW p \in DOMAIN procs, C!Read(p),
         Head(procs[p].out).kind = "result", client.turn # 0, ~client.tasks
  PROVE  SessInv'
<1> DEFINE msg == Head(procs[p].out)
           n == client.turn
           s == procs[p].session
           b == <<msg>>
           r == [turns[n] EXCEPT !.outcome = "result", !.by = b]
           e == [procs[p] EXCEPT !.out = Tail(@)]
           d == [procs[p] EXCEPT !.out = Tail(@), !.life = "ending"]
<1>1. /\ SdkTypes /\ n \in DOMAIN turns /\ n = Len(turns) /\ where = "await" /\ n \in Nat
      /\ turns[n].outcome = "open" /\ turns[n].proc = client.child /\ client.ready
      /\ client.child # 0 /\ turns \in Seq(TurnRecord) /\ s \in 1 .. C!Prior /\ s # 0
      /\ procs[p] \in ChildRecord
  BY OpenTurn, SdkShape
<1>2. procs[p].out # << >> /\ p = client.child /\ p # 0
  BY <1>1, SdkShape DEF C!Read, ChildOK
<1>3. /\ turns' = [turns EXCEPT ![n].outcome = "result", ![n].by = b]
      /\ client' = [client EXCEPT !.turn = 0]
      /\ where' = IF conf.persistent THEN "idle" ELSE "after"
      /\ UNCHANGED <<conf, told, want>>
  BY DEF C!Read
<1>4. /\ procs' = [procs EXCEPT ![p] = e] \/ procs' = [procs EXCEPT ![p] = d]
      /\ ~conf.persistent /\ procs[p].life = "up" => procs' = [procs EXCEPT ![p] = d]
  <2> DEFINE read == [procs EXCEPT ![p].out = Tail(@)]
  <2>1. procs' = IF ~conf.persistent /\ read[p].life = "up" THEN [read EXCEPT ![p].life = "ending"]
                 ELSE read
    BY <1>2 DEF C!Read
  <2>2. procs \in Seq(ChildRecord)
    BY SdkShape
  <2>3. read = [procs EXCEPT ![p] = e] /\ read[p] = e /\ e.life = procs[p].life
    BY <1>1, <2>2 DEF ChildRecord
  <2>4. [read EXCEPT ![p].life = "ending"] = [procs EXCEPT ![p] = d]
    BY <1>1, <2>2 DEF ChildRecord
  <2> QED
    BY <2>1, <2>3, <2>4
<1>5. /\ e.session = s /\ e.out = Tail(procs[p].out) /\ e.inbox = procs[p].inbox
      /\ e.life = procs[p].life
      /\ d.session = s /\ d.out = Tail(procs[p].out) /\ d.inbox = procs[p].inbox
      /\ d.life = "ending"
  BY <1>1 DEF ChildRecord
<1>6. /\ procs[p].out[1] = msg /\ 1 \in DOMAIN procs[p].out
      /\ \A k \in DOMAIN Tail(procs[p].out) :
           k + 1 \in DOMAIN procs[p].out /\ Tail(procs[p].out)[k] = procs[p].out[k + 1]
  BY <1>2, ReadList
<1>7. /\ client'.child = client.child /\ client'.session = client.session
      /\ client'.last = client.last /\ client'.resume = client.resume
  BY <1>3, SdkShape DEF ClientRecord
<1> HIDE DEF e, d
<1>8. /\ DOMAIN procs' = DOMAIN procs /\ Len(procs') = Len(procs)
      /\ \A i \in DOMAIN procs \ {p} : procs'[i] = procs[i]
      /\ procs'[p].session = s /\ procs'[p].inbox = procs[p].inbox
      /\ procs'[p].out = Tail(procs[p].out)
      /\ procs'[p].life = "up" => procs[p].life = "up"
      /\ ~conf.persistent => procs'[p].life # "up"
  <2>1. procs \in Seq(ChildRecord)
    BY SdkShape
  <2>2. CASE procs' = [procs EXCEPT ![p] = e]
    BY <1>4, <1>5, <2>1, <2>2
  <2>3. CASE procs' = [procs EXCEPT ![p] = d]
    BY <1>5, <2>1, <2>3
  <2> QED
    BY <1>4, <2>2, <2>3
<1>9. \A i \in DOMAIN procs :
         /\ procs'[i].session = procs[i].session /\ procs'[i].inbox = procs[i].inbox
         /\ procs'[i].life = "up" => procs[i].life = "up"
  BY <1>8 DEF s
<1>10. \A i \in DOMAIN procs : \A k \in DOMAIN procs'[i].out :
         \E m \in DOMAIN procs[i].out : procs'[i].out[k] = procs[i].out[m]
  <2>1. ASSUME NEW i \in DOMAIN procs, NEW k \in DOMAIN procs'[i].out
        PROVE  \E m \in DOMAIN procs[i].out : procs'[i].out[k] = procs[i].out[m]
    <3>1. CASE i = p
      BY <1>6, <1>8, <2>1, <3>1
    <3>2. CASE i # p
      BY <1>8, <2>1, <3>2
    <3> QED
      BY <3>1, <3>2
  <2> QED
    BY <2>1
<1>11. /\ DOMAIN turns' = DOMAIN turns /\ Len(turns') = Len(turns)
       /\ \A i \in DOMAIN turns :
            /\ turns'[i].proc = turns[i].proc /\ turns'[i].knew = turns[i].knew
            /\ i # n => turns'[i].by = turns[i].by /\ turns'[i].outcome = turns[i].outcome
       /\ turns'[n].outcome = "result" /\ turns'[n].by[1] = msg
  <2>1. b[1] = msg
    OBVIOUS
  <2>2. turns' = [turns EXCEPT ![n] = r]
    BY <1>1, <1>3
  <2>3. turns[n] \in TurnRecord
    BY <1>1
  <2> HIDE DEF b
  <2>4. r.proc = turns[n].proc /\ r.knew = turns[n].knew /\ r.outcome = "result" /\ r.by = b
    BY <2>3 DEF TurnRecord
  <2> HIDE DEF r, msg, n
  <2>5. /\ DOMAIN turns' = DOMAIN turns /\ Len(turns') = Len(turns)
        /\ turns'[n] = r /\ \A i \in DOMAIN turns \ {n} : turns'[i] = turns[i]
    BY <1>1, <2>2
  <2> QED
    BY <2>1, <2>4, <2>5
<1> HIDE DEF msg, n, s, b
<1>12. /\ C!Answered' = IF msg.turn = n THEN C!Answered \cup {n} ELSE C!Answered
       /\ n \notin C!Answered /\ C!Answered \subseteq DOMAIN turns
       /\ GivenUp' = GivenUp
  <2>1. n \notin C!Answered /\ C!Answered \subseteq DOMAIN turns
    BY <1>1 DEF C!Answered
  <2>2. ASSUME NEW i \in DOMAIN turns, i # n PROVE i \in C!Answered' <=> i \in C!Answered
    BY <1>11, <2>2 DEF C!Answered
  <2>3. n \in C!Answered' <=> msg.turn = n
    BY <1>1, <1>11 DEF C!Answered
  <2>4. C!Answered' \subseteq DOMAIN turns
    BY <1>11 DEF C!Answered
  <2>5. GivenUp' = GivenUp
    BY <1>1, <1>11 DEF GivenUp
  <2>6. ASSUME NEW i PROVE i \in C!Answered' <=> i \in C!Answered \/ (i = n /\ msg.turn = n)
    BY <2>1, <2>2, <2>3, <2>4
  <2> QED
    BY <2>1, <2>5, <2>6
<1>13. msg.turn = n => n \in told[s] /\ n \in turns[n].knew
  BY <1>6 DEF SessInv, Mail, s
<1>14. client.session = s /\ client.last = s
  BY <1>1, <1>2, <1>6 DEF SessInv, Begun, s, msg
<1>15. Mail'
  <2>1. ASSUME NEW i \in DOMAIN procs', NEW k \in DOMAIN procs'[i].inbox
        PROVE  procs'[i].inbox[k].turn \in DOMAIN turns' /\ turns'[procs'[i].inbox[k].turn].proc = i
    <3>1. i \in DOMAIN procs /\ procs'[i].inbox = procs[i].inbox
      BY <1>8, <1>9
    <3>2. procs[i].inbox[k].turn \in DOMAIN turns /\ turns[procs[i].inbox[k].turn].proc = i
      BY <2>1, <3>1 DEF SessInv, Mail
    <3> QED
      BY <1>11, <3>1, <3>2
  <2>2. ASSUME NEW i \in DOMAIN procs', NEW k \in DOMAIN procs'[i].out
        PROVE  /\ procs'[i].out[k].turn \in DOMAIN turns' /\ turns'[procs'[i].out[k].turn].proc = i
               /\ procs'[i].out[k].turn \in told'[procs'[i].session]
               /\ procs'[i].out[k].turn \in turns'[procs'[i].out[k].turn].knew
    <3>1. PICK m \in DOMAIN procs[i].out : procs'[i].out[k] = procs[i].out[m]
      BY <1>8, <1>10, <2>2
    <3>2. /\ procs[i].out[m].turn \in DOMAIN turns /\ turns[procs[i].out[m].turn].proc = i
          /\ procs[i].out[m].turn \in told[procs[i].session]
          /\ procs[i].out[m].turn \in turns[procs[i].out[m].turn].knew
      BY <1>8, <3>1 DEF SessInv, Mail
    <3> QED
      BY <1>3, <1>8, <1>9, <1>11, <3>1, <3>2
  <2>3. ASSUME NEW t \in DOMAIN told', NEW i \in told'[t]
        PROVE  i \in DOMAIN turns' /\ turns'[i].proc # 0 /\ procs'[turns'[i].proc].session = t
    <3>1. i \in DOMAIN turns /\ turns[i].proc # 0 /\ procs[turns[i].proc].session = t
      BY <1>3 DEF SessInv, Mail
    <3>2. turns[i].proc \in DOMAIN procs
      BY <3>1, SdkShape
    <3> QED
      BY <1>8, <1>9, <1>11, <3>1, <3>2
  <2>4. ASSUME NEW i \in C!Answered' PROVE i \in turns'[i].knew
    <3>1. CASE i = n
      BY <1>1, <1>11, <1>12, <1>13, <3>1
    <3>2. CASE i # n
      BY <1>11, <1>12, <3>2 DEF SessInv, Mail
    <3> QED
      BY <3>1, <3>2
  <2>5. \A i \in DOMAIN turns' : turns'[i].outcome = "result" => turns'[i].proc # 0
    BY <1>1, <1>11 DEF SessInv, Mail
  <2>6. client'.resume = 0 /\ Len(procs') <= MaxProcs
    BY <1>7, <1>8 DEF SessInv, Mail
  <2> QED
    BY <2>1, <2>2, <2>3, <2>4, <2>5, <2>6 DEF Mail
<1>16. Remembers'
  <2>1. ASSUME conf.persistent, NEW i \in DOMAIN procs, NEW k \in DOMAIN procs[i].out,
               procs[i].out[k].turn = n
        PROVE  C!Answered' \subseteq turns'[n].knew
    <3>1. C!Answered \subseteq turns[n].knew
      BY <1>1, <2>1 DEF SessInv, Remembers
    <3> QED
      BY <1>1, <1>11, <1>12, <1>13, <3>1
  <2>2. ASSUME conf.persistent, NEW i \in DOMAIN procs', NEW k \in DOMAIN procs'[i].out,
               procs'[i].out[k].turn = Len(turns')
        PROVE  C!Answered' \subseteq turns'[Len(turns')].knew
    <3>1. PICK m \in DOMAIN procs[i].out : procs'[i].out[k] = procs[i].out[m]
      BY <1>8, <1>10, <2>2
    <3> QED
      BY <1>1, <1>8, <1>11, <2>1, <2>2, <3>1
  <2>3. ASSUME conf.persistent, NEW i \in C!Answered'
        PROVE  {k \in C!Answered' : k <= i} \subseteq turns'[i].knew
    <3>1. CASE i = n
      <4>1. msg.turn = n
        BY <1>12, <2>3, <3>1
      <4>2. C!Answered' \subseteq turns'[n].knew
        BY <1>6, <2>1, <2>3, <4>1
      <4> QED
        BY <3>1, <4>2
    <3>2. CASE i # n
      <4>1. i \in C!Answered /\ i \in 1 .. n
        BY <1>1, <1>12, <2>3, <3>2
      <4>2. ~(n <= i)
        BY <1>1, <3>2, <4>1
      <4>3. {k \in C!Answered : k <= i} \subseteq turns[i].knew
        BY <2>3, <4>1 DEF SessInv, Remembers
      <4> QED
        BY <1>11, <1>12, <4>1, <4>2, <4>3
    <3> QED
      BY <3>1, <3>2
  <2> QED
    BY <1>3, <2>2, <2>3 DEF Remembers
<1>17. OneSession'
  <2>1. SUFFICES ASSUME conf.persistent
                 PROVE  /\ s # 0 /\ C!Answered' \subseteq told[s]
                        /\ \A i \in DOMAIN procs : i = client.child \/ procs'[i].out # << >> =>
                             procs'[i].session = s
    BY <1>3, <1>7, <1>8, <1>14 DEF OneSession
  <2>2. C!Answered \subseteq told[s]
    BY <1>14, <2>1 DEF SessInv, OneSession
  <2>3. ASSUME NEW i \in DOMAIN procs, i # p PROVE procs'[i].out = << >>
    BY <1>1, <1>2, <1>8, <2>3, SdkShape DEF ChildOK
  <2> QED
    BY <1>1, <1>2, <1>8, <1>12, <1>13, <2>2, <2>3
<1>18. OneEach'
  <2>1. ASSUME ~conf.persistent, NEW i \in DOMAIN turns', turns'[i].outcome = "result"
        PROVE  procs'[turns'[i].proc].life # "up"
    <3>1. CASE i = n
      BY <1>1, <1>2, <1>8, <1>11, <2>1, <3>1
    <3>2. CASE i # n
      <4>1. turns[i].proc \in DOMAIN procs /\ procs[turns[i].proc].life # "up"
        BY <1>11, <2>1, <3>2, SdkShape DEF SessInv, Mail, OneEach
      <4> QED
        BY <1>8, <1>9, <1>11, <2>1, <4>1
    <3> QED
      BY <3>1, <3>2
  <2>2. ASSUME ~conf.persistent, NEW i \in C!Answered' PROVE turns'[i].knew = {i} \/ C!Left(i)' # {}
    <3>1. ASSUME NEW k \in C!Left(i) PROVE k \in C!Left(i)'
      <4>1. k \in 1 .. i - 1 /\ k \in DOMAIN turns /\ turns[k].outcome \in {"timeout", "exit"}
        <5>1. i \in 1 .. Len(turns) /\ Len(turns) \in Nat /\ DOMAIN turns = 1 .. Len(turns)
          BY <1>1, <1>12, <2>2
        <5> QED
          BY <5>1 DEF C!Left
      <4>2. turns'[k].outcome \in {"timeout", "exit"}
        BY <1>1, <1>11, <4>1
      <4> QED
        BY <4>1, <4>2 DEF C!Left
    <3>2. CASE i # n
      BY <1>11, <1>12, <2>2, <3>1, <3>2 DEF SessInv, OneEach
    <3>3. CASE i = n /\ GivenUp = {}
      <4>1. turns[n].knew \subseteq {n}
        BY <1>1, <2>2, <3>3 DEF SessInv, Fresh, OfItsOwn
      <4> QED
        BY <1>1, <1>11, <1>12, <1>13, <2>2, <3>3, <4>1
    <3>4. CASE i = n /\ GivenUp # {}
      <4>1. PICK k \in DOMAIN turns : turns[k].outcome \in {"timeout", "exit"}
        BY <3>4 DEF GivenUp
      <4>2. k \in 1 .. n - 1
        BY <1>1, <4>1
      <4>3. k \in C!Left(n)
        BY <4>1, <4>2 DEF C!Left
      <4> QED
        BY <3>1, <3>4, <4>3
    <3> QED
      BY <3>2, <3>3, <3>4
  <2> QED
    BY <1>3, <2>1, <2>2 DEF OneEach
<1>19. turns # << >> /\ turns' # << >> /\ 1 \in DOMAIN turns
  BY <1>1, <1>11
<1>20. Resumes'
  <2>1. conf.prior # 0 /\ turns[1].proc # 0 =>
          turns[1].proc \in DOMAIN procs /\ procs'[turns'[1].proc].session = conf.prior
    BY <1>8, <1>9, <1>11, <1>19, SdkShape DEF SessInv, Resumes
  <2> QED
    BY <1>3, <1>11, <1>19, <2>1 DEF Resumes
<1>21. Begun'
  BY <1>1, <1>2, <1>3, <1>7, <1>8, <1>9, BegunOn DEF SessInv
<1>22. Fresh'
  <2>1. ASSUME ~conf.persistent, GivenUp = {} PROVE OfItsOwn'
    <3>1. OfItsOwn
      BY <2>1 DEF SessInv, Fresh
    <3> QED
      BY <1>8, <1>9, <1>11, <3>1 DEF OfItsOwn
  <2> QED
    BY <1>3, <1>12, <1>19, <2>1 DEF Fresh
<1> QED
  BY <1>15, <1>16, <1>17, <1>18, <1>20, <1>21, <1>22 DEF SessInv

\* Before the first call there is no session.
LEMMA SessBegins == ASSUME C!SdkConstants, C!Init PROVE SessInv
<1>1. /\ client.resume = 0 /\ client.child = 0 /\ client.session = 0 /\ client.last = 0
      /\ procs = << >> /\ turns = << >> /\ where = "idle" /\ want.start = FALSE
      /\ told = [t \in 1 .. C!Prior |-> {}]
  BY DEF C!Init, C!Idle, C!NoCall
<1>2. C!Answered = {} /\ GivenUp = {} /\ Len(procs) <= MaxProcs
  BY <1>1 DEF C!Answered, GivenUp, C!SdkConstants
<1>3. Mail
  BY <1>1, <1>2 DEF Mail
<1>4. Remembers /\ OneSession /\ OneEach /\ Resumes /\ Begun /\ Fresh
  BY <1>1, <1>2 DEF Remembers, OneSession, OneEach, Resumes, Begun, Fresh, OfItsOwn
<1> QED
  BY <1>3, <1>4 DEF SessInv

\* Every step of the loop, the client and the children keeps the sessions.
LEMMA SessStep == ASSUME C!SdkConstants, SdkInv, SdkInv', SessInv, [C!Next]_C!vars PROVE SessInv'
<1>1. CASE C!Loop
  BY <1>1, CallSessions, CloseSessions DEF C!Loop
<1>2. CASE C!Client
  <2>1. CASE C!Launch \/ C!Started \/ C!Write \/ C!Drained
    BY <2>1, LaunchSessions, StartedSessions, WriteSessions, DrainedSessions
  <2>2. CASE C!Restarted \/ C!ClosedAfterTurn \/ C!Closed
    BY <2>2, CleanSessions
  <2>3. ASSUME NEW p \in DOMAIN procs, C!Read(p) PROVE SessInv'
    BY <2>3, ReadOnSessions, ReadEndsSessions
  <2> QED
    BY <1>2, <2>1, <2>2, <2>3 DEF C!Client
<1>3. CASE C!Process
  BY <1>3, AnswerSessions, TaskSessions, ExitSessions DEF C!Process
<1>4. CASE C!TimesOut
  BY <1>4, TimeoutSessions
<1>5. CASE UNCHANGED C!vars
  <2>1. UNCHANGED <<conf, client, procs, told, where, want, turns>>
    BY <1>5 DEF C!vars
  <2> QED
    BY <2>1, NoTurn, NoChild, Elsewhere
<1> QED
  BY <1>1, <1>2, <1>3, <1>4, <1>5 DEF C!Next

\* All that ClaudeSdk promises.  A turn is settled by a result of the child it was written to, and
\* by one to its own prompt unless a turn of that child was given up before (handleMessage has no
\* turn to compare with); it fails for the end of no other child (handleUnexpectedExit), and its
\* child runs the model it asked for.  The first turn goes on with the session of an earlier run
\* (startClaudeSdk), a persistent session knows every turn that was answered, over all its
\* children, and without one a turn starts from nothing unless one before it was given up
\* (runTurnExclusive).
THEOREM SdkHolds == ASSUME C!SdkConstants PROVE C!Spec => []C!SdkKept
<1>1. C!Init => SdkInv /\ SessInv
  BY SdkBegins, SessBegins
<1>2. SdkInv /\ SessInv /\ [C!Next]_C!vars => (SdkInv /\ SessInv)'
  BY SdkStep, SessStep
<1>3. SdkInv /\ SessInv => C!SdkKept
  <2>1. SUFFICES ASSUME SdkInv, SessInv PROVE C!SessionsKept
    BY DEF SdkInv, C!SdkKept
  <2>2. ASSUME NEW j \in C!Answered, j = 1, conf.prior # 0
        PROVE  procs[turns[j].proc].session = conf.prior
    <3>1. 1 \in DOMAIN turns /\ turns[1].proc # 0
      BY <2>1, <2>2 DEF SessInv, Mail, C!Answered
    <3>2. turns # << >>
      BY <3>1
    <3> QED
      BY <2>1, <2>2, <3>1, <3>2 DEF SessInv, Resumes
  <2> QED
    BY <2>1, <2>2 DEF C!SessionsKept, SessInv, Remembers, OneEach
<1> QED
  BY <1>1, <1>2, <1>3, PTL DEF C!Spec
=============================================================================
