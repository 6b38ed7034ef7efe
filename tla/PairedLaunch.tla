---------------------------- MODULE PairedLaunch ----------------------------
(***************************************************************************)
(* Launches of paired runs in tmux: cli.ts, launch-reservation.ts,         *)
(* resolvePreparedRunState and preparePairedRun of paired-options.ts,      *)
(* startPairedSession and runInTmux of tmux.ts, gcAbandonedRunProcesses of *)
(* run-process-cleanup.ts.  Each launcher is a process: it sweeps the runs *)
(* that were abandoned, reserves a run under the lock of the repository,   *)
(* resolves its task, starts an app server and the tmux session, attaches  *)
(* and ends.  Only the reservation is under the lock; every other change   *)
(* of a manifest is read, change and rename without one.  A change made in *)
(* one synchronous stretch (updateRunManifest) is one step here; what is   *)
(* read before a wait and written after it is two.                         *)
(***************************************************************************)
EXTENDS Integers, FiniteSets

CONSTANTS Launchers,      \* processes "loop --tmux" of this repository
          Runs,           \* run ids, integers; the first may exist from before
          Place,          \* [Launchers -> binding]: the workspace of each
          Old,            \* the process of an earlier launch, dead by now
          Nobody, New, MaxCrashes

VARIABLES man,       \* manifest.json of each run, or Nobody
          tmux,      \* the runs whose tmux session is live
          lock,      \* holder of .paired-launch.lock, or Nobody
          server,    \* [Launchers -> state of the app server it spawned]
          at,        \* [Launchers -> where the process is]
          mem,       \* [Launchers -> what it holds in memory]
          resumed,   \* runs that a later launch asked for by their id
          crashes
vars == <<man, tmux, lock, server, at, mem, resumed, crashes>>

Active == {"submitted", "input-required"}
Manifests == [state : Active \cup {"failed", "completed"}, attempt : Launchers \cup {Nobody},
              pid : Launchers \cup {Old}, session : BOOLEAN, transport : Launchers \cup {Nobody},
              place : {Place[l] : l \in Launchers}]
LaunchAssumption ==
  /\ Runs \subseteq Nat \ {0} /\ New \notin Runs /\ MaxCrashes \in Nat
  /\ {Old, Nobody} \cap Launchers = {} /\ Old # Nobody /\ Nobody \notin Manifests
\* Where a process is while it can still do something.
Working == {"start", "sweep", "repair", "settle", "lock", "scan", "task", "prepare", "write",
            "probe", "serve", "record", "proxy", "create", "panes", "catch", "fail", "failed",
            "handoff", "attached", "cancel"}

TypeOK ==
  /\ man \in [Runs -> Manifests \cup {Nobody}]
  /\ tmux \subseteq Runs /\ resumed \subseteq Runs
  /\ lock \in Launchers \cup {Nobody}
  /\ server \in [Launchers -> {"none", "up", "closed"}]
  /\ at \in [Launchers -> Working \cup {"out", "handed", "crashed"}]
  /\ \A l \in Launchers : mem[l].want \in Runs \cup {New}

Alive(p) == p \in Launchers /\ at[p] \in Working
Empty == [want |-> New, sees |-> {}, todo |-> {}, copy |-> Nobody, run |-> 0,
          kind |-> "none", mine |-> FALSE, holds |-> FALSE]
Exists(r) == man[r] # Nobody
First == CHOOSE r \in Runs : \A q \in Runs : r <= q
Earlier(l) == [state |-> "failed", attempt |-> Nobody, pid |-> Old, session |-> TRUE,
               transport |-> Nobody, place |-> Place[l]]
Init ==
  /\ \E l \in Launchers, old \in BOOLEAN, s \in {"failed", "submitted"} :
       man = [r \in Runs |-> IF old /\ r = First
                             THEN [Earlier(l) EXCEPT !.state = s] ELSE Nobody]
  /\ tmux = {} /\ lock = Nobody /\ resumed = {} /\ crashes = 0
  /\ server = [l \in Launchers |-> "none"]
  /\ at = [l \in Launchers |-> "start"]
  /\ mem = [l \in Launchers |-> Empty]

Goes(l, pc) == at' = [at EXCEPT ![l] = pc]
MyRun(l) == mem[l].run
\* updateRunManifest of the claimed run.
Update(r, m) == man' = [man EXCEPT ![r] = m]
\* What tmuxSessionLiveness may answer: the truth, or unknown after a timeout.
Answers(r) == {IF r \in tmux THEN "live" ELSE "dead", "unknown"}

(***************************************************************************)
(* gcAbandonedRunProcesses: the sessions are listed once, then each        *)
(* manifest is read and judged; a run found abandoned is marked failed and *)
(* its app server is killed.                                               *)
(***************************************************************************)
ListSessions(l) ==
  /\ at[l] = "start"
  /\ \E want \in {New} \cup {r \in Runs : Exists(r)}, known \in BOOLEAN :
       mem' = [mem EXCEPT ![l].want = want, ![l].todo = {r \in Runs : Exists(r)},
                          ![l].sees = IF known THEN tmux ELSE Runs]
  /\ Goes(l, "sweep")
  /\ UNCHANGED <<man, tmux, lock, server, resumed, crashes>>

\* runIsProvablyAbandoned, for a list that was taken earlier.  A list that
\* failed preserves every run with a session: it counts as all of them.
Abandoned(m, r, sees) ==
  /\ ~(m.state \in Active /\ ~m.session)
  /\ m.session => r \notin sees
  /\ ~Alive(m.pid)

Inspect(l) ==
  /\ at[l] = "sweep" /\ mem[l].todo # {}
  /\ LET r == CHOOSE r \in mem[l].todo : \A q \in mem[l].todo : r <= q
         m == man[r]
     IN /\ mem' = [mem EXCEPT ![l].todo = @ \ {r}, ![l].run = r, ![l].copy = m]
        /\ Goes(l, IF ~(Abandoned(m, r, mem[l].sees)) THEN "sweep"
                   ELSE IF m.state \in Active THEN "repair"
                   ELSE IF m.transport # Nobody THEN "settle" ELSE "sweep")
  /\ UNCHANGED <<man, tmux, lock, server, resumed, crashes>>

Repair(l) ==
  /\ at[l] = "repair"
  /\ Update(MyRun(l), [man[MyRun(l)] EXCEPT !.state = "failed"])
  /\ Goes(l, IF mem[l].copy.transport # Nobody THEN "settle" ELSE "sweep")
  /\ UNCHANGED <<tmux, lock, server, mem, resumed, crashes>>

\* The process that the manifest named when it was judged is killed; the
\* fields of the manifest as it is now are cleared.
Settle(l) ==
  /\ at[l] = "settle"
  /\ server' = [server EXCEPT ![mem[l].copy.transport] = "closed"]
  /\ Update(MyRun(l), [man[MyRun(l)] EXCEPT !.transport = Nobody])
  /\ Goes(l, "sweep")
  /\ UNCHANGED <<tmux, lock, mem, resumed, crashes>>

SweptAll(l) ==
  /\ at[l] = "sweep" /\ mem[l].todo = {}
  /\ Goes(l, "lock")
  /\ mem' = [mem EXCEPT ![l].sees = {}, ![l].copy = Nobody, ![l].run = 0]
  /\ UNCHANGED <<man, tmux, lock, server, resumed, crashes>>

(***************************************************************************)
(* reservePairedLaunch.  The lock is renewed while its holder lives, so    *)
(* only that of a dead one goes stale.  The manifests are read before the  *)
(* sessions are asked about.                                               *)
(***************************************************************************)
Lock(l) ==
  /\ at[l] = "lock"
  /\ lock = Nobody \/ ~Alive(lock)
  /\ lock' = l
  /\ mem' = [mem EXCEPT ![l].copy = man]
  /\ Goes(l, "scan")
  /\ UNCHANGED <<man, tmux, server, resumed, crashes>>

LockBusy(l) ==
  /\ at[l] = "lock" /\ lock # Nobody /\ Alive(lock)
  /\ Goes(l, "out")
  /\ UNCHANGED <<man, tmux, lock, server, mem, resumed, crashes>>

Conflict(b, c) == b.root = c.root \/ (b.branch # "detached" /\ b.branch = c.branch)
\* Mutant: a run without a session blocks nobody.
CanStillOwn_SessionOnly(m, live) == m.session /\ live # "dead"

\* manifestCanStillOwnWorkspace, with the liveness of its session.
CanStillOwn(m, live) == (m.session /\ live # "dead") \/ m.state \in Active

Binding(l) == IF mem[l].want = New THEN Place[l] ELSE mem[l].copy[mem[l].want].place
Refused(l, live) ==
  \/ \E r \in Runs \ {mem[l].want} :
       /\ mem[l].copy[r] # Nobody
       /\ CanStillOwn(mem[l].copy[r], live[r])
       /\ Conflict(mem[l].copy[r].place, Binding(l))
  \/ /\ mem[l].want # New
     /\ LET m == mem[l].copy[mem[l].want]
        IN \/ m.session /\ live[mem[l].want] = "unknown"
           \/ /\ ~(m.session /\ live[mem[l].want] = "live")
              /\ Alive(m.attempt) \/ (m.state \in Active /\ Alive(m.pid))

\* reserveRunStorage: the directory is made exclusively; the next free index.
NextRun == CHOOSE r \in Runs : ~Exists(r) /\ \A q \in Runs : ~Exists(q) => r <= q

Claims(l, r, kind) ==
  mem' = [mem EXCEPT ![l].run = r, ![l].kind = kind, ![l].copy = Nobody]

Refuse(l, live) ==
  /\ Refused(l, live)
  /\ Goes(l, "out")
  /\ mem' = [mem EXCEPT ![l].copy = Nobody]
  /\ UNCHANGED <<man, resumed>>

ReserveNew(l, live) ==
  /\ ~Refused(l, live) /\ mem[l].want = New
  /\ \E r \in Runs : ~Exists(r)                       \* bound: Runs
  /\ Update(NextRun, [state |-> "submitted", attempt |-> l, pid |-> l, session |-> FALSE,
                      transport |-> Nobody, place |-> Place[l]])
  /\ Claims(l, NextRun, "new")
  /\ Goes(l, "task")
  /\ UNCHANGED resumed

\* reserveRequestedLaunch: a live session is attached to without a claim.
ReserveRequested(l, live) ==
  /\ ~Refused(l, live) /\ mem[l].want # New
  /\ LET r == mem[l].want
         m == mem[l].copy[r]
         attach == m.session /\ live[r] = "live"
     IN /\ Claims(l, r, IF attach THEN "attach" ELSE "cold")
        /\ IF attach THEN UNCHANGED man ELSE Update(r, [m EXCEPT !.attempt = l])
        /\ resumed' = resumed \cup {r}
  /\ Goes(l, "task")

Decide(l) ==
  /\ at[l] = "scan"
  /\ \E live \in {f \in [Runs -> {"live", "dead", "unknown"}] : \A r \in Runs : f[r] \in Answers(r)} :
       Refuse(l, live) \/ ReserveNew(l, live) \/ ReserveRequested(l, live)
  /\ lock' = IF lock = l THEN Nobody ELSE lock
  /\ UNCHANGED <<tmux, server, crashes>>

(***************************************************************************)
(* executePreparedLaunch: the task, then preparePairedRun, which reads the *)
(* manifest, writes the files of the pair and then the whole manifest.     *)
(***************************************************************************)
Owned(l) == mem[l].kind = "attach" \/ man[MyRun(l)].attempt = l

\* resolveTask may fail; bindLaunchTask refuses an attempt that lost its run.
ResolveTask(l) ==
  /\ at[l] = "task"
  /\ \E ok \in BOOLEAN : Goes(l, IF ok /\ Owned(l) THEN "prepare" ELSE "cancel")
  /\ UNCHANGED <<man, tmux, lock, server, mem, resumed, crashes>>

ReadPrepared(l) ==
  /\ at[l] = "prepare"
  /\ IF Owned(l)
     THEN /\ Goes(l, "write") /\ mem' = [mem EXCEPT ![l].copy = man[MyRun(l)]]
     ELSE Goes(l, "cancel") /\ UNCHANGED mem
  /\ UNCHANGED <<man, tmux, lock, server, resumed, crashes>>

WritePrepared(l) ==
  /\ at[l] = "write"
  /\ LET m == mem[l].copy
     IN Update(MyRun(l), [m EXCEPT !.pid = l,
                            !.state = IF m.state \in Active THEN m.state ELSE "submitted"])
  /\ mem' = [mem EXCEPT ![l].copy = Nobody]
  /\ Goes(l, "probe")
  /\ UNCHANGED <<tmux, lock, server, resumed, crashes>>

(***************************************************************************)
(* startPairedSession.  The session is named in the manifest before it is  *)
(* created; one that is live already is only bound.                        *)
(***************************************************************************)
Probe(l) ==
  /\ at[l] = "probe"
  /\ \E live \in Answers(MyRun(l)) :
       IF live = "unknown" THEN Goes(l, "cancel") /\ UNCHANGED man
       ELSE /\ Update(MyRun(l), [man[MyRun(l)] EXCEPT !.pid = l, !.session = TRUE])
            /\ Goes(l, IF live = "live" THEN "handoff" ELSE "serve")
  /\ UNCHANGED <<tmux, lock, server, mem, resumed, crashes>>

\* preparePersistentTmuxLaunch: the app server of Codex.  One that does not
\* come up is closed; the launch then has no proxy for Codex and fails.
Serve(l) ==
  /\ at[l] = "serve"
  /\ \/ /\ server' = [server EXCEPT ![l] = "up"]
        /\ mem' = [mem EXCEPT ![l].holds = TRUE]
        /\ Goes(l, "record")
     \/ /\ mem' = [mem EXCEPT ![l].holds = TRUE]
        /\ server' = [server EXCEPT ![l] = "closed"]
        /\ Goes(l, "catch")
     \/ Goes(l, "create") /\ UNCHANGED <<server, mem>>       \* a pair without Codex
  /\ UNCHANGED <<man, tmux, lock, resumed, crashes>>

Record(l) ==
  /\ at[l] = "record"
  /\ Update(MyRun(l), [man[MyRun(l)] EXCEPT !.transport = l])
  /\ Goes(l, "proxy")
  /\ UNCHANGED <<tmux, lock, server, mem, resumed, crashes>>

\* clearOwnedTransportFields.
Cleared(m, l, closed) == IF closed /\ m.transport = l THEN [m EXCEPT !.transport = Nobody] ELSE m

StartProxy(l) ==
  /\ at[l] = "proxy"
  /\ \/ Goes(l, "create") /\ UNCHANGED <<man, server, mem>>
     \/ \E closed \in BOOLEAN :
          /\ server' = IF closed THEN [server EXCEPT ![l] = "closed"] ELSE server
          /\ Update(MyRun(l), Cleared(man[MyRun(l)], l, closed))
          /\ mem' = [mem EXCEPT ![l].holds = FALSE]
          /\ Goes(l, "catch")
  /\ UNCHANGED <<tmux, lock, resumed, crashes>>

\* tmux new-session: a command that times out may have created it.
Create(l) ==
  /\ at[l] = "create"
  /\ \/ /\ MyRun(l) \notin tmux /\ tmux' = tmux \cup {MyRun(l)}
        /\ mem' = [mem EXCEPT ![l].mine = TRUE]
        /\ Goes(l, "panes")
     \/ /\ tmux' \in {tmux, tmux \cup {MyRun(l)}}
        /\ Goes(l, "catch") /\ UNCHANGED mem
  /\ UNCHANGED <<man, lock, server, resumed, crashes>>

Panes(l) ==
  /\ at[l] = "panes"
  /\ \/ /\ Update(MyRun(l), [man[MyRun(l)] EXCEPT !.pid = l, !.session = TRUE,
                               !.transport = IF mem[l].holds THEN l ELSE Nobody])
        /\ Goes(l, "handoff") /\ UNCHANGED mem
     \/ Goes(l, "catch") /\ UNCHANGED <<man, mem>>
     \/ LET m == man[MyRun(l)]                \* ClaudeStartupInputRequiredError
        IN /\ Update(MyRun(l), [m EXCEPT !.state = IF @ \in Active THEN "input-required" ELSE @])
           /\ mem' = [mem EXCEPT ![l].holds = FALSE]
           /\ Goes(l, "cancel")
  /\ UNCHANGED <<tmux, lock, server, resumed, crashes>>

\* The transport is released, not closed.
LetGo(l) == mem' = [mem EXCEPT ![l].holds = FALSE]
Closes(l, closed) ==
  server' = IF mem[l].holds /\ closed THEN [server EXCEPT ![l] = "closed"] ELSE server

Catch(l) ==
  /\ at[l] = "catch"
  /\ \E live \in Answers(MyRun(l)), closed \in BOOLEAN :
       \/ live = "unknown" /\ LetGo(l) /\ Goes(l, "cancel") /\ UNCHANGED <<man, server>>
       \/ /\ live = "live" /\ ~mem[l].mine
          /\ Closes(l, closed)
          /\ Update(MyRun(l), Cleared(man[MyRun(l)], l, server'[l] = "closed"))
          /\ Goes(l, "cancel") /\ UNCHANGED mem
       \/ /\ live = "dead" \/ (live = "live" /\ mem[l].mine)
          /\ Goes(l, "fail") /\ UNCHANGED <<man, server, mem>>
  /\ UNCHANGED <<tmux, lock, resumed, crashes>>

\* terminalizeFailedStart: close the transport, kill an owned session, then
\* the manifest.
Fail(l) ==
  /\ at[l] = "fail"
  /\ \E closed \in BOOLEAN : Closes(l, closed)
  /\ tmux' = IF mem[l].mine THEN tmux \ {MyRun(l)} ELSE tmux
  /\ Goes(l, "failed")
  /\ UNCHANGED <<man, lock, mem, resumed, crashes>>

Failed(l) ==
  /\ at[l] = "failed"
  /\ LET m == Cleared(man[MyRun(l)], l, server[l] = "closed")
     IN /\ Update(MyRun(l), [m EXCEPT !.state = IF @ \in Active THEN "failed" ELSE @])
        /\ Goes(l, IF m.state = "completed" THEN "handed" ELSE "cancel")
  /\ UNCHANGED <<tmux, lock, server, mem, resumed, crashes>>

(***************************************************************************)
(* runInTmux: look, attach, and look again after the user has detached.    *)
(***************************************************************************)
HandOff(l) ==
  /\ at[l] = "handoff"
  /\ \E live \in Answers(MyRun(l)) :
       /\ Goes(l, CASE live = "live" -> "attached" [] live = "dead" -> "fail"
                    [] OTHER -> "cancel")
       /\ IF live = "unknown" THEN LetGo(l) ELSE UNCHANGED mem
  /\ UNCHANGED <<man, tmux, lock, server, resumed, crashes>>

Detach(l) ==
  /\ at[l] = "attached"
  /\ \E live \in Answers(MyRun(l)) :
       /\ Goes(l, CASE live = "live" -> "handed" [] live = "dead" -> "fail"
                    [] OTHER -> "cancel")
       /\ IF live = "dead" THEN UNCHANGED mem ELSE LetGo(l)
  /\ UNCHANGED <<man, tmux, lock, server, resumed, crashes>>

\* cancelPairedLaunch, of a launch that did not hand off.
Cancel(l) ==
  /\ at[l] = "cancel"
  /\ LET m == man[MyRun(l)]
     IN IF mem[l].kind = "attach" \/ m.attempt # l THEN UNCHANGED man
        ELSE Update(MyRun(l), [m EXCEPT !.attempt = Nobody,
               !.state = IF mem[l].kind = "new" /\ ~m.session /\ @ \in Active THEN "failed" ELSE @])
  /\ Goes(l, "out")
  /\ UNCHANGED <<tmux, lock, server, mem, resumed, crashes>>

Crash(l) ==
  /\ crashes < MaxCrashes /\ at[l] \in Working \ {"start"}
  /\ Goes(l, "crashed")
  /\ crashes' = crashes + 1
  /\ UNCHANGED <<man, tmux, lock, server, mem, resumed>>

\* The session of a run ends, the run with it or not.
SessionEnds(r) ==
  /\ r \in tmux /\ tmux' = tmux \ {r}
  /\ \/ UNCHANGED man
     \/ Update(r, [man[r] EXCEPT !.state = "completed"])
  /\ UNCHANGED <<lock, server, at, mem, resumed, crashes>>

Step(l) ==
  \/ ListSessions(l) \/ Inspect(l) \/ Repair(l) \/ Settle(l) \/ SweptAll(l)
  \/ Lock(l) \/ LockBusy(l) \/ Decide(l)
  \/ ResolveTask(l) \/ ReadPrepared(l) \/ WritePrepared(l)
  \/ Probe(l) \/ Serve(l) \/ Record(l) \/ StartProxy(l) \/ Create(l) \/ Panes(l)
  \/ Catch(l) \/ Fail(l) \/ Failed(l) \/ HandOff(l) \/ Detach(l) \/ Cancel(l)
Next ==
  \/ \E l \in Launchers : Step(l) \/ Crash(l)
  \/ \E r \in Runs : SessionEnds(r)
Spec == Init /\ [][Next]_vars

\* Two live sessions never share a workspace or a branch: of two launches for
\* one workspace one is refused, whatever sweeps, crashes and timeouts come in
\* between (launch-reservation.ts, assertNoConflict).
OneOwner ==
  \A r, q \in tmux : r # q => ~Conflict(man[r].place, man[q].place)

\* The same, but for a run that was resumed after its session had died: a cold
\* resume of a run in a final state leaves that state until preparePairedRun,
\* and a launch that scans meanwhile does not see it.
OneOwnerUnlessResumed ==
  \A r, q \in tmux : r # q => \/ ~Conflict(man[r].place, man[q].place)
                              \/ {r, q} \cap resumed # {}

\* An app server that is up when its launcher has ended by itself is named in
\* the manifest of the run, so that a later sweep can close it
\* (terminalizeFailedStart, clearOwnedTransportFields).
ServerAccounted ==
  \A l \in Launchers :
    server[l] = "up" /\ at[l] \in {"out", "handed"} /\ MyRun(l) \notin resumed
      => man[MyRun(l)].transport = l

\* Both of the above: what a launcher and its sweep leave behind.
LaunchKept == OneOwnerUnlessResumed /\ ServerAccounted
=============================================================================
