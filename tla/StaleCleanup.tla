----------------------------- MODULE StaleCleanup -----------------------------
(***************************************************************************)
(* What every start of loop clears away: registrations of bridges in the   *)
(* configuration of Claude, bridge processes whose run is over, and the    *)
(* bridges that an abandoned run has noted.  It looks from the outside, by *)
(* pid, command line, manifest and tmux, while runs end and are resumed,   *)
(* processes come and go, and pids are used again.                         *)
(***************************************************************************)
EXTENDS Naturals

CONSTANTS Runs, Pids, NoPid, NoRun,
          MaxEvents    \* bound: what happens outside of the sweep

VARIABLES man,     \* per run: the state its manifest shows, whether that names a session, whether its launcher lives
          tmux,    \* the runs whose session is alive
          procs,   \* per pid: what runs there, and for which run
          noted,   \* run-processes/bridge-<pid>.json: pairs of a run and a pid
          mcp,     \* the runs with a registration in .claude.json
          sweep,   \* where the sweep is, what it has in hand, and the pids that it could not read or signal
          left,    \* pids of bridges of ended runs that the sweep has listed
          events
vars == <<man, tmux, procs, noted, mcp, sweep, left, events>>

CleanupConstants == MaxEvents \in Nat /\ NoPid \notin Pids /\ NoRun \notin Runs

Nothing == [kind |-> "none", run |-> NoRun]
Bridge(r) == [kind |-> "bridge", run |-> r]
Sweep(pc) ==
  [pc |-> pc, work |-> {}, pid |-> NoPid, run |-> NoRun, live |-> {}, notes |-> {},
   spared |-> {}, moved |-> FALSE, revived |-> {}]

\* Every run is up; each may have a bridge, and a registration of an older version.
Init ==
  /\ man = [r \in Runs |-> [state |-> "active", bound |-> TRUE, owner |-> FALSE]] /\ tmux = Runs
  /\ \E at \in [Runs -> Pids] :
       /\ \A r, s \in Runs : at[r] = at[s] => r = s
       /\ procs = [p \in Pids |-> IF \E r \in Runs : at[r] = p THEN Bridge(CHOOSE r \in Runs : at[r] = p) ELSE Nothing]
       /\ noted = {<<r, at[r]>> : r \in Runs}
  /\ mcp = Runs /\ sweep = Sweep("off") /\ left = {} /\ events = 0

-----------------------------------------------------------------------------
(* What happens meanwhile.                                                 *)

Event == events < MaxEvents /\ events' = events + 1
Keep(r) == /\ left' = {p \in left : procs[p].run # r}
           /\ sweep' = [sweep EXCEPT !.revived = @ \cup {r}]
Moves(p) == /\ left' = left \ {p}
            /\ sweep' = [sweep EXCEPT !.moved = @ \/ sweep.pid = p]

SessionDies(r) ==
  /\ Event /\ r \in tmux /\ tmux' = tmux \ {r}
  /\ UNCHANGED <<man, procs, noted, mcp, sweep, left>>
Ends(r, state) ==
  /\ Event /\ man[r].state = "active"
  /\ man' = [man EXCEPT ![r].state = state, ![r].owner = FALSE]
  /\ noted' = IF state = "gone" THEN {n \in noted : n[1] # r} ELSE noted
  /\ UNCHANGED <<tmux, procs, mcp, sweep, left>>
\* The launcher is there before the session; it leaves once its session is bound.
Resume(r) ==
  /\ Event /\ man[r].state = "final" /\ r \notin tmux
  /\ man' = [man EXCEPT ![r] = [state |-> "active", bound |-> FALSE, owner |-> TRUE]]
  /\ Keep(r) /\ UNCHANGED <<tmux, procs, noted, mcp>>
Bind(r) ==
  /\ Event /\ man[r].state = "active" /\ man[r].owner
  /\ man' = [man EXCEPT ![r] = [state |-> "active", bound |-> TRUE, owner |-> FALSE]] /\ tmux' = tmux \cup {r}
  /\ Keep(r) /\ UNCHANGED <<procs, noted, mcp>>

\* runBridgeMcpServer: registerRunBridgeProcess, and unregister unless it is killed.
StartBridge(r, p) ==
  /\ Event /\ procs[p] = Nothing /\ r \in tmux /\ man[r].state # "gone"
  /\ procs' = [procs EXCEPT ![p] = Bridge(r)] /\ noted' = noted \cup {<<r, p>>}
  /\ Moves(p) /\ UNCHANGED <<man, tmux, mcp>>
\* Another process: one of loop, or of anything.
StartOther(p, kind) ==
  /\ Event /\ procs[p] = Nothing
  /\ procs' = [procs EXCEPT ![p] = [kind |-> kind, run |-> NoRun]]
  /\ Moves(p) /\ UNCHANGED <<man, tmux, noted, mcp>>
Exit(p, unregistered) ==
  /\ Event /\ procs[p] # Nothing
  /\ procs' = [procs EXCEPT ![p] = Nothing]
  /\ noted' = IF unregistered THEN noted \ {<<procs[p].run, p>>} ELSE noted
  /\ Moves(p) /\ UNCHANGED <<man, tmux, mcp>>

Outside ==
  \/ \E r \in Runs :
       \/ SessionDies(r) \/ Resume(r) \/ Bind(r)
       \/ \E s \in {"final", "broken", "gone"} : Ends(r, s)
       \/ \E p \in Pids : StartBridge(r, p)
  \/ \E p \in Pids : (\E k \in {"loop", "other"} : StartOther(p, k)) \/ \E u \in BOOLEAN : Exit(p, u)

-----------------------------------------------------------------------------
(* gcStaleClaudeBridgeRegistrations                                        *)

world == <<man, tmux, procs, noted, mcp, events>>
Becomes(s) == sweep' = s
Next_(pc) == [sweep EXCEPT !.pc = pc, !.pid = NoPid, !.run = NoRun, !.moved = FALSE]

Begin ==
  /\ sweep.pc = "off" /\ Becomes([Sweep("registry") EXCEPT !.work = mcp])
  /\ UNCHANGED <<world, left>>
\* staleReason: a run that is active and names no session is kept; a session is asked for.
ReadRegistration(r) ==
  /\ sweep.pc = "registry" /\ r \in sweep.work
  /\ LET to == CASE man[r].state # "active" -> "remove" [] man[r].bound -> "probe" [] OTHER -> "registry"
     IN  Becomes([sweep EXCEPT !.pc = to, !.run = r, !.work = @ \ {r}, !.revived = {}])
  /\ UNCHANGED <<world, left>>
\* A probe without an answer is no proof of death; nor is a launcher that lives.
Probe(unknown) ==
  LET r == sweep.run
  IN  /\ sweep.pc = "probe"
      /\ Becomes([sweep EXCEPT !.pc = IF unknown \/ r \in tmux \/ man[r].owner THEN "registry" ELSE "remove"])
      /\ UNCHANGED <<world, left>>
Remove(done) ==
  /\ sweep.pc = "remove" /\ Becomes(Next_("registry"))
  /\ mcp' = IF done THEN mcp \ {sweep.run} ELSE mcp
  /\ UNCHANGED <<man, tmux, procs, noted, events, left>>

-----------------------------------------------------------------------------
(* gcStaleBridgeProcesses                                                  *)

\* bridgeIsStale
Stale(r) == man[r].state \in {"gone", "final"}

\* ps, by the name of the executable; without it everything is preserved.
List(failed) ==
  LET found == IF failed THEN {} ELSE {p \in Pids : procs[p].kind \in {"bridge", "loop"}}
  IN  /\ sweep.pc = "registry" /\ sweep.work = {}
      /\ Becomes([Next_("processes") EXCEPT !.work = found])
      /\ left' = {p \in found : procs[p].kind = "bridge" /\ Stale(procs[p].run)}
      /\ UNCHANGED world
\* What cannot be read or signalled is preserved: ps -p has 750 ms, a directory may be closed to the sweep.
Spare(p) == Becomes([Next_("processes") EXCEPT !.spared = @ \cup {p}])
\* readProcessIdentity, bridgeProcessFromIdentity
Identify(p) ==
  /\ sweep.pc = "processes" /\ p \in sweep.work
  /\ Becomes([sweep EXCEPT !.work = @ \ {p}, !.pid = p, !.run = procs[p].run,
                           !.pc = IF procs[p].kind = "bridge" THEN "first" ELSE "processes"])
  /\ UNCHANGED <<world, left>>
IdentifyFails(p) ==
  /\ sweep.pc = "processes" /\ p \in sweep.work
  /\ Becomes([sweep EXCEPT !.work = @ \ {p}, !.spared = @ \cup {p}])
  /\ UNCHANGED <<world, left>>
\* It looks at the run twice.
Look(pc, to) ==
  /\ sweep.pc = pc
  /\ Becomes(IF Stale(sweep.run) THEN [sweep EXCEPT !.pc = to, !.revived = {}] ELSE Next_("processes"))
  /\ UNCHANGED <<world, left>>
\* Mutant: the process that was listed will still be there.
SameIdentity_Alive == procs[sweep.pid] # Nothing
SameIdentity == procs[sweep.pid] = Bridge(sweep.run)
IdentifyAgain ==
  /\ sweep.pc = "again"
  /\ Becomes(IF SameIdentity THEN [sweep EXCEPT !.pc = "signal", !.moved = FALSE] ELSE Next_("processes"))
  /\ UNCHANGED <<world, left>>
LookFails ==
  /\ sweep.pc \in {"first", "second", "again"} /\ Spare(sweep.pid)
  /\ UNCHANGED <<world, left>>

\* SIGTERM: a bridge unregisters itself; a pid that is gone is none (ESRCH).
Strikes(p) ==
  /\ procs' = [procs EXCEPT ![p] = Nothing]
  /\ left' = left \ {p} /\ UNCHANGED <<man, tmux, mcp, events>>
Signal ==
  /\ sweep.pc = "signal" /\ Strikes(sweep.pid) /\ Becomes(Next_("processes"))
  /\ noted' = noted \ {<<procs[sweep.pid].run, sweep.pid>>}
SignalFails ==
  /\ sweep.pc = "signal" /\ procs[sweep.pid] # Nothing /\ Spare(sweep.pid)
  /\ UNCHANGED <<world, left>>

-----------------------------------------------------------------------------
(* gcAbandonedRunProcesses, of the bridges; PairedLaunch has the manifest.  *)

\* The sessions are listed once for all runs.
ListSessions(unknown) ==
  /\ sweep.pc = "processes" /\ sweep.work = {}
  /\ Becomes([Next_("runs") EXCEPT !.work = Runs, !.live = IF unknown THEN Runs ELSE tmux, !.revived = {},
                                   !.spared = {}])
  /\ UNCHANGED <<world, left>>
\* runIsProvablyAbandoned
Abandoned(r) ==
  LET m == man[r]
  IN  m.state \in {"active", "final"} /\ ~(m.state = "active" /\ ~m.bound) /\ ~(m.bound /\ r \in sweep.live) /\ ~m.owner
Inspect(r) ==
  /\ sweep.pc = "runs" /\ r \in sweep.work
  /\ LET rest == [sweep EXCEPT !.work = @ \ {r}]
     IN  IF Abandoned(r) THEN Becomes([rest EXCEPT !.pc = "registered", !.run = r]) ELSE Becomes(rest)
  /\ man' = IF Abandoned(r) THEN [man EXCEPT ![r].state = "final"] ELSE man
  /\ UNCHANGED <<tmux, procs, noted, mcp, events, left>>
\* What throws is logged, and the run is left for the next sweep.
InspectFails(r) ==
  /\ sweep.pc = "runs" /\ r \in sweep.work /\ Becomes([sweep EXCEPT !.work = @ \ {r}])
  /\ UNCHANGED <<world, left>>
\* readBridgeRegistrations
ReadNotes ==
  /\ sweep.pc = "registered"
  /\ Becomes([sweep EXCEPT !.pc = "notes", !.notes = {p \in Pids : <<sweep.run, p>> \in noted}])
  /\ UNCHANGED <<world, left>>
\* cleanupRunOwnedProcesses: the command line of the pid, and then the signal.  The note goes, also when no
\* command line could be read; it stays when the signal fails.
ReadNote(p, failed) ==
  /\ sweep.pc = "notes" /\ p \in sweep.notes
  /\ Becomes([sweep EXCEPT !.pc = IF procs[p] = Bridge(sweep.run) /\ ~failed THEN "owned" ELSE "unnote",
                           !.notes = @ \ {p}, !.pid = p, !.moved = FALSE])
  /\ UNCHANGED <<world, left>>
SignalOwned ==
  /\ sweep.pc = "owned" /\ Strikes(sweep.pid) /\ Becomes([sweep EXCEPT !.pc = "unnote"]) /\ UNCHANGED noted
OwnedFails ==
  /\ sweep.pc = "owned" /\ procs[sweep.pid] # Nothing
  /\ Becomes([sweep EXCEPT !.pc = "notes", !.pid = NoPid])
  /\ UNCHANGED <<world, left>>
Unnote ==
  /\ sweep.pc = "unnote" /\ noted' = noted \ {<<sweep.run, sweep.pid>>}
  /\ Becomes([sweep EXCEPT !.pc = "notes", !.pid = NoPid])
  /\ UNCHANGED <<man, tmux, procs, mcp, events, left>>
NotesDone ==
  /\ sweep.pc = "notes" /\ sweep.notes = {}
  /\ Becomes([sweep EXCEPT !.pc = "runs", !.run = NoRun])
  /\ UNCHANGED <<world, left>>
Done == sweep.pc = "runs" /\ sweep.work = {} /\ Becomes(Sweep("done")) /\ UNCHANGED <<world, left>>

Sweeping ==
  \/ Begin \/ \E r \in Runs : ReadRegistration(r) \/ Inspect(r) \/ InspectFails(r)
  \/ \E b \in BOOLEAN : Probe(b) \/ Remove(b) \/ List(b) \/ ListSessions(b)
  \/ \E p \in Pids : Identify(p) \/ IdentifyFails(p) \/ \E b \in BOOLEAN : ReadNote(p, b)
  \/ Look("first", "second") \/ Look("second", "again") \/ IdentifyAgain \/ LookFails \/ Signal \/ SignalFails
  \/ ReadNotes \/ SignalOwned \/ OwnedFails \/ Unnote \/ NotesDone \/ Done
Next == Outside \/ Sweeping
Spec == Init /\ [][Next]_vars

-----------------------------------------------------------------------------
TypeOK ==
  /\ tmux \cup mcp \subseteq Runs /\ left \subseteq Pids /\ noted \subseteq Runs \X Pids /\ events \in 0..MaxEvents
  /\ \A r \in Runs : man[r].state \in {"active", "final", "broken", "gone"}
  /\ \A p \in Pids : procs[p].kind \in {"none", "bridge", "loop", "other"}

\* A signal of the sweep ends a bridge of the run it was meant for, and of a run that is over; unless, after
\* the last look, the pid changed hands or the run was resumed.  (ps, the manifest and the list of sessions are
\* read before the signal; all of them go stale.)
StruckRightly ==
  sweep.pc \in {"signal", "owned"} /\ sweep'.pc \notin {"signal", "owned"} /\ procs[sweep.pid] # Nothing =>
    /\ procs[sweep.pid] = Bridge(sweep.run) \/ sweep.moved
    /\ man[sweep.run].state \in {"final", "gone"} \/ sweep.run \in sweep.revived

\* The bridge of a run that is over does not outlive a sweep that has listed it, but for one that the sweep
\* could not read or signal.  (Its run is looked at twice, and the process three times.)
NoneLeft == sweep'.pc = "runs" /\ sweep.pc = "processes" => left' \subseteq sweep.spared

\* An active run keeps its registration while its session, its launcher or nothing at all is known of it;
\* unless it was resumed after the look.  (staleReason: unknown is no proof of death.)
RegistrationKept ==
  \A r \in mcp \ mcp' :
    man[r].state = "active" => (man[r].bound /\ r \notin tmux /\ ~man[r].owner) \/ r \in sweep.revived

\* Of a sweep: it ends what is over, and nothing else.
SweepKept == StruckRightly /\ NoneLeft /\ RegistrationKept
=============================================================================
