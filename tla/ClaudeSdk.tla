------------------------------ MODULE ClaudeSdk ------------------------------
(***************************************************************************)
(* The Claude process behind claude-sdk-server.ts: one client, with at     *)
(* most one child that reads prompts and writes messages.  The loop asks   *)
(* for one turn after the other; each call first starts or replaces the    *)
(* child as its model and session need it.  The child may exit at any      *)
(* moment, its messages are read later than they are written, and a turn   *)
(* may time out while the child is still busy with it.                     *)
(***************************************************************************)
EXTENDS Integers, Sequences

CONSTANTS Models,      \* of the work and of the review
          MaxTurns,    \* bound: turns asked for
          MaxProcs,    \* bound: children spawned
          MaxFaults    \* bound: exits, failed spawns and turns that time out

VARIABLES conf,     \* whether the session is persistent, and the session of an earlier run to resume
          client,   \* the fields of ClaudeSdkClient
          procs,    \* the children: life, model, session, prompts to take, running tasks, unread messages
          told,     \* for each session, the turns its transcript holds
          at,       \* where the caller is
          want,     \* the call: its model, nextResumeId, and whether it only starts the session
          turns,    \* the turns asked for, and what became of them
          faults
vars == <<conf, client, procs, told, at, want, turns, faults>>

\* 0 is no session, and no child.  A child that resumes nothing has a session of its own.
Prior == MaxProcs + 1
SdkConstants == {MaxTurns, MaxProcs} \subseteq Nat \ {0} /\ MaxFaults \in Nat

This == Len(turns)
Child == procs[client.child]
Dead == IF client.child = 0 THEN TRUE ELSE Child.life = "dead"
Idle == [child |-> 0, ready |-> FALSE, started |-> FALSE, model |-> "none", session |-> 0, last |-> 0,
         resume |-> 0, turn |-> 0, tasks |-> FALSE, draining |-> FALSE]
NoCall == [model |-> "none", resume |-> 0, start |-> FALSE]

Init ==
  /\ conf \in [persistent : BOOLEAN, prior : {0, Prior}]
  /\ client = Idle /\ procs = << >> /\ at = "idle" /\ want = NoCall /\ turns = << >> /\ faults = 0
  /\ told = [s \in 1 .. Prior |-> {}]

Fault == faults < MaxFaults /\ faults' = faults + 1

-----------------------------------------------------------------------------
(* Starting and replacing the child: startClaudeSdk.                       *)

\* The fields after cleanup(): the last session is remembered, the turn is not looked at.
Cleaned(c) == [c EXCEPT !.child = 0, !.ready = FALSE, !.started = FALSE, !.session = 0]
Killed(p) == IF p = 0 \/ procs[p].life = "dead" THEN procs ELSE [procs EXCEPT ![p].life = "ending"]
Known(r) == IF r # 0 THEN r ELSE IF client.session # 0 THEN client.session ELSE client.last
NeedsRestart(m, r) ==
  client.started /\ (client.model # m \/ (r # 0 /\ r \notin {client.session, client.last}))

\* A call for a turn or, before the first, the start of a persistent session.
Call(m, start) ==
  LET r == IF turns = << >> THEN conf.prior ELSE 0
      again == NeedsRestart(m, r)
  IN  /\ at = "idle" /\ This < MaxTurns
      /\ start => conf.persistent /\ turns = << >> /\ procs = << >>
      /\ want' = [model |-> m, start |-> start, resume |-> IF again \/ conf.persistent THEN Known(r) ELSE r]
      /\ turns' = IF start THEN turns
                  ELSE Append(turns, [model |-> m, outcome |-> "open", proc |-> 0, by |-> << >>, knew |-> {}])
      /\ procs' = IF again THEN Killed(client.child) ELSE procs
      /\ at' = IF again THEN "restart" ELSE "launch"
      /\ UNCHANGED <<conf, client, told, faults>>

\* What became of the call; the start of a session is no turn.
Settled(outcome) == IF want.start THEN turns ELSE [turns EXCEPT ![This].outcome = outcome]
CallFails(c) == client' = c /\ turns' = Settled("failed") /\ at' = "idle"

\* Mutant: the child is replaced without waiting for its exit.
Gone_Killed == at \in {"restart", "after"}
\* cleanup() goes on when the child it killed has exited.
Gone == at \in {"restart", "after"} /\ Dead
Restarted == Gone /\ at = "restart" /\ client' = Cleaned(client) /\ at' = "launch"
             /\ UNCHANGED <<conf, procs, told, want, turns, faults>>
ClosedAfterTurn == Gone /\ at = "after" /\ client' = Cleaned(client) /\ at' = "idle"
                   /\ UNCHANGED <<conf, procs, told, want, turns, faults>>

\* start(): nothing if there is a child, dead or alive; else a spawn, which may fail.
Launch ==
  LET resume == IF want.resume # 0 /\ client.child = 0 THEN want.resume ELSE client.resume
      set == [client EXCEPT !.model = want.model, !.resume = resume]
      p == Len(procs) + 1
  IN  /\ at = "launch"
      /\ IF client.started
         THEN /\ client' = set /\ at' = IF want.start THEN "idle" ELSE "write"
              /\ UNCHANGED <<procs, turns, faults>>
         ELSE \/ /\ Fault /\ CallFails(Cleaned([set EXCEPT !.resume = 0])) /\ UNCHANGED procs
              \/ /\ p <= MaxProcs /\ at' = "grace"
                 /\ client' = [set EXCEPT !.resume = 0, !.started = TRUE, !.child = p]
                 /\ procs' = Append(procs, [life |-> "up", model |-> want.model, inbox |-> << >>, out |-> << >>,
                                            busy |-> FALSE, session |-> IF resume # 0 THEN resume ELSE p])
                 /\ UNCHANGED <<turns, faults>>
      /\ UNCHANGED <<conf, told, want>>

\* STARTUP_GRACE_MS later, when what was left in the pipe of a child before is read and dropped.
Started ==
  /\ at = "grace"
  /\ IF Child.life = "dead" THEN CallFails(Cleaned(client)) /\ UNCHANGED procs
     ELSE /\ client' = [client EXCEPT !.ready = TRUE]
          /\ at' = IF want.start THEN "idle" ELSE "write"
          /\ procs' = [p \in DOMAIN procs |-> IF p = client.child THEN procs[p] ELSE [procs[p] EXCEPT !.out = << >>]]
          /\ UNCHANGED turns
  /\ UNCHANGED <<conf, told, want, faults>>

-----------------------------------------------------------------------------
(* A turn: runTurnExclusive and the messages of the child.                 *)

\* sendUserMessage: what is written to a dead child is lost.
Sent(j, part) ==
  IF client.child = 0 THEN procs ELSE IF Child.life # "up" THEN procs
  ELSE [procs EXCEPT ![client.child].inbox = Append(@, [turn |-> j, part |-> part])]

Write ==
  /\ at = "write" /\ at' = "await"
  /\ client' = [client EXCEPT !.turn = This, !.tasks = FALSE, !.draining = FALSE]
  /\ turns' = [turns EXCEPT ![This].proc = client.child]
  /\ procs' = Sent(This, "prompt") /\ UNCHANGED <<conf, told, want, faults>>

\* The child takes a prompt and answers it; with background tasks it says so, and stops before they end.
Answer(p) ==
  /\ procs[p].life = "up" /\ procs[p].inbox # << >>
  /\ LET q == Head(procs[p].inbox)
         s == procs[p].session
         said(k, tasks) == [kind |-> k, turn |-> q.turn, tasks |-> tasks, proc |-> p]
     IN  /\ told' = [told EXCEPT ![s] = @ \cup {q.turn}]
         /\ turns' = [turns EXCEPT ![q.turn].knew = told'[s]]
         /\ \E tasks \in IF q.part = "prompt" THEN BOOLEAN ELSE {FALSE} :
              procs' = [procs EXCEPT ![p].inbox = Tail(@), ![p].busy = @ \/ tasks,
                          ![p].out = @ \o <<said("init", tasks)>>
                                       \o (IF tasks THEN <<said("task", tasks)>> ELSE << >>)
                                       \o <<said("result", tasks)>>]
  /\ UNCHANGED <<conf, client, at, want, faults>>
TaskEnds(p) ==
  /\ procs[p].busy /\ procs' = [procs EXCEPT ![p].busy = FALSE]
  /\ UNCHANGED <<conf, client, told, at, want, turns, faults>>

\* handleMessage: a result with tasks behind it begins to wait for them; any other settles the turn.
Read(p) ==
  /\ procs[p].out # << >>
  /\ LET msg == Head(procs[p].out)
         read == [procs EXCEPT ![p].out = Tail(@)]
         ends == msg.kind = "result" /\ client.turn # 0 /\ ~client.tasks
     IN  /\ client' =
              CASE msg.kind = "init" -> [client EXCEPT !.session = procs[p].session, !.last = procs[p].session]
                [] msg.kind = "task" /\ client.turn # 0 -> [client EXCEPT !.tasks = TRUE]
                [] msg.kind = "result" /\ client.turn # 0 /\ client.tasks -> [client EXCEPT !.draining = TRUE]
                [] ends -> [client EXCEPT !.turn = 0]
                [] OTHER -> client
         /\ turns' = IF ends THEN [turns EXCEPT ![client.turn].outcome = "result", ![client.turn].by = <<msg>>]
                     ELSE turns
         /\ at' = IF ~ends THEN at ELSE IF conf.persistent THEN "idle" ELSE "after"
         /\ procs' = IF ends /\ ~conf.persistent /\ read[client.child].life = "up"
                     THEN [read EXCEPT ![client.child].life = "ending"] ELSE read
  /\ UNCHANGED <<conf, told, want, faults>>

\* drainAndContinue
Drained ==
  /\ client.turn # 0 /\ client.draining /\ (client.child # 0 => ~Child.busy)
  /\ client' = [client EXCEPT !.tasks = FALSE, !.draining = FALSE]
  /\ procs' = Sent(client.turn, "continue")
  /\ UNCHANGED <<conf, told, at, want, turns, faults>>

Rejected(outcome, then) ==
  /\ turns' = [turns EXCEPT ![client.turn].outcome = outcome]
  /\ client' = [client EXCEPT !.turn = 0] /\ at' = then
TimesOut ==
  /\ at = "await" /\ client.turn # 0 /\ Fault /\ Rejected("timeout", "idle")
  /\ UNCHANGED <<conf, procs, told, want>>

\* handleUnexpectedExit: the end of any child, also of one that was killed, rejects the turn there is.
Exit(p) ==
  /\ procs[p].life # "dead"
  /\ IF procs[p].life = "up" THEN Fault ELSE UNCHANGED faults
  /\ procs' = [procs EXCEPT ![p].life = "dead", ![p].inbox = << >>]
  /\ IF client.turn = 0 \/ at \in {"closing", "closed"} THEN UNCHANGED <<client, turns, at>>
     ELSE /\ turns' = [turns EXCEPT ![client.turn].outcome = "exit", ![client.turn].by = <<[proc |-> p]>>]
          /\ client' = [client EXCEPT !.turn = 0] /\ at' = "idle"
  /\ UNCHANGED <<conf, told, want>>

\* close(): at the end of the loop, also while a turn is open.
Close ==
  /\ at \in {"idle", "await"} /\ at' = "closing"
  /\ client' = [client EXCEPT !.turn = 0]
  /\ turns' = IF client.turn = 0 THEN turns ELSE [turns EXCEPT ![client.turn].outcome = "closed"]
  /\ procs' = Killed(client.child) /\ UNCHANGED <<conf, told, want, faults>>
Closed ==
  /\ at = "closing" /\ Dead
  /\ at' = "closed" /\ client' = Cleaned(client) /\ UNCHANGED <<conf, procs, told, want, turns, faults>>

Loop == (\E m \in Models, start \in BOOLEAN : Call(m, start)) \/ Close
Client == Restarted \/ Launch \/ Started \/ Write \/ Drained \/ ClosedAfterTurn \/ Closed
          \/ \E p \in DOMAIN procs : Read(p)
Process == \E p \in DOMAIN procs : Answer(p) \/ TaskEnds(p) \/ Exit(p)
Next == Loop \/ Client \/ Process \/ TimesOut
Spec == Init /\ [][Next]_vars

-----------------------------------------------------------------------------
TypeOK ==
  /\ client.child \in 0 .. Len(procs) /\ client.turn \in 0 .. This
  /\ client.ready => client.started
  /\ client.turn # 0 => at = "await" /\ client.turn = This
  /\ at \in {"idle", "restart", "launch", "grace", "write", "await", "after", "closing", "closed"}
  /\ \A p \in DOMAIN procs : procs[p].life \in {"up", "ending", "dead"} /\ procs[p].session \in 1 .. Prior
  /\ \A j \in DOMAIN turns :
       turns[j].outcome \in {"open", "failed", "result", "timeout", "exit", "closed"}

\* The turns before j that were given up while their child may still have been at work on them.
Left(j) == {i \in 1 .. j - 1 : turns[i].outcome \in {"timeout", "exit"}}

(* A turn gets the answer of the child it was written to, to its own       *)
(* prompt and, where tasks were left behind, to the continuation; another  *)
(* only after a turn of the same child was given up.                       *)
OwnAnswer ==
  \A j \in DOMAIN turns : turns[j].outcome = "result" =>
    LET msg == turns[j].by[1]
    IN  /\ msg.proc = turns[j].proc
        /\ \/ msg.turn = j /\ ~msg.tasks
           \/ \E i \in Left(j) : turns[i].proc = turns[j].proc

\* A turn fails for the end of its own child only, and runs under the model it asked for.
OwnChild ==
  \A j \in DOMAIN turns :
    /\ turns[j].outcome = "exit" => turns[j].by[1].proc = turns[j].proc
    /\ turns[j].proc # 0 => procs[turns[j].proc].model = turns[j].model

(* The first turn goes on with the session of an earlier run.  A           *)
(* persistent session holds every turn that was answered, over all the     *)
(* children it had; otherwise a turn starts from nothing, unless one       *)
(* before it was given up.                                                 *)
Answered == {j \in DOMAIN turns : turns[j].outcome = "result" /\ turns[j].by[1].turn = j}
SessionsKept ==
  \A j \in Answered :
    /\ j = 1 /\ conf.prior # 0 => procs[turns[j].proc].session = conf.prior
    /\ IF conf.persistent THEN {i \in Answered : i <= j} \subseteq turns[j].knew
       ELSE turns[j].knew = {j} \/ Left(j) # {}

\* What ClaudeSdk promises.
SdkKept == OwnAnswer /\ OwnChild /\ SessionsKept

=============================================================================
