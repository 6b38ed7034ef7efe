---------------------------- MODULE BridgeWorker ----------------------------
(***************************************************************************)
(* The detached bridge worker (bridge-runtime.ts): who sends a message     *)
(* makes sure that one runs, by a pid file without a lock; a worker that   *)
(* finds another's pid in it retires.  A worker drains the journal, sleeps *)
(* until the journal changes or its time is up, and drains again.          *)
(***************************************************************************)
EXTENDS Integers, Sequences, FiniteSets

CONSTANTS
  Messages,     \* Seq: the messages in the order in which a read returns them
  Target,       \* Target[i]: the agent message i is for
  Remote,       \* the run has a Codex app server
  MaxFaults,    \* bound on crashes and refused spawns
  MaxVersion    \* bound on the lines of the journal

Ids == DOMAIN Messages
Workers == Ids        \* every call spawns at most one
NoPid == 0

WorkerConstants ==
  /\ Messages \in Seq(Nat) /\ Target \in [Ids -> {"claude", "codex"}]
  /\ Remote \in BOOLEAN /\ MaxFaults \in Nat /\ MaxVersion \in Nat

VARIABLES
  version,    \* the version of bridge.jsonl: it grows with every line
  pending,    \* the messages nobody has settled
  noted,      \* pending messages whose target was nudged not long ago
  file,       \* bridge-worker.json
  active,     \* the run is in an active state
  sender,     \* sender[i]: where the send_message call of i is
  worker,     \* worker[w]: where a worker is, and the versions it took
  faults

vars == <<version, pending, noted, file, active, sender, worker, faults>>

Unborn == [pc |-> "unborn", inspected |-> 0, observed |-> 0, delivered |-> FALSE, wait |-> "startup"]
Alive(w) == worker[w].pc \notin {"unborn", "gone"}

Init ==
  /\ version = 0 /\ pending = {} /\ noted = {} /\ file = NoPid /\ active = TRUE /\ faults = 0
  /\ sender = [i \in Ids |-> "idle"]
  /\ worker = [w \in Workers |-> Unborn]

\* Lines are appended; beyond the bound the journal is not followed.
Grow(lines) == version + lines <= MaxVersion /\ version' = version + lines

-----------------------------------------------------------------------------
(* A call: the message is in the journal, then a worker is looked for.     *)

Enqueue(i) ==
  /\ sender[i] = "idle" /\ active /\ Grow(1)
  /\ pending' = pending \cup {i}
  /\ sender' = [sender EXCEPT ![i] = "ensure"]
  /\ UNCHANGED <<noted, file, active, worker, faults>>

Ensure(i) ==
  /\ sender[i] = "ensure"
  /\ sender' = [sender EXCEPT ![i] =
       IF ~active THEN "queued"
       ELSE IF file # NoPid /\ (IF file = NoPid THEN FALSE ELSE Alive(file)) THEN "accepted" ELSE "clear"]
  /\ UNCHANGED <<version, pending, noted, file, active, worker, faults>>

\* Without a pid: whatever the file holds by now is removed.
Clear(i) ==
  /\ sender[i] = "clear"
  /\ file' = NoPid
  /\ sender' = [sender EXCEPT ![i] = "spawn"]
  /\ UNCHANGED <<version, pending, noted, active, worker, faults>>

Spawn(i) ==
  /\ sender[i] = "spawn"
  /\ worker' = [worker EXCEPT ![i].pc = "claim"]
  /\ sender' = [sender EXCEPT ![i] = "write"]
  /\ UNCHANGED <<version, pending, noted, file, active, faults>>
SpawnFails(i) ==
  /\ sender[i] = "spawn" /\ faults < MaxFaults
  /\ faults' = faults + 1
  /\ sender' = [sender EXCEPT ![i] = "queued"]
  /\ UNCHANGED <<version, pending, noted, file, active, worker>>

WritePid(i) ==
  /\ sender[i] = "write"
  /\ file' = i
  /\ sender' = [sender EXCEPT ![i] = "accepted"]
  /\ UNCHANGED <<version, pending, noted, active, worker, faults>>

-----------------------------------------------------------------------------
(* The loop of a worker.                                                   *)

ReadClaim(w) ==
  /\ worker[w].pc = "claim"
  /\ worker' = [worker EXCEPT ![w].pc = IF file \notin {NoPid, w} THEN "exit" ELSE "inspect",
                               ![w].observed = 0]
  /\ UNCHANGED <<version, pending, noted, file, active, sender, faults>>

Inspect(w) ==
  /\ worker[w].pc = "inspect"
  /\ worker' = [worker EXCEPT ![w].pc = IF active THEN "drain" ELSE "exit",
                               ![w].inspected = IF active THEN version ELSE 0]
  /\ UNCHANGED <<version, pending, noted, file, active, sender, faults>>

For(t) == {i \in pending : Target[i] = t}
Due(t) == For(t) \ noted # {}

Drained(w, delivered) == worker' = [worker EXCEPT ![w].pc = "observe", ![w].delivered = delivered]

\* The app server takes the first message for Codex.
Deliver(w) ==
  /\ worker[w].pc = "drain" /\ Remote /\ For("codex") # {} /\ Grow(1)
  /\ pending' = pending \ {CHOOSE i \in For("codex") : \A j \in For("codex") : i <= j}
  /\ noted' = noted \cap pending'
  /\ Drained(w, TRUE)
  /\ UNCHANGED <<file, active, sender, faults>>

\* Whom the worker may nudge: Codex when its app server refused, otherwise only
\* the target of the first message that has a pane and no app server.
Nudgeable ==
  LET Paned == {i \in pending : ~(Target[i] = "codex" /\ Remote)}
  IN  (IF Remote /\ For("codex") # {} THEN {"codex"} ELSE {})
        \cup {Target[i] : i \in {k \in Paned : \A j \in Paned : k <= j}}

Nudge(w) ==
  /\ worker[w].pc = "drain"
  /\ \E t \in Nudgeable :
       /\ Due(t) /\ Grow(Cardinality(For(t)))
       /\ noted' = noted \cup For(t)
  /\ Drained(w, TRUE)
  /\ UNCHANGED <<pending, file, active, sender, faults>>

\* Nothing pending, nothing due, a pane that is not ready, a claim that is taken.
Nothing(w) ==
  /\ worker[w].pc = "drain"
  /\ Drained(w, FALSE)
  /\ UNCHANGED <<version, pending, noted, file, active, sender, faults>>

Observe(w) ==
  /\ worker[w].pc = "observe"
  /\ worker' = [worker EXCEPT
       ![w].observed = version, ![w].inspected = 0,
       ![w].pc = IF ~worker[w].delivered /\ version # worker[w].inspected THEN "claim" ELSE "policy"]
  /\ UNCHANGED <<version, pending, noted, file, active, sender, faults>>

WaitPolicy(w) ==
  /\ worker[w].pc = "policy"
  /\ worker' = [worker EXCEPT
       ![w].pc = "arm", ![w].delivered = FALSE,
       ![w].wait = IF worker[w].delivered THEN "settle" ELSE IF pending # {} THEN "retry" ELSE "heartbeat"]
  /\ UNCHANGED <<version, pending, noted, file, active, sender, faults>>

\* Mutant: the wait is for a change after the version it finds.
Arm_Afresh(w) ==
  /\ worker[w].pc = "arm"
  /\ worker' = [worker EXCEPT ![w].pc = "sleep", ![w].observed = version]
  /\ UNCHANGED <<version, pending, noted, file, active, sender, faults>>
\* The wait is for a version other than the one that was observed.
Arm(w) ==
  /\ worker[w].pc = "arm"
  /\ worker' = [worker EXCEPT ![w].pc = "sleep"]
  /\ UNCHANGED <<version, pending, noted, file, active, sender, faults>>

\* The watcher, the version probe, or the time of the wait.
Wake(w) ==
  /\ worker[w].pc = "sleep"
  /\ worker' = [worker EXCEPT ![w] = [Unborn EXCEPT !.pc = "claim"]]
  /\ UNCHANGED <<version, pending, noted, file, active, sender, faults>>

\* On the way out a worker removes the file if it holds its own pid: a read, then an unlink.
Leave(w) ==
  /\ worker[w].pc = "exit"
  /\ worker' = [worker EXCEPT ![w].pc = IF file = w THEN "unlink" ELSE "gone"]
  /\ UNCHANGED <<version, pending, noted, file, active, sender, faults>>
Unlink(w) ==
  /\ worker[w].pc = "unlink"
  /\ file' = NoPid
  /\ worker' = [worker EXCEPT ![w].pc = "gone"]
  /\ UNCHANGED <<version, pending, noted, active, sender, faults>>

-----------------------------------------------------------------------------
(* The agents, the run and faults.                                         *)

\* Mutant: the notices of settled messages are kept.
Receive_NotesKept(t) ==
  /\ For(t) # {} /\ Grow(Cardinality(For(t)))
  /\ pending' = pending \ For(t)
  /\ UNCHANGED <<noted, file, active, sender, worker, faults>>

\* An agent calls receive_messages, nudged or not.
Receive(t) ==
  /\ For(t) # {} /\ Grow(Cardinality(For(t)))
  /\ pending' = pending \ For(t)
  /\ noted' = noted \ For(t)
  /\ UNCHANGED <<file, active, sender, worker, faults>>
NoticeAges ==
  /\ noted # {} /\ noted' = {}
  /\ UNCHANGED <<version, pending, file, active, sender, worker, faults>>
RunEnds ==
  /\ active /\ active' = FALSE
  /\ UNCHANGED <<version, pending, noted, file, sender, worker, faults>>
WorkerDies(w) ==
  /\ Alive(w) /\ faults < MaxFaults
  /\ faults' = faults + 1
  /\ worker' = [worker EXCEPT ![w] = [Unborn EXCEPT !.pc = "gone"]]
  /\ UNCHANGED <<version, pending, noted, file, active, sender>>

Call(i) == Enqueue(i) \/ Ensure(i) \/ Clear(i) \/ Spawn(i) \/ SpawnFails(i) \/ WritePid(i)
Run(w) == \/ ReadClaim(w) \/ Inspect(w) \/ Deliver(w) \/ Nudge(w) \/ Nothing(w)
          \/ Observe(w) \/ WaitPolicy(w) \/ Arm(w) \/ Wake(w) \/ Leave(w) \/ Unlink(w)
Next ==
  \/ \E i \in Ids : Call(i)
  \/ \E w \in Workers : Run(w) \/ WorkerDies(w)
  \/ \E t \in {"claude", "codex"} : Receive(t)
  \/ NoticeAges \/ RunEnds

Spec == Init /\ [][Next]_vars

\* Calls go on once their message is in; a worker that is up goes on.
Fairness ==
  /\ \A i \in Ids : WF_vars(sender[i] # "idle" /\ Call(i))
  /\ \A w \in Workers : WF_vars(Run(w))
FairSpec == Spec /\ Fairness

-----------------------------------------------------------------------------
TypeOK ==
  /\ version \in 0..MaxVersion /\ pending \subseteq Ids /\ noted \subseteq pending
  /\ file \in Workers \cup {NoPid} /\ active \in BOOLEAN /\ faults \in 0..MaxFaults
  /\ sender \in [Ids -> {"idle", "ensure", "clear", "spawn", "write", "queued", "accepted"}]
  /\ \A w \in Workers :
       /\ worker[w].pc \in {"unborn", "claim", "inspect", "drain", "observe", "policy", "arm", "sleep",
                            "exit", "unlink", "gone"}
       /\ worker[w].wait \in {"startup", "settle", "retry", "heartbeat"}
       /\ worker[w].inspected <= version /\ worker[w].observed <= version

\* A worker sleeps for the five minutes of the heartbeat, with no change of the journal to wake
\* it, only when nothing is pending: a message appended between its look at the journal and its
\* wait either changed the version it waits on or shortened the wait.
SleepsOnlyWhenEmpty ==
  \A w \in Workers : worker[w].pc = "sleep" /\ worker[w].wait = "heartbeat"
                     /\ worker[w].observed = version => pending = {}

\* As long as nobody has crashed and no call is about to spawn or to write a pid, of two workers
\* that were started at most one is not on its way to retire: who is not in the file finds the
\* other's pid there.  A third one may take its own pid out of the file: the other two then stay.
Retiring(w) == worker[w].pc \in {"exit", "unlink"} \/ file \notin {NoPid, w}
Started == {w \in Workers : worker[w].pc # "unborn"}
OneWorkerStays ==
  faults = 0 /\ (\A i \in Ids : sender[i] \notin {"clear", "spawn", "write"})
             /\ Cardinality(Started) <= 2 =>
    Cardinality({w \in Started : Alive(w) /\ ~Retiring(w)}) <= 1

WorkerKept == SleepsOnlyWhenEmpty /\ OneWorkerStays

\* While the run is active and a message was accepted, reconciliation does not cease.
ReconciledAgain ==
  []<>(\/ ~active \/ \A i \in Ids : sender[i] # "accepted" \/ faults > 0
       \/ \E w \in Workers : worker[w].pc = "policy")
=============================================================================
