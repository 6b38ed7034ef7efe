----------------------------- MODULE CodexServer -----------------------------
(***************************************************************************)
(* A turn of Codex (runner.ts, codex-app-server.ts): the loop starts one   *)
(* app server, speaks to it over a websocket and waits for the end of the  *)
(* turn.  An exit is retried once, what the transport cannot do falls back *)
(* to `codex exec`.  Exits and closes reach the client as late callbacks   *)
(* that do not say of which server they speak.                             *)
(***************************************************************************)
EXTENDS Integers, FiniteSets

CONSTANTS
  Calls,       \* turns the loop asks for, one after another: 1..n
  MaxServers,  \* bound on the servers spawned
  MaxFaults,   \* bound on crashes, broken sockets, refusals and timeouts
  RetryLimit   \* APP_SERVER_RETRY_LIMIT

ServerConstants == Calls \subseteq Nat \ {0} /\ {MaxServers, MaxFaults, RetryLimit} \subseteq Nat

None == 0
Servers == 1..MaxServers

VARIABLES
  client,   \* AppServerClient: started, ready, child, ws, and the turn that is waited for
  pend,     \* the request that waits for its answer
  ids,      \* requests sent so far
  proc,     \* proc[k]: "none", "up", "dying" or "dead"
  sock,     \* sock[k]: "none", "open", "ended" by the client, or "gone"
  due,      \* exits and closes that happened and were not yet called back
  turns,    \* the turns servers accepted: of which server, request and call, and whether they run
  spawner,  \* spawner[k]: the number of the client that spawned k
  inst,     \* the number of the present client; a closed one ignores its callbacks
  call, pc, tried, \* the present call, where it is, and its attempts
  at,       \* the server it connects to, or the turn it is about to register
  outcome,  \* outcome[c]: Open, Failed, ByExec, or the call whose turn it returned
  broken,   \* a server crashed, or its socket broke
  faults

vars == <<client, pend, ids, proc, sock, due, turns, spawner, inst, call, pc, tried, at, outcome, broken, faults>>
srv == <<proc, sock, due, turns, spawner, broken>>
run == <<call, tried, outcome>>

Open == 0
Failed == -1
ByExec == -2

Fresh == [started |-> FALSE, ready |-> FALSE, child |-> None, ws |-> None, turn |-> None]
NoRequest == [id |-> None, kind |-> "none"]

Init ==
  /\ client = Fresh /\ pend = NoRequest /\ ids = 0 /\ due = {} /\ turns = {} /\ inst = 1
  /\ proc = [k \in Servers |-> "none"] /\ sock = [k \in Servers |-> "none"]
  /\ spawner = [k \in Servers |-> None]
  /\ call = 0 /\ pc = "idle" /\ tried = 0 /\ at = None /\ outcome = [c \in Calls |-> Open] /\ broken = FALSE /\ faults = 0

Fault == faults < MaxFaults /\ faults' = faults + 1
Ended(s) == [k \in Servers |-> IF k = s /\ sock[k] = "open" THEN "ended" ELSE sock[k]]
Killed(s) == [k \in Servers |-> IF k = s /\ proc[k] = "up" THEN "dying" ELSE proc[k]]

-----------------------------------------------------------------------------
(* The call.                                                               *)

\* Where a start of the client leads: a started one is taken as it is, ready or not.
Starting == IF client.started THEN "turn" ELSE "spawn"

\* runCodexAgent.  With other options than before, the client is closed and another made.
Begin(c) ==
  /\ pc = "idle" /\ outcome[c] = Open /\ c = call + 1
  /\ call' = c /\ tried' = 0 /\ pc' = Starting
  /\ client' = [client EXCEPT !.started = TRUE]
  /\ UNCHANGED <<at, pend, ids, srv, inst, outcome, faults>>
BeginAfresh(c) ==
  /\ pc = "idle" /\ outcome[c] = Open /\ c = call + 1 /\ client.started
  /\ call' = c /\ tried' = 0 /\ pc' = "closing"
  /\ inst' = inst + 1 /\ client' = Fresh
  /\ sock' = Ended(client.ws) /\ proc' = Killed(client.child)
  /\ UNCHANGED <<broken, at, pend, ids, due, turns, spawner, outcome, faults>>
\* close() waits for the exit of the child it had.
Closed ==
  /\ pc = "closing" /\ \A k \in Servers : spawner[k] < inst => proc[k] # "dying"
  /\ pc' = "spawn" /\ client' = [client EXCEPT !.started = TRUE]
  /\ UNCHANGED <<at, pend, ids, srv, inst, run, faults>>

Spawn(k) ==
  /\ pc = "spawn" /\ proc[k] = "none" /\ \A j \in Servers : j < k => proc[j] # "none"
  /\ proc' = [proc EXCEPT ![k] = "up"] /\ spawner' = [spawner EXCEPT ![k] = inst]
  /\ client' = [client EXCEPT !.child = k] /\ pc' = "connect" /\ at' = k
  /\ UNCHANGED <<broken, pend, ids, sock, due, turns, inst, run, faults>>

\* Mutant: request numbers start over with every connection.
NextId_PerServer == IF pc = "connect" THEN 1 ELSE 2
NextId == ids + 1
Send(kind) == pend' = [id |-> NextId, kind |-> kind] /\ ids' = ids + 1

Connect(k) ==
  /\ pc = "connect" /\ at = k /\ proc[k] = "up"
  /\ sock' = [sock EXCEPT ![k] = "open"]
  /\ client' = [client EXCEPT !.ws = k] /\ pc' = "init"
  /\ Send("initialize")
  /\ UNCHANGED <<broken, at, proc, due, turns, spawner, inst, run, faults>>

\* The catch of start: what was begun is closed and killed, and the turn goes to `codex exec`.
GiveUpStart ==
  /\ sock' = Ended(client.ws) /\ proc' = Killed(client.child)
  /\ client' = Fresh /\ pend' = NoRequest /\ pc' = "exec"

\* Forty attempts in vain: the server is gone, or deaf.
ConnectFails(k) ==
  /\ pc = "connect" /\ at = k
  /\ IF proc[k] = "up" THEN Fault ELSE UNCHANGED faults
  /\ GiveUpStart
  /\ UNCHANGED <<broken, at, ids, due, turns, spawner, inst, run>>

\* runTurnExclusive: a client that is not ready starts first, a closed one cannot.
Turn ==
  /\ pc = "turn"
  /\ IF client.child # None /\ client.ready
     THEN Send("turn/start") /\ pc' = "asked" /\ UNCHANGED client
     ELSE IF client.started THEN pc' = "exec" /\ UNCHANGED <<client, pend, ids>>
     ELSE pc' = "spawn" /\ client' = [client EXCEPT !.started = TRUE] /\ UNCHANGED <<pend, ids>>
  /\ UNCHANGED <<at, srv, inst, run, faults>>

\* The turn of the answer is registered once the continuation has run.
Register(t) ==
  /\ pc = "register" /\ at = t.id
  /\ client' = [client EXCEPT !.turn = t.id] /\ pc' = "waiting"
  /\ UNCHANGED <<at, pend, ids, srv, inst, run, faults>>

Finish(word) == outcome' = [outcome EXCEPT ![call] = word]
MayRetry == tried < RetryLimit

\* What a rejected turn leads to: one retry after an exit, then the fallback.
Unexpected == IF MayRetry THEN pc' = "retry" /\ tried' = tried + 1 ELSE pc' = "exec" /\ UNCHANGED tried
Retry ==
  /\ pc = "retry"
  /\ pc' = Starting /\ client' = [client EXCEPT !.started = TRUE]
  /\ UNCHANGED <<at, pend, ids, srv, inst, call, tried, outcome, faults>>
\* A run of `codex exec` takes minutes: a child that was killed before it is gone by its end.
Exec ==
  /\ pc = "exec" /\ due = {} /\ \A k \in Servers : proc[k] # "dying" /\ sock[k] # "ended"
  /\ Finish(ByExec) /\ pc' = "idle"
  /\ UNCHANGED <<at, client, pend, ids, srv, inst, call, tried, faults>>

\* AGENT_TURN_TIMEOUT_MS: the turn may go on at the server, nobody waits for it any more.
TimesOut ==
  /\ pc \in {"asked", "waiting"} /\ Fault
  /\ client' = [client EXCEPT !.turn = None] /\ pend' = NoRequest
  /\ Finish(Failed) /\ pc' = "idle"
  /\ UNCHANGED <<at, ids, srv, inst, call, tried>>

-----------------------------------------------------------------------------
(* Callbacks of the client.                                                *)

Heard(k) == spawner[k] = inst

\* handleUnexpectedExit: whichever server spoke, the present state is dropped, and no child killed.
DropState ==
  /\ client' = [Fresh EXCEPT !.turn = None]
  /\ pend' = NoRequest
  /\ sock' = Ended(client.ws)
Noticed(e) ==
  /\ e \in due /\ due' = due \ {e}
  /\ IF ~Heard(e[1]) THEN UNCHANGED <<client, pend, sock, pc, tried>>
     ELSE /\ DropState
          /\ CASE pc = "init"               -> pc' = "exec" /\ UNCHANGED tried
               [] pc \in {"asked", "waiting"} -> Unexpected
               [] OTHER                      -> UNCHANGED <<pc, tried>>
  /\ UNCHANGED <<broken, at, ids, proc, turns, spawner, inst, call, outcome, faults>>

\* A server answers a request that reached it; what a closing socket still holds is read.
Reads(k) == proc[k] \in {"up", "dying"} /\ sock[k] \in {"open", "ended"}
Initialized(k) ==
  /\ Reads(k) /\ pend.kind = "initialize" /\ client.ws = k
  /\ pend' = NoRequest /\ client' = [client EXCEPT !.ready = TRUE] /\ pc' = "turn"
  /\ UNCHANGED <<at, ids, srv, inst, run, faults>>
RefusesInit(k) ==
  /\ Reads(k) /\ pend.kind = "initialize" /\ client.ws = k /\ Fault
  /\ GiveUpStart
  /\ UNCHANGED <<broken, at, ids, due, turns, spawner, inst, run>>
\* The request is taken; its answer follows.
Accept(k) ==
  /\ Reads(k) /\ pend.kind = "turn/start" /\ client.ws = k /\ \A t \in turns : t.req # pend.id \/ t.server # k
  /\ turns' = turns \cup {[id |-> Cardinality(turns) + 1, server |-> k, req |-> pend.id, call |-> call, state |-> "taken"]}
  /\ UNCHANGED <<broken, at, client, pend, ids, proc, sock, due, spawner, inst, pc, run, faults>>
RefusesTurn(k) ==
  /\ Reads(k) /\ pend.kind = "turn/start" /\ client.ws = k /\ Fault
  /\ \A t \in turns : t.req # pend.id \/ t.server # k
  /\ pend' = NoRequest /\ pc' = "exec"
  /\ UNCHANGED <<at, client, ids, srv, inst, run>>
\* The answer of a turn; nobody waits for a number that is not pending.
Answered(t) ==
  /\ t \in turns /\ t.state = "taken" /\ Reads(t.server) /\ Heard(t.server)
  /\ turns' = (turns \ {t}) \cup {[t EXCEPT !.state = "runs"]}
  /\ IF pend = [id |-> t.req, kind |-> "turn/start"]
     THEN pend' = NoRequest /\ pc' = "register" /\ at' = t.id
     ELSE UNCHANGED <<pend, pc, at>>
  /\ UNCHANGED <<broken, client, ids, proc, sock, due, spawner, inst, run, faults>>
\* turn/completed; it is lost on a client that has not registered the turn yet.
Completes(t) ==
  /\ t \in turns /\ t.state = "runs" /\ Reads(t.server)
  /\ turns' = (turns \ {t}) \cup {[t EXCEPT !.state = "over"]}
  /\ IF Heard(t.server) /\ client.turn = t.id
     THEN /\ client' = [client EXCEPT !.turn = None]
          /\ Finish(t.call) /\ pc' = "idle"
     ELSE UNCHANGED <<client, outcome, pc>>
  /\ UNCHANGED <<broken, at, pend, ids, proc, sock, due, spawner, inst, call, tried, faults>>

-----------------------------------------------------------------------------
(* The processes.                                                          *)

\* The end of a process closes its pipes, and its socket.
Over(k) ==
  /\ proc' = [proc EXCEPT ![k] = "dead"]
  /\ due' = due \cup {<<k, "exit">>} \cup (IF sock[k] \in {"open", "ended"} THEN {<<k, "close">>} ELSE {})
  /\ sock' = [sock EXCEPT ![k] = IF @ = "none" THEN "none" ELSE "gone"]
  /\ UNCHANGED <<client, pend, ids, turns, spawner, inst, pc, at, run>>
Dies(k) == proc[k] = "dying" /\ Over(k) /\ UNCHANGED <<broken, faults>>
Crashes(k) == proc[k] = "up" /\ Fault /\ Over(k) /\ broken' = TRUE
\* A closed socket calls back too; a broken one leaves the server running.
SocketCloses(k) ==
  /\ sock[k] = "ended"
  /\ sock' = [sock EXCEPT ![k] = "gone"] /\ due' = due \cup {<<k, "close">>}
  /\ UNCHANGED <<broken, at, client, pend, ids, proc, turns, spawner, inst, pc, run, faults>>
SocketBreaks(k) ==
  /\ sock[k] = "open" /\ Fault /\ broken' = TRUE
  /\ sock' = [sock EXCEPT ![k] = "gone"] /\ due' = due \cup {<<k, "close">>}
  /\ UNCHANGED <<at, client, pend, ids, proc, turns, spawner, inst, pc, run>>

Next ==
  \/ \E c \in Calls : Begin(c) \/ BeginAfresh(c)
  \/ Closed \/ Turn \/ Retry \/ Exec \/ TimesOut
  \/ \E k \in Servers : Spawn(k) \/ Connect(k) \/ ConnectFails(k) \/ Initialized(k) \/ RefusesInit(k)
                        \/ Accept(k) \/ RefusesTurn(k) \/ Dies(k) \/ Crashes(k) \/ SocketCloses(k) \/ SocketBreaks(k)
  \/ \E t \in turns : Register(t) \/ Answered(t) \/ Completes(t)
  \/ \E e \in due : Noticed(e)

Spec == Init /\ [][Next]_vars

-----------------------------------------------------------------------------
Words == {"idle", "closing", "spawn", "init", "turn", "asked", "register", "waiting", "retry", "exec", "connect"}
TypeOK ==
  /\ client.child \in Servers \cup {None} /\ client.ws \in Servers \cup {None}
  /\ {client.started, client.ready} \subseteq BOOLEAN
  /\ pend.kind \in {"none", "initialize", "turn/start"} /\ ids \in Nat
  /\ proc \in [Servers -> {"none", "up", "dying", "dead"}]
  /\ sock \in [Servers -> {"none", "open", "ended", "gone"}]
  /\ broken \in BOOLEAN /\ due \subseteq Servers \X {"exit", "close"} /\ faults \in 0..MaxFaults
  /\ pc \in Words /\ at \in Nat
  /\ call \in Calls \cup {0} /\ tried \in 0..RetryLimit

\* A call returns the result of a turn of its own prompt, though answers and ends of turns of
\* another attempt, of a call that timed out or of an earlier server still arrive.
OwnResult == \A c \in Calls : outcome[c] \in {Open, Failed, ByExec, c}

\* One call puts its prompt to an app server at most once more than the retry limit.
BegunWithinLimit == \A c \in Calls : Cardinality({t \in turns : t.call = c}) <= RetryLimit + 1

\* A server that runs is the one the client holds, so that the exit of the loop kills it, as long
\* as no server crashed and no socket broke on its own.
NoStrayServer == ~broken => \A k \in Servers : proc[k] = "up" => client.child = k

ServerKept == OwnResult /\ BegunWithinLimit /\ NoStrayServer
=============================================================================
