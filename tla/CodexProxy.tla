----------------------------- MODULE CodexProxy -----------------------------
(***************************************************************************)
(* The websocket proxy between the Codex TUI and its app server            *)
(* (codex-tmux-proxy.ts): requests get an id of the proxy's own and their  *)
(* answers go back to the connection that asked.  It survives the loss of  *)
(* the app server and of the TUI, and ends with the run or its session.    *)
(***************************************************************************)
EXTENDS Integers, FiniteSets

CONSTANTS
  Asks,           \* ids a TUI gives its requests; a new connection starts over
  MaxConns,       \* bound on the connections of the TUI
  MaxLinks,       \* bound on the connections to the app server
  Sessions,       \* names of tmux sessions the manifest may be bound to
  First,          \* the session of the launch
  Unbound,        \* no session
  Confirmations,  \* observations before a session counts as dead
  ConfirmAge,     \* seconds they must span
  Grace,          \* seconds a session may take to appear
  MaxTime         \* bound on the seconds followed

ProxyConstants ==
  /\ First \in Sessions /\ Unbound \notin Sessions
  /\ {MaxConns, MaxLinks, Confirmations, ConfirmAge, Grace, MaxTime} \subseteq Nat

VARIABLES
  phase,     \* "starting", "up", "stopped" or "failed"
  why,       \* why it stopped
  link,      \* the upstream: its number and "none", "dialing", "open" or "lost"
  timer,     \* a reconnect is scheduled
  tui,       \* the current connection of the TUI, and whether its socket is open
  routes,    \* the requests that wait for an answer of the app server
  wire,      \* those the app server holds
  asked,     \* asked[k][c]: what became of request c of connection k
  astray,    \* an answer reached a request it does not belong to
  reload,    \* the link on which an MCP reload is in flight, or 0
  run,       \* manifest.json: active or not, and the session it names
  alive,     \* the sessions that exist
  evidence,  \* observeTmuxLiveness: dead observations in a row, since when, ever seen live
  quiet,     \* since when every observation said dead
  judged,    \* the session a stopping proxy found dead, before it writes the manifest
  now

vars == <<phase, why, link, timer, tui, routes, wire, asked, astray, reload, run, alive,
          evidence, quiet, judged, now>>

Conns == 1..MaxConns
NoEvidence == [dead |-> 0, since |-> 0, saw |-> FALSE]
Late == MaxTime + 1

Init ==
  /\ phase = "starting" /\ why = "none" /\ timer = FALSE /\ astray = FALSE /\ reload = 0 /\ now = 0
  /\ link = [gen |-> 1, state |-> "dialing"]
  /\ tui = [conn |-> 0, open |-> FALSE] /\ routes = {} /\ wire = {}
  /\ asked = [k \in Conns |-> [c \in Asks |-> "no"]]
  /\ run = [active |-> TRUE, session |-> First] /\ alive = {}
  /\ evidence = NoEvidence /\ quiet = Late /\ judged = Unbound

Going == phase = "up" /\ judged = Unbound
Others == UNCHANGED <<run, alive, now>>

-----------------------------------------------------------------------------
(* The end of the proxy.                                                   *)

\* The link, the TUI and the timers go; a dial that is under way stays.
Stop(reason) ==
  /\ phase' = "stopped" /\ why' = reason /\ timer' = FALSE /\ reload' = 0
  /\ tui' = [tui EXCEPT !.open = FALSE]
  /\ link' = IF link.state = "dialing" THEN link ELSE [link EXCEPT !.state = "none"]

\* What a look at the session says: a failing tmux says nothing.
Readings(s) == {IF s \in alive THEN "live" ELSE "dead", "unknown"}
Sight(r) == IF run.session = Unbound THEN r = "dead" ELSE r \in Readings(run.session)

Observed(r) ==
  CASE r = "live"    -> [dead |-> 0, since |-> 0, saw |-> TRUE]
    [] r = "unknown" -> [dead |-> 0, since |-> 0, saw |-> evidence.saw]
    [] r = "dead"    -> IF ~evidence.saw /\ now < Grace THEN evidence
                        ELSE [evidence EXCEPT !.dead = @ + 1, !.since = IF evidence.dead = 0 THEN now ELSE @]

\* stopReason: the evidence grows with every look, whoever looks.
Look(r) ==
  IF ~run.active THEN r = "dead" /\ UNCHANGED <<evidence, quiet>>
  ELSE /\ Sight(r)
       /\ evidence' = Observed(r)
       /\ quiet' = IF r # "dead" THEN Late ELSE IF quiet = Late THEN now ELSE quiet
StopReason ==
  IF ~run.active THEN "inactive-run"
  ELSE IF evidence'.dead >= Confirmations /\ now - evidence'.since >= ConfirmAge THEN "dead-tmux"
  ELSE "none"

\* reconcileDeadTmuxManifest looks again for itself, and may not be able to tell.
FoundDead == run.active /\ run.session # Unbound /\ "dead" \in Readings(run.session) /\ judged' = run.session

\* The poll of every second.
Poll(r) ==
  /\ Going /\ now < MaxTime
  /\ now' = now + 1
  /\ Look(r)
  /\ CASE StopReason = "none"         -> UNCHANGED <<phase, why, link, timer, tui, reload, judged>>
       [] StopReason = "inactive-run" -> Stop("inactive-run") /\ UNCHANGED judged
       [] StopReason = "dead-tmux"    ->
            \/ FoundDead /\ UNCHANGED <<phase, why, link, timer, tui, reload>>
            \/ Stop("dead-tmux") /\ UNCHANGED judged
  /\ UNCHANGED <<routes, wire, asked, astray, run, alive>>

\* reconcileDeadTmuxManifest: the manifest is read again under its lock.
Reconciles(s) == run.active /\ run.session = s

WriteManifest ==
  /\ judged # Unbound
  /\ run' = IF Reconciles(judged) THEN [active |-> FALSE, session |-> Unbound] ELSE run
  /\ judged' = Unbound
  /\ Stop(IF why = "none" THEN "dead-tmux" ELSE why)
  /\ UNCHANGED <<routes, wire, asked, astray, alive, evidence, quiet, now>>

\* A signal: the manifest is reconciled if the session is dead, and the proxy stops in any case.
Signal ==
  /\ phase \in {"starting", "up"} /\ judged = Unbound
  /\ \/ FoundDead /\ why' = "signal" /\ UNCHANGED <<phase, link, timer, tui, reload>>
     \/ Stop("signal") /\ UNCHANGED judged
  /\ UNCHANGED <<routes, wire, asked, astray, evidence, quiet>> /\ Others

\* A request to shut down is refused while the session is live, or may be.
Shutdown(r) ==
  /\ Going
  /\ run.active /\ run.session # Unbound => Sight(r) /\ r = "dead"
  /\ Stop("requested")
  /\ UNCHANGED <<routes, wire, asked, astray, judged, evidence, quiet>> /\ Others

-----------------------------------------------------------------------------
(* The app server.                                                         *)

\* Connected and initialized.  Only the first dial looks whether it was stopped meanwhile.
Attach ==
  /\ link.state = "dialing" /\ judged = Unbound
  /\ IF phase = "stopped" /\ link.gen = 1 THEN link' = [link EXCEPT !.state = "none"] /\ UNCHANGED phase
     ELSE link' = [link EXCEPT !.state = "open"] /\ phase' = IF phase = "starting" THEN "up" ELSE phase
  /\ UNCHANGED <<why, timer, tui, routes, wire, asked, astray, reload, evidence, quiet, judged>> /\ Others

\* Mutant: the failed attempt was the last.
DialFails_Last ==
  /\ link.state = "dialing" /\ judged = Unbound
  /\ link' = [link EXCEPT !.state = "none"]
  /\ phase' = IF phase = "starting" THEN "failed" ELSE phase
  /\ UNCHANGED <<why, timer, tui, routes, wire, asked, astray, reload, evidence, quiet, judged>> /\ Others
DialFails ==
  /\ link.state = "dialing" /\ judged = Unbound
  /\ link' = [link EXCEPT !.state = "none"]
  /\ phase' = IF phase = "starting" THEN "failed" ELSE phase
  /\ timer' = (phase = "up")
  /\ UNCHANGED <<why, tui, routes, wire, asked, astray, reload, evidence, quiet, judged>> /\ Others

\* The socket breaks; what was under way on it is lost.
Breaks ==
  /\ link.state = "open"
  /\ link' = [link EXCEPT !.state = "lost"] /\ wire' = {}
  /\ UNCHANGED <<phase, why, timer, tui, routes, asked, astray, reload, evidence, quiet, judged>> /\ Others

\* failPendingRoutes: the current connection gets an error for each.
Refused == {<<r.conn, r.client>> : r \in {s \in routes : s.conn = tui.conn}}
Told(pairs, word) ==
  [k \in Conns |-> [c \in Asks |-> IF <<k, c>> \in pairs THEN word ELSE asked[k][c]]]

\* The close is noticed: errors, then the end or another attempt.
Disconnect(r) ==
  /\ link.state = "lost" /\ judged = Unbound
  /\ IF phase = "up"
     THEN /\ asked' = IF tui.open THEN Told(Refused, "refused") ELSE asked
          /\ routes' = {}
          /\ Look(r)
          /\ IF StopReason = "none"
             THEN /\ link' = [link EXCEPT !.state = "none"] /\ timer' = TRUE /\ reload' = 0
                  /\ UNCHANGED <<phase, why, tui>>
             ELSE Stop(StopReason)
     ELSE link' = [link EXCEPT !.state = "none"]
          /\ UNCHANGED <<asked, routes, evidence, quiet, phase, why, timer, tui, reload>>
  /\ UNCHANGED <<wire, astray, judged>> /\ Others

TryReconnect(r) ==
  /\ Going /\ timer /\ link.gen < MaxLinks
  /\ Look(r)
  /\ IF StopReason = "none"
     THEN /\ timer' = FALSE /\ link' = [gen |-> link.gen + 1, state |-> "dialing"]
          /\ UNCHANGED <<phase, why, tui, reload>>
     ELSE Stop(StopReason)
  /\ UNCHANGED <<routes, wire, asked, astray, judged>> /\ Others

-----------------------------------------------------------------------------
(* The TUI.                                                                *)

\* A new connection takes over; frames of the older one are ignored from here on.
TuiOpens ==
  /\ Going /\ tui.conn < MaxConns
  /\ tui' = [conn |-> tui.conn + 1, open |-> TRUE]
  /\ UNCHANGED <<phase, why, link, timer, routes, wire, asked, astray, reload, evidence, quiet, judged>> /\ Others
TuiCloses ==
  /\ Going /\ tui.open
  /\ tui' = [tui EXCEPT !.open = FALSE]
  /\ UNCHANGED <<phase, why, link, timer, routes, wire, asked, astray, reload, evidence, quiet, judged>> /\ Others

\* A request goes up under an id of the proxy, or is refused while there is no upstream.
Ask(c) ==
  /\ Going /\ tui.open /\ asked[tui.conn][c] = "no"
  /\ LET r == [conn |-> tui.conn, client |-> c]
     IN  IF link.state \in {"none", "dialing"}
         THEN /\ asked' = [asked EXCEPT ![tui.conn][c] = "refused"]
              /\ UNCHANGED <<routes, wire>>
         ELSE /\ asked' = [asked EXCEPT ![tui.conn][c] = "asked"]
              /\ routes' = routes \cup {r}
              /\ wire' = IF link.state = "open" THEN wire \cup {r} ELSE wire
  /\ UNCHANGED <<phase, why, link, timer, tui, astray, reload, evidence, quiet, judged>> /\ Others

ForTui(r) == tui.open /\ r.conn = tui.conn

\* An answer: the route goes, and the frame reaches the TUI under the id of the request.
Answer(r) ==
  /\ Going /\ link.state = "open" /\ r \in wire
  /\ wire' = wire \ {r} /\ routes' = routes \ {r}
  /\ IF r \in routes /\ ForTui(r)
     THEN /\ asked' = [asked EXCEPT ![tui.conn][r.client] = "answered"]
          /\ astray' = (astray \/ r.conn # tui.conn \/ asked[tui.conn][r.client] # "asked")
     ELSE UNCHANGED <<asked, astray>>
  /\ UNCHANGED <<phase, why, link, timer, tui, reload, evidence, quiet, judged>> /\ Others

\* A loop-bridge call that found its transport closed reloads the MCP servers, one reload at a time.
BridgeCallClosed ==
  /\ Going /\ link.state = "open" /\ reload = 0
  /\ reload' = link.gen
  /\ UNCHANGED <<phase, why, link, timer, tui, routes, wire, asked, astray, evidence, quiet, judged>> /\ Others
\* Its answer, or five seconds.
ReloadEnds ==
  /\ Going /\ reload # 0
  /\ reload' = 0
  /\ UNCHANGED <<phase, why, link, timer, tui, routes, wire, asked, astray, evidence, quiet, judged>> /\ Others

-----------------------------------------------------------------------------
(* The launcher, the run and tmux.                                         *)

Proxy == <<phase, why, link, timer, tui, routes, wire, asked, astray, reload, evidence, quiet, judged, now>>
SessionStarts(s) == s \notin alive /\ run.session = s /\ alive' = alive \cup {s} /\ UNCHANGED <<run, Proxy>>
SessionEnds(s) == s \in alive /\ alive' = alive \ {s} /\ UNCHANGED <<run, Proxy>>
\* A launch binds the run to a session of another name.
Rebind(s) ==
  /\ run.session # s /\ s \notin alive /\ run.session # Unbound
  /\ run' = [active |-> TRUE, session |-> s]
  /\ UNCHANGED <<alive, Proxy>>
RunEnds == run.active /\ run' = [run EXCEPT !.active = FALSE] /\ UNCHANGED <<alive, Proxy>>

Next ==
  \/ \E r \in {"live", "dead", "unknown"} : Poll(r) \/ Shutdown(r) \/ Disconnect(r) \/ TryReconnect(r)
  \/ WriteManifest \/ Signal \/ Attach \/ DialFails \/ Breaks
  \/ TuiOpens \/ TuiCloses \/ \E c \in Asks : Ask(c)
  \/ \E r \in wire : Answer(r)
  \/ BridgeCallClosed \/ ReloadEnds \/ RunEnds
  \/ \E s \in Sessions : SessionStarts(s) \/ SessionEnds(s) \/ Rebind(s)

Spec == Init /\ [][Next]_vars

-----------------------------------------------------------------------------
TypeOK ==
  /\ phase \in {"starting", "up", "stopped", "failed"}
  /\ why \in {"none", "dead-tmux", "inactive-run", "requested", "signal"}
  /\ link.gen \in 1..MaxLinks /\ link.state \in {"none", "dialing", "open", "lost"}
  /\ {timer, tui.open, astray, run.active, evidence.saw} \subseteq BOOLEAN
  /\ tui.conn \in 0..MaxConns /\ wire \subseteq routes /\ reload \in 0..MaxLinks
  /\ routes \subseteq [conn : Conns, client : Asks]
  /\ asked \in [Conns -> [Asks -> {"no", "asked", "answered", "refused"}]]
  /\ run.session \in Sessions \cup {Unbound} /\ judged \in Sessions \cup {Unbound} /\ alive \subseteq Sessions
  /\ now \in 0..MaxTime /\ quiet \in 0..Late

\* Every request of the connected TUI is answered, was refused, or waits on the upstream there is:
\* none is left waiting for an app server that is gone, and no answer reaches another request.
AnswersOwed ==
  /\ ~astray
  /\ phase = "up" /\ tui.open =>
       \A c \in Asks : asked[tui.conn][c] = "asked" =>
         [conn |-> tui.conn, client |-> c] \in routes /\ link.state \in {"open", "lost"}

\* A proxy that is up and has no app server is dialing or will dial; the reload flag belongs to
\* the present link, so a reload that a lost link swallowed does not block the next.
NeverStranded ==
  /\ phase = "up" /\ link.state = "none" => timer
  /\ reload \in {0, link.gen}

\* It stops for a dead session only when every look for ConfirmAge seconds said dead, and the
\* manifest it ends then is the one of that session.
StopsWhenDead ==
  /\ why = "dead-tmux" => now - quiet >= ConfirmAge
  /\ evidence.dead > 0 => quiet <= evidence.since

\* A manifest that was bound to another session meanwhile is left alone.
ReboundSpared ==
  judged # Unbound /\ run.active /\ ~run'.active /\ judged' = Unbound => run.session = judged

\* What every step of the proxy keeps.
ProxyKept == AnswersOwed' /\ NeverStranded' /\ StopsWhenDead' /\ ReboundSpared
=============================================================================
