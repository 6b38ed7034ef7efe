------------------------------ MODULE MCSystem ------------------------------
(***************************************************************************)
(* The safety of the parts, checked in one run: every behaviour is one of  *)
(* one part, which Init chooses.  x1, x2, ... are the variables of that    *)
(* part, in the order of its module; those it has no use for rest.         *)
(***************************************************************************)
EXTENDS Integers, Sequences, FiniteSets, TLC

CONSTANTS Parts, MaxFaults, MaxEpoch,
          Agents, Judges, a1, a2, MaxEpisode,                   \* GovernessCycle
          NoAgent,                                              \* DriverRoles
          Launchers, l1, l2, Runs, Old, Nobody, New,            \* PairedLaunch
          MaxTicks,                                             \* ClaudeStartup
          m1, m2, m3,                                           \* BridgeLedger
          MaxVersion                                            \* BridgeWorker

VARIABLES part,
          x1, x2, x3, x4, x5, x6, x7, x8, x9, x10, x11, x12, x13, x14, x15, x16
vars == <<part, x1, x2, x3, x4, x5, x6, x7, x8, x9, x10, x11, x12, x13, x14, x15, x16>>

-----------------------------------------------------------------------------
(* The small instances.                                                    *)

Sights == (a1 :> {"moves", "still"}) @@ (a2 :> {"moves", "ends", "limited"})
Cycle == INSTANCE GovernessCycle WITH
  SightsOf <- Sights, IdleMs <- 2, CooldownMs <- 2, AssessMs <- 1, EscalateMs <- 2,
  MaxRecoveries <- 3, MaxAge <- 3, live <- x1, history <- x2, since <- x3, idle <- x4,
  episode <- x5, waiting <- x6, answer <- x7, assessed <- x8, asking <- x9, notified <- x10,
  pc <- x11, verdictOf <- x12, notices <- x13

Roles == INSTANCE DriverRoles WITH
  Rows <- <<a1, a2>>, Initial <- a1, Resets <- {"unknown", "dated"}, LimitHandoff <- TRUE,
  Together <- TRUE, Cooldown <- 1, LeaseFor <- 1, roles <- x1, noted <- x2, lease <- x3,
  prepared <- x4, limited <- x5, epoch <- x6, quiet <- x7, briefings <- x8

\* Two workspaces with one branch checked out in both.
Places == (l1 :> [root |-> "w", branch |-> "main"]) @@ (l2 :> [root |-> "v", branch |-> "main"])
Launch == INSTANCE PairedLaunch WITH
  Place <- Places, MaxCrashes <- 1, man <- x1, tmux <- x2, lock <- x3, server <- x4, at <- x5,
  mem <- x6, resumed <- x7, crashes <- x8

Dialogs == {<< >>, <<"trust", "dev">>, <<"dev", "bypass">>}
Startup == INSTANCE ClaudeStartup WITH
  Modals <- Dialogs, PerSecond <- 2, Settle <- 2, MaxAttempts <- 2, MaxPolls <- 8, Grace <- 6,
  HardMax <- 14, ProbePolls <- 3, RestoreAttempts <- 2, Lag <- 2, MaxHuman <- 1, MaxDrops <- 1,
  now <- x1, left <- x2, shown <- x3, sel <- x4, text <- x5, cursor <- x6, act <- x7,
  keys <- x8, client <- x9, human <- x10, drops <- x11, pc <- x12, mem <- x13, awake <- x14,
  astray <- x15

\* Messages of one key, two of which replace the first, one urgently; or one in the other direction.
Msg(f, t, k, s, l, u) ==
  [from |-> f, text |-> t, key |-> k, supersede |-> s, ttl |-> l, urgent |-> u]
Offers ==
  (m1 :> {Msg("claude", "s", "k", FALSE, "some", FALSE), Msg("claude", "s", "k", FALSE, "past", FALSE)})
  @@ (m2 :> {Msg("claude", "t", "k", TRUE, "none", FALSE), Msg("codex", "s", "none", FALSE, "none", FALSE)})
  @@ (m3 :> {Msg("claude", "t", "k", TRUE, "none", TRUE)})
Ledger == INSTANCE BridgeLedger WITH
  Calls <- {m1, m2, m3}, Options <- Offers, Readers <- {"codex"}, MaxOutstanding <- 1,
  journal <- x1, message <- x2, born <- x3, overdue <- x4, call <- x5, reader <- x6,
  faults <- x7

Worker == INSTANCE BridgeWorker WITH
  Messages <- <<1, 2>>, Target <- <<"codex", "claude">>, Remote <- TRUE, version <- x1,
  pending <- x2, noted <- x3, file <- x4, active <- x5, sender <- x6, worker <- x7, faults <- x8

Proxy == INSTANCE CodexProxy WITH
  Asks <- {1}, MaxConns <- 2, MaxLinks <- 2, Sessions <- {"s1", "s2"}, First <- "s1",
  Unbound <- "none", Confirmations <- 2, ConfirmAge <- 1, Grace <- 1, MaxTime <- 1, phase <- x1,
  why <- x2, link <- x3, timer <- x4, tui <- x5, routes <- x6, wire <- x7, asked <- x8,
  astray <- x9, reload <- x10, run <- x11, alive <- x12, evidence <- x13, quiet <- x14,
  judged <- x15, now <- x16

Server == INSTANCE CodexServer WITH
  Calls <- {1, 2}, MaxServers <- 3, MaxFaults <- 2, RetryLimit <- 1, client <- x1, pend <- x2,
  ids <- x3, proc <- x4, sock <- x5, due <- x6, turns <- x7, spawner <- x8, inst <- x9,
  call <- x10, pc <- x11, tried <- x12, at <- x13, outcome <- x14, broken <- x15, faults <- x16

Inject == INSTANCE CodexInject WITH
  MaxTurns <- 3, MaxLost <- 2, thread <- x1, open <- x2, pc <- x3, attempt <- x4, seen <- x5,
  taken <- x6, result <- x7, lost <- x8

Setups ==
  LET for(h, k, m, s) == [harness |-> h, kind |-> k, models |-> m, siblings |-> s]
  IN  {for("pi", "edit", 4, 1), for("pi", "plan", 3, 2), for("legacy", "edit", 4, 1),
       for("legacy", "plan", 4, 2), for("direct", "plan", 1, 1), for("direct", "command", 1, 1)}
Helper == INSTANCE HelperConversation WITH
  MaxToolCalls <- 4, MaxRejections <- 3, MaxRepeats <- 3, setup <- x1, job <- x2, pc <- x3,
  batch <- x4, mem <- x5, log <- x6, patches <- x7

Edited == (m1 :> <<"f", "g">>) @@ (m2 :> <<"f">>)
Patch == INSTANCE PatchApply WITH
  Jobs <- {m1, m2}, Targets <- Edited, Mixed <- {}, Callers <- Agents, MaxEdits <- 1,
  MaxCrashes <- 1, None <- Nobody, content <- x1, pre <- x2, record <- x3, call <- x4,
  edits <- x5, crashes <- x6

Texts ==
  {<<"">>, <<"a", "">>, <<"a", "b", "a", "b", "a">>, <<"b", "a", "b", "">>, <<"a", "", "b">>}
Boundaries ==
  [limit : 0..2, keep : {"head", "tail"}, stderr : {"apart", "merge", "omit"}, without : {{}, {"a"}}]
Output == INSTANCE ToolOutput WITH
  Page <- 2, Starts <- 0..3, Ends <- {0, 2, 3, 5}, Lasts <- 0..3, Fits <- 0..2, ask <- x1,
  bound <- x2, pages <- x3, answer <- x4, at <- x5

Sdk == INSTANCE ClaudeSdk WITH
  Models <- {"work", "review"}, MaxTurns <- 3, MaxProcs <- 3, conf <- x1, client <- x2,
  procs <- x3, told <- x4, at <- x5, want <- x6, turns <- x7, faults <- x8

Named == {{}, {"f"}, {"f", "g"}, {"f", "g", "h"}, {"d"}}
Boundings == {{}, {"lines"}, {"present"}}
Routing == INSTANCE HelperRouting WITH
  Files <- {"f", "g", "h"}, Dirs <- {"d", "."}, Governed <- "secret", Operands <- Named,
  Cuts <- Boundings, MaxScopes <- 2, MaxCount <- 3, MaxStages <- 2, MaxPlan <- 3,
  MaxWrites <- 1, NannyScopes <- 1, Configured <- {"nanny", "au-pair"}, ask <- x1, call <- x2,
  request <- x3, lane <- x4, evidence <- x5, broke <- x6, job <- x7, why <- x8, tier <- x9

Update == INSTANCE SelfUpdate WITH
  Procs <- Agents, Newest <- 3, Faults <- {"dies", "refused"}, exe <- x1,
  staged <- x2, meta <- x3, checked <- x4, latest <- x5, proc <- x6, mixed <- x7, hurt <- x8

Entry == INSTANCE WorktreeEntry WITH
  Launches <- Launchers, MaxId <- 2, MaxDeaths <- 1, MaxDeleted <- 1, branches <- x1,
  registered <- x2, away <- x3, dirs <- x4, plans <- x5, launch <- x6, deaths <- x7,
  deleted <- x8

Sweep == INSTANCE StaleCleanup WITH
  Runs <- Agents, Pids <- {m1, m2}, NoPid <- Nobody, NoRun <- NoAgent, MaxEvents <- 3,
  man <- x1, tmux <- x2, procs <- x3, noted <- x4, mcp <- x5, sweep <- x6, left <- x7,
  events <- x8

Mcp == INSTANCE BridgeServer WITH
  MaxRequests <- 2, Messages <- {m1, m2}, MaxChanges <- 2, source <- x1, input <- x2,
  queue <- x3, pc <- x4, ready <- x5, timer <- x6, closed <- x7, inbox <- x8, pane <- x9,
  out <- x10, got <- x11, failed <- x12, server <- x13, changes <- x14

Written == {"<think>", "</think>", "brace", "yes", "other", "objective", "project"}
Replies ==
  UNION {[1..n -> Written] : n \in 0..2}
  \cup {<<"<think>", "yes", "</think>", "other">>, <<"<think>", "yes", "</think>">>, <<"brace", "yes", "other">>,
        <<"<think>", "<think>", "yes", "</think>", "yes">>, <<"yes", "</think>", "<think>", "other", "</think>">>,
        <<"project", "objective", "objective">>}
Call == INSTANCE ModelCall WITH
  Timeout <- 2, InnerTimeout <- 5, DefaultRetries <- 1, RetryCap <- 2, BaseDelay <- 1,
  MaxDelay <- 1, Contents <- Replies, MaxSlow <- 2, conf <- x1, now <- x2, slow <- x3, pc <- x4,
  due <- x5, outer <- x6, log <- x7, attempts <- x8, result <- x9

Manifests ==
  LET with(a, w, b) == [adapter |-> a, world |-> w, binding |-> b, session |-> "none"]
  IN  {with("none", "none", "none"), with("good", "good", "good"), with("bad", "good", "none"),
       with("none", "outside", "bad"), with("good", "outside", "none")}
Numbers == <<"1", "2">>
Store == INSTANCE RunStore WITH
  Writers <- Agents, Stored <- Manifests, Ids <- Numbers, Sessions <- {"1", "s"},
  MaxWrites <- 3, MaxEntries <- 3, MaxCrashes <- 2, of <- x1, file <- x2, hand <- x3,
  disturbed <- x4, writes <- x5, lines <- x6, sent <- x7, torn <- x8, crashes <- x9,
  shelf <- x10, found <- x11

Frame(op, fin) == [op |-> op, fin |-> fin, big |-> FALSE]
BigPing == [op |-> "ping", fin |-> TRUE, big |-> TRUE]
Streams ==
  LET opens == {Frame("text", TRUE), Frame("text", FALSE), Frame("binary", FALSE)}
      goes == {Frame("text", TRUE), Frame("cont", TRUE), Frame("cont", FALSE), Frame("ping", TRUE)}
      all == opens \cup goes \cup {Frame("close", TRUE), Frame("other", TRUE), BigPing}
  IN  {<<a>> : a \in all} \cup {<<a, b>> : a \in opens, b \in all} \cup {<<a, b, c>> : a \in opens, b, c \in goes}
Socket == INSTANCE WsClient WITH
  Scripts <- Streams, Awaits <- {0, 1}, conf <- x1, phase <- x2, came <- x3, buffer <- x4,
  queue <- x5, running <- x6, listening <- x7, frag <- x8, early <- x9, heard <- x10,
  wrote <- x11, closed <- x12, ended <- x13, told <- x14

Remark(f, t, fit) == [file |-> f, text |-> t, fit |-> fit]
Remarks == {Remark("f", "s", TRUE), Remark("f", "t", TRUE), Remark("g", "s", FALSE)}
\* One boundary twice, or two; one note twice, two of one name, and one that is refused.
Meetings ==
  LET meet(a, b, m, n) == [boundary |-> (a1 :> a) @@ (a2 :> b), note |-> (l1 :> m) @@ (l2 :> n)]
      fit == Remark("f", "s", TRUE)
  IN  {meet(m1, m1, fit, fit), meet(m1, m2, fit, Remark("f", "t", TRUE)), meet(m1, m2, fit, Remark("g", "s", FALSE))}
Memory == INSTANCE MemoryCheckpoint WITH
  Hooks <- Agents, Curators <- Launchers, Boundaries <- {m1, m2}, Notes <- Remarks,
  Setups <- Meetings, None <- Nobody, MaxTime <- 1, MaxDeaths <- 1, boundary <- x1, note <- x2,
  at <- x3, pc <- x4, body <- x5, before <- x6, kept <- x7, latest <- x8, put <- x9,
  markdown <- x10, sidecar <- x11, deaths <- x12

ASSUME
  /\ Cycle!CycleAssumption /\ Roles!RolesAssumption
  /\ Launch!LaunchAssumption
  /\ Ledger!LedgerConstants /\ Worker!WorkerConstants /\ Proxy!ProxyConstants
  /\ Server!ServerConstants /\ Inject!InjectConstants
  /\ Helper!HelperConstants /\ Patch!PatchConstants /\ Output!OutputConstants /\ Sdk!SdkConstants
  /\ Routing!RoutingConstants /\ Update!UpdateConstants /\ Entry!EntryConstants
  /\ Sweep!CleanupConstants /\ Mcp!ServerConstants
  /\ Call!CallConstants /\ Store!StoreConstants /\ Socket!SocketConstants /\ Memory!MemoryConstants

-----------------------------------------------------------------------------
\* Of the variables beyond the first n: they begin as 0, and stay so.
Blank(n) ==
  /\ IF n < 6 THEN x6 = 0 ELSE TRUE
  /\ IF n < 7 THEN x7 = 0 ELSE TRUE
  /\ IF n < 8 THEN x8 = 0 ELSE TRUE
  /\ IF n < 9 THEN x9 = 0 ELSE TRUE
  /\ IF n < 10 THEN x10 = 0 ELSE TRUE
  /\ IF n < 11 THEN x11 = 0 ELSE TRUE
  /\ IF n < 12 THEN x12 = 0 ELSE TRUE
  /\ IF n < 13 THEN x13 = 0 ELSE TRUE
  /\ IF n < 14 THEN x14 = 0 ELSE TRUE
  /\ IF n < 15 THEN x15 = 0 ELSE TRUE
  /\ IF n < 16 THEN x16 = 0 ELSE TRUE
Hold(n) ==
  /\ UNCHANGED part
  /\ IF n < 6 THEN UNCHANGED x6 ELSE TRUE
  /\ IF n < 7 THEN UNCHANGED x7 ELSE TRUE
  /\ IF n < 8 THEN UNCHANGED x8 ELSE TRUE
  /\ IF n < 9 THEN UNCHANGED x9 ELSE TRUE
  /\ IF n < 10 THEN UNCHANGED x10 ELSE TRUE
  /\ IF n < 11 THEN UNCHANGED x11 ELSE TRUE
  /\ IF n < 12 THEN UNCHANGED x12 ELSE TRUE
  /\ IF n < 13 THEN UNCHANGED x13 ELSE TRUE
  /\ IF n < 14 THEN UNCHANGED x14 ELSE TRUE
  /\ IF n < 15 THEN UNCHANGED x15 ELSE TRUE
  /\ IF n < 16 THEN UNCHANGED x16 ELSE TRUE

Init ==
  /\ part \in Parts
  /\ IF part = "cycle" THEN Cycle!Init /\ Blank(13) ELSE TRUE
  /\ IF part = "roles" THEN Roles!Init /\ Blank(8) ELSE TRUE
  /\ IF part = "launch" THEN Launch!Init /\ Blank(8) ELSE TRUE
  /\ IF part = "startup" THEN Startup!Init /\ Blank(15) ELSE TRUE
  /\ IF part = "ledger" THEN Ledger!Init /\ Blank(7) ELSE TRUE
  /\ IF part = "worker" THEN Worker!Init /\ Blank(8) ELSE TRUE
  /\ IF part = "proxy" THEN Proxy!Init /\ Blank(16) ELSE TRUE
  /\ IF part = "server" THEN Server!Init /\ Blank(16) ELSE TRUE
  /\ IF part = "inject" THEN Inject!Init /\ Blank(8) ELSE TRUE
  /\ IF part = "helper" THEN Helper!Init /\ Blank(7) ELSE TRUE
  /\ IF part = "patch" THEN Patch!Init /\ Blank(6) ELSE TRUE
  /\ IF part = "output" THEN Output!Init /\ Blank(5) ELSE TRUE
  /\ IF part = "sdk" THEN Sdk!Init /\ Blank(8) ELSE TRUE
  /\ IF part = "routing" THEN Routing!Init /\ Blank(9) ELSE TRUE
  /\ IF part = "update" THEN Update!Init /\ Blank(8) ELSE TRUE
  /\ IF part = "entry" THEN Entry!Init /\ Blank(8) ELSE TRUE
  /\ IF part = "sweep" THEN Sweep!Init /\ Blank(8) ELSE TRUE
  /\ IF part = "mcp" THEN Mcp!Init /\ Blank(14) ELSE TRUE
  /\ IF part = "call" THEN Call!Init /\ Blank(9) ELSE TRUE
  /\ IF part = "store" THEN Store!Init /\ Blank(11) ELSE TRUE
  /\ IF part = "socket" THEN Socket!Init /\ Blank(14) ELSE TRUE
  /\ IF part = "memory" THEN Memory!Init /\ Blank(12) ELSE TRUE

Next ==
  \/ part = "cycle" /\ Cycle!Next /\ Hold(13)
  \/ part = "roles" /\ Roles!Next /\ Hold(8)
  \/ part = "launch" /\ Launch!Next /\ Hold(8)
  \/ part = "startup" /\ Startup!Next /\ Hold(15)
  \/ part = "ledger" /\ Ledger!Next /\ Hold(7)
  \/ part = "worker" /\ Worker!Next /\ Hold(8)
  \/ part = "proxy" /\ Proxy!Next /\ Hold(16)
  \/ part = "server" /\ Server!Next /\ Hold(16)
  \/ part = "inject" /\ Inject!Next /\ Hold(8)
  \/ part = "helper" /\ Helper!Next /\ Hold(7)
  \/ part = "patch" /\ Patch!Next /\ Hold(6)
  \/ part = "output" /\ Output!Next /\ Hold(5)
  \/ part = "sdk" /\ Sdk!Next /\ Hold(8)
  \/ part = "routing" /\ Routing!Next /\ Hold(9)
  \/ part = "update" /\ Update!Next /\ Hold(8)
  \/ part = "entry" /\ Entry!Next /\ Hold(8)
  \/ part = "sweep" /\ Sweep!Next /\ Hold(8)
  \/ part = "mcp" /\ Mcp!Next /\ Hold(14)
  \/ part = "call" /\ Call!Next /\ Hold(9)
  \/ part = "store" /\ Store!Next /\ Hold(11)
  \/ part = "socket" /\ Socket!Next /\ Hold(14)
  \/ part = "memory" /\ Memory!Next /\ Hold(12)
Spec == Init /\ [][Next]_vars

-----------------------------------------------------------------------------
\* The type invariants of the parts.
TypeOK ==
  CASE part = "cycle"   -> Cycle!TypeOK
    [] part = "roles"   -> Roles!TypeOK
    [] part = "launch"  -> Launch!TypeOK
    [] part = "startup" -> Startup!TypeOK
    [] part = "ledger"  -> Ledger!TypeOK
    [] part = "worker"  -> Worker!TypeOK
    [] part = "proxy"   -> Proxy!TypeOK
    [] part = "server"  -> Server!TypeOK
    [] part = "inject"  -> Inject!TypeOK
    [] part = "helper"  -> Helper!TypeOK
    [] part = "patch"   -> Patch!TypeOK
    [] part = "output"  -> Output!TypeOK
    [] part = "sdk"     -> Sdk!TypeOK
    [] part = "routing" -> Routing!TypeOK
    [] part = "update"  -> Update!TypeOK
    [] part = "entry"   -> Entry!TypeOK
    [] part = "sweep"   -> Sweep!TypeOK
    [] part = "mcp"     -> Mcp!TypeOK
    [] part = "call"    -> Call!TypeOK
    [] part = "store"   -> Store!TypeOK
    [] part = "socket"  -> Socket!TypeOK
    [] part = "memory"  -> Memory!TypeOK

\* PairedLaunch: one live session for a workspace or branch, no lost app server.  ClaudeStartup: no
\* key on the wrong screen, no draft pasted over.  RunStore: the transcript in its order, the run that was
\* meant.  MemoryCheckpoint: a boundary has one checkpoint, and what is promoted of it says so.
LaunchKept ==
  /\ part = "launch" => Launch!LaunchKept
  /\ part = "startup" => Startup!StartupKept
  /\ part = "store" => Store!StoreKept
  /\ part = "memory" => Memory!MemoryKept

\* BridgeLedger: keys, successors and the backlog hold for who saw the message.  BridgeWorker: no
\* long sleep over a pending message, one worker that stays.  BridgeServer: answers in order, messages
\* once, and a sweep that goes on.
BridgeKept ==
  /\ part = "ledger" => Ledger!LedgerKept
  /\ part = "worker" => Worker!WorkerKept
  /\ part = "mcp" => Mcp!ServerKept

\* HelperConversation: a completed job has what was asked for, within its budgets.  ToolOutput: pages
\* have their numbers and join up.  ClaudeSdk: a turn has its own answer, in its session.
\* HelperRouting: a denied call is served, by the tier that was ready, and what was admitted stays so.
\* ModelCall: an answer in time, paid for, and no draft of it.
HelpersKept ==
  /\ part = "helper" => Helper!HelperKept
  /\ part = "output" => Output!OutputKept
  /\ part = "sdk" => Sdk!SdkKept
  /\ part = "routing" => Routing!RoutingKept
  /\ part = "call" => Call!CallKept

\* GovernessCycle: the human is called once about an idle episode, and recoveries keep their
\* distance.  DriverRoles: an agent is told once, by each Governess, to prepare a fresh loop, and no
\* cycle leaves the role with an agent that is at its limit.
GovernessKept ==
  /\ [][part = "cycle" => Cycle!CycleKept]_vars
  /\ [][part = "roles" => Roles!RolesKept]_vars

\* CodexProxy: every request of the TUI is answered once, by its own answer, and the proxy stops
\* for the death of its own session alone.  CodexServer, CodexInject: a turn has its own result, a
\* prompt begins within its limit, an injected one once unless an answer is lost.  WsClient: a message
\* is handed over whole and once.
CodexKept ==
  /\ [][part = "proxy" => Proxy!ProxyKept]_vars
  /\ [](part = "server" => Server!ServerKept)
  /\ [](part = "inject" => Inject!InjectKept)
  /\ [](part = "socket" => Socket!SocketKept)

\* PatchApply: no patch over changes it did not know of, and a record that says what was done.
PatchKept == [][part = "patch" => Patch!PatchKept]_vars

\* SelfUpdate: the installed binary is whole, ever newer, and announced as what it is.  WorktreeEntry:
\* a worktree for each launch, and the plan with one of them.  StaleCleanup: what is over is ended, and
\* nothing else.  RunStore: an update changes what it is about.
SetupKept ==
  /\ [][part = "update" => Update!UpdateKept]_vars
  /\ [](part = "entry" => Entry!EntryKept)
  /\ [][part = "sweep" => Sweep!SweepKept]_vars
  /\ [][part = "store" => Store!UpdateKept]_vars
=============================================================================
