----------------------------- MODULE BridgeServer -----------------------------
(***************************************************************************)
(* The MCP server that an agent starts on its standard input and output:   *)
(* requests are answered one after the other, and to Claude the messages   *)
(* of its inbox are pushed between the answers: after each request, when   *)
(* the ledger changes and every 2 s.  It ends with its input, on a signal, *)
(* when its parent is gone, or on a frame it cannot read.                  *)
(***************************************************************************)
EXTENDS Naturals, Sequences, FiniteSets, SequencesExt

CONSTANTS MaxRequests, Messages,
          MaxChanges    \* bound: panes that come and go

VARIABLES source,     \* the agent that it serves
          input,      \* the chunks that are underway, and whether the input has ended
          queue,      \* requestQueue
          pc,         \* of the request at its head: "idle", "dispatch", "flush"
          ready, timer, closed,  \* channelReady, fallbackSweep, closed
          inbox,      \* the pending messages of the agent; those that a deliverer has claimed
          pane,       \* whether the agent has a live pane
          out, got,   \* what was written, and what the agent has read of it
          failed,     \* requests that were never answered
          server, changes
vars == <<source, input, queue, pc, ready, timer, closed, inbox, pane, out, got, failed, server, changes>>

ServerConstants == {MaxRequests, MaxChanges} \subseteq Nat

Kinds == {"initialized", "receive", "send", "invalid", "torn"}
Request(n, k) == [id |-> n, kind |-> k]
Answer(n) == [what |-> "answer", id |-> n, with |-> {}]
Notice(m) == [what |-> "notice", id |-> 0, with |-> {m}]

Init ==
  /\ source \in {"claude", "codex"}
  /\ input = [chunks |-> << >>, ended |-> FALSE, sent |-> 0, asks |-> {}] /\ queue = << >> /\ pc = "idle"
  /\ ready = FALSE /\ timer = FALSE /\ closed = FALSE
  /\ inbox = [pending |-> {}, claimed |-> {}, gone |-> {}] /\ pane = TRUE
  /\ out = << >> /\ got = << >> /\ failed = {} /\ server = "up" /\ changes = 0

-----------------------------------------------------------------------------
(* The agent, and the other processes.                                     *)

server_ == <<queue, pc, ready, timer, closed, failed, server>>
Ask(kind) ==
  /\ ~input.ended /\ input.sent < MaxRequests
  /\ input' = [input EXCEPT !.chunks = <<Request(input.sent + 1, kind)>> \o @, !.sent = @ + 1,
                             !.asks = IF kind \in {"initialized", "torn"} THEN @ ELSE @ \cup {input.sent + 1}]
  /\ UNCHANGED <<server_, source, inbox, pane, out, got, changes>>
Hangup ==
  /\ ~input.ended /\ input' = [input EXCEPT !.ended = TRUE]
  /\ UNCHANGED <<server_, source, inbox, pane, out, got, changes>>
ReadOut ==
  /\ out # << >> /\ server # "killed"
  /\ got' = Append(got, Head(out)) /\ out' = Tail(out)
  /\ UNCHANGED <<server_, source, input, inbox, pane, changes>>
Arrive(m) ==
  /\ m \notin inbox.pending \cup inbox.gone /\ inbox' = [inbox EXCEPT !.pending = @ \cup {m}]
  /\ UNCHANGED <<server_, source, input, pane, out, got, changes>>
\* A deliverer of another process takes a message, and settles it or gives it back.
Claim(m) ==
  /\ m \in inbox.pending /\ changes < MaxChanges /\ changes' = changes + 1
  /\ inbox' = [inbox EXCEPT !.claimed = IF m \in @ THEN @ \ {m} ELSE @ \cup {m}]
  /\ UNCHANGED <<server_, source, input, pane, out, got>>
PaneChanges ==
  /\ changes < MaxChanges /\ changes' = changes + 1 /\ pane' = ~pane
  /\ UNCHANGED <<server_, source, input, inbox, out, got>>

-----------------------------------------------------------------------------
(* runBridgeMcpServer                                                      *)

Taken(ms) == inbox' = [inbox EXCEPT !.pending = @ \ ms, !.gone = @ \cup ms]
Pushes == source = "claude" /\ ready
\* flushClaudeChannelMessages: not while the messages go to a pane.
Flushed ==
  IF Pushes /\ ~pane
  THEN /\ Taken(inbox.pending)
       /\ out' = out \o [i \in 1..Cardinality(inbox.pending) |-> Notice(SetToSeq(inbox.pending)[i])]
  ELSE UNCHANGED <<inbox, out>>

\* consumeFrames: a frame that cannot be read ends the server, whatever is queued.
Read ==
  /\ server = "up" /\ input.chunks # << >>
  /\ input' = [input EXCEPT !.chunks = Front(@)]
  /\ IF Last(input.chunks).kind = "torn"
     THEN server' = "killed" /\ UNCHANGED queue
     ELSE queue' = Append(queue, Last(input.chunks)) /\ UNCHANGED server
  /\ UNCHANGED <<source, pc, ready, timer, closed, inbox, pane, out, got, failed, changes>>
InputEnds ==
  /\ server = "up" /\ input.ended /\ input.chunks = << >> /\ ~closed /\ closed' = TRUE
  /\ UNCHANGED <<source, input, queue, pc, ready, timer, inbox, pane, out, got, failed, server, changes>>

\* scheduleClaudeSweep
Armed(now) == timer' = (timer \/ (source = "claude" /\ now /\ ~closed))
\* handleBridgeRequest: an answer at once, or a dispatch that takes its time.
Handle ==
  LET r == Head(queue)
      read == IF r.kind = "receive" THEN inbox.pending \ inbox.claimed ELSE {}
  IN  /\ server = "up" /\ pc = "idle" /\ queue # << >>
      /\ ready' = (ready \/ r.kind = "initialized") /\ Armed(ready')
      /\ IF r.kind = "send" THEN pc' = "dispatch" /\ UNCHANGED <<inbox, out>>
         ELSE /\ pc' = "flush" /\ Taken(read)
              /\ out' = IF r.kind = "initialized" THEN out ELSE Append(out, [Answer(r.id) EXCEPT !.with = read])
      /\ UNCHANGED <<source, input, queue, closed, pane, got, failed, server, changes>>
\* handleSendMessageTool: the ledger refuses, or the answer says what became of the message.
Dispatched ==
  /\ server = "up" /\ pc = "dispatch"
  /\ pc' = "flush" /\ out' = Append(out, Answer(Head(queue).id))
  /\ UNCHANGED <<source, input, queue, ready, timer, closed, inbox, pane, got, failed, server, changes>>
\* The handler throws: nobody is told, and the next request begins.
Throws ==
  /\ server = "up" /\ pc = "dispatch"
  /\ pc' = "idle" /\ queue' = Tail(queue) /\ failed' = failed \cup {Head(queue).id}
  /\ UNCHANGED <<source, input, ready, timer, closed, inbox, pane, out, got, server, changes>>
FlushAfter ==
  /\ server = "up" /\ pc = "flush" /\ pc' = "idle" /\ queue' = Tail(queue) /\ Flushed
  /\ UNCHANGED <<source, input, ready, timer, closed, pane, got, failed, server, changes>>

\* The directory has changed.
Watch ==
  /\ server = "up" /\ Pushes /\ ~closed /\ inbox.pending # {} /\ Flushed
  /\ UNCHANGED <<source, input, queue, pc, ready, timer, closed, pane, got, failed, server, changes>>
\* Mutant: armed again while the last one still counts.
Rearmed_Early == ~closed /\ ~timer
Rearmed == ~closed
Sweep ==
  /\ server = "up" /\ timer /\ timer' = Rearmed
  /\ IF closed THEN UNCHANGED <<inbox, out>> ELSE Flushed
  /\ UNCHANGED <<source, input, queue, pc, ready, closed, pane, got, failed, server, changes>>

\* A signal, or the parent is gone before the input has ended; the output is not waited for.
Stop ==
  /\ server \in {"up", "ending"} /\ server' = "killed" /\ closed' = TRUE /\ timer' = FALSE
  /\ UNCHANGED <<source, input, queue, pc, ready, inbox, pane, out, got, failed, changes>>
\* After the input, the requests, a last flush and flushBridgeOutput; when the last request has thrown, its
\* rejection ends the server instead, as in Stop.
LastFlush ==
  /\ server = "up" /\ closed /\ queue = << >> /\ input.sent \notin failed
  /\ server' = "ending" /\ Flushed
  /\ UNCHANGED <<source, input, queue, pc, ready, timer, closed, pane, got, failed, changes>>
Finish ==
  /\ server = "ending" /\ out = << >> /\ server' = "done" /\ timer' = FALSE
  /\ UNCHANGED <<source, input, queue, pc, ready, closed, inbox, pane, out, got, failed, changes>>

Next ==
  \/ \E k \in Kinds : Ask(k)
  \/ Hangup \/ ReadOut \/ PaneChanges
  \/ \E m \in Messages : Arrive(m) \/ Claim(m)
  \/ Read \/ InputEnds \/ Handle \/ Dispatched \/ Throws \/ FlushAfter \/ Watch \/ Sweep \/ Stop \/ LastFlush \/ Finish
Spec == Init /\ [][Next]_vars

-----------------------------------------------------------------------------
TypeOK ==
  /\ pc \in {"idle", "dispatch", "flush"} /\ server \in {"up", "ending", "done", "killed"}
  /\ {ready, timer, closed, pane} \subseteq BOOLEAN /\ failed \subseteq 1..MaxRequests
  /\ inbox.pending \cup inbox.gone \cup inbox.claimed \subseteq Messages

Written == got \o out
Answers == {i \in DOMAIN Written : Written[i].what = "answer"}

\* Every answer goes to a request of its own, in the order of the requests; one that is overtaken has
\* failed, or asked for nothing.  (requestQueue, while dispatches take their time.)
AnsweredInOrder ==
  \A i, j \in Answers : i < j => Written[i].id < Written[j].id

\* A message that was taken from the inbox was written once, in an answer or a notice; and the agent has
\* read it, unless the server was stopped first.  (flushClaudeChannelMessages and receive_messages take the
\* message before the agent has it.)
TakenOnce ==
  LET with(m, s) == {i \in 1..Len(s) : m \in s[i].with}
  IN  \A m \in Messages :
        /\ Cardinality(with(m, Written)) = (IF m \in inbox.gone THEN 1 ELSE 0)
        /\ (m \in inbox.gone /\ server = "done") => with(m, got) # {}

\* A server of Claude that is ready and has its input always sweeps again.  (scheduleClaudeSweep)
SweepsAgain == (server = "up" /\ Pushes /\ ~closed) => timer

\* A server that ended with its input has answered whatever was asked before, but for what failed.
\* (The end of the input is seen while requests are waiting.)
AllAnswered ==
  server = "done" => input.asks \ failed \subseteq {got[i].id : i \in 1..Len(got)}

\* Of the server: answers in order and to the last, no message lost or doubled but by a kill, and the sweep goes on.
ServerKept == AnsweredInOrder /\ AllAnswered /\ TakenOnce /\ SweepsAgain
=============================================================================
