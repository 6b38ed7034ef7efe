------------------------- MODULE HelperConversation -------------------------
(***************************************************************************)
(* One helper job from the start of its worker process to its result: the  *)
(* conversation of a model with the tools of the broker, under one of the  *)
(* three harnesses of utility-runtime.ts.  "direct" makes the exact calls  *)
(* of the request and asks no model; "legacy" runs the calls of a reply    *)
(* one after the other and fails at the first thing wrong; in "pi" the     *)
(* loop belongs to an external agent session, which the worker watches by  *)
(* events and timers and can only abort.  What the model says, what the    *)
(* broker answers, and when the Governess ends the job, is open.           *)
(***************************************************************************)
EXTENDS Integers, Sequences, FiniteSets

CONSTANTS Setups,          \* the harnesses and kinds of request checked, each with its limits:
                           \* models (EMERGENCY_MAX_MODEL_CALLS) and siblings (maxSiblingToolCalls)
          MaxToolCalls,    \* the ceiling on tool calls (pi)
          MaxRejections,   \* MAX_CONSECUTIVE_BROKER_REJECTIONS
          MaxRepeats       \* MAX_CONSECUTIVE_IDENTICAL_TOOL_CALLS

VARIABLES setup,      \* the harness, the kind of the request, and the limits
          job,        \* the state of the job in the store
          pc,         \* where the worker is
          batch,      \* the calls of the model's reply that have not been looked at
          mem,        \* what the conversation counts and collects
          log,        \* tool-events.jsonl: the calls the broker answered
          patches     \* the patch artifacts, each as the proposals it holds
vars == <<setup, job, pc, batch, mem, log, patches>>

Kinds == {"edit", "command", "read", "plan"}
HelperConstants ==
  /\ {MaxToolCalls, MaxRejections, MaxRepeats} \subseteq Nat \ {0}
  /\ \A s \in Setups :
       /\ s.harness \in {"direct", "legacy", "pi"} /\ s.kind \in Kinds
       /\ {s.models, s.siblings} \subseteq Nat \ {0}
       /\ s.harness = "direct" => s.kind # "edit"

-----------------------------------------------------------------------------
(* The request.                                                            *)

\* The tool of a call; the calls of one tool differ in their arguments.
Tool(c) ==
  CASE c = "check" -> "run_check"
    [] c \in {"patch", "fix"} -> "propose_patch"
    [] c = "scan" -> "search_repo"
    [] OTHER -> "read_file"

\* The calls a model makes for a request of this kind.
Offered(k) ==
  CASE k = "edit" -> {"read", "patch", "fix"}
    [] k = "read" -> {"read", "scan"}
    [] OTHER -> {"read", "check"}

\* The exact calls of a request, in their order: the steps of a plan, and all that "direct" does.
Exact(k) == CASE k = "command" -> <<"check">> [] k = "read" -> <<"read">> [] OTHER -> <<"read", "check">>
Steps == IF setup.kind = "plan" THEN Exact("plan") ELSE << >>

\* The tools left when the budget for evidence is spent, and that budget.
Synthesis == CASE setup.kind = "edit" -> {"propose_patch"} [] setup.kind = "command" -> {"run_check"} [] OTHER -> {}
SynthesisLimit ==
  LET least(a, b) == IF a < b THEN a ELSE b
      most(a, b) == IF a > b THEN a ELSE b
      reserve == most(1, least(8, MaxToolCalls \div 4))
  IN  least(MaxToolCalls, most(most(1, MaxToolCalls - reserve), Len(Steps)))

-----------------------------------------------------------------------------
(* What the broker answers.  A plan lets through the tool of its current   *)
(* step alone, and goes on when the call did not fail; a check that ran    *)
(* and failed is an answer.                                                *)

Serves(c) == setup.kind # "plan" \/ (mem.step < Len(Steps) /\ Tool(c) = Tool(Steps[mem.step + 1]))
Answers(c) ==
  {"rejected"} \cup (IF Serves(c) THEN {"ok"} ELSE {})
               \cup (IF Serves(c) /\ Tool(c) = "run_check" THEN {"nonzero"} ELSE {})

\* Mutant: every rejected call counts, also the siblings of one reply.
Rejections_PerCall(out) == IF out # "rejected" THEN 0 ELSE mem.rejections + 1
\* consecutiveBrokerRejections: by the call in "legacy", by the reply it is in with "pi".
Rejections(out) ==
  IF out # "rejected" THEN 0
  ELSE IF setup.harness = "pi" /\ mem.rejectedAt = mem.model THEN mem.rejections
  ELSE mem.rejections + 1

\* What the worker keeps of an answer.
Collected(c, out) ==
  [mem EXCEPT !.used = @ + 1,
              !.good = IF out = "ok" THEN @ \cup {Tool(c)} ELSE @,
              !.step = IF out # "rejected" /\ setup.kind = "plan" THEN @ + 1 ELSE @,
              !.rejections = Rejections(out),
              !.rejectedAt = IF out = "rejected" THEN mem.model ELSE 0]

\* The fingerprint of a call, compared with that of the call before.
Noted(c) ==
  [mem EXCEPT !.last = c, !.repeats = IF c = mem.last THEN @ + 1 ELSE 1]

-----------------------------------------------------------------------------
Fresh == [model |-> 0, used |-> 0, last |-> "none", repeats |-> 0, rejections |-> 0, rejectedAt |-> 0,
          good |-> {}, step |-> 0, fatal |-> FALSE, summary |-> "none"]

Init ==
  /\ setup \in Setups
  /\ job = "running" /\ pc = "begin"
  /\ batch = << >> /\ mem = Fresh /\ log = << >> /\ patches = << >>

Active == job = "running"

\* The catch of the worker: the job has failed, unless somebody ended it before.
Fail ==
  /\ pc' = "done"
  /\ job' = IF Active THEN "failed" ELSE job
  /\ UNCHANGED <<setup, batch, log, patches>>
FailWith(m) == Fail /\ mem' = m
GoOn(where, m) == pc' = where /\ mem' = m /\ UNCHANGED <<setup, job, batch, log, patches>>

\* The workspace of the request is not the one adopted for it, or cannot be read; else the harness runs.
Begin ==
  /\ pc = "begin"
  /\ \/ FailWith(mem)
     \/ /\ pc' = IF setup.harness = "direct" THEN "calls" ELSE "talk"
        /\ batch' = IF setup.harness = "direct" THEN Exact(setup.kind) ELSE << >>
        /\ UNCHANGED <<setup, job, mem, log, patches>>

\* The Governess ends a job it finds stale, or that is canceled: at any moment.
EndedByGoverness ==
  /\ pc # "done" /\ Active
  /\ job' = "ended" /\ UNCHANGED <<setup, pc, batch, mem, log, patches>>

-----------------------------------------------------------------------------
(* A reply of the model: calls, or a text that ends the conversation.      *)

Replies(longest) == UNION {[1 .. n -> Offered(setup.kind)] : n \in 1 .. longest}
Texts == {"done", "insufficient"}
Heard(text) == [mem EXCEPT !.model = @ + 1, !.summary = IF text = "none" THEN @ ELSE text]

\* legacy: the job is checked, then the ceiling, then the model is asked; the deadline or the provider may fail.
Ask ==
  /\ pc = "talk" /\ setup.harness = "legacy"
  /\ \/ ~Active /\ FailWith(mem)
     \/ Active /\ mem.model >= setup.models /\ FailWith(mem)
     \/ Active /\ FailWith([mem EXCEPT !.model = @ + 1])
     \/ /\ Active /\ mem.model < setup.models
        /\ \/ \E r \in Replies(setup.siblings) :
                /\ batch' = r /\ mem' = Heard("none") /\ pc' = "calls"
                /\ UNCHANGED <<setup, job, log, patches>>
           \/ \E t \in Texts : GoOn("judge", Heard(t))

\* pi: what the worker does at the end of a message; with an error, a sibling too many or the last message
\* allowed, the session is to be aborted.
Round ==
  /\ pc = "talk" /\ setup.harness = "pi" /\ ~mem.fatal
  /\ \E r \in Replies(setup.siblings + 1) \cup {<< >>}, t \in Texts \cup {"none"}, error \in BOOLEAN :
       /\ r = << >> => t # "none" \/ error
       /\ mem' = [Heard(t) EXCEPT
                    !.fatal = error \/ Len(r) > setup.siblings \/ mem.model + 1 >= setup.models]
       /\ batch' = r
       /\ pc' = IF r = << >> \/ error THEN "judge" ELSE "calls"
       /\ UNCHANGED <<setup, job, log, patches>>

\* pi: the two timers of the worker, and the abort of the session, which comes after.
TimerStops ==
  /\ setup.harness = "pi" /\ pc \in {"talk", "calls", "broker"} /\ ~mem.fatal
  /\ mem' = [mem EXCEPT !.fatal = TRUE]
  /\ UNCHANGED <<setup, job, pc, batch, log, patches>>
Aborted ==
  /\ setup.harness = "pi" /\ pc \in {"talk", "calls"} /\ mem.fatal
  /\ pc' = "judge" /\ batch' = << >> /\ UNCHANGED <<setup, job, mem, log, patches>>

-----------------------------------------------------------------------------
(* A call on its way to the broker, which runs it while other things go on. *)

Skip(m) ==
  /\ mem' = m /\ batch' = Tail(batch)
  /\ pc' = IF Len(batch) = 1 THEN "talk" ELSE "calls"
  /\ UNCHANGED <<setup, job, log, patches>>

DirectCall ==
  /\ pc = "calls" /\ setup.harness = "direct"
  /\ IF Active THEN GoOn("broker", mem) ELSE FailWith(mem)

LegacyCall ==
  /\ pc = "calls" /\ setup.harness = "legacy"
  /\ LET m == Noted(Head(batch))
     IN  IF m.repeats >= MaxRepeats \/ ~Active THEN FailWith(m) ELSE GoOn("broker", m)

\* assertPiToolCallAllowed: what is refused goes back to the model as an error, and may be fatal.
Closed(c) == mem.used >= SynthesisLimit /\ Tool(c) \notin Synthesis
PiCall ==
  /\ pc = "calls" /\ setup.harness = "pi"
  /\ LET c == Head(batch)
         m == Noted(c)
     IN  IF ~Active \/ mem.used >= MaxToolCalls THEN Skip([mem EXCEPT !.fatal = TRUE])
         ELSE IF Closed(c) THEN Skip(mem)
         ELSE IF m.repeats >= MaxRepeats THEN Skip([m EXCEPT !.fatal = TRUE])
         ELSE GoOn("broker", m)

\* The broker answers the call; what follows depends on the harness.
Answered ==
  /\ pc = "broker"
  /\ LET c == Head(batch)
     IN  \E out \in Answers(c) :
           LET m == Collected(c, out)
               spent == m.rejections >= MaxRejections
               fails == \/ setup.harness = "direct" /\ out # "ok"
                        \/ setup.harness = "legacy" /\ spent
           IN  /\ log' = Append(log, [call |-> c, out |-> out, round |-> mem.model])
               /\ patches' = IF out = "ok" /\ Tool(c) = "propose_patch" THEN Append(patches, <<c>>) ELSE patches
               /\ mem' = [m EXCEPT !.fatal = @ \/ (setup.harness = "pi" /\ spent)]
               /\ batch' = Tail(batch)
               /\ pc' = IF fails THEN "done"
                        ELSE IF Len(batch) > 1 THEN "calls"
                        ELSE IF setup.harness = "direct" THEN "judge" ELSE "talk"
               /\ job' = IF fails /\ Active THEN "failed" ELSE job
               /\ UNCHANGED setup

-----------------------------------------------------------------------------
(* The end: the plan must be complete and the evidence there; the patches  *)
(* of an edit become one; the result is recorded if the job is still ours. *)

Evidence ==
  CASE setup.kind = "edit" -> "propose_patch" \in mem.good /\ patches # << >>
    [] setup.kind = "command" -> "run_check" \in mem.good
    [] OTHER -> mem.good # {}
Judge ==
  /\ pc = "judge"
  /\ IF mem.fatal THEN FailWith(mem)
     ELSE IF mem.summary = "insufficient" THEN GoOn("escalate", mem)
     ELSE IF mem.step # Len(Steps) \/ ~Evidence THEN FailWith(mem)
     ELSE GoOn(IF setup.kind = "edit" /\ Len(patches) > 1 THEN "merge" ELSE "report", mem)

\* consolidateEditArtifacts: the broker takes the patches put together as one more proposal.
Merge ==
  /\ pc = "merge"
  /\ \/ FailWith(mem)
     \/ /\ patches' = <<[i \in 1 .. Len(patches) |-> patches[i][1]]>>
        /\ pc' = "report" /\ UNCHANGED <<setup, job, batch, mem, log>>

\* The transition of the store refuses a job that was ended; then nothing is left to do.
Report ==
  /\ pc \in {"report", "escalate"}
  /\ pc' = "done"
  /\ job' = IF ~Active THEN job ELSE IF pc = "report" THEN "completed" ELSE "escalated"
  /\ UNCHANGED <<setup, batch, mem, log, patches>>

Next ==
  \/ Begin \/ EndedByGoverness \/ Ask \/ Round \/ TimerStops \/ Aborted \/ DirectCall \/ LegacyCall
  \/ PiCall \/ Answered \/ Judge \/ Merge \/ Report
Spec == Init /\ [][Next]_vars

-----------------------------------------------------------------------------
Everything == {"read", "scan", "check", "patch", "fix"}
TypeOK ==
  /\ setup \in Setups /\ job \in {"running", "ended", "failed", "completed", "escalated"}
  /\ pc \in {"begin", "talk", "calls", "broker", "judge", "merge", "report", "escalate", "done"}
  /\ batch \in Seq(Everything)
  /\ mem \in [model : 0 .. setup.models + 1, used : Nat, last : Everything \cup {"none"},
              repeats : Nat, rejections : 0 .. MaxRejections, rejectedAt : Nat,
              good : SUBSET {"read_file", "search_repo", "run_check", "propose_patch"},
              step : 0 .. Len(Steps), fatal : BOOLEAN, summary : Texts \cup {"none"}]
  /\ log \in Seq([call : Everything, out : {"ok", "nonzero", "rejected"}, round : Nat])
  /\ patches \in Seq(Seq(Everything))

Taken(entries, outs) == SelectSeq(entries, LAMBDA e : e.out \in outs)
Made(entries) == [i \in 1 .. Len(entries) |-> entries[i].call]

(* A completed job has what was asked for, by the journal of the broker:   *)
(* for an edit one patch that holds every proposal the broker took, for a  *)
(* command a check that succeeded, for a plan each of its steps once and   *)
(* in its order, for an inspection something read.                         *)
CompletedWithEvidence ==
  job = "completed" =>
    LET ok == Made(Taken(log, {"ok"}))
    IN  CASE setup.kind = "edit" ->
               patches = <<SelectSeq(ok, LAMBDA c : Tool(c) = "propose_patch")>> /\ patches[1] # << >>
          [] setup.kind = "command" -> \E i \in DOMAIN ok : Tool(ok[i]) = "run_check"
          [] setup.kind = "plan" -> Made(Taken(log, {"ok", "nonzero"})) = Exact("plan")
          [] OTHER -> ok # << >>

(* Whatever the replies, no call runs a third time in a row; with pi the   *)
(* evidence leaves room for the call that must produce the result: the     *)
(* calls to the other tools stay within the limit of the evidence.         *)
WithinBudget ==
  /\ setup.harness # "direct" =>
       \A i \in 1 .. Len(log) - (MaxRepeats - 1) :
         \E k \in 1 .. MaxRepeats - 1 : log[i + k].call # log[i].call
  /\ setup.harness = "pi" =>
       /\ Len(log) <= MaxToolCalls
       /\ Cardinality({i \in DOMAIN log : Tool(log[i].call) \notin Synthesis}) <= SynthesisLimit

\* The replies, or for "legacy" the calls, that were rejected after the last call that was not.
RejectedSince ==
  LET n == Len(log)
      tail == {i \in 1 .. n : \A j \in i .. n : log[j].out = "rejected"}
  IN  IF setup.harness = "pi" THEN Cardinality({log[i].round : i \in tail}) ELSE Cardinality(tail)

(* The count of rejections is the one of the journal: it neither counts    *)
(* the siblings of one reply of a pi session apart nor survives a call     *)
(* that went through; and no job is completed after too many.              *)
RejectionsCounted ==
  setup.harness # "direct" =>
    /\ mem.rejections = RejectedSince
    /\ job = "completed" => RejectedSince < MaxRejections

\* What HelperConversation promises.
HelperKept == CompletedWithEvidence /\ WithinBudget /\ RejectionsCounted

=============================================================================
