------------------------------- MODULE ModelCall -------------------------------
(***************************************************************************)
(* One call of a model.  The helpers of the legacy harness use an HTTP     *)
(* client of their own, which repeats a request that was refused for now;  *)
(* the Governess has five questions for the local model, which go through  *)
(* pi and are answered in JSON, with or without its thoughts.              *)
(***************************************************************************)
EXTENDS Naturals, Sequences, FiniteSets, SequencesExt, FiniteSetsExt

CONSTANTS Timeout, InnerTimeout,              \* of an attempt, or of the question; of pi
          DefaultRetries, RetryCap, BaseDelay, MaxDelay,
          Contents,                           \* what the model may write, piece by piece
          MaxSlow                             \* bound: time spent on a body, or on the start of pi

VARIABLES conf,      \* the client, what is asked, the retries asked for, whether a candidate or an objective is given
          now, slow, \* the time since the call; how much of it no timer covers
          pc,
          due,       \* the timer that runs, if any
          outer,     \* the timer of the question, while it runs; and whether its abort was missed
          log,       \* the answers of the provider: status, tokens charged
          attempts,
          result
vars == <<conf, now, slow, pc, due, outer, log, attempts, result>>

CallConstants ==
  /\ {Timeout, InnerTimeout, DefaultRetries, RetryCap, BaseDelay, MaxDelay, MaxSlow} \subseteq Nat
  /\ Timeout > 0

Unset == RetryCap + 2
Open == [ok |-> FALSE, why |-> "none", tokens |-> 0, acts |-> FALSE, text |-> << >>]
Failed(why, tokens) == [Open EXCEPT !.why = why, !.tokens = tokens]
Questions == {"judge", "summary", "pane-label", "waiting", "role-balance"}

Init ==
  /\ \/ conf \in [client : {"http"}, asks : {"chat"}, retries : 0..Unset, given : {FALSE}] /\ pc = "send"
     \/ conf \in [client : {"pi"}, asks : Questions, retries : {0}, given : BOOLEAN] /\ pc = "create"
  /\ now = 0 /\ slow = 0 /\ due = {} /\ log = << >> /\ attempts = 0 /\ result = Open
  /\ outer = [at |-> IF conf.client = "pi" THEN {Timeout} ELSE {}, missed |-> FALSE]

Ends(r) == pc' = "done" /\ result' = r /\ due' = {} /\ outer' = [outer EXCEPT !.at = {}]

\* Time passes up to the timer that is next.
Tick ==
  /\ pc \notin {"send", "done"} /\ now \notin due \cup outer.at /\ now' = now + 1
  /\ IF pc \in {"body", "create"} THEN slow < MaxSlow /\ slow' = slow + 1 ELSE UNCHANGED slow
  /\ UNCHANGED <<conf, pc, due, outer, log, attempts, result>>

-----------------------------------------------------------------------------
(* openAICompatibleChat                                                    *)

\* boundedInteger
Retries == IF conf.retries = Unset THEN DefaultRetries ELSE Min({RetryCap, conf.retries})
Retryable(status) == status \in {"busy", "broken"}
\* Mutant: the header is followed however long it asks for.
Delay_Asked(asked) ==
  IF asked # Unset THEN asked ELSE Min({MaxDelay, BaseDelay * 2^(attempts - 1)})
Delay(asked) == Min({MaxDelay, IF asked # Unset THEN asked ELSE BaseDelay * 2^(attempts - 1)})

Send ==
  /\ pc = "send" /\ pc' = "fetch" /\ attempts' = attempts + 1 /\ due' = {now + Timeout}
  /\ UNCHANGED <<conf, now, slow, outer, log, result>>
\* The network fails, or the timer aborts: neither is repeated.
FetchFails ==
  /\ pc = "fetch" /\ \E why \in {"network"} \cup (IF now \in due THEN {"timeout"} ELSE {}) : Ends(Failed(why, 0))
  /\ UNCHANGED <<conf, now, slow, log, attempts>>
\* The timer is cleared with the headers.
Headers(status) ==
  /\ pc = "fetch" /\ pc' = "body" /\ due' = {}
  /\ log' = Append(log, [status |-> status, tokens |-> 0, text |-> << >>])
  /\ UNCHANGED <<conf, now, slow, outer, attempts, result>>
\* readResponse, parseCompletion: an answer has text or well-formed tool calls.
Body(payload, tokens, asked) ==
  LET status == Last(log).status
      told == IF payload = "unreadable" THEN 0 ELSE tokens
  IN  /\ pc = "body"
      /\ log' = [log EXCEPT ![Len(log)].tokens = tokens]
      /\ IF status # "ok" /\ Retryable(status) /\ attempts <= Retries
         THEN pc' = "sleep" /\ due' = {now + Delay(asked)} /\ UNCHANGED <<result, outer>>
         ELSE Ends(CASE status # "ok" -> Failed("http", told)
                     [] payload \in {"unreadable", "no choice"} -> Failed("invalid-response", told)
                     [] OTHER -> [Open EXCEPT !.ok = TRUE, !.tokens = told])
      /\ UNCHANGED <<conf, now, slow, attempts>>
Wake ==
  /\ pc = "sleep" /\ now \in due /\ pc' = "send" /\ due' = {}
  /\ UNCHANGED <<conf, now, slow, outer, log, attempts, result>>

-----------------------------------------------------------------------------
(* The questions of the Governess, through completePiText                  *)

\* createPiSessionRuntime: nobody listens for the abort yet.
Created ==
  /\ pc = "create" /\ pc' = "complete" /\ due' = {now + InnerTimeout} /\ attempts' = 1
  /\ UNCHANGED <<conf, now, slow, outer, log, result>>
Abort ==
  /\ now \in outer.at
  /\ IF pc = "create"
     THEN outer' = [at |-> {}, missed |-> TRUE] /\ UNCHANGED <<pc, due, result>>
     ELSE Ends(Failed("unreachable", 0))
  /\ UNCHANGED <<conf, now, slow, log, attempts>>
\* Pi says "aborted" or "error", which piChatFetch throws as an error like any other.
PiFails ==
  /\ pc \in {"create", "complete"} /\ Ends(Failed("unreachable", 0))
  /\ UNCHANGED <<conf, now, slow, log, attempts>>

\* stripThinkBlocks: from a "<think>" to the next "</think>"; a block that is not closed stays.
InBlock(text, i) ==
  \E j \in 1..i, k \in i..Len(text) :
    text[j] = "<think>" /\ text[k] = "</think>" /\ \A h \in j..(k - 1) : text[h] # "</think>"
Pieces(text, S) == [i \in 1..Cardinality(S) |-> text[SetToSortSeq(S, <)[i]]]
\* Mutant: the tags go, the thoughts stay.
Stripped_Tags(text) == Pieces(text, {i \in DOMAIN text : text[i] \notin {"<think>", "</think>"}})
Stripped(text) == Pieces(text, {i \in DOMAIN text : ~InBlock(text, i)})
\* extractFirstJsonObject: a brace that is never closed swallows what follows.
Braces == {"brace", "yes", "other", "no"}
FirstObject(text) ==
  LET at == {i \in DOMAIN text : text[i] \in Braces}
  IN  IF at = {} \/ text[Min(at)] = "brace" THEN "none" ELSE text[Min(at)]
\* anchorSummaryObjective
Anchored(text) ==
  LET first(p) == Min({i \in DOMAIN text : text[i] = p})
  IN  CASE Contains(text, "objective") -> [text EXCEPT ![first("objective")] = "given"]
        [] Contains(text, "project") -> InsertAt(text, first("project") + 1, "given")
        [] OTHER -> <<"given">> \o text
\* usageWithFallback: what is not reported is estimated, from the prompt at least.
Usage(tokens) == IF tokens > 0 THEN tokens ELSE 1

\* In an answer "yes" is an object that says to act, "other" one with an unknown state, a name that was not
\* asked about or a value of another type.
Object(text) == FirstObject(Stripped(text))
Acts(tokens, acts) == [Open EXCEPT !.ok = TRUE, !.tokens = Usage(tokens), !.acts = acts]
\* parseVerdict: an unknown state is no verdict.
Verdict(text, tokens) == IF Object(text) = "yes" THEN Acts(tokens, TRUE) ELSE Failed("malformed", 0)
Summary(text, tokens) ==
  [Acts(tokens, FALSE) EXCEPT !.text = IF conf.given THEN Anchored(Stripped(text)) ELSE Stripped(text)]
\* parsePaneLabels: a name that nobody asked about is kept.
Labels(text, tokens) == Acts(tokens, Object(text) \in {"yes", "other"})
\* asWaiting: only true is true.
Waiting(text, tokens) == Acts(tokens, Object(text) = "yes")
\* asRoleBalance: where there is a candidate, another agent is none.
Balance(text, tokens) == Acts(tokens, Object(text) = "yes" \/ (Object(text) = "other" /\ ~conf.given))
Understood(text, tokens) ==
  CASE conf.asks = "judge" -> Verdict(text, tokens)
    [] conf.asks = "summary" -> Summary(text, tokens)
    [] conf.asks = "pane-label" -> Labels(text, tokens)
    [] conf.asks = "waiting" -> Waiting(text, tokens)
    [] OTHER -> Balance(text, tokens)
Completes(text, tokens) ==
  /\ pc = "complete" /\ Ends(Understood(text, tokens))
  /\ log' = Append(log, [status |-> "ok", tokens |-> tokens, text |-> text])
  /\ UNCHANGED <<conf, now, slow, attempts>>
\* The timer that completePiText has of its own.
InnerAbort ==
  /\ pc = "complete" /\ now \in due /\ Ends(Failed("unreachable", 0))
  /\ UNCHANGED <<conf, now, slow, log, attempts>>

Next ==
  \/ Tick \/ Send \/ FetchFails \/ Wake
  \/ \E s \in {"ok", "busy", "broken", "refused"} : Headers(s)
  \/ \E p \in {"unreadable", "no choice", "answer"}, t \in 0..1, a \in {0, MaxDelay + 2, Unset} : Body(p, t, a)
  \/ Created \/ Abort \/ PiFails \/ InnerAbort
  \/ \E c \in Contents, t \in {0, 2} : Completes(c, t)
Spec == Init /\ [][Next]_vars

-----------------------------------------------------------------------------
TypeOK ==
  /\ pc \in {"send", "fetch", "body", "sleep", "create", "complete", "done"}
  /\ {now, slow, attempts} \cup due \cup outer.at \subseteq Nat /\ outer.missed \in BOOLEAN
  /\ result.acts => result.ok

\* A call is over in time: the attempts and the waits between them have their limits, and so has a question;
\* but for a body that trickles in, and for an abort that came while pi was being started, which leaves the
\* longer timer of pi.  (The cycle of the Governess waits for its judges.)
InTime ==
  pc # "done" =>
    CASE conf.client = "http" -> now <= slow + (Retries + 1) * Timeout + Retries * MaxDelay
      [] outer.missed -> now <= slow + InnerTimeout
      [] OTHER -> now <= Timeout

\* A request is sent again only if the last one was refused for now, and an answer is the last one of all.
RepeatedForCause ==
  /\ attempts <= Retries + 1 /\ Len(log) <= attempts
  /\ \A i \in 1..(attempts - 1) : i <= Len(log) /\ Retryable(log[i].status)
  /\ (conf.client = "http" /\ result.ok) => Len(log) = attempts /\ Last(log).status = "ok"

\* What the last answer cost is told with the result, unless it could not be read or the judge was not
\* understood; the answers before it are not counted.
Accounted ==
  (pc = "done" /\ log # << >> /\ Len(log) = attempts /\ result.why \notin {"invalid-response", "http", "malformed"}) =>
    result.tokens >= Last(log).tokens

\* The Governess acts on what the model concluded, not on what it thought on the way, unless its thoughts
\* were cut off before their end; and the objective that was given comes before any other in a summary.
Concluded ==
  LET text == Last(log).text
      tags(i) == {j \in 1..i : text[j] \in {"<think>", "</think>"}}
      thought(i) == tags(i) # {} /\ text[Max(tags(i))] = "<think>"
  IN  /\ result.acts =>
           \/ \E i \in DOMAIN text : text[i] \in {"yes", "other"} /\ ~thought(i)
           \/ thought(Len(text))
      /\ (conf.asks = "summary" /\ conf.given /\ result.ok) =>
           \E i \in DOMAIN result.text :
             result.text[i] = "given" /\ \A j \in 1..(i - 1) : result.text[j] # "objective"

\* Of a call: over in time, repeated for a cause, paid for, and understood as it was meant.
CallKept == InTime /\ RepeatedForCause /\ Accounted /\ Concluded
=============================================================================
