----------------------------- MODULE CodexInject -----------------------------
(***************************************************************************)
(* injectCodexMessage (codex-app-server.ts): a bridge message becomes a    *)
(* turn of Codex, or joins the one that runs.  The thread is read first,   *)
(* and by the time of the request its turn may have ended, or another one  *)
(* begun; an answer may be lost with the connection or not come in time.   *)
(***************************************************************************)
EXTENDS Integers

CONSTANTS
  MaxTurns,   \* bound on the turns others begin
  MaxLost     \* bound on answers that do not come

InjectConstants == {MaxTurns, MaxLost} \subseteq Nat

VARIABLES
  thread,   \* the server: whether the thread is loaded, its running turn or 0, turns so far
  open,     \* the connection is open
  pc,       \* the request that is next
  attempt,  \* of the loop
  seen,     \* activeTurnId
  taken,    \* how often the server took the prompt
  result,   \* "none", "true", "false" or "error"
  lost      \* answers that did not come, or said too little

vars == <<thread, open, pc, attempt, seen, taken, result, lost>>

Init ==
  /\ thread \in [loaded : BOOLEAN, turn : {0, 1}, count : {1}]
  /\ open = TRUE /\ pc = "initialize" /\ attempt = 0 /\ seen = 0 /\ taken = 0 /\ result = "none" /\ lost = 0

\* How a request ends: with its answer, an error, no answer in time, or the connection closed;
\* in the last two the server may have acted.  On a closed connection nothing is sent.
Answers == {"ok", "error", "late", "closed"}
Sent(a, acts) ==
  /\ result = "none"
  /\ IF ~open THEN a = "closed" /\ ~acts /\ UNCHANGED <<open, lost>>
     ELSE /\ a \in {"late", "closed"} => lost < MaxLost
          /\ lost' = IF a \in {"late", "closed"} THEN lost + 1 ELSE lost
          /\ open' = (a # "closed")
          /\ a = "ok" => acts
          /\ a = "error" => ~acts
Return(word) == result' = word /\ UNCHANGED pc
Go(next) == pc' = next /\ UNCHANGED result

Initialize(a) ==
  /\ pc = "initialize" /\ Sent(a, a = "ok")
  /\ IF a = "ok" THEN Go("read") ELSE Return("error")
  /\ UNCHANGED <<thread, attempt, seen, taken>>

\* A thread that is not loaded cannot be read, and is resumed.
Read(a) ==
  /\ pc = "read" /\ Sent(a, a = "ok") /\ (a = "ok" => thread.loaded)
  /\ IF a = "ok" THEN seen' = thread.turn /\ Go(IF thread.turn = 0 THEN "start" ELSE "steer")
     ELSE Go("resume") /\ UNCHANGED seen
  /\ UNCHANGED <<thread, attempt, taken>>
Resume(a) ==
  /\ pc = "resume" /\ Sent(a, a = "ok")
  /\ IF a = "ok" THEN seen' = thread.turn /\ thread' = [thread EXCEPT !.loaded = TRUE]
                      /\ Go(IF thread.turn = 0 THEN "start" ELSE "steer")
     ELSE Return("error") /\ UNCHANGED <<thread, seen>>
  /\ UNCHANGED <<attempt, taken>>

\* Mutant: a steer that was taken does not end the call.
Steered_GoesOn(a) == Go("start")
\* Whatever went wrong with the steer, the turn may just have ended.
Steered(a) == IF a = "ok" THEN Return("true") ELSE Go("start")

\* The prompt joins the turn that was seen, if it still runs.
Steer(a) ==
  /\ pc = "steer"
  /\ \E acts \in BOOLEAN :
       /\ Sent(a, acts) /\ (acts => thread.turn = seen)
       /\ taken' = IF acts THEN taken + 1 ELSE taken
  /\ Steered(a)
  /\ UNCHANGED <<thread, attempt, seen>>

\* A turn of its own, where none runs.  Refused for a busy thread, the call looks once more.
Start(a) ==
  /\ pc = "start"
  /\ \E acts, busy \in BOOLEAN :
       /\ Sent(a, acts) /\ (acts => thread.turn = 0)
       /\ (busy => a = "error" /\ thread.turn # 0)
       /\ taken' = IF acts THEN taken + 1 ELSE taken
       /\ thread' = IF acts THEN [thread EXCEPT !.turn = thread.count + 1, !.count = @ + 1] ELSE thread
       /\ IF a = "ok" THEN Return("true") /\ UNCHANGED attempt
          ELSE IF busy /\ attempt = 0 THEN Go("read") /\ attempt' = 1
          ELSE Return("error") /\ UNCHANGED attempt
  /\ UNCHANGED seen

\* The turns of the agent itself, and an eviction while none runs.
TurnEnds == thread.turn # 0 /\ thread' = [thread EXCEPT !.turn = 0] /\ UNCHANGED <<open, pc, attempt, seen, taken, result, lost>>
TurnBegins ==
  /\ thread.turn = 0 /\ thread.count < MaxTurns
  /\ thread' = [loaded |-> TRUE, turn |-> thread.count + 1, count |-> thread.count + 1]
  /\ UNCHANGED <<open, pc, attempt, seen, taken, result, lost>>
Evicted ==
  /\ thread.turn = 0 /\ thread.loaded /\ thread' = [thread EXCEPT !.loaded = FALSE]
  /\ UNCHANGED <<open, pc, attempt, seen, taken, result, lost>>

Next ==
  \/ \E a \in Answers : Initialize(a) \/ Read(a) \/ Resume(a) \/ Steer(a) \/ Start(a)
  \/ TurnEnds \/ TurnBegins \/ Evicted
Spec == Init /\ [][Next]_vars

-----------------------------------------------------------------------------
TypeOK ==
  /\ thread.loaded \in BOOLEAN /\ {thread.turn, thread.count, seen, taken, lost} \subseteq Nat
  /\ open \in BOOLEAN /\ attempt \in 0..1
  /\ pc \in {"initialize", "read", "resume", "steer", "start"}
  /\ result \in {"none", "true", "false", "error"}

\* A call that returns true has put its prompt into exactly one turn, one that fails into none,
\* unless an answer did not come; and only an answer that came too late, not a connection that
\* was lost, lets one call give its prompt twice.
InjectKept ==
  /\ result = "true" => taken >= 1
  /\ lost = 0 => taken <= 1 /\ (result = "error" => taken = 0)
  /\ ~open => taken <= lost + (IF result = "true" THEN 1 ELSE 0)
=============================================================================
