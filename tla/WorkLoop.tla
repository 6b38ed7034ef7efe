------------------------------ MODULE WorkLoop ------------------------------
(***************************************************************************)
(* The loop itself (paired-loop.ts, single-loop.ts, review.ts): an agent   *)
(* works on a task until its output has the done signal, reviewers pass or *)
(* comment, comments go into the next prompt.  A paired run also forwards  *)
(* the messages of the bridge, and keeps its state in the manifest, which  *)
(* a later run resumes.                                                    *)
(***************************************************************************)
EXTENDS Integers, Sequences

CONSTANTS
  Primary, Peer,   \* the agents: who works, who reviews in a paired run
  MaxIterations,   \* --max-iterations
  MaxHops,         \* MAX_BRIDGE_HOPS
  MaxMsgs,         \* bound on the messages the agents send
  MaxFollowUps,    \* bound on the prompts of the human
  MaxCrashes,
  Outputs          \* of a review: exit code, and the lines of both forms of the output

Line == {"pass", "fail", "text", "blank"}
LoopConstants ==
  /\ Primary # Peer /\ MaxIterations \in Nat \ {0}
  /\ {MaxHops, MaxMsgs, MaxFollowUps, MaxCrashes} \subseteq Nat
  /\ Outputs \subseteq [code : 0..1, parsed : Seq(Line), combined : Seq(Line)]

VARIABLES
  setup,     \* paired or single, whether a human can answer, and the reviewers
  state,     \* of the run: manifest.json, or what a single run says as it ends
  pc, ret,   \* where the loop is, and where a drain returns to
  i,         \* the iteration
  out,       \* the outcome of the work turn: "errs", "ends" or "signal"
  notes,     \* reviewNotes: whose comments the next prompt will have
  owed,      \* whose comments on the last work are in no prompt and no message yet
  said,      \* the outputs of the reviewers of the last work turn
  earned,    \* since the last work turn: "nothing", "signal", "approved" or "pr"
  queue, msg, \* the pending messages, by id in the order they were sent; the one being forwarded
  count,     \* messages sent
  hops, toPrimary, \* of the drain: messages forwarded, and whether one was for the primary
  prompts, crashes

vars == <<setup, state, pc, ret, i, out, notes, owed, said, earned, queue, msg, count, hops,
          toPrimary, prompts, crashes>>
bridge == <<queue, msg, count>>
review == <<notes, owed, said, earned>>
drain == <<ret, hops, toPrimary>>
bounds == <<prompts, crashes, setup>>
Pair == {Primary, Peer}
Final == {"completed", "failed", "stopped"}
Paired == setup.paired
NoMsg == [id |-> 0, to |-> Primary]

Init ==
  /\ setup \in [paired : {TRUE}, human : BOOLEAN, reviewers : {{Peer}}]
               \cup [paired : {FALSE}, human : BOOLEAN, reviewers : {{}, {Peer}, Pair}]
  /\ state = "submitted"
  /\ pc = "begin" /\ ret = "none" /\ i = 0 /\ out = "none" /\ notes = {} /\ owed = {} /\ said = << >>
  /\ earned = "nothing" /\ queue = {} /\ msg = NoMsg /\ count = 0 /\ hops = 0 /\ toPrimary = FALSE
  /\ prompts = 0 /\ crashes = 0

-----------------------------------------------------------------------------
Enter(s) == state' = IF Paired THEN s ELSE state
Finish(s) == pc' = "over" /\ state' = s

\* A drain of the bridge, then `to`; a single run has none.
DrainThen(to) == pc' = "drain" /\ ret' = to /\ hops' = 0 /\ toPrimary' = FALSE
NextIteration ==
  IF i < MaxIterations
  THEN i' = i + 1 /\ IF Paired THEN DrainThen("pre") ELSE pc' = "prompt" /\ UNCHANGED drain
  ELSE pc' = "exhausted" /\ UNCHANGED <<i, drain>>

\* The start: a run that waits for its human goes on with the answer, the sessions may not start.
Begin ==
  /\ pc = "begin"
  /\ IF state = "input-required"
     THEN /\ IF setup.human THEN pc' = "ask" /\ UNCHANGED state ELSE Finish("stopped")
          /\ UNCHANGED <<i, drain>>
     ELSE \/ Enter("working") /\ i' = 1
             /\ IF Paired THEN DrainThen("pre") ELSE pc' = "prompt" /\ UNCHANGED drain
          \/ Paired /\ i = 0 /\ Finish("failed") /\ UNCHANGED <<i, drain>>
  /\ UNCHANGED <<out, review, bridge, bounds>>

-----------------------------------------------------------------------------
(* The bridge.                                                             *)

\* The first message goes to a turn of its target, and is acknowledged when that turn ends well.
Forward ==
  /\ pc = "drain" /\ queue # {} /\ hops < MaxHops
  /\ pc' = "forward" /\ msg' = CHOOSE e \in queue : \A f \in queue : e.id <= f.id
  /\ UNCHANGED <<state, drain, i, out, review, queue, count, bounds>>
Forwarded ==
  /\ pc = "forward"
  /\ queue' = {e \in queue : e.id # msg.id}
  /\ toPrimary' = (toPrimary \/ msg.to = Primary)
  /\ hops' = hops + 1 /\ pc' = "drain"
  /\ UNCHANGED <<state, ret, i, out, review, msg, count, bounds>>
\* A turn that fails leaves the message queued and ends the drain.
ForwardFails ==
  /\ pc = "forward" /\ pc' = ret
  /\ UNCHANGED <<state, drain, i, out, review, bridge, bounds>>
DrainEnds ==
  /\ pc = "drain" /\ (queue = {} \/ hops = MaxHops) /\ pc' = ret
  /\ UNCHANGED <<state, drain, i, out, review, bridge, bounds>>

-----------------------------------------------------------------------------
(* The work.                                                               *)

\* Mail for the primary was its work for this iteration.
BeforeWork ==
  /\ pc = "pre"
  /\ IF toPrimary THEN NextIteration ELSE pc' = "prompt" /\ UNCHANGED <<i, drain>>
  /\ UNCHANGED <<state, out, review, bridge, bounds>>

\* The prompt has the comments, once; what becomes of the turn does not matter to them.
Prompt ==
  /\ pc = "prompt"
  /\ owed' = owed \ notes /\ notes' = {} /\ earned' = "nothing" /\ said' = << >> /\ pc' = "work"
  /\ UNCHANGED <<state, drain, i, out, bridge, bounds>>
\* The turn errs, exits with a code, ends, or ends with the done signal.
Work(o) ==
  /\ pc = "work"
  /\ out' = o
  /\ IF Paired THEN DrainThen("worked") ELSE pc' = "worked" /\ UNCHANGED drain
  /\ UNCHANGED <<state, i, review, bridge, bounds>>
\* Only the output of the work turn can be done, not that of a turn of the drain.
Worked ==
  /\ pc = "worked"
  /\ IF out # "signal" THEN NextIteration /\ UNCHANGED <<state, earned>>
     ELSE /\ earned' = "signal"
          /\ IF setup.reviewers = {} THEN Finish("completed") ELSE pc' = "review" /\ Enter("reviewing")
          /\ UNCHANGED <<i, drain>>
  /\ UNCHANGED <<out, notes, owed, said, bridge, bounds>>

\* The parsed output if it has a signal, else the combined one: its last line must be the signal.
Signals(t) == {n \in DOMAIN t : t[n] \in {"pass", "fail"}}
\* The last line that is not blank, if there is one.
FinalLine(t) == {n \in DOMAIN t : t[n] # "blank" /\ \A k \in DOMAIN t : k > n => t[k] = "blank"}
Text(o) == IF Signals(o.parsed) # {} THEN o.parsed ELSE o.combined
\* Mutant: the last line decides, whatever came before it.
Passes_LastLine(o) ==
  LET t == Text(o) IN o.code = 0 /\ FinalLine(t) # {} /\ \A n \in FinalLine(t) : t[n] = "pass"
Passes(o) ==
  LET t == Text(o) IN
  /\ o.code = 0 /\ FinalLine(t) # {} /\ FinalLine(t) \subseteq Signals(t)
  /\ \A n \in Signals(t) : t[n] = "pass"

\* The reviewers answer together; one that errs, or says anything but a clean pass, fails the work.
Review(outs) ==
  /\ pc = "review" /\ said' = outs
  /\ owed' = {r \in setup.reviewers : ~Passes(outs[r])}
  /\ earned' = IF owed' = {} THEN "approved" ELSE earned
  /\ IF Paired THEN DrainThen("decide") ELSE pc' = "decide" /\ UNCHANGED drain
  /\ UNCHANGED <<state, i, out, notes, bridge, bounds>>

\* Without approval the comments go into the next prompt, unless mail reached the primary meanwhile.
Decide ==
  /\ pc = "decide"
  /\ IF earned = "approved" THEN pc' = "pr" /\ UNCHANGED <<state, i, drain, notes, owed>>
     ELSE /\ owed' = IF toPrimary THEN owed \cap {Primary} ELSE owed
          /\ notes' = owed'
          /\ Enter("working") /\ NextIteration
  /\ UNCHANGED <<out, said, earned, bridge, bounds>>
\* The draft pull request is a turn of the primary; when it fails, so does the run.
DraftPr(ok) ==
  /\ pc = "pr"
  /\ earned' = IF ok THEN "pr" ELSE earned
  /\ Finish(IF ok THEN "completed" ELSE "failed")
  /\ UNCHANGED <<drain, i, out, notes, owed, said, bridge, bounds>>

\* Out of iterations: the human may answer, comments that have not been in a prompt are gone.
Exhausted ==
  /\ pc = "exhausted"
  /\ owed' = {} /\ notes' = {}
  /\ IF setup.human THEN pc' = "ask" /\ Enter("input-required") ELSE Finish("stopped")
  /\ UNCHANGED <<drain, i, out, said, earned, bridge, bounds>>
Answer(text) ==
  /\ pc = "ask"
  /\ IF text THEN /\ prompts < MaxFollowUps /\ prompts' = prompts + 1 /\ Enter("working") /\ pc' = "begin"
     ELSE Finish("stopped") /\ UNCHANGED prompts
  /\ UNCHANGED <<drain, i, out, review, bridge, crashes, setup>>

-----------------------------------------------------------------------------
(* The agents, while one of them has a turn, and the process.              *)

Running == pc \in {"forward", "work", "review", "pr"}
Sends(t) ==
  /\ Paired /\ Running /\ count < MaxMsgs
  /\ count' = count + 1 /\ queue' = queue \cup {[id |-> count + 1, to |-> t]}
  /\ UNCHANGED <<state, pc, drain, i, out, review, msg, bounds>>
Receives(t) ==
  /\ Running /\ \E e \in queue : e.to = t
  /\ queue' = {e \in queue : e.to # t}
  /\ UNCHANGED <<state, pc, drain, i, out, review, msg, count, bounds>>

\* A signal ends the process where it stands; a run that is resumed starts from its manifest.
Crash ==
  /\ pc \notin {"over", "dead"} /\ crashes < MaxCrashes
  /\ crashes' = crashes + 1 /\ pc' = "dead" /\ i' = 0
  /\ notes' = {} /\ owed' = {} /\ said' = << >> /\ earned' = "nothing"
  /\ UNCHANGED <<state, drain, out, bridge, prompts, setup>>
Resume ==
  /\ Paired /\ pc = "dead" /\ pc' = "begin"
  /\ UNCHANGED <<state, drain, i, out, review, bridge, bounds>>

Next ==
  \/ Begin \/ Forward \/ Forwarded \/ ForwardFails \/ DrainEnds
  \/ BeforeWork \/ Prompt \/ Worked \/ \E o \in {"errs", "ends", "signal"} : Work(o)
  \/ \E outs \in [setup.reviewers -> Outputs] : Review(outs)
  \/ Decide \/ \E o \in BOOLEAN : DraftPr(o) \/ Answer(o)
  \/ Exhausted \/ Crash \/ Resume
  \/ \E t \in Pair : Sends(t) \/ Receives(t)
Spec == Init /\ [][Next]_vars

-----------------------------------------------------------------------------
\* The type invariant: iterations, hops and messages stay within their limits.
TypeOK ==
  /\ state \in Final \cup {"submitted", "working", "reviewing", "input-required"}
  /\ i \in 0..MaxIterations /\ hops \in 0..MaxHops /\ count \in 0..MaxMsgs
  /\ notes \subseteq Pair /\ owed \subseteq Pair /\ toPrimary \in BOOLEAN
  /\ queue \subseteq [id : 1..count, to : Pair]
  /\ earned \in {"nothing", "signal", "approved", "pr"}

\* No line of a review asks for work, and its last line of text passes it.
CleanPass(o) ==
  \E t \in {o.parsed, o.combined} :
    /\ \E n \in DOMAIN t : t[n] = "pass" /\ \A k \in DOMAIN t : k > n => t[k] = "blank"
    /\ \A n \in DOMAIN t : t[n] # "fail"

\* A run is completed by the done signal of its last work turn, a clean pass of every reviewer on
\* that work and the turn for the pull request; never after a crash, a failed turn or the limit.
CompletedEarned ==
  (state = "completed") =>
    IF setup.reviewers = {} THEN earned = "signal"
    ELSE earned = "pr" /\ \A r \in setup.reviewers : CleanPass(said[r])

\* The comments of a review survive iterations that only forward mail: they are in the notes
\* of the next work prompt, unless mail reached the primary during the review.
CommentsCarried == (pc = "prompt") => owed \subseteq notes

\* Both.
WorkKept == CompletedEarned /\ CommentsCarried
=============================================================================
