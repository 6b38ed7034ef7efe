--------------------------- MODULE GovernessCycle ---------------------------
(***************************************************************************)
(* The cycle of the Governess (governess.ts: runGoverness, governessTick): *)
(* it looks at the pane and the hooks of each agent (governess-detect.ts), *)
(* asks local judges about an agent that neither moves nor reports, climbs *)
(* the recovery ladder (governess-recover.ts) for one that is stuck, and   *)
(* calls the human when both agents wait for him or a ladder is spent.     *)
(* Whether a pair that is idle together waits for the human is assessed in *)
(* the background: the answer may come between two cycles or within one.   *)
(* Times are counted in cycles.                                            *)
(***************************************************************************)
EXTENDS Integers, Sequences, FiniteSets

CONSTANTS Agents, Judges,
          SightsOf,      \* what an observation of each agent may find
          IdleMs, CooldownMs, AssessMs, EscalateMs,  \* thresholds, in cycles
          MaxRecoveries,
          MaxAge,        \* bound: ages beyond every threshold are not told apart
          MaxEpisode     \* bound: times both agents turn idle together

CycleAssumption ==
  /\ \A a \in Agents : SightsOf[a] \subseteq {"moves", "still", "ends", "limited"}
  /\ Judges # {} /\ {IdleMs, CooldownMs, AssessMs, EscalateMs} \subseteq 1..MaxAge
  /\ MaxRecoveries \in Nat /\ MaxAge \in Nat /\ MaxEpisode \in Nat

VARIABLES live,       \* what the detector holds of an agent
          history,    \* the levels taken for an agent since its last progress
          since,      \* age of the last recovery of an agent
          idle,       \* bothIdleSince: its age, or NotIdle
          episode,    \* which idle episode this is, or was last
          waiting,    \* runState.waitingConfirmed
          answer,     \* waitingConfirmed of runGoverness, folded in each cycle
          assessed,   \* assessedForIdleSince, as an episode
          asking,     \* the episode of the assessment in flight, 0 when none is
          notified,   \* runState.notified: the human was told
          pc,
          verdictOf,  \* history: what the assessment of an episode said
          notices     \* history: how often the human was called about an episode

detector == <<live, history, since>>
background == <<answer, assessed, asking, verdictOf>>
human == <<idle, episode, waiting, notified, notices>>
vars == <<detector, background, human, pc>>

Ages == 0..MaxAge
NotIdle == -1
Older(n) == IF n < MaxAge THEN n + 1 ELSE n
Ladder == <<"answer-prompt", "nudge", "restart">>
Episodes == 1..MaxEpisode

\* What one observation finds: a pane that moves, nothing new, a turn that ended,
\* or the banner of a spent session limit.
Sightings == {s \in [Agents -> UNION {SightsOf[a] : a \in Agents}] :
                \A a \in Agents : s[a] \in SightsOf[a]}
\* A verdict below the confidence gate is "unsure"; "none" is no usable answer.
Outcomes == {"working", "stuck", "unsure", "none"}

\* initLivenessState
FirstSight == [pane |-> 0, event |-> MaxAge, ended |-> FALSE, banner |-> FALSE]

Init ==
  /\ live = [a \in Agents |-> FirstSight]
  /\ history = [a \in Agents |-> <<>>] /\ since = [a \in Agents |-> MaxAge]
  /\ idle = NotIdle /\ episode = 0 /\ waiting = FALSE
  /\ answer = FALSE /\ assessed = 0 /\ asking = 0
  /\ notified = [waiting |-> FALSE, ladder |-> {}]
  /\ pc = "rest"
  /\ verdictOf = [e \in Episodes |-> FALSE] /\ notices = [e \in Episodes |-> 0]

-----------------------------------------------------------------------------
(* One agent                                                               *)

\* updateLiveness, and what processAgent reads from pane and hooks.
Seen(l, sight) ==
  CASE sight = "moves"   -> [pane |-> 0, event |-> 0, ended |-> FALSE, banner |-> FALSE]
    [] sight = "ends"    -> [pane |-> 0, event |-> 0, ended |-> TRUE, banner |-> FALSE]
    [] sight = "limited" -> [pane |-> 0, event |-> Older(l.event), ended |-> l.ended,
                             banner |-> TRUE]
    [] sight = "still"   -> [l EXCEPT !.pane = Older(@), !.event = Older(@)]
Suspect(l) == l.pane >= IdleMs /\ l.event >= IdleMs
Thinking(l) == ~l.ended /\ l.pane = 0 /\ ~Suspect(l)
\* A banner on a pane that has stood still for longer than a session is stale.
Limited(l) == l.banner /\ l.pane < MaxAge
Judged(l) == ~Limited(l) /\ Suspect(l) /\ ~l.ended

\* consensusJudgeResult: several judges must all answer, and agree.
Consensus(out) ==
  LET said == {out[j] : j \in Judges}
  IN  IF Cardinality(said) = 1
      THEN CHOOSE v \in said : TRUE
      ELSE "working"
Verdicts == {Consensus(out) : out \in [Judges -> Outcomes]}
\* No answer counts as working, in the row and for recovery (conservativeVerdict).
State(v) == IF v = "none" THEN "working" ELSE v

\* Mutant: the cooldown is not looked at.
Decision_Hasty(a, v) ==
  LET n == Len(history[a])
  IN  IF State(v) # "stuck" \/ n >= MaxRecoveries THEN "none" ELSE Ladder[IF n < 3 THEN n + 1 ELSE 3]

\* decideRecovery: the next level, when state, confidence, count and cooldown let it.
Decision(a, v) ==
  LET n == Len(history[a])
  IN  IF State(v) # "stuck" \/ n >= MaxRecoveries \/ (n > 0 /\ since[a] < CooldownMs)
      THEN "none" ELSE Ladder[IF n < 3 THEN n + 1 ELSE 3]
\* decideGovernessPolicy: an automatic restart is never confirmed.
Allowed(level) == level \notin {"none", "restart"}
\* executeRecovery counts a recovery; whether its control is still to be dispatched
\* or its key is spent in this epoch is up to the journal (ControlJournal).
Recovers(a, l, v) == Judged(l) /\ Allowed(Decision(a, v))
Active(l, v) == Thinking(l) \/ (~Limited(l) /\ Judged(l) /\ State(v) = "working")

-----------------------------------------------------------------------------
(* The cycle                                                               *)

\* The results of background work are folded in before the cycle.
CycleBegins ==
  /\ pc = "rest" /\ pc' = "tick" /\ waiting' = answer
  /\ UNCHANGED <<detector, background, idle, episode, notified, notices>>

\* updateBothIdle: the idle age, the episode and the assessment after this cycle.
BothIdle(l, v) ==
  LET available == {a \in Agents : ~Limited(l[a])}
  IN  Cardinality(available) >= 2 /\ \A a \in available : ~Active(l[a], v[a])
NewEpisode(l, v) == BothIdle(l, v) /\ idle = NotIdle

\* Mutant: nobody remembers the call.
CallForWait_Again(l, v) ==
  BothIdle(l, v) /\ waiting /\ (IF idle = NotIdle THEN 0 ELSE Older(idle)) >= EscalateMs

\* collectEscalations
CallForWait(l, v) ==
  LET age == IF idle = NotIdle THEN 0 ELSE Older(idle)
  IN  BothIdle(l, v) /\ waiting /\ age >= EscalateMs /\ ~notified.waiting
Spent(hist) == {a \in Agents : Len(hist[a]) >= MaxRecoveries}

\* governessTick with every pane readable; nothing is executed while a handover is under way.
Cycle ==
  /\ pc = "tick"
  /\ \E l \in {[a \in Agents |-> Seen(live[a], sight[a])] : sight \in Sightings} :
     LET judged == {a \in Agents : Judged(l[a])}
     IN  \E v \in {said \in [Agents -> Verdicts \cup {"none"}] : \A a \in Agents \ judged : said[a] = "none"} :
       \E acts \in {{}, {a \in Agents : Recovers(a, l[a], v[a])}} :
         LET still == BothIdle(l, v)
             wait == CallForWait(l, v)
             e == IF NewEpisode(l, v) THEN episode + 1 ELSE episode
         IN  /\ e <= MaxEpisode
             /\ live' = l
             /\ history' = [a \in Agents |->
                  CASE a \notin judged -> <<>>
                    [] a \in acts      -> Append(history[a], Decision(a, v[a]))
                    [] OTHER           -> history[a]]
             /\ since' = [a \in Agents |-> IF a \in acts THEN 0 ELSE Older(since[a])]
             /\ idle' = IF ~still THEN NotIdle
                        ELSE IF idle = NotIdle THEN 0 ELSE Older(idle)
             /\ episode' = e
             /\ waiting' = (waiting /\ still)
             /\ notified' = [waiting |-> still /\ (notified.waiting \/ wait),
                             ladder |-> Spent(history')]
             /\ notices' = IF wait THEN [notices EXCEPT ![e] = @ + 1] ELSE notices
  /\ pc' = "ticked"
  /\ UNCHANGED background

\* processAgentWithoutPane: tmux does not answer; time passes, nothing is judged.
CycleWithoutPanes ==
  /\ pc = "tick" /\ pc' = "ticked"
  /\ live' = [a \in Agents |-> [live[a] EXCEPT !.pane = Older(@), !.event = Older(@)]]
  /\ since' = [a \in Agents |-> Older(since[a])]
  /\ idle' = IF idle = NotIdle THEN idle ELSE Older(idle)
  /\ UNCHANGED <<history, background, episode, waiting, notified, notices>>

\* The rest of the cycle: the closure takes what the cycle left of the answer,
\* and an episode that is old enough is assessed once.
CycleEnds ==
  /\ pc = "ticked" /\ pc' = "rest" /\ answer' = waiting
  /\ \/ /\ idle = NotIdle /\ assessed' = 0 /\ UNCHANGED asking
     \/ /\ idle >= AssessMs /\ asking = 0 /\ assessed # episode
        /\ asking' = episode /\ UNCHANGED assessed
     \/ \* too early, asked already, or tmux did not answer in this cycle
        /\ idle # NotIdle /\ UNCHANGED <<assessed, asking>>
  /\ UNCHANGED <<detector, human, verdictOf>>

\* assessWaitingWithLocalJudges answers, at any point of the loop ...
Assessed ==
  /\ asking # 0 /\ asking' = 0
  /\ \E w \in BOOLEAN : answer' = w /\ verdictOf' = [verdictOf EXCEPT ![asking] = w]
  /\ assessed' = asking
  /\ UNCHANGED <<detector, human, pc>>

\* ... or fails, and is tried again.
AssessmentFails ==
  /\ asking # 0 /\ asking' = 0
  /\ UNCHANGED <<detector, answer, assessed, verdictOf, human, pc>>

\* Another Governess: the run state is on disk; detector and closures are not.
Restart ==
  /\ pc' = "rest"
  /\ live' = [a \in Agents |-> [live[a] EXCEPT !.pane = 0]]
  /\ answer' = waiting /\ assessed' = 0 /\ asking' = 0
  /\ UNCHANGED <<history, since, human, verdictOf>>

Next ==
  \/ CycleBegins \/ Cycle \/ CycleWithoutPanes \/ CycleEnds
  \/ Assessed \/ AssessmentFails \/ Restart
Spec == Init /\ [][Next]_vars

-----------------------------------------------------------------------------
(* Properties                                                              *)

TypeOK ==
  /\ live \in [Agents -> [pane : Ages, event : Ages, ended : BOOLEAN, banner : BOOLEAN]]
  /\ \A a \in Agents : /\ Len(history[a]) <= MaxRecoveries
                       /\ \A i \in 1..Len(history[a]) : history[a][i] = Ladder[i]
  /\ since \in [Agents -> Ages]
  /\ idle \in {NotIdle} \cup Ages /\ episode \in 0..MaxEpisode
  /\ {waiting, answer} \subseteq BOOLEAN /\ {assessed, asking} \subseteq 0..MaxEpisode

\* An agent is not acted on again before it was idle for the threshold or the
\* cooldown passed, over progress, outages of tmux and restarts of the Governess.
Spaced ==
  \A a \in Agents :
    pc = "tick" /\ pc' = "ticked" /\ since'[a] = 0
      => since[a] + 1 >= IF IdleMs < CooldownMs THEN IdleMs ELSE CooldownMs

\* The human is called at most once about an idle episode (notified.waitingForYou).
CalledOncePerEpisode == \A e \in Episodes : notices[e] <= 1

\* What every step of the Governess keeps.
CycleKept == CalledOncePerEpisode' /\ Spaced

\* updateBothIdle: "resetting (and forgetting the LLM's read) the moment either
\* agent goes active".  The human is called about an episode only when the
\* assessment of that very episode said that the pair waits for him.
CalledOnOwnAssessment == \A e \in Episodes : notices[e] > 0 => verdictOf[e]

\* governess-pane/spec.md: the ladder answers a prompt, nudges, restarts; when it
\* is spent the human is called.
StuckCallsHuman ==
  \A a \in Agents : (<>[](Judged(live[a]) /\ Len(history[a]) > 0)) => <>(a \in notified.ladder)
=============================================================================
