---------------------------- MODULE DriverRoles ----------------------------
(***************************************************************************)
(* Which agent drives (governess.ts: handleRoleTransitions).  A driver at  *)
(* its usage limit is paused and the other one drives until the limit was  *)
(* not seen for a cooldown; without any limit in sight the local judges    *)
(* may move the role to balance the quotas.  Usage is read from a tracker  *)
(* that may not answer (governess-usage-limits.ts).  The agents are told   *)
(* once to prepare for a fresh loop (reconcileSessionPressure).  What else *)
(* they are told of roles passes the journal (ControlJournal) and changes  *)
(* nothing here.                                                           *)
(* Times are counted in cycles of the Governess.                           *)
(***************************************************************************)
EXTENDS Integers, Sequences, SequencesExt

CONSTANTS Rows,           \* the agents, in the order of the rows
          NoAgent,
          Initial,        \* config.initialDriver
          Resets,         \* what a limit says of its reset
          LimitHandoff,   \* config.limitHandoffEnabled
          Together,       \* both agents may be at their limits at once
          Cooldown, LeaseFor,
          MaxEpoch        \* bound: Governesses

Pair == ToSet(Rows)

RolesAssumption ==
  /\ Initial \in Pair /\ NoAgent \notin Pair /\ LimitHandoff \in BOOLEAN
  /\ Together \in BOOLEAN /\ {Cooldown, LeaseFor, MaxEpoch} \subseteq Nat \ {0}
  \* unknown: none is given; dated: an instant; clock: a time of day, without a date
  /\ Resets \subseteq {"unknown", "dated", "clock"}

VARIABLES roles,    \* runState.roles
          noted,    \* runState.notified.limitHandoff: its agents
          lease,    \* age of runState.driverLease
          prepared, \* runState.sessionPressurePrepared
          limited,  \* the reset of the limit an agent is at, NoLimit when it is not
          epoch,
          quiet,    \* history: cycles since the limit of an agent was last seen
          briefings \* history: preparations an agent was sent

saved == <<roles, noted, lease, prepared>>
vars == <<saved, limited, epoch, quiet, briefings>>

Never == -1
NoLimit == "none"
Older(n, top) == IF n = Never THEN n ELSE IF n < top THEN n + 1 ELSE n
Settle(initial, driver) == [initial |-> initial, current |-> driver, paused |-> NoAgent,
                            temporary |-> NoAgent, missing |-> Never, reset |-> "unknown"]

Init ==
  /\ roles = Settle(NoAgent, NoAgent) /\ noted = {} /\ lease = 0
  /\ prepared = {}
  /\ limited = [a \in Pair |-> NoLimit] /\ epoch = 1
  /\ quiet = [a \in Pair |-> Cooldown] /\ briefings = [a \in Pair |-> 0]

InitialOf(r) == IF r.initial = NoAgent THEN Initial ELSE r.initial
DriverOf(r) == IF r.current = NoAgent THEN InitialOf(r) ELSE r.current

-----------------------------------------------------------------------------
(* The parts of handleRoleTransitions, on [roles, noted].                  *)

\* parseResetTime takes a time of day as the next one to come, so that it is
\* pending whenever it is asked for; a date passes with the limit.
ResetPending(r, at) == r.reset = "clock" \/ (r.reset = "dated" /\ at[r.paused] = "dated")

\* A pause of an agent that was not driving, from the state of an older Governess.
DropForeignPause(s) ==
  IF s.roles.paused # NoAgent /\ s.roles.paused # s.roles.initial /\ s.roles.initial # NoAgent
  THEN [s EXCEPT !.noted = @ \ {s.roles.paused},
                 !.roles = Settle(s.roles.initial, DriverOf(s.roles))]
  ELSE s

\* Restore hands the role back once the pause was not seen for the cooldown and
\* the agent is between two turns.
Restorable(s, seen, at) ==
  /\ s.roles.paused \notin {NoAgent} \cup seen
  /\ ~ResetPending(s.roles, at)
Due(s) == s.roles.missing # Never /\ s.roles.missing >= Cooldown
Restored(s) ==
  [noted |-> s.noted \ {s.roles.paused}, roles |-> Settle(InitialOf(s.roles), InitialOf(s.roles))]
Missing(s, seen, at) ==
  CASE s.roles.paused \in {NoAgent} \cup seen -> s
    [] OTHER -> IF ~Restorable(s, seen, at) THEN [s EXCEPT !.roles.missing = Never]
                ELSE IF s.roles.missing = Never THEN [s EXCEPT !.roles.missing = 0]
                ELSE s

\* Observations of a limit that is gone are forgotten, but not that of the pause.
Forget(s, seen, paused) == [s EXCEPT !.noted = @ \cap (seen \cup {paused})]

Pause(r, agent, driver, reset) ==
  [Settle(InitialOf(r), driver) EXCEPT !.paused = agent, !.temporary = driver, !.reset = reset]

\* Mutant: a pause that was noted is not looked at again.
HandOff_NotedOnce(s, agent, seen, at) ==
  LET driver == DriverOf(s.roles)
      free == SelectSeq(Rows, LAMBDA a : a \notin seen)
      next == IF driver \in seen THEN Head(free) ELSE driver
      noting == [s EXCEPT !.noted = @ \cup {agent}]
  IN  IF LimitHandoff /\ free = <<>> THEN s
      ELSE IF LimitHandoff /\ agent \notin s.noted /\ agent = driver
      THEN [noting EXCEPT !.roles = Pause(s.roles, agent, next, at[agent])]
      ELSE noting

\* One agent whose limit is seen; availableDriverRow prefers the current driver.
HandOff(s, agent, seen, at) ==
  LET driver == DriverOf(s.roles)
      free == SelectSeq(Rows, LAMBDA a : a \notin seen)
      next == IF driver \in seen THEN Head(free) ELSE driver
      mine == s.roles.paused = agent \/ (s.roles.paused = NoAgent /\ agent = driver)
      noting == [s EXCEPT !.noted = @ \cup {agent}]
  IN  CASE ~LimitHandoff -> noting
        [] OTHER ->
           IF free = <<>> THEN s
           ELSE IF (agent \in s.noted /\ mine) \/ (agent \notin s.noted /\ agent = driver)
           THEN [noting EXCEPT !.roles = Pause(s.roles, agent, next, at[agent])]
           ELSE noting
HandOffs(s, seen, at) ==
  FoldLeft(LAMBDA t, agent : IF agent \in seen THEN HandOff(t, agent, seen, at) ELSE t, s, Rows)

\* The judges are asked about the agent that roleBalanceCandidate finds, once for each
\* pair of quota buckets (balanceCheckKey), and recommend it.
Balanced(s, next) ==
  LET previous == DriverOf(s.roles)
  IN  [s EXCEPT !.roles = [Settle(InitialOf(s.roles), next) EXCEPT
                             !.temporary = IF previous = InitialOf(s.roles) THEN next
                                           ELSE s.roles.temporary]]

-----------------------------------------------------------------------------
(* The cycle                                                               *)

Now == [roles |-> roles, noted |-> noted]
Became(s) == roles' = s.roles /\ noted' = s.noted

\* What the reader of the tracker gives: a read may miss the limit of an agent.
Seen(seen) == seen \subseteq {a \in Pair : limited[a] # NoLimit}

\* Every cycle the age of what it keeps grows.
Aged == [Now EXCEPT !.roles.missing = Older(@, Cooldown)]
Passes(seen) ==
  /\ quiet' = [a \in Pair |-> IF a \in seen THEN 0 ELSE Older(quiet[a], Cooldown)]
  /\ lease' = 0    \* the cycle renews it after the tick
  /\ UNCHANGED <<prepared, limited, epoch, briefings>>
LeaseValid == lease < LeaseFor

Transition(seen, active) ==
  LET s == DropForeignPause(Aged)
      pausedThen == s.roles.paused
      restorable == Restorable(s, seen, limited) /\ Due(s)
      s1 == IF restorable THEN Restored(s) ELSE Missing(s, seen, limited)
      s2 == HandOffs(Forget(s1, seen, pausedThen), seen, limited)
      quietNow == seen = {} /\ ~restorable /\ s2.roles.paused = NoAgent
  IN  /\ LeaseValid
      /\ IF restorable /\ InitialOf(s.roles) \in active
         THEN Became(s)
         ELSE \/ Became(s2)
              \/ quietNow /\ \E next \in Pair \ {DriverOf(s2.roles)} : Became(Balanced(s2, next))

Cycle(seen, active) == Seen(seen) /\ Transition(seen, active) /\ Passes(seen)

\* The lease ran out while tmux did not answer: no role changes in this cycle.
CycleDenied(seen) == Seen(seen) /\ ~LeaseValid /\ Became(Aged) /\ Passes(seen)

\* A cycle without tmux neither changes roles nor renews the lease.
CycleWithoutPanes ==
  /\ lease < LeaseFor /\ lease' = lease + 1 /\ Became(Aged)
  /\ quiet' = [a \in Pair |-> Older(quiet[a], Cooldown)]
  /\ UNCHANGED <<prepared, limited, epoch, briefings>>

\* Mutant: who has been told is told again.
Prepare_Again(reached) ==
  /\ reached # {} /\ \A a \in reached : briefings[a] <= MaxEpoch
  /\ prepared' = prepared \cup reached
  /\ briefings' = [a \in Pair |-> IF a \in reached THEN briefings[a] + 1 ELSE briefings[a]]
  /\ UNCHANGED <<roles, noted, lease, limited, epoch, quiet>>

\* reconcileSessionPressure: at the preparation threshold, an agent that was not yet
\* told is; a bridge that fails leaves it for the next cycle.
Prepare(reached) ==
  /\ reached # {} /\ reached \cap prepared = {}
  /\ prepared' = prepared \cup reached
  /\ briefings' = [a \in Pair |-> IF a \in reached THEN briefings[a] + 1 ELSE briefings[a]]
  /\ UNCHANGED <<roles, noted, lease, limited, epoch, quiet>>

\* Another Governess: it acquires the lease; its keys have its own epoch.  What the
\* old one sent in the cycle that it did not finish is not in the saved state.
Restart(unsaved) ==
  /\ epoch < MaxEpoch /\ epoch' = epoch + 1 /\ unsaved \cap prepared = {}
  /\ lease' = 0
  /\ briefings' = [a \in Pair |-> IF a \in unsaved THEN briefings[a] + 1 ELSE briefings[a]]
  /\ UNCHANGED <<roles, noted, prepared, limited, quiet>>

-----------------------------------------------------------------------------
(* The limits                                                              *)

ReachLimit(agent) ==
  /\ limited[agent] = NoLimit
  /\ Together \/ \A a \in Pair : limited[a] = NoLimit
  /\ \E reset \in Resets : limited' = [limited EXCEPT ![agent] = reset]
  /\ UNCHANGED <<saved, epoch, quiet, briefings>>

LimitResets(agent) ==
  /\ limited[agent] # NoLimit /\ limited' = [limited EXCEPT ![agent] = NoLimit]
  /\ UNCHANGED <<saved, epoch, quiet, briefings>>

Cycles == \E seen, active \in SUBSET Pair : Cycle(seen, active)
Next ==
  \/ Cycles \/ (\E seen \in SUBSET Pair : CycleDenied(seen)) \/ CycleWithoutPanes
  \/ (\E told \in SUBSET Pair : Prepare(told) \/ Restart(told))
  \/ \E agent \in Pair : ReachLimit(agent) \/ LimitResets(agent)
Spec == Init /\ [][Next]_vars

-----------------------------------------------------------------------------
(* Properties                                                              *)

TypeOK ==
  /\ roles \in [initial : Pair \cup {NoAgent}, current : Pair \cup {NoAgent},
                paused : Pair \cup {NoAgent}, temporary : Pair \cup {NoAgent},
                missing : -1..Cooldown, reset : Resets \cup {"unknown"}]
  /\ noted \subseteq Pair /\ prepared \subseteq Pair /\ lease \in 0..LeaseFor
  /\ limited \in [Pair -> Resets \cup {NoLimit}]
  /\ quiet \in [Pair -> 0..Cooldown] /\ epoch \in 1..MaxEpoch

\* handleRoleTransitions: "One absent usage read is not a reset ... require a full
\* cooldown before changing roles."  The role goes back to a paused agent only when
\* its limit was seen in none of the cycles of the cooldown.
RestoredAfterCooldown ==
  [][\A a \in Pair :
       roles.paused = a /\ roles.initial = a /\ roles'.paused = NoAgent
         => quiet[a] >= Cooldown]_vars

\* While one agent is within its limits, the role is not left with one whose limit is
\* seen, unless the role is due back at an agent in the middle of a turn.
DriverKept ==
  \A seen, active \in SUBSET Pair :
    (LimitHandoff /\ seen # Pair /\ DriverOf(roles') \in seen /\ InitialOf(roles) \notin active)
      => ~Cycle(seen, active)

\* An agent is told to prepare a fresh loop once (sessionPressurePrepared), and again
\* only by a Governess that took over from one that died before it saved that.
PreparedOnce == \A a \in Pair : briefings[a] <= epoch

\* What every cycle keeps.
RolesKept == PreparedOnce' /\ DriverKept
=============================================================================
