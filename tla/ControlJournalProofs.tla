------------------------ MODULE ControlJournalProofs ------------------------
(***************************************************************************)
(* The control journal under one Governess at a time (~Overlap), for any   *)
(* number of Governesses, controls, observations, crashes and failing      *)
(* effects: no key has its effect twice (EffectOnce), compaction loses no  *)
(* record (NothingLost), and no transition is refused (NeverEnded).        *)
(*                                                                         *)
(* An index that passes for current is the journal (Current), because its  *)
(* stat names one state of the file; so an operation decides from what is  *)
(* there.  The records of a control rise in rank (Sound), so the latest    *)
(* one says whether it may have had its effect, and what the Governess is  *)
(* about to do agrees with it (Fits).                                      *)
(***************************************************************************)
EXTENDS ControlJournal, TLAPS

\* The records of a control rise in rank, one of them is the latest, and past
\* "prepared" it was dispatched.  A key is tried once.
Sound(J, e) ==
  /\ J \subseteq Records
  /\ \A r \in J : r.at <= e
  /\ \A r, s \in J : r.at = s.at => r = s
  /\ \A r \in J : ~IsObs(r) =>
       /\ r.id.try = 1
       /\ r.phase # "prepared" => Dispatched(J, r.id)
       /\ \E m \in J : m.id = r.id /\ \A s \in J : s.id = r.id => s.at <= m.at
  /\ \A r, s \in J : ~IsObs(r) /\ r.id = s.id /\ r.at < s.at => Rank(r.phase) < Rank(s.phase)

\* An index file or cache that has the stat of the journal is the journal.
Current(i, J, e, n) ==
  /\ i.recs \subseteq Records /\ i.stat \in Nat \X Nat
  /\ i.stat = <<e, n>> => i.recs = J
  /\ i.stat[2] <= n
  /\ i.stat[2] = n => i.stat[1] <= e

\* A transition that is asked for is allowed, and a dispatch is the first.
Due(a, J) ==
  /\ a \in [id : ControlIds, phase : Phases \ {"prepared"}]
  /\ a.id.try = 1 /\ a.id \in IdsIn(J)
  /\ TransitionAllowed(LatestPhase(J, a.id), a.phase)
  /\ a.phase = "dispatched" <=> ~Dispatched(J, a.id)

\* A record that is about to be appended outranks those of its control.
Rises(a, J) ==
  /\ a \in [id : Ids, phase : Phases]
  /\ a.id.kind = "control" =>
       /\ a.id.try = 1
       /\ \A r \in J : r.id = a.id => Rank(r.phase) < Rank(a.phase)
       /\ a.phase \notin {"prepared", "dispatched"} => Dispatched(J, a.id)

\* What an operation that appends a record is about.
OfOperation(op, a) ==
  /\ op \in {"prepare", "to", "observe"}
  /\ op = "prepare" => a.id.kind = "control" /\ a.phase = "prepared"
  /\ op = "to" => a.id.kind = "control" /\ a.phase # "prepared"
  /\ op = "observe" => a.id.kind = "observation"

\* A Governess at p agrees with the journal J, its archive A and the effects ef.
Fits(p, J, e, A, ef) ==
  /\ p.recs \subseteq Records
  /\ p.pc \in {"rebuild", "append", "archive", "replace"} => p.recs = J
  /\ p.pc \in {"load", "rebuild"} =>
       /\ p.op = "prepare" => p.arg \in Keys
       /\ p.op = "to" => Due(p.arg, J)
       /\ p.op = "index" => p.arg \in {"acquire", "idle"}
  /\ p.pc = "append" => Rises(p.arg, J) /\ OfOperation(p.op, p.arg)
  /\ p.pc = "stored" =>
       /\ J = p.recs \cup {p.arg} /\ p.arg.at = e
       /\ OfOperation(p.op, p.arg)
       /\ p.op = "to" /\ p.arg.phase = "dispatched" => ef[p.arg.id.of] = 0
  /\ p.pc = "effect" =>
       /\ p.arg.id \in ControlIds /\ p.arg.id.try = 1 /\ p.arg.id \in IdsIn(J)
       /\ LatestPhase(J, p.arg.id) = "dispatched" /\ Dispatched(J, p.arg.id)
       /\ ef[p.arg.id.of] = 0
  /\ p.pc \in {"archive", "replace"} => p.arg \in {"acquire", "idle"}
  /\ p.pc = "replace" => p.recs \ Retained(p.recs) \subseteq A

\* An effect that reached the agents was dispatched before.
Backed(ef, J) ==
  /\ ef \in [Keys -> {0, 1}]
  /\ \A k \in Keys : ef[k] = 1 => Dispatched(J, Control(k, 1))

\* A Governess starts when those before it are down.
OneAtATime ==
  \A g, h \in Governesses : h < g /\ proc[g].pc # "new" => proc[h].pc = "down"

Scalars ==
  /\ written \subseteq Records /\ archive \subseteq written /\ journal \subseteq written
  /\ end \in Nat /\ gen \in Nat \ {0} /\ fence \in 0..MaxEpoch /\ faults \in 0..MaxFaults

IInv ==
  /\ Scalars
  /\ NoRecordLost
  /\ Sound(journal, end)
  /\ Current(disk, journal, end, gen)
  /\ cache = [g \in Governesses |-> cache[g]]
  /\ \A g \in Governesses : Current(cache[g], journal, end, gen)
  /\ proc = [g \in Governesses |-> proc[g]]
  /\ \A g \in Governesses : Fits(proc[g], journal, end, archive, effects)
  /\ OneAtATime
  /\ Backed(effects, journal)

-----------------------------------------------------------------------------
(* What the records of a sound journal say.                                *)

\* A transition to another phase rises in rank.
LEMMA AllowedRises ==
  ASSUME NEW a \in Phases, NEW b \in Phases
  PROVE  /\ Rank(a) \in 0..5
         /\ TransitionAllowed(a, b) /\ a # b => Rank(a) < Rank(b)
         /\ Rank(a) < 4 <=> a \notin Settled
         /\ a \notin Settled /\ Rank(a) < Rank(b) => TransitionAllowed(a, b)
         /\ Rank(a) = 0 <=> a = "prepared"
         /\ Rank(a) = 1 <=> a = "dispatched"
BY DEF Phases, Rank, TransitionAllowed, Settled

\* The latest record of a control says its phase.
LEMMA LatestSays ==
  ASSUME NEW J, NEW e, Sound(J, e), NEW r \in J, \A s \in J : s.id = r.id => s.at <= r.at
  PROVE  LatestPhase(J, r.id) = r.phase
<1> DEFINE Its == {s \in J : s.id = r.id}
<1>1. r \in Its /\ \A s \in Its : s.at <= r.at
  OBVIOUS
<1>2. \E m \in Its : \A s \in Its : s.at <= m.at
  BY <1>1
<1>3. Latest(Its) \in Its /\ \A s \in Its : s.at <= Latest(Its).at
  BY <1>2 DEF Latest
<1>4. Latest(Its).at <= r.at /\ r.at <= Latest(Its).at
  BY <1>1, <1>3
<1>5. r.at \in Nat /\ Latest(Its).at \in Nat
  BY <1>3 DEF Sound, Records
<1>6. Latest(Its) = r
  BY <1>3, <1>4, <1>5 DEF Sound
<1> QED
  BY <1>6 DEF LatestPhase

\* A control of the journal has a latest record, which outranks the others.
LEMMA HasLatest ==
  ASSUME NEW J, NEW e, Sound(J, e), NEW id \in IdsIn(J)
  PROVE  /\ id \in ControlIds /\ id.try = 1 /\ LatestPhase(J, id) \in Phases
         /\ \E m \in J : m.id = id /\ m.phase = LatestPhase(J, id)
         /\ \A s \in J : s.id = id => Rank(s.phase) <= Rank(LatestPhase(J, id))
         /\ LatestPhase(J, id) # "prepared" <=> Dispatched(J, id)
<1>1. PICK r \in J : r.id = id /\ ~IsObs(r)
  BY DEF IdsIn
<1>2. PICK m \in J : m.id = id /\ \A s \in J : s.id = id => s.at <= m.at
  BY <1>1 DEF Sound
<1>3. m.phase = LatestPhase(J, id)
  BY <1>2, LatestSays
<1>4. m \in Records /\ ~IsObs(m)
  BY <1>1, <1>2 DEF Sound, IsObs
<1>5. m.phase \in Phases /\ id \in ControlIds /\ id.try = 1
  BY <1>1, <1>2, <1>4 DEF Records, Ids, IsObs, Sound
<1>6. ASSUME NEW s \in J, s.id = id
      PROVE  s.phase \in Phases /\ Rank(s.phase) <= Rank(m.phase)
  <2>1. s \in Records /\ s.at \in Nat /\ m.at \in Nat /\ s.phase \in Phases
    BY <1>4 DEF Sound, Records
  <2>2. Rank(s.phase) \in 0..5 /\ Rank(m.phase) \in 0..5
    BY <2>1, <1>5, AllowedRises
  <2>3. CASE s.at = m.at
    <3>1. s = m
      BY <1>2, <2>3 DEF Sound
    <3> QED
      BY <2>1, <2>2, <3>1
  <2>4. CASE s.at < m.at
    <3>1. ~IsObs(s)
      BY <1>2, <1>4, <1>6 DEF IsObs
    <3>2. Rank(s.phase) < Rank(m.phase)
      BY <1>2, <1>6, <2>4, <3>1 DEF Sound
    <3> QED
      BY <2>1, <2>2, <3>2
  <2> QED
    BY <1>2, <1>6, <2>1, <2>3, <2>4
<1>7. m.phase # "prepared" => Dispatched(J, id)
  BY <1>2, <1>4 DEF Sound
<1>8. Dispatched(J, id) => m.phase # "prepared"
  <2>1. SUFFICES ASSUME NEW s \in J, s.id = id, s.phase = "dispatched"
                 PROVE  m.phase # "prepared"
    BY DEF Dispatched
  <2>2. Rank(s.phase) <= Rank(m.phase) /\ Rank(s.phase) = 1
    BY <1>6, <2>1, AllowedRises
  <2> QED
    BY <1>5, <2>2, AllowedRises
<1> QED
  BY <1>2, <1>3, <1>5, <1>6, <1>7, <1>8

\* A key has one control, and is closed once it has that.
LEMMA OneTry ==
  ASSUME NEW J, NEW e, Sound(J, e), NEW key \in Keys
  PROVE  /\ TriesOf(J, key) \subseteq {Control(key, 1)}
         /\ TriesOf(J, key) # {} => LatestByKey(J, key) = Control(key, 1)
         /\ TriesOf(J, key) = {Control(key, 1)} <=> Control(key, 1) \in IdsIn(J)
         /\ Closed(J, key) <=> TriesOf(J, key) # {}
<1>1. \A id \in TriesOf(J, key) : id = Control(key, 1)
  <2> SUFFICES ASSUME NEW id \in TriesOf(J, key)
               PROVE  id = Control(key, 1)
    OBVIOUS
  <2>1. id \in IdsIn(J) /\ id.of = key
    BY DEF TriesOf
  <2>2. id \in ControlIds /\ id.try = 1
    BY <2>1, HasLatest
  <2> QED
    BY <2>1, <2>2 DEF ControlIds, Control
<1>2. Control(key, 1).of = key /\ Control(key, 1).try = 1
  BY DEF Control
<1>3. TriesOf(J, key) = {Control(key, 1)} <=> Control(key, 1) \in IdsIn(J)
  BY <1>1, <1>2 DEF TriesOf
<1>4. ASSUME TriesOf(J, key) # {}
      PROVE  LatestByKey(J, key) = Control(key, 1) /\ Control(key, 1) \in IdsIn(J)
  <2>1. TriesOf(J, key) = {Control(key, 1)}
    BY <1>1, <1>4
  <2>2. LatestByKey(J, key) = CHOOSE id \in {Control(key, 1)} :
                                \A o \in {Control(key, 1)} : o.try <= id.try
    BY <2>1 DEF LatestByKey
  <2> QED
    BY <1>2, <1>3, <2>1, <2>2
<1>5. ASSUME TriesOf(J, key) # {}
      PROVE  Closed(J, key)
  <2>1. LatestPhase(J, Control(key, 1)) # "prepared" => Dispatched(J, Control(key, 1))
    BY <1>4, <1>5, HasLatest
  <2> QED
    BY <1>4, <1>5, <2>1 DEF Closed
<1> QED
  BY <1>1, <1>3, <1>4, <1>5 DEF Closed

-----------------------------------------------------------------------------
(* What an append and a compaction make of a sound journal.                *)

LEMMA AppendKeepsSound ==
  ASSUME NEW J, NEW e \in Nat, Sound(J, e), NEW a, Rises(a, J),
         NEW r, r = [id |-> a.id, phase |-> a.phase, at |-> e + 1]
  PROVE  Sound(J \cup {r}, e + 1)
<1> DEFINE K == J \cup {r}
<1>1. r \in Records /\ r.id = a.id /\ r.phase = a.phase /\ r.at = e + 1
  BY DEF Rises, Records
<1>2. K \subseteq Records /\ \A s \in K : s.at <= e + 1
  BY <1>1 DEF Sound, Records
<1>3. \A s \in J : s.at \in Nat /\ s.at < r.at
  BY <1>1 DEF Sound, Records
<1>4. \A s, t \in K : s.at = t.at => s = t
  BY <1>3 DEF Sound
<1>5. ASSUME NEW s \in K, ~IsObs(s)
      PROVE  /\ s.id.try = 1
             /\ s.phase # "prepared" => Dispatched(K, s.id)
             /\ \E m \in K : m.id = s.id /\ \A t \in K : t.id = s.id => t.at <= m.at
  <2>1. CASE s.id = r.id
    <3>1. a.id.kind = "control"
      BY <1>1, <1>5, <2>1 DEF IsObs, Rises, Ids, ControlIds
    <3>2. s.id.try = 1
      BY <1>1, <2>1, <3>1 DEF Rises
    <3>3. s.phase # "prepared" => Dispatched(K, s.id)
      <4>1. CASE s \in J
        BY <1>5, <4>1 DEF Sound, Dispatched
      <4>2. CASE s = r
        BY <1>1, <3>1, <4>2 DEF Rises, Dispatched
      <4> QED
        BY <4>1, <4>2
    <3>4. r \in K /\ \A t \in K : t.at <= r.at
      BY <1>1, <1>2
    <3> QED
      BY <2>1, <3>2, <3>3, <3>4
  <2>2. CASE s.id # r.id
    <3>1. s \in J
      BY <2>2
    <3>2. /\ s.id.try = 1
          /\ s.phase # "prepared" => Dispatched(J, s.id)
          /\ \E m \in J : m.id = s.id /\ \A t \in J : t.id = s.id => t.at <= m.at
      BY <1>5, <3>1 DEF Sound
    <3>3. \A t \in K : t.id = s.id => t \in J
      BY <2>2
    <3> QED
      BY <3>2, <3>3 DEF Dispatched
  <2> QED
    BY <2>1, <2>2
<1>6. ASSUME NEW s \in K, NEW t \in K, ~IsObs(s), s.id = t.id, s.at < t.at
      PROVE  Rank(s.phase) < Rank(t.phase)
  <2>1. CASE t = r
    <3>1. s \in J
      BY <1>1, <1>6, <2>1
    <3>2. a.id.kind = "control"
      BY <1>1, <1>6, <2>1 DEF IsObs, Rises, Ids, ControlIds
    <3> QED
      BY <1>1, <1>6, <2>1, <3>1, <3>2 DEF Rises
  <2>2. CASE t # r
    <3>1. t \in J /\ t.at < r.at /\ t.at \in Nat
      BY <1>3, <2>2
    <3>2. s # r
      BY <1>1, <1>6, <3>1
    <3> QED
      BY <1>6, <3>1, <3>2 DEF Sound
  <2> QED
    BY <2>1, <2>2
<1> QED
  BY <1>2, <1>4, <1>5, <1>6 DEF Sound

\* Compaction keeps every record of a control.
LEMMA RetainKeepsSound ==
  ASSUME NEW J, NEW e, Sound(J, e)
  PROVE  /\ Sound(Retained(J), e) /\ Retained(J) \subseteq J
         /\ \A r \in J : ~IsObs(r) => r \in Retained(J)
<1> DEFINE K == Retained(J)
<1>1. K \subseteq J /\ \A r \in J : ~IsObs(r) => r \in K
  BY DEF Retained
<1>2. ASSUME NEW r \in K, ~IsObs(r)
      PROVE  \A s \in J : s.id = r.id => s \in K
  BY <1>1, <1>2 DEF IsObs
<1>3. ASSUME NEW r \in K, ~IsObs(r)
      PROVE  /\ r.id.try = 1
             /\ r.phase # "prepared" => Dispatched(K, r.id)
             /\ \E m \in K : m.id = r.id /\ \A s \in K : s.id = r.id => s.at <= m.at
  <2>1. /\ r.id.try = 1
        /\ r.phase # "prepared" => Dispatched(J, r.id)
        /\ \E m \in J : m.id = r.id /\ \A s \in J : s.id = r.id => s.at <= m.at
    BY <1>1, <1>3 DEF Sound
  <2> QED
    BY <1>1, <1>2, <1>3, <2>1 DEF Dispatched
<1> QED
  BY <1>1, <1>3 DEF Sound

-----------------------------------------------------------------------------
(* Where a Governess may be.                                               *)

\* One that has not begun, is down or has nothing to do agrees with any journal.
LEMMA RestFits ==
  ASSUME NEW p, p.recs \subseteq Records,
         p.pc \in {"new", "down", "idle", "maintain", "acquire"},
         NEW J, NEW e, NEW A, NEW ef
  PROVE  Fits(p, J, e, A, ef)
BY DEF Fits

LEMMA RestsFit ==
  ASSUME NEW pc \in {"new", "down", "idle", "maintain", "acquire"},
         NEW J, NEW e, NEW A, NEW ef
  PROVE  Fits(Rests(pc), J, e, A, ef) /\ Rests(pc).pc = pc
BY DEF Rests, At, Fits

\* An operation that begins agrees with the journal if what it is about does.
LEMMA OperationFits ==
  ASSUME NEW op, NEW arg, NEW J, NEW e, NEW A, NEW ef,
         op = "prepare" => arg \in Keys,
         op = "to" => Due(arg, J),
         op = "index" => arg \in {"acquire", "idle"}
  PROVE  Fits(Operation(op, arg), J, e, A, ef) /\ Operation(op, arg).pc = "load"
BY DEF Operation, At, Fits

\* What the caller does once a record is there agrees with it: after "prepared" the
\* dispatch is due, and after the dispatch the effect.
LEMMA AfterFits ==
  ASSUME NEW J, NEW e, Sound(J, e), NEW A, NEW ef, NEW p, NEW r,
         p.op \in {"prepare", "to", "observe"},
         p.op # "observe" => r.id \in IdsIn(J) /\ LatestPhase(J, r.id) = r.phase,
         p.op = "to" /\ r.phase = "dispatched" => ef[r.id.of] = 0
  PROVE  /\ Fits(After(p, r), J, e, A, ef)
         /\ After(p, r).pc \in {"load", "effect", "maintain", "idle"}
<1>1. CASE p.op = "prepare" /\ r.phase = "prepared"
  <2>1. After(p, r) = To(r.id, "dispatched")
    BY <1>1 DEF After
  <2>2. Due([id |-> r.id, phase |-> "dispatched"], J)
    <3>1. r.id \in ControlIds /\ r.id.try = 1 /\ ~Dispatched(J, r.id)
      BY <1>1, HasLatest
    <3>2. TransitionAllowed("prepared", "dispatched")
      BY DEF TransitionAllowed, Settled, Rank
    <3> QED
      BY <1>1, <3>1, <3>2 DEF Due, Phases
  <2>3. Fits(To(r.id, "dispatched"), J, e, A, ef) /\ To(r.id, "dispatched").pc = "load"
    BY <2>2, OperationFits DEF To
  <2> QED
    BY <2>1, <2>3
<1>2. CASE p.op = "to" /\ r.phase = "dispatched"
  <2> DEFINE q == At("effect", "to", [id |-> r.id, phase |-> r.phase], {})
  <2>1. After(p, r) = q
    BY <1>2 DEF After
  <2>2. q.pc = "effect" /\ q.arg.id = r.id /\ q.recs = {}
    BY DEF At
  <2>3. r.id \in ControlIds /\ r.id.try = 1 /\ Dispatched(J, r.id)
    BY <1>2, HasLatest
  <2>4. Fits(q, J, e, A, ef)
    BY <1>2, <2>2, <2>3 DEF Fits
  <2> QED
    BY <2>1, <2>2, <2>4
<1>3. CASE p.op = "observe"
  BY <1>3, RestsFit DEF After
<1>4. CASE ~(p.op = "prepare" /\ r.phase = "prepared") /\ ~(p.op = "to" /\ r.phase = "dispatched")
           /\ p.op # "observe"
  BY <1>4, RestsFit DEF After, Idle
<1> QED
  BY <1>1, <1>2, <1>3, <1>4

\* A Governess that goes on moves alone: those before it are down, those after it
\* have not begun.
LEMMA MovesAlone ==
  ASSUME IInv, NEW g \in Governesses, proc[g].pc # "down",
         \A h \in Governesses : h < g => proc[h].pc = "down",
         NEW q, proc' = [proc EXCEPT ![g] = q], q.pc # "new",
         Fits(q, journal', end', archive', effects')
  PROVE  /\ proc' = [h \in Governesses |-> proc'[h]]
         /\ \A h \in Governesses : Fits(proc'[h], journal', end', archive', effects')
         /\ OneAtATime'
<1>1. /\ proc' = [h \in Governesses |-> proc'[h]]
      /\ \A h \in Governesses : proc'[h] = IF h = g THEN q ELSE proc[h]
  BY DEF IInv
<1>2. Governesses \subseteq Int
  BY DEF Governesses
<1>3. \A h \in Governesses : h > g => proc[h].pc = "new"
  BY <1>2 DEF IInv, OneAtATime
<1>4. ASSUME NEW h \in Governesses
      PROVE  Fits(proc'[h], journal', end', archive', effects')
  <2>1. CASE h = g
    BY <1>1, <2>1
  <2>2. CASE h # g
    <3>1. proc[h].pc \in {"new", "down"}
      BY <1>2, <1>3, <2>2
    <3>2. proc[h].recs \subseteq Records
      BY DEF IInv, Fits
    <3>3. Fits(proc[h], journal', end', archive', effects')
      BY <3>1, <3>2, RestFits
    <3> QED
      BY <1>1, <2>2, <3>3
  <2> QED
    BY <2>1, <2>2
<1>5. OneAtATime'
  <2> SUFFICES ASSUME NEW k \in Governesses, NEW h \in Governesses, h < k, proc'[k].pc # "new"
               PROVE  proc'[h].pc = "down"
    BY DEF OneAtATime, Governesses
  <2>1. CASE k = g
    BY <1>1, <1>2, <2>1
  <2>2. CASE k # g
    <3>1. proc[k].pc # "new" /\ proc[h].pc = "down"
      BY <1>1, <2>2 DEF IInv, OneAtATime
    <3> QED
      BY <1>1, <3>1
  <2> QED
    BY <2>1, <2>2
<1> QED
  BY <1>1, <1>4, <1>5

\* One that has begun and is not down may go on.
LEMMA LiveAlone ==
  ASSUME IInv, NEW g \in Governesses, proc[g].pc \notin {"new", "down"}
  PROVE  proc[g].pc # "down" /\ \A h \in Governesses : h < g => proc[h].pc = "down"
BY DEF IInv, OneAtATime

-----------------------------------------------------------------------------
(* What an operation does with an index that is the journal.               *)

\* Where an operation g goes with the journal as its index.
Goes(g, q) ==
  /\ proc' = [proc EXCEPT ![g] = q] /\ q.pc \notin {"new", "down"}
  /\ Fits(q, journal, end, archive, effects)

LEMMA PrepareFits ==
  ASSUME JournalAssumption, IInv, NEW g \in Governesses, proc[g].pc \in {"load", "rebuild"},
         Prepare(g, journal)
  PROVE  \E q : Goes(g, q)
<1> DEFINE p == proc[g]
           key == p.arg
           id == Control(key, 1)
<1>1. p.op = "prepare" /\ key \in Keys /\ Sound(journal, end)
  BY DEF Prepare, IInv, Fits
<1>2. CASE TriesOf(journal, key) # {}
  <2> DEFINE r == [id |-> id, phase |-> LatestPhase(journal, id)]
  <2>1. Closed(journal, key) /\ LatestByKey(journal, key) = id /\ id \in IdsIn(journal)
    BY <1>1, <1>2, OneTry
  <2>2. proc' = [proc EXCEPT ![g] = After(p, r)]
    BY <2>1 DEF Prepare, Become
  <2>3. r.id = id /\ r.phase = LatestPhase(journal, id)
    OBVIOUS
  <2> HIDE DEF r
  <2>4. /\ Fits(After(p, r), journal, end, archive, effects)
        /\ After(p, r).pc \in {"load", "effect", "maintain", "idle"}
    BY <1>1, <2>1, <2>3, AfterFits
  <2> QED
    BY <2>2, <2>4 DEF Goes
<1>3. CASE TriesOf(journal, key) = {}
  <2> DEFINE q == Appending(p, id, "prepared", journal)
  <2>1. proc' = [proc EXCEPT ![g] = q]
    BY <1>1, <1>3, OneTry DEF Prepare, Become
  <2>2. q.pc = "append" /\ q.op = "prepare" /\ q.recs = journal
        /\ q.arg = [id |-> id, phase |-> "prepared"]
    BY <1>1 DEF Appending, At
  <2>3. id \in ControlIds /\ id.kind = "control" /\ id.try = 1 /\ id.of = key
    BY <1>1 DEF Control, ControlIds, Tries, JournalAssumption
  <2>4. \A r \in journal : r.id # id
    <3> SUFFICES ASSUME NEW r \in journal, r.id = id
                 PROVE  FALSE
      OBVIOUS
    <3>1. id \in IdsIn(journal)
      BY <2>3 DEF IdsIn, IsObs
    <3> QED
      BY <1>3, <2>3, <3>1 DEF TriesOf
  <2>5. Rises(q.arg, journal) /\ OfOperation(q.op, q.arg)
    BY <2>2, <2>3, <2>4 DEF Rises, OfOperation, Ids, Phases
  <2>6. journal \subseteq Records
    BY <1>1 DEF Sound
  <2>7. Fits(q, journal, end, archive, effects)
    BY <2>2, <2>5, <2>6 DEF Fits
  <2> QED
    BY <2>1, <2>2, <2>7 DEF Goes
<1> QED
  BY <1>2, <1>3

\* No transition is refused: the Governess goes on.
LEMMA TransitionFits ==
  ASSUME JournalAssumption, IInv, NEW g \in Governesses, proc[g].pc \in {"load", "rebuild"},
         Transition(g, journal)
  PROVE  \E q : Goes(g, q)
<1> DEFINE p == proc[g]
           from == LatestPhase(journal, p.arg.id)
<1>1. p.op = "to" /\ Due(p.arg, journal) /\ Sound(journal, end)
  BY DEF Transition, IInv, Fits
<1>2. p.arg.id \in IdsIn(journal) /\ p.arg.phase \in Phases \ {"prepared"} /\ p.arg.id \in ControlIds
      /\ p.arg.id.try = 1 /\ TransitionAllowed(from, p.arg.phase)
  BY <1>1 DEF Due
<1>3. from \in Phases /\ (from # "prepared" <=> Dispatched(journal, p.arg.id))
      /\ \A r \in journal : r.id = p.arg.id => Rank(r.phase) <= Rank(from)
  BY <1>1, <1>2, HasLatest
<1>4. CASE from = p.arg.phase
  <2>1. p.arg.phase # "dispatched"
    BY <1>1, <1>3, <1>4 DEF Due
  <2>2. proc' = [proc EXCEPT ![g] = After(p, p.arg)]
    BY <1>1, <1>2, <1>4 DEF Transition, Become
  <2>3. /\ Fits(After(p, p.arg), journal, end, archive, effects)
        /\ After(p, p.arg).pc \in {"load", "effect", "maintain", "idle"}
    BY <1>1, <1>2, <1>4, <2>1, AfterFits
  <2> QED
    BY <2>2, <2>3 DEF Goes
<1>5. CASE from # p.arg.phase
  <2> DEFINE q == Appending(p, p.arg.id, p.arg.phase, journal)
  <2>1. proc' = [proc EXCEPT ![g] = q]
    BY <1>1, <1>2, <1>5 DEF Transition, Become
  <2>2. q.pc = "append" /\ q.op = "to" /\ q.recs = journal
        /\ q.arg.id = p.arg.id /\ q.arg.phase = p.arg.phase
        /\ q.arg = [id |-> p.arg.id, phase |-> p.arg.phase]
    BY <1>1 DEF Appending, At
  <2>3. Rank(from) < Rank(p.arg.phase) /\ Rank(from) \in 0..5 /\ Rank(p.arg.phase) \in 0..5
    BY <1>2, <1>3, <1>5, AllowedRises
  <2>4. ASSUME NEW r \in journal, r.id = p.arg.id
        PROVE  Rank(r.phase) < Rank(p.arg.phase)
    <3>1. r.phase \in Phases
      BY <1>1 DEF Sound, Records
    <3>2. Rank(r.phase) \in 0..5 /\ Rank(r.phase) <= Rank(from)
      BY <1>3, <2>4, <3>1, AllowedRises
    <3> QED
      BY <2>3, <3>2
  <2>5. p.arg.phase # "dispatched" => Dispatched(journal, p.arg.id)
    BY <1>1 DEF Due
  <2>6. p.arg.id.kind = "control"
    BY <1>2 DEF ControlIds
  <2>7. Rises(q.arg, journal) /\ OfOperation(q.op, q.arg)
    BY <1>2, <2>2, <2>4, <2>5, <2>6 DEF Rises, OfOperation, Ids
  <2>8. journal \subseteq Records
    BY <1>1 DEF Sound
  <2>9. Fits(q, journal, end, archive, effects)
    BY <2>2, <2>7, <2>8 DEF Fits
  <2> QED
    BY <2>1, <2>2, <2>9 DEF Goes
<1> QED
  BY <1>4, <1>5

LEMMA ObservedFits ==
  ASSUME JournalAssumption, IInv, NEW g \in Governesses, Observed(g, journal)
  PROVE  \E q : Goes(g, q)
<1>1. CASE Become(g, Idle)
  BY <1>1, RestsFit DEF Become, Idle, Goes
<1>2. ASSUME NEW n \in 1..MaxObs,
             Become(g, Appending(proc[g], Observation(g, n), "completed", journal))
      PROVE  \E q : Goes(g, q)
  <2> DEFINE q == Appending(proc[g], Observation(g, n), "completed", journal)
  <2>1. q.pc = "append" /\ q.op = "observe" /\ q.recs = journal
        /\ q.arg = [id |-> Observation(g, n), phase |-> "completed"]
    BY DEF Observed, Appending, At
  <2>2. Observation(g, n) \in Ids /\ Observation(g, n).kind = "observation"
    BY DEF Observation, Ids
  <2>3. Rises(q.arg, journal) /\ OfOperation(q.op, q.arg)
    BY <2>1, <2>2 DEF Rises, OfOperation, Phases
  <2>4. journal \subseteq Records
    BY DEF IInv, Sound
  <2>5. Fits(q, journal, end, archive, effects)
    BY <2>1, <2>3, <2>4 DEF Fits
  <2> QED
    BY <1>2, <2>1, <2>5 DEF Become, Goes
<1> QED
  BY <1>1, <1>2 DEF Observed

LEMMA ReconciledFits ==
  ASSUME JournalAssumption, IInv, NEW g \in Governesses, Reconciled(g, journal)
  PROVE  \E q : Goes(g, q)
<1>1. CASE Become(g, Idle)
  BY <1>1, RestsFit DEF Become, Idle, Goes
<1>2. ASSUME NEW id \in Pending(journal), NEW phase \in {"acknowledged", "completed"},
             Dispatched(journal, id), Become(g, To(id, phase))
      PROVE  \E q : Goes(g, q)
  <2> DEFINE from == LatestPhase(journal, id)
  <2>1. id \in IdsIn(journal) /\ from \notin Settled /\ Sound(journal, end)
    BY DEF Pending, IInv
  <2>2. id \in ControlIds /\ id.try = 1 /\ from \in Phases
    BY <2>1, HasLatest
  <2>3. TransitionAllowed(from, phase)
    BY <2>1, <2>2 DEF TransitionAllowed, Rank, Phases, Settled
  <2>4. Due([id |-> id, phase |-> phase], journal)
    BY <1>2, <2>1, <2>2, <2>3 DEF Due, Phases
  <2>5. Fits(To(id, phase), journal, end, archive, effects) /\ To(id, phase).pc = "load"
    BY <2>4, OperationFits DEF To
  <2> QED
    BY <1>2, <2>5 DEF Become, Goes
<1> QED
  BY <1>1, <1>2 DEF Reconciled

LEMMA LoadedFits ==
  ASSUME JournalAssumption, IInv, NEW g \in Governesses, proc[g].pc \in {"load", "rebuild"},
         Loaded(g, journal)
  PROVE  \E q : Goes(g, q)
<1>1. CASE Indexed(g)
  <2>1. proc[g].arg \in {"acquire", "idle"}
    BY <1>1 DEF Indexed, IInv, Fits
  <2> QED
    BY <1>1, <2>1, RestsFit DEF Indexed, Become, Goes
<1> QED
  BY <1>1, PrepareFits, TransitionFits, ObservedFits, ReconciledFits DEF Loaded

-----------------------------------------------------------------------------
(* The steps.                                                              *)

\* What is left to show of a step once it is known where its Governess goes.
LEMMA StepKeeps ==
  ASSUME IInv, NEW g \in Governesses, proc[g].pc # "down",
         \A h \in Governesses : h < g => proc[h].pc = "down",
         NEW q, proc' = [proc EXCEPT ![g] = q], q.pc # "new",
         Fits(q, journal', end', archive', effects'),
         Scalars', NoRecordLost', Sound(journal', end'), Backed(effects', journal'),
         Current(disk', journal', end', gen'),
         cache' = [h \in Governesses |-> cache'[h]],
         \A h \in Governesses : Current(cache'[h], journal', end', gen')
  PROVE  IInv'
<1>1. /\ proc' = [h \in Governesses |-> proc'[h]]
      /\ \A h \in Governesses : Fits(proc'[h], journal', end', archive', effects')
      /\ OneAtATime'
  BY MovesAlone
<1> QED
  BY <1>1 DEF IInv, Governesses

\* The same for a step that leaves the files, the indexes and the effects alone.
LEMMA QuietStepKeeps ==
  ASSUME IInv, NEW g \in Governesses, proc[g].pc # "down",
         \A h \in Governesses : h < g => proc[h].pc = "down",
         NEW q, proc' = [proc EXCEPT ![g] = q], q.pc # "new",
         Fits(q, journal, end, archive, effects),
         UNCHANGED <<files, disk, cache, effects>>,
         fence' \in 0..MaxEpoch, faults' \in 0..MaxFaults
  PROVE  IInv'
<1>1. /\ journal' = journal /\ end' = end /\ archive' = archive /\ effects' = effects
      /\ gen' = gen /\ written' = written /\ disk' = disk /\ cache' = cache
  BY DEF files
<1>2. Scalars' /\ NoRecordLost'
  BY <1>1 DEF IInv, Scalars, NoRecordLost
<1>3. /\ Fits(q, journal', end', archive', effects')
      /\ Sound(journal', end') /\ Backed(effects', journal')
      /\ Current(disk', journal', end', gen')
      /\ cache' = [h \in Governesses |-> cache'[h]]
      /\ \A h \in Governesses : Current(cache'[h], journal', end', gen')
  BY <1>1 DEF IInv
<1> QED
  BY <1>2, <1>3, StepKeeps

\* An index of the journal as it is, and one that is older.
LEMMA IndexesStayCurrent ==
  ASSUME NEW J \in SUBSET Records, NEW e \in Nat, NEW n \in Nat
  PROVE  /\ Current([recs |-> J, stat |-> <<e, n>>], J, e, n)
         /\ n # 0 => Current(NoIndex, J, e, n)
         /\ \A i, K : Current(i, K, e, n) => Current(i, J, e + 1, n) /\ Current(i, J, e, n + 1)
<1>1. Current([recs |-> J, stat |-> <<e, n>>], J, e, n)
  BY DEF Current
<1>2. n # 0 => Current(NoIndex, J, e, n)
  BY DEF Current, NoIndex
<1>3. ASSUME NEW i, NEW K, Current(i, K, e, n)
      PROVE  Current(i, J, e + 1, n) /\ Current(i, J, e, n + 1)
  <2>1. /\ i.recs \subseteq Records /\ i.stat \in Nat \X Nat
        /\ i.stat[2] <= n /\ (i.stat[2] = n => i.stat[1] <= e)
    BY <1>3 DEF Current
  <2>2. i.stat[1] \in Nat /\ i.stat[2] \in Nat
    BY <2>1
  <2>3. i.stat # <<e + 1, n>> /\ i.stat # <<e, n + 1>>
    BY <2>1, <2>2
  <2> QED
    BY <2>1, <2>2, <2>3 DEF Current
<1> QED
  BY <1>1, <1>2, <1>3

LEMMA InitKeeps ==
  ASSUME JournalAssumption, Init
  PROVE  IInv
<1>1. Scalars /\ NoRecordLost /\ Sound(journal, end) /\ Backed(effects, journal)
  BY DEF JournalAssumption, Init, Scalars, NoRecordLost, Sound, Backed
<1>2. Current(NoIndex, {}, 0, 1)
  BY DEF Current, NoIndex
<1>3. \A g \in Governesses : Fits(proc[g], journal, end, archive, effects) /\ proc[g].pc = "new"
  BY RestsFit DEF Init
<1>4. OneAtATime
  BY <1>3 DEF OneAtATime
<1> QED
  BY <1>1, <1>2, <1>3, <1>4 DEF Init, IInv

\* The index of an operation is the journal, from wherever it was taken.
LEMMA LoadKeeps ==
  ASSUME JournalAssumption, IInv, NEW g \in Governesses,
         LoadCached(g) \/ LoadIndexFile(g) \/ Rebuild(g)
  PROVE  IInv' /\ proc'[g].pc # "down"
<1>1. proc[g].pc \in {"load", "rebuild"} /\ proc[g].pc \notin {"new", "down"}
  BY DEF LoadCached, LoadIndexFile, Rebuild
<1>2. Loaded(g, journal)
  BY DEF IInv, Current, Stat, Fits, LoadCached, LoadIndexFile, Rebuild
<1>3. PICK q : Goes(g, q)
  BY <1>1, <1>2, LoadedFits
<1>4. UNCHANGED <<journal, end, gen, archive, written, fence, effects, faults>>
  BY DEF LoadCached, LoadIndexFile, Rebuild, files
<1>5. Scalars' /\ NoRecordLost' /\ Sound(journal', end') /\ Backed(effects', journal')
      /\ Fits(q, journal', end', archive', effects')
  BY <1>3, <1>4 DEF IInv, Scalars, NoRecordLost, Goes
<1>6. /\ Current(disk', journal', end', gen')
      /\ cache' = [h \in Governesses |-> cache'[h]]
      /\ \A h \in Governesses : Current(cache'[h], journal', end', gen')
  <2>1. CASE LoadCached(g)
    BY <1>4, <2>1 DEF IInv, LoadCached
  <2>2. CASE LoadIndexFile(g)
    BY <1>4, <2>2 DEF IInv, LoadIndexFile
  <2>3. CASE Rebuild(g)
    <3>1. proc[g].recs = journal /\ journal \in SUBSET Records /\ end \in Nat /\ gen \in Nat
      BY <1>1, <2>3 DEF IInv, Fits, Sound, Scalars, Rebuild
    <3>2. Current([recs |-> journal, stat |-> <<end, gen>>], journal, end, gen)
      BY <3>1, IndexesStayCurrent
    <3>3. disk' = [recs |-> journal, stat |-> <<end, gen>>] /\ cache' = [cache EXCEPT ![g] = disk']
      BY <2>3, <3>1 DEF Rebuild, Stat
    <3> QED
      BY <1>4, <3>2, <3>3 DEF IInv
  <2> QED
    BY <2>1, <2>2, <2>3
<1>7. IInv'
  BY <1>1, <1>3, <1>5, <1>6, LiveAlone, StepKeeps DEF Goes
<1> QED
  BY <1>3, <1>7 DEF Goes, IInv

\* A read of the journal finds the journal.
LEMMA ReadKeeps ==
  ASSUME JournalAssumption, IInv, NEW g \in Governesses, ReadJournal(g)
  PROVE  IInv' /\ proc'[g].pc # "down"
<1> DEFINE q == At("rebuild", proc[g].op, proc[g].arg, journal)
<1>1. q.pc = "rebuild" /\ q.op = proc[g].op /\ q.arg = proc[g].arg /\ q.recs = journal
  BY DEF At
<1>2. proc' = [proc EXCEPT ![g] = q] /\ proc[g].pc = "load"
  BY DEF ReadJournal, Become
<1> HIDE DEF q
<1>3. Fits(q, journal, end, archive, effects)
  BY <1>1, <1>2 DEF IInv, Fits, Sound
<1>4. IInv'
  BY <1>1, <1>2, <1>3, LiveAlone, QuietStepKeeps DEF ReadJournal, IInv, Scalars
<1> QED
  BY <1>1, <1>2, <1>4 DEF IInv

LEMMA AppendKeeps ==
  ASSUME JournalAssumption, IInv, NEW g \in Governesses, AppendRecord(g)
  PROVE  IInv'
<1> DEFINE p == proc[g]
           rec == [id |-> p.arg.id, phase |-> p.arg.phase, at |-> end + 1]
           q == At("stored", p.op, rec, p.recs)
<1>1. p.pc = "append" /\ p.recs = journal /\ Rises(p.arg, journal) /\ OfOperation(p.op, p.arg)
      /\ journal' = journal \cup {rec} /\ written' = written \cup {rec} /\ end' = end + 1
      /\ proc' = [proc EXCEPT ![g] = q]
      /\ UNCHANGED <<gen, archive, disk, cache, fence, effects, faults>>
  BY DEF AppendRecord, Become, IInv, Fits
<1>2. Sound(journal, end) /\ end \in Nat /\ gen \in Nat /\ Scalars
  BY DEF IInv, Scalars
<1>3. Sound(journal', end')
  BY <1>1, <1>2, AppendKeepsSound
<1>4. rec.id = p.arg.id /\ rec.phase = p.arg.phase /\ rec.at = end + 1 /\ rec \in journal'
  BY <1>1
<1>5. q.pc = "stored" /\ q.op = p.op /\ q.arg = rec /\ q.recs = journal
  BY <1>1 DEF At
<1> HIDE DEF rec, q
<1>6. rec \in Records
  BY <1>3, <1>4 DEF Sound
<1>7. Scalars' /\ NoRecordLost'
  BY <1>1, <1>2, <1>6 DEF IInv, Scalars, NoRecordLost
<1>8. Backed(effects', journal')
  BY <1>1 DEF IInv, Backed, Dispatched
<1>9. ASSUME p.op = "to", rec.phase = "dispatched"
      PROVE  effects[rec.id.of] = 0
  <2>1. rec.id \in Ids /\ rec.id.kind = "control" /\ rec.id.try = 1
    BY <1>1, <1>4, <1>9 DEF Rises, OfOperation
  <2>2. rec.id.of \in Keys /\ rec.id = Control(rec.id.of, 1)
    BY <2>1 DEF Ids, ControlIds, Control
  <2>3. ASSUME Dispatched(journal, rec.id)
        PROVE  FALSE
    <3>1. PICK r \in journal : r.id = rec.id /\ r.phase = "dispatched"
      BY <2>3 DEF Dispatched
    <3>2. Rank(r.phase) < Rank(rec.phase)
      BY <1>1, <1>4, <2>1, <3>1 DEF Rises
    <3> QED
      BY <1>9, <3>1, <3>2 DEF Rank
  <2>4. ~Dispatched(journal, Control(rec.id.of, 1))
    BY <2>2, <2>3
  <2> QED
    BY <2>2, <2>4 DEF IInv, Backed
<1>10. OfOperation(q.op, q.arg)
  BY <1>1, <1>4, <1>5 DEF OfOperation
<1>11. Fits(q, journal', end', archive', effects')
  BY <1>1, <1>2, <1>4, <1>5, <1>9, <1>10 DEF Fits, Sound
<1>12. journal' \in SUBSET Records
  BY <1>3 DEF Sound
<1>13. /\ Current(disk', journal', end', gen')
       /\ cache' = [h \in Governesses |-> cache'[h]]
       /\ \A h \in Governesses : Current(cache'[h], journal', end', gen')
  BY <1>1, <1>2, <1>12, IndexesStayCurrent DEF IInv
<1> QED
  BY <1>1, <1>3, <1>5, <1>7, <1>8, <1>11, <1>13, LiveAlone, StepKeeps

\* The index that is stored is the journal, and its last record the latest of its control.
LEMMA StoreKeeps ==
  ASSUME JournalAssumption, IInv, NEW g \in Governesses, StoreIndex(g)
  PROVE  IInv'
<1> DEFINE p == proc[g]
           q == After(p, p.arg)
           new == [recs |-> journal, stat |-> <<end, gen>>]
<1>1. /\ p.pc = "stored" /\ journal = p.recs \cup {p.arg} /\ p.arg.at = end
      /\ OfOperation(p.op, p.arg)
      /\ p.op = "to" /\ p.arg.phase = "dispatched" => effects[p.arg.id.of] = 0
  BY DEF StoreIndex, IInv, Fits
<1>2. /\ disk' = new /\ cache' = [cache EXCEPT ![g] = disk'] /\ proc' = [proc EXCEPT ![g] = q]
      /\ UNCHANGED <<journal, end, gen, archive, written, fence, effects, faults>>
  BY <1>1 DEF StoreIndex, Become, Stat, files
<1>3. Sound(journal, end) /\ end \in Nat /\ gen \in Nat /\ journal \in SUBSET Records
  BY DEF IInv, Scalars, Sound
<1>4. p.op # "observe" => p.arg.id \in IdsIn(journal) /\ LatestPhase(journal, p.arg.id) = p.arg.phase
  <2> SUFFICES ASSUME p.op # "observe"
               PROVE  p.arg.id \in IdsIn(journal) /\ LatestPhase(journal, p.arg.id) = p.arg.phase
    OBVIOUS
  <2>1. p.arg \in journal /\ p.arg.id.kind = "control"
    BY <1>1 DEF OfOperation
  <2>2. p.arg.id \in IdsIn(journal)
    BY <2>1 DEF IdsIn, IsObs
  <2>3. \A s \in journal : s.at <= p.arg.at
    BY <1>1, <1>3 DEF Sound
  <2> QED
    BY <1>3, <2>1, <2>2, <2>3, LatestSays
<1>5. Fits(q, journal, end, archive, effects) /\ q.pc \in {"load", "effect", "maintain", "idle"}
  BY <1>1, <1>3, <1>4, AfterFits DEF OfOperation
<1> HIDE DEF q
<1>6. Scalars' /\ NoRecordLost' /\ Sound(journal', end') /\ Backed(effects', journal')
      /\ Fits(q, journal', end', archive', effects')
  BY <1>2, <1>5 DEF IInv, Scalars, NoRecordLost
<1>7. Current(new, journal, end, gen)
  BY <1>3, IndexesStayCurrent
<1> HIDE DEF new
<1>8. /\ Current(disk', journal', end', gen')
      /\ cache' = [h \in Governesses |-> cache'[h]]
      /\ \A h \in Governesses : Current(cache'[h], journal', end', gen')
  BY <1>2, <1>7 DEF IInv
<1> QED
  BY <1>1, <1>2, <1>5, <1>6, <1>8, LiveAlone, StepKeeps

\* Maintenance leaves the journal alone or goes on to compact the one it read.
LEMMA MaintainKeeps ==
  ASSUME JournalAssumption, IInv, NEW g \in Governesses, proc[g].pc # "down",
         \A h \in Governesses : h < g => proc[h].pc = "down",
         NEW resume \in {"acquire", "idle"}, Maintain(g, resume),
         UNCHANGED <<files, disk, cache, fence, effects, faults>>
  PROVE  IInv'
<1>1. CASE Become(g, Operation("index", resume))
  <2> DEFINE q == Operation("index", resume)
  <2>1. Fits(q, journal, end, archive, effects) /\ q.pc = "load"
    BY OperationFits
  <2>2. proc' = [proc EXCEPT ![g] = q]
    BY <1>1 DEF Become
  <2> HIDE DEF q
  <2> QED
    BY <2>1, <2>2, QuietStepKeeps DEF IInv, Scalars
<1>2. CASE Become(g, At("archive", "index", resume, journal))
  <2> DEFINE q == At("archive", "index", resume, journal)
  <2>1. q.pc = "archive" /\ q.arg = resume /\ q.recs = journal
    BY DEF At
  <2>2. proc' = [proc EXCEPT ![g] = q]
    BY <1>2 DEF Become
  <2> HIDE DEF q
  <2>3. Fits(q, journal, end, archive, effects)
    BY <2>1 DEF IInv, Sound, Fits
  <2> QED
    BY <2>1, <2>2, <2>3, QuietStepKeeps DEF IInv, Scalars
<1> QED
  BY <1>1, <1>2 DEF Maintain

LEMMA ArchiveKeeps ==
  ASSUME JournalAssumption, IInv, NEW g \in Governesses, WriteArchive(g)
  PROVE  IInv'
<1> DEFINE p == proc[g]
           q == At("replace", "index", p.arg, p.recs)
<1>1. /\ p.pc = "archive" /\ p.recs = journal /\ p.arg \in {"acquire", "idle"}
      /\ proc' = [proc EXCEPT ![g] = q]
      /\ archive' = archive \cup (journal \ Retained(journal))
      /\ UNCHANGED <<journal, end, gen, written, disk, cache, fence, effects, faults>>
  BY DEF WriteArchive, Become, IInv, Fits
<1>2. q.pc = "replace" /\ q.arg = p.arg /\ q.recs = journal
  BY <1>1 DEF At
<1> HIDE DEF q
<1>3. Scalars' /\ NoRecordLost'
  BY <1>1 DEF IInv, Scalars, NoRecordLost
<1>4. journal \subseteq Records
  BY DEF IInv, Sound
<1>5. Fits(q, journal', end', archive', effects')
  BY <1>1, <1>2, <1>4 DEF Fits
<1>6. /\ Sound(journal', end') /\ Backed(effects', journal')
      /\ Current(disk', journal', end', gen')
      /\ cache' = [h \in Governesses |-> cache'[h]]
      /\ \A h \in Governesses : Current(cache'[h], journal', end', gen')
  BY <1>1 DEF IInv
<1> QED
  BY <1>1, <1>2, <1>3, <1>5, <1>6, LiveAlone, StepKeeps

\* The journal that replaces the old one has what is not in the archive, and every
\* dispatch there was.
LEMMA ReplaceKeeps ==
  ASSUME JournalAssumption, IInv, NEW g \in Governesses, ReplaceJournal(g)
  PROVE  IInv'
<1> DEFINE p == proc[g]
           q == Operation("index", p.arg)
<1>1. /\ p.pc = "replace" /\ p.recs = journal /\ p.arg \in {"acquire", "idle"}
      /\ journal \ Retained(journal) \subseteq archive
      /\ proc' = [proc EXCEPT ![g] = q]
      /\ journal' = Retained(journal) /\ gen' = gen + 1
      /\ cache' = [cache EXCEPT ![g] = NoIndex]
      /\ UNCHANGED <<end, archive, written, disk, fence, effects, faults>>
  BY DEF ReplaceJournal, Become, IInv, Fits
<1>2. Sound(journal, end) /\ end \in Nat /\ gen \in Nat \ {0} /\ Scalars
  BY DEF IInv, Scalars
<1>3. Sound(journal', end') /\ journal' \subseteq journal
      /\ \A r \in journal : ~IsObs(r) => r \in journal'
  BY <1>1, <1>2, RetainKeepsSound
<1>4. Scalars' /\ NoRecordLost'
  BY <1>1, <1>2, <1>3 DEF IInv, Scalars, NoRecordLost
<1>5. Backed(effects', journal')
  <2>1. ASSUME NEW k \in Keys, Dispatched(journal, Control(k, 1))
        PROVE  Dispatched(journal', Control(k, 1))
    BY <1>3, <2>1 DEF Dispatched, IsObs, Control
  <2> QED
    BY <1>1, <2>1 DEF IInv, Backed
<1>6. Fits(q, journal', end', archive', effects') /\ q.pc = "load"
  BY <1>1, OperationFits
<1> HIDE DEF q
<1>7. journal' \in SUBSET Records /\ gen' \in Nat /\ gen' # 0
  BY <1>1, <1>2, <1>3 DEF Sound
<1>8. Current(NoIndex, journal', end', gen')
  BY <1>1, <1>2, <1>7, IndexesStayCurrent
<1>9. /\ Current(disk', journal', end', gen')
      /\ cache' = [h \in Governesses |-> cache'[h]]
      /\ \A h \in Governesses : Current(cache'[h], journal', end', gen')
  BY <1>1, <1>2, <1>7, <1>8, IndexesStayCurrent DEF IInv
<1> QED
  BY <1>1, <1>3, <1>4, <1>5, <1>6, <1>9, LiveAlone, StepKeeps

\* An effect reaches the agents under a dispatch that had none before, and what is
\* due then is a transition out of "dispatched".
LEMMA EffectKeeps ==
  ASSUME JournalAssumption, IInv, NEW g \in Governesses, Effect(g) \/ EffectFails(g)
  PROVE  IInv'
<1> DEFINE id == proc[g].arg.id
<1>1. /\ proc[g].pc = "effect" /\ id \in ControlIds /\ id.try = 1 /\ id \in IdsIn(journal)
      /\ LatestPhase(journal, id) = "dispatched" /\ Dispatched(journal, id)
      /\ effects[id.of] = 0
  BY DEF Effect, EffectFails, IInv, Fits
<1>2. PICK phase \in {"accepted", "completed", "failed"} : Become(g, To(id, phase))
  BY DEF Effect, EffectFails
<1> DEFINE q == To(id, phase)
<1>3. TransitionAllowed("dispatched", phase)
  BY DEF TransitionAllowed, Settled, Rank
<1>4. Due([id |-> id, phase |-> phase], journal)
  BY <1>1, <1>3 DEF Due, Phases
<1>5. /\ effects' \in {effects, [effects EXCEPT ![id.of] = @ + 1]} /\ faults' \in 0..MaxFaults
      /\ UNCHANGED <<journal, end, gen, archive, written, disk, cache, fence>>
  BY DEF Effect, EffectFails, Fault, files, IInv, Scalars, JournalAssumption
<1>6. Fits(q, journal', end', archive', effects') /\ q.pc = "load"
  BY <1>4, <1>5, OperationFits DEF To
<1> HIDE DEF q
<1>7. Backed(effects', journal')
  <2>1. id.of \in Keys /\ id = Control(id.of, 1)
    BY <1>1 DEF ControlIds, Control
  <2>2. Backed(effects, journal) /\ Dispatched(journal, Control(id.of, 1))
    BY <1>1, <2>1 DEF IInv
  <2> HIDE DEF id
  <2> QED
    BY <1>1, <1>5, <2>1, <2>2 DEF Backed
<1>8. Scalars' /\ NoRecordLost'
  BY <1>5 DEF IInv, Scalars, NoRecordLost
<1>9. /\ Sound(journal', end')
      /\ Current(disk', journal', end', gen')
      /\ cache' = [h \in Governesses |-> cache'[h]]
      /\ \A h \in Governesses : Current(cache'[h], journal', end', gen')
  BY <1>5 DEF IInv
<1>10. proc' = [proc EXCEPT ![g] = q]
  BY <1>2 DEF Become, q
<1> QED
  BY <1>1, <1>6, <1>7, <1>8, <1>9, <1>10, LiveAlone, StepKeeps

\* A Governess that takes its epoch, begins an operation or ends.
LEMMA TurnKeeps ==
  ASSUME JournalAssumption, IInv, NEW g \in Governesses,
         Acquire(g) \/ Issue(g) \/ Observe(g) \/ Reconcile(g) \/ Retire(g)
  PROVE  IInv'
<1>1. PICK q : /\ proc' = [proc EXCEPT ![g] = q] /\ q.pc # "new"
               /\ Fits(q, journal, end, archive, effects)
  <2>1. CASE Acquire(g) \/ Retire(g)
    BY <2>1, RestsFit DEF Acquire, Retire, Become, Idle, Ended
  <2>2. CASE Issue(g)
    <3>1. PICK c \in Controls : Become(g, Operation("prepare", <<g, c>>))
      BY <2>2 DEF Issue
    <3>2. <<g, c>> \in Keys
      BY DEF Keys
    <3>3. /\ Fits(Operation("prepare", <<g, c>>), journal, end, archive, effects)
          /\ Operation("prepare", <<g, c>>).pc = "load"
      BY <3>2, OperationFits
    <3> QED
      BY <3>1, <3>3 DEF Become
  <2>3. CASE Observe(g) \/ Reconcile(g)
    <3>1. PICK op \in {"observe", "reconcile"} : Become(g, Operation(op, 0))
      BY <2>3 DEF Observe, Reconcile
    <3>2. /\ Fits(Operation(op, 0), journal, end, archive, effects)
          /\ Operation(op, 0).pc = "load"
      BY OperationFits
    <3> QED
      BY <3>1, <3>2 DEF Become
  <2> QED
    BY <2>1, <2>2, <2>3
<1>2. /\ proc[g].pc \notin {"new", "down"} /\ UNCHANGED <<files, disk, cache, effects>>
      /\ fence' \in 0..MaxEpoch /\ faults' \in 0..MaxFaults
  BY DEF Acquire, Issue, Observe, Reconcile, Retire, IInv, Scalars, Governesses, JournalAssumption
<1> QED
  BY <1>1, <1>2, LiveAlone, QuietStepKeeps

LEMMA CrashKeeps ==
  ASSUME JournalAssumption, IInv, NEW g \in Governesses, Crash(g)
  PROVE  IInv'
<1>1. /\ proc[g].pc \notin {"new", "down"} /\ proc' = [proc EXCEPT ![g] = Ended]
      /\ cache' = [cache EXCEPT ![g] = NoIndex] /\ faults' \in 0..MaxFaults
      /\ UNCHANGED <<journal, end, gen, archive, written, disk, fence, effects>>
  BY DEF Crash, Become, Fault, files, IInv, Scalars, JournalAssumption
<1>2. Scalars' /\ NoRecordLost'
  BY <1>1 DEF IInv, Scalars, NoRecordLost
<1>3. Fits(Ended, journal', end', archive', effects') /\ Ended.pc = "down"
  BY RestsFit DEF Ended
<1>4. Current(NoIndex, journal', end', gen')
  BY <1>1, IndexesStayCurrent DEF IInv, Scalars, Sound
<1>5. /\ Sound(journal', end') /\ Backed(effects', journal')
      /\ Current(disk', journal', end', gen')
      /\ cache' = [h \in Governesses |-> cache'[h]]
      /\ \A h \in Governesses : Current(cache'[h], journal', end', gen')
  BY <1>1, <1>4 DEF IInv
<1> QED
  BY <1>1, <1>2, <1>3, <1>5, LiveAlone, StepKeeps

\* Every step keeps the invariant, as long as Governesses do not overlap.
LEMMA NextKeeps ==
  ASSUME JournalAssumption, ~Overlap, IInv, [Next]_vars
  PROVE  IInv'
<1>1. CASE UNCHANGED vars
  BY <1>1 DEF vars, IInv, Scalars, NoRecordLost, OneAtATime, Governesses
<1>2. ASSUME NEW g \in Governesses, Step(g)
      PROVE  IInv'
  <2>1. CASE Start(g)
    <3>1. proc[g].pc # "down" /\ \A h \in Governesses : h < g => proc[h].pc = "down"
      BY <2>1 DEF Start
    <3> QED
      BY <2>1, <3>1, MaintainKeeps DEF Start
  <2>2. CASE MaintainCycle(g)
    <3>1. proc[g].pc # "down" /\ \A h \in Governesses : h < g => proc[h].pc = "down"
      BY <2>2, LiveAlone DEF MaintainCycle
    <3> QED
      BY <2>2, <3>1, MaintainKeeps DEF MaintainCycle
  <2> QED
    BY <1>2, <2>1, <2>2, LoadKeeps, ReadKeeps, AppendKeeps, StoreKeeps, ArchiveKeeps, ReplaceKeeps,
       EffectKeeps, TurnKeeps, CrashKeeps DEF Step
<1> QED
  BY <1>1, <1>2 DEF Next

LEMMA Invariant ==
  ASSUME JournalAssumption, ~Overlap
  PROVE  Spec => []IInv
<1>1. Init => IInv
  BY InitKeeps
<1>2. IInv /\ [Next]_vars => IInv'
  BY NextKeeps
<1> QED
  BY <1>1, <1>2, PTL DEF Spec

-----------------------------------------------------------------------------
(* The theorems.                                                           *)

\* The journal, its archive and its indexes hold records, whatever crashes.
THEOREM TypeCorrect ==
  ASSUME JournalAssumption, ~Overlap
  PROVE  Spec => []TypeOK
<1>1. IInv => TypeOK
  BY DEF IInv, Scalars, Sound, Current, Fits, Backed, TypeOK
<1> QED
  BY <1>1, Invariant, PTL

\* The effect of an idempotency key reaches the agents at most once, over failed
\* effects, crashes, rebuilt indexes and compactions (prepareGovernessControl).
THEOREM EffectOnce ==
  ASSUME JournalAssumption, ~Overlap
  PROVE  Spec => []EffectOncePerKey
<1>1. IInv => EffectOncePerKey
  BY DEF IInv, Backed, EffectOncePerKey
<1> QED
  BY <1>1, Invariant, PTL

\* A record that was written is in the journal or in the archive
\* (compactGovernessJournal).
THEOREM NothingLost ==
  ASSUME JournalAssumption, ~Overlap
  PROVE  Spec => []NoRecordLost
<1>1. IInv => NoRecordLost
  BY DEF IInv
<1> QED
  BY <1>1, Invariant, PTL

\* No transition that a Governess asks for is refused: transitionGovernessControl
\* does not throw, and only a crash ends an operation.
THEOREM NeverEnded ==
  ASSUME JournalAssumption, ~Overlap
  PROVE  Spec => NeverEndedByJournal
<1>1. IInv /\ [Next]_vars => [GoesOn]_vars
  <2> SUFFICES ASSUME IInv, Next, NEW h \in Governesses, proc[h].pc \in {"load", "rebuild"},
                      proc'[h].pc = "down"
               PROVE  faults' > faults
    BY DEF GoesOn, Governesses
  <2>1. PICK g \in Governesses : Step(g)
    BY DEF Next
  <2>2. h = g
    <3>1. h # g => proc'[h] = proc[h]
      BY <2>1 DEF IInv, Step, LoadCached, LoadIndexFile, ReadJournal, Rebuild, AppendRecord,
         StoreIndex, MaintainCycle, WriteArchive, ReplaceJournal, Start, Acquire, Issue, Effect,
         EffectFails, Observe, Reconcile, Retire, Crash, Become, Loaded, Prepare, Transition,
         Observed, Reconciled, Indexed, Maintain
    <3> QED
      BY <3>1
  <2>3. LoadCached(g) \/ LoadIndexFile(g) \/ Rebuild(g) \/ ReadJournal(g) \/ Crash(g)
    BY <2>1, <2>2 DEF Step, AppendRecord, StoreIndex, MaintainCycle, WriteArchive, ReplaceJournal,
       Start, Acquire, Issue, Effect, EffectFails, Observe, Reconcile, Retire
  <2>4. Crash(g)
    BY <2>2, <2>3, LoadKeeps, ReadKeeps
  <2> QED
    BY <2>4 DEF Crash, Fault, IInv, Scalars
<1> QED
  BY <1>1, Invariant, PTL DEF Spec, NeverEndedByJournal
=============================================================================
