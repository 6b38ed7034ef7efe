--------------------------- MODULE ControlJournal ---------------------------
(***************************************************************************)
(* The control journal of the Governess (governess-journal.ts) as          *)
(* governess.ts writes to it: a control is prepared, dispatched, put into  *)
(* effect and settled, each of the four a record appended to               *)
(* governess-control.jsonl.  An idempotency key is dispatched once.  What  *)
(* is known of a key is read from an index, kept in memory and in a file,  *)
(* that counts as current while size and mtime of the journal are those it *)
(* was stored with.  Observations are compacted away.  No lock is held: a  *)
(* Governess that takes over writes beside the one it replaces.            *)
(***************************************************************************)
EXTENDS Integers, FiniteSets

CONSTANTS Controls,     \* payloads of controls to the agents
          Overlap,      \* a Governess may start while an older one still runs
          MaxEpoch,     \* bound: Governesses, by their epoch
          MaxObs,       \* bound: observations of one Governess
          CompactAt,    \* GOVERNESS_JOURNAL_COMPACT_BYTES, in records
          MaxFaults     \* bound: crashes and effects that fail

JournalAssumption ==
  /\ Overlap \in BOOLEAN
  /\ MaxEpoch \in Nat \ {0} /\ MaxObs \in Nat /\ CompactAt \in Nat /\ MaxFaults \in Nat

VARIABLES journal,   \* governess-control.jsonl: its records, each with its place
          end,       \* the place of the last record appended
          gen,       \* how often it was renamed over: end and gen stand for its stat
          archive,   \* the records of the archive directory
          written,   \* history: all records ever appended
          disk,      \* the index file
          cache,     \* indexCache of each Governess
          proc,      \* where each Governess is, and its journal operation
          fence,     \* the epoch of governess-state.json
          effects,   \* how often the effect of a key reached the agents
          faults

vars == <<journal, end, gen, archive, written, disk, cache, proc, fence, effects, faults>>
files == <<journal, end, gen, archive, written>>

Governesses == 1..MaxEpoch
Keys == Governesses \X Controls     \* controlKey: the epoch is part of it
\* A control is one attempt at a key.  All observations are of one stream.
Control(key, n) == [kind |-> "control", of |-> key, try |-> n]
Observation(g, n) == [kind |-> "observation", of |-> g, try |-> n]
Tries == 1..(MaxFaults + 1)
ControlIds == [kind : {"control"}, of : Keys, try : Tries]
Ids == ControlIds \cup [kind : {"observation"}, of : Governesses, try : 1..MaxObs]
IsObs(r) == r.id.kind = "observation"

Phases == {"prepared", "dispatched", "accepted", "acknowledged", "completed", "failed"}
Rank(phase) ==
  CASE phase = "prepared" -> 0 [] phase = "dispatched" -> 1 [] phase = "accepted" -> 2
    [] phase = "acknowledged" -> 3 [] phase = "completed" -> 4 [] phase = "failed" -> 5
Settled == {"completed", "failed"}
TransitionAllowed(from, to) ==
  \/ from = to
  \/ from \notin Settled /\ (to = "failed" \/ Rank(to) > Rank(from))

Records == [id : Ids, phase : Phases, at : Nat]
Fault == faults < MaxFaults /\ faults' = faults + 1

-----------------------------------------------------------------------------
(* An index is what its records say: here, the records it was built from.  *)

IdsIn(recs) == {r.id : r \in {s \in recs : ~IsObs(s)}}
Latest(recs) == CHOOSE r \in recs : \A s \in recs : s.at <= r.at
LatestPhase(recs, id) == Latest({r \in recs : r.id = id}).phase
Dispatched(recs, id) == \E r \in recs : r.id = id /\ r.phase = "dispatched"
TriesOf(recs, key) == {id \in IdsIn(recs) : id.of = key}
LatestByKey(recs, key) ==
  CHOOSE id \in TriesOf(recs, key) : \A o \in TriesOf(recs, key) : o.try <= id.try
\* Mutant: settled controls count as pending.
Pending_Any(recs) == IdsIn(recs)
Pending(recs) == {id \in IdsIn(recs) : LatestPhase(recs, id) \notin Settled}

Stat == <<end, gen>>
NoIndex == [recs |-> {}, stat |-> <<0, 0>>]

At(pc, op, arg, recs) == [pc |-> pc, op |-> op, arg |-> arg, recs |-> recs]
Rests(pc) == At(pc, "none", 0, {})
Idle == Rests("idle")
Ended == Rests("down")

Init ==
  /\ journal = {} /\ end = 0 /\ gen = 1 /\ archive = {} /\ written = {}
  /\ disk = NoIndex /\ cache = [g \in Governesses |-> NoIndex]
  /\ proc = [g \in Governesses |-> Rests("new")]
  /\ fence = 0 /\ effects = [k \in Keys |-> 0] /\ faults = 0

Become(g, p) == proc' = [proc EXCEPT ![g] = p]
\* An operation op on id (or of a kind that has none) begins with its index.
Operation(op, arg) == At("load", op, arg, {})
To(id, phase) == Operation("to", [id |-> id, phase |-> phase])
Appending(p, id, phase, recs) == At("append", p.op, [id |-> id, phase |-> phase], recs)

-----------------------------------------------------------------------------
(* What an operation does with the index it was given.                     *)

\* What the caller of an operation does once the record r is there.
After(p, r) ==
  CASE p.op = "prepare" /\ r.phase = "prepared"   -> To(r.id, "dispatched")
    [] p.op = "to" /\ r.phase = "dispatched"      -> At("effect", "to", [id |-> r.id, phase |-> r.phase], {})
    [] p.op = "observe"                           -> Rests("maintain")
    [] OTHER                                      -> Idle

\* Mutant: every failed key is open again.
Closed_UnlessFailed(recs, key) ==
  TriesOf(recs, key) # {} /\ LatestPhase(recs, LatestByKey(recs, key)) # "failed"

\* prepareGovernessControl: only a key that failed before its dispatch is retried.
Closed(recs, key) ==
  /\ TriesOf(recs, key) # {}
  /\ LET id == LatestByKey(recs, key)
     IN  LatestPhase(recs, id) # "failed" \/ Dispatched(recs, id)
Prepare(g, recs) ==
  LET p == proc[g]
      key == p.arg
  IN  /\ p.op = "prepare"
      /\ IF Closed(recs, key)
         THEN LET id == LatestByKey(recs, key)
              IN  Become(g, After(p, [id |-> id, phase |-> LatestPhase(recs, id)]))
         ELSE LET n == IF TriesOf(recs, key) = {} THEN 1 ELSE LatestByKey(recs, key).try + 1
              IN  Become(g, Appending(p, Control(key, n), "prepared", recs))

\* transitionGovernessControl: a transition that is not allowed throws, which
\* ends the Governess; a control that is not in the index is passed over.
Transition(g, recs) ==
  LET p == proc[g]
      from == LatestPhase(recs, p.arg.id)
  IN  /\ p.op = "to"
      /\ CASE p.arg.id \notin IdsIn(recs)             -> Become(g, After(p, p.arg))
           [] OTHER -> CASE from = p.arg.phase        -> Become(g, After(p, p.arg))
                         [] ~TransitionAllowed(from, p.arg.phase) -> Become(g, Ended)
                         [] OTHER -> Become(g, Appending(p, p.arg.id, p.arg.phase, recs))

\* recordGovernessObservation: an unchanged observation is not written again.
Observed(g, recs) ==
  LET seen == {r.id.try : r \in {s \in written : IsObs(s) /\ s.id.of = g}}
  IN  /\ proc[g].op = "observe"
      /\ \/ Become(g, Idle)
         \/ \E n \in 1..MaxObs :
              /\ n \notin seen /\ n - 1 \in seen \cup {0}
              /\ Become(g, Appending(proc[g], Observation(g, n), "completed", recs))

\* decideGovernessControlReconciliation, over readPendingGovernessControlHistory:
\* hooks after the dispatch acknowledge or complete a control.
Reconciled(g, recs) ==
  /\ proc[g].op = "reconcile"
  /\ \/ Become(g, Idle)
     \/ \E id \in Pending(recs), phase \in {"acknowledged", "completed"} :
          /\ Dispatched(recs, id)
          /\ Become(g, To(id, phase))

\* ensureGovernessJournalIndex after maintenance; at the start it precedes the epoch.
Indexed(g) == proc[g].op = "index" /\ Become(g, Rests(proc[g].arg))

Loaded(g, recs) ==
  \/ Prepare(g, recs) \/ Transition(g, recs) \/ Observed(g, recs)
  \/ Reconciled(g, recs) \/ Indexed(g)

-----------------------------------------------------------------------------
(* loadJournalIndex: the cache, the index file, or the journal itself.     *)

LoadCached(g) ==
  /\ proc[g].pc = "load" /\ cache[g].stat = Stat
  /\ Loaded(g, cache[g].recs)
  /\ UNCHANGED <<files, disk, cache, fence, effects, faults>>

LoadIndexFile(g) ==
  /\ proc[g].pc = "load" /\ cache[g].stat # Stat /\ disk.stat = Stat
  /\ cache' = [cache EXCEPT ![g] = disk]
  /\ Loaded(g, disk.recs)
  /\ UNCHANGED <<files, disk, fence, effects, faults>>

ReadJournal(g) ==
  /\ proc[g].pc = "load" /\ cache[g].stat # Stat /\ disk.stat # Stat
  /\ Become(g, At("rebuild", proc[g].op, proc[g].arg, journal))
  /\ UNCHANGED <<files, disk, cache, fence, effects, faults>>

\* buildJournalIndex takes the stat after the read.
Rebuild(g) ==
  /\ proc[g].pc = "rebuild"
  /\ disk' = [recs |-> proc[g].recs, stat |-> Stat]
  /\ cache' = [cache EXCEPT ![g] = disk']
  /\ Loaded(g, proc[g].recs)
  /\ UNCHANGED <<files, fence, effects, faults>>

-----------------------------------------------------------------------------
(* append                                                                  *)

AppendRecord(g) ==
  LET p == proc[g]
      rec == [id |-> p.arg.id, phase |-> p.arg.phase, at |-> end + 1]
  IN  /\ p.pc = "append"
      /\ journal' = journal \cup {rec} /\ written' = written \cup {rec} /\ end' = end + 1
      /\ Become(g, At("stored", p.op, rec, p.recs))
      /\ UNCHANGED <<gen, archive, disk, cache, fence, effects, faults>>

\* The record is applied to the index in hand, with the stat of the journal now.
StoreIndex(g) ==
  LET p == proc[g]
  IN  /\ p.pc = "stored"
      /\ disk' = [recs |-> p.recs \cup {p.arg}, stat |-> Stat]
      /\ cache' = [cache EXCEPT ![g] = disk']
      /\ Become(g, After(p, p.arg))
      /\ UNCHANGED <<files, fence, effects, faults>>

-----------------------------------------------------------------------------
(* compactGovernessJournal, maintainGovernessJournal                       *)

Retained(recs) ==
  {r \in recs : IsObs(r) => r = Latest({s \in recs : IsObs(s)})}

\* resume is where the Governess goes on: "acquire" at the start, else "idle".
Maintain(g, resume) ==
  IF Cardinality(journal) < CompactAt \/ Retained(journal) = journal
  THEN Become(g, Operation("index", resume))
  ELSE Become(g, At("archive", "index", resume, journal))

MaintainCycle(g) ==
  /\ proc[g].pc = "maintain" /\ Maintain(g, "idle")
  /\ UNCHANGED <<files, disk, cache, fence, effects, faults>>

WriteArchive(g) ==
  /\ proc[g].pc = "archive"
  /\ archive' = archive \cup (proc[g].recs \ Retained(proc[g].recs))
  /\ Become(g, At("replace", "index", proc[g].arg, proc[g].recs))
  /\ UNCHANGED <<journal, end, gen, written, disk, cache, fence, effects, faults>>

ReplaceJournal(g) ==
  /\ proc[g].pc = "replace"
  /\ journal' = Retained(proc[g].recs) /\ gen' = gen + 1
  /\ cache' = [cache EXCEPT ![g] = NoIndex]
  /\ Become(g, Operation("index", proc[g].arg))
  /\ UNCHANGED <<end, archive, written, disk, fence, effects, faults>>

-----------------------------------------------------------------------------
(* The Governess                                                           *)

\* runGoverness maintains the journal before it acquires its epoch.
Start(g) ==
  /\ proc[g].pc = "new" /\ \A h \in Governesses : h < g => proc[h].pc # "new"
  /\ Overlap \/ \A h \in Governesses : h < g => proc[h].pc = "down"
  /\ Maintain(g, "acquire")
  /\ UNCHANGED <<files, disk, cache, fence, effects, faults>>

Acquire(g) ==
  /\ proc[g].pc = "acquire" /\ fence' = g /\ Become(g, Idle)
  /\ UNCHANGED <<files, disk, cache, effects, faults>>

\* runJournaledControl: the fence is looked at before the key is prepared.
Issue(g) ==
  /\ proc[g].pc = "idle" /\ fence = g
  /\ \E c \in Controls : Become(g, Operation("prepare", <<g, c>>))
  /\ UNCHANGED <<files, disk, cache, fence, effects, faults>>

\* The effect crosses the transport; an error may be raised after it did.
Effect(g) ==
  LET id == proc[g].arg.id
  IN  /\ proc[g].pc = "effect"
      /\ effects' = [effects EXCEPT ![id.of] = @ + 1]
      /\ \E phase \in {"accepted", "completed"} : Become(g, To(id, phase))
      /\ UNCHANGED <<files, disk, cache, fence, faults>>

EffectFails(g) ==
  LET id == proc[g].arg.id
  IN  /\ proc[g].pc = "effect" /\ Fault
      /\ effects' \in {effects, [effects EXCEPT ![id.of] = @ + 1]}
      /\ Become(g, To(id, "failed"))
      /\ UNCHANGED <<files, disk, cache, fence>>

Observe(g) ==
  /\ proc[g].pc = "idle"
  /\ Become(g, Operation("observe", 0))
  /\ UNCHANGED <<files, disk, cache, fence, effects, faults>>

Reconcile(g) ==
  /\ proc[g].pc = "idle"
  /\ Become(g, Operation("reconcile", 0))
  /\ UNCHANGED <<files, disk, cache, fence, effects, faults>>

\* The next cycle of a Governess that has been replaced ends it.
Retire(g) ==
  /\ proc[g].pc = "idle" /\ fence # g /\ Become(g, Ended)
  /\ UNCHANGED <<files, disk, cache, fence, effects, faults>>

Crash(g) ==
  /\ proc[g].pc \notin {"new", "down"} /\ Fault
  /\ Become(g, Ended) /\ cache' = [cache EXCEPT ![g] = NoIndex]
  /\ UNCHANGED <<files, disk, fence, effects>>

Step(g) ==
  \/ LoadCached(g) \/ LoadIndexFile(g) \/ ReadJournal(g) \/ Rebuild(g)
  \/ AppendRecord(g) \/ StoreIndex(g)
  \/ MaintainCycle(g) \/ WriteArchive(g) \/ ReplaceJournal(g)
  \/ Start(g) \/ Acquire(g) \/ Issue(g) \/ Effect(g) \/ EffectFails(g)
  \/ Observe(g) \/ Reconcile(g) \/ Retire(g) \/ Crash(g)
Next == \E g \in Governesses : Step(g)
Spec == Init /\ [][Next]_vars

-----------------------------------------------------------------------------
(* Properties                                                              *)

TypeOK ==
  /\ journal \cup written \subseteq Records /\ archive \subseteq written
  /\ end \in Nat /\ gen \in Nat \ {0} /\ fence \in 0..MaxEpoch /\ faults \in 0..MaxFaults
  /\ \A i \in {disk} \cup {cache[g] : g \in Governesses} :
       i.recs \subseteq Records /\ i.stat \in Nat \X Nat
  /\ \A g \in Governesses : proc[g].recs \subseteq Records
  /\ effects \in [Keys -> Nat]

\* The effect of an idempotency key reaches the agents at most once, over failed
\* effects, crashes, rebuilt indexes and compactions (prepareGovernessControl:
\* "the idempotency fence must remain closed").
EffectOncePerKey == \A k \in Keys : effects[k] <= 1

\* Compaction loses no record: what the journal no longer has is in the archive.
NoRecordLost == written \subseteq journal \cup archive

\* No Governess is ended by its own journal: the phase that a reconciliation or a
\* settled effect asks for is always allowed (transitionGovernessControl throws).
GoesOn ==
  \A g \in Governesses :
    proc[g].pc \in {"load", "rebuild"} /\ proc'[g].pc = "down" => faults' > faults
NeverEndedByJournal == [][GoesOn]_vars

\* The journal as its writers keep it.
JournalKept == EffectOncePerKey /\ NoRecordLost
=============================================================================
