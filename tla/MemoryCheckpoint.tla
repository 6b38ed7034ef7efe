---------------------------- MODULE MemoryCheckpoint ----------------------------
(***************************************************************************)
(* The memory of one agent's run (memory-checkpoint.ts).  A hook process   *)
(* for each boundary (a compaction, a turn) keeps a checkpoint of it, once *)
(* by its key, and a copy of the latest.  Curators promote a checkpoint to *)
(* a markdown file with a sidecar that says where it comes from.  Files    *)
(* are renamed into place, without a lock; a process may die between two.  *)
(***************************************************************************)
EXTENDS Naturals, FiniteSets

CONSTANTS Hooks, Curators,
          Boundaries, Notes,  \* Notes: what may be promoted, with the name of its file
          Setups,             \* which boundary each hook is of, which note each curator has
          None,
          MaxTime, MaxDeaths  \* bounds

VARIABLES boundary, note,     \* of each hook, of each curator; fixed
          at,                 \* the time
          pc, body,           \* per process: what it does next, and what it has read
          before,             \* per process: those of its kind that had ended when it began
          kept, latest,       \* checkpoints/<key>.json, latest-<agent>.json
          put,                \* the hooks that renamed a checkpoint into place
          markdown, sidecar,  \* per file name; per promotion
          deaths
vars == <<boundary, note, at, pc, body, before, kept, latest, put, markdown, sidecar, deaths>>

Procs == Hooks \cup Curators
\* fit: the class is known, nothing is empty, and the text claims nothing unverified.
Note == [file : {"f", "g"}, text : {"s", "t"}, fit : BOOLEAN]
MemoryConstants ==
  /\ Notes \subseteq Note /\ None \notin Boundaries /\ {MaxTime, MaxDeaths} \subseteq Nat /\ Hooks \cap Curators = {}
  /\ Setups \subseteq [boundary : [Hooks -> Boundaries], note : [Curators -> Notes]]
\* promotionId: of the note and the key of the checkpoint, not of its content.
Ids == Notes \X Boundaries

Init ==
  /\ \E setup \in Setups : boundary = setup.boundary /\ note = setup.note
  /\ at = 0
  /\ pc = [p \in Procs |-> "idle"] /\ body = [p \in Procs |-> None] /\ before = [p \in Procs |-> {}]
  /\ kept = [b \in Boundaries |-> None] /\ latest = None /\ put = {}
  /\ markdown = [f \in {"f", "g"} |-> None] /\ sidecar = [i \in Ids |-> None] /\ deaths = 0

Kind(p) == IF p \in Hooks THEN Hooks ELSE Curators
Ended(S) == {p \in S : pc[p] \in {"done", "refused", "dead"}}
Begins(p, what) ==
  pc[p] = "idle" /\ pc' = [pc EXCEPT ![p] = what] /\ before' = [before EXCEPT ![p] = Ended(Kind(p))]
Goes(p, from, to) == pc[p] = from /\ pc' = [pc EXCEPT ![p] = to]
fixed == <<boundary, note>>

-----------------------------------------------------------------------------
(* A hook: writeMemoryCheckpoint.                                          *)

\* runHookEmit, writeMemoryCheckpoint: what the checkpoint says, and whether git knew the commit.  Two hooks
\* may begin in one millisecond.
Fires(h) ==
  /\ Begins(h, "looks") /\ at' \in {at, at + 1} /\ at' <= MaxTime
  /\ \E known \in BOOLEAN : body' = [body EXCEPT ![h] = [of |-> boundary[h], at |-> at', known |-> known]]
  /\ UNCHANGED <<fixed, kept, latest, put, markdown, sidecar, deaths>>
\* Mutant: every hook of a boundary writes its checkpoint.
Looks_Always(h) ==
  /\ Goes(h, "looks", "writes")
  /\ UNCHANGED <<fixed, at, body, before, kept, latest, put, markdown, sidecar, deaths>>
Looks(h) ==
  /\ Goes(h, "looks", IF kept[boundary[h]] = None THEN "writes" ELSE "compares")
  /\ UNCHANGED <<fixed, at, body, before, kept, latest, put, markdown, sidecar, deaths>>
Writes(h) ==
  /\ Goes(h, "writes", "compares") /\ kept' = [kept EXCEPT ![boundary[h]] = body[h]] /\ put' = put \cup {h}
  /\ UNCHANGED <<fixed, at, body, before, latest, markdown, sidecar, deaths>>
Compares(h) ==
  /\ Goes(h, "compares", IF latest = body[h] THEN "done" ELSE "renames")
  /\ UNCHANGED <<fixed, at, body, before, kept, latest, put, markdown, sidecar, deaths>>
Renames(h) ==
  /\ Goes(h, "renames", "done") /\ latest' = body[h]
  /\ UNCHANGED <<fixed, at, body, before, kept, put, markdown, sidecar, deaths>>

-----------------------------------------------------------------------------
(* A curator: promoteMemoryCheckpoint, of a checkpoint or of the latest.   *)

File(c) == note[c].file
Id(c) == <<note[c], body[c].of>>
\* What is refused before anything is written.
Valid(c, checkpoint) == note[c].fit /\ checkpoint # None /\ checkpoint.known
Reads(c) ==
  /\ \E checkpoint \in {latest} \cup {kept[b] : b \in Boundaries} :
       IF Valid(c, checkpoint)
       THEN Begins(c, "writes") /\ body' = [body EXCEPT ![c] = checkpoint]
       ELSE Begins(c, "refused") /\ UNCHANGED body
  /\ UNCHANGED <<fixed, at, kept, latest, put, markdown, sidecar, deaths>>
Markdown(c) ==
  /\ Goes(c, "writes", "signs") /\ markdown' = [markdown EXCEPT ![File(c)] = [id |-> Id(c), source |-> body[c]]]
  /\ UNCHANGED <<fixed, at, body, before, kept, latest, put, sidecar, deaths>>
Sidecar(c) ==
  /\ Goes(c, "signs", "done") /\ sidecar' = [sidecar EXCEPT ![Id(c)] = body[c]]
  /\ UNCHANGED <<fixed, at, body, before, kept, latest, put, markdown, deaths>>

Dies(p) ==
  /\ deaths < MaxDeaths /\ deaths' = deaths + 1 /\ pc[p] \notin {"idle", "done", "refused", "dead"}
  /\ pc' = [pc EXCEPT ![p] = "dead"]
  /\ UNCHANGED <<fixed, at, body, before, kept, latest, put, markdown, sidecar>>

Next ==
  \/ \E h \in Hooks : Fires(h) \/ Looks(h) \/ Writes(h) \/ Compares(h) \/ Renames(h)
  \/ \E c \in Curators : Reads(c) \/ Markdown(c) \/ Sidecar(c)
  \/ \E p \in Procs : Dies(p)
Spec == Init /\ [][Next]_vars

-----------------------------------------------------------------------------
TypeOK ==
  /\ at \in Nat /\ put \subseteq Hooks /\ before \in [Procs -> SUBSET Procs]
  /\ \A p \in Procs : pc[p] \in {"idle", "looks", "writes", "compares", "renames", "signs", "done", "refused", "dead"}

\* Nobody of its kind came between p and those who had ended before it, or after it.
Alone(p) == pc[p] = "done" /\ \A q \in Kind(p) \ {p} : pc[q] = "idle" \/ q \in before[p]

\* A boundary that comes again, in a hook that began after one that ended, leaves the checkpoint as it is; and
\* the latest is a copy of a boundary that has a checkpoint, that of the last hook unless hooks overlapped.
CheckpointsKept ==
  /\ \A h \in put : ~\E g \in before[h] : pc[g] = "done" /\ boundary[g] = boundary[h]
  /\ latest # None => kept[latest.of] # None
  /\ \A h \in Hooks : Alone(h) => latest = body[h]

\* A sidecar says of a checkpoint what that still says, unless it is of the latest alone or two hooks raced for
\* the boundary; its commit is known; and a markdown without its sidecar is of a curator that died or still runs.
PromotionsKept ==
  /\ \A i \in Ids : sidecar[i] # None =>
       /\ sidecar[i].known /\ sidecar[i].of = i[2] /\ markdown[i[1].file] # None
       /\ kept[i[2]] # sidecar[i] => Cardinality({h \in Hooks : boundary[h] = i[2] /\ pc[h] # "idle"}) > 1
  /\ \A f \in DOMAIN markdown : markdown[f] # None /\ sidecar[markdown[f].id] = None =>
       \E c \in Curators : pc[c] \in {"signs", "dead"} /\ body[c] # None /\ Id(c) = markdown[f].id
  /\ \A c \in Curators : Alone(c) =>
       markdown[File(c)] = [id |-> Id(c), source |-> body[c]] /\ sidecar[Id(c)] = body[c]

MemoryKept == CheckpointsKept /\ PromotionsKept
=============================================================================
