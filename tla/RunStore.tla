-------------------------------- MODULE RunStore --------------------------------
(***************************************************************************)
(* The manifest of a run, which its launcher, its Governess, the proxy,    *)
(* the loop and the sweeps of other starts all read, change and rename     *)
(* over each other without a lock; its transcript, to which they append;   *)
(* and the selectors by which a stored run is found again.  Manifests were *)
(* written by older versions too, and by hand.                             *)
(***************************************************************************)
EXTENDS Naturals, Sequences, FiniteSets, SequencesExt, FiniteSetsExt

CONSTANTS Writers, Stored,         \* Stored: the fields of the manifests that are found
          Ids, Sessions,           \* Ids: of runs, in their order; a session may be called like a run
          MaxWrites, MaxEntries, MaxCrashes  \* bounds

VARIABLES of,        \* what is looked at: the manifest, the transcript or the shelf
          file,      \* manifest.json as it is stored, or Missing
          hand,      \* per writer: what it has read, what it will write, and how far it is
          disturbed, \* the writers that another rename has overtaken
          writes,
          lines,     \* the transcript: the entries on each line, and whether the last one is cut off
          sent, torn,\* the entries appended; those that a crash cut off or that landed behind one
          crashes,
          shelf,     \* per stored run: what its manifest says of run and session; fixed
          found      \* per selector: the run it stands for
vars == <<of, file, hand, disturbed, writes, lines, sent, torn, crashes, shelf, found>>

Missing == [state |-> "none", status |-> "none", snake |-> FALSE, fields |-> << >>]
Unreadable == [state |-> "none", fields |-> << >>]
None == "none"
\* Fields by how they are read: "adapter" must be right if it is there, "world" must lie in the run's own
\* directory, "binding" is dropped if it is wrong, "session" is any text.
Fields == {"adapter", "world", "binding", "session"}
States == {"submitted", "working", "reviewing", "input-required", "completed", "failed", "stopped"}

StoreConstants == /\ {MaxWrites, MaxEntries, MaxCrashes} \subseteq Nat 
  /\ None \notin Sessions /\ IsInjective(Ids) /\ \A m \in Stored : DOMAIN m = Fields

-----------------------------------------------------------------------------
(* Reading and writing a manifest.                                         *)

\* runStatusFromState
StatusOf(state) ==
  CASE state = "completed" -> "done" [] state \in {"failed", "stopped"} -> state [] OTHER -> "running"
\* Mutant: the state of a version that nobody knows is the first one.
ParseState_Known(state, status) == IF state \in States THEN state ELSE "submitted"
\* parseRunLifecycleState
ParseState(state, status) ==
  CASE state \in States -> state
    [] status \in States -> status
    [] status \in {"active", "running"} -> "working"
    [] status = "done" -> "completed"
    [] OTHER -> None
\* readTmuxAdapterIdentity, readResolvedConfig: what is there must be right.
Refused(raw) == ~raw.snake /\ raw.fields["adapter"] = "bad"
\* readWorldModelBinding, readWorkspaceBinding and their likes: what is wrong is as if it were not there.
Checked(v) == IF v = "good" THEN v ELSE None
\* readOptionalRunManifestFields: the strict fields have no older spelling.
ReadField(raw, f) == IF raw.snake /\ f = "adapter" THEN None ELSE Checked(raw.fields[f])
\* parseRunManifestBytes
Parse(raw) ==
  IF raw = Missing \/ Refused(raw) \/ (raw.state = None /\ raw.status = None)
  THEN Unreadable
  ELSE LET s == ParseState(raw.state, raw.status)
       IN  [state |-> IF s = None THEN "working" ELSE s, fields |-> [f \in Fields |-> ReadField(raw, f)]]
\* setRunManifestState, touchRunManifest: the status follows the state.
Raw(m) == [state |-> m.state, status |-> StatusOf(m.state), snake |-> FALSE, fields |-> m.fields]

Idle == [at |-> "idle", seen |-> Unreadable, next |-> Unreadable, about |-> None]

Init ==
  /\ of \in {"manifest", "transcript", "shelf"}
  /\ file \in {Missing} \cup
       IF of # "manifest" THEN {}
       ELSE [state : {None, "working", "completed", "paused"}, status : {None, "running", "done", "ended"},
             snake : BOOLEAN, fields : Stored]
  /\ shelf \in IF of # "shelf" THEN {<< >>} ELSE [DOMAIN Ids -> [readable : BOOLEAN, session : Sessions \cup {None}]]
  /\ hand = [w \in Writers |-> Idle] /\ disturbed = {} /\ writes = 0
  /\ lines = << >> /\ sent = << >> /\ torn = {} /\ crashes = 0 /\ found = << >>

logs == <<lines, sent, torn>>
ofShelf == <<of, shelf, found>>

\* updateRunManifest, or a launcher that has its own to write if there is none to read.
Read(w) ==
  /\ of = "manifest" /\ hand[w].at = "idle" /\ writes < MaxWrites /\ writes' = writes + 1
  /\ LET m == Parse(file)
         next(about) == IF about \in Fields THEN [m EXCEPT !.fields[about] = "good"] ELSE [m EXCEPT !.state = about]
     IN  \/ /\ m # Unreadable
            /\ \E about \in {"adapter", "binding", "session", "completed", "failed", "stopped"} :
                 hand' = [hand EXCEPT ![w] = [at |-> "read", seen |-> m, next |-> next(about), about |-> about]]
         \/ /\ m = Unreadable
            /\ hand' = [hand EXCEPT ![w] = [at |-> "read", seen |-> m, about |-> "create",
                         next |-> [state |-> "submitted",
                                   fields |-> [f \in Fields |-> IF f = "binding" THEN "good" ELSE None]]]]
  /\ disturbed' = disturbed \ {w}
  /\ UNCHANGED <<file, logs, crashes, ofShelf>>
\* writeRunManifest: what could not be read again is not written.
WriteTemp(w) ==
  /\ hand[w].at = "read"
  /\ hand' = [hand EXCEPT ![w].at = IF Parse(Raw(hand[w].next)) = Unreadable THEN "idle" ELSE "temp"]
  /\ UNCHANGED <<file, disturbed, writes, logs, crashes, ofShelf>>
Rename(w) ==
  /\ hand[w].at = "temp" /\ file' = Raw(hand[w].next) /\ hand' = [hand EXCEPT ![w] = Idle]
  /\ disturbed' = disturbed \cup {o \in Writers \ {w} : hand[o].at # "idle"}
  /\ UNCHANGED <<writes, logs, crashes, ofShelf>>
\* The writer dies, which leaves its temporary file, or the disk refuses and the file is removed.
Breaks(w) ==
  /\ hand[w].at # "idle" /\ crashes < MaxCrashes /\ crashes' = crashes + 1
  /\ hand' = [hand EXCEPT ![w] = Idle]
  /\ UNCHANGED <<file, disturbed, writes, logs, ofShelf>>

-----------------------------------------------------------------------------
(* The transcript.                                                         *)

\* appendRunTranscriptEntry: one entry, one line, unless the writer dies over it.
Log(entry, cut) ==
  LET n == Len(sent) + 1
      behind == lines # << >> /\ Last(lines).cut
  IN  /\ of = "transcript" /\ Len(sent) < MaxEntries /\ sent' = Append(sent, entry)
      /\ cut => crashes < MaxCrashes
      /\ crashes' = IF cut THEN crashes + 1 ELSE crashes
      /\ lines' = IF behind
                  THEN Front(lines) \o <<[entries |-> Append(Last(lines).entries, n), cut |-> cut]>>
                  ELSE Append(lines, [entries |-> <<n>>, cut |-> cut])
      /\ torn' = IF cut \/ behind THEN torn \cup {n} ELSE torn
      /\ UNCHANGED <<file, hand, disturbed, writes, ofShelf>>
\* Mutant: the rest of the transcript is given up at a line that cannot be parsed.
ReadEntries_UpToTorn ==
  LET bad == {i \in DOMAIN lines : Len(lines[i].entries) # 1 \/ lines[i].cut}
  IN  [i \in 1..(IF bad = {} THEN Len(lines) ELSE Min(bad) - 1) |-> lines[i].entries[1]]
\* readRunTranscriptEntries: a line with more than an entry, or less, is passed over; so is an empty message.
ReadEntries ==
  LET good == SelectSeq(lines, LAMBDA l : Len(l.entries) = 1 /\ ~l.cut /\ sent[l.entries[1]] # "empty message")
  IN  [i \in DOMAIN good |-> good[i].entries[1]]

-----------------------------------------------------------------------------
(* resolveExistingRunId                                                    *)

\* By the name of a run that can be read; else the first run, in their order, that has the session.
Resolve(s) ==
  LET named == {i \in DOMAIN Ids : Ids[i] = s /\ shelf[i].readable}
      bound == {i \in DOMAIN Ids : shelf[i].readable /\ shelf[i].session = s}
  IN  IF named # {} THEN Ids[Min(named)] ELSE IF bound # {} THEN Ids[Min(bound)] ELSE None
Select(s) ==
  /\ of = "shelf" /\ s \notin DOMAIN found
  /\ found' = [t \in DOMAIN found \cup {s} |-> IF t = s THEN Resolve(s) ELSE found[t]]
  /\ UNCHANGED <<file, hand, disturbed, writes, logs, crashes, of, shelf>>

Next ==
  \/ \E w \in Writers : Read(w) \/ WriteTemp(w) \/ Rename(w) \/ Breaks(w)
  \/ \E e \in {"message", "empty message"}, cut \in BOOLEAN : Log(e, cut)
  \/ \E s \in Sessions \cup ToSet(Ids) : Select(s)
Spec == Init /\ [][Next]_vars

-----------------------------------------------------------------------------
TypeOK ==
  /\ \A w \in Writers : hand[w].at \in {"idle", "read", "temp"}
  /\ {writes, crashes} \subseteq Nat /\ disturbed \subseteq Writers

\* An update changes what it is about and nothing else that can be read, unless another writer came in
\* between: fields of older versions, other spellings and states are carried over as they were read.
UpdatesKeep ==
  \A w \in Writers :
    (hand[w].at = "temp" /\ file' # file /\ hand'[w] = Idle /\ w \notin disturbed /\ hand[w].about # "create") =>
      LET old == Parse(file)
          new == Parse(file')
      IN  /\ new # Unreadable
          /\ hand[w].about \in Fields => new.state = old.state /\ new.fields[hand[w].about] = "good"
          /\ hand[w].about \in States => new.state = hand[w].about
          /\ \A f \in Fields \ {hand[w].about} : new.fields[f] = old.fields[f]

\* A manifest that can be read once can always be read, and never seems to go on when it said that it was over,
\* but for a writer that had read it before.  (Others end processes on what it says; a resume is in PairedLaunch.)
NeverLost ==
  file' # file /\ Parse(file) # Unreadable =>
    /\ Parse(file') # Unreadable
    /\ (file.state = "completed" \/ (file.state \notin States /\ file.status = "done")) =>
         \/ Parse(file').state \in {"completed", "failed", "stopped"}
         \/ \E w \in disturbed : hand[w].at = "temp" /\ file' = Raw(hand[w].next)

\* Where a version of today has written, state and status agree.  (The sweeps read one, the other or both.)
Agrees == file' # file => file'.status = StatusOf(file'.state)

\* The transcript is read in the order in which it was written; no entry is missing but an empty message, one
\* that was cut off and one that landed behind it.
InOrder ==
  LET r == ReadEntries
  IN  /\ \A i, j \in DOMAIN r : i < j => r[i] < r[j]
      /\ {n \in DOMAIN sent : sent[n] = "message"} \ torn \subseteq ToSet(r)

\* A selector finds a run that answers to it, whenever there is one; and the run of that name before a session.
RightRun ==
  \A s \in DOMAIN found :
    LET answers == {i \in DOMAIN Ids : shelf[i].readable /\ s \in {Ids[i], shelf[i].session}}
    IN  /\ (found[s] = None) = (answers = {})
        /\ answers # {} => \E i \in answers : found[s] = Ids[i]
        /\ (\E i \in answers : Ids[i] = s) => found[s] = s

\* Of the stored run: what an update does to the manifest, and what a reader finds.
UpdateKept == UpdatesKeep /\ NeverLost /\ Agrees
StoreKept == InOrder /\ RightRun
=============================================================================
