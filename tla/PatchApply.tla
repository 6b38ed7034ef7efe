----------------------------- MODULE PatchApply -----------------------------
(***************************************************************************)
(* The patches helpers propose and main agents apply: propose_patch keeps  *)
(* the image of each target with the patch, apply_task_patch looks at the  *)
(* images, lets git check and apply, and records the application with the  *)
(* images after it.  Each look at a file is a step of its own; editors     *)
(* change files, other callers apply the same or other patches, processes  *)
(* die, git may be killed by its time limit half way.                      *)
(***************************************************************************)
EXTENDS Integers, Sequences, FiniteSets

CONSTANTS Jobs, Targets,   \* the edits, and the files of each in the order of their names
          Mixed,           \* edits whose file names sort otherwise by locale than by code unit
          Callers,         \* the calls of apply_task_patch that may be under way
          MaxEdits, MaxCrashes,
          None

VARIABLES content,    \* what was done to each file so far: its image
          pre,        \* the manifest of an edit: the images read when it was proposed
          record,     \* its patch-applied event: the images before and after, or None
          call,       \* the call: where it is, its edit, the application it found, the images it
                      \* read, and (late) the files others changed since its second look began
          edits, crashes
vars == <<content, pre, record, call, edits, crashes>>

PatchConstants ==
  /\ \A j \in Jobs : Targets[j] # << >> /\ Cardinality({Targets[j][i] : i \in DOMAIN Targets[j]}) = Len(Targets[j])
  /\ Mixed \subseteq Jobs /\ {MaxEdits, MaxCrashes} \subseteq Nat /\ None \notin Jobs

FilesOf(j) == {Targets[j][i] : i \in DOMAIN Targets[j]}
Files == UNION {FilesOf(j) : j \in Jobs}
Idle == [at |-> "idle", job |-> None, found |-> None, images |-> << >>, late |-> {}]

Init ==
  /\ content = [f \in Files |-> << >>]
  /\ pre = [j \in Jobs |-> << >>] /\ record = [j \in Jobs |-> None]
  /\ call = [c \in Callers |-> Idle]
  /\ edits = 0 /\ crashes = 0

-----------------------------------------------------------------------------
\* The call by is now as own; the others learn of changed files when their second look has begun.
Exposed == {"again", "apply", "after", "record"}
Step(by, own, fs) ==
  call' = [c \in Callers |-> IF c = by THEN own
                             ELSE IF call[c].at \in Exposed THEN [call[c] EXCEPT !.late = @ \cup fs]
                             ELSE call[c]]

\* An editor changes a file, or puts it back as it was at the beginning.
Edit(f) ==
  /\ edits < MaxEdits /\ edits' = edits + 1
  /\ \E new \in {Append(content[f], "edit"), << >>} \ {content[f]} : content' = [content EXCEPT ![f] = new]
  /\ Step(None, Idle, {f}) /\ UNCHANGED <<pre, record, crashes>>

\* propose_patch reads the images one after the other; the patch is complete with the last.
Propose(j) ==
  /\ Len(pre[j]) < Len(Targets[j])
  /\ pre' = [pre EXCEPT ![j] = Append(@, content[Targets[j][Len(@) + 1]])]
  /\ UNCHANGED <<content, record, call, edits, crashes>>
Proposed(j) == Len(pre[j]) = Len(Targets[j])

-----------------------------------------------------------------------------
(* A call of apply_task_patch.                                             *)

Now(c, where) == [call[c] EXCEPT !.at = where, !.images = << >>]
To(c, where) == call' = [call EXCEPT ![c] = Now(c, where)]
Ends(c) == call' = [call EXCEPT ![c] = Idle]
Rest == UNCHANGED <<content, pre, record, edits, crashes>>

\* The job is read, the artifact and its manifest compared with what the job recorded of them.
Start(c, j) ==
  /\ call[c].at = "idle" /\ Proposed(j) /\ j \notin Mixed
  /\ call' = [call EXCEPT ![c] = [at |-> IF record[j] = None THEN "look" ELSE "compare", job |-> j,
                                  found |-> record[j], images |-> << >>, late |-> {}]]
  /\ Rest

\* The next file of a series of looks.
Next1(c) == Targets[call[c].job][Len(call[c].images) + 1]
Last1(c) == Len(call[c].images) + 1 = Len(Targets[call[c].job])
Seen(c) == call' = [call EXCEPT ![c].images = Append(@, content[Next1(c)])]

\* Mutant: the second look is thought to be covered by the check of git.
Match_Once(c, where, images, then) ==
  /\ call[c].at = where
  /\ IF where # "again" /\ content[Next1(c)] # images[Len(call[c].images) + 1] THEN Ends(c)
     ELSE IF Last1(c) THEN (IF then = "end" THEN Ends(c) ELSE To(c, then))
     ELSE Seen(c)
  /\ Rest
\* assertImagesMatch, one file: a difference ends the call, the last file lets it go on.
Match(c, where, images, then) ==
  /\ call[c].at = where
  /\ IF content[Next1(c)] # images[Len(call[c].images) + 1] THEN Ends(c)
     ELSE IF Last1(c) THEN (IF then = "end" THEN Ends(c) ELSE To(c, then))
     ELSE Seen(c)
  /\ Rest

\* An application is on record: are the files as it left them?
Compare(c) == call[c].at = "compare" /\ Match(c, "compare", call[c].found.post, "end")
Look(c)    == call[c].at = "look" /\ Match(c, "look", pre[call[c].job], "check")
Again(c)   == call[c].at = "again" /\ Match(c, "again", pre[call[c].job], "apply")

\* git refuses a patch that is there already; of others it may.
Applies(j) == \A f \in FilesOf(j) : \A i \in DOMAIN content[f] : content[f][i] # j

\* git apply --check
Check(c) ==
  /\ call[c].at = "check"
  /\ Ends(c) \/ (Applies(call[c].job) /\ To(c, "again"))
  /\ Rest

\* git apply: refused, done, or killed when some of the files were written.
Patched(j, fs) == [f \in Files |-> IF f \in fs THEN Append(content[f], j) ELSE content[f]]
Apply(c) ==
  /\ call[c].at = "apply"
  /\ LET j == call[c].job
     IN  \/ Ends(c) /\ UNCHANGED content
         \/ /\ Applies(j)
            /\ \E fs \in SUBSET FilesOf(j) :
                 /\ content' = Patched(j, fs)
                 /\ Step(c, IF fs = FilesOf(j) THEN Now(c, "after") ELSE Idle, fs)
  /\ UNCHANGED <<pre, record, edits, crashes>>

\* The images after it, and the event: a record of this patch that is there already stays.
After(c) ==
  /\ call[c].at = "after"
  /\ call' = [call EXCEPT ![c].images = Append(@, content[Next1(c)]),
                          ![c].at = IF Last1(c) THEN "record" ELSE @]
  /\ Rest
Record(c) ==
  /\ call[c].at = "record"
  /\ LET j == call[c].job
     IN  record' = [record EXCEPT ![j] = IF @ = None THEN [pre |-> pre[j], post |-> call[c].images] ELSE @]
  /\ Ends(c) /\ UNCHANGED <<content, pre, edits, crashes>>

\* The process of the call dies, or cannot get the lock of the store for the event.
Crash(c) ==
  /\ call[c].at # "idle" /\ crashes < MaxCrashes /\ crashes' = crashes + 1
  /\ Ends(c) /\ UNCHANGED <<content, pre, record, edits>>

Next ==
  \/ \E f \in Files : Edit(f)
  \/ \E j \in Jobs : Propose(j)
  \/ \E c \in Callers : \/ \E j \in Jobs : Start(c, j)
                        \/ Compare(c) \/ Look(c) \/ Check(c) \/ Again(c) \/ Apply(c)
                        \/ After(c) \/ Record(c) \/ Crash(c)
Spec == Init /\ [][Next]_vars

-----------------------------------------------------------------------------
Image == Seq(Jobs \cup {"edit"})
TypeOK ==
  /\ DOMAIN content = Files /\ \A f \in Files : content[f] \in Image
  /\ \A j \in Jobs : pre[j] \in Seq(Image) /\ Len(pre[j]) <= Len(Targets[j])
  /\ \A j \in Jobs : record[j] # None => record[j].pre = pre[j] /\ Len(record[j].post) = Len(Targets[j])
  /\ \A c \in Callers :
       /\ call[c].at \in {"idle", "look", "check", "again", "apply", "after", "record", "compare"}
       /\ call[c].images \in Seq(Image) /\ call[c].late \subseteq Files
  /\ edits \in 0 .. MaxEdits /\ crashes \in 0 .. MaxCrashes

At(images, j, f) == images[CHOOSE i \in DOMAIN Targets[j] : Targets[j][i] = f]

(* A patch is written over no change the proposal did not know of: a file  *)
(* git writes for a call has the image of the manifest, unless somebody    *)
(* else changed it after the call had begun its second look.               *)
WrittenOnPreimages ==
  \A c \in Callers :
    (call[c].at = "apply" /\ call'[c].at # "apply") =>
      \A f \in Files : content'[f] # content[f] =>
        content[f] = At(pre[call[c].job], call[c].job, f) \/ f \in call[c].late

(* The record is made once, and says what was done: each image after the   *)
(* application is the image before it with this patch, unless somebody     *)
(* else changed the file since the second look.                            *)
RecordedTruly ==
  \A j \in Jobs :
    record'[j] # record[j] =>
      /\ record[j] = None
      /\ \E c \in Callers :
           /\ call[c].job = j /\ call[c].at = "record"
           /\ \A f \in FilesOf(j) :
                At(record'[j].post, j, f) = Append(At(record'[j].pre, j, f), j) \/ f \in call[c].late

\* What PatchApply promises of a step.
PatchKept == WrittenOnPreimages /\ RecordedTruly

=============================================================================
