------------------------------ MODULE SelfUpdate ------------------------------
(***************************************************************************)
(* The update of the installed binary: every start of loop applies what is *)
(* staged, and then, once in a while, downloads and stages a newer release *)
(* for the next start; `loop update` replaces the binary itself.  The      *)
(* processes share the staged binary, its metadata and the time of the     *)
(* last check; a file that is being written is torn until it is closed.    *)
(***************************************************************************)
EXTENDS Naturals

CONSTANTS Procs,
          Newest,      \* bound: the newest release there will be
          Faults       \* what may go wrong: a process "dies", a file operation of applying is "refused"

VARIABLES exe, staged, meta,   \* the installed and the staged binary, metadata.json
          checked,             \* whether last-check.json is younger than CHECK_INTERVAL_MS
          latest,              \* the release that GitHub calls the latest
          proc,                \* per process: where it is, the version it runs, what it holds
          mixed, hurt          \* whether two updates ever met; what was refused, where one died
vars == <<exe, staged, meta, checked, latest, proc, mixed, hurt>>

UpdateConstants == Newest \in Nat \ {0} /\ Faults \subseteq {"dies", "refused"}

Versions == 1..Newest
File(v, whole) == [ver |-> v, whole |-> whole]
NoFile == File(0, FALSE)
Gone == [pc |-> "off", ver |-> 0, told |-> 0, buf |-> NoFile, step |-> 1]

Init ==
  /\ exe = File(1, TRUE) /\ staged = NoFile /\ meta = NoFile /\ checked = FALSE /\ latest = 1
  /\ proc = [p \in Procs |-> Gone] /\ mixed = FALSE /\ hurt = {}

To(p, pc) == proc' = [proc EXCEPT ![p].pc = pc]
Ends(p) == proc' = [proc EXCEPT ![p] = Gone]
KeepFiles == UNCHANGED <<exe, staged, meta, checked>>
KeepRest == UNCHANGED <<latest, mixed, hurt>>

\* A torn binary does not start.  Bound: once two updates have met, after which nothing is claimed, no
\* process starts any more; until then there may be any number of starts.
Start(p) ==
  /\ proc[p].pc = "off" /\ exe.whole /\ ~mixed
  /\ proc' = [proc EXCEPT ![p] = [Gone EXCEPT !.pc = "look", !.ver = exe.ver]]
  /\ KeepFiles /\ KeepRest

-----------------------------------------------------------------------------
(* applyStagedUpdateOnStartup                                              *)

\* Two updates meet when one begins while another is underway, or is downloaded while another waits.
Waits == staged # NoFile /\ meta # NoFile
Updating(p) == proc[p].pc \in {"metadata", "staged", "apply", "unlink", "forget", "stage", "install"}
Meets(p) == \E q \in Procs \ {p} : Updating(q)

Look(p) ==
  /\ proc[p].pc = "look"
  /\ To(p, IF Waits THEN "metadata" ELSE "main") /\ mixed' = (mixed \/ (Waits /\ Meets(p)))
  /\ KeepFiles /\ UNCHANGED <<latest, hurt>>
ReadMetadata(p) ==
  /\ proc[p].pc = "metadata"
  /\ proc' = [proc EXCEPT ![p].pc = IF meta.whole THEN "staged" ELSE "main", ![p].told = meta.ver]
  /\ KeepFiles /\ KeepRest
ReadStaged(p) ==
  /\ proc[p].pc = "staged"
  /\ proc' = [proc EXCEPT ![p].pc = IF staged = NoFile THEN "main" ELSE "apply", ![p].buf = staged]
  /\ KeepFiles /\ KeepRest

\* applyBinary: a temporary file, and then its name.
Replaced(p) == exe' = proc[p].buf
Apply(p) ==
  /\ proc[p].pc = "apply" /\ Replaced(p) /\ To(p, "unlink")
  /\ UNCHANGED <<staged, meta, checked>> /\ KeepRest
Unlink(p) ==
  /\ proc[p].pc = "unlink"
  /\ staged' = NoFile /\ To(p, IF staged = NoFile THEN "main" ELSE "forget")
  /\ UNCHANGED <<exe, meta, checked>> /\ KeepRest
Forget(p) ==
  /\ proc[p].pc = "forget"
  /\ meta' = NoFile /\ To(p, "main")
  /\ UNCHANGED <<exe, staged, checked>> /\ KeepRest
\* A directory cannot be written: the staged update stays, or what is left of it.
Refused(p) ==
  /\ proc[p].pc \in {"apply", "unlink", "forget"} /\ "refused" \in Faults
  /\ hurt' = hurt \cup {"refused"} /\ To(p, "main")
  /\ KeepFiles /\ UNCHANGED <<latest, mixed>>

-----------------------------------------------------------------------------
(* The check: in the background, or by hand.                               *)

\* resolveAutoUpdateAssetName: the time is saved before GitHub is asked.
AutoCheck(p) ==
  /\ proc[p].pc = "main"
  /\ IF checked THEN Ends(p) ELSE To(p, "fetch")
  /\ checked' = TRUE
  /\ UNCHANGED <<exe, staged, meta>> /\ KeepRest
\* isNewerVersion compares with the version that runs, not with the one installed since.
Fetched(p, next) ==
  /\ IF latest > proc[p].ver
     THEN /\ proc' = [proc EXCEPT ![p].pc = next, ![p].buf = File(latest, TRUE)]
          /\ mixed' = (mixed \/ Waits \/ Meets(p))
     ELSE Ends(p) /\ UNCHANGED mixed
  /\ KeepFiles /\ UNCHANGED <<latest, hurt>>
Fetch(p) == proc[p].pc = "fetch" /\ Fetched(p, "stage")
\* handleManualUpdateCommand: checkAndApply.
Manual(p) == proc[p].pc = "main" /\ Fetched(p, "install")
Install(p) ==
  /\ proc[p].pc = "install" /\ Replaced(p) /\ Ends(p)
  /\ UNCHANGED <<staged, meta, checked>> /\ KeepRest

\* downloadAndStage: the binary and then its metadata, each in place.
Torn(f) == [f EXCEPT !.whole = FALSE]
\* Mutant: the metadata first.
Steps_MetadataFirst(f) == <<<<"meta", Torn(f)>>, <<"meta", f>>, <<"binary", Torn(f)>>, <<"binary", f>>>>
Steps(f) == <<<<"binary", Torn(f)>>, <<"binary", f>>, <<"meta", Torn(f)>>, <<"meta", f>>>>
Stage(p) ==
  LET step == Steps(proc[p].buf)[proc[p].step]
  IN  /\ proc[p].pc = "stage"
      /\ staged' = IF step[1] = "binary" THEN step[2] ELSE staged
      /\ meta' = IF step[1] = "meta" THEN step[2] ELSE meta
      /\ IF proc[p].step = 4 THEN Ends(p) ELSE proc' = [proc EXCEPT ![p].step = @ + 1]
      /\ UNCHANGED <<exe, checked>> /\ KeepRest

\* The process ends with its main work, while the download goes on; or it is killed.
Idle(p) == proc[p].pc \in {"main", "fetch", "install"} \/ (proc[p].pc = "stage" /\ proc[p].step = 1)
Leave(p) == Idle(p) /\ Ends(p) /\ KeepFiles /\ KeepRest
Die(p) ==
  /\ "dies" \in Faults /\ proc[p].pc # "off" /\ ~Idle(p)
  /\ hurt' = hurt \cup ({proc[p].pc} \cap {"forget", "stage"}) /\ Ends(p)
  /\ KeepFiles /\ UNCHANGED <<latest, mixed>>

Release ==
  /\ latest < Newest /\ latest' = latest + 1
  /\ KeepFiles /\ UNCHANGED <<proc, mixed, hurt>>
IntervalPasses ==
  /\ checked /\ checked' = FALSE
  /\ UNCHANGED <<exe, staged, meta, latest, proc, mixed, hurt>>

Next ==
  \/ \E p \in Procs :
       \/ Start(p) \/ Look(p) \/ ReadMetadata(p) \/ ReadStaged(p) \/ Apply(p) \/ Unlink(p) \/ Forget(p) \/ Refused(p)
       \/ AutoCheck(p) \/ Fetch(p) \/ Manual(p) \/ Install(p) \/ Stage(p) \/ Leave(p) \/ Die(p)
  \/ Release \/ IntervalPasses
Spec == Init /\ [][Next]_vars

-----------------------------------------------------------------------------
TypeOK ==
  /\ {exe, staged, meta} \subseteq [ver : 0..Newest, whole : BOOLEAN]
  /\ latest \in Versions /\ hurt \subseteq {"refused", "forget", "stage"}
  /\ \A p \in Procs : proc[p].buf \in [ver : 0..Newest, whole : BOOLEAN]

\* Metadata was left alone, by a refusal or by a death between the two unlinks, and then a process died while
\* it staged the next release: a staged binary lies beside metadata of another one.
Mismatched == "stage" \in hurt /\ hurt \cap {"refused", "forget"} # {}

\* The installed binary is a whole one, so that loop still starts, however many processes run, unless two
\* updates met or what is staged does not belong together.  (downloadAndStage writes the staged binary in
\* place, and applyStagedUpdateOnStartup asks only whether both files are there.)
InstalledWhole == exe.whole \/ mixed \/ Mismatched

\* The installed version goes back only when two updates met.  (applyStagedUpdateOnStartup does not compare
\* versions, and isNewerVersion compares with the one that runs.)
NeverBack == exe'.ver >= exe.ver \/ mixed

\* What a start says it updated to is what it installed, with the same exceptions.
ToldTruly ==
  \A p \in Procs :
    (proc[p].pc = "apply" /\ proc'[p].pc = "unlink") => proc[p].told = exe'.ver \/ mixed \/ Mismatched

\* Of the installed binary: whole, ever newer, and announced as what it is.
UpdateKept == InstalledWhole' /\ NeverBack /\ ToldTruly
=============================================================================
