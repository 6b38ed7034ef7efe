--------------------------- MODULE GovernessFence ---------------------------
(***************************************************************************)
(* The epoch that fences a Governess (governess.ts: runGoverness, load and *)
(* saveGovernessState, fenceCurrent; utility-store.ts:                     *)
(* activateUtilityEpoch) and the tmux hook that starts it again when its   *)
(* pane dies (governess-pane-liveness.ts).  A Governess takes the next     *)
(* epoch, saves it with the state and goes on while the file still has it. *)
(* A save reads the file and then renames its own over it, without a lock. *)
(* A Governess may also be started beside the pane.  The clock that epochs *)
(* are taken from does not go back.                                        *)
(***************************************************************************)
EXTENDS Integers, FiniteSets

CONSTANTS MaxStarts,   \* bound: Governesses
          Beside,      \* bound: those started beside the pane
          Limit,       \* GOVERNESS_RESTART_LIMIT
          MaxWindows,  \* bound: restart windows that pass
          MaxFaults    \* bound: crashes, respawns that fail

FenceAssumption ==
  {MaxStarts, Beside, Limit, MaxWindows, MaxFaults} \subseteq Nat /\ MaxStarts # 0

VARIABLES file,      \* governessEpoch of governess-state.json
          utility,   \* the epoch that the helper store accepts
          gov,       \* each Governess: where it is, its epoch, what follows a save
          started,   \* Governesses started so far
          beside,    \* of them, those beside the pane
          pane,      \* the Governess in the pane, 0 when the pane is dead
          owned,     \* the manifest is active and names this pane
          attempts,  \* restarts in the liveness journal, of this window
          hook,      \* where the hook of the dead pane is
          respawns,  \* history: restarts of this window
          late,      \* history: effects of a Governess after it was superseded
          windows, faults

supervisor == <<file, utility, gov, late>>
restart == <<owned, attempts, hook, respawns>>
bounds == <<started, beside, windows>>
vars == <<supervisor, restart, bounds, pane, faults>>

Governesses == 1..MaxStarts
Unborn == [pc |-> "unborn", epoch |-> 0, next |-> "none"]
Loading == [Unborn EXCEPT !.pc = "load"]
Ended == {"unborn", "gone"}

Init ==
  /\ file = 0 /\ utility = 0 /\ late = [g \in Governesses |-> 0]
  /\ gov = [g \in Governesses |-> IF g = 1 THEN Loading ELSE Unborn]
  /\ started = 1 /\ beside = 0 /\ windows = 0 /\ faults = 0
  /\ pane = 1 /\ owned = TRUE /\ attempts = 0 /\ hook = "none" /\ respawns = 0

Become(g, pc) == gov' = [gov EXCEPT ![g].pc = pc]
Save(g, next) == gov' = [gov EXCEPT ![g].pc = "save", ![g].next = next]

\* The process is over; in the pane, that starts the hook.
End(g) ==
  /\ Become(g, "gone")
  /\ IF pane = g
     THEN /\ pane' = 0
          /\ hook' = "inspect"
          /\ UNCHANGED <<owned, attempts, respawns>>
     ELSE UNCHANGED <<pane, restart>>
Current(g) == file = gov[g].epoch

-----------------------------------------------------------------------------
(* The Governess                                                           *)

\* Epochs are of the clock, and beyond that of the state that was loaded.
Acquire(g) ==
  LET newest == CHOOSE e \in {gov[h].epoch : h \in Governesses} :
                  \A h \in Governesses : gov[h].epoch <= e
  IN  /\ gov[g].pc = "load"
      /\ gov' = [gov EXCEPT ![g] = [pc |-> "save", epoch |-> newest + 1, next |-> "confirm"]]
      /\ UNCHANGED <<file, utility, late, restart, bounds, pane, faults>>

\* saveGovernessState gives way to a newer epoch that it finds ...
SaveReads(g) ==
  /\ gov[g].pc = "save"
  /\ Become(g, IF file > gov[g].epoch THEN gov[g].next ELSE "rename")
  /\ UNCHANGED <<file, utility, late, restart, bounds, pane, faults>>
\* ... and renames its own over whatever is there by then.
SaveRenames(g) ==
  /\ gov[g].pc = "rename"
  /\ file' = gov[g].epoch /\ Become(g, gov[g].next)
  /\ UNCHANGED <<utility, late, restart, bounds, pane, faults>>

Confirm(g) ==
  /\ gov[g].pc = "confirm"
  /\ IF Current(g) THEN Become(g, "activate") /\ UNCHANGED <<restart, pane>> ELSE End(g)
  /\ UNCHANGED <<file, utility, late, bounds, faults>>

Activate(g) ==
  /\ gov[g].pc = "activate"
  /\ IF utility > gov[g].epoch
     THEN End(g) /\ UNCHANGED utility
     ELSE utility' = gov[g].epoch /\ Become(g, "loop") /\ UNCHANGED <<restart, pane>>
  /\ UNCHANGED <<file, late, bounds, faults>>

CycleBegins(g) ==
  /\ gov[g].pc = "loop"
  /\ IF Current(g) THEN Become(g, "tick") /\ UNCHANGED <<restart, pane>> ELSE End(g)
  /\ UNCHANGED <<file, utility, late, bounds, faults>>

\* Mutant: a control is let through unasked.
Control_Unasked(g) ==
  /\ gov[g].pc = "tick" /\ Become(g, "effect")
  /\ UNCHANGED <<file, utility, late, restart, bounds, pane, faults>>

\* A control asks the fence before it has its effect; without it, it is denied.
Control(g) ==
  /\ gov[g].pc = "tick" /\ Current(g) /\ Become(g, "effect")
  /\ UNCHANGED <<file, utility, late, restart, bounds, pane, faults>>
Effect(g) ==
  /\ gov[g].pc = "effect" /\ Become(g, "tick")
  /\ late' = IF file > gov[g].epoch THEN [late EXCEPT ![g] = @ + 1] ELSE late
  /\ UNCHANGED <<file, utility, restart, bounds, pane, faults>>
CycleEnds(g) ==
  /\ gov[g].pc = "tick" /\ Save(g, "loop")
  /\ UNCHANGED <<file, utility, late, restart, bounds, pane, faults>>

Crash(g) ==
  /\ gov[g].pc \notin Ended /\ faults < MaxFaults /\ faults' = faults + 1
  /\ End(g) /\ UNCHANGED <<file, utility, late, bounds>>

StartBeside ==
  /\ started < MaxStarts /\ started' = started + 1
  /\ beside < Beside /\ beside' = beside + 1
  /\ gov' = [gov EXCEPT ![started'] = Loading]
  /\ UNCHANGED <<file, utility, late, restart, windows, pane, faults>>

-----------------------------------------------------------------------------
(* handleGovernessPaneDied                                                 *)

Hook(pc) == hook' = pc /\ UNCHANGED <<supervisor, owned, bounds, pane>>
Dead == owned /\ pane = 0

\* Mutant: one restart less than the limit.
Inspect_OneLess ==
  /\ hook = "inspect"
  /\ Hook(IF Dead /\ attempts + 1 < Limit THEN "recheck" ELSE "none")
  /\ UNCHANGED <<attempts, respawns, faults>>

Inspect ==
  /\ hook = "inspect"
  /\ Hook(IF Dead /\ attempts < Limit THEN "recheck" ELSE "none")
  /\ UNCHANGED <<attempts, respawns, faults>>
\* Both authorities are read again before the attempt is recorded.
Record ==
  /\ hook = "recheck"
  /\ IF Dead THEN Hook("respawn") /\ attempts' = attempts + 1
             ELSE Hook("none") /\ UNCHANGED attempts
  /\ UNCHANGED <<respawns, faults>>
Respawn ==
  /\ hook = "respawn" /\ started < MaxStarts
  /\ started' = started + 1 /\ pane' = started' /\ gov' = [gov EXCEPT ![pane'] = Loading]
  /\ respawns' = respawns + 1 /\ hook' = "none"
  /\ UNCHANGED <<file, utility, late, owned, attempts, beside, windows, faults>>
\* Nothing tries again: the pane is dead, and does not die once more.
RespawnFails ==
  /\ hook = "respawn" /\ faults < MaxFaults /\ faults' = faults + 1
  /\ Hook("failed") /\ UNCHANGED <<attempts, respawns>>

\* The run ends, or another pane takes over.
Disown == owned /\ owned' = FALSE
          /\ UNCHANGED <<supervisor, attempts, hook, respawns, bounds, pane, faults>>
WindowPasses ==
  /\ windows < MaxWindows /\ windows' = windows + 1 /\ hook \in {"none", "failed"}
  /\ attempts' = 0 /\ respawns' = 0
  /\ UNCHANGED <<supervisor, owned, hook, started, beside, pane, faults>>

Run(g) ==
  \/ Acquire(g) \/ SaveReads(g) \/ SaveRenames(g) \/ Confirm(g) \/ Activate(g)
  \/ CycleBegins(g) \/ Effect(g) \/ CycleEnds(g)
HookRuns == Inspect \/ Record \/ Respawn
Next ==
  \/ \E g \in Governesses : Run(g) \/ Control(g) \/ Crash(g)
  \/ HookRuns \/ RespawnFails \/ StartBeside \/ Disown \/ WindowPasses
Spec == Init /\ [][Next]_vars
\* Processes that run go on; only crashes stop them.
Fairness == (\A g \in Governesses : WF_vars(Run(g))) /\ WF_vars(HookRuns)
FairSpec == Spec /\ Fairness

-----------------------------------------------------------------------------
(* Properties                                                              *)

TypeOK ==
  /\ {file, utility} \subseteq 0..MaxStarts
  /\ \A g \in Governesses : gov[g].epoch \in 0..MaxStarts
  /\ pane \in 0..MaxStarts /\ owned \in BOOLEAN /\ attempts \in 0..Limit
  /\ hook \in {"none", "inspect", "recheck", "respawn", "failed"}
  /\ {started, beside} \subseteq 0..MaxStarts /\ windows \in 0..MaxWindows
  /\ faults \in 0..MaxFaults

\* Once a newer Governess has saved its epoch, an older one lets through at most the
\* one control that had passed the fence, over any interleaving of their saves.  Of
\* three at once it is false: an old save puts back an epoch that was superseded.
SupersededActsOnce == beside <= 1 => \A g \in Governesses : late[g] <= 1

\* However fast a Governess dies again, it is started at most Limit times in a window.
RespawnsWithinBudget == respawns <= Limit

\* Both of the above: what the epoch and the restart budget keep.
FenceKept == SupersededActsOnce /\ RespawnsWithinBudget

Looping(g) ==
  \/ gov[g].pc \in {"loop", "tick", "effect"}
  \/ gov[g].next = "loop" /\ gov[g].pc \in {"save", "rename"}

\* While the run is its own a Governess comes back to its loop, unless the budget of
\* restarts is spent or a respawn failed (or the bound on starts is met).
SupervisedUnlessSpent ==
  []<>(\/ \E g \in Governesses : Looping(g)
       \/ ~owned \/ attempts >= Limit \/ hook = "failed" \/ started = MaxStarts)
=============================================================================
