---------------------------- MODULE WorktreeEntry ----------------------------
(***************************************************************************)
(* loop --worktree: a launch finds a free name, or the one it was asked    *)
(* for, makes git add the worktree, and takes PLAN.md along.  Launches run *)
(* side by side, and may die; worktrees are deleted behind git's back.     *)
(***************************************************************************)
EXTENDS Naturals, FiniteSets

CONSTANTS Launches,
          MaxId,         \* bound: MAX_WORKTREE_ATTEMPTS, 10 000
          MaxDeaths, MaxDeleted   \* bounds: launches that die, directories deleted by hand

VARIABLES branches,    \* of git: the branches of loop
          registered,  \* and the worktrees it knows
          away,        \* the branches that are checked out under another path
          dirs,        \* the directories that are there
          plans,       \* where there is a PLAN.md: 0 is the directory of the launch
          launch, deaths, deleted
vars == <<branches, registered, away, dirs, plans, launch, deaths, deleted>>

EntryConstants == {MaxId, MaxDeaths, MaxDeleted} \subseteq Nat /\ MaxId > 0

Ids == 1..MaxId
git == <<branches, registered, away, dirs>>

\* Earlier runs left branches, with their worktree, without, or with one that git still knows.
Init ==
  /\ branches \in SUBSET Ids /\ registered \in SUBSET branches /\ dirs \in SUBSET Ids
  /\ away \in {{}, branches \ registered}
  /\ plans = {0} /\ deaths = 0 /\ deleted = 0
  /\ launch \in [Launches -> [pc : {"check"}, want : 0..MaxId, id : {0}, made : {FALSE}]]

Go(l, pc) == launch' = [launch EXCEPT ![l].pc = pc]
Name(l) == IF launch[l].want # 0 THEN launch[l].want ELSE launch[l].id + 1
\* A name that is taken: the next one, unless it was asked for.
Taken(l) ==
  launch' = [launch EXCEPT ![l].pc = IF launch[l].want # 0 \/ Name(l) = MaxId THEN "failed" ELSE "check",
                           ![l].id = Name(l)]

\* Mutant: a branch that is there will do.
Reusable_Any(l) == TRUE
\* resolveWorktreeSelection: git show-ref.
Reusable(l) == launch[l].want # 0
CheckName(l) ==
  /\ launch[l].pc = "check"
  /\ IF Name(l) \notin branches THEN Go(l, "create")
     ELSE IF ~Reusable(l) THEN Taken(l)
     ELSE IF Name(l) \in dirs THEN launch' = [launch EXCEPT ![l].pc = "plan", ![l].id = Name(l)]
     ELSE Go(l, "reenter")
  /\ UNCHANGED <<git, plans, deaths, deleted>>

\* git worktree prune, for a worktree that is registered and missing.
Stale(n) == n \in registered \ dirs
Pruned(n) == IF Stale(n) THEN registered \cap dirs ELSE registered
Added(l, newBranches) ==
  /\ branches' = newBranches /\ registered' = Pruned(Name(l)) \cup {Name(l)} /\ dirs' = dirs \cup {Name(l)}
  /\ launch' = [launch EXCEPT ![l].pc = "plan", ![l].id = Name(l), ![l].made = TRUE]
  /\ UNCHANGED <<away, plans, deaths, deleted>>
Conflicts(l) ==
  /\ registered' = Pruned(Name(l)) /\ Taken(l)
  /\ UNCHANGED <<branches, away, dirs, plans, deaths, deleted>>

\* createWorktree: the branch or the path may have come into being since.
Create(l) ==
  /\ launch[l].pc = "create"
  /\ IF Name(l) \in branches \cup dirs THEN Conflicts(l) ELSE Added(l, branches \cup {Name(l)})
\* reenterWorktree
Reenter(l) ==
  /\ launch[l].pc = "reenter"
  /\ IF Name(l) \in dirs \cup away THEN Conflicts(l) ELSE Added(l, branches)

\* maybeEnterWorktree, after the selection: cpSync, and then rmSync, which does not mind.
SeePlan(l) ==
  /\ launch[l].pc = "plan" /\ Go(l, IF 0 \in plans THEN "copy" ELSE "in")
  /\ UNCHANGED <<git, plans, deaths, deleted>>
CopyPlan(l) ==
  /\ launch[l].pc = "copy"
  /\ IF 0 \in plans /\ launch[l].id \in dirs THEN plans' = plans \cup {launch[l].id} /\ Go(l, "remove")
     ELSE Go(l, "failed") /\ UNCHANGED plans
  /\ UNCHANGED <<git, deaths, deleted>>
RemovePlan(l) ==
  /\ launch[l].pc = "remove" /\ plans' = plans \ {0} /\ Go(l, "in")
  /\ UNCHANGED <<git, deaths, deleted>>

Die(l) ==
  /\ deaths < MaxDeaths /\ launch[l].pc \notin {"failed", "dead"}
  /\ deaths' = deaths + 1 /\ Go(l, "dead")
  /\ UNCHANGED <<git, plans, deleted>>
\* By hand, and never with a plan in it or under a launch.
Delete(n) ==
  /\ deleted < MaxDeleted /\ n \in dirs \ plans /\ \A l \in Launches : launch[l].id # n
  /\ dirs' = dirs \ {n} /\ deleted' = deleted + 1
  /\ UNCHANGED <<branches, registered, away, plans, launch, deaths>>

Next ==
  \/ \E l \in Launches :
       CheckName(l) \/ Create(l) \/ Reenter(l) \/ SeePlan(l) \/ CopyPlan(l) \/ RemovePlan(l) \/ Die(l)
  \/ \E n \in Ids : Delete(n)
Spec == Init /\ [][Next]_vars

-----------------------------------------------------------------------------
TypeOK ==
  /\ branches \cup registered \cup away \cup dirs \subseteq Ids /\ plans \subseteq 0..MaxId
  /\ \A l \in Launches : launch[l].id \in 0..MaxId /\ launch[l].pc \in
       {"check", "create", "reenter", "plan", "copy", "remove", "in", "failed", "dead"}

Selected(l) == launch[l].pc \in {"plan", "copy", "remove", "in"}

\* A launch that asked for no name works in a worktree that it made itself, and that no other launch
\* is in without asking for it.  (resolveWorktreeSelection reads the branches, git adds; in between
\* another launch may take the name, and a directory may be there from before.)
OwnTree ==
  /\ \A l \in Launches : (Selected(l) /\ launch[l].want = 0) => launch[l].made
  /\ \A l, k \in Launches :
       (l # k /\ Selected(l) /\ Selected(k) /\ launch[l].id = launch[k].id) => launch[l].want # 0 \/ launch[k].want # 0

\* The plan is somewhere, whoever dies or copies it at the same time, and a launch that is in a
\* worktree without it has left it to another.  (moveFile copies, then removes.)
PlanFollows ==
  /\ plans # {}
  /\ \A l \in Launches : (launch[l].pc = "in" /\ launch[l].id \notin plans) => plans \cap Ids # {} /\ 0 \notin plans

\* Of the launches: a worktree each, and the plan with one of them.
EntryKept == OwnTree /\ PlanFollows
=============================================================================
