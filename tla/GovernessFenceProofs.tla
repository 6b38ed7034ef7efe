------------------------ MODULE GovernessFenceProofs ------------------------
(***************************************************************************)
(* The fence of the Governess and the budget of its restarts, for any      *)
(* number of starts, restarts, windows and faults.                         *)
(***************************************************************************)
EXTENDS GovernessFence, FiniteSetTheorems, WellFoundedInduction, TLAPS

Places == {"unborn", "load", "save", "rename", "confirm", "activate", "loop", "tick",
           "effect", "gone"}
GovRecord == [pc : Places, epoch : Nat, next : {"none", "confirm", "loop"}]
HookPlaces == {"none", "inspect", "recheck", "respawn", "failed"}

Alive(g) == gov[g].pc \notin Ended
Acquired == {g \in Governesses : gov[g].epoch # 0}

\* The types, with every Governess born in its turn and without an epoch until it
\* takes one.
Births ==
  /\ gov \in [Governesses -> GovRecord] /\ late \in [Governesses -> Nat]
  /\ started \in Governesses /\ beside \in 0..Beside /\ beside < started
  /\ file \in Nat /\ utility \in Nat
  /\ windows \in 0..MaxWindows /\ faults \in 0..MaxFaults
  /\ owned \in BOOLEAN
  /\ \A g \in Governesses : gov[g].pc = "unborn" <=> g > started
  /\ \A g \in Governesses : gov[g].pc \in {"unborn", "load"}
                               => gov[g].epoch = 0 /\ late[g] = 0
  /\ \A g \in Governesses : gov[g].pc \in {"save", "rename"} => gov[g].next # "none"
  /\ \A g \in Governesses : gov[g].pc \notin {"unborn", "load", "gone"} => gov[g].epoch # 0

\* The hook runs over a dead pane, and what it has recorded is within the budget.
Budget ==
  /\ pane \in 0..MaxStarts /\ (pane # 0 => Alive(pane))
  /\ attempts \in 0..Limit /\ respawns \in Nat /\ hook \in HookPlaces
  /\ hook # "none" => pane = 0
  /\ respawns <= attempts
  /\ hook = "recheck" => attempts < Limit
  /\ hook = "respawn" => respawns < attempts

\* A Governess that is not in the pane was started beside it.
Crowd ==
  /\ \A g \in Governesses : Alive(g) /\ g # pane => beside >= 1
  /\ beside <= 1 =>
       \A g, h \in Governesses :
         Alive(g) /\ Alive(h) /\ g # pane /\ h # pane => g = h

\* Epochs are handed out in turn, to one Governess each, and the files have one of them.
Epochs ==
  /\ \A g \in Governesses : gov[g].epoch <= Cardinality(Acquired)
  /\ \A g, h \in Governesses : gov[g].epoch = gov[h].epoch => g = h \/ gov[g].epoch = 0
  /\ \A e \in {file, utility} : e = 0 \/ \E g \in Governesses : gov[g].epoch = e

\* Of two that run, one has the newest epoch there is.
OneIsNewest ==
  beside <= 1 =>
    \A g, h, k \in Governesses :
      (Alive(g) /\ Alive(h) /\ g # h /\ gov[g].epoch # 0 /\ gov[h].epoch # 0)
        => gov[k].epoch <= gov[g].epoch \/ gov[k].epoch <= gov[h].epoch

\* One that acted after it was superseded will find that out before it acts or
\* saves again.
Overtaken ==
  beside <= 1 =>
    \A g \in Governesses :
      /\ late[g] <= 1
      /\ late[g] = 1 /\ Alive(g)
           => file > gov[g].epoch /\ gov[g].pc \notin {"effect", "rename"}

-----------------------------------------------------------------------------
(* Types, places and the hook.                                             *)

Shape == FenceAssumption /\ Births /\ Budget

\* All of it holds at the start.
LEMMA ShapeInit == FenceAssumption /\ Init => Shape
BY DEF Init, Shape, Births, Budget, FenceAssumption, Governesses,
   GovRecord, Places, HookPlaces, Unborn, Loading, Alive, Ended

\* The end of a process, in the pane or beside it.
LEMMA EndShape ==
  ASSUME Shape, NEW g \in Governesses, Alive(g), End(g), late' = late,
         UNCHANGED <<file, utility, bounds>>, faults' \in 0..MaxFaults
  PROVE  Shape'
<1>1. gov' \in [Governesses -> GovRecord]
  BY DEF Shape, Births, End, Become, GovRecord, Places
<1>2. \A h \in Governesses :
        gov'[h] = IF h = g THEN [gov[g] EXCEPT !.pc = "gone"] ELSE gov[h]
  BY DEF Shape, Births, End, Become
<1>3. Births'
  BY <1>1, <1>2 DEF Shape, Births, End, restart, bounds, Alive, Ended, GovRecord
<1>4. ASSUME pane = g PROVE Budget'
  BY <1>4 DEF Shape, Budget, End, HookPlaces, FenceAssumption
<1>5. ASSUME pane # g PROVE Budget'
  <2>1. UNCHANGED <<pane, owned, attempts, hook, respawns>>
    BY <1>5 DEF End, restart
  <2>2. pane # 0 => gov'[pane] = gov[pane]
    BY <1>2, <1>5 DEF Shape, Budget, FenceAssumption, Governesses
  <2> QED
    BY <2>1, <2>2 DEF Shape, Budget, Alive
<1> QED
  BY <1>3, <1>4, <1>5 DEF Shape

\* A running Governess goes from one of its places to another.
Moves(g, r) ==
  /\ gov' = [gov EXCEPT ![g] = r]
  /\ r \in GovRecord /\ r.pc \notin {"unborn", "load", "gone"} /\ r.epoch # 0
  /\ r.pc \in {"save", "rename"} => r.next # "none"
  /\ Alive(g)

\* Moving about keeps the shape.
LEMMA MoveShape ==
  ASSUME Shape, NEW g \in Governesses, NEW r, Moves(g, r), late' \in [Governesses -> Nat],
         \A h \in Governesses : late'[h] = 0 \/ gov[h].pc \notin {"unborn", "load"},
         file' \in Nat, utility' \in Nat,
         UNCHANGED <<restart, bounds, pane, faults>>
  PROVE  Shape'
<1>1. gov' \in [Governesses -> GovRecord]
  BY DEF Shape, Births, Moves
<1>2. \A h \in Governesses : gov'[h] = IF h = g THEN r ELSE gov[h]
  BY DEF Shape, Births, Moves
<1>3. Births'
  BY <1>1, <1>2 DEF Shape, Births, Moves, restart, bounds, Alive, Ended, GovRecord
<1>4. Budget'
  BY <1>2 DEF Shape, Births, Budget, Moves, restart, Alive, Ended, GovRecord, Governesses
<1> QED
  BY <1>3, <1>4 DEF Shape

\* A Governess is started.
LEMMA BirthShape ==
  ASSUME Shape, started < MaxStarts, started' = started + 1,
         gov' = [gov EXCEPT ![started'] = Loading]
  PROVE  /\ gov' \in [Governesses -> GovRecord] /\ started' \in Governesses
         /\ \A h \in Governesses :
              gov'[h] = IF h = started + 1 THEN Loading ELSE gov[h]
         /\ gov[started + 1].pc = "unborn"
         /\ gov[started + 1].epoch = 0 /\ late[started + 1] = 0
<1>1. started + 1 \in Governesses
  BY DEF Shape, Births, FenceAssumption, Governesses
<1>2. Loading \in GovRecord
  BY DEF Loading, Unborn, GovRecord, Places
<1> QED
  BY <1>1, <1>2 DEF Shape, Births, Governesses

\* What a step of a Governess does to its record, when it does not end.
MovesOn(g) ==
  \E r \in GovRecord :
    /\ Moves(g, r)
    /\ gov[g].pc # "load" => r.epoch = gov[g].epoch

\* What a running Governess may do: move, or end.
LEMMA RunMoves ==
  ASSUME Shape, NEW g \in Governesses,
         \/ SaveReads(g) \/ SaveRenames(g) \/ Confirm(g) \/ Activate(g) \/ CycleBegins(g)
         \/ Control(g) \/ Effect(g) \/ CycleEnds(g)
  PROVE  \/ /\ MovesOn(g) /\ UNCHANGED <<restart, bounds, pane, faults>>
            /\ gov[g].pc # "load"
         \/ /\ Alive(g) /\ End(g)
            /\ UNCHANGED <<file, utility, late, bounds, faults>>
<1> PICK r : r = gov[g]
  OBVIOUS
<1>1. /\ r \in GovRecord
      /\ Alive(g) <=> r.pc \notin Ended
      /\ r.pc \notin {"unborn", "load", "gone"} => r.epoch # 0
      /\ r.pc \in {"save", "rename"} => r.next # "none"
  BY DEF Shape, Births, Alive
<1>2. ASSUME NEW pc \in Places \ {"unborn", "load", "gone"}, Become(g, pc),
             r.pc \notin {"unborn", "load", "gone"},
             pc \in {"save", "rename"} => r.next # "none"
      PROVE  MovesOn(g)
  <2> PICK q : q = [r EXCEPT !.pc = pc]
    OBVIOUS
  <2>1. q \in GovRecord /\ q.pc = pc /\ q.epoch = r.epoch /\ q.next = r.next
    BY <1>1, <1>2 DEF GovRecord
  <2>2. gov' = [gov EXCEPT ![g] = q]
    BY <1>2 DEF Become, Shape, Births, GovRecord
  <2>3. Moves(g, q)
    BY <1>1, <1>2, <2>1, <2>2 DEF Moves, Ended
  <2> QED
    BY <2>1, <2>3 DEF MovesOn
<1>3. CASE SaveReads(g)
  <2> PICK pc : pc = IF file > gov[g].epoch THEN gov[g].next ELSE "rename"
    OBVIOUS
  <2>1. Become(g, pc) /\ UNCHANGED <<restart, bounds, pane, faults>> /\ r.pc = "save"
    BY <1>3 DEF SaveReads
  <2>2. pc \in Places \ {"unborn", "load", "gone", "save"}
    BY <1>1, <2>1 DEF GovRecord, Places
  <2> QED
    BY <1>1, <1>2, <2>1, <2>2
<1>4. CASE SaveRenames(g)
  <2>1. /\ Become(g, r.next) /\ UNCHANGED <<restart, bounds, pane, faults>>
        /\ r.pc = "rename"
    BY <1>4 DEF SaveRenames
  <2>2. r.next \in Places \ {"unborn", "load", "gone", "save", "rename"}
    BY <1>1, <2>1 DEF GovRecord, Places
  <2> QED
    BY <1>1, <1>2, <2>1, <2>2
<1>5. CASE Confirm(g) \/ Activate(g) \/ CycleBegins(g)
  <2>1. r.pc \in {"confirm", "activate", "loop"} /\ Alive(g)
    BY <1>1, <1>5 DEF Confirm, Activate, CycleBegins, Ended
  <2>2. CASE End(g) /\ UNCHANGED <<file, utility, late, bounds, faults>>
    BY <2>1, <2>2
  <2>3. CASE \E pc \in {"activate", "loop", "tick"} :
               Become(g, pc) /\ UNCHANGED <<restart, bounds, pane, faults>>
    BY <1>1, <1>2, <2>1, <2>3 DEF Places
  <2> QED
    BY <1>5, <2>2, <2>3 DEF Confirm, Activate, CycleBegins
<1>6. CASE Control(g) \/ Effect(g)
  <2>1. PICK pc \in {"effect", "tick"} : Become(g, pc)
    BY <1>6 DEF Control, Effect
  <2> QED
    BY <1>1, <1>2, <1>6, <2>1 DEF Control, Effect, Places
<1>7. CASE CycleEnds(g)
  <2> PICK q : q = [r EXCEPT !.pc = "save", !.next = "loop"]
    OBVIOUS
  <2>1. q \in GovRecord /\ q.pc = "save" /\ q.epoch = r.epoch /\ q.next = "loop"
    BY <1>1 DEF GovRecord, Places
  <2>2. gov' = [gov EXCEPT ![g] = q]
    BY <1>7 DEF CycleEnds, Save, Shape, Births, GovRecord
  <2>3. Moves(g, q)
    BY <1>1, <1>7, <2>1, <2>2 DEF Moves, CycleEnds, Ended
  <2> QED
    BY <1>7, <2>1, <2>3 DEF MovesOn, CycleEnds
<1> QED
  BY <1>3, <1>4, <1>5, <1>6, <1>7

\* Every epoch is bounded, so that the newest of them exists.
LEMMA NewestExists ==
  ASSUME Shape, NEW b \in Nat, \A g \in Governesses : gov[g].epoch <= b
  PROVE  \E e \in {gov[h].epoch : h \in Governesses} :
           \A h \in Governesses : gov[h].epoch <= e
<1> DEFINE U == {n \in Nat : \A h \in Governesses : gov[h].epoch <= n}
<1>1. \A h \in Governesses : gov[h].epoch \in Nat
  BY DEF Shape, Births, GovRecord
<1>2. PICK n \in U : \A m \in U : ~(<<m, n>> \in OpToRel(<, Nat))
  <2>1. U \subseteq Nat /\ U # {}
    OBVIOUS
  <2> QED
    BY <2>1, WFMin, NatLessThanWellFounded
<1>3. \A m \in U : ~(m < n)
  BY <1>2 DEF OpToRel
<1>4. PICK h \in Governesses : gov[h].epoch = n
  <2>1. CASE n = 0
    <3>1. started \in Governesses
      BY DEF Shape, Births
    <3> QED
      BY <1>1, <2>1, <3>1
  <2>2. CASE n # 0
    <3>1. n - 1 \in Nat /\ ~(n - 1 \in U)
      BY <1>3, <2>2
    <3> QED
      BY <1>1, <3>1
  <2> QED
    BY <2>1, <2>2
<1> QED
  BY <1>4

\* A Governess takes an epoch beyond all others.
LEMMA AcquireEffect ==
  ASSUME Shape, Epochs, NEW g \in Governesses, Acquire(g)
  PROVE  \E e \in Nat :
           /\ gov' = [gov EXCEPT ![g] = [pc |-> "save", epoch |-> e + 1, next |-> "confirm"]]
           /\ \A h \in Governesses : gov[h].epoch <= e
           /\ \E h \in Governesses : gov[h].epoch = e
           /\ UNCHANGED <<file, utility, late, restart, bounds, pane, faults>>
<1>1. \A h \in Governesses : gov[h].epoch \in Nat
  BY DEF Shape, Births, GovRecord
<1>2. Cardinality(Acquired) \in Nat
  <2>1. IsFiniteSet(Governesses)
    <3>1. MaxStarts \in Nat
      BY DEF Shape, FenceAssumption
    <3>2. IsFiniteSet(1..MaxStarts)
      BY <3>1, FS_Interval
    <3> QED
      BY <3>2 DEF Governesses
  <2>2. Acquired \subseteq Governesses
    BY DEF Acquired
  <2> QED
    BY <2>1, <2>2, FS_Subset, FS_CardinalityType
<1>3. \E e \in {gov[h].epoch : h \in Governesses} :
        \A h \in Governesses : gov[h].epoch <= e
  BY <1>2, NewestExists DEF Epochs
<1> QED
  BY <1>1, <1>3, ZenonT(60) DEF Acquire

\* Taking an epoch is a move.
LEMMA AcquireMoves ==
  ASSUME Shape, Epochs, NEW g \in Governesses, Acquire(g)
  PROVE  MovesOn(g) /\ UNCHANGED <<restart, bounds, pane, faults>>
<1>1. PICK e \in Nat :
        /\ gov' = [gov EXCEPT ![g] = [pc |-> "save", epoch |-> e + 1, next |-> "confirm"]]
        /\ UNCHANGED <<restart, bounds, pane, faults>>
  BY AcquireEffect
<1> PICK r : r = [pc |-> "save", epoch |-> e + 1, next |-> "confirm"]
  OBVIOUS
<1>2. gov[g].pc = "load" /\ Alive(g)
  BY DEF Acquire, Alive, Ended
<1>3. r \in GovRecord /\ Moves(g, r)
  BY <1>1, <1>2 DEF Moves, GovRecord, Places
<1> QED
  BY <1>1, <1>2, <1>3 DEF MovesOn

\* What a step is to the places of the Governesses.
Goes(g) ==
  /\ Alive(g) /\ End(g) /\ UNCHANGED <<file, utility, late, bounds>>
  /\ faults' \in 0..MaxFaults
Born ==
  /\ started < MaxStarts /\ started' = started + 1
  /\ gov' = [gov EXCEPT ![started'] = Loading]
  /\ UNCHANGED <<file, utility, late, owned, attempts, windows, faults>>
  /\ \/ beside < Beside /\ beside' = beside + 1 /\ UNCHANGED <<restart, pane>>
     \/ /\ hook = "respawn" /\ hook' = "none" /\ pane' = started'
        /\ respawns' = respawns + 1 /\ beside' = beside
Elsewhere == UNCHANGED <<supervisor, started, beside, pane>>

\* Every step is a move, an end, a start, or leaves the Governesses alone.
LEMMA Kinds ==
  ASSUME Shape, Epochs, Next
  PROVE  \/ \E g \in Governesses :
              \/ /\ MovesOn(g)
                 /\ Run(g) \/ Control(g)
                 /\ UNCHANGED <<restart, bounds, pane, faults>>
              \/ Goes(g)
         \/ Born
         \/ /\ Elsewhere
            /\ Inspect \/ Record \/ RespawnFails \/ Disown \/ WindowPasses
<1>1. ASSUME NEW g \in Governesses, Run(g) \/ Control(g) \/ Crash(g)
      PROVE  \/ /\ MovesOn(g)
                /\ Run(g) \/ Control(g)
                /\ UNCHANGED <<restart, bounds, pane, faults>>
             \/ Goes(g)
  <2>1. faults \in 0..MaxFaults /\ MaxFaults \in Nat
    BY DEF FenceAssumption, Shape, Births
  <2>2. CASE Crash(g)
    <3>1. faults' \in 0..MaxFaults
      BY <2>1, <2>2 DEF Crash
    <3> QED
      BY <2>2, <3>1 DEF Crash, Goes, Alive
  <2>3. CASE Acquire(g)
    BY <2>3, AcquireMoves DEF Run
  <2> QED
    BY <1>1, <2>1, <2>2, <2>3, RunMoves DEF Run, Goes
<1>2. CASE StartBeside \/ Respawn
  BY <1>2 DEF StartBeside, Respawn, Born, restart
<1>3. CASE Inspect \/ Record \/ RespawnFails \/ Disown \/ WindowPasses
  BY <1>3 DEF Inspect, Record, RespawnFails, Disown, WindowPasses, Hook, Elsewhere,
              supervisor, bounds
<1> QED
  BY <1>1, <1>2, <1>3 DEF Next, HookRuns

\* What a step of a Governess does to the files and to the history.
LEMMA RunValues ==
  ASSUME NEW g \in Governesses, Run(g) \/ Control(g)
  PROVE  /\ \/ file' = file
            \/ gov[g].pc = "rename" /\ file' = gov[g].epoch
         /\ utility' = utility \/ utility' = gov[g].epoch
         /\ \/ late' = late
            \/ /\ gov[g].pc = "effect" /\ file > gov[g].epoch /\ file' = file
               /\ late' = [late EXCEPT ![g] = @ + 1]
BY DEF Run, Control, Acquire, SaveReads, SaveRenames, Confirm, Activate, CycleBegins,
       Effect, CycleEnds

\* The shape survives every step.
LEMMA ShapeStep ==
  ASSUME Shape, Epochs, [Next]_vars PROVE Shape'
<1>1. ASSUME NEW g \in Governesses, MovesOn(g), Run(g) \/ Control(g),
             UNCHANGED <<restart, bounds, pane, faults>>
      PROVE  Shape'
  <2>1. /\ gov \in [Governesses -> GovRecord] /\ late \in [Governesses -> Nat]
        /\ file \in Nat /\ utility \in Nat /\ gov[g].epoch \in Nat
        /\ \A h \in Governesses : gov[h].pc \in {"unborn", "load"} => late[h] = 0
    BY DEF Shape, Births, GovRecord
  <2>2. file' \in Nat /\ utility' \in Nat /\ late' \in [Governesses -> Nat]
    BY <1>1, <2>1, RunValues
  <2>3. \A h \in Governesses : late'[h] = 0 \/ gov[h].pc \notin {"unborn", "load"}
    BY <1>1, <2>1, RunValues
  <2> QED
    BY <1>1, <2>2, <2>3, MoveShape DEF MovesOn
<1>2. ASSUME NEW g \in Governesses, Goes(g) PROVE Shape'
  BY <1>2, EndShape DEF Goes
<1>3. CASE Born
  <2>1. Births'
    <3>1. /\ gov' \in [Governesses -> GovRecord] /\ started' \in Governesses
          /\ \A h \in Governesses :
               gov'[h] = IF h = started + 1 THEN Loading ELSE gov[h]
          /\ gov[started + 1].epoch = 0 /\ late[started + 1] = 0
      BY <1>3, BirthShape DEF Born
    <3>2. beside' \in 0..Beside /\ beside' < started' /\ started' = started + 1
      BY <1>3 DEF Born, Shape, Births, FenceAssumption, Governesses
    <3>3. UNCHANGED <<file, utility, late, owned, windows, faults>>
      BY <1>3 DEF Born
    <3> QED
      BY <3>1, <3>2, <3>3 DEF Shape, Births, Loading, Unborn, Governesses
  <2>2. Budget'
    <3>1. /\ \A h \in Governesses :
               gov'[h] = IF h = started + 1 THEN Loading ELSE gov[h]
          /\ gov[started + 1].pc = "unborn" /\ started' \in Governesses
          /\ started' = started + 1
      BY <1>3, BirthShape DEF Born
    <3>2. CASE UNCHANGED <<restart, pane>>
      <4>1. pane # 0 => pane \in Governesses /\ pane # started + 1
        BY <3>1 DEF Shape, Budget, FenceAssumption, Governesses, Alive, Ended
      <4> QED
        BY <3>1, <3>2, <4>1 DEF Shape, Budget, restart, Alive
    <3>3. CASE /\ hook = "respawn" /\ hook' = "none" /\ pane' = started'
               /\ respawns' = respawns + 1 /\ attempts' = attempts
      <4>1. pane' \in 0..MaxStarts /\ Alive(pane)'
        BY <3>1, <3>3 DEF Shape, FenceAssumption, Governesses, Alive, Ended, Loading,
           Unborn
      <4>2. /\ attempts' \in 0..Limit /\ respawns' \in Nat /\ respawns' <= attempts'
        BY <3>3 DEF Shape, Budget, FenceAssumption
      <4> QED
        BY <3>3, <4>1, <4>2 DEF Budget, HookPlaces
    <3> QED
      BY <1>3, <3>2, <3>3 DEF Born
  <2> QED
    BY <2>1, <2>2 DEF Shape
<1>4. CASE /\ Elsewhere
           /\ Inspect \/ Record \/ RespawnFails \/ Disown \/ WindowPasses
  <2>1. Births'
    <3>1. /\ windows' = windows \/ (windows < MaxWindows /\ windows' = windows + 1)
          /\ faults' = faults \/ (faults < MaxFaults /\ faults' = faults + 1)
          /\ owned' = owned \/ owned' = FALSE
      <4>1. CASE Inspect
        BY <4>1 DEF Inspect, Hook, bounds
      <4>2. CASE Record
        BY <4>2 DEF Record, Hook, bounds
      <4>3. CASE RespawnFails
        BY <4>3 DEF RespawnFails, Hook, bounds
      <4>4. CASE Disown \/ WindowPasses
        BY <4>4 DEF Disown, WindowPasses, bounds
      <4> QED
        BY <1>4, <4>1, <4>2, <4>3, <4>4
    <3>2. windows' \in 0..MaxWindows /\ faults' \in 0..MaxFaults
      BY <3>1 DEF Shape, Births, FenceAssumption
    <3>3. owned' \in BOOLEAN
      BY <3>1 DEF Shape, Births
    <3> QED
      BY <1>4, <3>2, <3>3 DEF Shape, Births, Elsewhere, supervisor
  <2>2. Budget'
    <3>1. UNCHANGED <<pane, gov>>
      BY <1>4 DEF Elsewhere, supervisor
    <3>2. /\ attempts \in Nat /\ Limit \in Nat /\ attempts <= Limit /\ respawns \in Nat
          /\ pane \in 0..MaxStarts /\ hook \in HookPlaces
      BY DEF Shape, Budget, FenceAssumption
    <3>3. CASE Inspect \/ Record
      BY <3>1, <3>2, <3>3 DEF Inspect, Record, Hook, Dead, Shape, Budget, HookPlaces, Alive
    <3>4. CASE RespawnFails
      <4>1. /\ hook = "respawn" /\ hook' = "failed"
            /\ UNCHANGED <<attempts, respawns>>
        BY <3>4 DEF RespawnFails, Hook
      <4> QED
        BY <3>1, <3>2, <4>1 DEF Shape, Budget, HookPlaces, Alive
    <3>5. CASE Disown
      BY <3>1, <3>2, <3>5 DEF Disown, Shape, Budget, Alive
    <3>6. CASE WindowPasses
      <4>1. attempts' = 0 /\ respawns' = 0 /\ hook' = hook /\ hook \in {"none", "failed"}
        BY <3>6 DEF WindowPasses
      <4> QED
        BY <3>1, <3>2, <4>1 DEF Shape, Budget, Alive
    <3> QED
      BY <1>4, <3>3, <3>4, <3>5, <3>6
  <2> QED
    BY <2>1, <2>2 DEF Shape
<1>5. CASE UNCHANGED vars
  BY <1>5 DEF vars, supervisor, restart, bounds, Shape, Births, Budget, Alive
<1> QED
  BY <1>1, <1>2, <1>3, <1>4, <1>5, Kinds

-----------------------------------------------------------------------------
(* Epochs.                                                                 *)

\* Outside of Acquire nobody's epoch changes.
SameEpochs == \A g \in Governesses : gov'[g].epoch = gov[g].epoch

\* Steps that hand out no epoch keep the order of those there are.
LEMMA EpochsStay ==
  ASSUME Shape, Epochs, SameEpochs,
         \A e \in {file', utility'} :
           e \in {file, utility} \/ \E g \in Governesses : e = gov[g].epoch
  PROVE  Epochs'
<1>1. Acquired' = Acquired
  BY DEF SameEpochs, Acquired
<1> QED
  BY <1>1 DEF Epochs, SameEpochs

\* Who moves on, ends or is born keeps its epoch, but for the one that acquires.
LEMMA EpochsOf ==
  ASSUME Shape
  PROVE  /\ \A g \in Governesses : MovesOn(g) /\ gov[g].pc # "load" => SameEpochs
         /\ \A g \in Governesses : Goes(g) => SameEpochs
         /\ Born => SameEpochs
<1>1. gov \in [Governesses -> GovRecord]
  BY DEF Shape, Births
<1>2. ASSUME NEW g \in Governesses, MovesOn(g), gov[g].pc # "load" PROVE SameEpochs
  BY <1>1, <1>2 DEF MovesOn, Moves, SameEpochs
<1>3. ASSUME NEW g \in Governesses, Goes(g) PROVE SameEpochs
  BY <1>1, <1>3 DEF Goes, End, Become, SameEpochs, GovRecord
<1>4. ASSUME Born PROVE SameEpochs
  <2>1. /\ \A h \in Governesses :
             gov'[h] = IF h = started + 1 THEN Loading ELSE gov[h]
        /\ gov[started + 1].epoch = 0
    BY <1>4, BirthShape DEF Born
  <2> QED
    BY <2>1 DEF SameEpochs, Loading, Unborn
<1> QED
  BY <1>2, <1>3, <1>4

\* A Governess that takes an epoch is one more that has one.
LEMMA EpochsAcquired ==
  ASSUME Shape, Epochs, NEW g \in Governesses, Acquire(g)
  PROVE  Epochs'
<1>1. PICK e \in Nat :
        /\ gov' = [gov EXCEPT ![g] = [pc |-> "save", epoch |-> e + 1, next |-> "confirm"]]
        /\ \A h \in Governesses : gov[h].epoch <= e
        /\ \E h \in Governesses : gov[h].epoch = e
        /\ file' = file /\ utility' = utility
  BY AcquireEffect
<1>2. /\ gov[g].epoch = 0
      /\ \A h \in Governesses : gov[h].epoch \in Nat
      /\ gov \in [Governesses -> GovRecord]
  BY DEF Acquire, Shape, Births, GovRecord
<1>3. \A h \in Governesses : gov'[h].epoch = IF h = g THEN e + 1 ELSE gov[h].epoch
  BY <1>1, <1>2
<1>4. Acquired' = Acquired \cup {g} /\ g \notin Acquired
  BY <1>2, <1>3 DEF Acquired
<1>5. IsFiniteSet(Acquired)
  <2>1. IsFiniteSet(Governesses)
    <3>1. MaxStarts \in Nat
      BY DEF Shape, FenceAssumption
    <3>2. IsFiniteSet(1..MaxStarts)
      BY <3>1, FS_Interval
    <3> QED
      BY <3>2 DEF Governesses
  <2>2. Acquired \subseteq Governesses
    BY DEF Acquired
  <2> QED
    BY <2>1, <2>2, FS_Subset
<1>6. /\ Cardinality(Acquired) \in Nat
      /\ Cardinality(Acquired') = Cardinality(Acquired) + 1
  BY <1>4, <1>5, FS_AddElement, FS_CardinalityType
<1>7. e <= Cardinality(Acquired)
  BY <1>1 DEF Epochs
<1>8. \A h \in Governesses : gov'[h].epoch <= Cardinality(Acquired)'
  BY <1>1, <1>2, <1>3, <1>6, <1>7
<1>9. \A h, k \in Governesses : gov'[h].epoch = gov'[k].epoch
                                  => h = k \/ gov'[h].epoch = 0
  <2> SUFFICES ASSUME NEW h \in Governesses, NEW k \in Governesses, h # k,
                      gov'[h].epoch = gov'[k].epoch
               PROVE  gov'[h].epoch = 0
    OBVIOUS
  <2>1. CASE h # g /\ k # g
    BY <1>3, <2>1 DEF Epochs
  <2>2. CASE h = g \/ k = g
    BY <1>1, <1>2, <1>3, <2>2
  <2> QED
    BY <2>1, <2>2
<1>10. \A f \in {file', utility'} : f = 0 \/ \E h \in Governesses : gov'[h].epoch = f
  <2> SUFFICES ASSUME NEW f \in {file, utility}, f # 0
               PROVE  \E h \in Governesses : gov'[h].epoch = f
    BY <1>1
  <2>1. PICK h \in Governesses : gov[h].epoch = f
    BY DEF Epochs
  <2> QED
    BY <1>2, <1>3, <2>1
<1> QED
  BY <1>8, <1>9, <1>10 DEF Epochs

\* Epochs survives every step.
LEMMA EpochsStep ==
  ASSUME Shape, Epochs, [Next]_vars PROVE Epochs'
<1>1. ASSUME NEW g \in Governesses, MovesOn(g), Run(g) \/ Control(g)
      PROVE  Epochs'
  <2>1. CASE Acquire(g)
    BY <2>1, EpochsAcquired
  <2>2. CASE ~Acquire(g)
    <3>1. gov[g].pc # "load"
      BY <1>1, <2>2
         DEF Run, Control, SaveReads, SaveRenames, Confirm, Activate, CycleBegins,
             Effect, CycleEnds
    <3>2. SameEpochs
      BY <1>1, <3>1, EpochsOf
    <3>3. file' \in {file, gov[g].epoch} /\ utility' \in {utility, gov[g].epoch}
      BY <1>1, RunValues
    <3> QED
      BY <3>2, <3>3, EpochsStay
  <2> QED
    BY <2>1, <2>2
<1>2. ASSUME NEW g \in Governesses, Goes(g) PROVE Epochs'
  BY <1>2, EpochsOf, EpochsStay DEF Goes
<1>3. CASE Born
  BY <1>3, EpochsOf, EpochsStay DEF Born
<1>4. CASE Elsewhere \/ UNCHANGED vars
  BY <1>4, EpochsStay DEF Elsewhere, vars, supervisor, SameEpochs
<1> QED
  BY <1>1, <1>2, <1>3, <1>4, Kinds

-----------------------------------------------------------------------------
(* Two at a time.                                                          *)

\* Who runs after a step.
LEMMA AliveOf ==
  ASSUME Shape
  PROVE  /\ \A g \in Governesses : MovesOn(g) =>
              \A h \in Governesses : Alive(h)' <=> Alive(h)
         /\ \A g \in Governesses : Goes(g) =>
              \A h \in Governesses : Alive(h)' <=> Alive(h) /\ h # g
         /\ Born => /\ started + 1 \in Governesses /\ ~Alive(started + 1)
                    /\ \A h \in Governesses :
                         Alive(h)' <=> Alive(h) \/ h = started + 1
<1>1. gov \in [Governesses -> GovRecord]
  BY DEF Shape, Births
<1>2. ASSUME NEW g \in Governesses, MovesOn(g), NEW h \in Governesses
      PROVE  Alive(h)' <=> Alive(h)
  BY <1>1, <1>2 DEF MovesOn, Moves, Alive, Ended
<1>3. ASSUME NEW g \in Governesses, Goes(g), NEW h \in Governesses
      PROVE  Alive(h)' <=> Alive(h) /\ h # g
  <2>1. gov'[h] = IF h = g THEN [gov[g] EXCEPT !.pc = "gone"] ELSE gov[h]
    BY <1>1, <1>3 DEF Goes, End, Become
  <2> QED
    BY <1>1, <2>1 DEF Alive, Ended, GovRecord
<1>4. ASSUME Born
      PROVE  /\ started + 1 \in Governesses /\ ~Alive(started + 1)
             /\ \A h \in Governesses : Alive(h)' <=> Alive(h) \/ h = started + 1
  <2>1. /\ started + 1 \in Governesses /\ gov[started + 1].pc = "unborn"
        /\ \A h \in Governesses :
             gov'[h] = IF h = started + 1 THEN Loading ELSE gov[h]
    BY <1>4, BirthShape DEF Born
  <2> QED
    BY <2>1 DEF Alive, Ended, Loading, Unborn
<1> QED
  BY <1>2, <1>3, <1>4

\* Only a start beside the pane lets one more run.
LEMMA CrowdStep ==
  ASSUME Shape, Shape', Epochs, Crowd, [Next]_vars PROVE Crowd'
<1>1. beside \in Nat /\ beside' \in Nat
  BY DEF Shape, Births, FenceAssumption
<1>2. ASSUME NEW g \in Governesses, MovesOn(g), UNCHANGED <<bounds, pane>>
      PROVE  Crowd'
  BY <1>2, AliveOf DEF Crowd, bounds
<1>3. ASSUME NEW g \in Governesses, Goes(g) PROVE Crowd'
  <2>1. \A h \in Governesses : Alive(h)' <=> Alive(h) /\ h # g
    BY <1>3, AliveOf
  <2>2. beside' = beside /\ (pane' = pane \/ pane = g)
    BY <1>3 DEF Goes, End, bounds
  <2> QED
    BY <2>1, <2>2 DEF Crowd
<1>4. CASE Born
  <2>1. /\ started + 1 \in Governesses /\ ~Alive(started + 1)
        /\ \A h \in Governesses : Alive(h)' <=> Alive(h) \/ h = started + 1
    BY <1>4, AliveOf
  <2>2. CASE beside' = beside + 1 /\ pane' = pane
    BY <1>1, <2>1, <2>2 DEF Crowd
  <2>3. CASE hook = "respawn" /\ pane' = started + 1 /\ beside' = beside
    <3>1. pane = 0 /\ 0 \notin Governesses
      BY <2>3 DEF Shape, Budget, Governesses
    <3> QED
      BY <2>1, <2>3, <3>1 DEF Crowd
  <2> QED
    BY <1>4, <2>2, <2>3 DEF Born
<1>5. CASE Elsewhere \/ UNCHANGED vars
  BY <1>5 DEF Elsewhere, vars, supervisor, bounds, Crowd, Alive
<1> QED
  BY <1>2, <1>3, <1>4, <1>5, Kinds

\* With one beside the pane at most, no three run.
LEMMA AtMostTwo ==
  ASSUME Crowd, beside <= 1, NEW a \in Governesses, NEW b \in Governesses,
         NEW c \in Governesses, Alive(a), Alive(b), Alive(c)
  PROVE  a = b \/ b = c \/ a = c
BY DEF Crowd

\* One start beside the pane keeps two Governesses at most, and so the newest among them.
LEMMA OneIsNewestStep ==
  ASSUME Shape, Epochs, Crowd, OneIsNewest, [Next]_vars, beside' <= 1
  PROVE  /\ beside <= 1
         /\ OneIsNewest'
<1>1. beside <= 1
  <2>1. beside \in Nat
    BY DEF Shape, Births, FenceAssumption
  <2>2. beside' = beside \/ beside' = beside + 1
    <3>1. CASE Born
      BY <3>1 DEF Born
    <3>2. CASE Elsewhere \/ UNCHANGED vars
      BY <3>2 DEF Elsewhere, vars, bounds
    <3>3. CASE \E g \in Governesses : UNCHANGED bounds \/ Goes(g)
      BY <3>3 DEF Goes, bounds
    <3> QED
      BY <3>1, <3>2, <3>3, Kinds
  <2> QED
    BY <2>1, <2>2
<1>2. \A g \in Governesses : gov[g].epoch \in Nat
  BY DEF Shape, Births, GovRecord
<1>3. ASSUME SameEpochs,
             \A g \in Governesses : Alive(g)' /\ gov[g].epoch # 0 => Alive(g)
      PROVE  OneIsNewest'
  BY <1>1, <1>3 DEF OneIsNewest, SameEpochs
<1>4. ASSUME NEW g \in Governesses, MovesOn(g), Run(g) \/ Control(g)
      PROVE  OneIsNewest'
  <2>1. \A h \in Governesses : Alive(h)' <=> Alive(h)
    BY <1>4, AliveOf
  <2>2. CASE Acquire(g)
    <3>1. PICK e \in Nat :
            /\ gov' = [gov EXCEPT ![g] = [pc |-> "save", epoch |-> e + 1, next |-> "confirm"]]
            /\ \A h \in Governesses : gov[h].epoch <= e
      BY <2>2, AcquireEffect
    <3>2. \A h \in Governesses :
            gov'[h].epoch = IF h = g THEN e + 1 ELSE gov[h].epoch
      BY <3>1 DEF Shape, Births
    <3>3. Alive(g)
      BY <2>2 DEF Acquire, Alive, Ended
    <3> SUFFICES ASSUME NEW h \in Governesses, NEW k \in Governesses,
                        NEW l \in Governesses, Alive(h)', Alive(k)', h # k
                 PROVE  gov'[l].epoch <= gov'[h].epoch \/ gov'[l].epoch <= gov'[k].epoch
      BY DEF OneIsNewest
    <3>4. h = g \/ k = g
      BY <1>1, <2>1, <3>3, AtMostTwo
    <3> QED
      BY <1>2, <3>1, <3>2, <3>4
  <2>3. CASE ~Acquire(g)
    <3>1. gov[g].pc # "load"
      BY <1>4, <2>3
         DEF Run, Control, SaveReads, SaveRenames, Confirm, Activate, CycleBegins,
             Effect, CycleEnds
    <3> QED
      BY <1>3, <1>4, <2>1, <3>1, EpochsOf
  <2> QED
    BY <2>2, <2>3
<1>5. ASSUME NEW g \in Governesses, Goes(g) PROVE OneIsNewest'
  BY <1>3, <1>5, EpochsOf, AliveOf
<1>6. CASE Born
  <2>1. gov[started + 1].epoch = 0
    BY <1>6, BirthShape DEF Born
  <2>2. \A h \in Governesses : Alive(h)' /\ gov[h].epoch # 0 => Alive(h)
    BY <1>6, <2>1, AliveOf
  <2>3. SameEpochs
    BY <1>6, EpochsOf
  <2> QED
    BY <1>1, <1>3, <2>2, <2>3
<1>7. CASE Elsewhere \/ UNCHANGED vars
  <2>1. gov' = gov
    BY <1>7 DEF Elsewhere, vars, supervisor
  <2>2. SameEpochs /\ \A h \in Governesses : Alive(h)' <=> Alive(h)
    BY <2>1 DEF SameEpochs, Alive
  <2> QED
    BY <1>1, <1>3, <2>2
<1> QED
  BY <1>1, <1>4, <1>5, <1>6, <1>7, Kinds

-----------------------------------------------------------------------------
(* What a superseded Governess still does.                                 *)

\* An old save cannot hide for long that its Governess was superseded.
LEMMA OvertakenStep ==
  ASSUME Shape, Epochs, Crowd, OneIsNewest, Overtaken, [Next]_vars,
         beside <= 1, beside' <= 1
  PROVE  Overtaken'
<1>1. /\ \A g \in Governesses : gov[g].epoch \in Nat /\ late[g] \in Nat
      /\ file \in Nat /\ gov \in [Governesses -> GovRecord]
      /\ late \in [Governesses -> Nat]
  BY DEF Shape, Births, GovRecord
<1>2. \A g \in Governesses :
        late[g] <= 1 /\ (late[g] = 1 /\ Alive(g)
                           => file > gov[g].epoch /\ gov[g].pc \notin {"effect", "rename"})
  BY DEF Overtaken
\* The other one that runs is newer than one that was overtaken.
<1>3. ASSUME NEW g \in Governesses, NEW h \in Governesses, Alive(g), Alive(h), g # h,
             file > gov[g].epoch, gov[g].epoch # 0, gov[h].epoch # 0
      PROVE  gov[h].epoch > gov[g].epoch
  <2>1. PICK k \in Governesses : gov[k].epoch = file
    BY <1>1, <1>3 DEF Epochs
  <2>2. gov[k].epoch <= gov[g].epoch \/ gov[k].epoch <= gov[h].epoch
    BY <1>3 DEF OneIsNewest
  <2> QED
    BY <1>1, <1>3, <2>1, <2>2
<1>4. ASSUME UNCHANGED <<late, file>>,
             \A g \in Governesses :
               Alive(g)' => (Alive(g) /\ gov'[g] = gov[g]) \/ late[g] = 0
      PROVE  Overtaken'
  BY <1>2, <1>4 DEF Overtaken
<1>5. ASSUME NEW g \in Governesses, MovesOn(g), Run(g) \/ Control(g)
      PROVE  Overtaken'
  <2>1. \A h \in Governesses : Alive(h)' <=> Alive(h)
    BY <1>5, AliveOf
  <2>2. /\ Alive(g) /\ gov[g].pc \in Places
        /\ gov[g].pc = "load" => late[g] = 0
        /\ gov[g].pc # "load" => gov[g].epoch # 0
        /\ \A h \in Governesses : late[h] = 1 /\ Alive(h) => gov[h].epoch # 0
    BY <1>1, <1>5 DEF MovesOn, Moves, Shape, Births, GovRecord, Alive, Ended
  <2>3. \A h \in Governesses \ {g} : gov'[h] = gov[h]
    BY <1>1, <1>5 DEF MovesOn, Moves
  \* The others: their history stays, and a save is of a newer epoch.
  <2>4. ASSUME NEW h \in Governesses \ {g}
        PROVE  late'[h] = late[h]
               /\ (late[h] = 1 /\ Alive(h) => file' > gov[h].epoch)
    <3>1. late'[h] = late[h]
      BY <1>1, <1>5, RunValues
    <3>2. ASSUME late[h] = 1, Alive(h) PROVE file' > gov[h].epoch
      <4>1. file > gov[h].epoch
        BY <1>2, <3>2
      <4>2. CASE gov[g].pc = "rename" /\ file' = gov[g].epoch
        BY <1>3, <2>2, <3>2, <4>1, <4>2
      <4> QED
        BY <1>5, <4>1, <4>2, RunValues
    <3> QED
      BY <3>1, <3>2
  \* The one that acts.
  <2>5. late'[g] <= 1 /\ (late'[g] = 1 => file' > gov'[g].epoch
                                          /\ gov'[g].pc \notin {"effect", "rename"})
    <3>1. CASE Effect(g)
      <4>1. /\ gov[g].pc = "effect" /\ gov'[g].pc = "tick"
            /\ gov'[g].epoch = gov[g].epoch /\ file' = file
            /\ late'[g] = IF file > gov[g].epoch THEN late[g] + 1 ELSE late[g]
        BY <1>1, <3>1 DEF Effect, Become, GovRecord
      <4>2. late[g] = 0
        BY <1>1, <1>2, <2>2, <4>1
      <4> QED
        BY <1>1, <4>1, <4>2
    <3>2. CASE late[g] = 0 /\ ~Effect(g)
      <4>1. late' = late
        BY <1>5, <3>2 DEF Run, Control, Acquire, SaveReads, SaveRenames, Confirm, Activate,
                          CycleBegins, CycleEnds
      <4> QED
        BY <3>2, <4>1
    <3>3. CASE late[g] = 1 /\ ~Effect(g)
      <4>1. file > gov[g].epoch /\ gov[g].pc \notin {"effect", "rename", "load"}
        BY <1>2, <2>2, <3>3
      <4>2. ~Current(g) /\ gov[g].next \notin {"effect", "rename"}
        BY <1>1, <4>1 DEF Current, GovRecord
      <4>3. UNCHANGED <<late, file>>
        BY <1>5, <3>3, <4>1
           DEF Run, Control, Acquire, SaveReads, SaveRenames, Confirm, Activate,
               CycleBegins, CycleEnds
      <4>4. /\ gov'[g].epoch = gov[g].epoch
            /\ gov'[g].pc \notin {"effect", "rename"}
        <5>1. gov'[g].epoch = gov[g].epoch
          BY <1>5, <4>1, EpochsOf DEF SameEpochs
        <5>2. CASE SaveReads(g)
          <6>1. gov'[g].pc = gov[g].next
            BY <1>1, <4>1, <5>2 DEF SaveReads, Become, GovRecord
          <6> QED
            BY <4>2, <5>1, <6>1
        <5>3. CASE Confirm(g) \/ Activate(g) \/ CycleBegins(g) \/ CycleEnds(g)
          <6>1. gov'[g].pc \in {"gone", "loop", "save"}
            BY <1>1, <4>2, <5>3
               DEF Confirm, Activate, CycleBegins, CycleEnds, End, Become, Save, GovRecord
          <6> QED
            BY <5>1, <6>1
        <5> QED
          BY <1>5, <3>3, <4>1, <4>2, <5>2, <5>3 DEF Run, Control, Acquire, SaveRenames
      <4> QED
        BY <3>3, <4>1, <4>3, <4>4
    <3> QED
      BY <1>1, <1>2, <3>1, <3>2, <3>3
  <2> QED
    BY <1>2, <2>1, <2>3, <2>4, <2>5 DEF Overtaken
<1>6. ASSUME NEW g \in Governesses, Goes(g) PROVE Overtaken'
  <2>1. UNCHANGED <<late, file>>
    BY <1>6 DEF Goes
  <2>2. \A h \in Governesses \ {g} : gov'[h] = gov[h]
    BY <1>1, <1>6 DEF Goes, End, Become
  <2> QED
    BY <1>4, <1>6, <2>1, <2>2, AliveOf
<1>7. CASE Born
  <2>1. UNCHANGED <<late, file>>
    BY <1>7 DEF Born
  <2>2. /\ \A h \in Governesses : h # started + 1 => gov'[h] = gov[h]
        /\ late[started + 1] = 0
    BY <1>7, BirthShape DEF Born
  <2> QED
    BY <1>4, <1>7, <2>1, <2>2, AliveOf
<1>8. CASE Elsewhere \/ UNCHANGED vars
  BY <1>4, <1>8 DEF Elsewhere, vars, supervisor, Alive
<1> QED
  BY <1>5, <1>6, <1>7, <1>8, Kinds

-----------------------------------------------------------------------------
(* The theorems.                                                           *)

Fenced == Shape /\ Epochs /\ Crowd /\ OneIsNewest /\ Overtaken

\* The invariant holds at the start.
LEMMA FencedInit == FenceAssumption /\ Init => Fenced
<1> SUFFICES ASSUME FenceAssumption, Init PROVE Fenced
  OBVIOUS
<1>1. Shape
  BY ShapeInit
<1>2. \A g \in Governesses : gov[g].epoch = 0 /\ late[g] = 0
  BY DEF Init, Loading, Unborn
<1>3. Epochs
  <2>1. Acquired = {}
    BY <1>2 DEF Acquired
  <2> QED
    BY <1>2, <2>1, FS_EmptySet DEF Init, Epochs
<1>4. Crowd
  BY DEF Init, Crowd, Alive, Ended, Loading, Unborn
<1>5. OneIsNewest /\ Overtaken
  BY <1>2 DEF OneIsNewest, Overtaken
<1> QED
  BY <1>1, <1>3, <1>4, <1>5 DEF Fenced

\* The invariant is inductive.
LEMMA FencedStep == Fenced /\ [Next]_vars => Fenced'
<1> SUFFICES ASSUME Fenced, [Next]_vars PROVE Fenced'
  OBVIOUS
<1>1. Shape' /\ Epochs'
  BY ShapeStep, EpochsStep DEF Fenced
<1>2. Crowd'
  BY <1>1, CrowdStep DEF Fenced
<1>3. OneIsNewest' /\ Overtaken'
  <2>1. CASE beside' <= 1
    BY <2>1, OneIsNewestStep, OvertakenStep DEF Fenced
  <2>2. CASE ~(beside' <= 1)
    BY <2>2 DEF OneIsNewest, Overtaken
  <2> QED
    BY <2>1, <2>2
<1> QED
  BY <1>1, <1>2, <1>3 DEF Fenced

\* The types of the fence, the pane and the budget, and epochs within the starts.
THEOREM TypeCorrect == ASSUME FenceAssumption PROVE Spec => []TypeOK
<1>1. Fenced => TypeOK
  <2> SUFFICES ASSUME Fenced PROVE TypeOK
    OBVIOUS
  <2>1. Shape /\ Epochs /\ MaxStarts \in Nat
    BY DEF Fenced, Shape, FenceAssumption
  <2>2. Cardinality(Acquired) \in 0..MaxStarts
    <3>1. /\ IsFiniteSet(1..MaxStarts) /\ Cardinality(1..MaxStarts) = MaxStarts
          /\ Acquired \in SUBSET (1..MaxStarts)
      BY <2>1, FS_Interval DEF Governesses, Acquired
    <3>2. Cardinality(Acquired) <= Cardinality(1..MaxStarts) /\ IsFiniteSet(Acquired)
      BY ONLY <3>1, FS_Subset
    <3>3. Cardinality(Acquired) \in Nat
      BY ONLY <3>2, FS_CardinalityType
    <3> QED
      BY <2>1, <3>1, <3>2, <3>3
  <2>3. \A g \in Governesses : gov[g].epoch \in 0..MaxStarts
    <3>1. \A g \in Governesses : gov[g].epoch \in Nat
      BY <2>1 DEF Shape, Births, GovRecord
    <3> QED
      BY <2>1, <2>2, <3>1 DEF Epochs
  <2>4. {file, utility} \subseteq 0..MaxStarts
    BY <2>1, <2>3 DEF Epochs
  <2>5. {started, beside} \subseteq 0..MaxStarts
    BY <2>1 DEF Shape, Births, Governesses, FenceAssumption
  <2> QED
    BY <2>1, <2>3, <2>4, <2>5 DEF TypeOK, Shape, Births, Budget, HookPlaces
<1> QED
  BY <1>1, FencedInit, FencedStep, PTL DEF Spec

\* A Governess whose epoch a newer one has overwritten has at most one effect more, as
\* long as one at most is started beside the pane; and the hook starts no more than
\* GOVERNESS_RESTART_LIMIT in a window.
THEOREM FenceHolds == ASSUME FenceAssumption PROVE Spec => []FenceKept
<1>1. Fenced => FenceKept
  <2> SUFFICES ASSUME Fenced PROVE FenceKept
    OBVIOUS
  <2>1. SupersededActsOnce
    BY DEF Fenced, Overtaken, SupersededActsOnce
  <2>2. RespawnsWithinBudget
    BY DEF Fenced, Shape, Budget, RespawnsWithinBudget, FenceAssumption
  <2> QED
    BY <2>1, <2>2 DEF FenceKept
<1> QED
  BY <1>1, FencedInit, FencedStep, PTL DEF Spec
=============================================================================
