------------------------ MODULE NativeFallbackProofs ------------------------
(***************************************************************************)
(* The leases of native children, for any number of requests, children and *)
(* Governesses: the run has one slot (OneSlot), and no tool is let through *)
(* under a lease that is out of time or of an older epoch (ServedUnderIt). *)
(*                                                                         *)
(* The invariant says where a lease can be, given what has become of it:   *)
(* an active one has settled evidence and is the only one, one that has    *)
(* not begun to run has served nobody, and one that did served its child   *)
(* alone.                                                                  *)
(***************************************************************************)
EXTENDS NativeFallback, FiniteSetTheorems, TLAPS

LeaseRecord ==
  [state : States, requester : {"none", "claude", "codex"}, epoch : 0..MaxEpoch,
   due : BOOLEAN, child : Children \cup {NoChild}]
Leases == [Requests -> LeaseRecord]

\* One lease at most is active.
OneActive(ls) ==
  \A r, o \in Requests : ls[r].state \in Active /\ ls[o].state \in Active => r = o
\* Only a request with settled evidence was granted a lease.
ActiveSettled(ls) == \A r \in Requests : ls[r].state \in Active => r \in settled
\* A lease serves the child that it is bound to, from its start on.
ServesItsChild(ls) ==
  \A r \in Requests :
    /\ served[r] \subseteq {ls[r].child}
    /\ ls[r].state \in {"absent", "pending", "granted", "consumed"} => served[r] = {}
Sound(ls) == ls \in Leases /\ OneActive(ls) /\ ActiveSettled(ls) /\ ServesItsChild(ls)

Slotted == NativeAssumption /\ TypeOK /\ Sound(lease)

-----------------------------------------------------------------------------
(* What the operations of the journal do to a sound one.                   *)

\* Expiry changes no more than the state of a lease, to "expired".
LEMMA ExpiredFields ==
  ASSUME NEW ls \in Leases, NEW r \in Requests
  PROVE  /\ Expired(ls)[r].state = IF ls[r].state \in Active /\ (ls[r].epoch # epoch \/ ls[r].due)
                                   THEN "expired" ELSE ls[r].state
         /\ Expired(ls)[r].requester = ls[r].requester
         /\ Expired(ls)[r].epoch = ls[r].epoch
         /\ Expired(ls)[r].due = ls[r].due
         /\ Expired(ls)[r].child = ls[r].child
<1>1. ls[r] \in LeaseRecord
  BY DEF Leases
<1> QED
  BY <1>1 DEF Expired, LeaseRecord

LEMMA ExpiredType ==
  ASSUME NEW ls \in Leases
  PROVE  Expired(ls) \in Leases
BY DEF Leases, LeaseRecord, Expired, States

\* A lease that is active after expiry is of this epoch and in time.
LEMMA ExpiredInTime ==
  ASSUME NEW ls \in Leases, NEW r \in Requests, Expired(ls)[r].state \in Active
  PROVE  ls[r].state \in Active /\ ls[r].epoch = epoch /\ ~ls[r].due
BY ExpiredFields DEF Active

LEMMA ExpiredSound ==
  ASSUME NEW ls, Sound(ls)
  PROVE  Sound(Expired(ls))
<1> USE DEF Sound
<1>1. Expired(ls) \in Leases
  BY ExpiredType
<1>2. \A r \in Requests : /\ Expired(ls)[r].state \in {"expired", ls[r].state}
                          /\ Expired(ls)[r].child = ls[r].child
  BY ExpiredFields
<1>3. OneActive(Expired(ls)) /\ ActiveSettled(Expired(ls))
  BY <1>2 DEF OneActive, ActiveSettled, Active
<1>4. ServesItsChild(Expired(ls))
  BY <1>2 DEF ServesItsChild
<1> QED
  BY <1>1, <1>3, <1>4

\* Where one lease at most is active, "the first one in a state" is the one there is.
LEMMA FirstIsThe ==
  ASSUME NativeAssumption, NEW ls, Sound(ls), NEW state \in Active, NEW requester,
         In(ls, state, requester) # {}
  PROVE  /\ First(In(ls, state, requester)) \in Requests
         /\ ls[First(In(ls, state, requester))].state = state
<1> PICK r \in In(ls, state, requester) : TRUE
  OBVIOUS
<1>1. r \in Requests /\ ls[r].state = state /\ r \in Nat
  BY DEF In, NativeAssumption
<1>2. In(ls, state, requester) = {r}
  BY <1>1 DEF In, Sound, OneActive
<1>3. First({r}) = r
  BY <1>1 DEF First
<1> QED
  BY <1>1, <1>2, <1>3

\* A lease goes on to another state, and is bound to a child before it served one.
LEMMA MovedSound ==
  ASSUME NEW ls, Sound(ls), NEW r \in Requests, NEW to \in LeaseRecord, NEW new,
         new = [ls EXCEPT ![r] = to],
         to.state \in Active => ls[r].state \in Active,
         to.state \in {"absent", "pending", "granted", "consumed"} => served[r] = {},
         to.child # ls[r].child => served[r] = {}
  PROVE  Sound(new)
<1>1. new \in Leases
  BY DEF Sound, Leases
<1>2. new[r] = to /\ \A o \in Requests \ {r} : new[o] = ls[o]
  BY DEF Sound, Leases
<1>3. OneActive(new) /\ ActiveSettled(new)
  BY <1>2 DEF Sound, OneActive, ActiveSettled
<1>4. ServesItsChild(new)
  BY <1>2 DEF Sound, ServesItsChild
<1> QED
  BY <1>1, <1>3, <1>4 DEF Sound

-----------------------------------------------------------------------------
(* Each operation keeps the journal sound.                                 *)

LEMMA RequestSound ==
  ASSUME Slotted, NEW r \in Requests, NEW requester \in {"claude", "codex"}, Request(r, requester)
  PROVE  Sound(lease')
<1> DEFINE to == [lease[r] EXCEPT !.state = "pending", !.requester = requester]
<1>1. lease[r] \in LeaseRecord
  BY DEF Slotted, Sound, Leases
<1>2. /\ to \in LeaseRecord /\ to.state = "pending" /\ to.child = lease[r].child
  BY <1>1 DEF LeaseRecord, States
<1>3. lease' = [lease EXCEPT ![r] = to]
  BY <1>1 DEF Request, LeaseRecord, Slotted, Sound, Leases
<1>4. served[r] = {}
  BY DEF Slotted, Sound, ServesItsChild, Request
<1> HIDE DEF to
<1>5. to.state \notin Active
  BY <1>2 DEF Active
<1> QED
  BY <1>2, <1>3, <1>4, <1>5, MovedSound DEF Slotted

\* The pass grants the slot to one request: had two of them got it, the later one would
\* have found it taken by the earlier.
LEMMA ProcessSound ==
  ASSUME Slotted, Process
  PROVE  Sound(lease')
<1> DEFINE ls == Expired(lease)
           Granted(r) == ls[r].state = "pending" /\ Grantable(ls, r) /\ ~Busy(ls, r)
<1>1. Sound(ls)
  BY ExpiredSound DEF Slotted
<1> HIDE DEF ls
<1>2. lease' = [r \in Requests |->
                  IF ls[r].state # "pending" THEN ls[r]
                  ELSE IF Grantable(ls, r) /\ ~Busy(ls, r)
                  THEN [ls[r] EXCEPT !.state = "granted", !.epoch = epoch]
                  ELSE [ls[r] EXCEPT !.state = "denied"]]
  BY DEF Process, ls
<1>3. \A r \in Requests : ls[r] \in LeaseRecord
  BY <1>1 DEF Sound, Leases
<1>4. lease' \in Leases
  <2>1. epoch \in 0..MaxEpoch
    BY DEF Slotted, TypeOK, NativeAssumption
  <2>2. ASSUME NEW r \in Requests
        PROVE  /\ [ls[r] EXCEPT !.state = "granted", !.epoch = epoch] \in LeaseRecord
               /\ [ls[r] EXCEPT !.state = "denied"] \in LeaseRecord
    BY <1>3, <2>1 DEF LeaseRecord, States, Active
  <2> QED
    BY <1>2, <1>3, <2>2 DEF Leases
<1>5. \A r \in Requests :
        /\ lease'[r].state = IF ls[r].state # "pending" THEN ls[r].state
                             ELSE IF Granted(r) THEN "granted" ELSE "denied"
        /\ lease'[r].child = ls[r].child
  BY <1>2, <1>3 DEF LeaseRecord
<1>6. \A r, o \in Requests : Granted(r) /\ Granted(o) => r = o
  BY DEF Busy, Slotted, NativeAssumption
<1>7. \A r, o \in Requests : Granted(r) => ls[o].state \notin Active
  BY DEF Busy
<1>8. \A r \in Requests : lease'[r].state \in Active => ls[r].state \in Active \/ Granted(r)
  BY <1>5 DEF Active
<1> HIDE DEF Granted
<1>9. OneActive(lease')
  BY <1>1, <1>6, <1>7, <1>8 DEF Sound, OneActive
<1>10. ActiveSettled(lease')
  <2>1. \A r \in Requests : Granted(r) => r \in settled
    BY DEF Granted, Grantable
  <2> QED
    BY <1>1, <1>8, <2>1 DEF Sound, ActiveSettled
<1>11. ServesItsChild(lease')
  <2> SUFFICES ASSUME NEW r \in Requests
               PROVE  /\ served[r] \subseteq {lease'[r].child}
                      /\ lease'[r].state \in {"absent", "pending", "granted", "consumed"} => served[r] = {}
    BY DEF ServesItsChild
  <2>1. CASE ls[r].state = "pending"
    BY <1>1, <2>1 DEF Sound, ServesItsChild
  <2>2. CASE ls[r].state # "pending"
    BY <1>1, <1>5, <2>2 DEF Sound, ServesItsChild
  <2> QED
    BY <2>1, <2>2
<1> QED
  BY <1>4, <1>9, <1>10, <1>11 DEF Sound

LEMMA ConsumeSound ==
  ASSUME Slotted, NEW c \in Children, NEW profile \in BOOLEAN, Consume(c, profile)
  PROVE  Sound(lease')
<1> DEFINE ls == Expired(lease)
           granted == In(ls, "granted", "claude")
           r == First(granted)
           to == [ls[r] EXCEPT !.state = "consumed", !.due = FALSE]
<1>1. Sound(ls) /\ Sound(lease)
  BY ExpiredSound DEF Slotted
<1>2. CASE lease' = ls \/ lease' = lease
  BY <1>1, <1>2
<1>3. CASE granted # {} /\ lease' = To(ls, r, "consumed")
  <2>1. r \in Requests /\ ls[r].state = "granted"
    BY <1>1, <1>3, FirstIsThe DEF Slotted, Active
  <2> HIDE DEF ls, granted, r
  <2>2. ls \in Leases /\ ls[r] \in LeaseRecord
    BY <1>1, <2>1 DEF Sound, Leases
  <2>3. lease' = [ls EXCEPT ![r] = to]
    BY <1>3, <2>1, <2>2 DEF To, Leases, LeaseRecord
  <2>4. to \in LeaseRecord /\ to.state = "consumed" /\ to.child = ls[r].child
    BY <2>2 DEF LeaseRecord, States, Active
  <2>5. served[r] = {} /\ ls[r].state \in Active
    BY <1>1, <2>1 DEF Sound, ServesItsChild, Active
  <2> HIDE DEF to
  <2> QED
    BY <1>1, <2>1, <2>3, <2>4, <2>5, MovedSound
<1> QED
  BY <1>2, <1>3 DEF Consume

LEMMA StartSound ==
  ASSUME Slotted, NEW c \in Children, NEW profile \in BOOLEAN, Start(c, profile)
  PROVE  Sound(lease')
<1> DEFINE ls == Expired(lease)
           consumed == In(ls, "consumed", "claude")
           r == First(consumed)
           to == [ls[r] EXCEPT !.state = "running", !.due = FALSE, !.child = c]
<1>1. Sound(ls)
  BY ExpiredSound DEF Slotted
<1>2. CASE lease' = ls
  BY <1>1, <1>2
<1>3. CASE consumed # {} /\ lease' = [To(ls, r, "running") EXCEPT ![r].child = c]
  <2>1. r \in Requests /\ ls[r].state = "consumed"
    BY <1>1, <1>3, FirstIsThe DEF Slotted, Active
  <2> HIDE DEF ls, consumed, r
  <2>2. ls \in Leases /\ ls[r] \in LeaseRecord
    BY <1>1, <2>1 DEF Sound, Leases
  <2>3. lease' = [ls EXCEPT ![r] = to]
    BY <1>3, <2>1, <2>2 DEF To, Leases, LeaseRecord
  <2>4. to \in LeaseRecord /\ to.state = "running"
    BY <2>2 DEF LeaseRecord, States, Active
  <2>5. served[r] = {} /\ ls[r].state \in Active
    BY <1>1, <2>1 DEF Sound, ServesItsChild, Active
  <2> HIDE DEF to
  <2> QED
    BY <1>1, <2>1, <2>3, <2>4, <2>5, MovedSound
<1> QED
  BY <1>2, <1>3 DEF Start

\* What is over stays bound to the child that it served.
LEMMA StopSound ==
  ASSUME Slotted, NEW c \in Children, Stop(c)
  PROVE  Sound(lease')
<1> DEFINE ls == Expired(lease)
<1>1. Sound(ls)
  BY ExpiredSound DEF Slotted
<1>2. lease' = [r \in Requests |-> IF r \in LeaseOf(ls, c) THEN [ls[r] EXCEPT !.state = "completed"]
                                                         ELSE ls[r]]
  BY DEF Stop
<1> HIDE DEF ls
<1>3. \A r \in Requests : ls[r] \in LeaseRecord
  BY <1>1 DEF Sound, Leases
<1>4. lease' \in Leases
  BY <1>2, <1>3 DEF Leases, LeaseRecord, States
<1>5. \A r \in Requests : lease'[r].state \in {"completed", ls[r].state} /\ lease'[r].child = ls[r].child
  BY <1>2, <1>3 DEF LeaseRecord
<1>6. OneActive(lease') /\ ActiveSettled(lease')
  BY <1>1, <1>5 DEF Sound, OneActive, ActiveSettled, Active
<1>7. ServesItsChild(lease')
  BY <1>1, <1>5 DEF Sound, ServesItsChild
<1> QED
  BY <1>4, <1>6, <1>7 DEF Sound

LEMMA ElapsesSound ==
  ASSUME Slotted, NEW r \in Requests, Elapses(r)
  PROVE  Sound(lease')
<1> DEFINE to == [lease[r] EXCEPT !.due = TRUE]
<1>1. lease[r] \in LeaseRecord
  BY DEF Slotted, Sound, Leases
<1>2. to \in LeaseRecord /\ to.state = lease[r].state /\ to.child = lease[r].child
  BY <1>1 DEF LeaseRecord
<1>3. lease' = [lease EXCEPT ![r] = to]
  BY <1>1 DEF Elapses, LeaseRecord, Slotted, Sound, Leases
<1>4. to.state \in {"absent", "pending", "granted", "consumed"} => served[r] = {}
  BY <1>2 DEF Slotted, Sound, ServesItsChild
<1> HIDE DEF to
<1> QED
  BY <1>2, <1>3, <1>4, MovedSound DEF Slotted

\* A tool of a child leaves a mark at the lease that runs for this child.
LEMMA ToolSound ==
  ASSUME Slotted, NEW c \in Children, Tool(c)
  PROVE  Sound(lease)'
<1>1. Sound(lease')
  BY ExpiredSound DEF Slotted, Tool
<1>2. \A r \in Requests : served'[r] = IF r \in LeaseOf(lease', c) THEN served[r] \cup {c} ELSE served[r]
  BY DEF Tool
<1>3. ServesItsChild(lease)'
  BY <1>1, <1>2 DEF Sound, ServesItsChild, LeaseOf
<1> QED
  BY <1>1, <1>3 DEF Sound, ActiveSettled, Tool

-----------------------------------------------------------------------------
(* The invariant                                                           *)

\* No step leaves the journal unsound; the type invariant goes along.
LEMMA SlottedStep ==
  ASSUME Slotted, [Next]_vars
  PROVE  Slotted'
<1>1. NativeAssumption' /\ epoch' \in 1..MaxEpoch
  <2>1. CASE EpochAdvances
    BY <2>1 DEF EpochAdvances, Slotted, TypeOK, NativeAssumption
  <2>2. CASE UNCHANGED epoch
    BY <2>2 DEF Slotted, TypeOK, NativeAssumption
  <2> QED
    BY <2>1, <2>2 DEF Next, vars, Process, Request, EvidenceSettles, Elapses, Consume, Start,
                      Tool, Stop
<1>2. Sound(lease)'
  <2>1. CASE Sound(lease') /\ UNCHANGED <<settled, served>>
    BY <2>1 DEF Sound, ActiveSettled, ServesItsChild
  <2>2. ASSUME NEW r \in Requests, EvidenceSettles(r)
        PROVE  Sound(lease)'
    BY <2>2 DEF EvidenceSettles, Slotted, Sound, ActiveSettled, ServesItsChild, OneActive
  <2>3. ASSUME EpochAdvances \/ UNCHANGED vars
        PROVE  Sound(lease') /\ UNCHANGED <<settled, served>>
    BY <2>3 DEF EpochAdvances, vars, Slotted
  <2>4. ASSUME Process
        PROVE  Sound(lease') /\ UNCHANGED <<settled, served>>
    BY <2>4, ProcessSound DEF Process
  <2>5. ASSUME NEW r \in Requests, NEW requester \in {"claude", "codex"}, Request(r, requester)
        PROVE  Sound(lease') /\ UNCHANGED <<settled, served>>
    BY <2>5, RequestSound DEF Request
  <2>6. ASSUME NEW r \in Requests, Elapses(r)
        PROVE  Sound(lease') /\ UNCHANGED <<settled, served>>
    BY <2>6, ElapsesSound DEF Elapses
  <2>7. ASSUME NEW c \in Children, NEW profile \in BOOLEAN, Consume(c, profile) \/ Start(c, profile)
        PROVE  Sound(lease') /\ UNCHANGED <<settled, served>>
    BY <2>7, ConsumeSound, StartSound DEF Consume, Start
  <2>8. ASSUME NEW c \in Children, Stop(c)
        PROVE  Sound(lease') /\ UNCHANGED <<settled, served>>
    BY <2>8, StopSound DEF Stop
  <2>9. ASSUME NEW c \in Children, Tool(c)
        PROVE  Sound(lease)'
    BY <2>9, ToolSound
  <2> QED
    BY <2>1, <2>2, <2>3, <2>4, <2>5, <2>6, <2>7, <2>8, <2>9 DEF Next
<1>3. settled' \subseteq Requests
  BY DEF Slotted, TypeOK, Next, vars, Process, EpochAdvances, Request,
         EvidenceSettles, Elapses, Consume, Start, Tool, Stop
<1>4. child' \in [Children -> {"none", "spawned", "started", "stopped"}]
  BY DEF Slotted, TypeOK, Next, vars, Process, EpochAdvances, Request,
         EvidenceSettles, Elapses, Consume, Start, Tool, Stop
<1>5. served' \in [Requests -> SUBSET Children]
  <2>1. ASSUME NEW c \in Children, Tool(c)
        PROVE  served' \in [Requests -> SUBSET Children]
    BY <2>1 DEF Slotted, TypeOK, Tool
  <2>2. CASE UNCHANGED served
    BY <2>2 DEF Slotted, TypeOK
  <2> QED
    BY <2>1, <2>2 DEF Next, vars, Process, EpochAdvances, Request, EvidenceSettles, Elapses,
                      Consume, Start, Stop
<1> QED
  BY <1>1, <1>2, <1>3, <1>4, <1>5 DEF Slotted, TypeOK, Sound, Leases, LeaseRecord

LEMMA SlottedInit == ASSUME NativeAssumption PROVE Init => Slotted
<1> SUFFICES ASSUME Init PROVE Slotted
  OBVIOUS
<1>1. Absent \in LeaseRecord /\ Absent.state = "absent"
  BY DEF Absent, LeaseRecord, States, NativeAssumption
<1>2. \A r \in Requests : lease[r] = Absent
  BY DEF Init
<1>3. Sound(lease)
  BY <1>1, <1>2 DEF Init, Sound, Leases, OneActive, ActiveSettled, ServesItsChild, Active
<1> QED
  BY <1>3 DEF Init, Slotted, TypeOK, Sound, Leases, LeaseRecord, NativeAssumption

-----------------------------------------------------------------------------
(* The theorems                                                            *)

\* The types of the leases, of the evidence, of the children and of what they were served.
THEOREM TypeCorrect == ASSUME NativeAssumption PROVE Spec => []TypeOK
<1>1. Slotted => TypeOK
  BY DEF Slotted
<1> QED
  BY <1>1, SlottedInit, SlottedStep, PTL DEF Spec

\* However late children start and stop, and whatever expires, the run never has two
\* leases in its slot, and a lease never serves a second child.
THEOREM OneSlot == ASSUME NativeAssumption PROVE Spec => []OneChildInTheSlot
<1>1. Slotted => OneChildInTheSlot
  <2> SUFFICES ASSUME Slotted PROVE OneChildInTheSlot
    OBVIOUS
  <2>1. Cardinality({r \in Requests : lease[r].state \in Active}) <= 1
    <3>1. CASE \A r \in Requests : lease[r].state \notin Active
      <4>1. {r \in Requests : lease[r].state \in Active} = {}
        BY <3>1
      <4> QED
        BY <4>1, FS_EmptySet
    <3>2. ASSUME NEW r \in Requests, lease[r].state \in Active
          PROVE  Cardinality({o \in Requests : lease[o].state \in Active}) <= 1
      <4>1. {o \in Requests : lease[o].state \in Active} = {r}
        BY <3>2 DEF Slotted, Sound, OneActive
      <4>2. Cardinality({r}) = 1
        BY FS_Singleton
      <4>3. Cardinality({o \in Requests : lease[o].state \in Active}) = 1
        BY <4>1, <4>2, Zenon
      <4> QED
        BY <4>3
    <3> QED
      BY <3>1, <3>2
  <2>2. ASSUME NEW r \in Requests
        PROVE  Cardinality(served[r]) <= 1
    <3>1. served[r] = {} \/ served[r] = {lease[r].child}
      BY DEF Slotted, Sound, ServesItsChild
    <3>2. Cardinality({}) = 0 /\ Cardinality({lease[r].child}) = 1
      BY FS_EmptySet, FS_Singleton
    <3> QED
      BY <3>1, <3>2
  <2> QED
    BY <2>1, <2>2 DEF OneChildInTheSlot
<1> QED
  BY <1>1, SlottedInit, SlottedStep, PTL DEF Spec

\* Whoever is let through holds a lease of this epoch, in time, for a request whose
\* evidence was settled.
THEOREM ServedUnderIt == ASSUME NativeAssumption PROVE Spec => ServedInTime
<1>1. Slotted /\ [Next]_vars => [InTime]_vars
  <2> SUFFICES ASSUME Slotted, Next, NEW r \in Requests, served'[r] # served[r]
               PROVE  lease[r].epoch = epoch /\ ~lease[r].due /\ r \in settled
    BY DEF InTime
  <2>1. PICK c \in Children : Tool(c)
    BY DEF Next, Process, EpochAdvances, Request, EvidenceSettles, Elapses, Consume, Start, Stop
  <2>2. Expired(lease)[r].state = "running"
    BY <2>1 DEF Tool, LeaseOf
  <2>3. lease[r].state \in Active /\ lease[r].epoch = epoch /\ ~lease[r].due
    BY <2>2, ExpiredInTime DEF Slotted, Sound, Active
  <2> QED
    BY <2>3 DEF Slotted, Sound, ActiveSettled
<1> QED
  BY <1>1, SlottedInit, SlottedStep, PTL DEF Spec, ServedInTime
=============================================================================
