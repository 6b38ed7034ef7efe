--------------------------- MODULE NativeFallback ---------------------------
(***************************************************************************)
(* Leases for native read-only children of an agent (native-subagent.ts,   *)
(* and its hooks in hooks/emit.ts).  A request with settled evidence is    *)
(* granted the one slot of the run, a spawn consumes the grant, the start  *)
(* of a child binds it and its stop closes it.  Every operation holds the  *)
(* lock of the store and first expires what is out of time or of an older  *)
(* epoch.                                                                  *)
(***************************************************************************)
EXTENDS Integers, FiniteSets

CONSTANTS Requests,      \* requests, numbered in the order they are journaled
          Children, NoChild,
          Mode,          \* resolveNativeSubagentMode
          MaxEpoch       \* bound: Governesses

NativeAssumption ==
  /\ Requests \subseteq Nat /\ NoChild \notin Children
  /\ Mode \in {"utility-first", "strict", "off"}
  /\ MaxEpoch \in Nat \ {0}

VARIABLES lease,     \* foldSnapshots: what the journal says of each request
          settled,   \* requests whose utility evidence is settled
          epoch,     \* the epoch file of the helper store
          child,     \* where each child is
          served     \* history: the children that used a tool under a lease

vars == <<lease, settled, epoch, child, served>>

Absent == [state |-> "absent", requester |-> "none", epoch |-> 0, due |-> FALSE, child |-> NoChild]
Active == {"granted", "consumed", "running"}
States == {"absent", "pending", "completed", "denied", "expired"} \cup Active

Init ==
  /\ lease = [r \in Requests |-> Absent] /\ settled = {} /\ epoch = 1
  /\ child = [c \in Children |-> "none"] /\ served = [r \in Requests |-> {}]

-----------------------------------------------------------------------------
(* The journal under its lock                                              *)

\* Mutant: only the epoch expires a lease.
Expired_ByEpoch(ls) ==
  [r \in Requests |->
     IF ls[r].state \in Active /\ ls[r].epoch # epoch
     THEN [ls[r] EXCEPT !.state = "expired"] ELSE ls[r]]

\* expireSnapshots, the first step of all operations but the request.
Expired(ls) ==
  [r \in Requests |->
     IF ls[r].state \in Active /\ (ls[r].epoch # epoch \/ ls[r].due)
     THEN [ls[r] EXCEPT !.state = "expired"] ELSE ls[r]]
To(ls, r, state) == [ls EXCEPT ![r].state = state, ![r].due = FALSE]
In(ls, state, requester) == {r \in Requests : ls[r].state = state /\ ls[r].requester = requester}
First(S) == CHOOSE r \in S : \A o \in S : r <= o

\* appendNativeFallbackRequest: a request that is there already is not added again.
Request(r, requester) ==
  /\ lease[r].state = "absent" /\ \A o \in Requests : o < r => lease[o].state # "absent"
  /\ lease' = [lease EXCEPT ![r].state = "pending", ![r].requester = requester]
  /\ UNCHANGED <<settled, epoch, child, served>>

\* pendingDenialReason, but for the slot.  Whether the evidence is there is read when it
\* is decided; Codex has no read-only child.
Grantable(ls, r) ==
  ls[r].state = "pending" /\ Mode = "utility-first" /\ ls[r].requester # "codex" /\ r \in settled

\* Mutant: the slot is looked at before the pass, not after each grant.
Busy_AsItWas(ls, r) == \E o \in Requests : ls[o].state \in Active

\* The slot is taken when the turn of r comes: as it was, or by a request before r.
Busy(ls, r) == \E o \in Requests : ls[o].state \in Active \/ (o < r /\ Grantable(ls, o))
\* processPendingNativeFallbackRequests, by the Governess of this epoch only.
Process ==
  /\ lease' = LET ls == Expired(lease)
              IN  [r \in Requests |->
                     IF ls[r].state # "pending" THEN ls[r]
                     ELSE IF Grantable(ls, r) /\ ~Busy(ls, r)
                     THEN [ls[r] EXCEPT !.state = "granted", !.epoch = epoch]
                     ELSE [ls[r] EXCEPT !.state = "denied"]]
  /\ UNCHANGED <<settled, epoch, child, served>>

\* consumeNativeFallbackLease, at the spawn of a child with the right profile or not.
Consume(c, profile) ==
  LET ls == Expired(lease)
      granted == In(ls, "granted", "claude")
  IN  /\ child[c] = "none"
      /\ IF Mode # "off" /\ (Mode = "strict" \/ granted = {} \/ ~profile)
         THEN lease' = ls /\ UNCHANGED child
         ELSE /\ child' = [child EXCEPT ![c] = "spawned"]
              /\ lease' = IF Mode = "off" THEN lease ELSE To(ls, First(granted), "consumed")
      /\ UNCHANGED <<settled, epoch, served>>

\* bindNativeFallbackStart: the start of a child does not say which spawn it is of,
\* and a child may start that no hook saw spawn.
Start(c, profile) ==
  LET ls == Expired(lease)
      consumed == In(ls, "consumed", "claude")
  IN  /\ child[c] \in {"none", "spawned"} /\ child' = [child EXCEPT ![c] = "started"]
      /\ IF consumed = {} \/ ~profile
         THEN lease' = ls
         ELSE lease' = [To(ls, First(consumed), "running") EXCEPT ![First(consumed)].child = c]
      /\ UNCHANGED <<settled, epoch, served>>

\* nativeFallbackForChild: a tool of a child is let through while its lease runs.
LeaseOf(ls, c) == {r \in Requests : ls[r].state = "running" /\ ls[r].child = c}
\* Mutant: the leases are read as they are.
Tool_Unexpired(c) ==
  /\ child[c] = "started" /\ lease' = lease
  /\ served' = [r \in Requests |-> IF r \in LeaseOf(lease, c) THEN served[r] \cup {c} ELSE served[r]]
  /\ UNCHANGED <<settled, epoch, child>>

Tool(c) ==
  /\ child[c] = "started" /\ lease' = Expired(lease)
  /\ served' = [r \in Requests |-> IF r \in LeaseOf(lease', c) THEN served[r] \cup {c} ELSE served[r]]
  /\ UNCHANGED <<settled, epoch, child>>

\* completeNativeFallback
Stop(c) ==
  LET ls == Expired(lease)
      mine == LeaseOf(ls, c)
  IN  /\ child[c] = "started" /\ child' = [child EXCEPT ![c] = "stopped"]
      /\ lease' = [r \in Requests |-> IF r \in mine THEN [ls[r] EXCEPT !.state = "completed"] ELSE ls[r]]
      /\ UNCHANGED <<settled, epoch, served>>

-----------------------------------------------------------------------------
(* The surroundings                                                        *)

EvidenceSettles(r) ==
  /\ r \notin settled /\ settled' = settled \cup {r}
  /\ UNCHANGED <<lease, epoch, child, served>>
\* The 120 seconds of a grant, the 300 of a run.
Elapses(r) ==
  /\ lease[r].state \in Active /\ ~lease[r].due /\ lease' = [lease EXCEPT ![r].due = TRUE]
  /\ UNCHANGED <<settled, epoch, child, served>>
EpochAdvances ==
  /\ epoch < MaxEpoch /\ epoch' = epoch + 1
  /\ UNCHANGED <<lease, settled, child, served>>

Next ==
  \/ Process \/ EpochAdvances
  \/ \E r \in Requests, requester \in {"claude", "codex"} : Request(r, requester)
  \/ \E r \in Requests : EvidenceSettles(r) \/ Elapses(r)
  \/ \E c \in Children, profile \in BOOLEAN : Consume(c, profile) \/ Start(c, profile)
  \/ \E c \in Children : Tool(c) \/ Stop(c)
Spec == Init /\ [][Next]_vars
\* The Governess processes requests in every cycle; every operation expires leases.
FairSpec == Spec /\ WF_vars(Process)

-----------------------------------------------------------------------------
(* Properties                                                              *)

TypeOK ==
  /\ lease \in [Requests -> [state : States, requester : {"none", "claude", "codex"},
                             epoch : 0..MaxEpoch, due : BOOLEAN, child : Children \cup {NoChild}]]
  /\ settled \subseteq Requests /\ epoch \in 1..MaxEpoch
  /\ child \in [Children -> {"none", "spawned", "started", "stopped"}]
  /\ served \in [Requests -> SUBSET Children]

\* utility-first-native-fallback/spec.md: one slot for the run, over late starts and
\* stops, expiry and new epochs; a lease never serves two children.
OneChildInTheSlot ==
  /\ Cardinality({r \in Requests : lease[r].state \in Active}) <= 1
  /\ \A r \in Requests : Cardinality(served[r]) <= 1

\* "leases expire immediately when the Governess epoch advances": no tool of a child
\* is let through under a lease of an older epoch, or one that is out of time.
InTime ==
  \A r \in Requests : served'[r] # served[r]
    => lease[r].epoch = epoch /\ ~lease[r].due /\ r \in settled
ServedInTime == [][InTime]_vars

\* A slot that is out of time is free again, whatever the child does.
SlotFreed == \A r \in Requests : [](lease[r].due => <>(lease[r].state \notin Active))
=============================================================================
