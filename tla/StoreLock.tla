----------------------------- MODULE StoreLock -----------------------------
(***************************************************************************)
(* The lock file of utility-store.ts, around one read-validate-append      *)
(* operation on the journal.  native-subagent.ts uses the same scheme.     *)
(*                                                                         *)
(* Every file-system call is a step of its own: the exclusive create, the  *)
(* write of the owner's token, stat, unlink, the read before the unlink.   *)
(* A file is identified by the process that created it.  It is "old" once  *)
(* it is more than LOCK_STALE_AFTER_MS (30 s) of age; the synchronous      *)
(* operation of a live process takes milliseconds, so only the file of a   *)
(* process that died or failed to clean up grows old.                      *)
(***************************************************************************)
EXTENDS Naturals

CONSTANTS Procs,      \* processes that use the store
          Gone,       \* "a process that no longer runs"
          Faults,     \* TRUE: processes die and writes of the token fail
          MaxFaults   \* bound on the faults of a behaviour

ASSUME LockConstants ==
  /\ Gone \notin Procs
  /\ Faults \in BOOLEAN
  /\ MaxFaults \in Nat

VARIABLES lock,    \* the lock file
          pc,      \* what each process does next
          fresh,   \* processes that have read the journal as it is now
          faults   \* number of faults so far

vars == <<lock, pc, fresh, faults>>

NoFile == [exists |-> FALSE, owner |-> Gone, token |-> FALSE, old |-> FALSE]

\* openSync(lockFile, "wx"): an empty file.
FileOf(p) == [exists |-> TRUE, owner |-> p, token |-> FALSE, old |-> FALSE]

\* Between the exclusive create and the unlink of removeOwnedLock.
Holding == {"token", "read", "append", "release", "remove"}

Goto(p, label) == pc' = [pc EXCEPT ![p] = label]

Init == /\ lock = NoFile
        /\ pc = [p \in Procs |-> "idle"]
        /\ fresh = {}
        /\ faults = 0

-----------------------------------------------------------------------------
(* acquireStoreLock.                                                       *)

Begin(p) == /\ pc[p] = "idle"
            /\ Goto(p, "open")
            /\ UNCHANGED <<lock, fresh, faults>>

\* Mutant: the file is opened without the exclusive flag.
Create_Shared(p) == /\ pc[p] = "open"
                    /\ lock' = FileOf(p)
                    /\ Goto(p, "token")
                    /\ UNCHANGED <<fresh, faults>>

Create(p) == /\ pc[p] = "open"
             /\ ~lock.exists
             /\ lock' = FileOf(p)
             /\ Goto(p, "token")
             /\ UNCHANGED <<fresh, faults>>

\* EEXIST.
Busy(p) == /\ pc[p] = "open"
           /\ lock.exists
           /\ Goto(p, "check")
           /\ UNCHANGED <<lock, fresh, faults>>

\* Mutant: a file that exists is taken for one a dead process left behind.
Stale_Any == lock.exists

\* Mutant: nobody looks at the age of the file.
Stale_Never == FALSE

\* lockIsStale.
Stale == lock.exists /\ lock.old

\* clearStaleLock, first half; a fresh lock is retried until the deadline.
Check(p) == /\ pc[p] = "check"
            /\ IF Stale THEN Goto(p, "break")
                        ELSE Goto(p, "open") \/ Goto(p, "idle")
            /\ UNCHANGED <<lock, fresh, faults>>

\* clearStaleLock, second half: unlinks whatever file is there by now.
Break(p) == /\ pc[p] = "break"
            /\ lock' = NoFile
            /\ Goto(p, "open")
            /\ UNCHANGED <<fresh, faults>>

\* Mutant: the token is written through the name, not the descriptor.
WriteToken_ByName(p) ==
  /\ pc[p] = "token"
  /\ lock' = [lock EXCEPT !.token = TRUE]
  /\ Goto(p, "read")
  /\ UNCHANGED <<fresh, faults>>

\* createOwnedLock writes the token and returns.
WriteToken(p) ==
  /\ pc[p] = "token"
  /\ lock' = IF lock.owner = p THEN [lock EXCEPT !.token = TRUE] ELSE lock
  /\ Goto(p, "read")
  /\ UNCHANGED <<fresh, faults>>

\* writeSync or fsyncSync throws: removeOwnedLock runs, with or without the
\* token in the file.
TokenFails(p) ==
  /\ Faults /\ faults < MaxFaults
  /\ pc[p] = "token"
  /\ \E written \in BOOLEAN :
       lock' = IF lock.owner = p THEN [lock EXCEPT !.token = written] ELSE lock
  /\ Goto(p, "release")
  /\ faults' = faults + 1
  /\ UNCHANGED fresh

-----------------------------------------------------------------------------
(* The operation: read the journal, validate, append.                      *)

Read(p) == /\ pc[p] = "read"
           /\ fresh' = fresh \cup {p}
           /\ Goto(p, "append")
           /\ UNCHANGED <<lock, faults>>

\* An append makes every other process's read stale.
AppendLocked(p) == /\ pc[p] = "append"
                   /\ fresh' = {}
                   /\ Goto(p, "release")
                   /\ UNCHANGED <<lock, faults>>

\* The operation only read, or refused.
NoAppend(p) == /\ pc[p] = "append"
               /\ fresh' = fresh \ {p}
               /\ Goto(p, "release")
               /\ UNCHANGED <<lock, faults>>

\* removeOwnedLock: the file must hold the caller's token ...
Release(p) == /\ pc[p] = "release"
              /\ IF lock.owner = p /\ lock.token THEN Goto(p, "remove")
                                                 ELSE Goto(p, "idle")
              /\ UNCHANGED <<lock, fresh, faults>>

\* ... and is then unlinked by name.
Remove(p) == /\ pc[p] = "remove"
             /\ lock' = NoFile
             /\ Goto(p, "idle")
             /\ UNCHANGED <<fresh, faults>>

-----------------------------------------------------------------------------
(* Time and crashes.                                                       *)

\* The file exists and its owner will never remove it.
Abandoned == /\ lock.exists
             /\ \A p \in Procs : lock.owner = p => pc[p] \notin Holding

GrowsOld == /\ Abandoned
            /\ ~lock.old
            /\ lock' = [lock EXCEPT !.old = TRUE]
            /\ UNCHANGED <<pc, fresh, faults>>

\* The process dies; another process may take its place.
Crash(p) == /\ Faults /\ faults < MaxFaults
            /\ pc[p] # "idle"
            /\ Goto(p, "idle")
            /\ lock' = IF lock.owner = p THEN [lock EXCEPT !.owner = Gone] ELSE lock
            /\ fresh' = fresh \ {p}
            /\ faults' = faults + 1

Acquire(p) == Begin(p) \/ Create(p) \/ Busy(p) \/ Check(p) \/ Break(p)
                \/ WriteToken(p)

Operate(p) == Read(p) \/ AppendLocked(p) \/ NoAppend(p) \/ Release(p) \/ Remove(p)

Step(p) == Acquire(p) \/ Operate(p)

Next == \/ \E p \in Procs : Step(p) \/ TokenFails(p) \/ Crash(p)
        \/ GrowsOld

Spec == Init /\ [][Next]_vars

\* A process that wants the store keeps trying, on every tick; time passes.
FairSpec == /\ Spec
            /\ \A p \in Procs : WF_vars(Step(p))
            /\ WF_vars(GrowsOld)

-----------------------------------------------------------------------------
(* Properties.                                                             *)

\* The variables keep their types, and a file's token is only there while
\* the file is (the lock file of utility-store.ts).
TypeOK ==
  /\ lock \in [exists : BOOLEAN, owner : Procs \cup {Gone},
               token : BOOLEAN, old : BOOLEAN]
  /\ ~lock.exists => lock = NoFile
  /\ pc \in [Procs -> Holding \cup {"idle", "open", "check", "break"}]
  /\ fresh \in SUBSET Procs
  /\ faults \in 0..MaxFaults

\* At most one process is inside withStoreLock.
MutualExclusion ==
  \A p, q \in Procs : pc[p] \in Holding /\ pc[q] \in Holding => p = q

\* Whoever is about to append has read the journal as it is now
\* (withStoreLock around validateNewEvent and appendLine).
ReadIsCurrent == \A p \in Procs : pc[p] = "append" => p \in fresh

\* A lock file nobody will remove does not block the store for ever: another
\* process finds it stale and breaks it, whatever dies on the way.
AbandonedLockIsBroken == Abandoned ~> ~Abandoned

\* Crashes and failed writes do not break the exclusion by themselves: it
\* holds in every behaviour in which nobody breaks a stale lock.
NoBreak == \A p \in Procs : pc[p] # "break"

ExclusiveUnlessBroken == []NoBreak => []MutualExclusion

\* In the same behaviours every event is appended on the journal that its
\* validation read: no append of another process comes between.
CurrentUnlessBroken == []NoBreak => []ReadIsCurrent

\* automatic-worker-tool-widening/spec.md: a fresh lock, empty or not,
\* remains owned until its owner removes it.
FreshLockRemainsOwned ==
  [][\A p \in Procs :
       (/\ lock.exists /\ lock.owner = p /\ ~lock.old
        /\ pc[p] \in Holding /\ pc'[p] = pc[p])
       => lock'.exists /\ lock'.owner = p]_vars
=============================================================================
