---------------------------- MODULE BridgeLedger ----------------------------
(***************************************************************************)
(* The bridge journal bridge.jsonl (bridge-store.ts) as its senders and    *)
(* readers use it.  There is no lock: who enqueues a message reads the     *)
(* pending ones, decides, and then appends up to three lines; in between   *)
(* other processes read and append.  A line once written stays, and what   *)
(* is pending is what a fold over the lines says.                          *)
(***************************************************************************)
EXTENDS Integers, Sequences, FiniteSets

CONSTANTS
  Calls,           \* the send_message and dispatch calls, each with its message
  Readers,         \* the agents somebody reads for
  Options,         \* Options[c]: the messages call c may be made with
  MaxOutstanding,  \* DEFAULT_BRIDGE_MAX_OUTSTANDING
  MaxFaults        \* bound on crashes

\* A message: its two ends, its text, the options of BridgeEnqueueOptions that
\* decide anything.  ttl is "none", "some" or "past" (an expiresAt gone by).
Ends == {"claude", "codex"}
Message == [from : Ends, text : {"s", "t"}, key : {"none", "k"}, supersede : BOOLEAN,
            ttl : {"none", "some", "past"}, urgent : BOOLEAN]
Target(m) == IF m.from = "claude" THEN "codex" ELSE "claude"

LedgerConstants ==
  /\ \A c \in Calls : Options[c] \subseteq Message
  /\ Readers \subseteq {"claude", "codex"} /\ MaxOutstanding \in Nat \ {0} /\ MaxFaults \in Nat

Resolutions == {"delivered", "expired", "superseded", "dead-letter"}
Event == [kind : Resolutions \cup {"message", "blocked"}, id : Calls]

VARIABLES
  journal,   \* the lines of bridge.jsonl
  message,   \* message[c]: what call c sends
  born,      \* the calls in the order of their "at", taken before anything is read
  overdue,   \* messages whose expiresAt has passed
  call,      \* call[c]: where the call is; seen: the pending messages it read; old: what it supersedes
  reader,    \* reader[r]: where the reader for agent r is, and what it read
  faults

vars == <<journal, message, born, overdue, call, reader, faults>>

Line(kind, c) == [kind |-> kind, id |-> c]
Resolved(c) == \E i \in DOMAIN journal : journal[i].id = c /\ journal[i].kind \in Resolutions
Written(c) == \E i \in DOMAIN journal : journal[i] = Line("message", c)
Pending == {c \in Calls : Written(c) /\ ~Resolved(c)}
Position(c) == CHOOSE i \in DOMAIN journal : journal[i] = Line("message", c)

\* What a read returns: overdue messages are told apart, to be settled one by one.
Active(read) == read \ overdue

\* Urgent ones first, then the older ones.
Sooner(c, d) ==
  \/ message[c].urgent /\ ~message[d].urgent
  \/ /\ message[c].urgent = message[d].urgent
     /\ \E i, j \in DOMAIN born : born[i] = c /\ born[j] = d /\ i < j

Idle == [pc |-> "idle", seen |-> {}, late |-> {}, old |-> {}]

Init ==
  /\ journal = <<>> /\ born = <<>> /\ overdue = {} /\ faults = 0
  /\ message \in [Calls -> Message] /\ \A c \in Calls : message[c] \in Options[c]
  /\ call = [c \in Calls |-> Idle]
  /\ reader = [r \in Readers |-> Idle]

Same(c, d) ==
  /\ message[c].from = message[d].from
  /\ message[c].key = message[d].key /\ message[c].key # "none"

\* The last delivered line, if it is this very text on its way back.
Bounces(c) ==
  LET Done == {i \in DOMAIN journal : journal[i].kind = "delivered"}
  IN  /\ Done # {}
      /\ LET last == journal[CHOOSE i \in Done : \A j \in Done : j <= i].id
         IN  message[last].text = message[c].text /\ message[last].from = Target(message[c])

Begin(c) ==
  /\ call[c].pc = "idle"
  /\ IF Bounces(c)
     THEN /\ journal' = Append(journal, Line("blocked", c))
          /\ call' = [call EXCEPT ![c].pc = "suppressed"]
          /\ born' = born
     ELSE /\ born' = Append(born, c)
          /\ call' = [call EXCEPT ![c].pc = "read"]
          /\ journal' = journal
  /\ UNCHANGED <<message, overdue, reader, faults>>

\* The file is read; overdue messages found in it are about to be settled.
Read(c) ==
  /\ call[c].pc = "read"
  /\ call' = [call EXCEPT ![c] = [pc |-> "expire", seen |-> Active(Pending),
                                  late |-> Pending \cap overdue, old |-> {}]]
  /\ UNCHANGED <<journal, message, born, overdue, reader, faults>>

Expire(c) ==
  /\ call[c].pc = "expire" /\ call[c].late # {}
  /\ \E m \in call[c].late :
       /\ journal' = Append(journal, Line("expired", m))
       /\ call' = [call EXCEPT ![c].late = @ \ {m}]
  /\ UNCHANGED <<message, born, overdue, reader, faults>>

\* The oldest pending message of the same key, if there is one.
Duplicate(c) ==
  LET same == {d \in call[c].seen : Same(c, d)}
  IN  {d \in same : \A e \in same \ {d} : Sooner(d, e)}

Decided(c) == call[c].pc = "expire" /\ call[c].late = {}

Return(c) ==
  /\ Decided(c) /\ Duplicate(c) # {} /\ ~message[c].supersede
  /\ call' = [call EXCEPT ![c].pc = "duplicate"]
  /\ UNCHANGED <<journal, message, born, overdue, reader, faults>>

Supersede(c) ==
  /\ Decided(c) /\ message[c].supersede
  /\ \E d \in Duplicate(c) :
       /\ journal' = Append(journal, Line("superseded", d))
       /\ call' = [call EXCEPT ![c].pc = "append", ![c].old = {d}]
  /\ UNCHANGED <<message, born, overdue, reader, faults>>

\* Mutant: the limit is exceeded by one.
Full_Beyond(c) ==
  Cardinality({d \in call[c].seen \ call[c].old : message[d].from = message[c].from}) > MaxOutstanding
\* The backlog of the target as it was when it was read, without the superseded one.
Full(c) ==
  Cardinality({d \in call[c].seen \ call[c].old : message[d].from = message[c].from}) >= MaxOutstanding

\* The message is appended whatever comes of it; its refusal is a line of its own.
Enqueue(c) ==
  /\ IF call[c].pc = "append" THEN TRUE ELSE Decided(c) /\ Duplicate(c) = {}
  /\ journal' = Append(journal, Line("message", c))
  /\ overdue' = IF message[c].ttl = "past" THEN overdue \cup {c} ELSE overdue
  /\ call' = [call EXCEPT
       ![c].pc = IF message[c].ttl = "past" THEN "expired"
                 ELSE IF Full(c) THEN "dead-letter" ELSE "queued"]
  /\ UNCHANGED <<message, born, reader, faults>>

Refuse(c) ==
  /\ call[c].pc \in {"expired", "dead-letter"}
  /\ journal' = Append(journal, Line(call[c].pc, c))
  /\ call' = [call EXCEPT ![c].pc = "refused"]
  /\ UNCHANGED <<message, born, overdue, reader, faults>>

Send(c) == Begin(c) \/ Read(c) \/ Expire(c) \/ Return(c) \/ Supersede(c) \/ Enqueue(c) \/ Refuse(c)

\* Whoever reads for an agent settles its first pending message.
Look(r) ==
  /\ reader[r].pc = "idle" /\ Pending # {}
  /\ reader' = [reader EXCEPT ![r] = [pc |-> "expire",
                                      seen |-> {c \in Active(Pending) : Target(message[c]) = r},
                                      late |-> Pending \cap overdue, old |-> {}]]
  /\ UNCHANGED <<journal, message, born, overdue, call, faults>>
Sweep(r) ==
  /\ reader[r].pc = "expire" /\ reader[r].late # {}
  /\ \E m \in reader[r].late :
       /\ journal' = Append(journal, Line("expired", m))
       /\ reader' = [reader EXCEPT ![r].late = @ \ {m}]
  /\ UNCHANGED <<message, born, overdue, call, faults>>
Settle(r) ==
  /\ reader[r].pc = "expire" /\ reader[r].late = {}
  /\ journal' = IF reader[r].seen = {} THEN journal
                ELSE Append(journal, Line("delivered", CHOOSE c \in reader[r].seen :
                              \A d \in reader[r].seen \ {c} : Sooner(c, d)))
  /\ reader' = [reader EXCEPT ![r] = Idle]
  /\ UNCHANGED <<message, born, overdue, call, faults>>

TimePasses ==
  /\ \E c \in Pending \ overdue : message[c].ttl = "some" /\ overdue' = overdue \cup {c}
  /\ UNCHANGED <<journal, message, born, call, reader, faults>>

\* A process is killed; whatever it appended stays.
Crash(c) ==
  /\ call[c].pc \in {"read", "expire", "append", "expired", "dead-letter"}
  /\ faults < MaxFaults
  /\ faults' = faults + 1
  /\ call' = [call EXCEPT ![c].pc = "crashed"]
  /\ UNCHANGED <<journal, message, born, overdue, reader>>

Next ==
  \/ \E c \in Calls : Send(c) \/ Crash(c)
  \/ \E r \in Readers : Look(r) \/ Sweep(r) \/ Settle(r)
  \/ TimePasses

Spec == Init /\ [][Next]_vars

-----------------------------------------------------------------------------
TypeOK ==
  /\ journal \in Seq(Event) /\ message \in [Calls -> Message]
  /\ born \in Seq(Calls) /\ overdue \subseteq Calls /\ faults \in 0..MaxFaults
  /\ \A c \in Calls : /\ call[c].seen \cup call[c].late \cup call[c].old \subseteq Calls
                      /\ Cardinality(call[c].old) <= 1
                      /\ Written(c) => \E i \in DOMAIN born : born[i] = c
  /\ \A r \in Readers : reader[r].pc \in {"idle", "expire"}

\* A superseded message has its successor in the journal, or the call that superseded it is about
\* to append it, or was killed there: the two lines are two appends, with others in between.
SupersededHasSuccessor ==
  \A d \in Calls : (\E i \in DOMAIN journal : journal[i] = Line("superseded", d)) =>
    \E c \in Calls : d \in call[c].old /\ (Written(c) \/ call[c].pc \in {"append", "crashed"})

\* Two pending messages of one key are there only because the sender of the later one read the
\* journal before the earlier one was in it, or because it found two and replaced one: who sees a
\* message of his key neither adds to it nor leaves it.
KeyHeldUnlessBlind ==
  \A c, d \in Pending :
    Same(c, d) /\ Position(d) < Position(c) /\ d \in call[c].seen => call[c].old \ {d} # {}

\* A message stays pending only if its sender saw room for it; the backlog of a target exceeds its
\* limit by what was appended between a read and the append that rests on it, and by what is about
\* to be refused.
BacklogHeldUnlessBlind ==
  \A c \in Pending :
    \/ call[c].pc \in {"expired", "dead-letter", "crashed"}
    \/ Cardinality({d \in Pending \cap call[c].seen : message[d].from = message[c].from}) < MaxOutstanding

\* The journal as its senders keep it.
LedgerKept == SupersededHasSuccessor /\ KeyHeldUnlessBlind /\ BacklogHeldUnlessBlind
=============================================================================
