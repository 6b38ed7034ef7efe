--------------------------- MODULE ClaudeStartup ---------------------------
(***************************************************************************)
(* The start of a Claude pane (tmux.ts, unblockClaudePane and what it      *)
(* calls): the launcher captures the pane at every tick, confirms the      *)
(* modals that Claude shows and probes a composer that seems to hold a     *)
(* suggestion, because a draft of a human looks the same while its cursor  *)
(* is at the start.  Keys reach Claude after a while and may be dropped by *)
(* a modal that does not listen yet; the only acknowledgement is the time  *)
(* of the last output of the window, in whole seconds.  A tick is the poll *)
(* delay; the numbers of polls are scaled down together.                   *)
(***************************************************************************)
EXTENDS Integers, Sequences

CONSTANTS Modals,         \* sequences of modals that Claude may show
          PerSecond,      \* polls in one second
          Settle,         \* CLAUDE_MODAL_SETTLE_INTERVALS
          MaxAttempts,    \* CLAUDE_DEV_CHANNEL_CONFIRM_MAX_ATTEMPTS
          MaxPolls, Grace, HardMax, ProbePolls, RestoreAttempts,
          Lag,            \* Claude has read a key before this many ticks are over
          MaxHuman, MaxDrops, MaxTicks

VARIABLES now,     \* ticks
          left,    \* modals still to come, the first one on screen
          shown,   \* FALSE until Claude paints its first screen
          sel,     \* the selected row of the modal: "confirm" or "exit"
          text,    \* of the composer: "", "tip", "draft"
          cursor,  \* "home" or "end"
          act,     \* second of the last output
          keys,    \* sent and not yet read: [key, on, due]
          client,  \* a human has attached
          human, drops,
          pc, mem, \* the launcher
          awake,   \* it has not slept since it looked last
          astray   \* a key took effect on another screen than it was sent for
vars == <<now, left, shown, sel, text, cursor, act, keys, client, human, drops, pc, mem,
          awake, astray>>
tui == <<left, shown, sel, text, cursor, act, human, drops, astray, client>>

Second(t) == t \div PerSecond
Screen == IF ~shown THEN "blank" ELSE IF left = << >> THEN "composer" ELSE Head(left)
NotSeen == [act |-> -1, n |-> 0]
Fresh == [attempt |-> 0, limit |-> MaxPolls, last |-> <<"", 0>>, trusted |-> FALSE,
          dev |-> 0, pre |-> NotSeen, retry |-> NotSeen, still |-> FALSE, sent |-> -1,
          nav |-> FALSE, sure |-> FALSE, row |-> "", stab |-> NotSeen,
          base |-> 0, poll |-> 0, tries |-> 0]
Verdicts == {"ready", "draft", "indeterminate", "refused", "timeout"}

TypeOK ==
  /\ now \in 0..MaxTicks /\ act \in 0..Second(MaxTicks)
  /\ shown \in BOOLEAN /\ sel \in {"confirm", "exit"} /\ client \in BOOLEAN
  /\ text \in {"", "tip", "draft"} /\ cursor \in {"home", "end"}
  /\ human \in 0..MaxHuman /\ drops \in 0..MaxDrops /\ astray \in BOOLEAN
  /\ awake \in BOOLEAN
  /\ pc \in {"poll", "boundary", "ack", "home", "homed"} \cup Verdicts
  /\ mem.dev \in 0..MaxAttempts /\ mem.attempt \in 0..HardMax

Init ==
  /\ now = 0 /\ act = 0 /\ shown = FALSE /\ keys = << >> /\ client = FALSE
  /\ left \in Modals /\ sel \in {"confirm", "exit"}
  /\ text \in {"", "tip"} /\ cursor = "home"
  /\ human = 0 /\ drops = 0 /\ astray = FALSE
  /\ pc = "poll" /\ mem = Fresh /\ awake = TRUE

(***************************************************************************)
(* What a capture shows: inspectClaudeInput, readClaudeComposer.           *)
(***************************************************************************)
ReadyEmpty == Screen = "composer" /\ text = ""
LooksSuggested == Screen = "composer" /\ text # "" /\ cursor = "home"
\* matchesClaudeSuggestionSnapshot
Matches == Screen = "composer" /\ text # "" /\ ~client

Send(key) == keys' = Append(keys, [key |-> key, on |-> Screen, due |-> now + Lag])

\* observeClaudeModal, isClaudeModalSettled
Observe(s) == IF s.n = 0 \/ s.act # act THEN [act |-> act, n |-> 1] ELSE [s EXCEPT !.n = @ + 1]
Settled(s) == s.n > Settle

\* A modal not seen before, or with new output, extends the limit of polls.
Smaller(a, b) == IF a < b THEN a ELSE b
Larger(a, b) == IF a > b THEN a ELSE b
Progress(m) ==
  IF Screen \in {"blank", "composer"} \/ m.last = <<Screen, act>> THEN m
  ELSE [m EXCEPT !.last = <<Screen, act>>,
          !.limit = Smaller(HardMax, Larger(m.limit, m.attempt + 1 + Grace))]
\* Another modal resets what is known of the development-channel one.
ForgetDev(m) ==
  [m EXCEPT !.dev = 0, !.pre = NotSeen, !.retry = NotSeen, !.still = FALSE, !.sent = -1]

\* One turn of the loop ends: mem, where to, and the key that was sent.
Turn(m, next, key) ==
  /\ mem' = [m EXCEPT !.attempt = @ + 1]
  /\ pc' = IF next = "asleep" THEN "poll" ELSE next
  /\ awake' = (next # "asleep")
  /\ IF key = "" THEN UNCHANGED keys ELSE Send(key)

\* Mutant: a retry that does not look at the output since the last Enter.
DevChannel_Blind(m) ==
  IF sel = "exit" THEN Turn(m, "refused", "")
  ELSE IF m.dev >= MaxAttempts THEN Turn(m, "refused", "")
  ELSE Turn([m EXCEPT !.dev = @ + 1, !.sent = act], "asleep", "Enter")

DevChannel(m) ==
  IF sel = "exit" THEN Turn(m, "refused", "")
  ELSE IF m.dev = 0
  THEN LET s == Observe(m.pre)
       IN IF ~Settled(s) THEN Turn([m EXCEPT !.pre = s], "asleep", "")
          ELSE Turn([m EXCEPT !.dev = 1, !.pre = NotSeen, !.retry = NotSeen, !.sent = act],
                    "poll", "Enter")
  ELSE IF m.still \/ act # m.sent THEN Turn([m EXCEPT !.still = TRUE], "asleep", "")
  ELSE LET s == Observe(m.retry)
       IN IF ~Settled(s) THEN Turn([m EXCEPT !.retry = s], "asleep", "")
          ELSE IF m.dev >= MaxAttempts THEN Turn(m, "refused", "")
          ELSE Turn([m EXCEPT !.dev = @ + 1, !.retry = NotSeen, !.sent = act], "poll", "Enter")
Bypass(m) ==
  IF m.sure \/ (m.nav /\ sel # "confirm") THEN Turn(m, "asleep", "")
  ELSE IF m.nav THEN Turn([m EXCEPT !.sure = TRUE], "poll", "Enter")
  ELSE LET s == Observe(IF sel = m.row THEN m.stab ELSE NotSeen)
           seen == [m EXCEPT !.row = sel, !.stab = s]
       IN IF ~Settled(s) THEN Turn(seen, "asleep", "")
          ELSE IF sel = "exit" THEN Turn([seen EXCEPT !.nav = TRUE], "poll", "Down")
          ELSE Turn([seen EXCEPT !.sure = TRUE], "poll", "Enter")

Trust(m) ==
  IF m.trusted THEN Turn(m, "asleep", "")
  ELSE Turn([m EXCEPT !.trusted = TRUE], "asleep", "Enter")

\* The loop of unblockClaudePane.
Poll ==
  /\ pc = "poll" /\ awake /\ mem.attempt < mem.limit
  /\ LET m == Progress(mem)
     IN \/ ReadyEmpty /\ Turn(m, "ready", "")
        \/ /\ LooksSuggested
           /\ IF client THEN Turn(m, "refused", "")
              ELSE Turn([m EXCEPT !.base = act, !.poll = 0], "boundary", "")
        \/ /\ ~ReadyEmpty /\ ~LooksSuggested
           /\ CASE Screen = "dev"    -> DevChannel(m)
                [] Screen = "bypass" -> Bypass(ForgetDev(m))
                [] Screen = "trust"  -> Trust(ForgetDev(m))
                [] OTHER -> Turn([m EXCEPT !.still = m.dev > 0], "asleep", "")
  /\ UNCHANGED <<now, tui>>

OutOfPolls ==
  /\ pc = "poll" /\ awake /\ mem.attempt >= mem.limit
  /\ pc' = IF mem.dev > 0 \/ mem.nav \/ mem.sure THEN "refused" ELSE "timeout"
  /\ UNCHANGED <<now, tui, keys, mem, awake>>

(***************************************************************************)
(* probeClaudeSuggestedComposer: wait for a quiet second, press End, wait  *)
(* for output and look where the cursor is.                                *)
(***************************************************************************)
Waits == mem' = [mem EXCEPT !.poll = @ + 1] /\ awake' = FALSE /\ UNCHANGED <<pc, keys>>
EndsWith(v) == pc' = v /\ UNCHANGED <<mem, keys, awake>>
Presses(key, next) ==
  Send(key) /\ pc' = next /\ mem' = [mem EXCEPT !.base = act, !.poll = 0] /\ awake' = FALSE
ToRestore(tries) ==
  pc' = "home" /\ mem' = [mem EXCEPT !.base = act, !.poll = 0, !.tries = tries]
  /\ UNCHANGED <<keys, awake>>

\* waitForClaudeActivityBoundary
Boundary ==
  /\ pc = "boundary" /\ awake
  /\ IF mem.poll >= ProbePolls THEN EndsWith("refused")
     ELSE IF Second(now) <= mem.base THEN Waits
     ELSE IF ~Matches \/ cursor # "home" THEN EndsWith("refused")
     ELSE IF act # mem.base
     THEN mem' = [mem EXCEPT !.base = act, !.poll = @ + 1] /\ UNCHANGED <<pc, keys, awake>>
     ELSE Presses("End", "ack")
  /\ UNCHANGED <<now, tui>>

\* Mutant: an End counts as done at the first look.
Acknowledged_AtOnce(base) == TRUE
Acknowledged(base) == act > base

Ack ==
  /\ pc = "ack" /\ awake
  /\ IF ~Matches THEN EndsWith("indeterminate")
     ELSE IF Acknowledged(mem.base)
     THEN IF cursor = "home" THEN EndsWith("ready") ELSE ToRestore(0)
     ELSE IF mem.poll < ProbePolls THEN Waits
     ELSE IF cursor = "home" THEN EndsWith("indeterminate") ELSE ToRestore(0)
  /\ UNCHANGED <<now, tui>>

\* restoreClaudeDraftCursor: Home, after a quiet second if there is one.
Restore ==
  /\ pc = "home" /\ awake
  /\ IF mem.tries >= RestoreAttempts \/ ~Matches \/ cursor = "home" THEN EndsWith("draft")
     ELSE IF mem.poll < ProbePolls /\ Second(now) <= mem.base THEN Waits
     ELSE IF mem.poll < ProbePolls /\ act # mem.base
     THEN mem' = [mem EXCEPT !.base = act, !.poll = @ + 1] /\ UNCHANGED <<pc, keys, awake>>
     ELSE Presses("Home", "homed")
  /\ UNCHANGED <<now, tui>>

Restored ==
  /\ pc = "homed" /\ awake
  /\ IF ~Matches THEN EndsWith("draft")
     ELSE IF act <= mem.base /\ mem.poll < ProbePolls THEN Waits
     ELSE IF cursor = "home" THEN EndsWith("draft") ELSE ToRestore(mem.tries + 1)
  /\ UNCHANGED <<now, tui>>

(***************************************************************************)
(* Claude and the human.                                                   *)
(***************************************************************************)
Paints == act' = Second(now)
Unseen == UNCHANGED <<now, keys, client, human, drops, pc, mem, awake, astray>>

FirstScreen == ~shown /\ shown' = TRUE /\ Paints /\ Unseen /\ UNCHANGED <<left, sel, text, cursor>>

\* Enter takes a modal with it; the next one has either row selected.
NextModal == left' = Tail(left) /\ sel' \in {"confirm", "exit"}

ReadKey ==
  /\ keys # << >> /\ shown
  /\ keys' = Tail(keys)
  /\ LET k == Head(keys)
     IN /\ astray' = (astray \/ (k.on # Screen /\ human = 0))
        /\ CASE left # << >> /\ k.key = "Enter" -> NextModal /\ UNCHANGED <<text, cursor>>
             [] left # << >> /\ k.key = "Down"  -> sel' = "confirm" /\ UNCHANGED <<left, text, cursor>>
             [] left = << >> /\ k.key = "End" /\ text = "draft" ->
                  cursor' = "end" /\ UNCHANGED <<left, sel, text>>
             [] left = << >> /\ k.key = "Home" -> cursor' = "home" /\ UNCHANGED <<left, sel, text>>
             [] OTHER -> UNCHANGED <<left, sel, text, cursor>>
  /\ Paints
  /\ UNCHANGED <<now, shown, client, human, drops, pc, mem, awake>>

\* A modal that is painted and does not listen yet loses the key.
DropKey ==
  /\ keys # << >> /\ shown /\ left # << >> /\ drops < MaxDrops
  /\ keys' = Tail(keys) /\ drops' = drops + 1
  /\ UNCHANGED <<now, left, shown, sel, text, cursor, act, client, human, pc, mem, awake, astray>>

\* A human attaches, acts and detaches; the visit lasts over one poll at
\* least, and no key of the launcher is on its way while the human types.
Starting == pc \notin Verdicts
Attach ==
  /\ Starting /\ awake /\ ~client /\ human < MaxHuman
  /\ client' = TRUE /\ human' = human + 1 /\ Paints
  /\ UNCHANGED <<now, left, shown, sel, text, cursor, keys, drops, pc, mem, awake, astray>>
HumanActs ==
  /\ Starting /\ client /\ shown /\ keys = << >>
  /\ IF left # << >> THEN NextModal /\ UNCHANGED <<text, cursor>>
     ELSE /\ text' = "draft" /\ cursor' \in {"home", "end"} /\ UNCHANGED <<left, sel>>
  /\ Paints
  /\ UNCHANGED <<now, shown, keys, client, human, drops, pc, mem, awake, astray>>
Detach ==
  /\ client /\ ~awake /\ client' = FALSE
  /\ UNCHANGED <<now, left, shown, sel, text, cursor, act, keys, human, drops, pc, mem, awake, astray>>

\* Time passes while the launcher sleeps, and not over a key that is due.
Due == IF keys = << >> THEN FALSE ELSE now + 1 >= Head(keys).due
Tick ==
  /\ now < MaxTicks /\ Starting /\ ~awake /\ ~Due
  /\ now' = now + 1 /\ awake' = TRUE
  /\ UNCHANGED <<tui, keys, pc, mem>>

Next ==
  \/ Poll \/ OutOfPolls \/ Boundary \/ Ack \/ Restore \/ Restored
  \/ FirstScreen \/ ReadKey \/ DropKey \/ Attach \/ HumanActs \/ Detach \/ Tick
Spec == Init /\ [][Next]_vars

\* A key of the launcher takes effect on the screen it was sent for, as long
\* as no human has acted: a retried Enter never reaches the next dialog, whose
\* selected row may be "No, exit" (unblockClaudePane).
NoKeyAstray == ~astray

\* The bootstrap is pasted only into a composer that holds no draft, though a
\* draft looks like the suggestion (probeClaudeSuggestedComposer).
DraftKept == pc = "ready" => text # "draft"

\* Both of the above: a start presses no key on the wrong screen and pastes over nothing.
StartupKept == NoKeyAstray /\ DraftKept
=============================================================================
