---------------------------- MODULE HelperRouting ----------------------------
(***************************************************************************)
(* From a tool call of an agent, or a route_task packet, to the helper     *)
(* that serves it.  The hook of an agent classifies the call, looks        *)
(* whether its tier is ready, and then denies the call and queues a job in *)
(* its stead; the Governess resolves the worktree of the job, asks the     *)
(* same questions again in its own words, and routes it or gives it back.  *)
(* A command is the sequence of its stages, read by the lexer of the hook; *)
(* a path is a pair: where it is rooted, and its name.  A plan is a set,   *)
(* the order of its steps being that of HelperConversation.                *)
(***************************************************************************)
EXTENDS Naturals, FiniteSets, Sequences

CONSTANTS Files, Dirs,     \* the names that a scope may have
          Governed,        \* a name that no scope may have
          Operands, Cuts,  \* the operands of a stage, and what a pipe makes of its output
          MaxScopes,       \* MAX_SCOPES: 4
          MaxCount,        \* MAX_LINE_COUNT_FILES: 8
          MaxStages,       \* MAX_READ_PLAN_STEPS: 8
          MaxPlan,         \* MAX_READ_PLAN_SCOPES: 12
          MaxWrites,       \* MAX_UTILITY_EDIT_WRITE_SCOPES: 2
          NannyScopes,     \* NANNY_MAX_UNPROFILED_READ_SCOPES, and the steps of a small plan: 2
          Configured       \* the tiers that are switched on

VARIABLES ask,        \* the command or the packet
          call,       \* what becomes of the call: asked, runs, denied, rejected
          request,    \* the job in the queue
          lane,       \* the tier the hook looked at
          evidence,   \* what usage.jsonl says of that tier
          broke,      \* whether the tier failed a job since
          job, why, tier
vars == <<ask, call, request, lane, evidence, broke, job, why, tier>>

Least == [inspect |-> 0, status |-> 0, diff |-> 1, rg |-> 1, grep |-> 1, numbered |-> 1, ls |-> 0,
          cat |-> 1, slice |-> 1, wc |-> 1, check |-> 1]
Most == [inspect |-> 0, status |-> 0, diff |-> MaxScopes, rg |-> MaxScopes, grep |-> MaxScopes,
         numbered |-> 1, ls |-> MaxScopes, cat |-> MaxScopes, slice |-> 1, wc |-> MaxCount, check |-> MaxScopes]
\* What git, rg, grep, sed, wc and the test runners do; grep -n "" (numbered) prints a file.
Profile == [inspect |-> "git-inspect", status |-> "git-status", diff |-> "git-diff", rg |-> "search",
            grep |-> "search", numbered |-> "read-plan", ls |-> "file-list", cat |-> "read-plan",
            slice |-> "file-read", wc |-> "none", check |-> "focused-check"]
Grammar == DOMAIN Profile
Stages == [cmd : Grammar \cup {"label", "other"}, names : Operands, cut : Cuts]

RoutingConstants ==
  /\ {MaxScopes, MaxCount, MaxStages, MaxPlan, MaxWrites, NannyScopes} \subseteq Nat \ {0}
  /\ Cuts \subseteq SUBSET {"lines", "stderr", "present"}
  /\ Operands \subseteq SUBSET (Files \cup Dirs \cup {Governed}) /\ Governed \notin Files \cup Dirs

NoPath == <<"none", "none">>
NoCheck == [cwd |-> NoPath, argv |-> {}]
Root == <<"rel", ".">>
Rel(names) == {<<"rel", n>> : n \in names}

-----------------------------------------------------------------------------
(* classifyDelegationIntent: what the hook makes of a command.             *)

\* safeScope: a governed path, one through a link and one outside have no scope; ScopePath has the walk.
Fit(s) == s.names \subseteq CASE s.cmd \in {"numbered", "cat", "slice", "wc", "check"} -> Files
                              [] s.cmd = "ls" -> Dirs
                              [] OTHER -> Files \cup Dirs
InGrammar(s) ==
  /\ s.cmd \in Grammar
  /\ Cardinality(s.names) \in Least[s.cmd]..Most[s.cmd] /\ Fit(s)

ProfileOf(s) == IF s.cmd = "ls" /\ Cardinality(s.names) > 1 THEN "read-plan" ELSE Profile[s.cmd]
Step(i, profile, scopes) ==
  [at |-> i, profile |-> profile, scopes |-> scopes, read |-> NoPath, check |-> NoCheck, git |-> FALSE, out |-> {}]
\* classifyGit, classifyRg, ..., classifyFocusedCheck: a request without its output boundary.
RequestOf(i, s) ==
  LET paths == Rel(s.names)
      checked == [cwd |-> Root, argv |-> paths]
      scopes == IF s.cmd = "check" THEN {Root} \cup paths ELSE IF paths = {} THEN {Root} ELSE paths
  IN  [kind |-> IF s.cmd = "check" THEN "command" ELSE "inspect", mode |-> "none",
       profile |-> ProfileOf(s), scopes |-> scopes, count |-> Cardinality(scopes), writes |-> {},
       caps |-> IF s.cmd = "check" THEN {"bounded-command", "focused-verify"} ELSE {"inspect"},
       read |-> IF s.cmd = "slice" THEN CHOOSE p \in paths : TRUE ELSE NoPath,
       check |-> IF s.cmd = "check" THEN checked ELSE NoCheck,
       git |-> s.cmd = "inspect", out |-> {},
       plan |-> IF ProfileOf(s) # "read-plan" THEN {}
                ELSE {Step(i, IF s.cmd = "ls" THEN "file-list" ELSE "file-read", {p}) : p \in paths},
       terms |-> "low", separable |-> TRUE]
\* withCompoundOutputBoundary
Cut(r, s) == [r EXCEPT !.out = s.cut]

\* classifyReadPlanSegment: what a stage adds to a plan.
InPlan(s) ==
  /\ InGrammar(s) /\ ProfileOf(s) # "none"
  /\ ProfileOf(s) = "read-plan" => s.cut = {}
StepsOf(i, s) ==
  LET r == Cut(RequestOf(i, s), s)
  IN  IF r.profile = "read-plan" THEN r.plan
      ELSE {[Step(i, r.profile, r.scopes) EXCEPT !.read = r.read, !.check = r.check, !.git = r.git, !.out = r.out]}

Scopes(plan) == UNION {st.scopes : st \in plan}
Checks(plan) == \E st \in plan : st.profile = "focused-check"
Working(stages) == {i \in DOMAIN stages : stages[i].cmd # "label"}
PlanOf(stages) == UNION {StepsOf(i, stages[i]) : i \in Working(stages)}
\* classifyReadPlan, for a command of two stages or more.
IsPlan(stages) ==
  /\ \A i \in Working(stages) : InPlan(stages[i])
  /\ Cardinality(Working(stages)) \in 1..MaxStages
  /\ Cardinality(PlanOf(stages)) <= MaxPlan /\ Cardinality(Scopes(PlanOf(stages))) <= MaxPlan
Planned(stages) ==
  LET plan == PlanOf(stages)
      i == CHOOSE i \in Working(stages) : TRUE
  IN  [RequestOf(i, stages[i]) EXCEPT
         !.kind = IF Checks(plan) THEN "command" ELSE "inspect", !.profile = "read-plan", !.plan = plan,
         !.scopes = Scopes(plan), !.count = Cardinality(Scopes(plan)),
         !.caps = IF Checks(plan) THEN {"inspect", "bounded-command", "focused-verify"} ELSE {"inspect"},
         !.read = NoPath, !.check = NoCheck, !.git = FALSE]

\* classifyBash
Eligible(stages) == IF Len(stages) > 1 THEN IsPlan(stages) ELSE InGrammar(stages[1])
Classified(stages) == IF Len(stages) > 1 THEN Planned(stages) ELSE Cut(RequestOf(1, stages[1]), stages[1])

-----------------------------------------------------------------------------
(* Paths: rooted by the hook, resolved by the Governess.                   *)

\* Every path of a request, and of a step, but the operands of its check.
Moved(from, home, r) ==
  LET G(p) == IF p # NoPath /\ p[1] \in from THEN <<home, p[2]>> ELSE p
      M(s) == [s EXCEPT !.scopes = {G(p) : p \in @}, !.read = G(@), !.check.cwd = G(@)]
  IN  [M(r) EXCEPT !.writes = {G(p) : p \in @}, !.plan = {M(st) : st \in @}]
Operate(home, r) ==
  LET M(s) == IF s.profile = "focused-check" THEN [s EXCEPT !.check.argv = {<<home, p[2]>> : p \in @}] ELSE s
  IN  [M(r) EXCEPT !.plan = {M(st) : st \in @}]

\* rootDelegationRequest: a command of a linked worktree.
Rooted(r, where) ==
  IF where = "run" THEN r ELSE Moved({"rel"}, where, r)

Named(r) == ({r.read, r.check.cwd} \cup r.scopes \cup r.writes
             \cup UNION {{st.read, st.check.cwd} \cup st.scopes : st \in r.plan}) \ {NoPath}
Operated(r) ==
  UNION {s.check.argv : s \in {x \in {[profile |-> r.profile, check |-> r.check]}
                                     \cup {[profile |-> st.profile, check |-> st.check] : st \in r.plan} :
                               x.profile = "focused-check"}}
Home(p) == IF p[1] = "rel" THEN "run" ELSE p[1]
AllRelative(r) == \A p \in Named(r) : p[1] = "rel"
\* validateExactEditScopes
ExactEdit(r) == r.kind = "edit" => \A p \in r.scopes \cup r.writes : p[2] \in Files
\* resolveUtilityRequestWorkspace: all relative, or all of one registered worktree.
Resolves(r) ==
  /\ AllRelative(r) \/ \E home \in {"run", "linked"} : {Home(p) : p \in Named(r) \cup Operated(r)} = {home}
  /\ ExactEdit(r)
\* Mutant: the operands of a check stay as they were spelled.
Resolved_Paths(r) ==
  IF AllRelative(r) THEN r ELSE Moved({"run", "linked"}, "rel", r)
Resolved(r) ==
  IF AllRelative(r) THEN r ELSE Operate("rel", Moved({"run", "linked"}, "rel", r))

-----------------------------------------------------------------------------
(* utilityRequestIsBounded: what a helper can be held to.                  *)

Kinds == {"inspect", "edit", "command", "review", "design", "authority"}
Audit(r) == r.kind = "review" /\ r.mode = "audit"
OutputBounded(out, profile) ==
  out = {} \/ (profile # "none" /\ ("present" \in out => profile = "focused-check"))
ReadBounded(s) == s.read = NoPath \/ s.read \in s.scopes
CheckBounded(s) ==
  /\ s.check.cwd # NoPath /\ Cardinality(s.check.argv) \in 1..MaxScopes /\ s.check.argv \subseteq s.scopes
  /\ s.scopes \subseteq s.check.argv \cup {s.check.cwd}
StepBounded(s) ==
  /\ Cardinality(s.scopes) \in 1..MaxScopes
  /\ OutputBounded(s.out, s.profile) /\ ReadBounded(s)
  /\ IF s.profile = "focused-check" THEN ~s.git /\ CheckBounded(s)
     ELSE /\ s.check = NoCheck /\ (s.git <=> s.profile = "git-inspect")
          /\ s.read # NoPath => s.profile = "file-read"
          /\ s.profile \in {"git-inspect", "git-status"} => s.scopes = {Root}
PlanBounded(r) ==
  IF r.plan = {} THEN r.profile # "read-plan"
  ELSE /\ r.profile = "read-plan" /\ (r.kind \in {"inspect", "command"} \/ Audit(r))
       /\ r.check = NoCheck /\ ~r.git /\ r.out = {} /\ r.read = NoPath
       /\ Cardinality(r.plan) <= MaxPlan /\ \A st \in r.plan : StepBounded(st)
       /\ Checks(r.plan) => r.kind = "command" \/ Audit(r)
       /\ Scopes(r.plan) = r.scopes /\ Cardinality(r.scopes) = r.count /\ r.count <= MaxPlan
\* utilityExecutionContractIsBounded
Contract(r) ==
  /\ r.git <=> r.profile = "git-inspect"
  /\ ReadBounded(r) /\ OutputBounded(r.out, r.profile) /\ PlanBounded(r)
  /\ r.mode # "none" => r.kind = "review"
  /\ r.read # NoPath <=> r.profile = "file-read"
  /\ IF r.profile = "focused-check" THEN (r.kind = "command" \/ Audit(r)) /\ CheckBounded(r)
     ELSE r.check = NoCheck
EditBounded(r) ==
  /\ r.count \in 1..MaxScopes /\ Cardinality(r.writes) \in 1..MaxWrites /\ r.writes \subseteq r.scopes
  /\ "scoped-edit" \in r.caps /\ r.profile = "none" /\ r.out = {}
Bounded(r) ==
  /\ Contract(r)
  /\ CASE r.kind = "inspect" -> r.scopes # {} /\ r.writes = {}
       [] r.kind = "edit" -> EditBounded(r)
       [] r.kind = "command" -> /\ r.profile = "focused-check" \/ Checks(r.plan)
                                /\ r.scopes # {} /\ r.writes = {}
       [] r.kind = "review" -> Audit(r) /\ r.count >= 1 /\ r.writes = {} /\ "inspect" \in r.caps
       [] OTHER -> FALSE

-----------------------------------------------------------------------------
(* classifyUtilityExecution, and the tiers.                                *)

\* directReadPlanCall
DirectStep(s) ==
  \/ s.profile = "focused-check" /\ s.check # NoCheck
  \/ s.profile = "file-read" /\ s.read # NoPath
  \/ s.profile = "file-list" /\ Cardinality(s.scopes) = 1
  \/ s.profile = "git-inspect" /\ s.git
  \/ s.profile = "git-status" /\ s.scopes = {Root}
  \/ s.profile = "git-diff"
Direct(r) ==
  \/ r.profile = "file-read" /\ r.read # NoPath
  \/ r.profile = "focused-check" /\ r.check # NoCheck
  \/ r.profile = "git-inspect" /\ r.git
  \/ r.profile = "read-plan" /\ r.plan # {} /\ \A st \in r.plan : DirectStep(st)
Small(r) ==
  /\ r.kind = "inspect" /\ r.terms = "low" /\ r.writes = {} /\ "scoped-edit" \notin r.caps
  /\ r.count <= NannyScopes
  /\ IF r.profile = "none" THEN r.caps = {"inspect"} /\ r.count >= 1 /\ r.out = {}
     ELSE r.profile = "read-plan" => Cardinality(r.plan) <= NannyScopes
TierOf(r) ==
  IF Audit(r) THEN "au-pair" ELSE IF Direct(r) THEN "direct" ELSE IF Small(r) THEN "nanny" ELSE "au-pair"
Capable(t, r) == t = "nanny" => "scoped-edit" \notin r.caps
\* utilityInferenceCircuitOpen: the last job of the tier failed within the minute.
Healthy(t) == t = "direct" \/ (t \in Configured /\ evidence # "failed")

\* routeUtilityRequest, in the order of its questions.
Protected(r) == \E p \in Named(r) : p[2] = Governed \/ p[1] # "rel"
Target(r, conflict) ==
  LET to(t, reason) == [to |-> t, why |-> reason]
  IN  CASE r.kind = "review" /\ ~Audit(r) -> to("peer", "review")
        [] r.kind \in {"authority", "design"} -> to("escalate", "authority-needs-human")
        [] ~Bounded(r) -> to("driver", IF Protected(r) THEN "protected-scope" ELSE "request-not-bounded")
        [] r.terms = "risky" -> to("driver", "risk-not-low")
        [] r.terms = "authority" -> to("escalate", "forbidden-authority")
        [] Protected(r) -> to("driver", "protected-scope")
        [] conflict -> to("driver", "write-conflict")
        [] ~r.separable -> to("driver", "work-not-separable")
        [] ~Healthy(TierOf(r)) -> to("driver", "utility-unavailable")
        [] ~Capable(TierOf(r), r) -> to("driver", "capability-unavailable")
        [] OTHER -> to("routed", "utility-eligible")

-----------------------------------------------------------------------------
(* What is asked: a command, or a packet with one field out of the way.    *)

Commands ==
  LET known == {s \in Stages : InGrammar(s)}
      label == [cmd |-> "label", names |-> {}, cut |-> {}]
  IN  [kind : {"command"}, where : {"run", "linked", "foreign"}, stages : {<<s>> : s \in Stages}]
      \cup [kind : {"command"}, where : {"run", "linked"},
            stages : {<<s, t>> : s \in known \cup {label}, t \in known}]

\* A packet names its paths from the root of the run, or by where they are.
Homed(r, home) == IF home = "rel" THEN r ELSE Operate(home, Moved({"rel"}, home, r))
Samples ==
  LET reads == {Classified(<<s>>) : s \in {s \in Stages : InGrammar(s)}}
      plans == {Classified(<<s, t>>) : s, t \in {s \in Stages : InPlan(s) /\ s.cut = {} /\ Cardinality(s.names) <= 1}}
      edits == {[r EXCEPT !.kind = "edit", !.caps = @ \cup {"scoped-edit"}, !.writes = w] :
                  r \in {r \in reads : r.profile = "none"}, w \in SUBSET Rel(Files)}
  IN  reads \cup plans \cup edits
\* A plan whose steps also name f by where it is.
Respelled(r, f) ==
  LET plan == {[st EXCEPT !.scopes = @ \cup {<<"run", f>>}] : st \in r.plan}
  IN  [r EXCEPT !.plan = plan, !.scopes = Scopes(plan), !.count = Cardinality(Scopes(plan))]
Spoilt(r) ==
  {r} \cup {Respelled(r, f) : f \in Files} \cup {[r EXCEPT !.kind = k] : k \in Kinds} \cup {[r EXCEPT !.kind = "review", !.mode = "audit"]}
      \cup {[r EXCEPT !.profile = p] : p \in {"none", "search", "read-plan", "focused-check", "file-read"}}
      \cup {[r EXCEPT !.read = NoPath], [r EXCEPT !.check = NoCheck], [r EXCEPT !.git = ~@], [r EXCEPT !.plan = {}]}
      \cup {[r EXCEPT !.out = c] : c \in Cuts} \cup {[r EXCEPT !.writes = Rel(f)] : f \in Operands}
      \cup {[r EXCEPT !.scopes = @ \cup {p}, !.count = Cardinality(r.scopes \cup {p})] :
              p \in {<<home, n>> : home \in {"rel", "run", "linked"}, n \in Files \cup {Governed}}}
      \cup {[r EXCEPT !.terms = t] : t \in {"risky", "authority"}} \cup {[r EXCEPT !.separable = FALSE]}
Packets ==
  UNION {[kind : {"packet"}, where : {home}, packet : UNION {Spoilt(Homed(r, home)) : r \in Samples}] :
           home \in {"rel", "run", "linked"}}

NoRequest == [kind |-> "none"]
Init ==
  /\ ask \in Commands \cup Packets
  /\ call = "asked" /\ request = NoRequest /\ lane = "none" /\ job = "none" /\ why = "none" /\ tier = "none"
  /\ evidence \in {"none", "ok"} /\ broke = FALSE

-----------------------------------------------------------------------------
(* handlePreToolDelegation                                                 *)

Wanted == Rooted(Classified(ask.stages), ask.where)
\* readUtilityDispatchReadiness: the Governess lives, and the tier has lately answered.
Ready(t, live) == live /\ (t = "direct" \/ evidence = "ok")
Delegable(mode, live) ==
  /\ mode = "enforce" /\ ask.where # "foreign" /\ Eligible(ask.stages)
  /\ TierOf(Wanted) \in Configured \cup {"direct"} /\ Ready(TierOf(Wanted), live)

Retain(mode, live) ==
  /\ call = "asked" /\ ask.kind = "command" /\ ~Delegable(mode, live)
  /\ call' = "runs"
  /\ UNCHANGED <<ask, request, lane, evidence, broke, job, why, tier>>
\* appendUtilityRouteRequest throws.
FailOpen(live) ==
  /\ call = "asked" /\ ask.kind = "command" /\ Delegable("enforce", live)
  /\ call' = "runs"
  /\ UNCHANGED <<ask, request, lane, evidence, broke, job, why, tier>>
\* The telemetry after it may throw too: then the call runs and the job stays.
Delegate(live) ==
  /\ call = "asked" /\ ask.kind = "command" /\ Delegable("enforce", live)
  /\ request' = Wanted /\ lane' = TierOf(Wanted) /\ job' = "queued"
  /\ call' \in {"denied", "runs"}
  /\ UNCHANGED <<ask, evidence, broke, why, tier>>

(* routeTask, with assertRouteTaskIsBounded.                               *)
Admitted(r) == r.kind \in {"design", "authority"} \/ (r.kind = "review" /\ r.mode = "none") \/ Bounded(r)
Submit ==
  /\ call = "asked" /\ ask.kind = "packet" /\ Admitted(ask.packet)
  /\ request' = ask.packet /\ job' = "queued" /\ call' = "admitted"
  /\ UNCHANGED <<ask, lane, evidence, broke, why, tier>>
Reject ==
  /\ call = "asked" /\ ask.kind = "packet" /\ ~Admitted(ask.packet)
  /\ call' = "rejected"
  /\ UNCHANGED <<ask, request, lane, evidence, broke, job, why, tier>>

-----------------------------------------------------------------------------
(* The Governess: processPendingUtilityJob.                                *)

Located(r) == r.kind \in {"design", "authority"} \/ Resolves(r)
Mismatch ==
  /\ job = "queued" /\ ~Located(request)
  /\ job' = "driver" /\ why' = "protected-scope"
  /\ UNCHANGED <<ask, call, request, lane, evidence, broke, tier>>
Route(conflict) ==
  /\ job = "queued" /\ Located(request)
  /\ conflict => request.writes # {}
  /\ LET r == Resolved(request)
         d == Target(r, conflict)
     IN  /\ job' = d.to /\ why' = d.why
         /\ tier' = IF d.to = "routed" THEN TierOf(r) ELSE tier
  /\ UNCHANGED <<ask, call, request, lane, evidence, broke>>

(* usage.jsonl: what other jobs leave there, and the clock.                *)
Pending == job \in {"none", "queued"} /\ call \in {"asked", "denied"} /\ ask.kind = "command"
Answers ==
  /\ Pending /\ evidence # "ok"
  /\ evidence' = "ok"
  /\ UNCHANGED <<ask, call, request, lane, broke, job, why, tier>>
Fails ==
  /\ Pending /\ evidence' = "failed" /\ broke' = (job = "queued")
  /\ UNCHANGED <<ask, call, request, lane, job, why, tier>>
\* The lease of an answer ends, and the minute after a failure.
Ages ==
  /\ Pending /\ evidence \in {"ok", "failed"}
  /\ evidence' = IF evidence = "ok" THEN "old" ELSE "cooled"
  /\ UNCHANGED <<ask, call, request, lane, broke, job, why, tier>>

Next ==
  \/ \E live \in BOOLEAN : (\E mode \in {"off", "observe", "enforce"} : Retain(mode, live)) \/ FailOpen(live) \/ Delegate(live)
  \/ Submit \/ Reject \/ Mismatch
  \/ \E conflict \in BOOLEAN : Route(conflict)
  \/ Answers \/ Fails \/ Ages
Spec == Init /\ [][Next]_vars

-----------------------------------------------------------------------------
TypeOK ==
  /\ call \in {"asked", "runs", "denied", "admitted", "rejected"}
  /\ job \in {"none", "queued", "routed", "driver", "peer", "escalate"}
  /\ evidence \in {"none", "ok", "old", "failed", "cooled"} /\ broke \in BOOLEAN
  /\ {lane, tier} \subseteq {"none", "direct", "nanny", "au-pair"}
  /\ request = NoRequest \/ request.kind \in Kinds

\* The calls that the hook denies though the Governess cannot take them.
CutAway(s, alone) ==
  \/ s.cut # {} /\ ProfileOf(s) = "none"
  \/ s.cut # {} /\ ProfileOf(s) = "read-plan" /\ alone
  \/ "present" \in s.cut /\ s.cmd # "check"
Crowded(s, alone) == ~alone /\ s.cmd = "check" /\ Cardinality(s.names) = MaxScopes
Orphan ==
  LET alone == Len(ask.stages) = 1
  IN  \E i \in Working(ask.stages) :
        LET s == ask.stages[i]
        IN  CutAway(s, alone) \/ Crowded(s, alone) \/ (s.cmd = "check" /\ ask.where = "linked")

\* A call that the hook denies is served by the helper it was given to: unless the tier failed a job
\* in between, the Governess gives back none but the commands above.  (handlePreToolDelegation denies
\* on classifyDelegationIntent, processPendingUtilityJob asks resolveUtilityRequestWorkspace and
\* utilityRequestIsBounded; a job given back is a call that neither side carries out.)
DeniedIsServed ==
  (call = "denied" /\ job \notin {"none", "queued", "routed"}) => Orphan \/ (broke /\ why = "utility-unavailable")

\* The tier whose readiness the hook read is the tier that gets the job, except for a plan with the
\* status of a linked worktree, whose root the hook still sees by its absolute path.
\* (classifyUtilityExecution runs before and after resolveUtilityRequestWorkspace.)
LaneAgrees ==
  (job = "routed" /\ lane # "none") =>
    tier = lane \/ (ask.where = "linked" /\ \E st \in request.plan : st.profile = "git-status")

\* A packet admitted as bounded is never given back as not bounded, unless it spells one path twice.
\* (assertRouteTaskIsBounded sees the packet before its paths are resolved, routeUtilityRequest after.)
AdmittedIsBounded ==
  (call = "admitted" /\ why = "request-not-bounded") =>
    Cardinality({p[2] : p \in request.scopes}) < request.count

\* Of the calls and packets: what was taken is served as it was judged.
RoutingKept == DeniedIsServed /\ LaneAgrees /\ AdmittedIsBounded
=============================================================================
