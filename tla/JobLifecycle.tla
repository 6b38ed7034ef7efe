---------------------------- MODULE JobLifecycle ----------------------------
(***************************************************************************)
(* What the helper pipeline promises the agent that asked for a job: the   *)
(* job is offered once, taken by at most one worker that no overlapping    *)
(* writer disturbs, ends once and for all, and is reported at most once,   *)
(* after its end is in the journal, with the message that end calls for.   *)
(* There are no processes, epochs, deadlines or slots here.                *)
(***************************************************************************)
EXTENDS Sequences

CONSTANTS Jobs, Scope

VARIABLES state,   \* state[j]: where job j stands
          reports  \* reports[j]: the messages sent about j

lifecycleVars == <<state, reports>>

Returned == {"routed-driver", "routed-peer", "routed-requester"}
Ended == {"completed", "failed", "escalated"}
Open == {"pending-route", "routed-utility", "claimed", "running"}

ReportOf(s) ==
  CASE s = "completed" -> "handover"
    [] s = "routed-peer" -> "review_request"
    [] s \in {"routed-driver", "routed-requester"} -> "work_request"
    [] OTHER -> "escalation"

Init == /\ state = [j \in Jobs |-> "absent"]
        /\ reports = [j \in Jobs |-> <<>>]

Step(j, from, to) == /\ state[j] = from
                     /\ state' = [state EXCEPT ![j] = to]
                     /\ UNCHANGED reports

Submit(j) == Step(j, "absent", "pending-route")

Offer(j) == Step(j, "pending-route", "routed-utility")

Return(j) == \E s \in Returned : Step(j, "pending-route", s)

Take(j) == /\ \A i \in Jobs \ {j} : state[i] \in {"claimed", "running"}
                                       => Scope[i] \cap Scope[j] = {}
           /\ Step(j, "routed-utility", "claimed")

Begin(j) == Step(j, "claimed", "running")

\* Only a running job completes; any open job may be given up.
End(j) == \/ Step(j, "running", "completed")
          \/ \E from \in Open, to \in Ended \ {"completed"} : Step(j, from, to)

Tell(j) == /\ state[j] \in Ended \cup Returned
           /\ reports[j] = <<>>
           /\ reports' = [reports EXCEPT ![j] = <<ReportOf(state[j])>>]
           /\ UNCHANGED state

Next == \E j \in Jobs : \/ Submit(j) \/ Offer(j) \/ Return(j) \/ Take(j)
                        \/ Begin(j) \/ End(j) \/ Tell(j)

Spec == Init /\ [][Next]_lifecycleVars
=============================================================================
