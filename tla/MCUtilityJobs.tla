--------------------------- MODULE MCUtilityJobs ---------------------------
(* Small instances of UtilityJobs for TLC.                                 *)
EXTENDS UtilityJobs, TLC

CONSTANTS j1, j2, g1, g2, p, q

MCTiers == {"direct", "nanny"}
MCLimit == [t \in MCTiers |-> 1]

\* One slot, two small jobs that compete for it, no write scopes.
PoolTier == (j1 :> "nanny") @@ (j2 :> "nanny")
PoolWanted == (j1 :> {"utility"}) @@ (j2 :> {"utility"})
PoolScope == (j1 :> {}) @@ (j2 :> {})

\* Two writers of the same path in an unlimited tier.
WriterTier == (j1 :> "direct") @@ (j2 :> "direct")
WriterScope == (j1 :> {p}) @@ (j2 :> {p, q})

\* A request the router may also return to an agent or to the human.
AnyWanted == (j1 :> {"utility"}) @@ (j2 :> Targets)
=============================================================================
