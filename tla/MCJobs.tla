------------------------------- MODULE MCJobs -------------------------------
(***************************************************************************)
(* Helper jobs in two settings, of which Init chooses one: a pool of one   *)
(* slot that two jobs compete for, and two writers of a common path.       *)
(***************************************************************************)
EXTENDS MCUtilityJobs

VARIABLE setting

\* The configuration gives both jobs the limited tier and a common path; each
\* setting takes one of the two away, so the properties must hold in both.
Pool == INSTANCE UtilityJobs WITH Scope <- PoolScope
Writers == INSTANCE UtilityJobs WITH Tier <- WriterTier

SettingInit == setting \in {"pool", "writers"} /\ Init
SettingNext ==
  \/ setting = "pool" /\ Pool!Next /\ UNCHANGED setting
  \/ setting = "writers" /\ Writers!Next /\ UNCHANGED setting
SettingSpec == SettingInit /\ [][SettingNext]_<<vars, setting>>

\* Governesses differ in nothing; the jobs do.
GovernessSymmetry == Permutations(Governesses)
=============================================================================
