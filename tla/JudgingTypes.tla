---------------------------- MODULE JudgingTypes ----------------------------
(***************************************************************************)
(* The values the judging system is made of: the submissions, the checker  *)
(* machines, the loop runners (processes of run-sweeper.ts) and the ids    *)
(* that travel between them.  Every other module of the system extends     *)
(* this one, so its parameters are declared once.                          *)
(***************************************************************************)
EXTENDS Naturals, FiniteSets

CONSTANTS
  Submissions,    \* submission ids; the number is the place in created_at order
  Machines,       \* names of the checking machines in the registry
  Runners,        \* processes running run-sweeper.ts against the one database
  ClaimIds,       \* pool the random claim ids are taken from
  NoMachine,      \* machine_id is null
  Judgements,     \* what a judge that ran to its end may report
  AttemptLimits,  \* values SUBMISSION_MAX_ATTEMPTS may have in a runner
  Capacity,       \* CHECKER_CAPACITY of each machine
  CanJudge,       \* the submissions whose package a machine has on its disk
  DispatchBatch,  \* DISPATCH_BATCH_SIZE
  CollectBatch    \* COLLECT_BATCH_SIZE

(***************************************************************************)
(* 0 stands for "null" among submissions and claim ids.  The job id a      *)
(* checker makes up is named after the request that made it: the           *)
(* submission and the claim the POST was sent for.                         *)
(***************************************************************************)
NoSubmission == 0
NoClaim == 0
JobIds == Submissions \X ClaimIds
NoJob == <<NoSubmission, NoClaim>>

ASSUME SubmissionsAssumption ==
  Submissions \subseteq Nat \ {NoSubmission} /\ IsFiniteSet(Submissions)
ASSUME ClaimIdsAssumption == ClaimIds \subseteq Nat \ {NoClaim}
ASSUME MachinesAssumption == NoMachine \notin Machines
ASSUME AttemptLimitsAssumption == AttemptLimits \subseteq Nat \ {0} /\ AttemptLimits # {}
ASSUME CapacityAssumption == Capacity \in [Machines -> Nat \ {0}]
ASSUME CanJudgeAssumption == CanJudge \in [Machines -> SUBSET Submissions]
ASSUME BatchesAssumption == DispatchBatch \in Nat /\ CollectBatch \in Nat

(***************************************************************************)
(* The final statuses.  "stopped" is the internal_error whose message says *)
(* that the checker was stopped while judging; "internal_error" is the one *)
(* the application itself writes when the attempts are exhausted.          *)
(***************************************************************************)
Verdicts == Judgements \union {"stopped"}
PendingStatuses == {"queued", "running"}

ASSUME JudgementsAssumption ==
  Judgements \intersect
    {"absent", "queued", "running", "internal_error", "stopped", "lost"} = {}

(* The n smallest members of a set of numbers: ORDER BY created_at LIMIT n *)
FirstOf(S, n) == {s \in S : Cardinality({t \in S : t < s}) < n}

IsOldest(s, S) == s \in S /\ \A t \in S : s <= t
=============================================================================
