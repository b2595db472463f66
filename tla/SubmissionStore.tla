--------------------------- MODULE SubmissionStore ---------------------------
(***************************************************************************)
(* The two tables the judging loops share: submission__submission_ and     *)
(* machine__machine_.  Each SQL statement of judging.ts is an operator on  *)
(* a row, with its WHERE clause as a predicate of its own, so that every   *)
(* loop uses the same statement and the same guard.                        *)
(***************************************************************************)
EXTENDS JudgingTypes

VARIABLES
  sub,    \* the submission rows
  mach    \* the machine rows

store == <<sub, mach>>

Statuses == {"absent", "internal_error"} \union PendingStatuses \union Verdicts
Leases == {"none", "live", "expired"}
Notes == {"none", "unavailable", "lost", "exhausted"}

SubmissionRow ==
  [status   : Statuses,
   claim    : ClaimIds \union {NoClaim},
   machine  : Machines \union {NoMachine},
   job      : JobIds \union {NoJob},
   attempts : Nat,
   lease    : Leases,
   note     : Notes]

(* capacity_ and problems_ are read only of a reachable machine, and are   *)
(* then what that machine last said: Capacity and CanJudge.                *)
MachineRow ==
  [enabled : BOOLEAN, reachable : BOOLEAN, busy : Nat, judged : Nat]

StoreTypeOK ==
  /\ sub \in [Submissions -> SubmissionRow]
  /\ mach \in [Machines -> MachineRow]

AbsentRow ==
  [status |-> "absent", claim |-> NoClaim, machine |-> NoMachine, job |-> NoJob,
   attempts |-> 0, lease |-> "none", note |-> "none"]

StoreInit ==
  /\ sub = [s \in Submissions |-> AbsentRow]
  /\ mach = [m \in Machines |->
               [enabled |-> TRUE, reachable |-> FALSE, busy |-> 0, judged |-> 0]]

-----------------------------------------------------------------------------
(* What each UPDATE writes into a row. *)

QueuedRow == [AbsentRow EXCEPT !.status = "queued"]

ClaimedRow(row, c, m) ==
  [row EXCEPT !.status = "running", !.claim = c, !.machine = m, !.job = NoJob,
              !.lease = "live", !.attempts = @ + 1, !.note = "none"]

AcceptedRow(row, job) == [row EXCEPT !.job = job, !.lease = "live"]

UndoneRow(row) ==
  [row EXCEPT !.status = "queued", !.claim = NoClaim, !.machine = NoMachine,
              !.job = NoJob, !.lease = "none", !.note = "unavailable",
              !.attempts = IF @ = 0 THEN 0 ELSE @ - 1]

(* Mistaken LostRows: one attempt too many, the lease left behind, and the *)
(* attempt given back.                                                     *)
LostRowOneMore(row, max) ==
  LET exhausted == row.attempts > max
  IN  [row EXCEPT !.status = IF exhausted THEN "internal_error" ELSE "queued",
                  !.note = IF exhausted THEN "exhausted" ELSE "lost",
                  !.claim = NoClaim, !.machine = NoMachine, !.job = NoJob,
                  !.lease = "none"]

LostRowKeepsLease(row, max) ==
  LET exhausted == row.attempts >= max
  IN  [row EXCEPT !.status = IF exhausted THEN "internal_error" ELSE "queued",
                  !.note = IF exhausted THEN "exhausted" ELSE "lost",
                  !.claim = NoClaim, !.machine = NoMachine, !.job = NoJob]

LostRowGivesBack(row, max) ==
  LET exhausted == row.attempts >= max
  IN  [row EXCEPT !.status = IF exhausted THEN "internal_error" ELSE "queued",
                  !.note = IF exhausted THEN "exhausted" ELSE "lost",
                  !.claim = NoClaim, !.machine = NoMachine, !.job = NoJob,
                  !.lease = "none", !.attempts = @ - 1]

LostRow(row, max) ==
  LET exhausted == row.attempts >= max
  IN  [row EXCEPT !.status = IF exhausted THEN "internal_error" ELSE "queued",
                  !.note = IF exhausted THEN "exhausted" ELSE "lost",
                  !.claim = NoClaim, !.machine = NoMachine, !.job = NoJob,
                  !.lease = "none"]

StuckRow(row) ==
  [row EXCEPT !.status = "internal_error", !.note = "exhausted",
              !.claim = NoClaim, !.job = NoJob, !.lease = "none"]

(* machine_id stays: the page shows which machine judged the submission. *)
JudgedRow(row, verdict) ==
  [row EXCEPT !.status = verdict, !.note = "none", !.claim = NoClaim,
              !.job = NoJob, !.lease = "none"]

-----------------------------------------------------------------------------
(* The WHERE clauses that fence a statement.  Unfenced, AnyPending,        *)
(* AnyLease and NoLease are mistaken ones: no condition at all, no         *)
(* comparison of the claim id, none of the lease with now(), and a lease   *)
(* that is never over.                                                     *)

Unfenced(row, c) == TRUE
AnyPending(row, c) == row.status \in PendingStatuses
AnyLease(row) == row.lease # "none"
NoLease(row) == FALSE

IsPending(row) == row.status \in PendingStatuses
HoldsClaim(row, c) == row.claim = c
HoldsRunningClaim(row, c) == HoldsClaim(row, c) /\ row.status = "running"
MayBeJudged(row, c) == IsPending(row) /\ HoldsClaim(row, c)
LeaseIsOver(row) == row.lease = "expired"

-----------------------------------------------------------------------------
(* The statements. *)

(* UPDATE ... WHERE id = s AND guard SET what: a row the guard refuses is  *)
(* left as it is and nobody is told.                                       *)
UpdateRow(s, guard, row) ==
  sub' = IF guard THEN [sub EXCEPT ![s] = row] ELSE sub

(* loseRunningSubmissions: only a running row can be lost, whatever the    *)
(* caller's own condition says.                                            *)
CanBeLost(row) == row.status = "running"

LoseRunning(S, max) ==
  sub' = [s \in Submissions |->
            IF s \in S /\ CanBeLost(sub[s]) THEN LostRow(sub[s], max) ELSE sub[s]]

LoseClaim(s, c, max) ==
  LoseRunning({t \in {s} : HoldsClaim(sub[t], c)}, max)

LoseOfMachine(m, max) ==
  LoseRunning({s \in Submissions : sub[s].machine = m}, max)

UndoClaim(s, c) == UpdateRow(s, HoldsRunningClaim(sub[s], c), UndoneRow(sub[s]))

ExtendLease(s, c) ==
  UpdateRow(s, HoldsRunningClaim(sub[s], c), [sub[s] EXCEPT !.lease = "live"])

(* The row and the machine's total change in one transaction, under the    *)
(* row lock.                                                               *)
ApplyResult(s, c, verdict) ==
  IF MayBeJudged(sub[s], c)
  THEN /\ sub' = [sub EXCEPT ![s] = JudgedRow(sub[s], verdict)]
       /\ mach' = [m \in Machines |->
                     IF m = sub[s].machine
                     THEN [mach[m] EXCEPT !.judged = @ + 1]
                     ELSE mach[m]]
  ELSE UNCHANGED store

-----------------------------------------------------------------------------
(* What users, the operator and the clock do to the tables. *)

(* A user sends a solution; nobody is told of the new row. *)
CreateSubmission(s) ==
  /\ sub[s].status = "absent"
  /\ sub' = [sub EXCEPT ![s] = QueuedRow]
  /\ UNCHANGED mach

(* The operator turns a machine on or off. *)
SetMachineEnabled(m, enabled) ==
  /\ mach[m].enabled # enabled
  /\ mach' = [mach EXCEPT ![m].enabled = enabled]
  /\ UNCHANGED sub

(* now() passes lease_expires_at of a running row. *)
LeaseExpires(s) ==
  /\ sub[s].lease = "live"
  /\ sub' = [sub EXCEPT ![s].lease = "expired"]
  /\ UNCHANGED mach
=============================================================================
