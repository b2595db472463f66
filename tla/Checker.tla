------------------------------- MODULE Checker -------------------------------
(***************************************************************************)
(* A checker machine as the application sees it: the HTTP service          *)
(* (common/service.py) in front of the job registry (common/jobs.py).      *)
(* Every method of the registry holds its lock, so each is one step.       *)
(***************************************************************************)
EXTENDS JudgingTypes

VARIABLES
  server,   \* "up", "closing" (a signal was received) or "down"
  jobs      \* the registry's jobs, empty while the process is down

checkerVars == <<server, jobs>>

Job == [id : JobIds, state : {"running"} \union Verdicts]

CheckerTypeOK ==
  /\ server \in [Machines -> {"up", "closing", "down"}]
  /\ jobs \in [Machines -> SUBSET Job]
  /\ \A m \in Machines : IsFiniteSet(jobs[m])

CheckerInit ==
  /\ server = [m \in Machines |-> "up"]
  /\ jobs = [m \in Machines |-> {}]

Started(id) == [id |-> id, state |-> "running"]
SubmissionOf(job) == job.id[1]

RunningJobs(m) == {j \in jobs[m] : j.state = "running"}
FinishedJobs(m) == jobs[m] \ RunningJobs(m)
RunningFor(m, s) == {j \in RunningJobs(m) : SubmissionOf(j) = s}

Busy(m) == Cardinality(RunningJobs(m))
IsFull(m) == Busy(m) >= Capacity[m]

(* A socket still open on a connection of an earlier request is served     *)
(* after the listening socket is closed, until the process exits.          *)
MayAnswer(m) == server[m] \in {"up", "closing"}
MaybeSilent(m) == server[m] \in {"closing", "down"}

-----------------------------------------------------------------------------
(* POST /judge: JobRegistry.submit.  The results whose time to be read is  *)
(* over (old) are dropped first; the caller says which those are.          *)

StartJob(m, id, old) ==
  /\ server[m] = "up"
  /\ RunningFor(m, id[1]) = {}
  /\ ~IsFull(m)
  /\ jobs' = [jobs EXCEPT ![m] = (@ \ old) \union {Started(id)}]
  /\ UNCHANGED server

(* The submission is being judged here already: the same job answers. *)
RepeatJob(m, s, id, old) ==
  /\ server[m] = "up"
  /\ \E j \in RunningFor(m, s) : id = j.id
  /\ jobs' = [jobs EXCEPT ![m] = @ \ old]
  /\ UNCHANGED server

RefuseFull(m, s, old) ==
  /\ server[m] = "up"
  /\ RunningFor(m, s) = {}
  /\ IsFull(m)
  /\ jobs' = [jobs EXCEPT ![m] = @ \ old]
  /\ UNCHANGED server

RefuseClosed(m) == server[m] = "closing" /\ UNCHANGED checkerVars

(* GET /judge/<id>: JobRegistry.get, which forgets first as well.  An id   *)
(* the registry does not know is a 404, to the application a lost job.     *)
AnswerJob(m, id, reply, old) ==
  /\ MayAnswer(m)
  /\ jobs' = [jobs EXCEPT ![m] = @ \ old]
  /\ \/ \E j \in jobs[m] \ old : j.id = id /\ reply = j.state
     \/ (\A j \in jobs[m] \ old : j.id # id) /\ reply = "lost"
  /\ UNCHANGED server

AnswerHealth(m, busy) ==
  /\ MayAnswer(m)
  /\ busy = Busy(m)
  /\ UNCHANGED checkerVars

-----------------------------------------------------------------------------
(* The judge's thread ends: _run, _finish. *)
FinishJob(m, j, result) ==
  /\ j \in RunningJobs(m)
  /\ jobs' = [jobs EXCEPT ![m] = (@ \ {j}) \union {[j EXCEPT !.state = result]}]
  /\ UNCHANGED server

JudgeEnds(m, j, verdict) == verdict \in Judgements /\ FinishJob(m, j, verdict)

(* SIGTERM: no new work, running jobs get a grace period. *)
BeginShutdown(m) ==
  /\ server[m] = "up"
  /\ server' = [server EXCEPT ![m] = "closing"]
  /\ UNCHANGED jobs

(* The grace period is over for a job. *)
StopJob(m, j) == server[m] = "closing" /\ FinishJob(m, j, "stopped")

ProcessEnds(m) ==
  /\ server' = [server EXCEPT ![m] = "down"]
  /\ jobs' = [jobs EXCEPT ![m] = {}]

Exit(m) == server[m] = "closing" /\ RunningJobs(m) = {} /\ ProcessEnds(m)

(* The machine or the process dies. *)
CheckerCrashes(m) == MayAnswer(m) /\ ProcessEnds(m)

StartChecker(m) ==
  /\ server[m] = "down"
  /\ server' = [server EXCEPT ![m] = "up"]
  /\ UNCHANGED jobs
=============================================================================
