---------------------------- MODULE JudgingSystem ----------------------------
(***************************************************************************)
(* The judging system: the runners' dispatch, result and health loops, the *)
(* database they share, the checker machines they talk to, and what can    *)
(* go wrong between them.                                                  *)
(***************************************************************************)
EXTENDS Dispatcher, Collector, MachineHealth, Checker

CONSTANTS
  Disturbances,      \* the kinds of mishap a behaviour may contain
  MaxDisturbances    \* how many of them (a bound for model checking)

Kinds ==
  {"timeout",      \* a POST the caller gives up on
   "outage",       \* a running machine that cannot be reached for one request
   "lease",        \* a lease that ends although its runner is at work
   "failure",      \* a pass that dies of a database error
   "runner",       \* a runner that crashes or is killed
   "crash",        \* a checker that crashes
   "shutdown",     \* a checker that is told to stop
   "expiry",       \* a result nobody read in CHECKER_RESULT_TTL_SECONDS
   "disable"}      \* a machine the operator turns off

ASSUME DisturbancesAssumption == Disturbances \subseteq Kinds /\ MaxDisturbances \in Nat

VARIABLES
  alive,       \* whether a runner's process is running
  limit,       \* its SUBMISSION_MAX_ATTEMPTS
  disturbed    \* how many mishaps there have been

runnerVars == <<alive, limit>>
loopVars == <<dispatch, posts, collect, health>>
vars == <<sub, mach, dispatch, posts, collect, health, server, jobs, alive, limit, disturbed>>

TypeOK ==
  /\ StoreTypeOK
  /\ DispatchTypeOK
  /\ CollectTypeOK
  /\ HealthTypeOK
  /\ CheckerTypeOK
  /\ alive \in [Runners -> BOOLEAN]
  /\ limit \in [Runners -> AttemptLimits]
  /\ disturbed \in Nat

Init ==
  /\ StoreInit
  /\ DispatchInit
  /\ CollectInit
  /\ HealthInit
  /\ CheckerInit
  /\ alive = [r \in Runners |-> TRUE]
  /\ limit \in [Runners -> AttemptLimits]
  /\ disturbed = 0

Disturb(kind) ==
  /\ kind \in Disturbances
  /\ disturbed < MaxDisturbances
  /\ disturbed' = disturbed + 1

-----------------------------------------------------------------------------
(* A random claim id is one nobody still refers to, for the submission or, *)
(* as part of a job id, on the machine.                                    *)
InUse(s, c, m) ==
  \/ sub[s].claim = c
  \/ sub[s].job = <<s, c>>
  \/ \E p \in posts : p.sub = s /\ p.claim = c
  \/ \E r \in Runners : \/ dispatch[r].cur = s /\ dispatch[r].claim = c
                        \/ dispatch[r].job = <<s, c>>
                        \/ \E e \in collect[r].todo :
                             e.sub = s /\ (e.claim = c \/ e.job = <<s, c>>)
  \/ \E j \in jobs[m] : j.id = <<s, c>>

FreshClaims(s, m) == {c \in ClaimIds : ~InUse(s, c, m)}

(* Results are forgotten when they are old.  One the application still     *)
(* means to ask for has been waiting for a few seconds: forgetting it      *)
(* takes an exceptional delay.                                             *)
Wanted(m) ==
  {j \in FinishedJobs(m) :
     \/ \E s \in Submissions : sub[s].machine = m /\ sub[s].job = j.id
     \/ \E r \in Runners : dispatch[r].to = m /\ dispatch[r].job = j.id}

Forgets(m, old) ==
  IF old \intersect Wanted(m) = {} THEN UNCHANGED disturbed ELSE Disturb("expiry")

(* The dispatch loop. *)
DispatchStep(r) ==
  /\ alive[r]
  /\ \/ SweepLost(r, limit[r])
     \/ SweepStuck(r, limit[r])
     \/ ReadMachines(r)
     \/ ReadHeld(r)
     \/ ReadQueue(r, limit[r])
     \/ \E s \in Submissions :
          \/ Skip(r, s)
          \/ ClaimFindsNothing(r, s)
          \/ \E m \in Machines, c \in ClaimIds :
               IsOldest(c, FreshClaims(s, m)) /\ Claim(r, s, c, m)
     \/ TakeBack(r)
     \/ RecordJob(r)
     \/ FinishPass(r)
  /\ UNCHANGED <<collect, health, checkerVars, runnerVars, disturbed>>

(* The result loop. *)
CollectWrites(r) ==
  /\ alive[r]
  /\ \/ ReadRunning(r)
     \/ \E e \in collect[r].todo :
          WriteRunning(r, e) \/ WriteResult(r, e) \/ WriteLost(r, e, limit[r])
  /\ UNCHANGED <<dispatchVars, health, checkerVars, runnerVars, disturbed>>

AskForJob(r) ==
  /\ alive[r]
  /\ \E e \in collect[r].todo : \E old \in SUBSET FinishedJobs(e.machine) :
       /\ Forgets(e.machine, old)
       /\ \E reply \in Replies :
            AnswerJob(e.machine, e.job, reply, old) /\ GotReply(r, e, reply)
  /\ UNCHANGED <<dispatchVars, health, runnerVars>>

AskInVain(r) ==
  /\ alive[r]
  /\ \E e \in collect[r].todo :
       /\ GotReply(r, e, "lost")
       /\ \/ MaybeSilent(e.machine) /\ UNCHANGED disturbed
          \/ server[e.machine] = "up" /\ Disturb("outage")
  /\ UNCHANGED <<dispatchVars, health, checkerVars, runnerVars>>

(* The health loop. *)
HealthWrites(r) ==
  /\ alive[r]
  /\ \/ ListMachines(r)
     \/ WriteReachable(r)
     \/ WriteUnreachable(r)
     \/ LoseItsWork(r, limit[r])
  /\ UNCHANGED <<dispatchVars, collect, checkerVars, runnerVars, disturbed>>

AskHealth(r) ==
  /\ alive[r]
  /\ \E m \in Machines : AnswerHealth(m, Busy(m)) /\ HealthAnswered(r, m, Busy(m))
  /\ UNCHANGED <<dispatchVars, collect, runnerVars, disturbed>>

AskHealthInVain(r) ==
  /\ alive[r]
  /\ \E m \in Machines :
       /\ HealthSilent(r, m)
       /\ \/ MaybeSilent(m) /\ UNCHANGED disturbed
          \/ server[m] = "up" /\ Disturb("outage")
  /\ UNCHANGED <<dispatchVars, collect, checkerVars, runnerVars>>

-----------------------------------------------------------------------------
(* POST /judge reaches its machine and the answer its runner. *)
HandlePost(p) ==
  /\ LET m == p.to
         own == <<p.sub, p.claim>>
     IN  \/ \E old \in SUBSET FinishedJobs(m) :
              /\ Forgets(m, old)
              /\ \/ StartJob(m, own, old) /\ Answered(p, "accepted", own)
                 \/ \E j \in RunningFor(m, p.sub) :
                      RepeatJob(m, p.sub, j.id, old) /\ Answered(p, "accepted", j.id)
                 \/ RefuseFull(m, p.sub, old) /\ Answered(p, "refused", NoJob)
         \/ /\ RefuseClosed(m)
            /\ Answered(p, "refused", NoJob)
            /\ UNCHANGED disturbed
  /\ UNCHANGED <<collect, health, runnerVars>>

(* It never gets there: nobody listens, or nobody waits for it any more.   *)
LosePost(p) ==
  /\ MaybeSilent(p.to) \/ \A r \in Runners : ~Awaits(r, p)
  /\ PostFails(p)
  /\ UNCHANGED <<collect, health, checkerVars, runnerVars, disturbed>>

DropPost(r) ==
  /\ alive[r]
  /\ PostTimesOut(r)
  /\ Disturb("timeout")
  /\ UNCHANGED <<collect, health, checkerVars, runnerVars>>

(* A judge ends; a stopping checker ends its jobs, then itself; one that   *)
(* is down is started again (systemd).                                     *)
CheckerStep(m) ==
  /\ \/ \E j \in RunningJobs(m) : StopJob(m, j)
     \/ Exit(m)
     \/ StartChecker(m)
  /\ UNCHANGED <<store, loopVars, runnerVars, disturbed>>

JudgeStep(m) ==
  /\ \E j \in RunningJobs(m), v \in Judgements : JudgeEnds(m, j, v)
  /\ UNCHANGED <<store, loopVars, runnerVars, disturbed>>

CheckerMishap(m) ==
  /\ \/ BeginShutdown(m) /\ Disturb("shutdown")
     \/ CheckerCrashes(m) /\ Disturb("crash")
  /\ UNCHANGED <<store, loopVars, runnerVars>>

-----------------------------------------------------------------------------
(* Users, the operator, the clock, and the runners' processes. *)

Submit(s) ==
  /\ CreateSubmission(s)
  /\ UNCHANGED <<loopVars, checkerVars, runnerVars, disturbed>>

Operate(m) ==
  /\ \/ SetMachineEnabled(m, TRUE) /\ UNCHANGED disturbed
     \/ SetMachineEnabled(m, FALSE) /\ Disturb("disable")
  /\ UNCHANGED <<loopVars, checkerVars, runnerVars>>

(* A running runner extends the lease of every row that has a job, and     *)
(* attends to the claim it is busy with: such a lease ends only if the     *)
(* loops are slower than SUBMISSION_LEASE_SECONDS.                         *)
Attended(s) ==
  \E r \in Runners :
    alive[r] /\ (sub[s].job # NoJob \/ (dispatch[r].cur = s /\ dispatch[r].claim = sub[s].claim))

LeaseRunsOut(s) ==
  /\ ~Attended(s)
  /\ LeaseExpires(s)
  /\ UNCHANGED <<loopVars, checkerVars, runnerVars, disturbed>>

LeaseRunsOutEarly(s) ==
  /\ Attended(s)
  /\ LeaseExpires(s)
  /\ Disturb("lease")
  /\ UNCHANGED <<loopVars, checkerVars, runnerVars>>

PassFails(r) ==
  /\ alive[r]
  /\ Disturb("failure")
  /\ \/ DispatchPassFails(r) /\ UNCHANGED <<collect, health>>
     \/ CollectPassFails(r) /\ UNCHANGED <<dispatchVars, health>>
     \/ HealthPassFails(r) /\ UNCHANGED <<dispatchVars, collect>>
  /\ UNCHANGED <<checkerVars, runnerVars>>

(* What it was doing is forgotten; its requests may still arrive. *)
RunnerCrashes(r) ==
  /\ alive[r]
  /\ Disturb("runner")
  /\ alive' = [alive EXCEPT ![r] = FALSE]
  /\ dispatch' = [dispatch EXCEPT ![r] = IdleDispatch]
  /\ collect' = [collect EXCEPT ![r] = IdleCollect]
  /\ health' = [health EXCEPT ![r] = IdleHealth]
  /\ UNCHANGED <<store, posts, checkerVars, limit>>

(* Started again, perhaps with another SUBMISSION_MAX_ATTEMPTS. *)
StartRunner(r) ==
  /\ ~alive[r]
  /\ alive' = [alive EXCEPT ![r] = TRUE]
  /\ \E max \in AttemptLimits : limit' = [limit EXCEPT ![r] = max]
  /\ UNCHANGED <<store, loopVars, checkerVars, disturbed>>

-----------------------------------------------------------------------------
Next ==
  \/ \E r \in Runners : \/ DispatchStep(r) \/ DropPost(r)
                        \/ CollectWrites(r) \/ AskForJob(r) \/ AskInVain(r)
                        \/ HealthWrites(r) \/ AskHealth(r) \/ AskHealthInVain(r)
                        \/ PassFails(r) \/ RunnerCrashes(r) \/ StartRunner(r)
  \/ \E p \in posts : HandlePost(p) \/ LosePost(p)
  \/ \E m \in Machines : \/ CheckerStep(m) \/ JudgeStep(m) \/ CheckerMishap(m)
                         \/ Operate(m)
  \/ \E s \in Submissions : Submit(s) \/ LeaseRunsOut(s) \/ LeaseRunsOutEarly(s)

Spec == Init /\ [][Next]_vars
=============================================================================
