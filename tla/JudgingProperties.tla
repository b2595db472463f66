-------------------------- MODULE JudgingProperties --------------------------
(***************************************************************************)
(* What the judging system promises.                                       *)
(***************************************************************************)
EXTENDS JudgingSystem

IsFinal(row) == row.status \in Verdicts \union {"internal_error"}
WasJudged(row) == row.status \in Verdicts

-----------------------------------------------------------------------------
(* The columns of a row agree, whichever of the statements of judging,     *)
(* sweeper and dispatcher wrote it last: exactly a running row has a claim *)
(* and a lease, only a running or judged row names a machine, only a       *)
(* running row names a job, and being handed out costs an attempt.         *)
ColumnsAgree(row) ==
  /\ row.status = "running" <=> row.claim # NoClaim
  /\ row.status = "running" <=> row.lease # "none"
  /\ row.machine # NoMachine <=> (row.status = "running" \/ WasJudged(row))
  /\ row.job # NoJob => row.status = "running"
  /\ row.status = "running" => row.attempts > 0

RowConsistent == \A s \in Submissions : ColumnsAgree(sub[s])

(* The sentence on a submission's page tells its state: "waiting" notes    *)
(* are on queued rows only, and "did not finish" exactly on the rows the   *)
(* application gave up.  The note of a pass is written after its loop, and *)
(* by then the row may be running, judged or given up.                     *)
NoteFits(row) ==
  /\ row.note \in {"unavailable", "lost"} => row.status = "queued"
  /\ row.note = "exhausted" <=> row.status = "internal_error"

NoteFitsStatus == \A s \in Submissions : NoteFits(sub[s])

(* judge_attempts never passes SUBMISSION_MAX_ATTEMPTS, and a waiting      *)
(* submission has an attempt left by the measure of some runner, although  *)
(* the UPDATE that claims it does not look at the attempts again.          *)
AttemptsFit(row) ==
  /\ row.attempts > 0 => \E max \in AttemptLimits : row.attempts <= max
  /\ row.status = "queued" => \E max \in AttemptLimits : row.attempts < max

AttemptsWithinLimit == \A s \in Submissions : AttemptsFit(sub[s])

(* A dispatch pass that has a submission in hand knows its claim and its   *)
(* machine, which had room for it, and no two passes have the same claim.  *)
InHandSteps == {"posted", "accepted", "refused"}

HandFits(d) ==
  /\ d.at \in InHandSteps =>
       d.cur # NoSubmission /\ d.claim # NoClaim /\ d.to # NoMachine /\ d.spare[d.to] > 0
  /\ d.at \notin InHandSteps => d.cur = NoSubmission
  /\ d.at = "accepted" => d.job # NoJob

HandIsFull == \A r \in Runners : HandFits(dispatch[r])

OwnClaims ==
  \A r, q \in Runners :
    /\ dispatch[r].cur # NoSubmission
    /\ dispatch[r].cur = dispatch[q].cur
    /\ dispatch[r].claim = dispatch[q].claim
    => r = q

(* What a pass holds on to is true of the row for as long as the row still *)
(* has the claim the pass knows: the fence on judge_claim_id is enough, no *)
(* statement has to compare machine or job as well.                        *)
EntryIsExact(e) ==
  sub[e.sub].claim = e.claim => sub[e.sub].machine = e.machine /\ sub[e.sub].job = e.job

HandIsExact(d) ==
  d.cur # NoSubmission =>
    (sub[d.cur].claim = d.claim => sub[d.cur].machine = d.to /\ sub[d.cur].job = NoJob)

FenceIsExact ==
  \A r \in Runners :
    /\ \A e \in collect[r].todo : EntryIsExact(e)
    /\ HandIsExact(dispatch[r])

(* The inductive invariant: the fence is exact because claims are fresh    *)
(* when they are made, a row with a claim is running, and two passes never *)
(* know the same claim.                                                    *)
RowsOK == RowConsistent /\ NoteFitsStatus /\ AttemptsWithinLimit
HandlesOK == HandIsFull /\ OwnClaims /\ FenceIsExact
JudgingInv == TypeOK /\ RowsOK /\ HandlesOK

(* judged_total of a machine counts the submissions it judged: none twice, *)
(* though a result may be read by two passes, and none that was lost.      *)
JudgedTotalsAgree ==
  \A m \in Machines :
    mach[m].judged =
      Cardinality({s \in Submissions : WasJudged(sub[s]) /\ sub[s].machine = m})

(* One runner never holds a machine to more than it has room for, whatever *)
(* the machine last said of itself: the rows it already has count as well. *)
HeldWithinCapacity == \A m \in Machines : Cardinality(HeldBy(m)) <= Capacity[m]

(* Where nothing went wrong nothing is lost: a submission is handed out    *)
(* once, or handed back with its attempt, until it is judged.              *)
QuietSystemLosesNothing ==
  disturbed = 0 =>
    \A s \in Submissions :
      /\ sub[s].note \notin {"lost", "exhausted"}
      /\ sub[s].status = "queued" => sub[s].attempts = 0
      /\ sub[s].attempts <= 1

-----------------------------------------------------------------------------
(* A final row is never written again: late results, late sweeps, late     *)
(* notes and silent machines find nothing to update.                       *)
FinalIsForever == [][\A s \in Submissions : IsFinal(sub[s]) => sub'[s] = sub[s]]_sub

(* A result is written only by a pass that was told it by the machine that *)
(* holds the submission, for the job that was recorded for the claim.      *)
ToldBy(r, s, verdict) ==
  /\ collect[r].at = "write"
  /\ collect[r].reply = verdict
  /\ \E e \in collect[r].todo : /\ InHand(r, e)
                                /\ e = EntryOf(s)

VerdictFromHolder ==
  [][\A s \in Submissions :
       sub'[s].status \in Verdicts /\ sub'[s] # sub[s] =>
         /\ sub[s].status = "running"
         /\ \E r \in Runners : ToldBy(r, s, sub'[s].status)
         /\ sub'[s].machine = sub[s].machine]_sub

(* The whole system implements SubmissionLifecycle: a row is an abstract   *)
(* submission, judge_attempts its tries, machine_id its holder, and        *)
(* judged_total the machine's credit.                                      *)
PhaseOf(row) ==
  CASE row.status = "queued" -> "waiting"
    [] row.status = "running" -> "held"
    [] row.status = "internal_error" -> "failed"
    [] row.status \in Verdicts -> "judged"
    [] OTHER -> "absent"

LifeOf(row) == [phase |-> PhaseOf(row), holder |-> row.machine, tries |-> row.attempts]

Lives == [s \in Submissions |-> LifeOf(sub[s])]
Credits == [m \in Machines |-> mach[m].judged]

Lifecycle == INSTANCE SubmissionLifecycle WITH life <- Lives, credit <- Credits

ImplementsLifecycle == Lifecycle!LifecycleSpec

-----------------------------------------------------------------------------
(* Scheduling.  loop() runs its passes for ever and a pass that waits only *)
(* waits for a bounded time; systemd starts a process that ended; a judge  *)
(* ends within its time limits; the clock goes on.  Mishaps are not fair.  *)
DispatchLoop(r) == DispatchStep(r)
CollectLoop(r) == CollectWrites(r) \/ AskForJob(r) \/ AskInVain(r)
HealthLoop(r) == HealthWrites(r) \/ AskHealth(r) \/ AskHealthInVain(r)
PostsOf(s) == {p \in posts : p.sub = s}
PostEnds(s) == \E p \in PostsOf(s) : HandlePost(p) \/ LosePost(p)

Fairness ==
  /\ \A r \in Runners : /\ WF_vars(DispatchLoop(r))
                        /\ WF_vars(CollectLoop(r))
                        /\ WF_vars(HealthLoop(r))
                        /\ WF_vars(StartRunner(r))
  /\ \A m \in Machines : WF_vars(CheckerStep(m)) /\ WF_vars(JudgeStep(m))
  /\ \A s \in Submissions : WF_vars(PostEnds(s)) /\ WF_vars(LeaseRunsOut(s))

FairSpec == Spec /\ Fairness

(* Every submission sent in gets a final status, although a pass, a        *)
(* runner, a checker or a request may fail at any point, as long as the    *)
(* operator leaves some machine turned on: no claim is left behind,        *)
(* whoever made it.                                                        *)
SomeMachineIsOn == \E m \in Machines : mach[m].enabled

EventuallyFinal ==
  \A s \in Submissions :
    sub[s].status = "queued" ~> IsFinal(sub[s]) \/ ~SomeMachineIsOn

-----------------------------------------------------------------------------
(* Claims of the documentation that the code does not keep. *)

(* set-machine-enabled: "A machine that is off is given no new work".  The *)
(* dispatcher reads the machines once per pass.                            *)
DisabledGetsNoWork ==
  [][\A s \in Submissions :
       sub[s].status = "queued" /\ sub'[s].status = "running" =>
         mach[sub'[s].machine].enabled]_sub

(* dispatcher: "only real judging spends an attempt".  A submission that   *)
(* is taken away while its machine has not accepted it keeps the attempt   *)
(* spent, and the pass that finds out undoes nothing.                      *)
NotAccepted(s) ==
  \E r \in Runners : /\ dispatch[r].at \in {"posted", "refused"}
                     /\ dispatch[r].cur = s
                     /\ dispatch[r].claim = sub[s].claim

OnlyJudgingSpends ==
  [][\A s \in Submissions :
       sub[s].status = "running" /\ sub'[s].status # "running" /\ NotAccepted(s) =>
         sub'[s].attempts < sub[s].attempts]_sub

(* CONTRACT: a submission left internal_error because the checker was      *)
(* stopped "is the app's to retry".  The application stores it as final.   *)
StoppedIsRetried == \A s \in Submissions : sub[s].status # "stopped"

(* The judging spec: the dispatcher "hands waiting submissions to machines *)
(* that are online, enabled and not full", and the page says that one that *)
(* waits "will be judged".  A pass looks at the oldest DISPATCH_BATCH_SIZE *)
(* submissions only, those no machine has the package of included.         *)
Judgeable(s) == \E m \in Machines : s \in CanJudge[m]

JudgeableIsJudged ==
  \A s \in {t \in Submissions : Judgeable(t)} :
    sub[s].status = "queued" ~> IsFinal(sub[s])
=============================================================================
