---------------------------- MODULE LifecycleProofs ----------------------------
(***************************************************************************)
(* Proofs that the judging system implements SubmissionLifecycle, and of   *)
(* what is best seen there: who may write a verdict, that a verdict counts *)
(* once, how much one runner gives to a machine, and that a system nothing *)
(* goes wrong in loses nothing.                                            *)
(***************************************************************************)
EXTENDS JudgingProofs

-----------------------------------------------------------------------------
(* The phase of a row tells its status, but for which verdict it is. *)
LEMMA PhaseIs ==
  ASSUME NEW row, row.status \in Statuses
  PROVE  /\ PhaseOf(row) = "waiting" <=> row.status = "queued"
         /\ PhaseOf(row) = "held" <=> row.status = "running"
         /\ PhaseOf(row) = "failed" <=> row.status = "internal_error"
         /\ PhaseOf(row) = "judged" <=> row.status \in Verdicts
         /\ PhaseOf(row) = "absent" <=> row.status = "absent"
  <1>1. Verdicts \intersect {"absent", "queued", "running", "internal_error"} = {}
    BY JudgementsAssumption DEF Verdicts
  <1>2. CASE row.status = "queued"
    BY <1>1, <1>2 DEF PhaseOf
  <1>3. CASE row.status = "running"
    BY <1>1, <1>3 DEF PhaseOf
  <1>4. CASE row.status = "internal_error"
    BY <1>1, <1>4 DEF PhaseOf
  <1>5. CASE row.status \in Verdicts
    BY <1>1, <1>5 DEF PhaseOf
  <1>6. CASE row.status = "absent"
    BY <1>1, <1>6 DEF PhaseOf
  <1> QED
    BY <1>2, <1>3, <1>4, <1>5, <1>6 DEF Statuses, PendingStatuses

(* What every statement does to the life of a row. *)
LEMMA RowLives ==
  ASSUME NEW row, RowOK(row)
  PROVE  /\ \A c \in ClaimIds, m \in Machines :
              LifeOf(ClaimedRow(row, c, m))
                = [phase |-> "held", holder |-> m, tries |-> row.attempts + 1]
         /\ \A job \in JobIds : LifeOf(AcceptedRow(row, job)) = LifeOf(row)
         /\ row.status = "running" =>
              /\ LifeOf(UndoneRow(row))
                   = [phase |-> "waiting", holder |-> NoMachine, tries |-> row.attempts - 1]
              /\ \A v \in Verdicts :
                   LifeOf(JudgedRow(row, v))
                     = [phase |-> "judged", holder |-> row.machine, tries |-> row.attempts]
         /\ \A max \in AttemptLimits :
              LifeOf(LostRow(row, max))
                = [phase |-> IF row.attempts >= max THEN "failed" ELSE "waiting",
                   holder |-> NoMachine, tries |-> row.attempts]
         /\ LifeOf(StuckRow(row))
              = [phase |-> "failed", holder |-> row.machine, tries |-> row.attempts]
         /\ LifeOf(QueuedRow) = [phase |-> "waiting", holder |-> NoMachine, tries |-> 0]
         /\ \A lease : LifeOf([row EXCEPT !.lease = lease]) = LifeOf(row)
         /\ \A note : LifeOf([row EXCEPT !.note = note]) = LifeOf(row)
  <1>1. row \in SubmissionRow /\ row.attempts \in Nat
    BY DEF RowOK, SubmissionRow
  <1>2. \A v \in Verdicts : v \notin {"absent", "queued", "running", "internal_error"}
    BY JudgementsAssumption DEF Verdicts
  <1>3. \A c \in ClaimIds, m \in Machines :
          LifeOf(ClaimedRow(row, c, m))
            = [phase |-> "held", holder |-> m, tries |-> row.attempts + 1]
    BY <1>1, <1>2 DEF LifeOf, PhaseOf, ClaimedRow, SubmissionRow
  <1>4. \A job \in JobIds : LifeOf(AcceptedRow(row, job)) = LifeOf(row)
    BY <1>1 DEF LifeOf, PhaseOf, AcceptedRow, SubmissionRow
  <1>5. ASSUME row.status = "running"
        PROVE  LifeOf(UndoneRow(row))
                 = [phase |-> "waiting", holder |-> NoMachine, tries |-> row.attempts - 1]
    <2>1. row.attempts > 0
      BY <1>5 DEF RowOK, ColumnsAgree
    <2> QED
      BY <1>1, <1>2, <2>1 DEF LifeOf, PhaseOf, UndoneRow, SubmissionRow
  <1>6. \A v \in Verdicts :
          LifeOf(JudgedRow(row, v))
            = [phase |-> "judged", holder |-> row.machine, tries |-> row.attempts]
    BY <1>1, <1>2 DEF LifeOf, PhaseOf, JudgedRow, SubmissionRow
  <1>7. \A max \in AttemptLimits :
          LifeOf(LostRow(row, max))
            = [phase |-> IF row.attempts >= max THEN "failed" ELSE "waiting",
               holder |-> NoMachine, tries |-> row.attempts]
    BY <1>1, <1>2, LimitsArePositive DEF LifeOf, PhaseOf, LostRow, SubmissionRow
  <1>8. LifeOf(StuckRow(row))
          = [phase |-> "failed", holder |-> row.machine, tries |-> row.attempts]
    BY <1>1, <1>2 DEF LifeOf, PhaseOf, StuckRow, SubmissionRow
  <1>9. LifeOf(QueuedRow) = [phase |-> "waiting", holder |-> NoMachine, tries |-> 0]
    BY <1>2 DEF LifeOf, PhaseOf, QueuedRow, AbsentRow
  <1>10. /\ \A lease : LifeOf([row EXCEPT !.lease = lease]) = LifeOf(row)
         /\ \A note : LifeOf([row EXCEPT !.note = note]) = LifeOf(row)
    BY <1>1 DEF LifeOf, PhaseOf, SubmissionRow
  <1> QED
    BY <1>3, <1>4, <1>5, <1>6, <1>7, <1>8, <1>9, <1>10

-----------------------------------------------------------------------------
(* What the statements of judging.ts and its neighbours do to the lives of *)
(* the submissions.  Returns is everything that neither hands out nor      *)
(* judges: a submission arrives, is handed back, is lost or is given up.   *)
StillLives == UNCHANGED <<Lives, Credits>>

Returns ==
  \/ \E s \in Submissions : Lifecycle!Arrive(s) \/ Lifecycle!GiveBack(s)
  \/ \E S \in SUBSET Submissions, max \in AttemptLimits :
       Lifecycle!Lose(S, max) \/ Lifecycle!GiveUp(S, max)

LEMMA RowsAreOK ==
  ASSUME SubOK, NEW s \in Submissions
  PROVE  /\ RowOK(sub[s]) /\ sub[s] \in SubmissionRow /\ sub[s].status \in Statuses
         /\ Lives[s] = LifeOf(sub[s])
         /\ Lives[s].phase = PhaseOf(sub[s]) /\ Lives[s].holder = sub[s].machine
         /\ Lives[s].tries = sub[s].attempts
  <1>1. RowOK(sub[s])
    BY SubOKByRow
  <1> QED
    BY <1>1 DEF RowOK, SubmissionRow, Lives, LifeOf

LEMMA UnchangedLives ==
  ASSUME \A s \in Submissions : LifeOf(sub'[s]) = LifeOf(sub[s])
  PROVE  UNCHANGED Lives
  BY DEF Lives

(* Every write into a single row is a write into a single life. *)
LEMMA OneLife ==
  ASSUME SubOK, NEW s \in Submissions, NEW row,
         sub' = [sub EXCEPT ![s] = row]
  PROVE  Lives' = [Lives EXCEPT ![s] = LifeOf(row)]
  <1>1. sub \in [Submissions -> SubmissionRow]
    BY DEF SubOK
  <1> QED
    BY <1>1 DEF Lives

LEMMA LoseRunningLives ==
  ASSUME SubOK, NEW S, NEW max \in AttemptLimits, LoseRunning(S, max), UNCHANGED Credits
  PROVE  Returns
  <1> DEFINE lost == {s \in Submissions : s \in S /\ CanBeLost(sub[s])}
  <1>1. ASSUME NEW s \in lost
        PROVE  Lives[s].phase = "held"
    BY RowsAreOK, PhaseIs DEF CanBeLost
  <1>2. ASSUME NEW s \in Submissions
        PROVE  LifeOf(sub'[s]) =
                 IF s \notin lost THEN Lives[s]
                 ELSE [phase |-> IF Lives[s].tries >= max THEN "failed" ELSE "waiting",
                       holder |-> NoMachine, tries |-> Lives[s].tries]
    <2>1. sub'[s] = IF s \in lost THEN LostRow(sub[s], max) ELSE sub[s]
      BY DEF LoseRunning
    <2> QED
      BY <2>1, RowsAreOK, RowLives
  <1>3. Lifecycle!Lose(lost, max)
    BY <1>1, <1>2 DEF Lifecycle!Lose, Lives
  <1> QED
    BY <1>3 DEF Returns

LEMMA SweepStuckLives ==
  ASSUME SubOK, NEW r \in Runners, NEW max \in AttemptLimits, SweepStuck(r, max)
  PROVE  Returns
  <1> DEFINE stuck == {s \in Submissions : IsStuck(sub[s], max)}
  <1>1. ASSUME NEW s \in stuck
        PROVE  Lives[s].phase = "waiting" /\ Lives[s].tries >= max
    BY RowsAreOK, PhaseIs DEF IsStuck
  <1>2. ASSUME NEW s \in Submissions
        PROVE  LifeOf(sub'[s]) =
                 IF s \in stuck THEN [Lives[s] EXCEPT !.phase = "failed"] ELSE Lives[s]
    <2>1. sub'[s] = IF s \in stuck THEN StuckRow(sub[s]) ELSE sub[s]
      BY DEF SweepStuck
    <2>2. LifeOf(StuckRow(sub[s])) = [Lives[s] EXCEPT !.phase = "failed"]
      <3>1. LifeOf(StuckRow(sub[s]))
              = [phase |-> "failed", holder |-> sub[s].machine, tries |-> sub[s].attempts]
        BY RowsAreOK, RowLives
      <3>2. Lives[s] = [phase |-> PhaseOf(sub[s]), holder |-> sub[s].machine,
                        tries |-> sub[s].attempts]
        BY DEF Lives, LifeOf
      <3> QED
        BY <3>1, <3>2
    <2> QED
      BY <2>1, <2>2, RowsAreOK
  <1>3. Lifecycle!GiveUp(stuck, max)
    BY <1>1, <1>2 DEF Lifecycle!GiveUp, Lives, Credits, SweepStuck
  <1> QED
    BY <1>3 DEF Returns

LEMMA UndoClaimLives ==
  ASSUME SubOK, NEW s \in Submissions, NEW c, UndoClaim(s, c), UNCHANGED Credits
  PROVE  Returns \/ StillLives
  <1>1. CASE HoldsRunningClaim(sub[s], c)
    <2>1. sub[s].status = "running" /\ sub' = [sub EXCEPT ![s] = UndoneRow(sub[s])]
      BY <1>1 DEF UndoClaim, UpdateRow, HoldsRunningClaim
    <2>2. Lives' = [Lives EXCEPT ![s] = [phase |-> "waiting", holder |-> NoMachine,
                                         tries |-> Lives[s].tries - 1]]
      <3>1. LifeOf(UndoneRow(sub[s]))
              = [phase |-> "waiting", holder |-> NoMachine, tries |-> sub[s].attempts - 1]
        BY <2>1, RowsAreOK, RowLives
      <3>2. Lives' = [Lives EXCEPT ![s] = LifeOf(UndoneRow(sub[s]))]
        BY <2>1, OneLife
      <3>3. Lives[s].tries = sub[s].attempts
        BY RowsAreOK
      <3> QED
        BY <3>1, <3>2, <3>3
    <2>3. Lives[s].phase = "held"
      BY <2>1, RowsAreOK, PhaseIs
    <2> QED
      BY <2>2, <2>3 DEF Returns, Lifecycle!GiveBack, Lifecycle!Become
  <1>2. CASE ~HoldsRunningClaim(sub[s], c)
    BY <1>2 DEF UndoClaim, UpdateRow, StillLives, Lives
  <1> QED
    BY <1>1, <1>2

LEMMA CreateSubmissionLives ==
  ASSUME SubOK, NEW s \in Submissions, CreateSubmission(s)
  PROVE  Returns
  <1>1. Lives' = [Lives EXCEPT ![s] = [phase |-> "waiting", holder |-> NoMachine, tries |-> 0]]
    <2>1. LifeOf(QueuedRow) = [phase |-> "waiting", holder |-> NoMachine, tries |-> 0]
      BY RowsAreOK, RowLives
    <2> QED
      BY <2>1, OneLife DEF CreateSubmission
  <1>2. Lives[s].phase = "absent"
    BY RowsAreOK, PhaseIs DEF CreateSubmission
  <1> QED
    BY <1>1, <1>2 DEF Returns, Lifecycle!Arrive, Lifecycle!Become, CreateSubmission, Credits

(* Leases, jobs and notes are no part of a life. *)
LEMMA TouchesLeaveLives ==
  ASSUME SubOK, NEW s \in Submissions, NEW c
  PROVE  /\ ExtendLease(s, c) => UNCHANGED Lives
         /\ LeaseExpires(s) => UNCHANGED Lives
         /\ \A job \in JobIds :
              UpdateRow(s, HoldsClaim(sub[s], c), AcceptedRow(sub[s], job)) => UNCHANGED Lives
  <1>1. ASSUME NEW row, LifeOf(row) = LifeOf(sub[s]), sub' = [sub EXCEPT ![s] = row]
        PROVE  UNCHANGED Lives
    BY <1>1, OneLife, RowsAreOK DEF Lives
  <1>2. ExtendLease(s, c) => UNCHANGED Lives
    BY <1>1, RowsAreOK, RowLives DEF ExtendLease, UpdateRow, Lives
  <1>3. LeaseExpires(s) => UNCHANGED Lives
    <2>1. LifeOf([sub[s] EXCEPT !.lease = "expired"]) = LifeOf(sub[s])
      BY RowsAreOK, RowLives
    <2>2. LeaseExpires(s) => sub' = [sub EXCEPT ![s] = [sub[s] EXCEPT !.lease = "expired"]]
      BY DEF LeaseExpires, SubOK
    <2> QED
      BY <1>1, <2>1, <2>2
  <1>4. \A job \in JobIds :
          UpdateRow(s, HoldsClaim(sub[s], c), AcceptedRow(sub[s], job)) => UNCHANGED Lives
    BY <1>1, RowsAreOK, RowLives DEF UpdateRow, Lives
  <1> QED
    BY <1>2, <1>3, <1>4

LEMMA NotesLeaveLives ==
  ASSUME SubOK, NEW r \in Runners, FinishPass(r)
  PROVE  UNCHANGED Lives
  <1>1. \A t \in Submissions :
          sub'[t] = sub[t] \/ sub'[t] = [sub[t] EXCEPT !.note = "unavailable"]
    BY DEF FinishPass
  <1>2. \A t \in Submissions :
          LifeOf([sub[t] EXCEPT !.note = "unavailable"]) = LifeOf(sub[t])
    BY RowsAreOK, RowLives
  <1> QED
    BY <1>1, <1>2, UnchangedLives

(* The claim takes a try, and there is one left although the UPDATE does   *)
(* not look: a waiting row has one by the measure of some runner.          *)
LEMMA ClaimLives ==
  ASSUME SubOK, NEW r \in Runners, NEW s \in Submissions, NEW c \in ClaimIds,
         NEW m \in Machines, Claim(r, s, c, m)
  PROVE  \E max \in AttemptLimits : Lifecycle!Take(s, m, max)
  <1>1. sub[s].status = "queued" /\ sub' = [sub EXCEPT ![s] = ClaimedRow(sub[s], c, m)]
    BY DEF Claim
  <1>2. PICK max \in AttemptLimits : sub[s].attempts < max
    BY <1>1, RowsAreOK DEF RowOK, AttemptsFit
  <1>3. Lives' = [Lives EXCEPT ![s] = [phase |-> "held", holder |-> m,
                                       tries |-> Lives[s].tries + 1]]
    <2>1. LifeOf(ClaimedRow(sub[s], c, m))
            = [phase |-> "held", holder |-> m, tries |-> sub[s].attempts + 1]
      BY RowsAreOK, RowLives
    <2>2. Lives' = [Lives EXCEPT ![s] = LifeOf(ClaimedRow(sub[s], c, m))]
      BY <1>1, OneLife
    <2>3. Lives[s].tries = sub[s].attempts
      BY RowsAreOK
    <2> QED
      BY <2>1, <2>2, <2>3
  <1>4. Lives[s].phase = "waiting" /\ Lives[s].tries < max
    BY <1>1, <1>2, RowsAreOK, PhaseIs
  <1> QED
    BY <1>3, <1>4 DEF Lifecycle!Take, Lifecycle!Become, Claim, Credits

(* A result is written into a row that is held, and its holder is credited *)
(* in the same transaction; or nothing happens.                            *)
LEMMA ApplyResultLives ==
  ASSUME SubOK, MachOK, NEW s \in Submissions, NEW c, c # NoClaim, NEW v \in Verdicts,
         ApplyResult(s, c, v)
  PROVE  StillLives \/ (MayBeJudged(sub[s], c) /\ Lifecycle!Judge(s))
  <1>1. CASE MayBeJudged(sub[s], c)
    <2>1. sub[s].status = "running"
      BY <1>1, MayBeJudgedRuns
    <2>2. sub' = [sub EXCEPT ![s] = JudgedRow(sub[s], v)]
      BY <1>1 DEF ApplyResult
    <2>3. Lives' = [Lives EXCEPT ![s] = [phase |-> "judged", holder |-> Lives[s].holder,
                                         tries |-> Lives[s].tries]]
      <3>1. LifeOf(JudgedRow(sub[s], v))
              = [phase |-> "judged", holder |-> sub[s].machine, tries |-> sub[s].attempts]
        BY <2>1, RowsAreOK, RowLives
      <3>2. Lives' = [Lives EXCEPT ![s] = LifeOf(JudgedRow(sub[s], v))]
        BY <2>2, OneLife
      <3>3. Lives[s].holder = sub[s].machine /\ Lives[s].tries = sub[s].attempts
        BY RowsAreOK
      <3> QED
        BY <3>1, <3>2, <3>3
    <2>4. Lives[s].phase = "held" /\ Lives[s].holder = sub[s].machine
      BY <2>1, RowsAreOK, PhaseIs
    <2>5. Credits' = [Credits EXCEPT ![Lives[s].holder] = @ + 1]
      <3>1. ASSUME NEW m \in Machines
            PROVE  mach'[m].judged = IF m = sub[s].machine THEN mach[m].judged + 1
                                     ELSE mach[m].judged
        BY <1>1 DEF ApplyResult, MachOK, MachineRow
      <3> QED
        BY <2>4, <3>1 DEF Credits
    <2> QED
      BY <1>1, <2>3, <2>4, <2>5 DEF Lifecycle!Judge, Lifecycle!Become
  <1>2. CASE ~MayBeJudged(sub[s], c)
    BY <1>2 DEF ApplyResult, store, StillLives, Lives, Credits
  <1> QED
    BY <1>1, <1>2

-----------------------------------------------------------------------------
(* Every step of the system, as it is seen there: only the claim of a      *)
(* dispatch pass hands a submission out, and only the write of a result    *)
(* pass into a row that still has its claim judges one.                    *)
HandsOut ==
  \E r \in Runners, s \in Submissions, m \in Machines, c \in ClaimIds,
     max \in AttemptLimits : Claim(r, s, c, m) /\ Lifecycle!Take(s, m, max)

Judges ==
  \E r \in Runners : \E e \in collect[r].todo :
    WriteResult(r, e) /\ MayBeJudged(sub[e.sub], e.claim) /\ Lifecycle!Judge(e.sub)

LivesMove == StillLives \/ Returns \/ HandsOut \/ Judges

LEMMA StoreUnchangedLives ==
  ASSUME UNCHANGED store
  PROVE  StillLives
  BY DEF store, StillLives, Lives, Credits

LEMMA DispatchStepLives ==
  ASSUME JudgingInv, NEW r \in Runners, DispatchStep(r)
  PROVE  LivesMove
  <1> DEFINE max == limit[r]
             d == dispatch[r]
  <1>1. SubOK /\ DispatchOK /\ max \in AttemptLimits
    BY InvParts DEF RunnersOK
  <1>2. ASSUME UNCHANGED mach
        PROVE  UNCHANGED Credits
    BY <1>2 DEF Credits
  <1>3. CASE SweepLost(r, max)
    BY <1>1, <1>2, <1>3, LoseRunningLives DEF SweepLost, LivesMove
  <1>4. CASE SweepStuck(r, max)
    BY <1>1, <1>4, SweepStuckLives DEF LivesMove
  <1>5. CASE ReadMachines(r) \/ ReadHeld(r) \/ ReadQueue(r, max)
    BY <1>5, StoreUnchangedLives DEF ReadMachines, ReadHeld, ReadQueue, LivesMove
  <1>6. ASSUME NEW s \in Submissions, Skip(r, s) \/ ClaimFindsNothing(r, s)
        PROVE  LivesMove
    BY <1>6, StoreUnchangedLives DEF Skip, ClaimFindsNothing, LivesMove
  <1>7. ASSUME NEW s \in Submissions, NEW m \in Machines, NEW c \in ClaimIds,
               Claim(r, s, c, m)
        PROVE  LivesMove
    BY <1>1, <1>7, ClaimLives DEF HandsOut, LivesMove
  <1>8. CASE TakeBack(r)
    <2>1. d.cur \in Submissions
      BY <1>1, <1>8 DEF TakeBack, DispatchOK, DispatchTypeOK, DispatchState, HandIsFull,
                        HandFits, InHandSteps
    <2> QED
      BY <1>1, <1>2, <1>8, <2>1, UndoClaimLives DEF TakeBack, LivesMove
  <1>9. CASE RecordJob(r)
    <2>1. d.cur \in Submissions /\ d.job \in JobIds
      BY <1>1, <1>9 DEF RecordJob, DispatchOK, DispatchTypeOK, DispatchState, HandIsFull,
                        HandFits, InHandSteps
    <2>2. UNCHANGED Lives
      BY <1>1, <1>9, <2>1, TouchesLeaveLives DEF RecordJob
    <2> QED
      BY <1>2, <1>9, <2>2 DEF RecordJob, StillLives, LivesMove
  <1>10. CASE FinishPass(r)
    <2>1. UNCHANGED Lives
      BY <1>1, <1>10, NotesLeaveLives
    <2> QED
      BY <1>2, <1>10, <2>1 DEF FinishPass, StillLives, LivesMove
  <1> QED
    BY <1>3, <1>4, <1>5, <1>6, <1>7, <1>8, <1>9, <1>10 DEF DispatchStep

LEMMA CollectWritesLives ==
  ASSUME JudgingInv, NEW r \in Runners, CollectWrites(r)
  PROVE  LivesMove
  <1>1. SubOK /\ MachOK /\ CollectTypeOK /\ limit[r] \in AttemptLimits
    BY InvParts DEF RunnersOK
  <1>2. CASE ReadRunning(r)
    BY <1>2, StoreUnchangedLives DEF ReadRunning, LivesMove
  <1>3. ASSUME NEW e \in collect[r].todo, WriteRunning(r, e)
        PROVE  LivesMove
    <2>1. UNCHANGED Lives
      BY <1>1, <1>3, EntriesAreTyped, TouchesLeaveLives DEF WriteRunning
    <2> QED
      BY <1>3, <2>1 DEF WriteRunning, StillLives, LivesMove, Credits
  <1>4. ASSUME NEW e \in collect[r].todo, WriteResult(r, e)
        PROVE  LivesMove
    <2>1. StillLives \/ (MayBeJudged(sub[e.sub], e.claim) /\ Lifecycle!Judge(e.sub))
      BY <1>1, <1>4, EntriesAreTyped, ApplyResultLives DEF WriteResult
    <2> QED
      BY <1>4, <2>1 DEF LivesMove, Judges
  <1>5. ASSUME NEW e \in collect[r].todo, WriteLost(r, e, limit[r])
        PROVE  LivesMove
    <2>1. UNCHANGED Credits
      BY <1>5 DEF WriteLost, Credits
    <2> QED
      BY <1>1, <1>5, <2>1, LoseRunningLives DEF WriteLost, LoseClaim, LivesMove
  <1> QED
    BY <1>2, <1>3, <1>4, <1>5 DEF CollectWrites

LEMMA HealthWritesLives ==
  ASSUME JudgingInv, NEW r \in Runners, HealthWrites(r)
  PROVE  LivesMove
  <1>1. SubOK /\ MachOK /\ limit[r] \in AttemptLimits
    BY InvParts DEF RunnersOK
  <1>2. CASE ListMachines(r)
    BY <1>2, StoreUnchangedLives DEF ListMachines, LivesMove
  <1>3. CASE WriteReachable(r) \/ WriteUnreachable(r)
    <2>1. \A m \in Machines : mach'[m].judged = mach[m].judged
      BY <1>1, <1>3 DEF WriteReachable, WriteUnreachable, MachOK, MachineRow
    <2> QED
      BY <1>3, <2>1 DEF WriteReachable, WriteUnreachable, LivesMove, StillLives, Lives, Credits
  <1>4. CASE LoseItsWork(r, limit[r])
    <2>1. UNCHANGED Credits
      BY <1>4 DEF LoseItsWork, Credits
    <2> QED
      BY <1>1, <1>4, <2>1, LoseRunningLives DEF LoseItsWork, LoseOfMachine, LivesMove
  <1> QED
    BY <1>2, <1>3, <1>4 DEF HealthWrites

(* Requests, answers, checkers and the runners' processes do not touch the *)
(* tables; the operator touches no total, the clock no life.               *)
LEMMA OtherStepsLives ==
  ASSUME JudgingInv
  PROVE  /\ \A r \in Runners :
              DropPost(r) \/ AskForJob(r) \/ AskInVain(r) \/ AskHealth(r)
                \/ AskHealthInVain(r) \/ PassFails(r) \/ RunnerCrashes(r) \/ StartRunner(r)
              => StillLives
         /\ \A p \in posts : HandlePost(p) \/ LosePost(p) => StillLives
         /\ \A m \in Machines :
              CheckerStep(m) \/ JudgeStep(m) \/ CheckerMishap(m) \/ Operate(m) => StillLives
         /\ \A s \in Submissions : LeaseRunsOut(s) \/ LeaseRunsOutEarly(s) => StillLives
         /\ \A s \in Submissions : Submit(s) => Returns
         /\ UNCHANGED vars => StillLives
  <1>1. SubOK /\ MachOK
    BY InvParts
  <1>2. ASSUME NEW r \in Runners,
               DropPost(r) \/ AskForJob(r) \/ AskInVain(r) \/ AskHealth(r)
                 \/ AskHealthInVain(r) \/ PassFails(r) \/ RunnerCrashes(r) \/ StartRunner(r)
        PROVE  StillLives
    <2>1. UNCHANGED store
      BY <1>2 DEF DropPost, PostTimesOut, AskForJob, AskInVain, GotReply, AskHealth,
                  HealthAnswered, AskHealthInVain, HealthSilent, PassFails,
                  DispatchPassFails, CollectPassFails, HealthPassFails, RunnerCrashes,
                  StartRunner
    <2> QED
      BY <2>1, StoreUnchangedLives
  <1>3. ASSUME NEW p \in posts, HandlePost(p) \/ LosePost(p)
        PROVE  StillLives
    <2>1. UNCHANGED store
      BY <1>3 DEF HandlePost, LosePost, PostFails, Answered
    <2> QED
      BY <2>1, StoreUnchangedLives
  <1>4. ASSUME NEW m \in Machines, CheckerStep(m) \/ JudgeStep(m) \/ CheckerMishap(m)
        PROVE  StillLives
    BY <1>4, StoreUnchangedLives DEF CheckerStep, JudgeStep, CheckerMishap
  <1>5. ASSUME NEW m \in Machines, Operate(m)
        PROVE  StillLives
    <2>1. PICK on \in BOOLEAN : mach' = [mach EXCEPT ![m].enabled = on]
      BY <1>5 DEF Operate, SetMachineEnabled
    <2>2. \A n \in Machines : mach'[n].judged = mach[n].judged
      BY <1>1, <2>1 DEF MachOK, MachineRow
    <2> QED
      BY <1>5, <2>2 DEF Operate, SetMachineEnabled, StillLives, Lives, Credits
  <1>6. ASSUME NEW s \in Submissions, LeaseRunsOut(s) \/ LeaseRunsOutEarly(s)
        PROVE  StillLives
    <2>1. LeaseExpires(s)
      BY <1>6 DEF LeaseRunsOut, LeaseRunsOutEarly
    <2>2. UNCHANGED Lives
      BY <1>1, <2>1, TouchesLeaveLives
    <2> QED
      BY <2>1, <2>2 DEF LeaseExpires, StillLives, Credits
  <1>7. ASSUME NEW s \in Submissions, Submit(s)
        PROVE  Returns
    BY <1>1, <1>7, CreateSubmissionLives DEF Submit
  <1>8. UNCHANGED vars => StillLives
    BY StoreUnchangedLives DEF vars, store
  <1> QED
    BY <1>2, <1>3, <1>4, <1>5, <1>6, <1>7, <1>8

LEMMA NextLives ==
  ASSUME JudgingInv, [Next]_vars
  PROVE  LivesMove
  <1>1. ASSUME NEW r \in Runners, DispatchStep(r) \/ CollectWrites(r) \/ HealthWrites(r)
        PROVE  LivesMove
    BY <1>1, DispatchStepLives, CollectWritesLives, HealthWritesLives
  <1>2. \/ \E r \in Runners : DispatchStep(r) \/ CollectWrites(r) \/ HealthWrites(r)
        \/ StillLives \/ Returns
    BY OtherStepsLives DEF Next
  <1> QED
    BY <1>1, <1>2 DEF LivesMove

-----------------------------------------------------------------------------
LEMMA InitLives == Init => Lifecycle!LifecycleInit
  <1>1. LifeOf(AbsentRow) = [phase |-> "absent", holder |-> NoMachine, tries |-> 0]
    BY JudgementsAssumption DEF LifeOf, PhaseOf, AbsentRow, Verdicts
  <1> QED
    BY <1>1 DEF Init, StoreInit, Lives, Credits, Lifecycle!LifecycleInit

(* The loops, the database and the machines together implement the         *)
(* lifecycle of a submission, in which there are no loops, claims, leases  *)
(* or messages: it waits, is held by one machine at a time, and ends       *)
(* judged by the machine that held it last, which is credited once, or     *)
(* failed with its tries spent.                                            *)
THEOREM SystemImplementsLifecycle == Spec => ImplementsLifecycle
  <1>1. ASSUME JudgingInv, [Next]_vars
        PROVE  [Lifecycle!LifecycleNext]_<<Lives, Credits>>
    <2>1. LivesMove
      BY <1>1, NextLives
    <2>2. CASE StillLives
      BY <2>2 DEF StillLives
    <2>3. CASE Returns
      BY <2>3 DEF Returns, Lifecycle!LifecycleNext
    <2>4. CASE HandsOut
      BY <2>4 DEF HandsOut, Lifecycle!LifecycleNext
    <2>5. CASE Judges
      <3>1. PICK r \in Runners : \E e \in collect[r].todo : Lifecycle!Judge(e.sub)
        BY <2>5 DEF Judges
      <3>2. \A e \in collect[r].todo : e.sub \in Submissions
        BY <1>1, InvParts, EntriesAreTyped
      <3> QED
        BY <3>1, <3>2 DEF Lifecycle!LifecycleNext
    <2> QED
      BY <2>1, <2>2, <2>3, <2>4, <2>5 DEF LivesMove
  <1>2. JudgingInv /\ [Next]_vars => [Lifecycle!LifecycleNext]_(Lifecycle!lifeVars)
    BY <1>1 DEF Lifecycle!lifeVars
  <1> QED
    BY <1>2, InitLives, JudgingInvHolds, PTL
    DEF Spec, ImplementsLifecycle, Lifecycle!LifecycleSpec

-----------------------------------------------------------------------------
(* What is judged stays judged, and only the write of a result adds to it. *)
SameJudged ==
  /\ \A s \in Submissions :
       /\ Lives'[s].phase = "judged" <=> Lives[s].phase = "judged"
       /\ Lives[s].phase = "judged" => Lives'[s] = Lives[s]
  /\ UNCHANGED Credits

LEMMA ReturnsWait ==
  ASSUME Returns
  PROVE  /\ \A s \in Submissions :
              \/ Lives'[s] = Lives[s]
              \/ Lives[s].phase # "judged" /\ Lives'[s].phase \in {"waiting", "failed"}
         /\ UNCHANGED Credits
  <1>1. /\ \A s \in Submissions : Lives[s] = LifeOf(sub[s])
        /\ Lives = [s \in Submissions |-> Lives[s]]
    BY DEF Lives
  <1>2. UNCHANGED Credits
    BY DEF Returns, Lifecycle!Arrive, Lifecycle!GiveBack, Lifecycle!Lose, Lifecycle!GiveUp
  <1>3. ASSUME NEW t \in Submissions, Lifecycle!Arrive(t) \/ Lifecycle!GiveBack(t),
               NEW s \in Submissions, Lives'[s] # Lives[s]
        PROVE  Lives[s].phase # "judged" /\ Lives'[s].phase \in {"waiting", "failed"}
    BY <1>1, <1>3 DEF Lifecycle!Arrive, Lifecycle!GiveBack, Lifecycle!Become
  <1>4. ASSUME NEW S \in SUBSET Submissions, NEW max \in AttemptLimits,
               Lifecycle!Lose(S, max) \/ Lifecycle!GiveUp(S, max),
               NEW s \in Submissions, Lives'[s] # Lives[s]
        PROVE  Lives[s].phase # "judged" /\ Lives'[s].phase \in {"waiting", "failed"}
    <2>1. s \in S
      BY <1>4 DEF Lifecycle!Lose, Lifecycle!GiveUp
    <2>2. CASE Lifecycle!Lose(S, max)
      <3>1. Lives[s].phase = "held"
        BY <2>1, <2>2 DEF Lifecycle!Lose
      <3>2. Lives'[s] = [phase |-> IF Lives[s].tries >= max THEN "failed" ELSE "waiting",
                         holder |-> NoMachine, tries |-> Lives[s].tries]
        BY <2>1, <2>2 DEF Lifecycle!Lose
      <3>3. Lives'[s].phase = IF Lives[s].tries >= max THEN "failed" ELSE "waiting"
        BY <3>2
      <3> QED
        BY <3>1, <3>3
    <2>3. CASE Lifecycle!GiveUp(S, max)
      <3>1. Lives[s].phase = "waiting" /\ Lives'[s] = [Lives[s] EXCEPT !.phase = "failed"]
        BY <2>1, <2>3 DEF Lifecycle!GiveUp
      <3>2. [LifeOf(sub[s]) EXCEPT !.phase = "failed"].phase = "failed"
        BY DEF LifeOf
      <3> QED
        BY <1>1, <3>1, <3>2
    <2> QED
      BY <1>4, <2>2, <2>3
  <1> QED
    BY <1>2, <1>3, <1>4 DEF Returns

LEMMA OnlyResultsJudge ==
  ASSUME JudgingInv, [Next]_vars
  PROVE  SameJudged \/ Judges
  <1>1. /\ \A s \in Submissions : Lives[s] = LifeOf(sub[s])
        /\ Lives = [s \in Submissions |-> Lives[s]]
    BY DEF Lives
  <1>2. CASE StillLives
    BY <1>2 DEF StillLives, SameJudged
  <1>3. CASE Returns
    BY <1>3, ReturnsWait DEF SameJudged
  <1>4. CASE HandsOut
    BY <1>1, <1>4 DEF HandsOut, Lifecycle!Take, Lifecycle!Become, SameJudged
  <1> QED
    BY <1>2, <1>3, <1>4, NextLives DEF LivesMove

(* What a result pass writes: the reply, into a running row, for the job   *)
(* and the machine it asked about.                                         *)
LEMMA ResultIsWritten ==
  ASSUME JudgingInv, NEW r \in Runners, NEW e \in collect[r].todo,
         WriteResult(r, e), MayBeJudged(sub[e.sub], e.claim)
  PROVE  /\ e.sub \in Submissions
         /\ sub[e.sub].status = "running" /\ sub[e.sub].machine \in Machines
         /\ sub' = [sub EXCEPT ![e.sub] = JudgedRow(sub[e.sub], collect[r].reply)]
         /\ ToldBy(r, e.sub, collect[r].reply)
  <1>1. SubOK /\ CollectTypeOK /\ FenceIsExact
    BY InvParts
  <1>2. e.sub \in Submissions /\ e.claim # NoClaim /\ e \in Entry
    BY <1>1, EntriesAreTyped
  <1>3. sub[e.sub].status = "running"
    BY <1>1, <1>2, MayBeJudgedRuns
  <1>4. sub[e.sub].machine \in Machines
    BY <1>1, <1>2, <1>3 DEF SubOK, RowsOK, RowConsistent, ColumnsAgree, SubmissionRow
  <1>5. sub' = [sub EXCEPT ![e.sub] = JudgedRow(sub[e.sub], collect[r].reply)]
    BY DEF WriteResult, ApplyResult
  <1>6. e = EntryOf(e.sub)
    <2>1. EntryIsExact(e) /\ sub[e.sub].claim = e.claim
      BY <1>1 DEF FenceIsExact, MayBeJudged, HoldsClaim
    <2> QED
      BY <1>2, <2>1 DEF EntryIsExact, EntryOf, Entry
  <1>7. ToldBy(r, e.sub, collect[r].reply)
    BY <1>6 DEF ToldBy, WriteResult
  <1> QED
    BY <1>2, <1>3, <1>4, <1>5, <1>7

(* A verdict is written into a running row only, by a pass that was told   *)
(* it by the machine that holds the submission for the job recorded for    *)
(* its claim, and the row goes on naming that machine: no late answer, of  *)
(* another machine or for another claim, ever becomes a verdict.           *)
THEOREM VerdictsComeFromHolders == Spec => VerdictFromHolder
  <1> DEFINE Told(s) ==
        sub'[s].status \in Verdicts /\ sub'[s] # sub[s] =>
          /\ sub[s].status = "running"
          /\ \E r \in Runners : ToldBy(r, s, sub'[s].status)
          /\ sub'[s].machine = sub[s].machine
  <1>1. ASSUME JudgingInv, [Next]_vars, NEW s \in Submissions,
               sub'[s].status \in Verdicts, sub'[s] # sub[s]
        PROVE  /\ sub[s].status = "running"
               /\ \E r \in Runners : ToldBy(r, s, sub'[s].status)
               /\ sub'[s].machine = sub[s].machine
    <2>1. JudgingInv' /\ FinalsStay /\ SubOK
      BY <1>1, NextKeeps, InvParts
    <2>2. sub'[s].status \in Statuses /\ sub[s].status \in Statuses
      BY <1>1, <2>1 DEF JudgingInv, TypeOK, StoreTypeOK, SubmissionRow
    <2>3. Lives'[s].phase = "judged"
      <3>1. PhaseOf(sub'[s]) = "judged"
        BY <1>1, <2>2, PhaseIs
      <3> QED
        BY <3>1 DEF Lives, LifeOf
    <2>4. Lives[s].phase # "judged"
      <3>1. sub[s].status \notin Verdicts
        BY <1>1, <2>1 DEF FinalsStay, IsFinal
      <3> QED
        BY <2>1, <3>1, RowsAreOK, PhaseIs
    <2>5. Judges
      BY <1>1, <2>3, <2>4, OnlyResultsJudge DEF SameJudged
    <2>6. PICK r \in Runners : \E e \in collect[r].todo :
            WriteResult(r, e) /\ MayBeJudged(sub[e.sub], e.claim)
      BY <2>5 DEF Judges
    <2>7. PICK e \in collect[r].todo : WriteResult(r, e) /\ MayBeJudged(sub[e.sub], e.claim)
      BY <2>6
    <2>8. /\ e.sub \in Submissions
          /\ sub[e.sub].status = "running"
          /\ sub' = [sub EXCEPT ![e.sub] = JudgedRow(sub[e.sub], collect[r].reply)]
          /\ ToldBy(r, e.sub, collect[r].reply)
      BY <1>1, <2>7, ResultIsWritten
    <2>9. e.sub = s
      BY <1>1, <2>8
    <2>10. sub'[s] = JudgedRow(sub[s], collect[r].reply) /\ sub[s] \in SubmissionRow
      BY <2>1, <2>8, <2>9 DEF SubOK
    <2>11. sub'[s].status = collect[r].reply /\ sub'[s].machine = sub[s].machine
      BY <2>10 DEF JudgedRow, SubmissionRow
    <2> QED
      BY <2>8, <2>9, <2>11
  <1>2. JudgingInv /\ [Next]_vars => [\A s \in Submissions : Told(s)]_sub
    BY <1>1
  <1> QED
    BY <1>2, JudgingInvHolds, PTL DEF Spec, VerdictFromHolder

-----------------------------------------------------------------------------
(* judged_total. *)
JudgedBy(m) == {s \in Submissions : WasJudged(sub[s]) /\ sub[s].machine = m}

LEMMA JudgedLife ==
  ASSUME NEW row, row.status \in Statuses
  PROVE  /\ WasJudged(row) <=> LifeOf(row).phase = "judged"
         /\ row.machine = LifeOf(row).holder
  BY PhaseIs DEF WasJudged, LifeOf

LEMMA TotalsKept ==
  ASSUME JudgingInv, JudgedTotalsAgree, [Next]_vars
  PROVE  JudgedTotalsAgree'
  <1>1. /\ SubOK
        /\ \A s \in Submissions : sub[s].status \in Statuses /\ sub'[s].status \in Statuses
    BY NextKeeps, InvParts DEF JudgingInv, TypeOK, StoreTypeOK, SubmissionRow
  <1>2. CASE SameJudged
    <2>1. ASSUME NEW m \in Machines
          PROVE  JudgedBy(m)' = JudgedBy(m)
      <3>1. \A s \in Submissions : /\ Lives[s] = LifeOf(sub[s])
                                   /\ Lives'[s] = LifeOf(sub'[s])
        BY DEF Lives
      <3>2. \A s \in Submissions :
              WasJudged(sub'[s]) /\ sub'[s].machine = m
                <=> WasJudged(sub[s]) /\ sub[s].machine = m
        BY <1>1, <1>2, <3>1, JudgedLife DEF SameJudged
      <3> QED
        BY <3>2 DEF JudgedBy
    <2>2. ASSUME NEW m \in Machines
          PROVE  mach'[m].judged = mach[m].judged
      BY <1>2 DEF SameJudged, Credits
    <2> QED
      BY <2>1, <2>2 DEF JudgedTotalsAgree, JudgedBy
  <1>3. CASE Judges
    <2>1. PICK r \in Runners : \E e \in collect[r].todo :
            WriteResult(r, e) /\ MayBeJudged(sub[e.sub], e.claim)
      BY <1>3 DEF Judges
    <2>2. PICK e \in collect[r].todo : WriteResult(r, e) /\ MayBeJudged(sub[e.sub], e.claim)
      BY <2>1
    <2> DEFINE s == e.sub
               h == sub[s].machine
               v == collect[r].reply
    <2>3. /\ s \in Submissions /\ sub[s].status = "running" /\ h \in Machines
          /\ sub' = [sub EXCEPT ![s] = JudgedRow(sub[s], v)]
      BY <2>2, ResultIsWritten
    <2>4. v \in Verdicts
      BY <2>2 DEF WriteResult
    <2>5. sub \in [Submissions -> SubmissionRow]
      BY <1>1 DEF SubOK
    <2>6. WasJudged(sub'[s]) /\ sub'[s].machine = h /\ ~WasJudged(sub[s])
      BY <2>3, <2>4, <2>5, JudgementsAssumption
      DEF WasJudged, JudgedRow, SubmissionRow, Verdicts
    <2>7. \A t \in Submissions : t # s => sub'[t] = sub[t]
      BY <2>3, <2>5
    <2>8. ASSUME NEW m \in Machines
          PROVE  mach'[m].judged = Cardinality(JudgedBy(m)')
      <3>1. mach'[m].judged = IF m = h THEN mach[m].judged + 1 ELSE mach[m].judged
        <4>1. mach' = [n \in Machines |-> IF n = h THEN [mach[n] EXCEPT !.judged = @ + 1]
                                          ELSE mach[n]]
          BY <2>2 DEF WriteResult, ApplyResult
        <4> QED
          BY <4>1, InvParts DEF MachOK, MachineRow
      <3>2. JudgedBy(m)' = IF m = h THEN JudgedBy(m) \union {s} ELSE JudgedBy(m)
        BY <2>3, <2>6, <2>7 DEF JudgedBy
      <3>3. s \notin JudgedBy(m) /\ IsFiniteSet(JudgedBy(m))
        BY <2>6, SubmissionsAssumption, FS_Subset DEF JudgedBy
      <3>4. mach[m].judged = Cardinality(JudgedBy(m))
        BY DEF JudgedTotalsAgree, JudgedBy
      <3>5. Cardinality(JudgedBy(m) \union {s}) = Cardinality(JudgedBy(m)) + 1
        BY <3>3, FS_AddElement
      <3> QED
        BY <3>1, <3>2, <3>4, <3>5
    <2> QED
      BY <2>8 DEF JudgedTotalsAgree, JudgedBy
  <1> QED
    BY <1>2, <1>3, OnlyResultsJudge

(* judged_total of every machine is the number of submissions that name it *)
(* as their judge: a result read by two passes counts once, and one that   *)
(* comes after the submission was taken away does not count.               *)
THEOREM TotalsAgree == Spec => []JudgedTotalsAgree
  <1>1. Init => JudgedTotalsAgree
    <2> SUFFICES ASSUME Init, NEW m \in Machines
                 PROVE  mach[m].judged = Cardinality(JudgedBy(m))
      BY DEF JudgedTotalsAgree, JudgedBy
    <2>1. JudgedBy(m) = {}
      BY JudgementsAssumption DEF JudgedBy, Init, StoreInit, AbsentRow, WasJudged, Verdicts
    <2> QED
      BY <2>1, FS_EmptySet DEF Init, StoreInit
  <1>2. JudgingInv /\ JudgedTotalsAgree /\ [Next]_vars => JudgedTotalsAgree'
    BY TotalsKept
  <1> QED
    BY <1>1, <1>2, JudgingInvHolds, PTL DEF Spec

-----------------------------------------------------------------------------
(* What a machine holds.  Nothing but a claim gives it more. *)
HeldShrinks == \A m \in Machines : HeldBy(m)' \subseteq HeldBy(m)

LEMMA HeldLife ==
  ASSUME NEW row, row.status \in Statuses
  PROVE  /\ row.status = "running" <=> LifeOf(row).phase = "held"
         /\ row.machine = LifeOf(row).holder
  BY PhaseIs DEF LifeOf

LEMMA HeldIsFinite ==
  \A m \in Machines : IsFiniteSet(HeldBy(m)) /\ Cardinality(HeldBy(m)) \in Nat
  BY SubmissionsAssumption, FS_Subset, FS_CardinalityType DEF HeldBy

LEMMA OnlyClaimsHold ==
  ASSUME JudgingInv, [Next]_vars
  PROVE  HeldShrinks \/ HandsOut
  <1> DEFINE Shrink == \A s \in Submissions :
                         Lives'[s].phase = "held" => Lives'[s] = Lives[s]
  <1>1. /\ \A s \in Submissions : Lives[s] = LifeOf(sub[s]) /\ Lives'[s] = LifeOf(sub'[s])
        /\ Lives = [s \in Submissions |-> Lives[s]]
    BY DEF Lives
  <1>2. ASSUME Shrink
        PROVE  HeldShrinks
    <2>1. \A s \in Submissions : sub[s].status \in Statuses /\ sub'[s].status \in Statuses
      BY NextKeeps DEF JudgingInv, TypeOK, StoreTypeOK, SubmissionRow
    <2>2. ASSUME NEW s \in Submissions, sub'[s].status = "running"
          PROVE  sub[s].status = "running" /\ sub[s].machine = sub'[s].machine
      BY <1>1, <1>2, <2>1, <2>2, HeldLife
    <2> QED
      BY <2>2 DEF HeldShrinks, HeldBy
  <1>3. StillLives => Shrink
    BY DEF StillLives
  <1>4. Returns => Shrink
    BY ReturnsWait
  <1>5. Judges => Shrink
    BY <1>1 DEF Judges, Lifecycle!Judge, Lifecycle!Become
  <1> QED
    BY <1>2, <1>3, <1>4, <1>5, NextLives DEF LivesMove

(* The room a pass counts on: for the machine of the submission it has in  *)
(* hand the claim is counted twice, as held and as room not yet taken.     *)
RoomySteps == {"queue", "next"} \union InHandSteps
Given(d, m) == IF d.at \in InHandSteps /\ d.to = m THEN 1 ELSE 0

RoomFits(d) ==
  d.at \in RoomySteps =>
    \A m \in Machines :
      d.spare[m] > 0 => Cardinality(HeldBy(m)) + d.spare[m] <= Capacity[m] + Given(d, m)

RoomInv == HeldWithinCapacity /\ \A r \in Runners : RoomFits(dispatch[r])

NoMoreRoom(d, new) ==
  \A m \in Machines :
    new.spare[m] > 0 =>
      d.spare[m] > 0 /\ new.spare[m] + Given(d, m) <= d.spare[m] + Given(new, m)

(* A pass that counts on room did so before, read it just now, or claims. *)
RoomMoves(r) ==
  \/ dispatch'[r].at \notin RoomySteps
  \/ dispatch[r].at \in RoomySteps /\ NoMoreRoom(dispatch[r], dispatch'[r])
  \/ ReadHeld(r)
  \/ \E s \in Submissions, m \in Machines, c \in ClaimIds : Claim(r, s, c, m)

StaysInHand(d, new) ==
  /\ d.at \in InHandSteps /\ new.at \in InHandSteps
  /\ new.spare = d.spare /\ new.to = d.to

LEMMA SamePassRoom ==
  ASSUME DispatchOK, NEW r \in Runners,
         \/ dispatch'[r] = dispatch[r]
         \/ dispatch'[r] = IdleDispatch
         \/ StaysInHand(dispatch[r], dispatch'[r])
  PROVE  RoomMoves(r)
  <1> DEFINE d == dispatch[r]
             new == dispatch'[r]
  <1>1. \A m \in Machines : d.spare[m] \in Nat
    BY DEF DispatchOK, DispatchTypeOK, DispatchState
  <1>2. CASE new = IdleDispatch
    BY <1>2 DEF IdleDispatch, RoomySteps, InHandSteps, RoomMoves
  <1>3. CASE new = d
    <2>1. NoMoreRoom(d, new)
      BY <1>1, <1>3 DEF NoMoreRoom, Given
    <2> QED
      BY <1>3, <2>1 DEF RoomMoves
  <1>4. CASE StaysInHand(d, new)
    <2>1. \A m \in Machines : Given(new, m) = Given(d, m) /\ Given(d, m) \in Nat
      BY <1>4 DEF Given, StaysInHand
    <2>2. NoMoreRoom(d, new)
      BY <1>1, <1>4, <2>1 DEF NoMoreRoom, StaysInHand
    <2> QED
      BY <1>4, <2>2 DEF RoomMoves, RoomySteps, StaysInHand
  <1> QED
    BY <1>2, <1>3, <1>4

LEMMA DispatchStepRoom ==
  ASSUME JudgingInv, NEW r \in Runners, DispatchStep(r)
  PROVE  RoomMoves(r)
  <1> DEFINE d == dispatch[r]
             new == dispatch'[r]
  <1>1. DispatchOK
    BY InvParts
  <1>2. /\ d \in DispatchState /\ \A m \in Machines : d.spare[m] \in Nat
        /\ DOMAIN dispatch = Runners /\ HandFits(d)
    BY <1>1 DEF DispatchOK, DispatchTypeOK, DispatchState, HandIsFull
  <1>3. CASE SweepLost(r, limit[r]) \/ SweepStuck(r, limit[r]) \/ ReadMachines(r)
    <2>1. new.at \in {"stuck", "machines", "held"}
      BY <1>2, <1>3 DEF SweepLost, SweepStuck, ReadMachines, Goto, DispatchState
    <2> QED
      BY <2>1 DEF RoomMoves, RoomySteps, InHandSteps
  <1>4. CASE ReadHeld(r)
    BY <1>4 DEF RoomMoves
  <1>5. CASE ReadQueue(r, limit[r])
    <2> DEFINE queued == FirstOf(Waiting(limit[r]), DispatchBatch)
    <2>1. d.at = "queue"
      BY <1>5 DEF ReadQueue
    <2>2. new = IF queued = {} THEN IdleDispatch
                ELSE [d EXCEPT !.at = "next", !.todo = queued]
      BY <1>2, <1>5 DEF ReadQueue
    <2>3. CASE queued = {}
      BY <1>1, <2>2, <2>3, SamePassRoom
    <2>4. CASE queued # {}
      <3>1. new.at = "next" /\ new.spare = d.spare
        BY <1>2, <2>2, <2>4 DEF DispatchState
      <3>2. \A m \in Machines : Given(new, m) = 0 /\ Given(d, m) = 0
        BY <2>1, <3>1 DEF Given, InHandSteps
      <3>3. NoMoreRoom(d, new)
        BY <1>2, <3>1, <3>2 DEF NoMoreRoom
      <3> QED
        BY <2>1, <3>3 DEF RoomMoves, RoomySteps
    <2> QED
      BY <2>3, <2>4
  <1>6. ASSUME NEW s \in Submissions, Skip(r, s) \/ ClaimFindsNothing(r, s)
        PROVE  RoomMoves(r)
    <2>1. d.at = "next" /\ new.at = "next" /\ new.spare = d.spare
      BY <1>2, <1>6 DEF Skip, ClaimFindsNothing, NextIs, DispatchState
    <2>2. \A m \in Machines : Given(new, m) = 0 /\ Given(d, m) = 0
      BY <2>1 DEF Given, InHandSteps
    <2>3. NoMoreRoom(d, new)
      BY <1>2, <2>1, <2>2 DEF NoMoreRoom
    <2> QED
      BY <2>1, <2>3 DEF RoomMoves, RoomySteps
  <1>7. ASSUME NEW s \in Submissions, NEW m \in Machines, NEW c \in ClaimIds,
               Claim(r, s, c, m)
        PROVE  RoomMoves(r)
    BY <1>7 DEF RoomMoves
  <1>8. CASE TakeBack(r) \/ RecordJob(r)
    <2>1. d.at \in InHandSteps /\ d.to \in Machines /\ d.spare[d.to] > 0
      BY <1>2, <1>8 DEF TakeBack, RecordJob, InHandSteps, HandFits, DispatchState
    <2> PICK spare, waiting : /\ NextInLoop(r, spare, waiting)
                              /\ \/ spare = [d.spare EXCEPT ![d.to] = 0]
                                 \/ spare = [d.spare EXCEPT ![d.to] = @ - 1]
      BY <1>8 DEF TakeBack, RecordJob
    <2>2. new.at = "next" /\ new.spare = spare
      BY <1>2 DEF NextInLoop, DispatchState
    <2>3. \/ new.spare = [d.spare EXCEPT ![d.to] = 0]
          \/ new.spare = [d.spare EXCEPT ![d.to] = @ - 1]
      BY <2>2
    <2>4. d.spare \in [Machines -> Nat]
      BY <1>2 DEF DispatchState
    <2>5. \A m \in Machines : Given(new, m) = 0 /\ Given(d, m) = IF d.to = m THEN 1 ELSE 0
      BY <2>1, <2>2 DEF Given, InHandSteps
    <2>6. NoMoreRoom(d, new)
      <3> SUFFICES ASSUME NEW m \in Machines, new.spare[m] > 0
                   PROVE  d.spare[m] > 0 /\ new.spare[m] + Given(d, m)
                                              <= d.spare[m] + Given(new, m)
        BY DEF NoMoreRoom
      <3>1. CASE m = d.to
        <4>1. new.spare[m] = d.spare[m] - 1
          BY <2>3, <2>4, <3>1
        <4> QED
          BY <2>1, <2>4, <2>5, <3>1, <4>1
      <3>2. CASE m # d.to
        <4>1. new.spare[m] = d.spare[m]
          BY <2>3, <2>4, <3>2
        <4> QED
          BY <2>4, <2>5, <3>2, <4>1
      <3> QED
        BY <3>1, <3>2
    <2> QED
      BY <2>1, <2>6 DEF RoomMoves, RoomySteps
  <1>9. CASE FinishPass(r)
    BY <1>1, <1>2, <1>9, SamePassRoom DEF FinishPass
  <1> QED
    BY <1>3, <1>4, <1>5, <1>6, <1>7, <1>8, <1>9 DEF DispatchStep

(* The steps of a pass that are not its own: answers, failures, crashes;   *)
(* and the steps of every other pass.                                      *)
LEMMA OtherStepsRoom ==
  ASSUME JudgingInv, NEW r \in Runners
  PROVE  /\ \A q \in Runners :
              DropPost(q) \/ PassFails(q) \/ RunnerCrashes(q)
                \/ (q # r /\ DispatchStep(q)) => RoomMoves(r)
         /\ \A p \in posts : HandlePost(p) \/ LosePost(p) => RoomMoves(r)
         /\ UNCHANGED dispatch => RoomMoves(r)
  <1>1. DispatchOK /\ DOMAIN dispatch = Runners
    BY InvParts DEF DispatchOK, DispatchTypeOK
  <1>2. UNCHANGED dispatch => RoomMoves(r)
    BY <1>1, SamePassRoom
  <1>3. ASSUME NEW q \in Runners, DropPost(q)
        PROVE  RoomMoves(r)
    <2>1. dispatch[q].at = "posted" /\ dispatch' = [dispatch EXCEPT ![q].at = "refused"]
      BY <1>3 DEF DropPost, PostTimesOut, Goto
    <2>2. CASE q = r
      <3>1. StaysInHand(dispatch[r], dispatch'[r])
        BY <1>1, <2>1, <2>2
        DEF StaysInHand, InHandSteps, DispatchOK, DispatchTypeOK, DispatchState
      <3> QED
        BY <1>1, <3>1, SamePassRoom
    <2>3. CASE q # r
      BY <1>1, <2>1, <2>3, SamePassRoom
    <2> QED
      BY <2>2, <2>3
  <1>4. ASSUME NEW q \in Runners, PassFails(q) \/ RunnerCrashes(q)
        PROVE  RoomMoves(r)
    <2>1. UNCHANGED dispatch \/ dispatch' = [dispatch EXCEPT ![q] = IdleDispatch]
      BY <1>4 DEF PassFails, DispatchPassFails, RunnerCrashes, dispatchVars
    <2> QED
      BY <1>1, <2>1, SamePassRoom
  <1>5. ASSUME NEW q \in Runners, q # r, DispatchStep(q)
        PROVE  RoomMoves(r)
    <2>1. dispatch'[r] = dispatch[r]
      BY <1>1, <1>5 DEF DispatchStep, SweepLost, SweepStuck, ReadMachines, ReadHeld, ReadQueue,
                        Skip, ClaimFindsNothing, Claim, TakeBack, RecordJob, FinishPass,
                        Goto, NextInLoop
    <2> QED
      BY <1>1, <2>1, SamePassRoom
  <1>6. ASSUME NEW p \in posts, HandlePost(p) \/ LosePost(p)
        PROVE  RoomMoves(r)
    <2>1. PICK step \in InHandSteps : \E job : Answered(p, step, job)
      BY <1>6 DEF HandlePost, LosePost, PostFails, InHandSteps
    <2>2. PICK job : Answered(p, step, job)
      BY <2>1
    <2>3. dispatch'[r] = dispatch[r] \/ StaysInHand(dispatch[r], dispatch'[r])
      BY <1>1, <2>2
      DEF Answered, Awaits, StaysInHand, InHandSteps, DispatchOK, DispatchTypeOK, DispatchState
    <2> QED
      BY <1>1, <2>3, SamePassRoom
  <1> QED
    BY <1>2, <1>3, <1>4, <1>5, <1>6

LEMMA NextRoom ==
  ASSUME JudgingInv, [Next]_vars, NEW r \in Runners
  PROVE  RoomMoves(r)
  <1>1. \/ \E q \in Runners : \/ DispatchStep(q)
                              \/ DropPost(q) \/ PassFails(q) \/ RunnerCrashes(q)
        \/ \E p \in posts : HandlePost(p) \/ LosePost(p)
        \/ UNCHANGED dispatch
    BY DEF Next, CollectWrites, AskForJob, AskInVain, HealthWrites, AskHealth,
           AskHealthInVain, StartRunner, CheckerStep, JudgeStep, CheckerMishap, Operate,
           Submit, LeaseRunsOut, LeaseRunsOutEarly, vars, dispatchVars, loopVars
  <1> QED
    BY <1>1, DispatchStepRoom, OtherStepsRoom

LEMMA RoomKept ==
  ASSUME NEW r, Runners = {r}, JudgingInv, RoomInv, [Next]_vars
  PROVE  RoomInv'
  <1> DEFINE d == dispatch[r]
             new == dispatch'[r]
  <1>1. /\ DispatchOK /\ d \in DispatchState /\ DOMAIN dispatch = Runners
        /\ d.spare \in [Machines -> Nat]
    BY InvParts DEF DispatchOK, DispatchTypeOK, DispatchState
  <1>2. new.spare \in [Machines -> Nat]
    BY NextKeeps DEF JudgingInv, TypeOK, DispatchTypeOK, DispatchState
  <1>3. \A m \in Machines : Cardinality(HeldBy(m)) \in Nat /\ Cardinality(HeldBy(m)') \in Nat
    <2>1. \A m \in Machines : HeldBy(m)' \in SUBSET Submissions
      BY DEF HeldBy
    <2> QED
      BY <2>1, HeldIsFinite, SubmissionsAssumption, FS_Subset, FS_CardinalityType
  <1>4. \A m \in Machines : /\ Capacity[m] \in Nat
                            /\ Cardinality(HeldBy(m)) <= Capacity[m]
    BY CapacityAssumption DEF RoomInv, HeldWithinCapacity
  <1>5. ASSUME NEW s \in Submissions, NEW m \in Machines, NEW c \in ClaimIds,
               Claim(r, s, c, m)
        PROVE  RoomInv'
    <2>1. /\ d.at = "next" /\ d.spare[m] > 0 /\ sub[s].status = "queued"
          /\ sub' = [sub EXCEPT ![s] = ClaimedRow(sub[s], c, m)]
      BY <1>5 DEF Claim, NextIs, Emptiest, AbleMachines
    <2>2. new.at = "posted" /\ new.spare = d.spare /\ new.to = m
      BY <1>1, <1>5 DEF Claim, DispatchState
    <2>3. ASSUME NEW n \in Machines
          PROVE  Cardinality(HeldBy(n)')
                   = IF n = m THEN Cardinality(HeldBy(n)) + 1 ELSE Cardinality(HeldBy(n))
      <3>1. sub \in [Submissions -> SubmissionRow]
        BY InvParts DEF SubOK
      <3>2. sub'[s].status = "running" /\ sub'[s].machine = m
        BY <2>1, <3>1 DEF ClaimedRow, SubmissionRow
      <3>3. \A t \in Submissions : t # s => sub'[t] = sub[t]
        BY <2>1, <3>1
      <3>4. HeldBy(n)' = IF n = m THEN HeldBy(n) \union {s} ELSE HeldBy(n)
        BY <2>1, <3>2, <3>3 DEF HeldBy
      <3>5. s \notin HeldBy(n) /\ IsFiniteSet(HeldBy(n))
        BY <2>1, HeldIsFinite DEF HeldBy
      <3>6. Cardinality(HeldBy(n) \union {s}) = Cardinality(HeldBy(n)) + 1
        BY <3>5, FS_AddElement
      <3> QED
        BY <3>4, <3>6
    <2>4. \A n \in Machines :
            d.spare[n] > 0 => Cardinality(HeldBy(n)) + d.spare[n] <= Capacity[n]
      <3>1. \A n \in Machines : Given(d, n) = 0
        BY <2>1 DEF Given, InHandSteps
      <3>2. RoomFits(d) /\ d.at \in RoomySteps
        BY <2>1 DEF RoomInv, RoomySteps
      <3> QED
        BY <1>3, <1>4, <3>1, <3>2 DEF RoomFits
    <2>5. HeldWithinCapacity'
      BY <1>1, <1>3, <1>4, <2>1, <2>3, <2>4 DEF HeldWithinCapacity
    <2>6. RoomFits(dispatch[r])'
      <3>1. \A n \in Machines : Given(new, n) = IF n = m THEN 1 ELSE 0
        BY <2>2 DEF Given, InHandSteps
      <3>2. ASSUME NEW n \in Machines, new.spare[n] > 0
            PROVE  Cardinality(HeldBy(n)') + new.spare[n] <= Capacity[n] + Given(new, n)
        <4>1. d.spare[n] \in Nat /\ d.spare[n] > 0 /\ new.spare[n] = d.spare[n]
          BY <1>1, <2>2, <3>2
        <4> QED
          BY <1>3, <1>4, <2>3, <2>4, <3>1, <4>1
      <3> QED
        BY <3>2 DEF RoomFits
    <2> QED
      BY <2>5, <2>6 DEF RoomInv
  <1>6. ASSUME HeldShrinks
        PROVE  RoomInv'
    <2>1. ASSUME NEW m \in Machines
          PROVE  Cardinality(HeldBy(m)') <= Cardinality(HeldBy(m))
      BY <1>6, HeldIsFinite, FS_Subset DEF HeldShrinks
    <2>2. HeldWithinCapacity'
      BY <1>3, <1>4, <2>1 DEF HeldWithinCapacity
    <2>3. ASSUME new.at \notin RoomySteps
          PROVE  RoomFits(dispatch[r])'
      BY <2>3 DEF RoomFits
    <2>4. ASSUME d.at \in RoomySteps, NoMoreRoom(d, new)
          PROVE  RoomFits(dispatch[r])'
      <3>1. ASSUME NEW m \in Machines, new.spare[m] > 0
            PROVE  Cardinality(HeldBy(m)') + new.spare[m] <= Capacity[m] + Given(new, m)
        <4>1. d.spare[m] > 0 /\ new.spare[m] + Given(d, m) <= d.spare[m] + Given(new, m)
          BY <2>4, <3>1 DEF NoMoreRoom
        <4>2. Cardinality(HeldBy(m)) + d.spare[m] <= Capacity[m] + Given(d, m)
          BY <2>4, <4>1 DEF RoomInv, RoomFits
        <4>3. Given(d, m) \in Nat /\ Given(new, m) \in Nat
          BY DEF Given
        <4>4. d.spare[m] \in Nat /\ new.spare[m] \in Nat
          BY <1>1, <1>2
        <4> QED
          BY <1>3, <1>4, <2>1, <4>1, <4>2, <4>3, <4>4
      <3> QED
        BY <3>1 DEF RoomFits
    <2>5. ASSUME ReadHeld(r)
          PROVE  RoomFits(dispatch[r])'
      <3>1. new.at = "queue" /\ \A m \in Machines : new.spare[m] = RoomLeft(d.spare, m)
        BY <1>1, <2>5 DEF ReadHeld, DispatchState
      <3>2. ASSUME NEW m \in Machines
            PROVE  HeldBy(m)' = HeldBy(m) /\ Given(new, m) = 0
        BY <2>5, <3>1 DEF ReadHeld, store, HeldBy, Given, InHandSteps
      <3>3. ASSUME NEW m \in Machines, new.spare[m] > 0
            PROVE  Cardinality(HeldBy(m)') + new.spare[m] <= Capacity[m] + Given(new, m)
        <4>1. d.spare[m] \in Nat /\ new.spare[m] = RoomLeft(d.spare, m)
          BY <1>1, <3>1
        <4> QED
          BY <1>3, <1>4, <3>2, <3>3, <4>1 DEF RoomLeft, Lesser, Minus
      <3> QED
        BY <3>3 DEF RoomFits
    <2>6. RoomFits(dispatch[r])'
      BY <1>5, <2>3, <2>4, <2>5, NextRoom DEF RoomMoves, RoomInv
    <2> QED
      BY <2>2, <2>6 DEF RoomInv
  <1> QED
    BY <1>5, <1>6, OnlyClaimsHold DEF HandsOut

(* Where one process runs the loops, no machine is ever given more         *)
(* submissions than it has room for, whatever it last said of itself, who  *)
(* turns machines on or off, and however answers are lost or late.         *)
THEOREM OneRunnerKeepsCapacity ==
  ASSUME NEW r, Runners = {r}
  PROVE  Spec => []HeldWithinCapacity
  <1>1. Init => RoomInv
    <2> SUFFICES ASSUME Init PROVE RoomInv
      OBVIOUS
    <2>1. \A q \in Runners : RoomFits(dispatch[q])
      BY DEF Init, DispatchInit, IdleDispatch, RoomFits, RoomySteps, InHandSteps
    <2>2. \A m \in Machines : HeldBy(m) = {}
      BY DEF Init, StoreInit, AbsentRow, HeldBy
    <2> QED
      BY <2>1, <2>2, FS_EmptySet, CapacityAssumption DEF RoomInv, HeldWithinCapacity
  <1>2. JudgingInv /\ RoomInv /\ [Next]_vars => RoomInv'
    BY RoomKept
  <1>3. RoomInv => HeldWithinCapacity
    BY DEF RoomInv
  <1> QED
    BY <1>1, <1>2, <1>3, JudgingInvHolds, PTL DEF Spec

-----------------------------------------------------------------------------
(* Where nothing went wrong.  Every process runs, no lease is over and no  *)
(* machine is being marked silent; every claim is either in the hand of    *)
(* the pass that made it or has a job, and the machine knows that job; and *)
(* a pass that was told that a job is lost has an outdated entry in hand.  *)
NothingIsDown ==
  /\ \A r \in Runners : alive[r] /\ health[r].at \notin {"silent", "marked"}
  /\ \A m \in Machines : server[m] = "up"

QuietRow(row) ==
  /\ row.lease # "expired"
  /\ row.note \notin {"lost", "exhausted"}
  /\ row.status = "queued" => row.attempts = 0
  /\ row.status = "running" => row.attempts = 1
  /\ row.attempts <= 1

KnowsJob(m, id) == \E j \in jobs[m] : j.id = id

HasInHand(d, s, c) == d.at \in InHandSteps /\ d.cur = s /\ d.claim = c

RowsAreAttended ==
  \A s \in Submissions :
    sub[s].status = "running" =>
      /\ Runners # {}
      /\ IF sub[s].job = NoJob
         THEN \E r \in Runners : HasInHand(dispatch[r], s, sub[s].claim)
         ELSE KnowsJob(sub[s].machine, sub[s].job)

PostsFit ==
  \A r \in Runners, p \in posts :
    dispatch[r].cur = p.sub /\ dispatch[r].claim = p.claim => p.to = dispatch[r].to

JobsAreKnown ==
  \A r \in Runners :
    dispatch[r].at = "accepted" => KnowsJob(dispatch[r].to, dispatch[r].job)

EntriesDiffer ==
  \A r \in Runners : \A e, f \in collect[r].todo : e.sub = f.sub => e = f

LossIsOutdated ==
  \A r \in Runners : \A e \in collect[r].todo :
    collect[r].at = "write" /\ collect[r].reply = "lost" /\ InHand(r, e)
      => sub[e.sub].claim # e.claim

QuietState ==
  /\ NothingIsDown
  /\ \A s \in Submissions : QuietRow(sub[s])
  /\ RowsAreAttended /\ PostsFit /\ JobsAreKnown
  /\ EntriesDiffer /\ LossIsOutdated

LEMMA QuietRows ==
  ASSUME NEW row, RowOK(row), QuietRow(row)
  PROVE  /\ row.status = "running" =>
              /\ QuietRow(UndoneRow(row))
              /\ \A v \in Verdicts : QuietRow(JudgedRow(row, v))
              /\ \A job \in JobIds : QuietRow(AcceptedRow(row, job))
              /\ QuietRow([row EXCEPT !.lease = "live"])
         /\ row.status = "queued" =>
              /\ \A c \in ClaimIds, m \in Machines : QuietRow(ClaimedRow(row, c, m))
              /\ QuietRow([row EXCEPT !.note = "unavailable"])
         /\ QuietRow(QueuedRow)
  <1>1. row \in SubmissionRow /\ row.attempts \in Nat
    BY DEF RowOK, SubmissionRow
  <1>2. \A v \in Verdicts : v \notin {"queued", "running"}
    BY JudgementsAssumption DEF Verdicts
  <1>3. ASSUME row.status = "running"
        PROVE  QuietRow(UndoneRow(row)) /\ QuietRow([row EXCEPT !.lease = "live"])
    BY <1>1, <1>3 DEF QuietRow, UndoneRow, SubmissionRow
  <1>4. ASSUME row.status = "running", NEW v \in Verdicts
        PROVE  QuietRow(JudgedRow(row, v))
    BY <1>1, <1>2, <1>4 DEF QuietRow, JudgedRow, SubmissionRow
  <1>5. ASSUME row.status = "running", NEW job \in JobIds
        PROVE  QuietRow(AcceptedRow(row, job))
    BY <1>1, <1>5 DEF QuietRow, AcceptedRow, SubmissionRow
  <1>6. ASSUME row.status = "queued", NEW c \in ClaimIds, NEW m \in Machines
        PROVE  QuietRow(ClaimedRow(row, c, m))
    BY <1>1, <1>6 DEF QuietRow, ClaimedRow, SubmissionRow
  <1>7. ASSUME row.status = "queued"
        PROVE  QuietRow([row EXCEPT !.note = "unavailable"])
    BY <1>1, <1>7 DEF QuietRow, SubmissionRow
  <1>8. QuietRow(QueuedRow)
    BY DEF QuietRow, QueuedRow, AbsentRow
  <1> QED
    BY <1>3, <1>4, <1>5, <1>6, <1>7, <1>8

(* Steps that make no claim and name no job: rows keep their handle or     *)
(* lose it, passes let go only of what is dealt with, and machines forget  *)
(* only jobs that nobody will ask for.                                     *)
RowsStay == Settles /\ \A s \in Submissions : QuietRow(sub'[s])

HandsOn ==
  \A r \in Runners, s \in Submissions, c \in ClaimIds :
    HasInHand(dispatch[r], s, c) => HasInHand(dispatch'[r], s, c) \/ sub'[s].claim # c

IsWanted(m, id) ==
  \/ \E s \in Submissions : sub[s].machine = m /\ sub[s].job = id
  \/ \E r \in Runners : dispatch[r].to = m /\ dispatch[r].job = id

JobsOn ==
  \A m \in Machines : \A id : IsWanted(m, id) /\ KnowsJob(m, id) => KnowsJob(m, id)'

LEMMA AttendanceKept ==
  ASSUME JudgingInv, JudgingInv', RowsAreAttended, RowsStay, HandsOn, JobsOn
  PROVE  RowsAreAttended'
  <1> SUFFICES ASSUME NEW s \in Submissions, sub'[s].status = "running"
               PROVE  /\ Runners # {}
                      /\ IF sub'[s].job = NoJob
                         THEN \E r \in Runners : HasInHand(dispatch'[r], s, sub'[s].claim)
                         ELSE \E j \in jobs'[sub'[s].machine] : j.id = sub'[s].job
    BY DEF RowsAreAttended, KnowsJob
  <1>1. sub'[s].claim # NoClaim /\ sub'[s].claim \in ClaimIds /\ sub'[s].machine \in Machines
    BY DEF JudgingInv, TypeOK, StoreTypeOK, SubmissionRow, RowsOK, RowConsistent, ColumnsAgree
  <1>2. SameHandle(sub[s], sub'[s])
    BY <1>1 DEF RowsStay, Settles
  <1>3. sub[s].status = "running"
    BY <1>1, <1>2 DEF SameHandle, JudgingInv, RowsOK, RowConsistent, ColumnsAgree
  <1>4. ASSUME sub'[s].job = NoJob
        PROVE  \E r \in Runners : HasInHand(dispatch'[r], s, sub'[s].claim)
    BY <1>1, <1>2, <1>3, <1>4 DEF RowsAreAttended, SameHandle, HandsOn
  <1>5. ASSUME sub'[s].job # NoJob
        PROVE  \E j \in jobs'[sub'[s].machine] : j.id = sub'[s].job
    <2>1. IsWanted(sub[s].machine, sub[s].job) /\ KnowsJob(sub[s].machine, sub[s].job)
      BY <1>2, <1>3, <1>5 DEF RowsAreAttended, SameHandle, IsWanted
    <2>2. \E j \in jobs'[sub[s].machine] : j.id = sub[s].job
      BY <1>1, <1>2, <2>1 DEF JobsOn, SameHandle, KnowsJob
    <2> QED
      BY <1>2, <1>5, <2>2 DEF SameHandle
  <1> QED
    BY <1>3, <1>4, <1>5 DEF RowsAreAttended

LEMMA QuietUntouched ==
  ASSUME JudgingInv, QuietState
  PROVE  /\ UNCHANGED sub => RowsStay
         /\ UNCHANGED dispatchVars => HandsOn /\ PostsFit'
         /\ UNCHANGED dispatchVars /\ JobsOn => JobsAreKnown'
         /\ UNCHANGED jobs => JobsOn
         /\ UNCHANGED <<alive, health, server>> => NothingIsDown'
         /\ RowsStay /\ UNCHANGED collect => EntriesDiffer' /\ LossIsOutdated'
  <1>1. UNCHANGED sub => RowsStay
    BY DEF QuietState, RowsStay, Settles, SameHandle
  <1>2. UNCHANGED dispatchVars => HandsOn /\ PostsFit'
    BY DEF QuietState, dispatchVars, HandsOn, PostsFit
  <1>3. ASSUME UNCHANGED dispatchVars, JobsOn
        PROVE  JobsAreKnown'
    <2> SUFFICES ASSUME NEW r \in Runners, dispatch[r].at = "accepted"
                 PROVE  KnowsJob(dispatch[r].to, dispatch[r].job)'
      BY <1>3 DEF JobsAreKnown, dispatchVars
    <2>1. dispatch[r].to \in Machines
      BY InvParts DEF DispatchOK, DispatchTypeOK, DispatchState, HandIsFull, HandFits,
                      InHandSteps
    <2>2. KnowsJob(dispatch[r].to, dispatch[r].job) /\ IsWanted(dispatch[r].to, dispatch[r].job)
      BY DEF QuietState, JobsAreKnown, IsWanted
    <2>3. dispatch' = dispatch
      BY <1>3 DEF dispatchVars
    <2>4. \E j \in jobs'[dispatch[r].to] : j.id = dispatch[r].job
      BY <1>3, <2>1, <2>2, <2>3 DEF JobsOn, KnowsJob
    <2> QED
      BY <2>3, <2>4 DEF KnowsJob
  <1>4. UNCHANGED jobs => JobsOn
    BY DEF JobsOn, KnowsJob
  <1>5. UNCHANGED <<alive, health, server>> => NothingIsDown'
    BY DEF QuietState, NothingIsDown
  <1>6. ASSUME RowsStay, UNCHANGED collect
        PROVE  EntriesDiffer' /\ LossIsOutdated'
    <2>1. EntriesDiffer'
      BY <1>6 DEF QuietState, EntriesDiffer
    <2>2. ASSUME NEW r \in Runners, NEW e \in collect[r].todo,
                 sub[e.sub].claim # e.claim
          PROVE  sub'[e.sub].claim # e.claim
      <3>1. e.sub \in Submissions /\ e.claim # NoClaim
        BY InvParts, EntriesAreTyped
      <3> QED
        BY <1>6, <2>2, <3>1 DEF RowsStay, Settles, SameHandle
    <2>3. LossIsOutdated'
      BY <1>6, <2>2 DEF QuietState, LossIsOutdated, InHand, Asked
    <2> QED
      BY <2>1, <2>3
  <1> QED
    BY <1>1, <1>2, <1>3, <1>4, <1>5, <1>6

(* The dispatch loop where nothing went wrong. *)
LEMMA LetsGo ==
  ASSUME JudgingInv', QuietState, NEW r \in Runners, UNCHANGED <<posts, jobs>>,
         \A q \in Runners \ {r} : dispatch'[q] = dispatch[q],
         dispatch'[r].at \notin InHandSteps,
         \A s \in Submissions, c \in ClaimIds :
           HasInHand(dispatch[r], s, c) => sub'[s].claim # c
  PROVE  HandsOn /\ PostsFit' /\ JobsAreKnown'
  <1>1. dispatch'[r].cur = NoSubmission
    BY DEF JudgingInv, HandlesOK, HandIsFull, HandFits
  <1>2. \A p \in posts : p.sub # NoSubmission
    <2>1. posts \subseteq Posts
      BY DEF JudgingInv, TypeOK, DispatchTypeOK
    <2> QED
      BY <2>1, SubmissionsAssumption DEF Posts
  <1>3. HandsOn
    BY DEF HandsOn
  <1>4. PostsFit'
    BY <1>1, <1>2 DEF QuietState, PostsFit
  <1>5. JobsAreKnown'
    <2> SUFFICES ASSUME NEW q \in Runners, dispatch'[q].at = "accepted"
                 PROVE  \E j \in jobs'[dispatch'[q].to] : j.id = dispatch'[q].job
      BY DEF JobsAreKnown, KnowsJob
    <2>1. q # r
      BY DEF InHandSteps
    <2> QED
      BY <2>1 DEF QuietState, JobsAreKnown, KnowsJob
  <1> QED
    BY <1>3, <1>4, <1>5

LEMMA QuietSweeps ==
  ASSUME JudgingInv, QuietState, NEW r \in Runners, NEW max \in AttemptLimits,
         SweepLost(r, max) \/ SweepStuck(r, max)
  PROVE  UNCHANGED sub
  <1>1. sub = [s \in Submissions |-> sub[s]]
    BY InvParts DEF SubOK
  <1>2. CASE SweepLost(r, max)
    <2>1. sub' = [s \in Submissions |-> sub[s]]
      BY <1>2 DEF SweepLost, LoseRunning, LeaseIsOver, QuietState, QuietRow
    <2> QED
      BY <1>1, <2>1
  <1>3. CASE SweepStuck(r, max)
    <2>1. \A s \in Submissions : ~IsStuck(sub[s], max)
      BY LimitsArePositive DEF IsStuck, QuietState, QuietRow
    <2>2. sub' = [s \in Submissions |-> sub[s]]
      BY <1>3, <2>1 DEF SweepStuck
    <2> QED
      BY <1>1, <2>2
  <1> QED
    BY <1>2, <1>3

LEMMA QuietLoop ==
  ASSUME JudgingInv, JudgingInv', QuietState, NEW r \in Runners,
         UNCHANGED <<collect, health, checkerVars, runnerVars>>,
         \/ \E max \in AttemptLimits : SweepLost(r, max) \/ SweepStuck(r, max)
         \/ ReadMachines(r) \/ ReadHeld(r) \/ \E max : ReadQueue(r, max)
         \/ \E s \in Submissions : Skip(r, s) \/ ClaimFindsNothing(r, s)
  PROVE  QuietState'
  <1>1. dispatch \in [Runners -> DispatchState]
    BY InvParts DEF DispatchOK, DispatchTypeOK
  <1>2. UNCHANGED <<sub, posts, jobs, alive, server>>
    BY QuietSweeps DEF SweepLost, SweepStuck, ReadMachines, ReadHeld, ReadQueue, Skip,
                       ClaimFindsNothing, store, checkerVars, runnerVars
  <1>3. /\ \A q \in Runners \ {r} : dispatch'[q] = dispatch[q]
        /\ dispatch[r].at \notin InHandSteps /\ dispatch'[r].at \notin InHandSteps
    <2>1. CASE \E max \in AttemptLimits : SweepLost(r, max) \/ SweepStuck(r, max)
      BY <1>1, <2>1 DEF SweepLost, SweepStuck, Goto, InHandSteps, DispatchState
    <2>2. CASE ReadMachines(r) \/ ReadHeld(r)
      BY <1>1, <2>2 DEF ReadMachines, ReadHeld, InHandSteps, DispatchState
    <2>3. ASSUME NEW max, ReadQueue(r, max)
          PROVE  /\ \A q \in Runners \ {r} : dispatch'[q] = dispatch[q]
                 /\ dispatch[r].at \notin InHandSteps /\ dispatch'[r].at \notin InHandSteps
      BY <1>1, <2>3 DEF ReadQueue, IdleDispatch, InHandSteps, DispatchState
    <2>4. CASE \E s \in Submissions : Skip(r, s) \/ ClaimFindsNothing(r, s)
      BY <1>1, <2>4 DEF Skip, ClaimFindsNothing, NextIs, InHandSteps, DispatchState
    <2> QED
      BY <2>1, <2>2, <2>3, <2>4
  <1>4. HandsOn /\ PostsFit' /\ JobsAreKnown'
    BY <1>2, <1>3, LetsGo DEF HasInHand
  <1>5. RowsStay /\ JobsOn /\ NothingIsDown' /\ EntriesDiffer' /\ LossIsOutdated'
    BY <1>2, QuietUntouched
  <1>6. RowsAreAttended'
    BY <1>4, <1>5, AttendanceKept DEF QuietState
  <1> QED
    BY <1>4, <1>5, <1>6 DEF QuietState, RowsStay

LEMMA QuietTakeBack ==
  ASSUME JudgingInv, JudgingInv', QuietState, NEW r \in Runners,
         UNCHANGED <<collect, health, checkerVars, runnerVars>>, TakeBack(r)
  PROVE  QuietState'
  <1> DEFINE d == dispatch[r]
             s == d.cur
  <1>1. /\ dispatch \in [Runners -> DispatchState] /\ d \in DispatchState
        /\ SubOK /\ s \in Submissions /\ d.claim # NoClaim
    BY InvParts DEF DispatchOK, DispatchTypeOK, DispatchState, HandIsFull, HandFits,
                    InHandSteps, TakeBack
  <1>2. SubStep
    BY <1>1, UndoClaimStep DEF TakeBack
  <1>3. Settles
    BY <1>1, <1>2, SubStepKeeps
  <1>4. sub'[s].claim # d.claim
    <2>1. CASE HoldsRunningClaim(sub[s], d.claim)
      <3>1. sub'[s] = UndoneRow(sub[s]) /\ sub[s] \in SubmissionRow
        BY <1>1, <2>1 DEF TakeBack, UndoClaim, UpdateRow, SubOK
      <3> QED
        BY <1>1, <3>1 DEF UndoneRow, SubmissionRow
    <2>2. CASE ~HoldsRunningClaim(sub[s], d.claim)
      <3>1. sub' = sub
        BY <2>2 DEF TakeBack, UndoClaim, UpdateRow
      <3> QED
        BY <1>1, <2>2, <3>1
        DEF HoldsRunningClaim, HoldsClaim, SubOK, RowsOK, RowConsistent, ColumnsAgree
    <2> QED
      BY <2>1, <2>2
  <1>5. RowsStay
    <2>1. HoldsRunningClaim(sub[s], d.claim) => QuietRow(UndoneRow(sub[s]))
      BY <1>1, RowsAreOK, QuietRows DEF HoldsRunningClaim, QuietState
    <2>2. ASSUME NEW t \in Submissions
          PROVE  QuietRow(sub'[t])
      BY <1>1, <2>1 DEF TakeBack, UndoClaim, UpdateRow, SubOK, QuietState
    <2> QED
      BY <1>3, <2>2 DEF RowsStay
  <1>6. UNCHANGED <<posts, jobs, alive, server>>
    BY DEF TakeBack, checkerVars, runnerVars
  <1>7. /\ \A q \in Runners \ {r} : dispatch'[q] = dispatch[q]
        /\ dispatch'[r].at \notin InHandSteps
    BY <1>1 DEF TakeBack, NextInLoop, InHandSteps, DispatchState
  <1>8. HandsOn /\ PostsFit' /\ JobsAreKnown'
    BY <1>4, <1>6, <1>7, LetsGo DEF HasInHand
  <1>9. JobsOn /\ NothingIsDown' /\ EntriesDiffer' /\ LossIsOutdated'
    BY <1>5, <1>6, QuietUntouched
  <1>10. RowsAreAttended'
    BY <1>5, <1>8, <1>9, AttendanceKept DEF QuietState
  <1> QED
    BY <1>5, <1>8, <1>9, <1>10 DEF QuietState, RowsStay

LEMMA QuietFinishPass ==
  ASSUME JudgingInv, JudgingInv', QuietState, NEW r \in Runners,
         UNCHANGED <<collect, health, checkerVars, runnerVars>>, FinishPass(r)
  PROVE  QuietState'
  <1>1. dispatch \in [Runners -> DispatchState] /\ SubOK
    BY InvParts DEF DispatchOK, DispatchTypeOK
  <1>2. Settles
    BY <1>1, FinishPassStep, SubStepKeeps
  <1>3. RowsStay
    <2>1. ASSUME NEW t \in Submissions
          PROVE  QuietRow(sub'[t])
      <3>1. \/ sub'[t] = sub[t]
            \/ sub[t].status = "queued" /\ sub'[t] = [sub[t] EXCEPT !.note = "unavailable"]
        BY DEF FinishPass, MayBeNoted
      <3>2. RowOK(sub[t]) /\ QuietRow(sub[t])
        BY <1>1, RowsAreOK DEF QuietState
      <3> QED
        BY <3>1, <3>2, QuietRows
    <2> QED
      BY <1>2, <2>1 DEF RowsStay
  <1>4. UNCHANGED <<posts, jobs, alive, server>>
    BY DEF FinishPass, checkerVars, runnerVars
  <1>5. /\ \A q \in Runners \ {r} : dispatch'[q] = dispatch[q]
        /\ dispatch[r].at \notin InHandSteps /\ dispatch'[r].at \notin InHandSteps
    BY <1>1 DEF FinishPass, IdleDispatch, InHandSteps, DispatchState
  <1>6. HandsOn /\ PostsFit' /\ JobsAreKnown'
    BY <1>4, <1>5, LetsGo DEF HasInHand
  <1>7. JobsOn /\ NothingIsDown' /\ EntriesDiffer' /\ LossIsOutdated'
    BY <1>3, <1>4, QuietUntouched
  <1>8. RowsAreAttended'
    BY <1>3, <1>6, <1>7, AttendanceKept DEF QuietState
  <1> QED
    BY <1>3, <1>6, <1>7, <1>8 DEF QuietState, RowsStay

(* The job that a machine named is recorded: from then on the machine is   *)
(* asked for it, and it knows it.                                          *)
LEMMA QuietRecordJob ==
  ASSUME JudgingInv, JudgingInv', QuietState, NEW r \in Runners,
         UNCHANGED <<collect, health, checkerVars, runnerVars>>, RecordJob(r)
  PROVE  QuietState'
  <1> DEFINE d == dispatch[r]
             s == d.cur
             holds == HoldsClaim(sub[s], d.claim)
  <1>1. /\ dispatch \in [Runners -> DispatchState] /\ d \in DispatchState
        /\ SubOK /\ s \in Submissions /\ d.claim # NoClaim /\ d.at = "accepted"
        /\ d.job \in JobIds /\ d.job # NoJob /\ s # NoSubmission
    BY InvParts DEF DispatchOK, DispatchTypeOK, DispatchState, HandIsFull, HandFits,
                    InHandSteps, RecordJob
  <1>2. /\ sub' = IF holds THEN [sub EXCEPT ![s] = AcceptedRow(sub[s], d.job)] ELSE sub
        /\ UNCHANGED <<posts, jobs, server, alive>>
    BY DEF RecordJob, UpdateRow, checkerVars, runnerVars
  <1>3. /\ \A q \in Runners \ {r} : dispatch'[q] = dispatch[q]
        /\ dispatch'[r].at \notin InHandSteps
    BY <1>1 DEF RecordJob, NextInLoop, InHandSteps, DispatchState
  <1>4. \A t \in Submissions : sub[t] \in SubmissionRow /\ RowOK(sub[t]) /\ QuietRow(sub[t])
    BY <1>1, RowsAreOK DEF QuietState
  <1>5. holds => sub[s].status = "running" /\ sub[s].machine = d.to
    <2>1. HandIsExact(d)
      BY InvParts DEF FenceIsExact
    <2> QED
      BY <1>1, <1>4, <2>1 DEF HandIsExact, HoldsClaim, RowOK, ColumnsAgree
  <1>6. \A t \in Submissions :
          sub'[t] = IF holds /\ t = s THEN AcceptedRow(sub[s], d.job) ELSE sub[t]
    BY <1>1, <1>2, <1>4 DEF SubOK
  <1>7. \A t \in Submissions : sub'[t].claim = sub[t].claim /\ QuietRow(sub'[t])
    <2>1. holds => QuietRow(AcceptedRow(sub[s], d.job))
      BY <1>1, <1>4, <1>5, QuietRows
    <2>2. AcceptedRow(sub[s], d.job).claim = sub[s].claim
      BY <1>1, <1>4 DEF AcceptedRow, SubmissionRow
    <2> QED
      BY <1>4, <1>6, <2>1, <2>2
  <1>8. PostsFit' /\ JobsAreKnown'
    <2>1. dispatch'[r].cur = NoSubmission
      BY <1>3 DEF JudgingInv, HandlesOK, HandIsFull, HandFits
    <2>2. \A p \in posts : p.sub # NoSubmission
      BY SubmissionsAssumption DEF JudgingInv, TypeOK, DispatchTypeOK, Posts
    <2>3. PostsFit'
      BY <1>2, <1>3, <2>1, <2>2 DEF QuietState, PostsFit
    <2>4. ASSUME NEW q \in Runners, dispatch'[q].at = "accepted"
          PROVE  \E j \in jobs'[dispatch'[q].to] : j.id = dispatch'[q].job
      <3>1. q # r
        BY <1>3, <2>4 DEF InHandSteps
      <3> QED
        BY <1>2, <1>3, <2>4, <3>1 DEF QuietState, JobsAreKnown, KnowsJob
    <2> QED
      BY <2>3, <2>4 DEF JobsAreKnown, KnowsJob
  <1>9. RowsAreAttended'
    <2> SUFFICES ASSUME NEW t \in Submissions, sub'[t].status = "running"
                 PROVE  IF sub'[t].job = NoJob
                        THEN \E q \in Runners : HasInHand(dispatch'[q], t, sub'[t].claim)
                        ELSE \E j \in jobs'[sub'[t].machine] : j.id = sub'[t].job
      BY DEF RowsAreAttended, KnowsJob
    <2>1. CASE holds /\ t = s
      <3>1. sub'[t].job = d.job /\ sub'[t].machine = d.to
        BY <1>1, <1>4, <1>5, <1>6, <2>1 DEF AcceptedRow, SubmissionRow
      <3>2. KnowsJob(d.to, d.job)
        BY <1>1 DEF QuietState, JobsAreKnown
      <3> QED
        BY <1>1, <1>2, <3>1, <3>2 DEF KnowsJob
    <2>2. CASE ~(holds /\ t = s)
      <3>1. sub'[t] = sub[t]
        BY <1>6, <2>2
      <3>2. ~HasInHand(d, t, sub[t].claim)
        BY <2>2 DEF HasInHand, HoldsClaim
      <3> QED
        BY <1>2, <1>3, <3>1, <3>2 DEF QuietState, RowsAreAttended, KnowsJob
    <2> QED
      BY <2>1, <2>2
  <1>10. NothingIsDown'
    BY <1>2, QuietUntouched
  <1>11. EntriesDiffer' /\ LossIsOutdated'
    <2>1. \A q \in Runners : \A e \in collect[q].todo : e.sub \in Submissions
      BY InvParts, EntriesAreTyped
    <2> QED
      BY <1>7, <2>1 DEF QuietState, EntriesDiffer, LossIsOutdated, InHand, Asked
  <1> QED
    BY <1>7, <1>8, <1>9, <1>10, <1>11 DEF QuietState

(* A claim is fresh, so nobody who was told of another one is confused by  *)
(* it, and the pass that made it has it in hand.                           *)
LEMMA QuietClaim ==
  ASSUME JudgingInv, JudgingInv', QuietState, NEW r \in Runners, NEW s \in Submissions,
         NEW c \in ClaimIds, NEW m \in Machines, c \in FreshClaims(s, m),
         UNCHANGED <<collect, health, checkerVars, runnerVars>>, Claim(r, s, c, m)
  PROVE  QuietState'
  <1> DEFINE p0 == [sub |-> s, claim |-> c, to |-> m]
  <1>1. /\ dispatch \in [Runners -> DispatchState] /\ dispatch[r] \in DispatchState
        /\ SubOK /\ DispatchOK
    BY InvParts DEF DispatchOK, DispatchTypeOK
  <1>2. /\ sub' = [sub EXCEPT ![s] = ClaimedRow(sub[s], c, m)] /\ sub[s].status = "queued"
        /\ posts' = posts \union {p0} /\ dispatch[r].at = "next"
        /\ UNCHANGED <<jobs, server, alive>>
    BY DEF Claim, NextIs, checkerVars, runnerVars
  <1>3. /\ \A q \in Runners \ {r} : dispatch'[q] = dispatch[q]
        /\ dispatch'[r].cur = s /\ dispatch'[r].claim = c /\ dispatch'[r].to = m
        /\ dispatch'[r].at = "posted"
    BY <1>1, ClaimMoves DEF Claim, DispatchState
  <1>4. \A t \in Submissions : sub[t] \in SubmissionRow /\ RowOK(sub[t]) /\ QuietRow(sub[t])
    BY <1>1, RowsAreOK DEF QuietState
  <1>5. \A t \in Submissions : sub'[t] = IF t = s THEN ClaimedRow(sub[s], c, m) ELSE sub[t]
    BY <1>1, <1>2 DEF SubOK
  <1>6. ~InUse(s, c, m)
    BY DEF FreshClaims
  <1>7. \A t \in Submissions : QuietRow(sub'[t])
    <2>1. QuietRow(ClaimedRow(sub[s], c, m))
      BY <1>2, <1>4, QuietRows
    <2> QED
      BY <1>4, <1>5, <2>1
  <1>8. PostsFit'
    <2> SUFFICES ASSUME NEW q \in Runners, NEW p \in posts',
                        dispatch'[q].cur = p.sub, dispatch'[q].claim = p.claim
                 PROVE  p.to = dispatch'[q].to
      BY DEF PostsFit
    <2>1. CASE q = r
      <3>1. p \notin posts
        BY <1>3, <1>6, <2>1 DEF InUse
      <3> QED
        BY <1>2, <1>3, <2>1, <3>1
    <2>2. CASE q # r
      <3>1. dispatch'[q] = dispatch[q]
        BY <1>3, <2>2
      <3>2. p # p0
        BY <1>6, <3>1 DEF InUse
      <3> QED
        BY <1>2, <3>1, <3>2 DEF QuietState, PostsFit
    <2> QED
      BY <2>1, <2>2
  <1>9. JobsAreKnown'
    <2>1. ASSUME NEW q \in Runners, dispatch'[q].at = "accepted"
          PROVE  \E j \in jobs'[dispatch'[q].to] : j.id = dispatch'[q].job
      <3>1. q # r
        BY <1>3, <2>1
      <3> QED
        BY <1>2, <1>3, <2>1, <3>1 DEF QuietState, JobsAreKnown, KnowsJob
    <2> QED
      BY <2>1 DEF JobsAreKnown, KnowsJob
  <1>10. RowsAreAttended'
    <2> SUFFICES ASSUME NEW t \in Submissions, sub'[t].status = "running"
                 PROVE  IF sub'[t].job = NoJob
                        THEN \E q \in Runners : HasInHand(dispatch'[q], t, sub'[t].claim)
                        ELSE \E j \in jobs'[sub'[t].machine] : j.id = sub'[t].job
      BY DEF RowsAreAttended, KnowsJob
    <2>1. CASE t = s
      <3>1. sub'[t].job = NoJob /\ sub'[t].claim = c
        BY <1>4, <1>5, <2>1 DEF ClaimedRow, SubmissionRow
      <3>2. HasInHand(dispatch'[r], t, sub'[t].claim)
        BY <1>3, <2>1, <3>1 DEF HasInHand, InHandSteps
      <3> QED
        BY <3>1, <3>2
    <2>2. CASE t # s
      <3>1. sub'[t] = sub[t]
        BY <1>5, <2>2
      <3>2. ~HasInHand(dispatch[r], t, sub[t].claim)
        BY <1>2 DEF HasInHand, InHandSteps
      <3> QED
        BY <1>2, <1>3, <3>1, <3>2 DEF QuietState, RowsAreAttended, KnowsJob
    <2> QED
      BY <2>1, <2>2
  <1>11. NothingIsDown'
    BY <1>2, QuietUntouched
  <1>12. EntriesDiffer' /\ LossIsOutdated'
    <2>1. ASSUME NEW q \in Runners, NEW e \in collect[q].todo, sub[e.sub].claim # e.claim
          PROVE  sub'[e.sub].claim # e.claim
      <3>1. e.sub \in Submissions
        BY InvParts, EntriesAreTyped
      <3>2. CASE e.sub = s
        <4>1. e.claim # c
          BY <1>6, <3>2 DEF InUse
        <4>2. sub'[s].claim = c
          BY <1>4, <1>5 DEF ClaimedRow, SubmissionRow
        <4> QED
          BY <3>2, <4>1, <4>2
      <3>3. CASE e.sub # s
        BY <1>5, <2>1, <3>1, <3>3
      <3> QED
        BY <3>2, <3>3
    <2> QED
      BY <2>1 DEF QuietState, EntriesDiffer, LossIsOutdated, InHand, Asked
  <1> QED
    BY <1>7, <1>8, <1>9, <1>10, <1>11, <1>12 DEF QuietState

LEMMA QuietDispatchStep ==
  ASSUME JudgingInv, JudgingInv', QuietState, NEW r \in Runners, DispatchStep(r)
  PROVE  QuietState'
  <1>1. UNCHANGED <<collect, health, checkerVars, runnerVars>> /\ limit[r] \in AttemptLimits
    BY InvParts DEF DispatchStep, RunnersOK
  <1>2. \/ SweepLost(r, limit[r]) \/ SweepStuck(r, limit[r])
        \/ ReadMachines(r) \/ ReadHeld(r) \/ ReadQueue(r, limit[r])
        \/ \E s \in Submissions : Skip(r, s) \/ ClaimFindsNothing(r, s)
        \/ \E s \in Submissions, m \in Machines, c \in ClaimIds :
             c \in FreshClaims(s, m) /\ Claim(r, s, c, m)
        \/ TakeBack(r) \/ RecordJob(r) \/ FinishPass(r)
    BY DEF DispatchStep, IsOldest
  <1>3. CASE \/ SweepLost(r, limit[r]) \/ SweepStuck(r, limit[r])
             \/ ReadMachines(r) \/ ReadHeld(r) \/ ReadQueue(r, limit[r])
             \/ \E s \in Submissions : Skip(r, s) \/ ClaimFindsNothing(r, s)
    BY <1>1, <1>3, QuietLoop
  <1> QED
    BY <1>1, <1>2, <1>3, QuietClaim, QuietTakeBack, QuietRecordJob, QuietFinishPass

(* The result loop where nothing went wrong: a machine that does not know  *)
(* a job was asked for a job nobody records any more.                      *)
LEMMA CollectedQuiet ==
  ASSUME JudgingInv, QuietState, NEW r \in Runners, NEW e, Collected(r, e), Settles
  PROVE  EntriesDiffer' /\ LossIsOutdated'
  <1> DEFINE rest == collect[r].todo \ {e}
  <1>1. collect \in [Runners -> CollectState]
    BY InvParts DEF CollectTypeOK
  <1>2. /\ \A q \in Runners \ {r} : collect'[q] = collect[q]
        /\ collect'[r].todo \subseteq rest /\ collect'[r].at # "write"
    BY <1>1 DEF Collected, IdleCollect
  <1>3. EntriesDiffer'
    BY <1>2 DEF QuietState, EntriesDiffer
  <1>4. ASSUME NEW q \in Runners, NEW f \in collect[q].todo, sub[f.sub].claim # f.claim
        PROVE  sub'[f.sub].claim # f.claim
    <2>1. f.sub \in Submissions /\ f.claim # NoClaim
      BY InvParts, EntriesAreTyped
    <2> QED
      BY <1>4, <2>1 DEF Settles, SameHandle
  <1>5. LossIsOutdated'
    <2> SUFFICES ASSUME NEW q \in Runners, NEW f \in collect'[q].todo,
                        collect'[q].at = "write", collect'[q].reply = "lost", InHand(q, f)'
                 PROVE  sub'[f.sub].claim # f.claim
      BY DEF LossIsOutdated
    <2>1. collect'[q] = collect[q]
      BY <1>2
    <2>2. f \in collect[q].todo /\ InHand(q, f)
      BY <2>1 DEF InHand, Asked
    <2> QED
      BY <1>4, <2>1, <2>2 DEF QuietState, LossIsOutdated
  <1> QED
    BY <1>3, <1>5

LEMMA QuietWrites ==
  ASSUME JudgingInv, QuietState, NEW r \in Runners, NEW e \in collect[r].todo,
         NEW max \in AttemptLimits,
         WriteRunning(r, e) \/ WriteResult(r, e) \/ WriteLost(r, e, max)
  PROVE  RowsStay
  <1>1. SubOK /\ e.sub \in Submissions /\ e.claim # NoClaim
    BY InvParts, EntriesAreTyped
  <1>2. \A t \in Submissions : sub[t] \in SubmissionRow /\ RowOK(sub[t]) /\ QuietRow(sub[t])
    BY <1>1, RowsAreOK DEF QuietState
  <1>3. CASE WriteRunning(r, e)
    <2>1. Settles
      BY <1>1, <1>3, ExtendLeaseStep, SubStepKeeps DEF WriteRunning
    <2>2. HoldsRunningClaim(sub[e.sub], e.claim) => QuietRow([sub[e.sub] EXCEPT !.lease = "live"])
      BY <1>1, <1>2, QuietRows DEF HoldsRunningClaim
    <2>3. \A t \in Submissions : QuietRow(sub'[t])
      BY <1>1, <1>2, <1>3, <2>2 DEF WriteRunning, ExtendLease, UpdateRow, SubOK
    <2> QED
      BY <2>1, <2>3 DEF RowsStay
  <1>4. CASE WriteResult(r, e)
    <2>1. Settles
      BY <1>1, <1>4, ApplyResultStep, SubStepKeeps DEF WriteResult
    <2>2. CASE MayBeJudged(sub[e.sub], e.claim)
      <3>1. sub[e.sub].status = "running" /\ collect[r].reply \in Verdicts
        BY <1>1, <1>4, <2>2, MayBeJudgedRuns DEF WriteResult
      <3>2. QuietRow(JudgedRow(sub[e.sub], collect[r].reply))
        BY <1>1, <1>2, <3>1, QuietRows
      <3>3. \A t \in Submissions : QuietRow(sub'[t])
        BY <1>1, <1>2, <1>4, <2>2, <3>2 DEF WriteResult, ApplyResult, SubOK
      <3> QED
        BY <2>1, <3>3 DEF RowsStay
    <2>3. CASE ~MayBeJudged(sub[e.sub], e.claim)
      BY <1>2, <1>4, <2>1, <2>3 DEF WriteResult, ApplyResult, store, RowsStay
    <2> QED
      BY <2>2, <2>3
  <1>5. CASE WriteLost(r, e, max)
    <2>1. Settles
      BY <1>1, <1>5, LoseClaimStep, SubStepKeeps DEF WriteLost
    <2>2. ~HoldsClaim(sub[e.sub], e.claim)
      BY <1>5 DEF WriteLost, QuietState, LossIsOutdated, HoldsClaim
    <2>3. \A t \in Submissions : sub'[t] = sub[t]
      BY <1>5, <2>2 DEF WriteLost, LoseClaim, LoseRunning
    <2> QED
      BY <1>2, <2>1, <2>3 DEF RowsStay
  <1> QED
    BY <1>3, <1>4, <1>5

LEMMA QuietCollectWrites ==
  ASSUME JudgingInv, JudgingInv', QuietState, NEW r \in Runners, CollectWrites(r)
  PROVE  QuietState'
  <1>1. limit[r] \in AttemptLimits /\ SubOK /\ collect \in [Runners -> CollectState]
    BY InvParts DEF RunnersOK, CollectTypeOK
  <1>2. UNCHANGED dispatchVars /\ UNCHANGED <<jobs, server, alive, health>>
    BY DEF CollectWrites, checkerVars, runnerVars
  <1>3. HandsOn /\ PostsFit' /\ JobsOn /\ JobsAreKnown' /\ NothingIsDown'
    BY <1>2, QuietUntouched
  <1>4. RowsStay /\ EntriesDiffer' /\ LossIsOutdated'
    <2>1. CASE ReadRunning(r)
      <3>1. RowsStay /\ UNCHANGED sub
        BY <2>1, QuietUntouched DEF ReadRunning, store
      <3>2. /\ \A q \in Runners \ {r} : collect'[q] = collect[q]
            /\ collect'[r].at # "write"
            /\ \A f \in collect'[r].todo : \E s \in Submissions : f = EntryOf(s)
        BY <1>1, <2>1 DEF ReadRunning, FirstOf, WithJob
      <3>3. \A f, g \in collect'[r].todo : f.sub = g.sub => f = g
        BY <3>2 DEF EntryOf
      <3>4. EntriesDiffer'
        BY <3>2, <3>3 DEF QuietState, EntriesDiffer
      <3>5. LossIsOutdated'
        BY <3>1, <3>2 DEF QuietState, LossIsOutdated, InHand, Asked
      <3> QED
        BY <3>1, <3>4, <3>5
    <2>2. ASSUME NEW e \in collect[r].todo,
                 WriteRunning(r, e) \/ WriteResult(r, e) \/ WriteLost(r, e, limit[r])
          PROVE  RowsStay /\ EntriesDiffer' /\ LossIsOutdated'
      <3>1. RowsStay
        BY <1>1, <2>2, QuietWrites
      <3> QED
        BY <2>2, <3>1, CollectedQuiet DEF RowsStay, WriteRunning, WriteResult, WriteLost
    <2> QED
      BY <2>1, <2>2 DEF CollectWrites
  <1>5. RowsAreAttended'
    BY <1>3, <1>4, AttendanceKept DEF QuietState
  <1> QED
    BY <1>3, <1>4, <1>5 DEF QuietState, RowsStay

(* What a machine forgets while nothing goes wrong nobody will ask for.    *)
LEMMA ForgettingIsQuiet ==
  ASSUME NEW m \in Machines, NEW old \in SUBSET FinishedJobs(m),
         Forgets(m, old), disturbed' = disturbed, disturbed \in Nat,
         jobs[m] \ old \subseteq jobs'[m],
         \A n \in Machines \ {m} : jobs'[n] = jobs[n]
  PROVE  JobsOn
  <1>1. old \intersect Wanted(m) = {}
    BY DEF Forgets, Disturb
  <1>2. ASSUME NEW id, IsWanted(m, id), KnowsJob(m, id)
        PROVE  KnowsJob(m, id)'
    <2>1. PICK j \in jobs[m] : j.id = id
      BY <1>2 DEF KnowsJob
    <2>2. j \notin old
      BY <1>1, <1>2, <2>1 DEF Wanted, IsWanted
    <2> QED
      BY <2>1, <2>2 DEF KnowsJob
  <1> QED
    BY <1>2 DEF JobsOn, KnowsJob

LEMMA QuietAskForJob ==
  ASSUME JudgingInv, JudgingInv', QuietState, NEW r \in Runners, AskForJob(r),
         disturbed' = disturbed
  PROVE  QuietState'
  <1>1. /\ collect \in [Runners -> CollectState] /\ disturbed \in Nat /\ CheckerTypeOK
        /\ SubOK /\ FenceIsExact
    BY InvParts DEF CollectTypeOK, RunnersOK
  <1>2. PICK e \in collect[r].todo : \E old \in SUBSET FinishedJobs(e.machine) :
          /\ Forgets(e.machine, old)
          /\ \E reply \in Replies :
               AnswerJob(e.machine, e.job, reply, old) /\ GotReply(r, e, reply)
    BY DEF AskForJob
  <1> DEFINE m == e.machine
  <1>3. PICK old \in SUBSET FinishedJobs(m), reply \in Replies :
          Forgets(m, old) /\ AnswerJob(m, e.job, reply, old) /\ GotReply(r, e, reply)
    BY <1>2
  <1>4. m \in Machines /\ e.sub \in Submissions /\ e.claim # NoClaim /\ e.job \in JobIds
    BY InvParts, EntriesAreTyped
  <1>5. /\ UNCHANGED <<sub, server, alive, health>> /\ UNCHANGED dispatchVars
        /\ jobs' = [jobs EXCEPT ![m] = @ \ old]
    BY <1>3 DEF AskForJob, GotReply, AnswerJob, store, runnerVars
  <1>6. jobs'[m] = jobs[m] \ old /\ \A n \in Machines \ {m} : jobs'[n] = jobs[n]
    BY <1>1, <1>4, <1>5 DEF CheckerTypeOK
  <1>7. JobsOn
    BY <1>1, <1>3, <1>4, <1>6, ForgettingIsQuiet
  <1>8. RowsStay /\ HandsOn /\ PostsFit' /\ JobsAreKnown' /\ NothingIsDown'
    BY <1>5, <1>7, QuietUntouched
  <1>9. RowsAreAttended'
    BY <1>7, <1>8, AttendanceKept DEF QuietState
  <1>10. /\ \A q \in Runners \ {r} : collect'[q] = collect[q]
         /\ collect'[r].todo = collect[r].todo /\ collect'[r].reply = reply
    BY <1>1, <1>3 DEF GotReply, CollectState
  <1>11. EntriesDiffer'
    BY <1>10 DEF QuietState, EntriesDiffer
  <1>12. reply = "lost" => sub[e.sub].claim # e.claim
    <2> SUFFICES ASSUME reply = "lost", sub[e.sub].claim = e.claim
                 PROVE  FALSE
      OBVIOUS
    <2>1. sub[e.sub].machine = m /\ sub[e.sub].job = e.job
      BY <1>1 DEF FenceIsExact, EntryIsExact
    <2>2. sub[e.sub].status = "running"
      BY <1>1, <1>4 DEF SubOK, RowsOK, RowConsistent, ColumnsAgree
    <2>3. PICK j \in jobs[m] : j.id = e.job
      BY <1>4, <2>1, <2>2, NoJobIsNoId DEF QuietState, RowsAreAttended, KnowsJob
    <2>4. j \notin old
      <3>1. old \intersect Wanted(m) = {}
        BY <1>1, <1>3 DEF Forgets, Disturb
      <3> QED
        BY <1>4, <2>1, <2>3, <3>1 DEF Wanted
    <2>5. \A k \in jobs[m] : k.state # "lost"
      <3>1. "lost" \notin Verdicts
        BY JudgementsAssumption DEF Verdicts
      <3> QED
        BY <1>1, <1>4, <3>1 DEF CheckerTypeOK, Job
    <2> QED
      BY <1>3, <2>3, <2>4, <2>5 DEF AnswerJob
  <1>13. LossIsOutdated'
    <2> SUFFICES ASSUME NEW q \in Runners, NEW f \in collect'[q].todo,
                        collect'[q].at = "write", collect'[q].reply = "lost", InHand(q, f)'
                 PROVE  sub'[f.sub].claim # f.claim
      BY DEF LossIsOutdated
    <2>1. CASE q # r
      BY <1>5, <1>10, <2>1 DEF QuietState, LossIsOutdated, InHand, Asked
    <2>2. CASE q = r
      <3>1. InHand(r, f) /\ InHand(r, e) /\ reply = "lost"
        BY <1>3, <1>10, <2>2 DEF InHand, Asked, GotReply
      <3>2. f.sub \in Nat /\ e.sub \in Nat /\ f.sub <= e.sub /\ e.sub <= f.sub
        BY <1>1, <3>1, EntriesAreTyped, SubmissionsAssumption, InvParts
        DEF InHand, IsOldest, Asked
      <3>3. f = e
        BY <3>1, <3>2 DEF QuietState, EntriesDiffer, InHand
      <3> QED
        BY <1>5, <1>12, <3>1, <3>3
    <2> QED
      BY <2>1, <2>2
  <1> QED
    BY <1>8, <1>9, <1>11, <1>13 DEF QuietState, RowsStay

(* The health loop, the machines and the users where nothing went wrong. *)
LEMMA QuietHealth ==
  ASSUME JudgingInv, JudgingInv', QuietState, NEW r \in Runners,
         HealthWrites(r) \/ AskHealth(r)
  PROVE  QuietState'
  <1>1. health \in [Runners -> HealthState]
    BY InvParts DEF HealthTypeOK
  <1>2. health[r].at \notin {"silent", "marked"}
    BY DEF QuietState, NothingIsDown
  <1>3. /\ \A q \in Runners \ {r} : health'[q] = health[q]
        /\ health'[r].at \notin {"silent", "marked"}
        /\ UNCHANGED sub
    <2>1. CASE ListMachines(r) \/ WriteReachable(r)
      BY <1>1, <2>1 DEF ListMachines, WriteReachable, NextMachine, IdleHealth, HealthState, store
    <2>2. CASE AskHealth(r)
      BY <1>1, <2>2 DEF AskHealth, HealthAnswered, store
    <2> QED
      BY <1>2, <2>1, <2>2 DEF HealthWrites, WriteUnreachable, LoseItsWork
  <1>4. UNCHANGED dispatchVars /\ UNCHANGED <<jobs, server, alive, collect>>
    BY DEF HealthWrites, AskHealth, AnswerHealth, checkerVars, runnerVars
  <1>5. NothingIsDown'
    BY <1>3, <1>4 DEF QuietState, NothingIsDown
  <1>6. /\ RowsStay /\ HandsOn /\ PostsFit' /\ JobsOn /\ JobsAreKnown'
        /\ EntriesDiffer' /\ LossIsOutdated'
    BY <1>3, <1>4, QuietUntouched
  <1>7. RowsAreAttended'
    BY <1>6, AttendanceKept DEF QuietState
  <1> QED
    BY <1>5, <1>6, <1>7 DEF QuietState, RowsStay

(* A request that arrives names a job its machine knows, to the pass that  *)
(* sent it or to nobody.                                                   *)
LEMMA QuietAnswered ==
  ASSUME JudgingInv, JudgingInv', QuietState, NEW p, NEW step \in InHandSteps, NEW job,
         Answered(p, step, job), step = "accepted" => KnowsJob(p.to, job)', JobsOn,
         UNCHANGED <<collect, health, server, alive>>
  PROVE  QuietState'
  <1>1. dispatch \in [Runners -> DispatchState] /\ p \in posts /\ p.sub # NoSubmission
    <2>1. p \in posts /\ posts \subseteq Posts
      BY DEF Answered, JudgingInv, TypeOK, DispatchTypeOK
    <2> QED
      BY <2>1, SubmissionsAssumption DEF JudgingInv, TypeOK, DispatchTypeOK, Posts
  <1>2. posts' = posts \ {p} /\ UNCHANGED sub
    BY DEF Answered, store
  <1>3. ASSUME NEW q \in Runners
        PROVE  /\ dispatch'[q].cur = dispatch[q].cur /\ dispatch'[q].claim = dispatch[q].claim
               /\ dispatch'[q].to = dispatch[q].to
               /\ dispatch[q].at \in InHandSteps => dispatch'[q].at \in InHandSteps
    BY <1>1 DEF Answered, DispatchState, Awaits, InHandSteps
  <1>4. HandsOn
    BY <1>3 DEF HandsOn, HasInHand
  <1>5. PostsFit'
    BY <1>2, <1>3 DEF QuietState, PostsFit
  <1>6. JobsAreKnown'
    <2> SUFFICES ASSUME NEW q \in Runners, dispatch'[q].at = "accepted"
                 PROVE  \E j \in jobs'[dispatch'[q].to] : j.id = dispatch'[q].job
      BY DEF JobsAreKnown, KnowsJob
    <2>1. CASE Awaits(q, p)
      <3>1. dispatch'[q] = [dispatch[q] EXCEPT !.at = step, !.job = job]
        BY <2>1 DEF Answered
      <3>2. step = "accepted" /\ dispatch'[q].job = job
        BY <1>1, <3>1 DEF DispatchState
      <3>3. p.to = dispatch'[q].to
        BY <1>1, <1>3, <2>1 DEF QuietState, PostsFit, Awaits
      <3>4. \E j \in jobs'[p.to] : j.id = job
        BY <3>2 DEF KnowsJob, Answered
      <3> QED
        BY <3>2, <3>3, <3>4
    <2>2. CASE ~Awaits(q, p)
      <3>1. dispatch'[q] = dispatch[q]
        BY <2>2 DEF Answered
      <3>2. dispatch[q].to \in Machines
        BY <3>1, InvParts DEF DispatchOK, DispatchTypeOK, DispatchState, HandIsFull,
                              HandFits, InHandSteps
      <3>3. KnowsJob(dispatch[q].to, dispatch[q].job) /\ IsWanted(dispatch[q].to, dispatch[q].job)
        BY <3>1 DEF QuietState, JobsAreKnown, IsWanted
      <3> QED
        BY <3>1, <3>2, <3>3 DEF JobsOn, KnowsJob
    <2> QED
      BY <2>1, <2>2
  <1>7. RowsStay /\ NothingIsDown' /\ EntriesDiffer' /\ LossIsOutdated'
    BY <1>2, QuietUntouched
  <1>8. RowsAreAttended'
    BY <1>4, <1>7, AttendanceKept DEF QuietState
  <1> QED
    BY <1>4, <1>5, <1>6, <1>7, <1>8 DEF QuietState, RowsStay

LEMMA QuietHandlePost ==
  ASSUME JudgingInv, JudgingInv', QuietState, NEW p \in posts, HandlePost(p),
         disturbed' = disturbed
  PROVE  QuietState'
  <1> DEFINE m == p.to
             own == <<p.sub, p.claim>>
  <1>1. m \in Machines /\ disturbed \in Nat /\ CheckerTypeOK /\ server[m] = "up"
    <2>1. p \in Posts
      BY DEF JudgingInv, TypeOK, DispatchTypeOK
    <2> QED
      BY <2>1, InvParts DEF Posts, RunnersOK, QuietState, NothingIsDown
  <1>2. PICK old \in SUBSET FinishedJobs(m) :
          /\ Forgets(m, old)
          /\ \/ StartJob(m, own, old) /\ Answered(p, "accepted", own)
             \/ \E j \in RunningFor(m, p.sub) :
                  RepeatJob(m, p.sub, j.id, old) /\ Answered(p, "accepted", j.id)
             \/ RefuseFull(m, p.sub, old) /\ Answered(p, "refused", NoJob)
    BY <1>1 DEF HandlePost, RefuseClosed
  <1>3. UNCHANGED <<collect, health, server, alive>>
    BY <1>2 DEF HandlePost, StartJob, RepeatJob, RefuseFull, runnerVars
  <1>4. DOMAIN jobs = Machines
    BY <1>1 DEF CheckerTypeOK
  <1>5. CASE StartJob(m, own, old) /\ Answered(p, "accepted", own)
    <2>1. /\ jobs'[m] = (jobs[m] \ old) \union {Started(own)}
          /\ \A n \in Machines \ {m} : jobs'[n] = jobs[n]
      BY <1>1, <1>4, <1>5 DEF StartJob
    <2>2. JobsOn
      BY <1>1, <1>2, <2>1, ForgettingIsQuiet
    <2>3. KnowsJob(m, own)'
      <3>1. Started(own) \in jobs'[m] /\ Started(own).id = own
        BY <2>1 DEF Started
      <3> QED
        BY <3>1 DEF KnowsJob
    <2> QED
      BY <1>3, <1>5, <2>2, <2>3, QuietAnswered DEF InHandSteps
  <1>6. ASSUME NEW j \in RunningFor(m, p.sub), RepeatJob(m, p.sub, j.id, old),
               Answered(p, "accepted", j.id)
        PROVE  QuietState'
    <2>1. jobs'[m] = jobs[m] \ old /\ \A n \in Machines \ {m} : jobs'[n] = jobs[n]
      BY <1>1, <1>4, <1>6 DEF RepeatJob
    <2>2. JobsOn
      BY <1>1, <1>2, <2>1, ForgettingIsQuiet
    <2>3. KnowsJob(m, j.id)'
      BY <2>1 DEF KnowsJob, RunningFor, RunningJobs, FinishedJobs
    <2> QED
      BY <1>3, <1>6, <2>2, <2>3, QuietAnswered DEF InHandSteps
  <1>7. CASE RefuseFull(m, p.sub, old) /\ Answered(p, "refused", NoJob)
    <2>1. jobs'[m] = jobs[m] \ old /\ \A n \in Machines \ {m} : jobs'[n] = jobs[n]
      BY <1>1, <1>4, <1>7 DEF RefuseFull
    <2>2. JobsOn
      BY <1>1, <1>2, <2>1, ForgettingIsQuiet
    <2> QED
      BY <1>3, <1>7, <2>2, QuietAnswered DEF InHandSteps
  <1> QED
    BY <1>2, <1>5, <1>6, <1>7

LEMMA QuietJudgeStep ==
  ASSUME JudgingInv, JudgingInv', QuietState, NEW m \in Machines, JudgeStep(m)
  PROVE  QuietState'
  <1>1. PICK j \in RunningJobs(m), v \in Judgements :
          jobs' = [jobs EXCEPT ![m] = (@ \ {j}) \union {[j EXCEPT !.state = v]}]
    BY DEF JudgeStep, JudgeEnds, FinishJob
  <1>2. CheckerTypeOK /\ jobs[m] \subseteq Job /\ DOMAIN jobs = Machines
    BY InvParts DEF CheckerTypeOK
  <1>3. [j EXCEPT !.state = v].id = j.id
    BY <1>2 DEF RunningJobs, Job
  <1>4. ASSUME NEW n \in Machines, NEW id, KnowsJob(n, id)
        PROVE  KnowsJob(n, id)'
    <2>1. PICK k \in jobs[n] : k.id = id
      BY <1>4 DEF KnowsJob
    <2>2. CASE n = m /\ k = j
      <3>1. [j EXCEPT !.state = v] \in jobs'[n]
        BY <1>1, <1>2, <2>2
      <3> QED
        BY <1>3, <2>1, <2>2, <3>1 DEF KnowsJob
    <2>3. CASE ~(n = m /\ k = j)
      <3>1. k \in jobs'[n]
        BY <1>1, <1>2, <2>1, <2>3
      <3> QED
        BY <2>1, <3>1 DEF KnowsJob
    <2> QED
      BY <2>2, <2>3
  <1>5. JobsOn
    BY <1>4 DEF JobsOn
  <1>6. UNCHANGED <<sub, alive, health, server, collect>> /\ UNCHANGED dispatchVars
    BY DEF JudgeStep, JudgeEnds, FinishJob, store, loopVars, runnerVars, dispatchVars
  <1>7. /\ RowsStay /\ HandsOn /\ PostsFit' /\ JobsAreKnown' /\ NothingIsDown'
        /\ EntriesDiffer' /\ LossIsOutdated'
    BY <1>5, <1>6, QuietUntouched
  <1>8. RowsAreAttended'
    BY <1>5, <1>7, AttendanceKept DEF QuietState
  <1> QED
    BY <1>7, <1>8 DEF QuietState, RowsStay

LEMMA QuietLosePost ==
  ASSUME JudgingInv, JudgingInv', QuietState, NEW p \in posts, LosePost(p)
  PROVE  QuietState'
  <1>1. Answered(p, "refused", NoJob) /\ UNCHANGED <<collect, health, server, alive, jobs>>
    BY DEF LosePost, PostFails, checkerVars, runnerVars
  <1>2. JobsOn
    BY <1>1, QuietUntouched
  <1> QED
    BY <1>1, <1>2, QuietAnswered DEF InHandSteps

LEMMA QuietUsers ==
  ASSUME JudgingInv, JudgingInv', QuietState,
         \/ \E s \in Submissions : Submit(s)
         \/ \E m \in Machines : Operate(m)
         \/ UNCHANGED vars
  PROVE  QuietState'
  <1>1. SubOK
    BY InvParts
  <1>2. RowsStay
    <2>1. ASSUME NEW s \in Submissions, Submit(s)
          PROVE  RowsStay
      <3>1. Settles
        BY <1>1, <2>1, CreateSubmissionStep, SubStepKeeps DEF Submit
      <3>2. QuietRow(QueuedRow)
        BY DEF QuietRow, QueuedRow, AbsentRow
      <3>3. \A t \in Submissions : QuietRow(sub'[t])
        BY <1>1, <2>1, <3>2 DEF Submit, CreateSubmission, SubOK, QuietState
      <3> QED
        BY <3>1, <3>3 DEF RowsStay
    <2> QED
      BY <2>1, QuietUntouched DEF Operate, SetMachineEnabled, vars
  <1>3. UNCHANGED <<alive, health, server, collect, jobs>> /\ UNCHANGED dispatchVars
    BY DEF Submit, Operate, vars, loopVars, checkerVars, runnerVars, dispatchVars
  <1>4. /\ HandsOn /\ PostsFit' /\ JobsOn /\ JobsAreKnown' /\ NothingIsDown'
        /\ EntriesDiffer' /\ LossIsOutdated'
    BY <1>2, <1>3, QuietUntouched
  <1>5. RowsAreAttended'
    BY <1>2, <1>4, AttendanceKept DEF QuietState
  <1> QED
    BY <1>2, <1>4, <1>5 DEF QuietState, RowsStay

(* Of the rest nothing can happen: it is a mishap, or follows one. *)
LEMMA NoMishap ==
  ASSUME JudgingInv, QuietState, disturbed' = disturbed
  PROVE  /\ \A r \in Runners :
              ~(DropPost(r) \/ AskInVain(r) \/ AskHealthInVain(r) \/ PassFails(r)
                  \/ RunnerCrashes(r) \/ StartRunner(r))
         /\ \A m \in Machines : ~(CheckerStep(m) \/ CheckerMishap(m))
         /\ \A s \in Submissions : ~(LeaseRunsOut(s) \/ LeaseRunsOutEarly(s))
  <1>1. \A kind : ~Disturb(kind)
    BY InvParts DEF RunnersOK, Disturb
  <1>2. \A m \in Machines : server[m] = "up" /\ ~MaybeSilent(m)
    BY DEF QuietState, NothingIsDown, MaybeSilent
  <1>3. \A r \in Runners : alive[r]
    BY DEF QuietState, NothingIsDown
  <1>4. \A r \in Runners : \A e \in collect[r].todo : e.machine \in Machines
    BY InvParts, EntriesAreTyped
  <1>5. \A r \in Runners :
          ~(DropPost(r) \/ AskInVain(r) \/ AskHealthInVain(r) \/ PassFails(r)
              \/ RunnerCrashes(r) \/ StartRunner(r))
    BY <1>1, <1>2, <1>3, <1>4
    DEF DropPost, AskInVain, AskHealthInVain, PassFails, RunnerCrashes, StartRunner
  <1>6. \A m \in Machines : ~(CheckerStep(m) \/ CheckerMishap(m))
    BY <1>1, <1>2 DEF CheckerStep, CheckerMishap, StopJob, Exit, StartChecker
  <1>7. ASSUME NEW s \in Submissions
        PROVE  ~(LeaseRunsOut(s) \/ LeaseRunsOutEarly(s))
    <2>1. sub[s].lease = "live" => sub[s].status = "running"
      BY InvParts DEF SubOK, RowsOK, RowConsistent, ColumnsAgree
    <2>2. sub[s].lease = "live" /\ sub[s].job = NoJob => Attended(s)
      BY <1>3, <2>1 DEF Attended, QuietState, RowsAreAttended, HasInHand
    <2>3. sub[s].lease = "live" => \E r \in Runners : alive[r]
      BY <1>3, <2>1 DEF QuietState, RowsAreAttended
    <2> QED
      BY <1>1, <2>2, <2>3 DEF LeaseRunsOut, LeaseRunsOutEarly, LeaseExpires, Attended
  <1> QED
    BY <1>5, <1>6, <1>7

LEMMA NextQuiet ==
  ASSUME JudgingInv, disturbed = 0 => QuietState, [Next]_vars
  PROVE  disturbed' = 0 => QuietState'
  <1> SUFFICES ASSUME disturbed' = 0 PROVE QuietState'
    OBVIOUS
  <1>1. JudgingInv' /\ disturbed \in Nat
    BY NextKeeps, InvParts DEF RunnersOK
  <1>2. disturbed' = disturbed \/ disturbed' = disturbed + 1
    <2>1. ASSUME NEW m \in Machines, NEW old, Forgets(m, old)
          PROVE  disturbed' = disturbed \/ disturbed' = disturbed + 1
      BY <2>1 DEF Forgets, Disturb
    <2>2. \A kind : Disturb(kind) => disturbed' = disturbed + 1
      BY DEF Disturb
    <2> QED
      BY <2>2
      DEF Next, DispatchStep, DropPost, CollectWrites, AskForJob, AskInVain, HealthWrites,
          AskHealth, AskHealthInVain, PassFails, RunnerCrashes, StartRunner, HandlePost,
          LosePost, CheckerStep, JudgeStep, CheckerMishap, Operate, Submit, LeaseRunsOut,
          LeaseRunsOutEarly, Forgets, vars
  <1>3. disturbed' = disturbed /\ QuietState
    BY <1>1, <1>2
  <1>4. ASSUME NEW r \in Runners,
               \/ DispatchStep(r) \/ DropPost(r)
               \/ CollectWrites(r) \/ AskForJob(r) \/ AskInVain(r)
               \/ HealthWrites(r) \/ AskHealth(r) \/ AskHealthInVain(r)
               \/ PassFails(r) \/ RunnerCrashes(r) \/ StartRunner(r)
        PROVE  QuietState'
    BY <1>1, <1>3, <1>4, NoMishap, QuietDispatchStep, QuietCollectWrites, QuietAskForJob,
       QuietHealth
  <1>5. ASSUME NEW p \in posts, HandlePost(p) \/ LosePost(p)
        PROVE  QuietState'
    BY <1>1, <1>3, <1>5, QuietHandlePost, QuietLosePost
  <1>6. ASSUME NEW m \in Machines,
               CheckerStep(m) \/ JudgeStep(m) \/ CheckerMishap(m) \/ Operate(m)
        PROVE  QuietState'
    BY <1>1, <1>3, <1>6, NoMishap, QuietJudgeStep, QuietUsers
  <1>7. ASSUME NEW s \in Submissions,
               Submit(s) \/ LeaseRunsOut(s) \/ LeaseRunsOutEarly(s)
        PROVE  QuietState'
    BY <1>1, <1>3, <1>7, NoMishap, QuietUsers
  <1>8. CASE UNCHANGED vars
    BY <1>1, <1>3, <1>8, QuietUsers
  <1> QED
    BY <1>4, <1>5, <1>6, <1>7, <1>8 DEF Next

LEMMA InitQuiet == Init => QuietState
  <1> SUFFICES ASSUME Init PROVE QuietState
    OBVIOUS
  <1>1. \A s \in Submissions : QuietRow(sub[s]) /\ sub[s].status # "running"
    BY DEF Init, StoreInit, AbsentRow, QuietRow
  <1>2. \A r \in Runners : collect[r].todo = {}
    BY DEF Init, CollectInit, IdleCollect
  <1>3. NothingIsDown
    BY DEF Init, HealthInit, IdleHealth, CheckerInit, NothingIsDown
  <1>4. PostsFit /\ JobsAreKnown
    BY DEF Init, DispatchInit, IdleDispatch, PostsFit, JobsAreKnown
  <1> QED
    BY <1>1, <1>2, <1>3, <1>4 DEF QuietState, RowsAreAttended, EntriesDiffer, LossIsOutdated

(* As long as nothing goes wrong nothing is lost: no submission is handed  *)
(* out twice, none is called lost or given up, and one that comes back to  *)
(* the queue has its attempt again, whatever the number of submissions,    *)
(* machines and runners and however their steps interleave.                *)
THEOREM QuietLosesNothing == Spec => []QuietSystemLosesNothing
  <1>1. JudgingInv /\ (disturbed = 0 => QuietState) /\ [Next]_vars
          => (disturbed = 0 => QuietState)'
    BY NextQuiet
  <1>2. Init => (disturbed = 0 => QuietState)
    BY InitQuiet
  <1>3. (disturbed = 0 => QuietState) => QuietSystemLosesNothing
    BY DEF QuietState, QuietRow, QuietSystemLosesNothing
  <1> QED
    BY <1>1, <1>2, <1>3, JudgingInvHolds, PTL DEF Spec
=============================================================================
