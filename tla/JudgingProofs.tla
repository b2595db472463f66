---------------------------- MODULE JudgingProofs ----------------------------
(***************************************************************************)
(* Proofs that the judging system keeps JudgingInv, for any submissions,   *)
(* machines, runners, limits and capacities, and what follows from it.     *)
(***************************************************************************)
EXTENDS JudgingProperties, FiniteSetTheorems, TLAPS

-----------------------------------------------------------------------------
(* A row that is well typed and whose columns agree, and what every        *)
(* statement does to such a row.                                           *)
RowOK(row) ==
  row \in SubmissionRow /\ ColumnsAgree(row) /\ NoteFits(row) /\ AttemptsFit(row)

SubOK == sub \in [Submissions -> SubmissionRow] /\ RowsOK

(* A job id names a submission and a claim; NoJob names neither. *)
LEMMA NoJobIsNoId == NoJob \notin JobIds
  BY SubmissionsAssumption DEF NoJob, JobIds, NoSubmission

(* Every attempt limit allows one attempt at least (readPositiveInteger). *)
LEMMA LimitsArePositive ==
  \A max \in AttemptLimits : max \in Nat /\ max > 0
  BY AttemptLimitsAssumption

(* The tables hold good rows exactly if every row is good. *)
LEMMA SubOKByRow ==
  SubOK <=> /\ sub \in [Submissions -> SubmissionRow]
            /\ \A s \in Submissions : RowOK(sub[s])
  BY DEF SubOK, RowsOK, RowConsistent, NoteFitsStatus, AttemptsWithinLimit, RowOK

(* CreateSubmission inserts a good row. *)
LEMMA QueuedRowOK == RowOK(QueuedRow)
  <1>1. QueuedRow \in SubmissionRow
    BY DEF QueuedRow, AbsentRow, SubmissionRow, Statuses, PendingStatuses, Leases, Notes
  <1>2. PICK max \in AttemptLimits : 0 < max
    BY AttemptLimitsAssumption, LimitsArePositive
  <1>3. QueuedRow.status \notin Verdicts
    BY JudgementsAssumption DEF QueuedRow, AbsentRow, Verdicts
  <1> QED
    BY <1>1, <1>2, <1>3
    DEF RowOK, QueuedRow, AbsentRow, ColumnsAgree, NoteFits, AttemptsFit, WasJudged

(* Taking a queued submission leaves a good row: it had an attempt left.   *)
LEMMA ClaimedRowOK ==
  ASSUME NEW row, RowOK(row), row.status = "queued",
         NEW c \in ClaimIds, NEW m \in Machines
  PROVE  RowOK(ClaimedRow(row, c, m))
  <1> DEFINE new == ClaimedRow(row, c, m)
  <1>1. new \in SubmissionRow
    <2>1. row.attempts \in Nat /\ row.attempts + 1 \in Nat
      BY DEF RowOK, SubmissionRow
    <2> QED
      BY <2>1 DEF RowOK, ClaimedRow, SubmissionRow, Statuses, PendingStatuses, Leases, Notes
  <1>2. /\ new.status = "running" /\ new.claim = c /\ new.machine = m /\ new.job = NoJob
        /\ new.lease = "live" /\ new.attempts = row.attempts + 1 /\ new.note = "none"
    BY DEF RowOK, ClaimedRow, SubmissionRow
  <1>3. PICK max \in AttemptLimits : row.attempts < max
    BY DEF RowOK, AttemptsFit
  <1>4. row.attempts \in Nat /\ max \in Nat
    BY LimitsArePositive DEF RowOK, SubmissionRow
  <1>5. AttemptsFit(new)
    BY <1>2, <1>3, <1>4 DEF AttemptsFit
  <1>6. ColumnsAgree(new) /\ NoteFits(new)
    BY <1>2, <1>4, ClaimIdsAssumption, MachinesAssumption DEF ColumnsAgree, NoteFits
  <1> QED
    BY <1>1, <1>5, <1>6 DEF RowOK
(* A full or silent machine gives the submission back: the attempt that is *)
(* returned is the one the claim spent.                                    *)
LEMMA UndoneRowOK ==
  ASSUME NEW row, RowOK(row), row.status = "running"
  PROVE  RowOK(UndoneRow(row))
  <1> DEFINE new == UndoneRow(row)
  <1>1. row.attempts \in Nat /\ row.attempts > 0
    BY DEF RowOK, ColumnsAgree, SubmissionRow
  <1>2. new \in SubmissionRow
    <2>1. row.attempts - 1 \in Nat /\ row.attempts # 0
      BY <1>1
    <2> QED
      BY <2>1 DEF RowOK, UndoneRow, SubmissionRow, Statuses, PendingStatuses, Leases, Notes
  <1>3. /\ new.status = "queued" /\ new.claim = NoClaim /\ new.machine = NoMachine
        /\ new.job = NoJob /\ new.lease = "none" /\ new.attempts = row.attempts - 1
        /\ new.note = "unavailable"
    BY <1>1 DEF RowOK, UndoneRow, SubmissionRow
  <1>4. PICK max \in AttemptLimits : row.attempts <= max
    BY <1>1 DEF RowOK, AttemptsFit
  <1>5. max \in Nat
    BY LimitsArePositive
  <1>6. AttemptsFit(new)
    BY <1>1, <1>3, <1>4, <1>5 DEF AttemptsFit
  <1>7. "queued" \notin Verdicts
    BY JudgementsAssumption DEF Verdicts
  <1>8. ColumnsAgree(new) /\ NoteFits(new)
    BY <1>3, <1>7 DEF ColumnsAgree, NoteFits, WasJudged
  <1> QED
    BY <1>2, <1>6, <1>8 DEF RowOK

(* Losing a running submission leaves it queued with an attempt left, or   *)
(* finished with the note that says so.                                    *)
LEMMA LostRowOK ==
  ASSUME NEW row, RowOK(row), row.status = "running", NEW max \in AttemptLimits
  PROVE  RowOK(LostRow(row, max))
  <1> DEFINE new == LostRow(row, max)
  <1>1. row.attempts \in Nat /\ max \in Nat
    BY LimitsArePositive DEF RowOK, SubmissionRow
  <1>2. new \in SubmissionRow
    BY DEF RowOK, LostRow, SubmissionRow, Statuses, PendingStatuses, Leases, Notes
  <1>3. /\ new.claim = NoClaim /\ new.machine = NoMachine /\ new.job = NoJob
        /\ new.lease = "none" /\ new.attempts = row.attempts
        /\ \/ row.attempts >= max /\ new.status = "internal_error" /\ new.note = "exhausted"
           \/ ~(row.attempts >= max) /\ new.status = "queued" /\ new.note = "lost"
    BY DEF RowOK, LostRow, SubmissionRow
  <1>4. AttemptsFit(new)
    BY <1>1, <1>3 DEF RowOK, AttemptsFit
  <1>5. "queued" \notin Verdicts /\ "internal_error" \notin Verdicts
    BY JudgementsAssumption DEF Verdicts
  <1>6. ColumnsAgree(new) /\ NoteFits(new)
    BY <1>3, <1>5 DEF ColumnsAgree, NoteFits, WasJudged
  <1> QED
    BY <1>2, <1>4, <1>6 DEF RowOK

(* Giving a waiting submission up leaves a good row. *)
LEMMA StuckRowOK ==
  ASSUME NEW row, RowOK(row), row.status = "queued"
  PROVE  RowOK(StuckRow(row))
  <1> DEFINE new == StuckRow(row)
  <1>1. new \in SubmissionRow
    BY DEF RowOK, StuckRow, SubmissionRow, Statuses, PendingStatuses, Leases, Notes
  <1>2. /\ new.status = "internal_error" /\ new.claim = NoClaim /\ new.job = NoJob
        /\ new.lease = "none" /\ new.attempts = row.attempts
        /\ new.note = "exhausted" /\ new.machine = row.machine
    BY DEF RowOK, StuckRow, SubmissionRow
  <1>3. "queued" \notin Verdicts /\ "internal_error" \notin Verdicts
    BY JudgementsAssumption DEF Verdicts
  <1>4. ColumnsAgree(new) /\ NoteFits(new) /\ AttemptsFit(new)
    BY <1>2, <1>3 DEF RowOK, ColumnsAgree, NoteFits, AttemptsFit, WasJudged
  <1> QED
    BY <1>1, <1>4 DEF RowOK

(* Writing a result into a running row leaves a good row that still names  *)
(* the machine that judged it.                                             *)
LEMMA JudgedRowOK ==
  ASSUME NEW row, RowOK(row), row.status = "running", NEW v \in Verdicts
  PROVE  RowOK(JudgedRow(row, v))
  <1> DEFINE new == JudgedRow(row, v)
  <1>1. new \in SubmissionRow
    BY DEF RowOK, JudgedRow, SubmissionRow, Statuses, PendingStatuses, Leases, Notes
  <1>2. /\ new.status = v /\ new.claim = NoClaim /\ new.job = NoJob
        /\ new.lease = "none" /\ new.attempts = row.attempts
        /\ new.note = "none" /\ new.machine = row.machine
    BY DEF RowOK, JudgedRow, SubmissionRow
  <1>3. v \notin {"queued", "running", "internal_error"}
    BY JudgementsAssumption DEF Verdicts
  <1>4. ColumnsAgree(new) /\ NoteFits(new) /\ AttemptsFit(new)
    BY <1>2, <1>3 DEF RowOK, ColumnsAgree, NoteFits, AttemptsFit, WasJudged
  <1> QED
    BY <1>1, <1>4 DEF RowOK

(* So do naming the job, moving or ending the lease of a running row, and  *)
(* the note on a queued one.                                               *)
LEMMA TouchedRowOK ==
  ASSUME NEW row, RowOK(row)
  PROVE  /\ row.status = "running" =>
              /\ \A job \in JobIds : RowOK(AcceptedRow(row, job))
              /\ RowOK([row EXCEPT !.lease = "live"])
              /\ RowOK([row EXCEPT !.lease = "expired"])
         /\ row.status = "queued" => RowOK([row EXCEPT !.note = "unavailable"])
  <1>1. ASSUME row.status = "running", NEW job \in JobIds
        PROVE  RowOK(AcceptedRow(row, job))
    BY <1>1 DEF RowOK, AcceptedRow, SubmissionRow, Leases, ColumnsAgree, NoteFits,
                AttemptsFit, WasJudged
  <1>2. ASSUME row.status = "running", NEW lease \in {"live", "expired"}
        PROVE  RowOK([row EXCEPT !.lease = lease])
    BY <1>2 DEF RowOK, SubmissionRow, Leases, ColumnsAgree, NoteFits, AttemptsFit, WasJudged
  <1>3. ASSUME row.status = "queued"
        PROVE  RowOK([row EXCEPT !.note = "unavailable"])
    BY <1>3 DEF RowOK, SubmissionRow, Notes, ColumnsAgree, NoteFits, AttemptsFit, WasJudged
  <1> QED
    BY <1>1, <1>2, <1>3
-----------------------------------------------------------------------------
(* What a statement may do to a row without giving it a claim or a job:    *)
(* the rows of every action but Claim and RecordJob move like this.        *)
Touches(row, new) ==
  \/ row.status = "running" /\ new = [row EXCEPT !.lease = "live"]
  \/ row.status = "running" /\ new = [row EXCEPT !.lease = "expired"]
  \/ row.status = "queued" /\ new = [row EXCEPT !.note = "unavailable"]

Frees(row, new) ==
  \/ row.status = "running" /\ new = UndoneRow(row)
  \/ row.status = "running" /\ \E max \in AttemptLimits : new = LostRow(row, max)
  \/ row.status = "running" /\ \E v \in Verdicts : new = JudgedRow(row, v)
  \/ row.status = "queued" /\ new = StuckRow(row)
  \/ row.status = "absent" /\ new = QueuedRow

RowStep(row, new) == new = row \/ Touches(row, new) \/ Frees(row, new)

SameHandle(row, new) ==
  new.claim = row.claim /\ new.machine = row.machine /\ new.job = row.job

(* Such a move keeps a row good, keeps its claim with the machine and the  *)
(* job, or takes the claim away, and leaves a final row alone.             *)
LEMMA RowStepKeeps ==
  ASSUME NEW row, NEW new, RowOK(row), RowStep(row, new)
  PROVE  /\ RowOK(new)
         /\ SameHandle(row, new) \/ new.claim = NoClaim
         /\ IsFinal(row) => new = row
  <1>1. IsFinal(row) => row.status \notin {"absent", "queued", "running"}
    BY JudgementsAssumption DEF IsFinal, Verdicts
  <1>2. CASE new = row
    BY <1>2 DEF SameHandle
  <1>3. CASE Touches(row, new)
    <2>1. RowOK(new)
      BY <1>3, TouchedRowOK DEF Touches
    <2>2. SameHandle(row, new)
      BY <1>3 DEF Touches, SameHandle, RowOK, SubmissionRow
    <2> QED
      BY <1>1, <1>3, <2>1, <2>2 DEF Touches
  <1>4. CASE Frees(row, new)
    <2>1. RowOK(new)
      BY <1>4, UndoneRowOK, LostRowOK, JudgedRowOK, StuckRowOK, QueuedRowOK DEF Frees
    <2>2. new.claim = NoClaim
      BY <1>4 DEF Frees, UndoneRow, LostRow, JudgedRow, StuckRow, QueuedRow, AbsentRow,
                  RowOK, SubmissionRow
    <2> QED
      BY <1>1, <1>4, <2>1, <2>2 DEF Frees
  <1> QED
    BY <1>2, <1>3, <1>4 DEF RowStep

(* The same of the whole table. *)
SubStep ==
  /\ sub' = [s \in Submissions |-> sub'[s]]
  /\ \A s \in Submissions : RowStep(sub[s], sub'[s])

Settles ==
  \A s \in Submissions : SameHandle(sub[s], sub'[s]) \/ sub'[s].claim = NoClaim

FinalsStay == \A s \in Submissions : IsFinal(sub[s]) => sub'[s] = sub[s]

(* A table of good rows is a good table, in the next state as well. *)
LEMMA SubOKNext ==
  ASSUME sub' = [s \in Submissions |-> sub'[s]],
         \A s \in Submissions : RowOK(sub'[s])
  PROVE  SubOK'
  <1>1. sub' \in [Submissions -> SubmissionRow]
    BY DEF RowOK
  <1> QED
    BY <1>1 DEF SubOK, RowsOK, RowConsistent, NoteFitsStatus, AttemptsWithinLimit, RowOK

LEMMA SubStepKeeps ==
  ASSUME SubOK, SubStep
  PROVE  SubOK' /\ Settles /\ FinalsStay
  <1>1. ASSUME NEW s \in Submissions
        PROVE  /\ RowOK(sub'[s])
               /\ SameHandle(sub[s], sub'[s]) \/ sub'[s].claim = NoClaim
               /\ IsFinal(sub[s]) => sub'[s] = sub[s]
    <2>1. RowOK(sub[s]) /\ RowStep(sub[s], sub'[s])
      BY SubOKByRow DEF SubStep
    <2> QED
      BY <2>1, RowStepKeeps
  <1>2. SubOK'
    BY <1>1, SubOKNext DEF SubStep
  <1> QED
    BY <1>1, <1>2 DEF Settles, FinalsStay

LEMMA SubUnchanged ==
  ASSUME SubOK, UNCHANGED sub
  PROVE  SubStep
  BY DEF SubOK, SubStep, RowStep

-----------------------------------------------------------------------------
(* The statements of judging.ts and their neighbours are such steps. *)
LEMMA LoseRunningStep ==
  ASSUME SubOK, NEW S, NEW max \in AttemptLimits, LoseRunning(S, max)
  PROVE  SubStep
  BY DEF LoseRunning, CanBeLost, SubStep, RowStep, Frees

LEMMA LoseClaimStep ==
  ASSUME SubOK, NEW s, NEW c, NEW max \in AttemptLimits, LoseClaim(s, c, max)
  PROVE  SubStep
  BY LoseRunningStep DEF LoseClaim

LEMMA LoseOfMachineStep ==
  ASSUME SubOK, NEW m, NEW max \in AttemptLimits, LoseOfMachine(m, max)
  PROVE  SubStep
  BY LoseRunningStep DEF LoseOfMachine

LEMMA UndoClaimStep ==
  ASSUME SubOK, NEW s \in Submissions, NEW c, UndoClaim(s, c)
  PROVE  SubStep
  BY DEF SubOK, UndoClaim, UpdateRow, HoldsRunningClaim, SubStep, RowStep, Frees

LEMMA ExtendLeaseStep ==
  ASSUME SubOK, NEW s \in Submissions, NEW c, ExtendLease(s, c)
  PROVE  SubStep
  BY DEF SubOK, ExtendLease, UpdateRow, HoldsRunningClaim, SubStep, RowStep, Touches

LEMMA LeaseExpiresStep ==
  ASSUME SubOK, NEW s \in Submissions, LeaseExpires(s)
  PROVE  SubStep
  <1>1. sub[s].status = "running"
    BY DEF SubOK, RowsOK, RowConsistent, ColumnsAgree, LeaseExpires
  <1> QED
    BY <1>1 DEF SubOK, LeaseExpires, SubStep, RowStep, Touches

LEMMA CreateSubmissionStep ==
  ASSUME SubOK, NEW s \in Submissions, CreateSubmission(s)
  PROVE  SubStep
  BY DEF SubOK, CreateSubmission, SubStep, RowStep, Frees

(* A pending row with the claim of an answer is running: the fence leaves  *)
(* no other row to write the result into.                                  *)
LEMMA MayBeJudgedRuns ==
  ASSUME SubOK, NEW s \in Submissions, NEW c, c # NoClaim, MayBeJudged(sub[s], c)
  PROVE  sub[s].status = "running"
  BY DEF SubOK, RowsOK, RowConsistent, ColumnsAgree, MayBeJudged, HoldsClaim

LEMMA ApplyResultStep ==
  ASSUME SubOK, NEW s \in Submissions, NEW c, c # NoClaim, NEW v \in Verdicts,
         ApplyResult(s, c, v)
  PROVE  SubStep
  <1>1. CASE MayBeJudged(sub[s], c)
    BY <1>1, MayBeJudgedRuns DEF SubOK, ApplyResult, SubStep, RowStep, Frees
  <1>2. CASE ~MayBeJudged(sub[s], c)
    BY <1>2, SubUnchanged DEF ApplyResult, store
  <1> QED
    BY <1>1, <1>2
-----------------------------------------------------------------------------
(* The dispatch passes: their local states stay well formed, and a pass    *)
(* holds on to the submission, claim and machine it has in hand or lets go *)
(* of them.                                                                *)
DispatchOK == DispatchTypeOK /\ HandIsFull

SameHand(d, new) ==
  new.cur = NoSubmission \/ (new.cur = d.cur /\ new.claim = d.claim /\ new.to = d.to)

HandsShrink == \A r \in Runners : SameHand(dispatch[r], dispatch'[r])

LEMMA IdleDispatchFits == IdleDispatch \in DispatchState /\ HandFits(IdleDispatch)
  BY DEF IdleDispatch, DispatchState, DispatchSteps, HandFits, InHandSteps, NoSubmission

LEMMA OnePassMoves ==
  ASSUME DispatchOK, NEW r \in Runners, NEW d \in DispatchState, HandFits(d),
         dispatch' = [dispatch EXCEPT ![r] = d], posts' \subseteq Posts
  PROVE  /\ DispatchOK'
         /\ SameHand(dispatch[r], d) => HandsShrink
  <1>1. ASSUME NEW q \in Runners
        PROVE  dispatch'[q] = IF q = r THEN d ELSE dispatch[q]
    BY DEF DispatchOK, DispatchTypeOK
  <1>2. DispatchTypeOK'
    BY DEF DispatchOK, DispatchTypeOK
  <1>3. HandIsFull'
    BY <1>1 DEF DispatchOK, HandIsFull
  <1>4. SameHand(dispatch[r], d) => HandsShrink
    BY <1>1 DEF HandsShrink, SameHand
  <1> QED
    BY <1>2, <1>3, <1>4 DEF DispatchOK

LEMMA DispatchUnchanged ==
  ASSUME DispatchOK, UNCHANGED dispatch, posts' \subseteq Posts
  PROVE  DispatchOK' /\ HandsShrink
  BY DEF DispatchOK, DispatchTypeOK, HandIsFull, HandFits, HandsShrink, SameHand

(* Spare capacities are natural numbers: what is counted is finite. *)
LEMMA RoomIsNat ==
  ASSUME TypeOK
  PROVE  /\ \A m \in Machines : RoomSaid(m) \in Nat
         /\ \A spare \in [Machines -> Nat], m \in Machines : RoomLeft(spare, m) \in Nat
  <1>1. ASSUME NEW m \in Machines
        PROVE  Cardinality(HeldBy(m)) \in Nat
    BY SubmissionsAssumption, FS_Subset, FS_CardinalityType DEF HeldBy
  <1>2. \A m \in Machines : Capacity[m] \in Nat /\ mach[m].busy \in Nat
    BY CapacityAssumption DEF TypeOK, StoreTypeOK, MachineRow
  <1> QED
    BY <1>1, <1>2 DEF RoomSaid, RoomLeft, Minus, Lesser
(* Each step of a dispatch pass, as far as the pass itself is concerned.   *)
LEMMA SweepsMove ==
  ASSUME DispatchOK, NEW r \in Runners, NEW max,
         SweepLost(r, max) \/ SweepStuck(r, max)
  PROVE  DispatchOK' /\ HandsShrink
  <1> PICK step \in {"stuck", "machines"} :
        /\ dispatch[r].at \in {"idle", "stuck"}
        /\ dispatch' = [dispatch EXCEPT ![r].at = step]
        /\ posts' = posts
    BY DEF SweepLost, SweepStuck, Goto
  <1> DEFINE d == [dispatch[r] EXCEPT !.at = step]
  <1>1. dispatch[r] \in DispatchState /\ HandFits(dispatch[r]) /\ posts \subseteq Posts
    BY DEF DispatchOK, DispatchTypeOK, HandIsFull
  <1>2. d \in DispatchState /\ HandFits(d) /\ SameHand(dispatch[r], d)
    BY <1>1 DEF DispatchState, DispatchSteps, HandFits, InHandSteps, SameHand
  <1>3. dispatch' = [dispatch EXCEPT ![r] = d]
    OBVIOUS
  <1> QED
    BY <1>1, <1>2, <1>3, OnePassMoves

LEMMA ReadsMove ==
  ASSUME TypeOK, DispatchOK, NEW r \in Runners, NEW max,
         ReadMachines(r) \/ ReadHeld(r) \/ ReadQueue(r, max)
  PROVE  DispatchOK' /\ HandsShrink /\ UNCHANGED store
  <1> DEFINE d0 == dispatch[r]
  <1>1. d0 \in DispatchState /\ HandFits(d0) /\ posts \subseteq Posts
    BY DEF DispatchOK, DispatchTypeOK, HandIsFull
  <1>2. CASE ReadMachines(r)
    <2> DEFINE spare == [m \in Machines |-> IF IsFree(m) THEN RoomSaid(m) ELSE 0]
               d == [d0 EXCEPT !.at = "held", !.spare = spare]
    <2>1. spare \in [Machines -> Nat]
      BY RoomIsNat
    <2>2. d0.at = "machines" /\ dispatch' = [dispatch EXCEPT ![r] = d] /\ UNCHANGED <<store, posts>>
      BY <1>2 DEF ReadMachines
    <2>3. d \in DispatchState /\ HandFits(d) /\ SameHand(d0, d)
      BY <1>1, <2>1, <2>2 DEF DispatchState, DispatchSteps, HandFits, InHandSteps, SameHand
    <2> QED
      BY <1>1, <2>2, <2>3, OnePassMoves
  <1>3. CASE ReadHeld(r)
    <2> DEFINE spare == [m \in Machines |-> RoomLeft(d0.spare, m)]
               d == [d0 EXCEPT !.at = "queue", !.spare = spare]
    <2>1. spare \in [Machines -> Nat]
      BY <1>1, RoomIsNat DEF DispatchState
    <2>2. d0.at = "held" /\ dispatch' = [dispatch EXCEPT ![r] = d] /\ UNCHANGED <<store, posts>>
      BY <1>3 DEF ReadHeld
    <2>3. d \in DispatchState /\ HandFits(d) /\ SameHand(d0, d)
      BY <1>1, <2>1, <2>2 DEF DispatchState, DispatchSteps, HandFits, InHandSteps, SameHand
    <2> QED
      BY <1>1, <2>2, <2>3, OnePassMoves
  <1>4. CASE ReadQueue(r, max)
    <2> DEFINE queued == FirstOf(Waiting(max), DispatchBatch)
               d == IF queued = {} THEN IdleDispatch
                    ELSE [d0 EXCEPT !.at = "next", !.todo = queued]
    <2>1. queued \subseteq Submissions
      BY DEF FirstOf, Waiting
    <2>2. d0.at = "queue" /\ dispatch' = [dispatch EXCEPT ![r] = d] /\ UNCHANGED <<store, posts>>
      BY <1>4 DEF ReadQueue
    <2>3. d \in DispatchState /\ HandFits(d) /\ SameHand(d0, d)
      <3>1. CASE queued = {}
        BY <3>1, IdleDispatchFits DEF SameHand, IdleDispatch
      <3>2. CASE queued # {}
        BY <1>1, <2>1, <2>2, <3>2 DEF DispatchState, DispatchSteps, HandFits, InHandSteps, SameHand
      <3> QED
        BY <3>1, <3>2
    <2> QED
      BY <1>1, <2>2, <2>3, OnePassMoves
  <1> QED
    BY <1>2, <1>3, <1>4

LEMMA LoopMoves ==
  ASSUME DispatchOK, NEW r \in Runners, NEW s \in Submissions,
         Skip(r, s) \/ ClaimFindsNothing(r, s)
  PROVE  DispatchOK' /\ HandsShrink /\ UNCHANGED store
  <1> DEFINE d0 == dispatch[r]
  <1>1. d0 \in DispatchState /\ HandFits(d0) /\ posts \subseteq Posts
    BY DEF DispatchOK, DispatchTypeOK, HandIsFull
  <1> PICK waiting \in SUBSET Submissions :
        /\ d0.at = "next"
        /\ dispatch' = [dispatch EXCEPT ![r].todo = @ \ {s}, ![r].waiting = waiting]
        /\ UNCHANGED <<store, posts>>
    <2>1. CASE Skip(r, s)
      <3>1. d0.waiting \union {s} \in SUBSET Submissions
        BY <1>1 DEF DispatchState
      <3> QED
        BY <2>1, <3>1 DEF Skip, NextIs
    <2>2. CASE ClaimFindsNothing(r, s)
      <3>1. dispatch[r].waiting \in SUBSET Submissions
        BY <1>1 DEF DispatchState
      <3>2. [dispatch EXCEPT ![r].todo = @ \ {s}]
              = [dispatch EXCEPT ![r].todo = @ \ {s}, ![r].waiting = dispatch[r].waiting]
        BY <1>1 DEF DispatchState, DispatchOK, DispatchTypeOK
      <3> QED
        BY <2>2, <3>1, <3>2 DEF ClaimFindsNothing, NextIs
    <2> QED
      BY <2>1, <2>2
  <1> DEFINE d == [d0 EXCEPT !.todo = @ \ {s}, !.waiting = waiting]
  <1>2. dispatch' = [dispatch EXCEPT ![r] = d]
    OBVIOUS
  <1>3. d \in DispatchState /\ HandFits(d) /\ SameHand(d0, d)
    BY <1>1 DEF DispatchState, DispatchSteps, HandFits, InHandSteps, SameHand
  <1> QED
    BY <1>1, <1>2, <1>3, OnePassMoves
(* NextInLoop lets go of the submission in hand. *)
LEMMA NextInLoopMoves ==
  ASSUME DispatchOK, NEW r \in Runners, NEW spare \in [Machines -> Nat],
         NEW waiting \in SUBSET Submissions, NextInLoop(r, spare, waiting), UNCHANGED posts
  PROVE  DispatchOK' /\ HandsShrink
  <1> DEFINE d == [dispatch[r] EXCEPT !.at = "next", !.spare = spare, !.waiting = waiting,
                                      !.cur = NoSubmission, !.claim = NoClaim,
                                      !.to = NoMachine, !.job = NoJob]
  <1>1. dispatch[r] \in DispatchState /\ posts \subseteq Posts
    BY DEF DispatchOK, DispatchTypeOK
  <1>2. dispatch' = [dispatch EXCEPT ![r] = d]
    BY DEF NextInLoop
  <1>3. d \in DispatchState /\ HandFits(d) /\ SameHand(dispatch[r], d)
    BY <1>1 DEF DispatchState, DispatchSteps, HandFits, InHandSteps, SameHand
  <1> QED
    BY <1>1, <1>2, <1>3, OnePassMoves

LEMMA EndOfLoopMoves ==
  ASSUME DispatchOK, NEW r \in Runners,
         TakeBack(r) \/ RecordJob(r) \/ FinishPass(r)
  PROVE  DispatchOK' /\ HandsShrink
  <1> DEFINE d == dispatch[r]
  <1>1. d \in DispatchState /\ HandFits(d) /\ posts \subseteq Posts
    BY DEF DispatchOK, DispatchTypeOK, HandIsFull
  <1>2. CASE TakeBack(r)
    <2>1. d.at = "refused" /\ d.cur \in Submissions /\ d.to \in Machines
      BY <1>1, <1>2 DEF TakeBack, HandFits, InHandSteps, DispatchState
    <2>2. /\ [d.spare EXCEPT ![d.to] = 0] \in [Machines -> Nat]
          /\ d.waiting \union {d.cur} \in SUBSET Submissions
      BY <1>1, <2>1 DEF DispatchState
    <2>3. NextInLoop(r, [d.spare EXCEPT ![d.to] = 0], d.waiting \union {d.cur}) /\ UNCHANGED posts
      BY <1>2 DEF TakeBack
    <2> QED
      BY <2>2, <2>3, NextInLoopMoves
  <1>3. CASE RecordJob(r)
    <2>1. d.at = "accepted" /\ d.to \in Machines /\ d.spare[d.to] \in Nat /\ d.spare[d.to] > 0
      BY <1>1, <1>3 DEF RecordJob, HandFits, InHandSteps, DispatchState
    <2>2. d.spare[d.to] - 1 \in Nat
      BY <2>1
    <2>3. [d.spare EXCEPT ![d.to] = @ - 1] \in [Machines -> Nat] /\ d.waiting \in SUBSET Submissions
      BY <1>1, <2>2 DEF DispatchState
    <2>4. NextInLoop(r, [d.spare EXCEPT ![d.to] = @ - 1], d.waiting) /\ UNCHANGED posts
      BY <1>3 DEF RecordJob
    <2> QED
      BY <2>3, <2>4, NextInLoopMoves
  <1>4. CASE FinishPass(r)
    <2>1. dispatch' = [dispatch EXCEPT ![r] = IdleDispatch] /\ posts' = posts
      BY <1>4 DEF FinishPass
    <2> QED
      BY <1>1, <2>1, IdleDispatchFits, OnePassMoves DEF SameHand, IdleDispatch
  <1> QED
    BY <1>2, <1>3, <1>4

LEMMA DispatchPassFailsMoves ==
  ASSUME DispatchOK, NEW r \in Runners,
         dispatch' = [dispatch EXCEPT ![r] = IdleDispatch], posts' = posts
  PROVE  DispatchOK' /\ HandsShrink
  <1>1. posts \subseteq Posts
    BY DEF DispatchOK, DispatchTypeOK
  <1> QED
    BY <1>1, IdleDispatchFits, OnePassMoves DEF SameHand, IdleDispatch

LEMMA PostTimesOutMoves ==
  ASSUME DispatchOK, NEW r \in Runners, PostTimesOut(r)
  PROVE  DispatchOK' /\ HandsShrink /\ UNCHANGED store
  <1> DEFINE d == [dispatch[r] EXCEPT !.at = "refused"]
  <1>1. dispatch[r] \in DispatchState /\ HandFits(dispatch[r]) /\ posts \subseteq Posts
    BY DEF DispatchOK, DispatchTypeOK, HandIsFull
  <1>2. /\ dispatch[r].at = "posted" /\ dispatch' = [dispatch EXCEPT ![r] = d]
        /\ UNCHANGED <<store, posts>>
    BY DEF PostTimesOut, Goto
  <1>3. d \in DispatchState /\ HandFits(d) /\ SameHand(dispatch[r], d)
    BY <1>1, <1>2 DEF DispatchState, DispatchSteps, HandFits, InHandSteps, SameHand
  <1> QED
    BY <1>1, <1>2, <1>3, OnePassMoves

(* An answer reaches whoever awaits it, and leaves the hand full. *)
LEMMA AnsweredMoves ==
  ASSUME DispatchOK, NEW p \in posts, NEW step, NEW job,
         \/ step = "accepted" /\ job \in JobIds
         \/ step = "refused" /\ job = NoJob,
         Answered(p, step, job)
  PROVE  DispatchOK' /\ HandsShrink /\ UNCHANGED store
  <1>1. ASSUME NEW r \in Runners
        PROVE  /\ dispatch'[r] \in DispatchState
               /\ HandFits(dispatch'[r])
               /\ SameHand(dispatch[r], dispatch'[r])
    <2>1. dispatch[r] \in DispatchState /\ HandFits(dispatch[r])
      BY DEF DispatchOK, DispatchTypeOK, HandIsFull
    <2>2. CASE Awaits(r, p)
      <3> DEFINE d == [dispatch[r] EXCEPT !.at = step, !.job = job]
      <3>1. dispatch[r].at = "posted" /\ dispatch'[r] = d
        BY <2>2 DEF Answered, Awaits
      <3>2. d \in DispatchState /\ HandFits(d) /\ SameHand(dispatch[r], d)
        BY <2>1, <3>1, NoJobIsNoId
        DEF DispatchState, DispatchSteps, HandFits, InHandSteps, SameHand
      <3> QED
        BY <3>1, <3>2
    <2>3. CASE ~Awaits(r, p)
      BY <2>1, <2>3 DEF Answered, SameHand
    <2> QED
      BY <2>2, <2>3
  <1>2. posts' \subseteq Posts /\ dispatch' = [r \in Runners |-> dispatch'[r]]
    BY DEF Answered, DispatchOK, DispatchTypeOK
  <1>3. DispatchTypeOK'
    BY <1>1, <1>2 DEF DispatchTypeOK
  <1> QED
    BY <1>1, <1>3 DEF DispatchOK, HandIsFull, HandsShrink, Answered

(* Claim takes a submission in hand; everybody else keeps what they had.   *)
LEMMA ClaimMoves ==
  ASSUME DispatchOK, NEW r \in Runners, NEW s \in Submissions, NEW c \in ClaimIds,
         NEW m \in Machines, Claim(r, s, c, m)
  PROVE  /\ DispatchOK'
         /\ \A q \in Runners \ {r} : dispatch'[q] = dispatch[q]
         /\ dispatch'[r].cur = s /\ dispatch'[r].claim = c /\ dispatch'[r].to = m
  <1> DEFINE d0 == dispatch[r]
             d == [d0 EXCEPT !.at = "posted", !.todo = @ \ {s}, !.cur = s,
                             !.claim = c, !.to = m]
  <1>1. d0 \in DispatchState /\ posts \subseteq Posts
    BY DEF DispatchOK, DispatchTypeOK
  <1>2. d0.spare[m] > 0
    BY DEF Claim, Emptiest, AbleMachines
  <1>3. dispatch' = [dispatch EXCEPT ![r] = d]
    BY DEF Claim
  <1>4. posts' \subseteq Posts
    BY <1>1 DEF Claim, Posts
  <1>5. s # NoSubmission /\ c # NoClaim /\ m # NoMachine
    BY SubmissionsAssumption, ClaimIdsAssumption, MachinesAssumption
  <1>6. d \in DispatchState /\ HandFits(d)
    BY <1>1, <1>2, <1>5 DEF DispatchState, DispatchSteps, HandFits, InHandSteps
  <1>7. DispatchOK'
    BY <1>3, <1>4, <1>6, OnePassMoves
  <1>8. dispatch \in [Runners -> DispatchState]
    BY DEF DispatchOK, DispatchTypeOK
  <1> QED
    BY <1>1, <1>3, <1>7, <1>8 DEF DispatchState
-----------------------------------------------------------------------------
(* The result passes: a pass works its snapshot off, and a new snapshot is *)
(* true when it is taken.                                                  *)
EntriesKept ==
  \A r \in Runners : \A e \in collect'[r].todo :
    e \in collect[r].todo \/ EntryIsExact(e)'

LEMMA OneCollectMoves ==
  ASSUME CollectTypeOK, NEW r \in Runners, NEW c \in CollectState,
         collect' = [collect EXCEPT ![r] = c], c.todo \subseteq collect[r].todo
  PROVE  CollectTypeOK' /\ EntriesKept
  BY DEF CollectTypeOK, EntriesKept

LEMMA CollectUnchanged ==
  ASSUME CollectTypeOK, UNCHANGED collect
  PROVE  CollectTypeOK' /\ EntriesKept
  BY DEF CollectTypeOK, EntriesKept

LEMMA CollectedMoves ==
  ASSUME CollectTypeOK, NEW r \in Runners, NEW e, Collected(r, e)
  PROVE  CollectTypeOK' /\ EntriesKept
  <1> DEFINE rest == collect[r].todo \ {e}
             c == IF rest = {} THEN IdleCollect
                  ELSE [at |-> "ask", todo |-> rest, reply |-> "none"]
  <1>1. collect[r] \in CollectState
    BY DEF CollectTypeOK
  <1>2. c \in CollectState /\ c.todo \subseteq collect[r].todo
    BY <1>1 DEF CollectState, IdleCollect
  <1>3. collect' = [collect EXCEPT ![r] = c]
    BY DEF Collected
  <1> QED
    BY <1>2, <1>3, OneCollectMoves

LEMMA GotReplyMoves ==
  ASSUME CollectTypeOK, NEW r \in Runners, NEW e, NEW reply \in Replies,
         GotReply(r, e, reply)
  PROVE  CollectTypeOK' /\ EntriesKept /\ UNCHANGED store
  <1> DEFINE c == [collect[r] EXCEPT !.at = "write", !.reply = reply]
  <1>1. collect[r] \in CollectState /\ collect \in [Runners -> CollectState]
    BY DEF CollectTypeOK
  <1>2. c \in CollectState /\ c.todo \subseteq collect[r].todo
    BY <1>1 DEF CollectState
  <1>3. collect' = [collect EXCEPT ![r] = c]
    BY <1>1 DEF GotReply
  <1> QED
    BY <1>2, <1>3, OneCollectMoves DEF GotReply

LEMMA CollectPassFailsMoves ==
  ASSUME CollectTypeOK, NEW r \in Runners, collect' = [collect EXCEPT ![r] = IdleCollect]
  PROVE  CollectTypeOK' /\ EntriesKept
  BY OneCollectMoves DEF CollectState, IdleCollect

LEMMA ReadRunningMoves ==
  ASSUME SubOK, CollectTypeOK, NEW r \in Runners, ReadRunning(r)
  PROVE  CollectTypeOK' /\ EntriesKept /\ UNCHANGED store
  <1> DEFINE rows == FirstOf(WithJob, CollectBatch)
             c == [at |-> "ask", todo |-> {EntryOf(s) : s \in rows}, reply |-> "none"]
  <1>1. rows \subseteq WithJob
    BY DEF FirstOf
  <1>2. ASSUME NEW s \in rows, NEW e, e = EntryOf(s)
        PROVE  e \in Entry /\ EntryIsExact(e)'
    <2>1. s \in Submissions /\ sub[s] \in SubmissionRow
      BY <1>1 DEF WithJob, SubOK
    <2>2. sub[s].claim # NoClaim /\ sub[s].job # NoJob /\ sub[s].machine # NoMachine
      BY <1>1 DEF WithJob
    <2>3. e \in Entry
      BY <1>2, <2>1, <2>2 DEF EntryOf, Entry, SubmissionRow
    <2>4. sub' = sub
      BY DEF ReadRunning, store
    <2> QED
      BY <1>2, <2>3, <2>4 DEF EntryOf, EntryIsExact
  <1>3. c \in CollectState
    BY <1>2 DEF CollectState
  <1>4. collect' = [collect EXCEPT ![r] = c] /\ UNCHANGED store
    BY DEF ReadRunning
  <1>5. CollectTypeOK'
    BY <1>3, <1>4 DEF CollectTypeOK
  <1>6. ASSUME NEW q \in Runners, NEW e \in collect'[q].todo
        PROVE  e \in collect[q].todo \/ EntryIsExact(e)'
    <2>1. CASE q # r
      BY <1>4, <1>6, <2>1 DEF CollectTypeOK
    <2>2. CASE q = r
      <3>1. collect'[q] = c
        BY <1>4, <2>2 DEF CollectTypeOK
      <3>2. PICK s \in rows : e = EntryOf(s)
        BY <1>6, <3>1
      <3> QED
        BY <1>2, <3>2
    <2> QED
      BY <2>1, <2>2
  <1> QED
    BY <1>4, <1>5, <1>6 DEF EntriesKept

-----------------------------------------------------------------------------
(* The fence stays exact through every step that makes no claim and names  *)
(* no job: what was known of a claim is still so, or the claim is gone.    *)
LEMMA HandlesKept ==
  ASSUME SubOK, SubStep, DispatchOK, DispatchOK', HandsShrink, OwnClaims,
         CollectTypeOK, CollectTypeOK', EntriesKept, FenceIsExact
  PROVE  HandlesOK'
  <1>1. Settles
    BY SubStepKeeps
  <1>2. OwnClaims'
    BY DEF OwnClaims, HandsShrink, SameHand
  <1>3. ASSUME NEW r \in Runners, NEW e \in collect'[r].todo
        PROVE  EntryIsExact(e)'
    <2>1. e \in Entry
      BY DEF CollectTypeOK, CollectState
    <2>2. e.sub \in Submissions /\ e.claim # NoClaim
      BY <2>1, ClaimIdsAssumption DEF Entry
    <2>3. CASE e \in collect[r].todo
      <3>1. EntryIsExact(e)
        BY <2>3 DEF FenceIsExact
      <3> QED
        BY <1>1, <2>2, <3>1 DEF EntryIsExact, Settles, SameHandle
    <2> QED
      BY <2>3 DEF EntriesKept
  <1>4. ASSUME NEW r \in Runners
        PROVE  HandIsExact(dispatch[r])'
    <2>1. CASE dispatch'[r].cur = NoSubmission
      BY <2>1 DEF HandIsExact
    <2>2. CASE dispatch'[r].cur # NoSubmission
      <3>1. /\ dispatch'[r].cur = dispatch[r].cur /\ dispatch'[r].claim = dispatch[r].claim
            /\ dispatch'[r].to = dispatch[r].to
        BY <2>2 DEF HandsShrink, SameHand
      <3>2. HandFits(dispatch[r]) /\ dispatch[r] \in DispatchState
        BY DEF DispatchOK, HandIsFull, DispatchTypeOK
      <3>3. dispatch[r].cur \in Submissions /\ dispatch[r].claim # NoClaim
        BY <2>2, <3>1, <3>2 DEF HandFits, DispatchState
      <3>4. HandIsExact(dispatch[r])
        BY DEF FenceIsExact
      <3> QED
        BY <1>1, <3>1, <3>3, <3>4 DEF HandIsExact, Settles, SameHandle
    <2> QED
      BY <2>1, <2>2
  <1> QED
    BY <1>2, <1>3, <1>4 DEF HandlesOK, FenceIsExact, DispatchOK
-----------------------------------------------------------------------------
(* The two statements of a dispatch pass that name a claim or a job, and   *)
(* the two that write many rows at once.                                   *)
LEMMA SweepStuckStep ==
  ASSUME SubOK, NEW r \in Runners, NEW max, SweepStuck(r, max)
  PROVE  SubStep
  BY DEF SweepStuck, IsStuck, SubStep, RowStep, Frees

LEMMA FinishPassStep ==
  ASSUME SubOK, NEW r \in Runners, FinishPass(r)
  PROVE  SubStep
  BY DEF FinishPass, MayBeNoted, SubStep, RowStep, Touches

(* A fresh claim id is in nobody's hands, so giving it to a queued row     *)
(* makes nothing true or false that a pass knows of another claim.         *)
LEMMA ClaimKeeps ==
  ASSUME SubOK, DispatchOK, CollectTypeOK, OwnClaims, FenceIsExact,
         NEW r \in Runners, NEW s \in Submissions, NEW m \in Machines,
         NEW c \in FreshClaims(s, m), Claim(r, s, c, m), UNCHANGED collect
  PROVE  SubOK' /\ HandlesOK' /\ FinalsStay
  <1>1. c \in ClaimIds /\ ~InUse(s, c, m)
    BY DEF FreshClaims
  <1>2. \A q \in Runners :
          /\ ~(dispatch[q].cur = s /\ dispatch[q].claim = c)
          /\ \A e \in collect[q].todo : ~(e.sub = s /\ e.claim = c)
    BY <1>1 DEF InUse
  <1>3. /\ sub[s].status = "queued"
        /\ sub' = [sub EXCEPT ![s] = ClaimedRow(sub[s], c, m)]
    BY DEF Claim
  <1>4. \A t \in Submissions :
          sub'[t] = IF t = s THEN ClaimedRow(sub[s], c, m) ELSE sub[t]
    BY <1>3 DEF SubOK
  <1>5. SubOK'
    <2>1. \A t \in Submissions : RowOK(sub'[t])
      BY <1>1, <1>3, <1>4, SubOKByRow, ClaimedRowOK
    <2>2. sub' = [t \in Submissions |-> sub'[t]]
      BY <1>3 DEF SubOK
    <2> QED
      BY <2>1, <2>2, SubOKNext
  <1>6. FinalsStay
    <2>1. ~IsFinal(sub[s])
      BY <1>3, JudgementsAssumption DEF IsFinal, Verdicts
    <2> QED
      BY <1>4, <2>1 DEF FinalsStay
  <1>7. sub'[s].claim = c /\ sub'[s].machine = m /\ sub'[s].job = NoJob
    <2>1. sub[s] \in SubmissionRow
      BY DEF SubOK
    <2> QED
      BY <1>4, <2>1 DEF ClaimedRow, SubmissionRow
  <1>8. /\ DispatchOK'
        /\ \A q \in Runners \ {r} : dispatch'[q] = dispatch[q]
        /\ dispatch'[r].cur = s /\ dispatch'[r].claim = c /\ dispatch'[r].to = m
    BY <1>1, ClaimMoves
  <1>9. OwnClaims'
    BY <1>2, <1>8 DEF OwnClaims
  <1>10. ASSUME NEW q \in Runners, NEW e \in collect'[q].todo
         PROVE  EntryIsExact(e)'
    <2>1. e \in collect[q].todo /\ e \in Entry
      BY DEF CollectTypeOK, CollectState
    <2>2. EntryIsExact(e) /\ e.sub \in Submissions
      BY <2>1 DEF FenceIsExact, Entry
    <2> QED
      BY <1>2, <1>4, <1>7, <2>1, <2>2 DEF EntryIsExact
  <1>11. ASSUME NEW q \in Runners
         PROVE  HandIsExact(dispatch[q])'
    <2>1. CASE q = r
      BY <1>7, <1>8, <2>1 DEF HandIsExact
    <2>2. CASE q # r
      <3>1. dispatch'[q] = dispatch[q] /\ dispatch[q].cur \in Submissions \union {NoSubmission}
        BY <1>8, <2>2 DEF DispatchOK, DispatchTypeOK, DispatchState
      <3>2. HandIsExact(dispatch[q])
        BY DEF FenceIsExact
      <3> QED
        BY <1>2, <1>4, <1>7, <3>1, <3>2 DEF HandIsExact
    <2> QED
      BY <2>1, <2>2
  <1> QED
    BY <1>5, <1>6, <1>8, <1>9, <1>10, <1>11 DEF HandlesOK, FenceIsExact, DispatchOK

(* Recording the job of a claim: no result pass knows the claim yet, for   *)
(* until now it had no job to ask for.                                     *)
LEMMA RecordJobKeeps ==
  ASSUME SubOK, DispatchOK, CollectTypeOK, OwnClaims, FenceIsExact,
         NEW r \in Runners, RecordJob(r), UNCHANGED collect
  PROVE  SubOK' /\ HandlesOK' /\ FinalsStay
  <1> DEFINE d == dispatch[r]
             s == d.cur
  <1>1. d \in DispatchState /\ HandFits(d) /\ HandIsExact(d) /\ d.at = "accepted"
    BY DEF DispatchOK, DispatchTypeOK, HandIsFull, FenceIsExact, RecordJob
  <1>2. s \in Submissions /\ d.claim \in ClaimIds /\ d.job \in JobIds
    BY <1>1 DEF HandFits, InHandSteps, DispatchState
  <1>3. DispatchOK' /\ HandsShrink
    BY EndOfLoopMoves
  <1>4. dispatch'[r].cur = NoSubmission
    BY <1>1 DEF RecordJob, NextInLoop, DispatchOK, DispatchTypeOK, DispatchState
  <1>5. CollectTypeOK' /\ EntriesKept
    BY CollectUnchanged
  <1>6. CASE ~HoldsClaim(sub[s], d.claim)
    <2>1. SubStep
      BY <1>6, SubUnchanged DEF RecordJob, UpdateRow
    <2> QED
      BY <1>3, <1>5, <2>1, SubStepKeeps, HandlesKept
  <1>7. CASE HoldsClaim(sub[s], d.claim)
    <2>1. sub[s].claim = d.claim /\ d.claim # NoClaim
      BY <1>2, <1>7, ClaimIdsAssumption DEF HoldsClaim
    <2>2. RowOK(sub[s]) /\ sub[s].status = "running"
      BY <1>2, <2>1, SubOKByRow DEF RowOK, ColumnsAgree
    <2>3. sub' = [sub EXCEPT ![s] = AcceptedRow(sub[s], d.job)]
      BY <1>7 DEF RecordJob, UpdateRow
    <2>4. \A t \in Submissions :
            sub'[t] = IF t = s THEN AcceptedRow(sub[s], d.job) ELSE sub[t]
      BY <2>3 DEF SubOK
    <2>5. SubOK'
      <3>1. RowOK(AcceptedRow(sub[s], d.job))
        BY <1>2, <2>2, TouchedRowOK
      <3>2. \A t \in Submissions : RowOK(sub'[t])
        BY <2>4, <3>1, SubOKByRow
      <3>3. sub' = [t \in Submissions |-> sub'[t]]
        BY <2>3 DEF SubOK
      <3> QED
        BY <3>2, <3>3, SubOKNext
    <2>6. FinalsStay
      <3>1. ~IsFinal(sub[s])
        BY <2>2, JudgementsAssumption DEF IsFinal, Verdicts
      <3> QED
        BY <2>4, <3>1 DEF FinalsStay
    <2>7. sub'[s].claim = d.claim
      BY <1>2, <2>1, <2>2, <2>4 DEF AcceptedRow, RowOK, SubmissionRow
    <2>8. sub[s].job = NoJob
      BY <1>1, <1>2, <2>1, SubmissionsAssumption DEF HandIsExact
    <2>9. OwnClaims'
      BY <1>3 DEF OwnClaims, HandsShrink, SameHand
    <2>10. ASSUME NEW q \in Runners, NEW e \in collect'[q].todo
           PROVE  EntryIsExact(e)'
      <3>1. e \in collect[q].todo /\ e \in Entry
        BY DEF CollectTypeOK, CollectState
      <3>2. EntryIsExact(e) /\ e.sub \in Submissions /\ e.job # NoJob
        BY <3>1, NoJobIsNoId DEF FenceIsExact, Entry
      <3> QED
        BY <2>1, <2>4, <2>7, <2>8, <3>2 DEF EntryIsExact
    <2>11. ASSUME NEW q \in Runners
           PROVE  HandIsExact(dispatch[q])'
      <3>1. CASE dispatch'[q].cur = NoSubmission
        BY <3>1 DEF HandIsExact
      <3>2. CASE dispatch'[q].cur # NoSubmission
        <4>1. /\ q # r
              /\ dispatch'[q].cur = dispatch[q].cur /\ dispatch'[q].claim = dispatch[q].claim
              /\ dispatch'[q].to = dispatch[q].to
          BY <1>3, <1>4, <3>2 DEF HandsShrink, SameHand
        <4>2. dispatch[q].cur \in Submissions
          BY <3>2, <4>1 DEF DispatchOK, DispatchTypeOK, DispatchState
        <4>3. ~(dispatch[q].cur = s /\ dispatch[q].claim = d.claim)
          BY <3>2, <4>1 DEF OwnClaims
        <4>4. HandIsExact(dispatch[q])
          BY DEF FenceIsExact
        <4> QED
          BY <2>4, <2>7, <3>2, <4>1, <4>2, <4>3, <4>4 DEF HandIsExact
      <3> QED
        BY <3>1, <3>2
    <2> QED
      BY <1>3, <2>5, <2>6, <2>9, <2>10, <2>11 DEF HandlesOK, FenceIsExact, DispatchOK
  <1> QED
    BY <1>6, <1>7
-----------------------------------------------------------------------------
(* The machine rows, the health passes and the checkers keep their types. *)
MachOK == mach \in [Machines -> MachineRow]

LEMMA ApplyResultMach ==
  ASSUME MachOK, NEW s, NEW c, NEW v, ApplyResult(s, c, v)
  PROVE  MachOK'
  <1>1. ASSUME NEW m \in Machines
        PROVE  [mach[m] EXCEPT !.judged = @ + 1] \in MachineRow
    BY DEF MachOK, MachineRow
  <1> QED
    BY <1>1 DEF MachOK, ApplyResult, store

LEMMA SetMachineEnabledMach ==
  ASSUME MachOK, NEW m \in Machines, NEW enabled \in BOOLEAN, SetMachineEnabled(m, enabled)
  PROVE  MachOK' /\ UNCHANGED sub
  <1>1. [mach[m] EXCEPT !.enabled = enabled] \in MachineRow
    BY DEF MachOK, MachineRow
  <1> QED
    BY <1>1 DEF MachOK, SetMachineEnabled

LEMMA IdleHealthTyped == IdleHealth \in HealthState
  BY DEF IdleHealth, HealthState, HealthSteps

LEMMA NextMachineTyped ==
  ASSUME HealthTypeOK, NEW r \in Runners, NextMachine(r)
  PROVE  HealthTypeOK'
  <1> DEFINE h == IF health[r].left = {} THEN IdleHealth
                  ELSE [at |-> "ask", left |-> health[r].left, cur |-> NoMachine, busy |-> 0]
  <1>1. health[r] \in HealthState
    BY DEF HealthTypeOK
  <1>2. h \in HealthState
    BY <1>1, IdleHealthTyped DEF HealthState, HealthSteps
  <1>3. health' = [health EXCEPT ![r] = h]
    BY DEF NextMachine
  <1> QED
    BY <1>2, <1>3 DEF HealthTypeOK

LEMMA HealthAskedTyped ==
  ASSUME HealthTypeOK, NEW r \in Runners, NEW m \in Machines, NEW busy \in Nat,
         HealthAnswered(r, m, busy) \/ HealthSilent(r, m)
  PROVE  HealthTypeOK' /\ UNCHANGED store
  <1> PICK step \in {"answered", "silent"}, n \in Nat :
        health' = [health EXCEPT ![r] =
          [at |-> step, left |-> health[r].left \ {m}, cur |-> m, busy |-> n]]
    BY DEF HealthAnswered, HealthSilent, HealthTypeOK
  <1>1. [at |-> step, left |-> health[r].left \ {m}, cur |-> m, busy |-> n] \in HealthState
    BY DEF HealthTypeOK, HealthState, HealthSteps
  <1> QED
    BY <1>1 DEF HealthTypeOK, HealthAnswered, HealthSilent

LEMMA HealthWritesTyped ==
  ASSUME HealthTypeOK, MachOK, NEW r \in Runners, NEW max,
         \/ ListMachines(r) \/ WriteReachable(r) \/ WriteUnreachable(r)
         \/ LoseItsWork(r, max)
  PROVE  HealthTypeOK' /\ MachOK'
  <1> DEFINE h == health[r]
  <1>1. h \in HealthState
    BY DEF HealthTypeOK
  <1>2. CASE ListMachines(r)
    <2>1. health' = [health EXCEPT ![r] = [h EXCEPT !.at = "ask", !.left = Machines]]
      BY <1>2 DEF ListMachines
    <2>2. [h EXCEPT !.at = "ask", !.left = Machines] \in HealthState
      BY <1>1 DEF HealthState, HealthSteps
    <2> QED
      BY <1>2, <2>1, <2>2 DEF HealthTypeOK, MachOK, ListMachines, store
  <1>3. CASE WriteReachable(r)
    <2>1. HealthTypeOK'
      BY <1>3, NextMachineTyped DEF WriteReachable
    <2>2. ASSUME NEW m \in Machines
          PROVE  [mach[m] EXCEPT !.reachable = TRUE, !.busy = h.busy] \in MachineRow
      BY <1>1 DEF MachOK, MachineRow, HealthState
    <2>3. mach' = [mach EXCEPT ![h.cur] = [mach[h.cur] EXCEPT !.reachable = TRUE, !.busy = h.busy]]
      BY <1>3 DEF WriteReachable, MachOK
    <2> QED
      BY <2>1, <2>2, <2>3 DEF MachOK
  <1>4. CASE WriteUnreachable(r)
    <2>1. health' = [health EXCEPT ![r] = [h EXCEPT !.at = "marked"]]
      BY <1>4 DEF WriteUnreachable
    <2>2. [h EXCEPT !.at = "marked"] \in HealthState
      BY <1>1 DEF HealthState, HealthSteps
    <2>3. ASSUME NEW m \in Machines
          PROVE  [mach[m] EXCEPT !.reachable = FALSE, !.busy = 0] \in MachineRow
      BY DEF MachOK, MachineRow
    <2>4. mach' = [mach EXCEPT ![h.cur] = [mach[h.cur] EXCEPT !.reachable = FALSE, !.busy = 0]]
      BY <1>4 DEF WriteUnreachable, MachOK
    <2> QED
      BY <2>1, <2>2, <2>3, <2>4 DEF MachOK, HealthTypeOK
  <1>5. CASE LoseItsWork(r, max)
    BY <1>5, NextMachineTyped DEF LoseItsWork, MachOK
  <1> QED
    BY <1>2, <1>3, <1>4, <1>5

(* A registry that gains a job, or loses some, is still a finite set of    *)
(* jobs, so the number of busy slots is a number.                          *)
LEMMA RegistryTyped ==
  ASSUME CheckerTypeOK, NEW m \in Machines, NEW J, J \subseteq Job, IsFiniteSet(J),
         jobs' = [jobs EXCEPT ![m] = J], server' \in [Machines -> {"up", "closing", "down"}]
  PROVE  CheckerTypeOK'
  BY DEF CheckerTypeOK

LEMMA RegistryParts ==
  ASSUME CheckerTypeOK, NEW m \in Machines
  PROVE  /\ \A old : jobs[m] \ old \subseteq Job /\ IsFiniteSet(jobs[m] \ old)
         /\ RunningJobs(m) \subseteq Job
         /\ Busy(m) \in Nat
  <1>1. jobs[m] \subseteq Job /\ IsFiniteSet(jobs[m])
    BY DEF CheckerTypeOK
  <1>2. ASSUME NEW old
        PROVE  jobs[m] \ old \subseteq Job /\ IsFiniteSet(jobs[m] \ old)
    <2>1. jobs[m] \ old \subseteq jobs[m]
      OBVIOUS
    <2> QED
      BY <1>1, <2>1, FS_Subset
  <1>3. RunningJobs(m) \subseteq jobs[m]
    BY DEF RunningJobs
  <1> QED
    BY <1>1, <1>2, <1>3, FS_Subset, FS_CardinalityType DEF Busy

LEMMA RegistryRequestTyped ==
  ASSUME CheckerTypeOK, NEW m \in Machines, NEW s, NEW id \in JobIds, NEW reply, NEW old,
         \/ StartJob(m, id, old) \/ RepeatJob(m, s, id, old) \/ RefuseFull(m, s, old)
         \/ RefuseClosed(m) \/ AnswerJob(m, id, reply, old)
  PROVE  CheckerTypeOK'
  <1>1. CASE StartJob(m, id, old)
    <2> DEFINE J == (jobs[m] \ old) \union {Started(id)}
    <2>1. Started(id) \in Job
      BY DEF Started, Job
    <2>2. J \subseteq Job /\ IsFiniteSet(J)
      BY <2>1, RegistryParts, FS_AddElement
    <2>3. jobs' = [jobs EXCEPT ![m] = J] /\ server' = server
      BY <1>1 DEF StartJob
    <2> QED
      BY <2>2, <2>3, RegistryTyped DEF CheckerTypeOK
  <1>2. CASE RepeatJob(m, s, id, old) \/ RefuseFull(m, s, old) \/ AnswerJob(m, id, reply, old)
    <2>1. jobs' = [jobs EXCEPT ![m] = jobs[m] \ old] /\ server' = server
      BY <1>2 DEF RepeatJob, RefuseFull, AnswerJob
    <2>2. jobs[m] \ old \subseteq Job /\ IsFiniteSet(jobs[m] \ old)
      BY RegistryParts
    <2> QED
      BY <2>1, <2>2, RegistryTyped DEF CheckerTypeOK
  <1>3. CASE RefuseClosed(m)
    BY <1>3 DEF RefuseClosed, checkerVars, CheckerTypeOK
  <1> QED
    BY <1>1, <1>2, <1>3

LEMMA FinishJobTyped ==
  ASSUME CheckerTypeOK, NEW m \in Machines, NEW j, NEW v \in Verdicts, FinishJob(m, j, v)
  PROVE  CheckerTypeOK'
  <1> DEFINE J == (jobs[m] \ {j}) \union {[j EXCEPT !.state = v]}
  <1>1. j \in Job
    BY RegistryParts DEF FinishJob
  <1>2. [j EXCEPT !.state = v] \in Job
    BY <1>1 DEF Job
  <1>3. J \subseteq Job /\ IsFiniteSet(J)
    BY <1>2, RegistryParts, FS_AddElement
  <1>4. jobs' = [jobs EXCEPT ![m] = J] /\ server' = server
    BY DEF FinishJob
  <1> QED
    BY <1>3, <1>4, RegistryTyped DEF CheckerTypeOK

LEMMA ProcessTyped ==
  ASSUME CheckerTypeOK, NEW m \in Machines,
         BeginShutdown(m) \/ Exit(m) \/ CheckerCrashes(m) \/ StartChecker(m)
  PROVE  CheckerTypeOK'
  <1>1. CASE BeginShutdown(m) \/ StartChecker(m)
    BY <1>1 DEF BeginShutdown, StartChecker, CheckerTypeOK
  <1>2. CASE Exit(m) \/ CheckerCrashes(m)
    <2>1. ProcessEnds(m)
      BY <1>2 DEF Exit, CheckerCrashes
    <2> QED
      BY <2>1, FS_EmptySet, RegistryTyped DEF ProcessEnds, CheckerTypeOK
  <1> QED
    BY <1>1, <1>2
-----------------------------------------------------------------------------
(* The invariant in the parts the lemmas above are about. *)
RunnersOK ==
  alive \in [Runners -> BOOLEAN] /\ limit \in [Runners -> AttemptLimits] /\ disturbed \in Nat

LEMMA InvParts ==
  JudgingInv <=> /\ SubOK /\ MachOK /\ DispatchOK /\ CollectTypeOK /\ HealthTypeOK
                 /\ CheckerTypeOK /\ RunnersOK /\ OwnClaims /\ FenceIsExact
  BY DEF JudgingInv, TypeOK, StoreTypeOK, SubOK, MachOK, DispatchOK, RunnersOK, HandlesOK

(* What a step leaves alone stays as it should be. *)
LEMMA Untouched ==
  ASSUME JudgingInv
  PROVE  /\ UNCHANGED sub => SubStep
         /\ UNCHANGED mach => MachOK'
         /\ UNCHANGED dispatchVars => DispatchOK' /\ HandsShrink
         /\ UNCHANGED collect => CollectTypeOK' /\ EntriesKept
         /\ UNCHANGED health => HealthTypeOK'
         /\ UNCHANGED checkerVars => CheckerTypeOK'
         /\ UNCHANGED <<runnerVars, disturbed>> => RunnersOK'
         /\ \A kind : UNCHANGED runnerVars /\ Disturb(kind) => RunnersOK'
  <1>1. UNCHANGED sub => SubStep
    BY InvParts, SubUnchanged
  <1>2. UNCHANGED mach => MachOK'
    BY InvParts DEF MachOK
  <1>3. UNCHANGED dispatchVars => DispatchOK' /\ HandsShrink
    BY InvParts, DispatchUnchanged DEF dispatchVars, DispatchOK, DispatchTypeOK
  <1>4. UNCHANGED collect => CollectTypeOK' /\ EntriesKept
    BY InvParts, CollectUnchanged
  <1>5. UNCHANGED health => HealthTypeOK'
    BY InvParts DEF HealthTypeOK
  <1>6. UNCHANGED checkerVars => CheckerTypeOK'
    BY InvParts DEF CheckerTypeOK, checkerVars
  <1>7. UNCHANGED <<runnerVars, disturbed>> => RunnersOK'
    BY InvParts DEF RunnersOK, runnerVars
  <1>8. \A kind : UNCHANGED runnerVars /\ Disturb(kind) => RunnersOK'
    BY InvParts DEF RunnersOK, runnerVars, Disturb
  <1> QED
    BY <1>1, <1>2, <1>3, <1>4, <1>5, <1>6, <1>7, <1>8

(* A step that makes no claim and names no job keeps the invariant as soon *)
(* as it keeps the parts.                                                  *)
LEMMA PartsKeep ==
  ASSUME JudgingInv, SubStep, MachOK', DispatchOK', HandsShrink, CollectTypeOK',
         EntriesKept, HealthTypeOK', CheckerTypeOK', RunnersOK'
  PROVE  JudgingInv' /\ FinalsStay
  <1>1. SubOK' /\ FinalsStay
    BY InvParts, SubStepKeeps
  <1>2. HandlesOK'
    BY InvParts, HandlesKept
  <1> QED
    BY <1>1, <1>2
    DEF JudgingInv, TypeOK, StoreTypeOK, SubOK, MachOK, DispatchOK, RunnersOK

(* A step that makes a claim or names a job does so in the store and in    *)
(* the pass alone.                                                         *)
LEMMA HandoutKeeps ==
  ASSUME JudgingInv, SubOK', HandlesOK', DispatchOK', UNCHANGED mach,
         UNCHANGED <<collect, health, checkerVars, runnerVars, disturbed>>
  PROVE  JudgingInv'
  <1>1. MachOK' /\ CollectTypeOK' /\ HealthTypeOK' /\ CheckerTypeOK' /\ RunnersOK'
    BY Untouched
  <1> QED
    BY <1>1 DEF JudgingInv, TypeOK, StoreTypeOK, SubOK, MachOK, DispatchOK, RunnersOK

-----------------------------------------------------------------------------
(* One lemma for each disjunct of Next. *)
LEMMA DispatchStepKeeps ==
  ASSUME JudgingInv, NEW r \in Runners, DispatchStep(r)
  PROVE  JudgingInv' /\ FinalsStay
  <1> DEFINE max == limit[r]
  <1>1. /\ SubOK /\ DispatchOK /\ TypeOK /\ CollectTypeOK /\ OwnClaims /\ FenceIsExact
        /\ max \in AttemptLimits
    BY InvParts DEF JudgingInv, RunnersOK
  <1>2. UNCHANGED <<collect, health, checkerVars, runnerVars, disturbed>>
    BY DEF DispatchStep
  <1>3. CollectTypeOK' /\ EntriesKept /\ HealthTypeOK' /\ CheckerTypeOK' /\ RunnersOK'
    BY <1>2, Untouched
  <1>4. CASE SweepLost(r, max) \/ SweepStuck(r, max)
    <2>1. SubStep /\ UNCHANGED mach
      BY <1>1, <1>4, LoseRunningStep, SweepStuckStep DEF SweepLost, SweepStuck
    <2> QED
      BY <1>1, <1>3, <1>4, <2>1, SweepsMove, Untouched, PartsKeep
  <1>5. CASE ReadMachines(r) \/ ReadHeld(r) \/ ReadQueue(r, max)
    <2>1. DispatchOK' /\ HandsShrink /\ UNCHANGED <<sub, mach>>
      BY <1>1, <1>5, ReadsMove DEF store
    <2> QED
      BY <1>3, <2>1, Untouched, PartsKeep
  <1>6. ASSUME NEW s \in Submissions, Skip(r, s) \/ ClaimFindsNothing(r, s)
        PROVE  JudgingInv' /\ FinalsStay
    <2>1. DispatchOK' /\ HandsShrink /\ UNCHANGED <<sub, mach>>
      BY <1>1, <1>6, LoopMoves DEF store
    <2> QED
      BY <1>3, <2>1, Untouched, PartsKeep
  <1>7. ASSUME NEW s \in Submissions, NEW m \in Machines, NEW c \in ClaimIds,
               IsOldest(c, FreshClaims(s, m)), Claim(r, s, c, m)
        PROVE  JudgingInv' /\ FinalsStay
    <2>1. c \in FreshClaims(s, m)
      BY <1>7 DEF IsOldest
    <2>2. SubOK' /\ HandlesOK' /\ FinalsStay
      BY <1>1, <1>2, <1>7, <2>1, ClaimKeeps
    <2>3. DispatchOK' /\ UNCHANGED mach
      BY <1>1, <1>7, ClaimMoves DEF Claim
    <2> QED
      BY <1>2, <2>2, <2>3, HandoutKeeps
  <1>8. CASE TakeBack(r)
    <2>1. dispatch[r].cur \in Submissions
      BY <1>1, <1>8 DEF TakeBack, DispatchOK, DispatchTypeOK, DispatchState, HandIsFull,
                        HandFits, InHandSteps
    <2>2. SubStep /\ UNCHANGED mach
      BY <1>1, <1>8, <2>1, UndoClaimStep DEF TakeBack
    <2> QED
      BY <1>1, <1>3, <1>8, <2>2, EndOfLoopMoves, Untouched, PartsKeep
  <1>9. CASE RecordJob(r)
    <2>1. SubOK' /\ HandlesOK' /\ FinalsStay
      BY <1>1, <1>2, <1>9, RecordJobKeeps
    <2>2. DispatchOK' /\ UNCHANGED mach
      BY <1>1, <1>9, EndOfLoopMoves DEF RecordJob
    <2> QED
      BY <1>2, <2>1, <2>2, HandoutKeeps
  <1>10. CASE FinishPass(r)
    <2>1. SubStep /\ UNCHANGED mach
      BY <1>1, <1>10, FinishPassStep DEF FinishPass
    <2> QED
      BY <1>1, <1>3, <1>10, <2>1, EndOfLoopMoves, Untouched, PartsKeep
  <1> QED
    BY <1>4, <1>5, <1>6, <1>7, <1>8, <1>9, <1>10 DEF DispatchStep

LEMMA DropPostKeeps ==
  ASSUME JudgingInv, NEW r \in Runners, DropPost(r)
  PROVE  JudgingInv' /\ FinalsStay
  <1>1. DispatchOK' /\ HandsShrink /\ UNCHANGED <<sub, mach>>
    BY InvParts, PostTimesOutMoves DEF DropPost, store
  <1>2. CollectTypeOK' /\ EntriesKept /\ HealthTypeOK' /\ CheckerTypeOK' /\ RunnersOK'
    BY Untouched DEF DropPost
  <1> QED
    BY <1>1, <1>2, Untouched, PartsKeep

LEMMA EntriesAreTyped ==
  ASSUME CollectTypeOK, NEW r \in Runners, NEW e \in collect[r].todo
  PROVE  /\ e \in Entry /\ e.sub \in Submissions /\ e.claim \in ClaimIds
         /\ e.claim # NoClaim /\ e.job \in JobIds /\ e.machine \in Machines
  <1>1. e \in Entry
    BY DEF CollectTypeOK, CollectState
  <1> QED
    BY <1>1, ClaimIdsAssumption DEF Entry

LEMMA CollectWritesKeeps ==
  ASSUME JudgingInv, NEW r \in Runners, CollectWrites(r)
  PROVE  JudgingInv' /\ FinalsStay
  <1>1. SubOK /\ MachOK /\ CollectTypeOK /\ limit[r] \in AttemptLimits
    BY InvParts DEF RunnersOK
  <1>2. /\ DispatchOK' /\ HandsShrink
        /\ HealthTypeOK' /\ CheckerTypeOK' /\ RunnersOK'
    BY Untouched DEF CollectWrites
  <1>3. CASE ReadRunning(r)
    <2>1. CollectTypeOK' /\ EntriesKept /\ UNCHANGED <<sub, mach>>
      BY <1>1, <1>3, ReadRunningMoves DEF store
    <2> QED
      BY <1>2, <2>1, Untouched, PartsKeep
  <1>4. ASSUME NEW e \in collect[r].todo,
               WriteRunning(r, e) \/ WriteResult(r, e) \/ WriteLost(r, e, limit[r])
        PROVE  JudgingInv' /\ FinalsStay
    <2>1. e.sub \in Submissions /\ e.claim # NoClaim
      BY <1>1, EntriesAreTyped
    <2>2. Collected(r, e)
      BY <1>4 DEF WriteRunning, WriteResult, WriteLost
    <2>3. CollectTypeOK' /\ EntriesKept
      BY <1>1, <2>2, CollectedMoves
    <2>4. SubStep /\ MachOK'
      <3>1. CASE WriteRunning(r, e)
        BY <1>1, <2>1, <3>1, ExtendLeaseStep, Untouched DEF WriteRunning
      <3>2. CASE WriteResult(r, e)
        BY <1>1, <2>1, <3>2, ApplyResultStep, ApplyResultMach DEF WriteResult
      <3>3. CASE WriteLost(r, e, limit[r])
        BY <1>1, <3>3, LoseClaimStep, Untouched DEF WriteLost
      <3> QED
        BY <1>4, <3>1, <3>2, <3>3
    <2> QED
      BY <1>2, <2>3, <2>4, PartsKeep
  <1> QED
    BY <1>3, <1>4 DEF CollectWrites

LEMMA AskForJobKeeps ==
  ASSUME JudgingInv, NEW r \in Runners, AskForJob(r)
  PROVE  JudgingInv' /\ FinalsStay
  <1>1. CollectTypeOK /\ CheckerTypeOK
    BY InvParts
  <1>2. PICK e \in collect[r].todo : \E old \in SUBSET FinishedJobs(e.machine) :
          /\ Forgets(e.machine, old)
          /\ \E reply \in Replies :
               AnswerJob(e.machine, e.job, reply, old) /\ GotReply(r, e, reply)
    BY DEF AskForJob
  <1>3. PICK old \in SUBSET FinishedJobs(e.machine), reply \in Replies :
          /\ Forgets(e.machine, old)
          /\ AnswerJob(e.machine, e.job, reply, old)
          /\ GotReply(r, e, reply)
    BY <1>2
  <1>4. CheckerTypeOK'
    BY <1>1, <1>3, EntriesAreTyped, RegistryRequestTyped
  <1>5. CollectTypeOK' /\ EntriesKept /\ UNCHANGED <<sub, mach>>
    BY <1>1, <1>3, GotReplyMoves DEF store
  <1>6. DispatchOK' /\ HandsShrink /\ HealthTypeOK' /\ RunnersOK'
    BY <1>3, Untouched DEF AskForJob, Forgets
  <1> QED
    BY <1>4, <1>5, <1>6, Untouched, PartsKeep

LEMMA AskInVainKeeps ==
  ASSUME JudgingInv, NEW r \in Runners, AskInVain(r)
  PROVE  JudgingInv' /\ FinalsStay
  <1>1. CollectTypeOK' /\ EntriesKept /\ UNCHANGED <<sub, mach>>
    BY InvParts, GotReplyMoves DEF AskInVain, store, Replies
  <1>2. DispatchOK' /\ HandsShrink /\ HealthTypeOK' /\ CheckerTypeOK' /\ RunnersOK'
    BY Untouched DEF AskInVain
  <1> QED
    BY <1>1, <1>2, Untouched, PartsKeep

LEMMA HealthWritesKeeps ==
  ASSUME JudgingInv, NEW r \in Runners, HealthWrites(r)
  PROVE  JudgingInv' /\ FinalsStay
  <1>1. SubOK /\ HealthTypeOK /\ MachOK /\ limit[r] \in AttemptLimits
    BY InvParts DEF RunnersOK
  <1>2. /\ DispatchOK' /\ HandsShrink /\ CollectTypeOK' /\ EntriesKept
        /\ CheckerTypeOK' /\ RunnersOK'
    BY Untouched DEF HealthWrites
  <1>3. HealthTypeOK' /\ MachOK'
    BY <1>1, HealthWritesTyped DEF HealthWrites
  <1>4. SubStep
    <2>1. CASE LoseItsWork(r, limit[r])
      BY <1>1, <2>1, LoseOfMachineStep DEF LoseItsWork
    <2>2. CASE ListMachines(r) \/ WriteReachable(r) \/ WriteUnreachable(r)
      BY <2>2, Untouched DEF ListMachines, WriteReachable, WriteUnreachable, store
    <2> QED
      BY <2>1, <2>2 DEF HealthWrites
  <1> QED
    BY <1>2, <1>3, <1>4, PartsKeep

LEMMA AskHealthKeeps ==
  ASSUME JudgingInv, NEW r \in Runners, AskHealth(r) \/ AskHealthInVain(r)
  PROVE  JudgingInv' /\ FinalsStay
  <1>1. HealthTypeOK /\ CheckerTypeOK
    BY InvParts
  <1>2. HealthTypeOK' /\ UNCHANGED <<sub, mach, checkerVars>>
    BY <1>1, HealthAskedTyped, RegistryParts
    DEF AskHealth, AskHealthInVain, AnswerHealth, checkerVars, store
  <1>3. /\ DispatchOK' /\ HandsShrink /\ CollectTypeOK' /\ EntriesKept /\ RunnersOK'
    BY Untouched DEF AskHealth, AskHealthInVain
  <1> QED
    BY <1>2, <1>3, Untouched, PartsKeep

LEMMA PassFailsKeeps ==
  ASSUME JudgingInv, NEW r \in Runners, PassFails(r)
  PROVE  JudgingInv' /\ FinalsStay
  <1>1. DispatchOK /\ CollectTypeOK /\ HealthTypeOK
    BY InvParts
  <1>2. CheckerTypeOK' /\ RunnersOK'
    BY Untouched DEF PassFails
  <1>3. CASE DispatchPassFails(r) /\ UNCHANGED <<collect, health>>
    <2>1. DispatchOK' /\ HandsShrink /\ UNCHANGED <<sub, mach>>
      BY <1>1, <1>3, DispatchPassFailsMoves DEF DispatchPassFails, store
    <2> QED
      BY <1>2, <1>3, <2>1, Untouched, PartsKeep
  <1>4. CASE CollectPassFails(r) /\ UNCHANGED <<dispatchVars, health>>
    <2>1. CollectTypeOK' /\ EntriesKept /\ UNCHANGED <<sub, mach>>
      BY <1>1, <1>4, CollectPassFailsMoves DEF CollectPassFails, store
    <2> QED
      BY <1>2, <1>4, <2>1, Untouched, PartsKeep
  <1>5. CASE HealthPassFails(r) /\ UNCHANGED <<dispatchVars, collect>>
    <2>1. HealthTypeOK' /\ UNCHANGED <<sub, mach>>
      BY <1>1, <1>5, IdleHealthTyped DEF HealthPassFails, HealthTypeOK, store
    <2> QED
      BY <1>2, <1>5, <2>1, Untouched, PartsKeep
  <1> QED
    BY <1>3, <1>4, <1>5 DEF PassFails

LEMMA RunnerProcessKeeps ==
  ASSUME JudgingInv, NEW r \in Runners, RunnerCrashes(r) \/ StartRunner(r)
  PROVE  JudgingInv' /\ FinalsStay
  <1>1. DispatchOK /\ CollectTypeOK /\ HealthTypeOK /\ RunnersOK
    BY InvParts
  <1>2. CASE RunnerCrashes(r)
    <2>1. DispatchOK' /\ HandsShrink
      BY <1>1, <1>2, DispatchPassFailsMoves DEF RunnerCrashes
    <2>2. CollectTypeOK' /\ EntriesKept
      BY <1>1, <1>2, CollectPassFailsMoves DEF RunnerCrashes
    <2>3. HealthTypeOK' /\ RunnersOK' /\ UNCHANGED <<sub, mach, checkerVars>>
      BY <1>1, <1>2, IdleHealthTyped DEF RunnerCrashes, HealthTypeOK, RunnersOK, Disturb, store
    <2> QED
      BY <2>1, <2>2, <2>3, Untouched, PartsKeep
  <1>3. CASE StartRunner(r)
    <2>1. /\ UNCHANGED <<sub, mach, dispatchVars, collect, health, checkerVars>>
          /\ RunnersOK'
      BY <1>1, <1>3 DEF StartRunner, RunnersOK, store, loopVars, dispatchVars
    <2> QED
      BY <2>1, Untouched, PartsKeep
  <1> QED
    BY <1>2, <1>3

LEMMA HandlePostKeeps ==
  ASSUME JudgingInv, NEW p \in posts, HandlePost(p)
  PROVE  JudgingInv' /\ FinalsStay
  <1> DEFINE m == p.to
             own == <<p.sub, p.claim>>
  <1>1. DispatchOK /\ CheckerTypeOK
    BY InvParts
  <1>2. m \in Machines /\ own \in JobIds
    BY <1>1 DEF DispatchOK, DispatchTypeOK, Posts, JobIds
  <1>3. CollectTypeOK' /\ EntriesKept /\ HealthTypeOK' /\ RunnersOK'
    BY Untouched DEF HandlePost, Forgets
  <1>4. ASSUME NEW old, StartJob(m, own, old), Answered(p, "accepted", own)
        PROVE  JudgingInv' /\ FinalsStay
    <2>1. CheckerTypeOK'
      BY <1>1, <1>2, <1>4, RegistryRequestTyped
    <2>2. DispatchOK' /\ HandsShrink /\ UNCHANGED <<sub, mach>>
      BY <1>1, <1>2, <1>4, AnsweredMoves DEF store
    <2> QED
      BY <1>3, <2>1, <2>2, Untouched, PartsKeep
  <1>5. ASSUME NEW old, NEW j \in RunningFor(m, p.sub),
               RepeatJob(m, p.sub, j.id, old), Answered(p, "accepted", j.id)
        PROVE  JudgingInv' /\ FinalsStay
    <2>1. j.id \in JobIds
      BY <1>1, <1>2, RegistryParts DEF RunningFor, Job
    <2>2. CheckerTypeOK'
      BY <1>1, <1>2, <1>5, <2>1, RegistryRequestTyped
    <2>3. DispatchOK' /\ HandsShrink /\ UNCHANGED <<sub, mach>>
      BY <1>1, <1>5, <2>1, AnsweredMoves DEF store
    <2> QED
      BY <1>3, <2>2, <2>3, Untouched, PartsKeep
  <1>6. ASSUME NEW old, RefuseFull(m, p.sub, old) \/ RefuseClosed(m),
               Answered(p, "refused", NoJob)
        PROVE  JudgingInv' /\ FinalsStay
    <2>1. CheckerTypeOK'
      BY <1>1, <1>2, <1>6, RegistryRequestTyped
    <2>2. DispatchOK' /\ HandsShrink /\ UNCHANGED <<sub, mach>>
      BY <1>1, <1>6, AnsweredMoves DEF store
    <2> QED
      BY <1>3, <2>1, <2>2, Untouched, PartsKeep
  <1> QED
    BY <1>4, <1>5, <1>6 DEF HandlePost

LEMMA LosePostKeeps ==
  ASSUME JudgingInv, NEW p \in posts, LosePost(p)
  PROVE  JudgingInv' /\ FinalsStay
  <1>1. DispatchOK' /\ HandsShrink /\ UNCHANGED <<sub, mach>>
    BY InvParts, AnsweredMoves DEF LosePost, PostFails, store
  <1>2. CollectTypeOK' /\ EntriesKept /\ HealthTypeOK' /\ CheckerTypeOK' /\ RunnersOK'
    BY Untouched DEF LosePost
  <1> QED
    BY <1>1, <1>2, Untouched, PartsKeep

LEMMA MachineStepKeeps ==
  ASSUME JudgingInv, NEW m \in Machines,
         CheckerStep(m) \/ JudgeStep(m) \/ CheckerMishap(m)
  PROVE  JudgingInv' /\ FinalsStay
  <1>1. CheckerTypeOK
    BY InvParts
  <1>2. UNCHANGED <<sub, mach, dispatchVars, collect, health>> /\ RunnersOK'
    BY Untouched
    DEF CheckerStep, JudgeStep, CheckerMishap, store, loopVars, dispatchVars
  <1>3. CheckerTypeOK'
    <2>1. CASE CheckerStep(m)
      BY <1>1, <2>1, FinishJobTyped, ProcessTyped DEF CheckerStep, StopJob, Verdicts
    <2>2. CASE JudgeStep(m)
      BY <1>1, <2>2, FinishJobTyped DEF JudgeStep, JudgeEnds, Verdicts
    <2>3. CASE CheckerMishap(m)
      BY <1>1, <2>3, ProcessTyped DEF CheckerMishap
    <2> QED
      BY <2>1, <2>2, <2>3
  <1> QED
    BY <1>2, <1>3, Untouched, PartsKeep

LEMMA OperateKeeps ==
  ASSUME JudgingInv, NEW m \in Machines, Operate(m)
  PROVE  JudgingInv' /\ FinalsStay
  <1>1. MachOK' /\ UNCHANGED sub
    BY InvParts, SetMachineEnabledMach DEF Operate
  <1>2. /\ UNCHANGED <<dispatchVars, collect, health, checkerVars>> /\ RunnersOK'
    BY Untouched DEF Operate, loopVars, dispatchVars
  <1> QED
    BY <1>1, <1>2, Untouched, PartsKeep

LEMMA SubmissionStepKeeps ==
  ASSUME JudgingInv, NEW s \in Submissions,
         Submit(s) \/ LeaseRunsOut(s) \/ LeaseRunsOutEarly(s)
  PROVE  JudgingInv' /\ FinalsStay
  <1>1. SubStep /\ UNCHANGED mach
    BY InvParts, CreateSubmissionStep, LeaseExpiresStep
    DEF Submit, LeaseRunsOut, LeaseRunsOutEarly, CreateSubmission, LeaseExpires
  <1>2. UNCHANGED <<dispatchVars, collect, health, checkerVars>> /\ RunnersOK'
    BY Untouched
    DEF Submit, LeaseRunsOut, LeaseRunsOutEarly, loopVars, dispatchVars
  <1> QED
    BY <1>1, <1>2, Untouched, PartsKeep

-----------------------------------------------------------------------------
LEMMA NextKeeps ==
  ASSUME JudgingInv, [Next]_vars
  PROVE  JudgingInv' /\ FinalsStay
  <1>1. ASSUME NEW r \in Runners,
               \/ DispatchStep(r) \/ DropPost(r)
               \/ CollectWrites(r) \/ AskForJob(r) \/ AskInVain(r)
               \/ HealthWrites(r) \/ AskHealth(r) \/ AskHealthInVain(r)
               \/ PassFails(r) \/ RunnerCrashes(r) \/ StartRunner(r)
        PROVE  JudgingInv' /\ FinalsStay
    BY <1>1, DispatchStepKeeps, DropPostKeeps, CollectWritesKeeps, AskForJobKeeps,
       AskInVainKeeps, HealthWritesKeeps, AskHealthKeeps, PassFailsKeeps,
       RunnerProcessKeeps
  <1>2. ASSUME NEW p \in posts, HandlePost(p) \/ LosePost(p)
        PROVE  JudgingInv' /\ FinalsStay
    BY <1>2, HandlePostKeeps, LosePostKeeps
  <1>3. ASSUME NEW m \in Machines,
               CheckerStep(m) \/ JudgeStep(m) \/ CheckerMishap(m) \/ Operate(m)
        PROVE  JudgingInv' /\ FinalsStay
    BY <1>3, MachineStepKeeps, OperateKeeps
  <1>4. ASSUME NEW s \in Submissions,
               Submit(s) \/ LeaseRunsOut(s) \/ LeaseRunsOutEarly(s)
        PROVE  JudgingInv' /\ FinalsStay
    BY <1>4, SubmissionStepKeeps
  <1>5. CASE UNCHANGED vars
    <2>1. UNCHANGED <<sub, mach, dispatchVars, collect, health, checkerVars>>
      BY <1>5 DEF vars, dispatchVars, checkerVars
    <2>2. UNCHANGED <<runnerVars, disturbed>>
      BY <1>5 DEF vars, runnerVars
    <2> QED
      BY <2>1, <2>2, Untouched, PartsKeep
  <1> QED
    BY <1>1, <1>2, <1>3, <1>4, <1>5 DEF Next

LEMMA InitHolds == Init => JudgingInv
  <1> SUFFICES ASSUME Init PROVE JudgingInv
    OBVIOUS
  <1>1. AbsentRow \in SubmissionRow
    BY DEF AbsentRow, SubmissionRow, Statuses, PendingStatuses, Leases, Notes
  <1>2. RowOK(AbsentRow)
    <2>1. AbsentRow.status \notin Verdicts
      BY JudgementsAssumption DEF AbsentRow, Verdicts
    <2> QED
      BY <1>1, <2>1 DEF RowOK, AbsentRow, ColumnsAgree, NoteFits, AttemptsFit, WasJudged
  <1>3. SubOK
    BY <1>1, <1>2, SubOKByRow DEF Init, StoreInit
  <1>4. MachOK
    BY DEF Init, StoreInit, MachOK, MachineRow
  <1>5. DispatchOK /\ OwnClaims /\ \A r \in Runners : HandIsExact(dispatch[r])
    BY IdleDispatchFits
    DEF Init, DispatchInit, DispatchOK, DispatchTypeOK, HandIsFull, OwnClaims, HandIsExact,
        IdleDispatch
  <1>6. CollectTypeOK /\ \A r \in Runners : \A e \in collect[r].todo : EntryIsExact(e)
    BY DEF Init, CollectInit, CollectTypeOK, IdleCollect, CollectState
  <1>7. HealthTypeOK
    BY IdleHealthTyped DEF Init, HealthInit, HealthTypeOK
  <1>8. CheckerTypeOK
    BY FS_EmptySet DEF Init, CheckerInit, CheckerTypeOK
  <1>9. RunnersOK
    BY DEF Init, RunnersOK
  <1> QED
    BY <1>3, <1>4, <1>5, <1>6, <1>7, <1>8, <1>9, InvParts DEF FenceIsExact

(* Every reachable state satisfies the inductive invariant: types, agreeing *)
(* columns, bounded attempts, and a fence that is exact.                    *)
THEOREM JudgingInvHolds == Spec => []JudgingInv
  <1>1. JudgingInv /\ [Next]_vars => JudgingInv'
    BY NextKeeps
  <1> QED
    BY <1>1, InitHolds, PTL DEF Spec

(* The tables, the local states of the passes and the registries of the    *)
(* checkers hold what their columns and variables are declared to hold.    *)
THEOREM TypesHold == Spec => []TypeOK
  <1>1. JudgingInv => TypeOK
    BY DEF JudgingInv
  <1> QED
    BY <1>1, JudgingInvHolds, PTL

(* However the statements of the loops interleave, the columns of a        *)
(* submission's row agree with its status.                                 *)
THEOREM RowsStayConsistent == Spec => []RowConsistent
  <1>1. JudgingInv => RowConsistent
    BY DEF JudgingInv, RowsOK
  <1> QED
    BY <1>1, JudgingInvHolds, PTL

(* The sentence on the page is right about every row, though it is written *)
(* after the pass that found no machine.                                   *)
THEOREM NotesStayTrue == Spec => []NoteFitsStatus
  <1>1. JudgingInv => NoteFitsStatus
    BY DEF JudgingInv, RowsOK
  <1> QED
    BY <1>1, JudgingInvHolds, PTL

(* No submission is handed out more often than some runner's               *)
(* SUBMISSION_MAX_ATTEMPTS allows, whatever limits the runners have.       *)
THEOREM AttemptsStayLimited == Spec => []AttemptsWithinLimit
  <1>1. JudgingInv => AttemptsWithinLimit
    BY DEF JudgingInv, RowsOK
  <1> QED
    BY <1>1, JudgingInvHolds, PTL

(* A statement that finds its claim id in the row finds the machine and    *)
(* the job it knows there too: the claim id alone fences every write.      *)
THEOREM FenceStaysExact == Spec => []FenceIsExact
  <1>1. JudgingInv => FenceIsExact
    BY DEF JudgingInv, HandlesOK
  <1> QED
    BY <1>1, JudgingInvHolds, PTL

(* A final row is never written again, by any pass of any runner.          *)
THEOREM FinalsAreForever == Spec => FinalIsForever
  <1>1. JudgingInv /\ [Next]_vars => [\A s \in Submissions : IsFinal(sub[s]) => sub'[s] = sub[s]]_sub
    BY NextKeeps DEF FinalsStay
  <1> QED
    BY <1>1, JudgingInvHolds, PTL DEF Spec, FinalIsForever
=============================================================================
