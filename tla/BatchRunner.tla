---------------------------- MODULE BatchRunner ----------------------------
(***************************************************************************)
(* Benchmark batches: the startBatch and stopBatch endpoints and the run   *)
(* that creates a batch's submissions in the background of the process     *)
(* that started it (batch-runner.ts).  A batch here is one press of the    *)
(* panel's button: first a call of startBatch, then the run it launches.   *)
(* Its submissions are ordinary ones; what becomes of them is the judging  *)
(* system's affair.                                                        *)
(***************************************************************************)
EXTENDS Integers, Sequences

CONSTANTS
  Batches,      \* batches that may be started
  Processes,    \* processes of the application
  NoProcess,    \* nobody is at work on the batch
  Counts,       \* the counts a caller may ask for
  Faults,       \* kinds of fault a behaviour may contain
  MaxFaults     \* how many of them (a bound for model checking)

FaultKinds ==
  {"failure",   \* a statement or a file read of the run throws
   "mark",      \* the statement that marks a run as failed throws
   "insert",    \* the batch is inserted and the answer lost
   "crash"}     \* a process ends

ASSUME ProcessesAssumption == NoProcess \notin Processes
ASSUME CountsAssumption == Counts \subseteq Nat \ {0}
ASSUME FaultsAssumption == Faults \subseteq FaultKinds /\ MaxFaults \in Nat

VARIABLES
  batch,     \* benchmark__batch_
  sent,      \* benchmark__batch_submission_, counted by expects_accepted
  run,       \* where the call, then the run of each batch is
  faulted    \* the faults so far

vars == <<batch, sent, run, faulted>>

BatchRow ==
  [status : {"absent", "running", "completed", "stopped", "failed"},
   requested : Nat, created : Nat]

Solutions == [correct : Nat, wrong : Nat]
NoSolutions == [correct |-> 0, wrong |-> 0]

RunSteps ==
  {"idle",       \* not started, refused, or over
   "clear",      \* startBatch saw no running batch
   "inserted",   \* the batch is in the table
   "load",       \* launched: about to read the batch
   "create",     \* in the loop over the deck
   "locked",     \* in its transaction: the row is locked and was seen running
   "close",      \* the deck is used up
   "failing"}    \* the run threw

RunState ==
  [at : RunSteps, process : Processes \union {NoProcess}, deck : Solutions]

BatchTypeOK ==
  /\ batch \in [Batches -> BatchRow]
  /\ sent \in [Batches -> Solutions]
  /\ run \in [Batches -> RunState]
  /\ faulted \in Seq(FaultKinds)

IdleRun == [at |-> "idle", process |-> NoProcess, deck |-> NoSolutions]

Init ==
  /\ batch = [b \in Batches |-> [status |-> "absent", requested |-> 0, created |-> 0]]
  /\ sent = [b \in Batches |-> NoSolutions]
  /\ run = [b \in Batches |-> IdleRun]
  /\ faulted = <<>>

-----------------------------------------------------------------------------
(* Helpers *)

Fault(kind) ==
  /\ kind \in Faults
  /\ Len(faulted) < MaxFaults
  /\ faulted' = Append(faulted, kind)

Running == {b \in Batches : batch[b].status = "running"}

Goto(b, step) == run' = [run EXCEPT ![b].at = step]

(* The promise of launchBenchmarkBatch settles.  (activeRun, the handle it *)
(* is kept in, serves the tests only.)                                     *)
RunEnds(b) == run' = [run EXCEPT ![b] = IdleRun]

(* Math.round(count * 0.7): the count closest to seven in ten, either of   *)
(* two if both are (0.7 is a little less than seven tenths in floating     *)
(* point).                                                                 *)
CorrectCounts(n) == {c \in 0 .. n : 10 * c - 7 * n \in -5 .. 5}

Size(solutions) == solutions.correct + solutions.wrong

-----------------------------------------------------------------------------
(* startBatch *)

(* The read that refuses a second batch politely. *)
SeeNoneRunning(b, p) ==
  /\ run[b].at = "idle"
  /\ batch[b].status = "absent"
  /\ Running = {}
  /\ run' = [run EXCEPT ![b] = [IdleRun EXCEPT !.at = "clear", !.process = p]]
  /\ UNCHANGED <<batch, sent, faulted>>

(* Mistaken: nothing but the read keeps a second batch out. *)
NoIndex == TRUE

(* The partial unique index on the running rows. *)
IndexAllows == Running = {}

StartedBatch(n) == [status |-> "running", requested |-> n, created |-> 0]

InsertRow(b, n) ==
  /\ run[b].at = "clear"
  /\ IndexAllows
  /\ batch' = [batch EXCEPT ![b] = StartedBatch(n)]
  /\ UNCHANGED sent

InsertBatch(b, n) ==
  /\ InsertRow(b, n)
  /\ Goto(b, "inserted")
  /\ UNCHANGED faulted

(* The insert went through; the caller is told of an error, and nobody     *)
(* launches the run.                                                       *)
InsertAnswerLost(b, n) ==
  /\ Fault("insert")
  /\ InsertRow(b, n)
  /\ run' = [run EXCEPT ![b] = IdleRun]

InsertRefused(b) ==
  /\ run[b].at = "clear"
  /\ ~IndexAllows
  /\ run' = [run EXCEPT ![b] = IdleRun]
  /\ UNCHANGED <<batch, sent, faulted>>

Launch(b) ==
  /\ run[b].at = "inserted"
  /\ Goto(b, "load")
  /\ UNCHANGED <<batch, sent, faulted>>

(* Mistaken: a SELECT without FOR UPDATE locks nothing. *)
NoneLocked == {}

(* Rows that a transaction of createBatchSubmission holds.  Its connection *)
(* goes with its process, and the lock with it.                            *)
Locked == {b \in Batches : run[b].at = "locked"}

(* stopBatch: one statement, whoever started the batch.  It waits for the  *)
(* lock of a row it is to change.                                          *)
StopBatch ==
  /\ Running # {}
  /\ Running \intersect Locked = {}
  /\ batch' = [b \in Batches |->
                 IF b \in Running THEN [batch[b] EXCEPT !.status = "stopped"]
                                  ELSE batch[b]]
  /\ UNCHANGED <<sent, run, faulted>>

-----------------------------------------------------------------------------
(* runBenchmarkBatch *)

(* What the SELECT at the start, and the one FOR UPDATE in the loop, look  *)
(* for.                                                                    *)
StillRunning(b) == batch[b].status = "running"

LoadBatch(b) ==
  /\ run[b].at = "load"
  /\ StillRunning(b)
  /\ \E c \in CorrectCounts(batch[b].requested) :
       run' = [run EXCEPT
         ![b].at = "create",
         ![b].deck = [correct |-> c, wrong |-> batch[b].requested - c]]
  /\ UNCHANGED <<batch, sent, faulted>>

(* It was stopped meanwhile: whatever exists stays. *)
FindStopped(b) ==
  /\ run[b].at \in {"load", "create"}
  /\ ~StillRunning(b)
  /\ RunEnds(b)
  /\ UNCHANGED <<batch, sent, faulted>>

InDeck(deck, kind) == deck[kind] > 0

(* createBatchSubmission: the SELECT ... FOR UPDATE. *)
LockRow(b) ==
  /\ run[b].at = "create"
  /\ StillRunning(b)
  /\ Goto(b, "locked")
  /\ UNCHANGED <<batch, sent, faulted>>

(* The rest of its transaction and the COMMIT, for a solution of either    *)
(* kind on a shuffled deck.  The status is not looked at again.            *)
Store(b, kind) ==
  /\ InDeck(run[b].deck, kind)
  /\ batch' = [batch EXCEPT ![b].created = @ + 1]
  /\ sent' = [sent EXCEPT ![b][kind] = @ + 1]

(* Mistaken: the loop ends one solution early. *)
UsedUpButOne(deck) == Size(deck) <= 2

(* No solution is left after the one that is being created. *)
UsedUp(deck) == Size(deck) = 1

CreateNext(b) ==
  /\ run[b].at = "locked"
  /\ \E kind \in {"correct", "wrong"} :
       /\ Store(b, kind)
       /\ run' = [run EXCEPT
            ![b].deck[kind] = @ - 1,
            ![b].at = IF UsedUp(run[b].deck) THEN "close" ELSE "create"]
  /\ UNCHANGED faulted

(* Mistaken: a guard against overwriting a stop, the wrong way round. *)
EndUnlessRunning(b, status) ==
  batch' = [batch EXCEPT ![b].status = IF @ = "running" THEN @ ELSE status]

EndAs(b, status) == batch' = [batch EXCEPT ![b].status = status]

Close(b) ==
  /\ run[b].at = "close"
  /\ EndAs(b, "completed")
  /\ RunEnds(b)
  /\ UNCHANGED <<sent, faulted>>

(* A statement throws, having done its work or not. *)
RunThrows(b) ==
  /\ Fault("failure")
  /\ run[b].at \in {"load", "create", "locked", "close"}
  /\ \/ UNCHANGED <<batch, sent>>
     \/ run[b].at = "locked" /\ \E kind \in {"correct", "wrong"} : Store(b, kind)
     \/ run[b].at = "close" /\ EndAs(b, "completed") /\ UNCHANGED sent
  /\ Goto(b, "failing")

(* The catch of launchBenchmarkBatch. *)
MarkFailed(b) ==
  /\ run[b].at = "failing"
  /\ EndAs(b, "failed")
  /\ RunEnds(b)
  /\ UNCHANGED <<sent, faulted>>

MarkInVain(b) ==
  /\ Fault("mark")
  /\ run[b].at = "failing"
  /\ RunEnds(b)
  /\ UNCHANGED <<batch, sent>>

(* What the process was doing is forgotten; the next one knows of nothing. *)
ProcessCrashes(p) ==
  /\ Fault("crash")
  /\ run' = [b \in Batches |-> IF run[b].process = p THEN IdleRun ELSE run[b]]
  /\ UNCHANGED <<batch, sent>>

-----------------------------------------------------------------------------
CallStep(b) ==
  \/ \E n \in Counts : InsertBatch(b, n) \/ InsertAnswerLost(b, n)
  \/ InsertRefused(b)
  \/ Launch(b)

RunStep(b) ==
  \/ LoadBatch(b) \/ FindStopped(b) \/ LockRow(b) \/ CreateNext(b)
  \/ Close(b) \/ MarkFailed(b)

Next ==
  \/ \E b \in Batches : \/ \E p \in Processes : SeeNoneRunning(b, p)
                        \/ CallStep(b) \/ RunStep(b)
                        \/ RunThrows(b) \/ MarkInVain(b)
  \/ StopBatch
  \/ \E p \in Processes : ProcessCrashes(p)

Spec == Init /\ [][Next]_vars

(* A call and a run go on for as long as their process lives. *)
FairSpec == Spec /\ \A b \in Batches : WF_vars(CallStep(b)) /\ WF_vars(RunStep(b))

-----------------------------------------------------------------------------
(* At most one batch is ever running, although every call of startBatch    *)
(* looked before any of them inserted (schema.ts, start-batch/index.ts).   *)
OneRuns == \A b, c \in Running : b = c

(* A batch that says completed sent everything it was asked for, seven in  *)
(* ten of it correct, however its run was disturbed; no batch ever sent    *)
(* more than was asked, and created_count is what it sent.                 *)
Whole(row, solutions) ==
  /\ Size(solutions) = row.requested
  /\ solutions.correct \in CorrectCounts(row.requested)

SentAsAsked(row, solutions) ==
  /\ row.created = Size(solutions)
  /\ row.created <= row.requested
  /\ row.status = "completed" => Whole(row, solutions)

SentWhatWasAsked == \A b \in Batches : SentAsAsked(batch[b], sent[b])

(* When a batch has ended its count is final: stopBatch answers with it,   *)
(* and no submission is committed of the batch or counted after that,      *)
(* wherever its run was in looking, locking and inserting ("a stop that    *)
(* arrives mid-flight is seen before anything new is written").            *)
Ended(row) == row.status \in {"completed", "stopped", "failed"}

CountIsFinal ==
  [][\A b \in Batches :
       Ended(batch[b]) => sent'[b] = sent[b] /\ batch'[b].created = batch[b].created]_vars

(* A batch does not run for ever, though its run may fail at any point: it *)
(* ends completed, stopped or failed, and another can be started.  Nobody  *)
(* takes up a batch whose run died with its process, or that never had     *)
(* one.                                                                    *)
Survivable == \A i \in DOMAIN faulted : faulted[i] = "failure"

BatchEnds ==
  \A b \in Batches :
    batch[b].status = "running" ~> batch[b].status # "running" \/ ~Survivable

-----------------------------------------------------------------------------
(* What a comment and a test say and the code does not keep.               *)

(* schema: stopped is one of "the ways it can end".  The UPDATE after the  *)
(* loop has no condition on the status.                                    *)
StopIsKept ==
  [][\A b \in Batches : batch[b].status = "stopped" => batch'[b].status = "stopped"]_batch
=============================================================================
