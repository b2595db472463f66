---------------------------- MODULE BatchProofs ----------------------------
(***************************************************************************)
(* Proofs about the benchmark batches, for any batches, processes and      *)
(* counts, and for any number of faults.                                   *)
(***************************************************************************)
EXTENDS BatchRunner, TLAPS

-----------------------------------------------------------------------------
(* What the run of a batch relies on at each of its steps: together with   *)
(* what was sent the deck is what was asked for, and a row that is locked  *)
(* is still running.                                                       *)
RowFits(row, solutions) ==
  IF row.status = "absent" THEN row.created = 0 /\ solutions = NoSolutions
                           ELSE row.requested > 0

DeckFits(row, solutions, state) ==
  /\ state.at = "clear" => row.status = "absent"
  /\ state.at \notin {"idle", "clear"} => row.status # "absent"
  /\ state.at \in {"inserted", "load"} => solutions = NoSolutions
  /\ state.at = "locked" => row.status = "running"
  /\ state.at \in {"create", "locked"} =>
       /\ Size(state.deck) > 0
       /\ Size(solutions) + Size(state.deck) = row.requested
       /\ solutions.correct + state.deck.correct \in CorrectCounts(row.requested)
  /\ state.at = "close" => Whole(row, solutions)

BatchOK(row, solutions, state) ==
  /\ row \in BatchRow
  /\ solutions \in Solutions
  /\ state \in RunState
  /\ SentAsAsked(row, solutions)
  /\ RowFits(row, solutions)
  /\ DeckFits(row, solutions, state)

Good(b) == BatchOK(batch[b], sent[b], run[b])

BatchInv == BatchTypeOK /\ OneRuns /\ \A b \in Batches : Good(b)

(* A step that changes what belongs to one batch only, and makes no batch  *)
(* running, keeps the invariant if it keeps that batch good.               *)
LEMMA OneBatchStep ==
  ASSUME BatchInv, NEW b \in Batches, NEW row, NEW solutions, NEW state,
         batch' = [batch EXCEPT ![b] = row],
         sent' = [sent EXCEPT ![b] = solutions],
         run' = [run EXCEPT ![b] = state],
         BatchOK(row, solutions, state),
         row.status = "running" => batch[b].status = "running" \/ IndexAllows,
         faulted' \in Seq(FaultKinds)
  PROVE  BatchInv'
  <1>1. /\ batch \in [Batches -> BatchRow] /\ sent \in [Batches -> Solutions]
        /\ run \in [Batches -> RunState]
    BY DEF BatchInv, BatchTypeOK
  <1>2. /\ batch'[b] = row /\ sent'[b] = solutions /\ run'[b] = state
        /\ \A c \in Batches \ {b} :
             batch'[c] = batch[c] /\ sent'[c] = sent[c] /\ run'[c] = run[c]
    BY <1>1
  <1>3. BatchTypeOK'
    BY <1>1 DEF BatchTypeOK, BatchOK
  <1>4. OneRuns'
    BY <1>2 DEF BatchInv, OneRuns, Running, IndexAllows
  <1>5. ASSUME NEW c \in Batches PROVE Good(c)'
    <2>1. CASE c = b
      BY <1>2, <2>1 DEF Good
    <2>2. CASE c # b
      BY <1>2, <2>2 DEF Good, BatchInv
    <2> QED
      BY <2>1, <2>2
  <1> QED
    BY <1>3, <1>4, <1>5 DEF BatchInv

(* The same if only the run goes on. *)
LEMMA OneRunStep ==
  ASSUME BatchInv, NEW b \in Batches, NEW state,
         UNCHANGED <<batch, sent>>,
         run' = [run EXCEPT ![b] = state],
         BatchOK(batch[b], sent[b], state),
         faulted' \in Seq(FaultKinds)
  PROVE  BatchInv'
  <1>1. /\ batch \in [Batches -> BatchRow] /\ sent \in [Batches -> Solutions]
        /\ run \in [Batches -> RunState]
    BY DEF BatchInv, BatchTypeOK
  <1>2. batch' = [batch EXCEPT ![b] = batch[b]] /\ sent' = [sent EXCEPT ![b] = sent[b]]
    BY <1>1
  <1> DEFINE row == batch[b]
             solutions == sent[b]
  <1> HIDE DEF row, solutions
  <1>3. row.status = "running" => batch[b].status = "running" \/ IndexAllows
    BY DEF row
  <1>4. /\ batch' = [batch EXCEPT ![b] = row] /\ sent' = [sent EXCEPT ![b] = solutions]
        /\ BatchOK(row, solutions, state)
    BY <1>2 DEF row, solutions
  <1> QED
    BY <1>3, <1>4, OneBatchStep

(* A batch whose row and solutions are as they should be may always lose   *)
(* its run.                                                                *)
LEMMA IdleIsGood ==
  ASSUME NEW row \in BatchRow, NEW solutions \in Solutions, SentAsAsked(row, solutions),
         RowFits(row, solutions)
  PROVE  BatchOK(row, solutions, IdleRun)
  BY DEF BatchOK, DeckFits, IdleRun, RunState, RunSteps, Solutions, NoSolutions

(* The initial state has no batch and no run. *)
LEMMA BatchInit == Init => BatchInv
  <1> SUFFICES ASSUME Init PROVE BatchInv
    OBVIOUS
  <1>1. BatchTypeOK
    BY DEF Init, BatchTypeOK, BatchRow, Solutions, NoSolutions, IdleRun, RunState, RunSteps
  <1>2. OneRuns
    BY DEF Init, OneRuns, Running
  <1>3. ASSUME NEW b \in Batches PROVE Good(b)
    BY <1>1 DEF Init, Good, BatchOK, BatchTypeOK, SentAsAsked, RowFits, DeckFits,
                IdleRun, NoSolutions, Size
  <1> QED
    BY <1>1, <1>2, <1>3 DEF BatchInv

-----------------------------------------------------------------------------
(* A fault of some kind is added to those there have been. *)
LEMMA FaultsAreListed ==
  ASSUME faulted \in Seq(FaultKinds), NEW kind, Fault(kind)
  PROVE  faulted' \in Seq(FaultKinds)
  <1>1. kind \in FaultKinds
    BY FaultsAssumption DEF Fault
  <1>2. faulted' = Append(faulted, kind)
    BY DEF Fault
  <1> QED
    BY <1>1, <1>2

(* startBatch: a batch becomes running only where the index allows it.     *)
LEMMA CallKeeps ==
  ASSUME BatchInv, NEW b \in Batches,
         CallStep(b) \/ \E p \in Processes : SeeNoneRunning(b, p)
  PROVE  BatchInv'
  <1>1. /\ batch \in [Batches -> BatchRow] /\ sent \in [Batches -> Solutions]
        /\ run \in [Batches -> RunState] /\ faulted \in Seq(FaultKinds)
    BY DEF BatchInv, BatchTypeOK
  <1>2. Good(b)
    BY DEF BatchInv
  <1>3. ASSUME NEW n \in Counts, InsertRow(b, n)
        PROVE  /\ batch' = [batch EXCEPT ![b] = StartedBatch(n)]
               /\ sent' = [sent EXCEPT ![b] = NoSolutions]
               /\ IndexAllows
               /\ StartedBatch(n) \in BatchRow
               /\ SentAsAsked(StartedBatch(n), NoSolutions)
               /\ RowFits(StartedBatch(n), NoSolutions)
    <2>1. n \in Nat /\ n > 0
      BY CountsAssumption
    <2>2. sent[b] = NoSolutions
      BY <1>2, <1>3 DEF InsertRow, Good, BatchOK, RowFits, DeckFits
    <2>3. sent' = [sent EXCEPT ![b] = NoSolutions]
      BY <1>1, <1>3, <2>2 DEF InsertRow
    <2>4. StartedBatch(n) \in BatchRow
      BY <2>1 DEF StartedBatch, BatchRow
    <2>5. SentAsAsked(StartedBatch(n), NoSolutions) /\ RowFits(StartedBatch(n), NoSolutions)
      BY <2>1 DEF StartedBatch, SentAsAsked, RowFits, Size, NoSolutions
    <2> QED
      BY <1>3, <2>3, <2>4, <2>5 DEF InsertRow
  <1>4. CASE \E p \in Processes : SeeNoneRunning(b, p)
    <2>1. PICK p \in Processes : SeeNoneRunning(b, p)
      BY <1>4
    <2> DEFINE state == [IdleRun EXCEPT !.at = "clear", !.process = p]
    <2>2. BatchOK(batch[b], sent[b], state)
      BY <1>2, <2>1 DEF SeeNoneRunning, Good, BatchOK, DeckFits, IdleRun, RunState, RunSteps,
                        NoSolutions, Solutions
    <2>3. /\ run' = [run EXCEPT ![b] = state]
          /\ UNCHANGED <<batch, sent, faulted>>
      BY <2>1 DEF SeeNoneRunning
    <2> QED
      BY <1>1, <2>2, <2>3, OneRunStep
  <1>5. CASE \E n \in Counts : InsertBatch(b, n)
    <2>1. PICK n \in Counts : InsertBatch(b, n)
      BY <1>5
    <2> DEFINE state == [run[b] EXCEPT !.at = "inserted"]
    <2>2. InsertRow(b, n) /\ faulted' = faulted /\ run' = [run EXCEPT ![b] = state]
      BY <2>1 DEF InsertBatch, Goto
    <2>3. state \in RunState /\ state.at = "inserted"
      BY <1>1 DEF RunState, RunSteps
    <2>4. NoSolutions \in Solutions /\ StartedBatch(n).status # "absent"
      BY DEF NoSolutions, Solutions, StartedBatch
    <2>5. BatchOK(StartedBatch(n), NoSolutions, state)
      BY <1>3, <2>2, <2>3, <2>4 DEF BatchOK, DeckFits
    <2> HIDE DEF state
    <2> QED
      BY <1>1, <1>3, <2>2, <2>5, OneBatchStep
  <1>6. CASE \E n \in Counts : InsertAnswerLost(b, n)
    <2>1. PICK n \in Counts : InsertAnswerLost(b, n)
      BY <1>6
    <2>2. InsertRow(b, n) /\ faulted' \in Seq(FaultKinds) /\ run' = [run EXCEPT ![b] = IdleRun]
      BY <1>1, <2>1, FaultsAreListed DEF InsertAnswerLost
    <2>3. BatchOK(StartedBatch(n), NoSolutions, IdleRun)
      BY <1>3, <2>2, IdleIsGood DEF StartedBatch, Solutions, NoSolutions
    <2> QED
      BY <1>1, <1>3, <2>2, <2>3, OneBatchStep
  <1>7. CASE InsertRefused(b)
    <2>1. BatchOK(batch[b], sent[b], IdleRun)
      BY <1>2, IdleIsGood DEF Good, BatchOK, DeckFits
    <2> QED
      BY <1>1, <1>7, <2>1, OneRunStep DEF InsertRefused
  <1>8. CASE Launch(b)
    <2> DEFINE state == [run[b] EXCEPT !.at = "load"]
    <2>1. /\ run' = [run EXCEPT ![b] = state] /\ UNCHANGED <<batch, sent, faulted>>
      BY <1>1, <1>8 DEF Launch, Goto
    <2>2. BatchOK(batch[b], sent[b], state)
      BY <1>1, <1>2, <1>8 DEF Launch, Good, BatchOK, DeckFits, RunState, RunSteps
    <2> QED
      BY <1>1, <2>1, <2>2, OneRunStep
  <1> QED
    BY <1>4, <1>5, <1>6, <1>7, <1>8 DEF CallStep

(* stopBatch: the row of a running batch was not absent and is not locked, *)
(* so whoever holds on to it does so at a step that allows any status.     *)
LEMMA StopKeeps ==
  ASSUME BatchInv, StopBatch
  PROVE  BatchInv'
  <1>1. batch \in [Batches -> BatchRow]
    BY DEF BatchInv, BatchTypeOK
  <1>2. ASSUME NEW b \in Batches
        PROVE  \/ batch'[b] = batch[b] /\ b \notin Running
               \/ batch'[b] = [batch[b] EXCEPT !.status = "stopped"] /\ b \in Running
    BY DEF StopBatch
  <1>3. BatchTypeOK'
    BY <1>1, <1>2 DEF StopBatch, BatchInv, BatchTypeOK, BatchRow
  <1>4. OneRuns'
    BY <1>1, <1>2 DEF BatchRow, OneRuns, Running
  <1>5. ASSUME NEW b \in Batches PROVE Good(b)'
    <2>1. Good(b) /\ sent'[b] = sent[b] /\ run'[b] = run[b]
      BY DEF BatchInv, StopBatch
    <2>2. CASE batch'[b] = batch[b]
      BY <2>1, <2>2 DEF Good
    <2>3. CASE batch'[b] = [batch[b] EXCEPT !.status = "stopped"] /\ b \in Running
      <3>1. /\ batch'[b] \in BatchRow /\ batch'[b].status = "stopped"
            /\ batch'[b].created = batch[b].created
            /\ batch'[b].requested = batch[b].requested
            /\ batch[b].status = "running"
        BY <1>1, <2>3 DEF BatchRow, Running
      <3>2. run[b].at # "locked"
        BY <2>3 DEF StopBatch, Locked
      <3> QED
        BY <2>1, <3>1, <3>2 DEF Good, BatchOK, SentAsAsked, RowFits, DeckFits, Whole
    <2> QED
      BY <1>2, <2>2, <2>3
  <1> QED
    BY <1>3, <1>4, <1>5 DEF BatchInv

(* A crash makes runs idle. *)
LEMMA CrashKeeps ==
  ASSUME BatchInv, NEW p \in Processes, ProcessCrashes(p)
  PROVE  BatchInv'
  <1>1. run \in [Batches -> RunState] /\ faulted \in Seq(FaultKinds)
    BY DEF BatchInv, BatchTypeOK
  <1>2. IdleRun \in RunState
    BY DEF IdleRun, RunState, RunSteps, NoSolutions, Solutions
  <1>3. BatchTypeOK'
    BY <1>1, <1>2, FaultsAreListed DEF ProcessCrashes, BatchInv, BatchTypeOK
  <1>4. OneRuns'
    BY DEF ProcessCrashes, BatchInv, OneRuns, Running
  <1>5. ASSUME NEW b \in Batches PROVE Good(b)'
    <2>1. /\ Good(b) /\ batch'[b] = batch[b] /\ sent'[b] = sent[b]
          /\ run'[b] = run[b] \/ run'[b] = IdleRun
      BY DEF BatchInv, ProcessCrashes
    <2>2. BatchOK(batch[b], sent[b], IdleRun)
      BY <2>1, IdleIsGood DEF Good, BatchOK, DeckFits
    <2> QED
      BY <2>1, <2>2 DEF Good
  <1> QED
    BY <1>3, <1>4, <1>5 DEF BatchInv

-----------------------------------------------------------------------------
(* The transaction that creates a submission moves a solution from the     *)
(* deck to what was sent.                                                  *)
LEMMA StoreMovesOne ==
  ASSUME BatchInv, NEW b \in Batches, NEW kind \in {"correct", "wrong"},
         run[b].at = "locked", Store(b, kind)
  PROVE  LET row == [batch[b] EXCEPT !.created = @ + 1]
             solutions == [sent[b] EXCEPT ![kind] = @ + 1]
             deck == [run[b].deck EXCEPT ![kind] = @ - 1]
         IN  /\ batch' = [batch EXCEPT ![b] = row]
             /\ row.requested > 0
             /\ sent' = [sent EXCEPT ![b] = solutions]
             /\ row \in BatchRow /\ solutions \in Solutions /\ deck \in Solutions
             /\ row.status = "running" /\ batch[b].status = "running"
             /\ row.requested = batch[b].requested
             /\ row.created = Size(solutions)
             /\ Size(solutions) + Size(deck) = row.requested
             /\ solutions.correct + deck.correct \in CorrectCounts(row.requested)
             /\ Size(deck) = Size(run[b].deck) - 1
  <1> DEFINE row == [batch[b] EXCEPT !.created = @ + 1]
             solutions == [sent[b] EXCEPT ![kind] = @ + 1]
             deck == [run[b].deck EXCEPT ![kind] = @ - 1]
  <1>1. /\ batch[b] \in BatchRow /\ sent[b] \in Solutions /\ run[b].deck \in Solutions
        /\ batch[b].created = Size(sent[b]) /\ RowFits(batch[b], sent[b])
        /\ Size(sent[b]) + Size(run[b].deck) = batch[b].requested
        /\ sent[b].correct + run[b].deck.correct \in CorrectCounts(batch[b].requested)
        /\ batch[b].status = "running"
    BY DEF BatchInv, Good, BatchOK, DeckFits, SentAsAsked, RunState
  <1>2. /\ batch' = [batch EXCEPT ![b] = row] /\ sent' = [sent EXCEPT ![b] = solutions]
        /\ batch[b].status = "running" /\ run[b].deck[kind] > 0
    BY <1>1 DEF Store, InDeck
  <1>3. /\ row \in BatchRow /\ row.status = "running"
        /\ row.requested = batch[b].requested /\ row.created = batch[b].created + 1
        /\ row.requested > 0
    BY <1>1, <1>2 DEF BatchRow, RowFits
  <1>4. CASE kind = "correct"
    <2>1. /\ solutions \in Solutions /\ deck \in Solutions
          /\ solutions.correct = sent[b].correct + 1 /\ solutions.wrong = sent[b].wrong
          /\ deck.correct = run[b].deck.correct - 1 /\ deck.wrong = run[b].deck.wrong
      BY <1>1, <1>2, <1>4 DEF Solutions
    <2>2. solutions.correct + deck.correct = sent[b].correct + run[b].deck.correct
      BY <1>1, <2>1 DEF Solutions
    <2>3. /\ Size(solutions) = Size(sent[b]) + 1 /\ Size(deck) = Size(run[b].deck) - 1
          /\ Size(solutions) + Size(deck) = Size(sent[b]) + Size(run[b].deck)
      BY <1>1, <2>1 DEF Solutions, Size
    <2> QED
      BY <1>1, <1>2, <1>3, <2>1, <2>2, <2>3
  <1>5. CASE kind = "wrong"
    <2>1. /\ solutions \in Solutions /\ deck \in Solutions
          /\ solutions.correct = sent[b].correct /\ solutions.wrong = sent[b].wrong + 1
          /\ deck.correct = run[b].deck.correct /\ deck.wrong = run[b].deck.wrong - 1
      BY <1>1, <1>2, <1>5 DEF Solutions
    <2>2. /\ Size(solutions) = Size(sent[b]) + 1 /\ Size(deck) = Size(run[b].deck) - 1
          /\ Size(solutions) + Size(deck) = Size(sent[b]) + Size(run[b].deck)
      BY <1>1, <2>1 DEF Solutions, Size
    <2> QED
      BY <1>1, <1>2, <1>3, <2>1, <2>2
  <1> QED
    BY <1>4, <1>5

(* A batch that ends is as good as it was, and completed only if whole.    *)
LEMMA EndKeeps ==
  ASSUME BatchInv, NEW b \in Batches, NEW state, NEW status \in {"completed", "failed"},
         run[b].at \in {"close", "failing"},
         status = "completed" => run[b].at = "close",
         EndAs(b, status), UNCHANGED sent,
         run' = [run EXCEPT ![b] = state],
         state = IdleRun \/ state = [run[b] EXCEPT !.at = "failing"],
         faulted' \in Seq(FaultKinds)
  PROVE  BatchInv'
  <1> DEFINE row == [batch[b] EXCEPT !.status = status]
             solutions == sent[b]
  <1>1. /\ batch[b] \in BatchRow /\ sent \in [Batches -> Solutions] /\ run[b] \in RunState
        /\ SentAsAsked(batch[b], sent[b]) /\ RowFits(batch[b], sent[b])
        /\ batch[b].status # "absent"
        /\ run[b].at = "close" => Whole(batch[b], sent[b])
    BY DEF BatchInv, BatchTypeOK, Good, BatchOK, DeckFits
  <1>2. /\ row \in BatchRow /\ row.status = status
        /\ row.created = batch[b].created /\ row.requested = batch[b].requested
    BY <1>1 DEF BatchRow
  <1>3. /\ batch' = [batch EXCEPT ![b] = row] /\ sent' = [sent EXCEPT ![b] = solutions]
        /\ solutions \in Solutions
    BY <1>1 DEF EndAs
  <1>4. state \in RunState /\ state.at \in {"idle", "failing"}
    <2>1. CASE state = IdleRun
      BY <2>1 DEF IdleRun, NoSolutions, Solutions, RunState, RunSteps
    <2>2. CASE state = [run[b] EXCEPT !.at = "failing"]
      <3>1. run[b] \in RunState
        BY <1>1
      <3> QED
        BY <2>2, <3>1 DEF RunState, RunSteps
    <2> QED
      BY <2>1, <2>2
  <1>5. SentAsAsked(row, solutions) /\ RowFits(row, solutions)
    BY <1>1, <1>2 DEF SentAsAsked, RowFits, Whole
  <1>6. BatchOK(row, solutions, state)
    BY <1>2, <1>3, <1>4, <1>5 DEF BatchOK, DeckFits
  <1>7. row.status = "running" => batch[b].status = "running" \/ IndexAllows
    BY <1>2
  <1> HIDE DEF row, solutions
  <1> QED
    BY <1>3, <1>6, <1>7, OneBatchStep

(* A run ends or throws, and nothing else happens. *)
LEMMA RunOverKeeps ==
  ASSUME BatchInv, NEW b \in Batches, NEW state, UNCHANGED <<batch, sent>>,
         run[b].at \notin {"idle", "clear"},
         run' = [run EXCEPT ![b] = state],
         state = IdleRun \/ state = [run[b] EXCEPT !.at = "failing"],
         faulted' \in Seq(FaultKinds)
  PROVE  BatchInv'
  <1>1. Good(b) /\ run[b] \in RunState
    BY DEF BatchInv, Good, BatchOK
  <1>2. state \in RunState /\ state.at \in {"idle", "failing"}
    BY <1>1 DEF IdleRun, NoSolutions, Solutions, RunState, RunSteps
  <1>3. BatchOK(batch[b], sent[b], state)
    BY <1>1, <1>2 DEF Good, BatchOK, DeckFits
  <1> QED
    BY <1>3, OneRunStep

(* runBenchmarkBatch, while nothing throws, and the catch. *)
LEMMA RunKeeps ==
  ASSUME BatchInv, NEW b \in Batches, RunStep(b)
  PROVE  BatchInv'
  <1>1. /\ batch \in [Batches -> BatchRow] /\ sent \in [Batches -> Solutions]
        /\ run \in [Batches -> RunState] /\ faulted \in Seq(FaultKinds)
        /\ Good(b)
    BY DEF BatchInv, BatchTypeOK
  <1>2. CASE LoadBatch(b)
    <2> DEFINE n == batch[b].requested
    <2>1. n \in Nat /\ n > 0 /\ sent[b] = NoSolutions /\ batch[b].status = "running"
      BY <1>1, <1>2 DEF LoadBatch, StillRunning, Good, BatchOK, RowFits, DeckFits, BatchRow
    <2>2. PICK c \in CorrectCounts(n) :
            run' = [run EXCEPT ![b].at = "create",
                               ![b].deck = [correct |-> c, wrong |-> n - c]]
      BY <1>2 DEF LoadBatch
    <2> DEFINE deck == [correct |-> c, wrong |-> n - c]
               state == [run[b] EXCEPT !.at = "create", !.deck = deck]
    <2>3. c \in Nat /\ c <= n
      BY <2>1 DEF CorrectCounts
    <2>4. deck \in Solutions /\ Size(deck) = n /\ deck.correct = c
      BY <2>1, <2>3 DEF Solutions, Size
    <2>5. state \in RunState /\ state.at = "create" /\ state.deck = deck
      BY <1>1, <2>4 DEF RunState, RunSteps
    <2>6. run' = [run EXCEPT ![b] = state]
      BY <1>1, <2>2
    <2>7. Size(sent[b]) + Size(deck) = n /\ sent[b].correct + deck.correct = c
      BY <2>1, <2>3, <2>4 DEF NoSolutions, Size
    <2>8. BatchOK(batch[b], sent[b], state)
      BY <1>1, <2>1, <2>2, <2>4, <2>5, <2>7 DEF Good, BatchOK, DeckFits
    <2> HIDE DEF state
    <2> QED
      BY <1>1, <1>2, <2>6, <2>8, OneRunStep DEF LoadBatch
  <1>3. CASE FindStopped(b)
    BY <1>1, <1>3, RunOverKeeps DEF FindStopped, RunEnds
  <1>4. CASE LockRow(b)
    <2> DEFINE state == [run[b] EXCEPT !.at = "locked"]
    <2>1. state \in RunState /\ state.at = "locked" /\ state.deck = run[b].deck
      BY <1>1 DEF RunState, RunSteps
    <2>2. run' = [run EXCEPT ![b] = state] /\ UNCHANGED <<batch, sent, faulted>>
      BY <1>4 DEF LockRow, Goto
    <2>3. BatchOK(batch[b], sent[b], state)
      BY <1>1, <1>4, <2>1 DEF LockRow, StillRunning, Good, BatchOK, DeckFits
    <2> HIDE DEF state
    <2> QED
      BY <1>1, <2>2, <2>3, OneRunStep
  <1>5. CASE CreateNext(b)
    <2>1. PICK kind \in {"correct", "wrong"} :
            /\ Store(b, kind)
            /\ run' = [run EXCEPT
                 ![b].deck[kind] = @ - 1,
                 ![b].at = IF UsedUp(run[b].deck) THEN "close" ELSE "create"]
      BY <1>5 DEF CreateNext
    <2> DEFINE row == [batch[b] EXCEPT !.created = @ + 1]
               solutions == [sent[b] EXCEPT ![kind] = @ + 1]
               deck == [run[b].deck EXCEPT ![kind] = @ - 1]
               step == IF UsedUp(run[b].deck) THEN "close" ELSE "create"
               state == [run[b] EXCEPT !.deck = deck, !.at = step]
    <2>2. /\ batch' = [batch EXCEPT ![b] = row]
          /\ sent' = [sent EXCEPT ![b] = solutions]
          /\ row \in BatchRow /\ solutions \in Solutions /\ deck \in Solutions
          /\ row.status = "running" /\ batch[b].status = "running"
          /\ row.requested > 0
          /\ row.created = Size(solutions)
          /\ Size(solutions) + Size(deck) = row.requested
          /\ solutions.correct + deck.correct \in CorrectCounts(row.requested)
          /\ Size(deck) = Size(run[b].deck) - 1
      BY <1>5, <2>1, StoreMovesOne DEF CreateNext
    <2>3. run' = [run EXCEPT ![b] = state]
      BY <1>1, <2>1 DEF RunState
    <2>4. state \in RunState /\ state.deck = deck /\ state.at = step
      BY <1>1, <2>2 DEF RunState, RunSteps
    <2> HIDE DEF row, solutions, deck, state
    <2>5. /\ deck.correct \in Nat /\ deck.wrong \in Nat /\ solutions.correct \in Nat
          /\ Size(deck) = deck.correct + deck.wrong /\ Size(solutions) \in Nat
          /\ row.requested \in Nat
      BY <2>2 DEF Solutions, Size, BatchRow
    <2>6. SentAsAsked(row, solutions) /\ RowFits(row, solutions)
      BY <2>2, <2>5 DEF SentAsAsked, RowFits
    <2>7. CASE UsedUp(run[b].deck)
      <3>1. step = "close" /\ Size(deck) = 0
        BY <2>2, <2>7 DEF UsedUp
      <3>2. deck.correct = 0 /\ solutions.correct + deck.correct = solutions.correct
        BY <2>5, <3>1
      <3>3. Whole(row, solutions)
        BY <2>2, <2>5, <3>1, <3>2 DEF Whole
      <3>4. BatchOK(row, solutions, state)
        BY <2>2, <2>4, <2>6, <3>1, <3>3 DEF BatchOK, DeckFits
      <3> QED
        BY <1>1, <1>5, <2>2, <2>3, <3>4, OneBatchStep DEF CreateNext
    <2>8. CASE ~UsedUp(run[b].deck)
      <3>1. step = "create" /\ Size(run[b].deck) # 1
        BY <2>8 DEF UsedUp
      <3>2. Size(run[b].deck) \in Nat /\ Size(run[b].deck) > 0
        BY <1>1, <1>5 DEF CreateNext, Good, BatchOK, DeckFits, Size, RunState, Solutions
      <3>3. Size(deck) > 0
        BY <2>2, <3>1, <3>2
      <3>4. BatchOK(row, solutions, state)
        BY <2>2, <2>4, <2>6, <3>1, <3>3 DEF BatchOK, DeckFits
      <3> QED
        BY <1>1, <1>5, <2>2, <2>3, <3>4, OneBatchStep DEF CreateNext
    <2> QED
      BY <2>7, <2>8
  <1>6. CASE Close(b)
    <2>1. run' = [run EXCEPT ![b] = IdleRun]
      BY <1>1, <1>6 DEF Close, RunEnds
    <2> QED
      BY <1>1, <1>6, <2>1, EndKeeps DEF Close
  <1>7. CASE MarkFailed(b)
    <2>1. run' = [run EXCEPT ![b] = IdleRun]
      BY <1>1, <1>7 DEF MarkFailed, RunEnds
    <2> QED
      BY <1>1, <1>7, <2>1, EndKeeps DEF MarkFailed
  <1> QED
    BY <1>2, <1>3, <1>4, <1>5, <1>6, <1>7 DEF RunStep

(* A statement of the run throws, its work done or not. *)
LEMMA ThrowKeeps ==
  ASSUME BatchInv, NEW b \in Batches, RunThrows(b) \/ MarkInVain(b)
  PROVE  BatchInv'
  <1>1. /\ run \in [Batches -> RunState] /\ faulted' \in Seq(FaultKinds)
        /\ Good(b)
    BY FaultsAreListed DEF BatchInv, BatchTypeOK, RunThrows, MarkInVain
  <1> DEFINE state == [run[b] EXCEPT !.at = "failing"]
  <1>2. CASE MarkInVain(b)
    BY <1>1, <1>2, RunOverKeeps DEF MarkInVain, RunEnds
  <1>3. CASE RunThrows(b)
    <2>1. /\ run' = [run EXCEPT ![b] = state]
          /\ run[b].at \in {"load", "create", "locked", "close"}
      BY <1>1, <1>3 DEF RunThrows, Goto
    <2>2. CASE UNCHANGED <<batch, sent>>
      <3> HIDE DEF state
      <3>1. state = [run[b] EXCEPT !.at = "failing"]
        BY DEF state
      <3> QED
        BY <1>1, <2>1, <2>2, <3>1, RunOverKeeps
    <2>3. CASE run[b].at = "close" /\ EndAs(b, "completed") /\ UNCHANGED sent
      <3> HIDE DEF state
      <3>1. state = [run[b] EXCEPT !.at = "failing"]
        BY DEF state
      <3> QED
        BY <1>1, <2>1, <2>3, <3>1, EndKeeps
    <2>4. CASE run[b].at = "locked" /\ \E kind \in {"correct", "wrong"} : Store(b, kind)
      <3>1. PICK kind \in {"correct", "wrong"} : Store(b, kind)
        BY <2>4
      <3> DEFINE row == [batch[b] EXCEPT !.created = @ + 1]
                 solutions == [sent[b] EXCEPT ![kind] = @ + 1]
                 deck == [run[b].deck EXCEPT ![kind] = @ - 1]
      <3>2. /\ batch' = [batch EXCEPT ![b] = row]
            /\ sent' = [sent EXCEPT ![b] = solutions]
            /\ row \in BatchRow /\ solutions \in Solutions /\ deck \in Solutions
            /\ row.status = "running" /\ batch[b].status = "running"
            /\ row.requested > 0
            /\ row.created = Size(solutions)
            /\ Size(solutions) + Size(deck) = row.requested
        BY <2>4, <3>1, StoreMovesOne
      <3>3. state \in RunState /\ state.at = "failing"
        BY <1>1 DEF RunState, RunSteps
      <3> HIDE DEF row, solutions, deck, state
      <3>4. Size(solutions) <= row.requested
        BY <3>2 DEF Solutions, Size
      <3>5. SentAsAsked(row, solutions) /\ RowFits(row, solutions)
        BY <3>2, <3>4 DEF SentAsAsked, RowFits
      <3>6. BatchOK(row, solutions, state)
        BY <3>2, <3>3, <3>5 DEF BatchOK, DeckFits
      <3> QED
        BY <1>1, <2>1, <3>2, <3>6, OneBatchStep
    <2> QED
      BY <1>3, <2>2, <2>3, <2>4 DEF RunThrows
  <1> QED
    BY <1>2, <1>3

-----------------------------------------------------------------------------
(* Every step keeps the invariant. *)
LEMMA BatchNext == BatchInv /\ [Next]_vars => BatchInv'
  <1> SUFFICES ASSUME BatchInv, [Next]_vars PROVE BatchInv'
    OBVIOUS
  <1>1. CASE UNCHANGED vars
    BY <1>1 DEF vars, BatchInv, BatchTypeOK, OneRuns, Running, Good
  <1>2. CASE Next
    <2>1. ASSUME NEW b \in Batches, CallStep(b) \/ \E p \in Processes : SeeNoneRunning(b, p)
          PROVE  BatchInv'
      BY <2>1, CallKeeps
    <2>2. ASSUME NEW b \in Batches, RunStep(b) PROVE BatchInv'
      BY <2>2, RunKeeps
    <2>3. ASSUME NEW b \in Batches, RunThrows(b) \/ MarkInVain(b) PROVE BatchInv'
      BY <2>3, ThrowKeeps
    <2>4. ASSUME NEW p \in Processes, ProcessCrashes(p) PROVE BatchInv'
      BY <2>4, CrashKeeps
    <2>5. ASSUME StopBatch PROVE BatchInv'
      BY <2>5, StopKeeps
    <2> QED
      BY <1>2, <2>1, <2>2, <2>3, <2>4, <2>5 DEF Next
  <1> QED
    BY <1>1, <1>2

(* Batches keep their invariant, whoever starts, stops and crashes when. *)
THEOREM BatchInvHolds == Spec => []BatchInv
  BY BatchInit, BatchNext, PTL DEF Spec

(* The tables and the runs keep their types: no run draws from an empty    *)
(* deck.                                                                   *)
THEOREM BatchTypesHold == Spec => []BatchTypeOK
  <1>1. BatchInv => BatchTypeOK
    BY DEF BatchInv
  <1> QED
    BY <1>1, BatchInvHolds, PTL

(* However many calls of startBatch come together, one batch runs. *)
THEOREM OneBatchRuns == Spec => []OneRuns
  <1>1. BatchInv => OneRuns
    BY DEF BatchInv
  <1> QED
    BY <1>1, BatchInvHolds, PTL

(* A completed batch sent all it was asked for, in the promised mixture,   *)
(* and no batch ever sends more.                                           *)
THEOREM BatchesSendWhatWasAsked == Spec => []SentWhatWasAsked
  <1>1. BatchInv => SentWhatWasAsked
    BY DEF BatchInv, Good, BatchOK, SentWhatWasAsked
  <1> QED
    BY <1>1, BatchInvHolds, PTL

(* The count of a batch that has ended is final: who writes it holds the   *)
(* row, and a row that is held is running (createBatchSubmission in        *)
(* batch-runner.ts).                                                       *)
THEOREM EndedCountsAreFinal == Spec => CountIsFinal
  <1> DEFINE Kept == \A b \in Batches :
                Ended(batch[b]) => sent'[b] = sent[b] /\ batch'[b].created = batch[b].created
  <1>1. ASSUME BatchInv, Next PROVE Kept
    <2> SUFFICES ASSUME NEW b \in Batches, Ended(batch[b])
                 PROVE  sent'[b] = sent[b] /\ batch'[b].created = batch[b].created
      OBVIOUS
    <2>1. /\ batch \in [Batches -> BatchRow] /\ sent \in [Batches -> Solutions]
          /\ batch[b].status \notin {"absent", "running"}
      BY <1>1 DEF BatchInv, BatchTypeOK, Ended
    <2>2. ASSUME NEW c \in Batches, NEW kind, run[c].at = "locked", Store(c, kind)
          PROVE  sent'[b] = sent[b] /\ batch'[b] = batch[b]
      <3>1. batch[c].status = "running"
        BY <1>1, <2>2 DEF BatchInv, Good, BatchOK, DeckFits
      <3>2. c # b
        BY <2>1, <3>1
      <3> QED
        BY <2>1, <2>2, <3>2 DEF Store
    <2>3. ASSUME NEW c \in Batches, NEW n \in Counts, InsertRow(c, n)
          PROVE  sent'[b] = sent[b] /\ batch'[b] = batch[b]
      <3>1. batch[c].status = "absent"
        BY <1>1, <2>3 DEF InsertRow, BatchInv, Good, BatchOK, DeckFits
      <3>2. c # b
        BY <2>1, <3>1
      <3> QED
        BY <2>1, <2>3, <3>2 DEF InsertRow
    <2>4. ASSUME NEW c \in Batches, NEW status, EndAs(c, status), UNCHANGED sent
          PROVE  sent'[b] = sent[b] /\ batch'[b].created = batch[b].created
      BY <2>1, <2>4 DEF EndAs, BatchRow
    <2>5. CASE StopBatch
      BY <2>1, <2>5 DEF StopBatch, BatchRow
    <2>6. ASSUME NEW c \in Batches, CallStep(c) \/ \E p \in Processes : SeeNoneRunning(c, p)
          PROVE  sent'[b] = sent[b] /\ batch'[b].created = batch[b].created
      BY <2>3, <2>6 DEF CallStep, InsertBatch, InsertAnswerLost, InsertRefused, Launch,
                        SeeNoneRunning
    <2>7. ASSUME NEW c \in Batches, RunStep(c) \/ RunThrows(c) \/ MarkInVain(c)
          PROVE  sent'[b] = sent[b] /\ batch'[b].created = batch[b].created
      BY <2>2, <2>4, <2>7 DEF RunStep, LoadBatch, FindStopped, LockRow, CreateNext, Close,
                              MarkFailed, RunThrows, MarkInVain
    <2>8. ASSUME NEW p \in Processes, ProcessCrashes(p)
          PROVE  sent'[b] = sent[b] /\ batch'[b].created = batch[b].created
      BY <2>8 DEF ProcessCrashes
    <2> QED
      BY <1>1, <2>5, <2>6, <2>7, <2>8 DEF Next
  <1>2. BatchInv /\ [Next]_vars => [Kept]_vars
    BY <1>1
  <1> QED
    BY <1>2, BatchInvHolds, PTL DEF Spec, CountIsFinal
=============================================================================
