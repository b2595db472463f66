----------------------------- MODULE Dispatcher -----------------------------
(***************************************************************************)
(* The dispatch loop of a runner: one pass sweeps the queue                *)
(* (sweepSubmissions) and then hands waiting submissions to machines       *)
(* (dispatchQueuedSubmissions).  Every `await' of the code is a step of    *)
(* its own: between two of them the other loops run, and what the pass     *)
(* read before is what it goes on using.                                   *)
(***************************************************************************)
EXTENDS SubmissionStore

VARIABLES
  dispatch,   \* the local state of each runner's dispatch pass
  posts       \* POST /judge requests sent and not yet taken in by a machine

dispatchVars == <<dispatch, posts>>

DispatchSteps ==
  {"idle",      \* between two passes
   "stuck",     \* expired leases are swept, stuck submissions are next
   "machines",  \* about to read the enabled and reachable machines
   "held",      \* about to count what each machine already holds
   "queue",     \* about to read the queue
   "next",      \* at the head of the for loop
   "posted",    \* awaiting the answer to POST /judge
   "accepted",  \* the machine named a job
   "refused"}   \* the machine was full, silent or unreadable

DispatchState ==
  [at      : DispatchSteps,
   spare   : [Machines -> Nat],            \* FreeMachine.spare, 0 if not free
   todo    : SUBSET Submissions,           \* rest of `queued'
   waiting : SUBSET Submissions,           \* `stillWaiting'
   cur     : Submissions \union {NoSubmission},
   claim   : ClaimIds \union {NoClaim},
   to      : Machines \union {NoMachine},
   job     : JobIds \union {NoJob}]

Posts == [sub : Submissions, claim : ClaimIds, to : Machines]

DispatchTypeOK ==
  /\ dispatch \in [Runners -> DispatchState]
  /\ posts \subseteq Posts

IdleDispatch ==
  [at |-> "idle", spare |-> [m \in Machines |-> 0], todo |-> {}, waiting |-> {},
   cur |-> NoSubmission, claim |-> NoClaim, to |-> NoMachine, job |-> NoJob]

DispatchInit ==
  /\ dispatch = [r \in Runners |-> IdleDispatch]
  /\ posts = {}

-----------------------------------------------------------------------------
(* Helpers *)

Goto(r, step) == dispatch' = [dispatch EXCEPT ![r].at = step]

(* The submission in hand is dealt with; the for loop goes on. *)
NextInLoop(r, spare, waiting) ==
  dispatch' = [dispatch EXCEPT ![r] =
                 [@ EXCEPT !.at = "next", !.spare = spare, !.waiting = waiting,
                           !.cur = NoSubmission, !.claim = NoClaim,
                           !.to = NoMachine, !.job = NoJob]]

Minus(a, b) == IF a > b THEN a - b ELSE 0
Lesser(a, b) == IF a < b THEN a ELSE b

(* machine_id of the running rows, counted per machine *)
HeldBy(m) == {s \in Submissions : sub[s].status = "running" /\ sub[s].machine = m}

IsFree(m) == mach[m].enabled /\ mach[m].reachable

(* Mistaken: what the machine said is all that counts, or both are taken   *)
(* off, a submission the machine reported counting twice.                  *)
RoomBySay(spare, m) == spare[m]
RoomTakenTwice(spare, m) == spare[m] - Cardinality(HeldBy(m))

(* Whichever is worse: what the machine said, or what we gave it. *)
RoomSaid(m) == Minus(Capacity[m], mach[m].busy)
RoomLeft(spare, m) == Lesser(spare[m], Minus(Capacity[m], Cardinality(HeldBy(m))))

Waiting(max) ==
  {s \in Submissions : sub[s].status = "queued" /\ sub[s].attempts < max}

(* Mistaken: a full machine is chosen if there is no other. *)
MachinesWithPackage(spare, s) == {m \in Machines : s \in CanJudge[m]}

(* chooseMachine: the emptiest of the machines that have the package.      *)
(* The code breaks a tie by name, the model either way.                    *)
AbleMachines(spare, s) == {m \in Machines : spare[m] > 0 /\ s \in CanJudge[m]}
Emptiest(spare, s) ==
  {m \in AbleMachines(spare, s) :
     \A n \in AbleMachines(spare, s) : spare[n] <= spare[m]}

-----------------------------------------------------------------------------
(* sweepSubmissions: two statements. *)

SweepLost(r, max) ==
  /\ dispatch[r].at = "idle"
  /\ LoseRunning({s \in Submissions : LeaseIsOver(sub[s])}, max)
  /\ Goto(r, "stuck")
  /\ UNCHANGED <<mach, posts>>

IsStuck(row, max) == row.status = "queued" /\ row.attempts >= max

SweepStuck(r, max) ==
  /\ dispatch[r].at = "stuck"
  /\ sub' = [s \in Submissions |->
               IF IsStuck(sub[s], max) THEN StuckRow(sub[s]) ELSE sub[s]]
  /\ Goto(r, "machines")
  /\ UNCHANGED <<mach, posts>>

(* findFreeMachines: two reads. *)

ReadMachines(r) ==
  /\ dispatch[r].at = "machines"
  /\ dispatch' = [dispatch EXCEPT
       ![r].at = "held",
       ![r].spare = [m \in Machines |-> IF IsFree(m) THEN RoomSaid(m) ELSE 0]]
  /\ UNCHANGED <<store, posts>>

ReadHeld(r) ==
  /\ dispatch[r].at = "held"
  /\ dispatch' = [dispatch EXCEPT
       ![r].at = "queue",
       ![r].spare = [m \in Machines |-> RoomLeft(dispatch[r].spare, m)]]
  /\ UNCHANGED <<store, posts>>

ReadQueue(r, max) ==
  /\ dispatch[r].at = "queue"
  /\ LET queued == FirstOf(Waiting(max), DispatchBatch)
     IN  dispatch' = [dispatch EXCEPT ![r] =
           IF queued = {} THEN IdleDispatch
           ELSE [@ EXCEPT !.at = "next", !.todo = queued]]
  /\ UNCHANGED <<store, posts>>

-----------------------------------------------------------------------------
(* The for loop over the queue. *)

NextIs(r, s) == dispatch[r].at = "next" /\ IsOldest(s, dispatch[r].todo)

(* No machine with room has the package. *)
Skip(r, s) ==
  /\ NextIs(r, s)
  /\ AbleMachines(dispatch[r].spare, s) = {}
  /\ dispatch' = [dispatch EXCEPT ![r].todo = @ \ {s}, ![r].waiting = @ \union {s}]
  /\ UNCHANGED <<store, posts>>

(* The guarded UPDATE that takes a submission, and the POST it is for. *)
Claim(r, s, c, m) ==
  /\ NextIs(r, s)
  /\ m \in Emptiest(dispatch[r].spare, s)
  /\ sub[s].status = "queued"
  /\ sub' = [sub EXCEPT ![s] = ClaimedRow(sub[s], c, m)]
  /\ LET d == dispatch[r]
     IN  dispatch' = [dispatch EXCEPT ![r] =
           [d EXCEPT !.at = "posted", !.todo = d.todo \ {s},
                     !.cur = s, !.claim = c, !.to = m]]
  /\ posts' = posts \union {[sub |-> s, claim |-> c, to |-> m]}
  /\ UNCHANGED mach

(* Somebody else has it: the UPDATE returned no row. *)
ClaimFindsNothing(r, s) ==
  /\ NextIs(r, s)
  /\ AbleMachines(dispatch[r].spare, s) # {}
  /\ sub[s].status # "queued"
  /\ dispatch' = [dispatch EXCEPT ![r].todo = @ \ {s}]
  /\ UNCHANGED <<store, posts>>

(* The submission goes back; the machine takes nothing else this pass. *)
TakeBack(r) ==
  LET d == dispatch[r]
  IN  /\ d.at = "refused"
      /\ UndoClaim(d.cur, d.claim)
      /\ NextInLoop(r, [d.spare EXCEPT ![d.to] = 0], d.waiting \union {d.cur})
      /\ UNCHANGED <<mach, posts>>

RecordJob(r) ==
  LET d == dispatch[r]
  IN  /\ d.at = "accepted"
      /\ UpdateRow(d.cur, HoldsClaim(sub[d.cur], d.claim), AcceptedRow(sub[d.cur], d.job))
      /\ NextInLoop(r, [d.spare EXCEPT ![d.to] = @ - 1], d.waiting)
      /\ UNCHANGED <<mach, posts>>

(* Mistaken: the note is written without looking at the row again. *)
AnyMayBeNoted(row) == TRUE

(* After the loop: the note on every row that is still waiting. *)
MayBeNoted(row) == row.status = "queued"

FinishPass(r) ==
  LET d == dispatch[r]
  IN  /\ d.at = "next"
      /\ d.todo = {}
      /\ sub' = [s \in Submissions |->
                   IF s \in d.waiting /\ MayBeNoted(sub[s])
                   THEN [sub[s] EXCEPT !.note = "unavailable"] ELSE sub[s]]
      /\ dispatch' = [dispatch EXCEPT ![r] = IdleDispatch]
      /\ UNCHANGED <<mach, posts>>

(* A statement throws; loop() logs it and the pass is over where it was. *)
DispatchPassFails(r) ==
  /\ dispatch[r].at # "idle"
  /\ dispatch' = [dispatch EXCEPT ![r] = IdleDispatch]
  /\ UNCHANGED <<store, posts>>

-----------------------------------------------------------------------------
(* What becomes of a POST, as the pass that sent it sees it. *)

Awaits(r, p) ==
  /\ dispatch[r].at = "posted"
  /\ dispatch[r].cur = p.sub
  /\ dispatch[r].claim = p.claim

(* The machine took the request in and answered; nobody may be listening.  *)
Answered(p, step, job) ==
  /\ p \in posts
  /\ posts' = posts \ {p}
  /\ dispatch' = [r \in Runners |->
                    IF Awaits(r, p) THEN [dispatch[r] EXCEPT !.at = step, !.job = job]
                                    ELSE dispatch[r]]
  /\ UNCHANGED store

(* The connection is refused or breaks before the request arrived. *)
PostFails(p) == Answered(p, "refused", NoJob)

(* The caller gives up; the request may still arrive, or its answer be     *)
(* late: either way the pass has gone on as if it was refused.             *)
PostTimesOut(r) ==
  /\ dispatch[r].at = "posted"
  /\ Goto(r, "refused")
  /\ UNCHANGED <<store, posts>>
=============================================================================
