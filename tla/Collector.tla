------------------------------ MODULE Collector ------------------------------
(***************************************************************************)
(* The result loop of a runner (collectSubmissionResults): a snapshot of   *)
(* the running rows that have a job, then for each of them one question to *)
(* its machine and one fenced write of what it answered.                   *)
(***************************************************************************)
EXTENDS SubmissionStore

VARIABLE collect    \* the local state of each runner's result pass

Replies == {"running", "lost"} \union Verdicts
Entry ==
  [sub : Submissions, claim : ClaimIds, job : JobIds, machine : Machines]

CollectState ==
  [at    : {"idle", "ask", "write"},
   todo  : SUBSET Entry,             \* rest of `running'
   reply : Replies \union {"none"}]  \* what askMachineForJob came back with

CollectTypeOK == collect \in [Runners -> CollectState]

IdleCollect == [at |-> "idle", todo |-> {}, reply |-> "none"]
CollectInit == collect = [r \in Runners |-> IdleCollect]

(* The row in hand: rows are asked for in created_at order. *)
Asked(r) == {e.sub : e \in collect[r].todo}
InHand(r, e) == e \in collect[r].todo /\ IsOldest(e.sub, Asked(r))

WithJob ==
  {s \in Submissions : /\ sub[s].status = "running"
                       /\ sub[s].claim # NoClaim
                       /\ sub[s].job # NoJob
                       /\ sub[s].machine # NoMachine}

EntryOf(s) ==
  [sub |-> s, claim |-> sub[s].claim, job |-> sub[s].job, machine |-> sub[s].machine]

ReadRunning(r) ==
  /\ collect[r].at = "idle"
  /\ LET rows == FirstOf(WithJob, CollectBatch)
     IN  /\ rows # {}
         /\ collect' = [collect EXCEPT ![r] =
              [at |-> "ask", todo |-> {EntryOf(s) : s \in rows}, reply |-> "none"]]
  /\ UNCHANGED store

(* The answer of the machine, or its silence, has come back. *)
GotReply(r, e, reply) ==
  /\ collect[r].at = "ask"
  /\ InHand(r, e)
  /\ collect' = [collect EXCEPT ![r].at = "write", ![r].reply = reply]
  /\ UNCHANGED store

(* On to the next row of the snapshot. *)
Collected(r, e) ==
  LET rest == collect[r].todo \ {e}
  IN  collect' = [collect EXCEPT ![r] =
        IF rest = {} THEN IdleCollect
        ELSE [at |-> "ask", todo |-> rest, reply |-> "none"]]

WriteRunning(r, e) ==
  /\ collect[r].at = "write"
  /\ InHand(r, e)
  /\ collect[r].reply = "running"
  /\ ExtendLease(e.sub, e.claim)
  /\ Collected(r, e)
  /\ UNCHANGED mach

WriteResult(r, e) ==
  /\ collect[r].at = "write"
  /\ InHand(r, e)
  /\ collect[r].reply \in Verdicts
  /\ ApplyResult(e.sub, e.claim, collect[r].reply)
  /\ Collected(r, e)

WriteLost(r, e, max) ==
  /\ collect[r].at = "write"
  /\ InHand(r, e)
  /\ collect[r].reply = "lost"
  /\ LoseClaim(e.sub, e.claim, max)
  /\ Collected(r, e)
  /\ UNCHANGED mach

CollectPassFails(r) ==
  /\ collect[r].at # "idle"
  /\ collect' = [collect EXCEPT ![r] = IdleCollect]
  /\ UNCHANGED store
=============================================================================
