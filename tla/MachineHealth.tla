---------------------------- MODULE MachineHealth ----------------------------
(***************************************************************************)
(* The health loop of a runner (pollMachineHealth): every machine of the   *)
(* registry is asked in turn, and its answer or its silence written down.  *)
(* Silence takes two statements: the machine is marked unreachable, and    *)
(* then everything it was judging is taken away from it.                   *)
(***************************************************************************)
EXTENDS SubmissionStore

VARIABLE health    \* the local state of each runner's health pass

HealthSteps == {"idle", "ask", "answered", "silent", "marked"}

HealthState ==
  [at   : HealthSteps,
   left : SUBSET Machines,                 \* machines not asked yet
   cur  : Machines \union {NoMachine},
   busy : Nat]                             \* health.busy of the answer

HealthTypeOK == health \in [Runners -> HealthState]

IdleHealth == [at |-> "idle", left |-> {}, cur |-> NoMachine, busy |-> 0]
HealthInit == health = [r \in Runners |-> IdleHealth]

ListMachines(r) ==
  /\ health[r].at = "idle"
  /\ health' = [health EXCEPT ![r].at = "ask", ![r].left = Machines]
  /\ UNCHANGED store

(* The code asks in name order, the model in any. *)
HealthAnswered(r, m, busy) ==
  /\ health[r].at = "ask"
  /\ m \in health[r].left
  /\ health' = [health EXCEPT ![r] =
       [at |-> "answered", left |-> @.left \ {m}, cur |-> m, busy |-> busy]]
  /\ UNCHANGED store

HealthSilent(r, m) ==
  /\ health[r].at = "ask"
  /\ m \in health[r].left
  /\ health' = [health EXCEPT ![r] =
       [at |-> "silent", left |-> @.left \ {m}, cur |-> m, busy |-> 0]]
  /\ UNCHANGED store

NextMachine(r) ==
  health' = [health EXCEPT ![r] =
    IF health[r].left = {} THEN IdleHealth
    ELSE [at |-> "ask", left |-> health[r].left, cur |-> NoMachine, busy |-> 0]]

WriteReachable(r) ==
  LET h == health[r]
  IN  /\ h.at = "answered"
      /\ mach' = [mach EXCEPT ![h.cur].reachable = TRUE, ![h.cur].busy = h.busy]
      /\ NextMachine(r)
      /\ UNCHANGED sub

WriteUnreachable(r) ==
  LET h == health[r]
  IN  /\ h.at = "silent"
      /\ mach' = [mach EXCEPT ![h.cur].reachable = FALSE, ![h.cur].busy = 0]
      /\ health' = [health EXCEPT ![r].at = "marked"]
      /\ UNCHANGED sub

LoseItsWork(r, max) ==
  /\ health[r].at = "marked"
  /\ LoseOfMachine(health[r].cur, max)
  /\ NextMachine(r)
  /\ UNCHANGED mach

HealthPassFails(r) ==
  /\ health[r].at # "idle"
  /\ health' = [health EXCEPT ![r] = IdleHealth]
  /\ UNCHANGED store
=============================================================================
