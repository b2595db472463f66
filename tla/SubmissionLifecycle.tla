------------------------- MODULE SubmissionLifecycle -------------------------
(***************************************************************************)
(* What the judging system promises about a submission, with no loops, no  *)
(* claims, no leases and no messages: a submission waits, is held by one   *)
(* machine at a time, and ends judged by the machine that held it last or  *)
(* failed after its tries ran out.                                         *)
(***************************************************************************)
EXTENDS JudgingTypes

VARIABLES
  life,      \* phase, holder and tries of every submission
  credit     \* how many submissions each machine has judged

lifeVars == <<life, credit>>

Phases == {"absent", "waiting", "held", "judged", "failed"}
Life == [phase : Phases, holder : Machines \union {NoMachine}, tries : Nat]

LifecycleInit ==
  /\ life = [s \in Submissions |->
               [phase |-> "absent", holder |-> NoMachine, tries |-> 0]]
  /\ credit = [m \in Machines |-> 0]

Become(s, phase, holder, tries) ==
  life' = [life EXCEPT ![s] = [phase |-> phase, holder |-> holder, tries |-> tries]]

Arrive(s) ==
  /\ life[s].phase = "absent"
  /\ Become(s, "waiting", NoMachine, 0)
  /\ UNCHANGED credit

(* Being held costs a try, and there is one left to spend. *)
Take(s, m, max) ==
  /\ life[s].phase = "waiting"
  /\ life[s].tries < max
  /\ Become(s, "held", m, life[s].tries + 1)
  /\ UNCHANGED credit

(* The machine would not have it: the try is returned. *)
GiveBack(s) ==
  /\ life[s].phase = "held"
  /\ Become(s, "waiting", NoMachine, life[s].tries - 1)
  /\ UNCHANGED credit

(* Several may be taken from their machines at once; the tries stay spent. *)
Lose(S, max) ==
  /\ \A s \in S : life[s].phase = "held"
  /\ life' = [s \in Submissions |->
        IF s \notin S THEN life[s]
        ELSE [phase |-> IF life[s].tries >= max THEN "failed" ELSE "waiting",
              holder |-> NoMachine, tries |-> life[s].tries]]
  /\ UNCHANGED credit

(* Waiting, with no try left by the measure of a runner. *)
GiveUp(S, max) ==
  /\ \A s \in S : life[s].phase = "waiting" /\ life[s].tries >= max
  /\ life' = [s \in Submissions |->
        IF s \in S THEN [life[s] EXCEPT !.phase = "failed"] ELSE life[s]]
  /\ UNCHANGED credit

(* The holder's result is written, and the holder is credited, once. *)
Judge(s) ==
  /\ life[s].phase = "held"
  /\ Become(s, "judged", life[s].holder, life[s].tries)
  /\ credit' = [credit EXCEPT ![life[s].holder] = @ + 1]

LifecycleNext ==
  \/ \E s \in Submissions : Arrive(s) \/ GiveBack(s) \/ Judge(s)
  \/ \E s \in Submissions, m \in Machines, max \in AttemptLimits : Take(s, m, max)
  \/ \E S \in SUBSET Submissions, max \in AttemptLimits : Lose(S, max) \/ GiveUp(S, max)

LifecycleSpec == LifecycleInit /\ [][LifecycleNext]_lifeVars
=============================================================================
