------------------------------ MODULE MCJudging ------------------------------
(***************************************************************************)
(* Small instances of the judging system for TLC.                          *)
(***************************************************************************)
EXTENDS JudgingProperties, TLC

(* Every machine judges one submission at a time. *)
MCCapacity == [m \in Machines |-> 1]

(* Every machine has every package. *)
MCCanJudge == [m \in Machines |-> Submissions]

(* The package of submission 1 is on no machine. *)
MCNotTheFirst == [m \in Machines |-> Submissions \ {1}]

(* Machines are alike, as are runners. *)
MCSymmetry == Permutations(Machines) \union Permutations(Runners)
=============================================================================
