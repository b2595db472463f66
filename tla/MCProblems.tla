------------------------------ MODULE MCProblems ------------------------------
(***************************************************************************)
(* Small instances of the problem list: three problems, two of a kind, two *)
(* with the same rating and one with none.  "a b" is longer than a search  *)
(* may be, and the cut leaves a blank at its end.                          *)
(***************************************************************************)
EXTENDS ProblemList

MCProblemIds == {1, 2, 3}
MCTexts == {"", "a", "a ", "a b"}
MCTrimmed == [t \in MCTexts |-> IF t = "a " THEN "a" ELSE t]
MCCut == [t \in MCTexts |-> IF t = "a b" THEN "a " ELSE t]
MCFinds == [t \in MCTexts |-> IF t = "" THEN MCProblemIds ELSE {1, 2}]
MCDifficultyOf == [p \in MCProblemIds |-> "easy"]
MCKindOf == [p \in MCProblemIds |-> IF p = 1 THEN "k" ELSE "l"]
MCRatingOf == [p \in MCProblemIds |-> IF p = 3 THEN 0 ELSE 8]

(* The bare page, a shared link in the middle of a list, a link with junk. *)
MCAddresses ==
  {[f \in {} |-> ""],
   [sort |-> "rating", page |-> 2],
   [difficulty |-> "unknown", page |-> 0, search |-> "a b"]}
=============================================================================
