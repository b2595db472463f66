------------------------------- MODULE MCSubmit -------------------------------
(***************************************************************************)
(* A small instance of the submit page: a problem in one of two languages, *)
(* and a file in the other.                                                *)
(***************************************************************************)
EXTENDS SubmitPage

MCFiles == {"a.cc"}
MCLanguageOf == [f \in MCFiles |-> "cpp"]
=============================================================================
