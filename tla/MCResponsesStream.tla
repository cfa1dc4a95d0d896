-------------------------- MODULE MCResponsesStream --------------------------
(* Instances of ResponsesStream for TLC. *)
EXTENDS ResponsesStream, TLC

Sym == Permutations(Calls)
=============================================================================
