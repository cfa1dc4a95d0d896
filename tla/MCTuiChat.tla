------------------------------ MODULE MCTuiChat ------------------------------
(* Instances of TuiChat for TLC, and the reference of its filter. *)
EXTENDS TuiChat, TLC

Sym == Permutations(Prompts)

\* What Only picks is what a filter by position does.
ASSUME OnlyIsFilter ==
    \A n \in 0..3 : \A s \in [1..n -> BOOLEAN] :
       LET at == [i \in 1..n |-> [position |-> i, keep |-> s[i]]] IN
       Only(at, {i \in 1..n : s[i]}) = SelectSeq(at, LAMBDA e : e.keep)
=============================================================================
