--------------------------- MODULE MCAcpTransport ---------------------------
(* Instances of AcpTransport for TLC.                                      *)
EXTENDS AcpTransport, TLC

CONSTANTS r1, r2, g1

\* Everybody is routed to the same gateway.
SameGateway == [r \in Requests |-> g1]

Sym == Permutations(Requests)
=============================================================================
