-------------------------- MODULE MCSidecarManager --------------------------
(* Small instances of SidecarManager for TLC.  Pids, and the requests among
   themselves, are interchangeable: no action names one of them. *)
EXTENDS SidecarManager, TLC

SymPids == Permutations(Pids)
SymBoth == Permutations(Requests) \cup Permutations(Pids)
=============================================================================
