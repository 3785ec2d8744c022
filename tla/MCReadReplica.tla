--------------------------- MODULE MCReadReplica ---------------------------
(* The instance of ReadReplica that TLC checks. *)
EXTENDS ReadReplica, TLC

Symmetry == Permutations(Clients) \cup Permutations(Requests)
=============================================================================
