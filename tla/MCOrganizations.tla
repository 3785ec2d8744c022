-------------------------- MODULE MCOrganizations --------------------------
(* The instance of Organizations that TLC checks. *)
EXTENDS Organizations, TLC

CONSTANT u1

OneUser == [r \in Requesters |-> u1]

Symmetry == Permutations(Orgs)
============================================================================
