---------------------------- MODULE MCIxfImport ----------------------------
(* The instances of IxfImport that TLC checks. *)
EXTENDS IxfImport

DualStack == {<<TRUE, TRUE>>}
AnyStack == (BOOLEAN \X BOOLEAN) \ {<<FALSE, FALSE>>}

(* Nothing, or what earlier runs and users left: a connection without an    *)
(* address, as of add_netixlan, or deleted ones that hold the addresses.    *)
Left(n, v4, v6, status) ==
    [asn |-> n, v4 |-> v4, v6 |-> v6, oper |-> TRUE, here |-> TRUE, status |-> status]

Leftovers ==
    {<<>>}
    \cup {<<Left(n, None, None, "ok")>> : n \in Asns}
    \cup {<<Left(n, v4, None, "deleted"), Left(m, None, v6, "deleted")>> :
            n \in Asns, m \in Asns, v4 \in V4, v6 \in V6}

DeletedElsewhere ==
    {<<[asn |-> CHOOSE a \in Asns : TRUE, v4 |-> CHOOSE v \in V4 : TRUE, v6 |-> None,
        oper |-> TRUE, here |-> FALSE, status |-> "deleted"]>>}

Symmetry == Permutations(Asns)
=============================================================================
