----------------------------- MODULE MCIrrBulk -----------------------------
(* The instance of IrrBulk that TLC checks. *)
EXTENDS IrrBulk, TLC

\* A registry with a dump in two files.
MCOneSource == <<1, 1>>
MCOneMaxSerial == <<2>>
MCOptions == [sources : {{1}}, force : BOOLEAN]
Symmetry == Permutations(Runs)
============================================================================
