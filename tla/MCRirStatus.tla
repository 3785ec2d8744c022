---------------------------- MODULE MCRirStatus ----------------------------
(* The instances of RirStatus that TLC checks. *)
EXTENDS RirStatus

Daily == {EveryNetwork}

\* And by hand over one network, with a status at least a day old: --asn finds
\* it even if it is deleted.
DailyAndNarrowed == Daily \cup {[asn |-> 1, limit |-> 1, maxAge |-> 1]}
=============================================================================
