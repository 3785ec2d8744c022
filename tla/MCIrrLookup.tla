---------------------------- MODULE MCIrrLookup ----------------------------
(* The instance of IrrLookup that TLC checks. *)
EXTENDS IrrLookup

\* One source on both servers, one on the second only.
MCMirrors == <<{1}, {1, 2}>>
============================================================================
