-------------------------- MODULE MCIxfImportJobs --------------------------
(* The instances of IxfImportJobs that TLC checks. *)
EXTENDS IxfImportJobs
=============================================================================
