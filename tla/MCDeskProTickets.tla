-------------------------- MODULE MCDeskProTickets --------------------------
(* The instances of DeskProTickets that TLC checks. *)
EXTENDS DeskProTickets
=============================================================================
