----------------------------- MODULE MCTickets -----------------------------
(***************************************************************************)
(* One ticket, two admins and two overlapping requests.  The run checks a  *)
(* liveness property, so it declares no symmetry.                          *)
(***************************************************************************)
EXTENDS Tickets

=============================================================================
