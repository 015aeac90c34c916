------------------------------- MODULE MCDashboard -------------------------------
(* Two rows of everything, two days, a member of staff, an owner and an administrator. *)
EXTENDS Dashboard
=============================================================================
