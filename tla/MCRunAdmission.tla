--------------------------- MODULE MCRunAdmission ---------------------------
(* Two host runs: enough for a reservation to be dropped while another run *)
(* holds the slot, and for a stale command to meet a later run.            *)
EXTENDS RunAdmission

=============================================================================
