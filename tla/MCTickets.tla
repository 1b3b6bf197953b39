------------------------------ MODULE MCTickets ------------------------------
(* Small instances of the ticket core for TLC. *)
EXTENDS TicketProperties, TLC

Symmetric == Permutations(Requests) \cup Permutations(STs)
=============================================================================
