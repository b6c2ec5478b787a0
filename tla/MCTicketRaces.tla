----------------------------- MODULE MCTicketRaces -----------------------------
(* Small instances of TicketRaces for TLC. *)
EXTENDS TicketRaces, TLC

\* Neither tickets nor sessions are compared but for equality.
TicketAndSessionSymmetry == Permutations(Tickets) \cup Permutations(Sessions)
================================================================================
