-------------------------- MODULE MCSupportEscalation --------------------------
(* Small instances of SupportEscalation for TLC. *)
EXTENDS SupportEscalation, FiniteSets, TLC

\* Neither tickets nor sessions are compared but for equality.
TicketAndSessionSymmetry == Permutations(Tickets) \cup Permutations(Sessions)

\* Bound: updates and resolutions are of the first ticket, and end before
\* there is another; beyond, a resolution takes the steps of a send-back and
\* MCTicketRaces has them all.
UpdatesComeFirst ==
  (\E s \in Sessions : sess[s].op \in {"update", "resolve"}) =>
    Cardinality({t \in Tickets : Exists(t)}) <= 1
================================================================================
