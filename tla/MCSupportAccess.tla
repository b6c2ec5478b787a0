---------------------------- MODULE MCSupportAccess ----------------------------
(* A tenant, a partner that may manage it, and one user of each kind.         *)
EXTENDS SupportAccess, TLC

CONSTANTS n1, p1, t1, t2, admin, agent, partner, operator

MCTenantOf ==
  [u \in Users |-> IF u \in {admin, agent} THEN n1 ELSE None]
MCPartnerOf ==
  [u \in Users |-> IF u = partner THEN p1 ELSE None]
MCTicketOwner == [t \in Tickets |-> IF t = t1 THEN n1 ELSE p1]

GrantAndSessionSymmetry == Permutations(Grants) \cup Permutations(Sessions)
================================================================================
