--------------------------- MODULE EscalationLedger ---------------------------
(***************************************************************************)
(* What the escalation chain promises about each escalation, with nothing  *)
(* said of ticket statuses, sessions or transactions: an escalation is     *)
(* asked once, waits at one ticket, may be moved with everything waiting   *)
(* there, and ends once, by an answer from the ticket it waits at or by    *)
(* being taken back.  Promised by the contract of SupportEscalationGateway *)
(* (domain-support/src/store.ts).                                          *)
(***************************************************************************)
CONSTANTS Tickets, None

VARIABLE esc   \* by the upstream ticket created for the escalation

Absent == [state |-> "absent", from |-> None, to |-> None]

IsActive(l) == esc[l].state = "active"
WaitingAt(t) == {l \in Tickets : IsActive(l) /\ esc[l].to = t}
Waits(t) == \E l \in Tickets : IsActive(l) /\ esc[l].from = t

Init == esc = [l \in Tickets |-> Absent]

\* A ticket that is not waiting asks a new upstream ticket.
Ask(l, t) ==
  /\ esc[l] = Absent
  /\ ~Waits(t)
  /\ esc' = [esc EXCEPT ![l] = [state |-> "active", from |-> t, to |-> l]]

\* One ticket answers some of those waiting at it, all with one outcome.
Answer(t, L, outcome) ==
  /\ L # {} /\ L \subseteq WaitingAt(t)
  /\ esc' = [l \in Tickets |->
       IF l \in L THEN [esc[l] EXCEPT !.state = outcome] ELSE esc[l]]

\* An escalation is taken back unless the ticket it waits at waits itself.
TakeBack(l) ==
  /\ IsActive(l)
  /\ ~Waits(esc[l].to)
  /\ esc' = [esc EXCEPT ![l].state = "withdrawn"]

\* Everything waiting at one ticket waits at another instead.
Move(t, u) ==
  /\ t # u
  /\ esc' = [l \in Tickets |->
       IF l \in WaitingAt(t) THEN [esc[l] EXCEPT !.to = u] ELSE esc[l]]

Next ==
  \/ \E l, t \in Tickets : Ask(l, t) \/ Move(l, t)
  \/ \E l \in Tickets : TakeBack(l)
  \/ \E t \in Tickets, L \in SUBSET Tickets, outcome \in {"resolved", "returned"} :
       Answer(t, L, outcome)

Spec == Init /\ [][Next]_esc
===============================================================================
