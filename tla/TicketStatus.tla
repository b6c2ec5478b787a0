----------------------------- MODULE TicketStatus -----------------------------
(***************************************************************************)
(* Ticket status rules: domain-support/src/status.ts.  Pure definitions    *)
(* shared by the modules about tickets.                                    *)
(***************************************************************************)

TicketStatusSet ==
  {"open", "in_progress", "waiting_on_customer", "waiting_on_upstream",
   "resolved", "closed"}

\* The status changes an agent can make directly, by the status they leave.
MANUAL_TRANSITIONS ==
  [open                |-> {"in_progress", "waiting_on_customer", "resolved", "closed"},
   in_progress         |-> {"waiting_on_customer", "resolved", "closed"},
   waiting_on_customer |-> {"in_progress", "resolved", "closed"},
   waiting_on_upstream |-> {},
   resolved            |-> {"in_progress", "closed"},
   closed              |-> {}]

ESCALATABLE == {"open", "in_progress", "waiting_on_customer"}

\* The problem counts as solved: both clocks stop.
STOPPED_STATUSES == {"resolved", "closed"}

\* The ticket is out of its owner's hands: the owner clock pauses.
WAITING_STATUSES == {"waiting_on_customer", "waiting_on_upstream"}

CanChangeStatus(from, to) == to \in MANUAL_TRANSITIONS[from]

CanEscalate(status) == status \in ESCALATABLE
===============================================================================
