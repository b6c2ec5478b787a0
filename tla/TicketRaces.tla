------------------------------ MODULE TicketRaces ------------------------------
(***************************************************************************)
(* Who was overtaken, a history of the escalation chain: the calls whose   *)
(* ticket, or whose escalations, another session changed since the call    *)
(* read them.  tickets.ts and escalation-workflow.ts save what they read   *)
(* without looking again, so such a save may undo what happened meanwhile. *)
(* The properties say that nothing else ever does: whatever interleaves    *)
(* and wherever calls stop, a save that was not overtaken, a gateway       *)
(* transaction and a requester's own update keep tickets and their         *)
(* escalations in step.                                                    *)
(***************************************************************************)
EXTENDS SupportEscalation, FiniteSets

CONSTANT MaxOverwritten   \* bound: how many tickets are saved over

ASSUME OverwrittenAssumption == MaxOverwritten \in Nat

VARIABLES
  overtaken,    \* the sessions whose call was overtaken
  overwritten   \* the tickets whose status an overtaken call has saved over

raceVars == <<vars, overtaken, overwritten>>

\* What a call has read of the rows: its ticket, and from listLinks on the
\* active escalations of the ticket.
HasRead(s) ==
  LET t == sess[s].on
  IN IF sess[s].pc = "listLinks" THEN <<Status(t), {}, {}>>
     ELSE <<Status(t), Inbound(t), Outbound(t)>>

\* A call is overtaken when what it read changes in a step that is not its own.
OvertakenNow(s) ==
  /\ sess[s] # Idle
  /\ sess'[s] # Idle
  /\ \/ s \in overtaken
     \/ sess'[s] = sess[s] /\ HasRead(s)' # HasRead(s)

\* The step in which an overtaken call saves another status over that of t.
Overwrites(t) ==
  /\ Status(t)' # Status(t)
  /\ \E s \in overtaken : sess[s].on = t /\ Save(s)

RaceInit == Init /\ overtaken = {} /\ overwritten = {}
RaceNext ==
  /\ Next
  /\ overtaken' = {s \in Sessions : OvertakenNow(s)}
  /\ overwritten' = overwritten \cup {t \in Tickets : Overwrites(t)}
  /\ Cardinality(overwritten') <= MaxOverwritten
RaceSpec == RaceInit /\ [][RaceNext]_raceVars

-------------------------------------------------------------------------------
(* Properties *)

\* status.ts: a ticket with an active escalation is waiting_on_upstream; and
\* one that waits with no active escalation is a withdrawal that stopped after
\* the gateway call, which a retry completes.  So it is with any number of
\* callers, for every ticket that no overtaken call has saved over.
WaitingMatchesEscalation ==
  \A t \in Tickets \ overwritten :
    /\ Outbound(t) # {} => Status(t) = "waiting_on_upstream"
    /\ Status(t) = "waiting_on_upstream" /\ Outbound(t) = {} =>
         \E l \in Tickets : esc[l].from = t /\ esc[l].state = "withdrawn"

\* A duplicate stays closed and nothing waits on it, and no master is merged
\* back into a duplicate of its own: a waiter moved by a merge stays moved,
\* whatever calls on the duplicate were under way, unless one of them was
\* overtaken by the merge and saved over it.
MergedStaysMerged ==
  \A m \in merged :
    m[1] \notin overwritten =>
      /\ Status(m[1]) = "closed"
      /\ Inbound(m[1]) = {}
      /\ \A n \in merged : n[1] = m[1] => n[2] = m[2]

\* status.ts: only an answer or a withdrawal takes a ticket out of
\* waiting_on_upstream, with any number of callers: updateTicket, a merge, a
\* requester or a withdrawal that found its escalation gone never resume a
\* ticket whose escalation is still active, but for a save that was overtaken.
WaitingEndsWithEscalation ==
  [][\A t \in Tickets :
       Status(t) = "waiting_on_upstream" /\ Status(t)' # "waiting_on_upstream" =>
         Outbound(t)' = {} \/ Overwrites(t)]_raceVars

\* status.ts, MANUAL_TRANSITIONS: nothing reopens a closed ticket, one that a
\* merge, a withdrawal or its requester closed while calls were under way
\* included, but for a save that was overtaken.
ClosedStaysClosed ==
  [][\A t \in Tickets :
       Status(t) = "closed" => Status(t)' = "closed" \/ Overwrites(t)]_raceVars

\* propagation.ts: whoever resolves or closes a ticket reaches every ticket
\* that waits on it.  A save that does so and ends its call, because the call
\* found nobody to answer, leaves nobody waiting, unless it was overtaken by
\* the escalation or the merge that brought the waiter.
StopReachesEveryWaiter ==
  [][\A s \in Sessions \ overtaken, t \in Tickets :
       /\ sess[s].pc = "save" /\ sess[s].on = t /\ sess'[s] = Idle
       /\ Status(t)' # Status(t) /\ Status(t)' \in STOPPED_STATUSES
       => Inbound(t)' = {}]_raceVars
================================================================================
