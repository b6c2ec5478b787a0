--------------------------- MODULE SupportEscalation ---------------------------
(***************************************************************************)
(* The support escalation chain: the workflow of domain-support            *)
(* (escalation-workflow.ts, propagation.ts, tickets.ts) running over the   *)
(* host's store and over the gateway transactions of schema-support        *)
(* (20260924110000_support_escalation_gateway.sql).                        *)
(*                                                                         *)
(* A session is one caller of the support service, executing one operation *)
(* at a time.  Every await of the TypeScript code that reads or writes the *)
(* database is one step, so steps of other sessions fall between them; a   *)
(* gateway function is one database transaction and one step.  A session   *)
(* may stop anywhere (a crash, a failed call): what it wrote stays.        *)
(***************************************************************************)
EXTENDS Naturals, TicketStatus

CONSTANTS
  Tickets,     \* identities of ticket rows
  Tenants,
  Partners,
  Platform,    \* the platform, the top of every chain of owners
  Sessions,
  None,        \* no partner, no ticket: SQL NULL
  Filers,      \* bound: the owners whose tickets are filed directly
  Choices,     \* bound: the statuses agents choose in updateTicket
  Operations   \* bound: the operations of several steps that are called

ASSUME OwnersAssumption ==
  /\ Tenants \cap Partners = {}
  /\ Platform \notin Tenants \cup Partners
  /\ None \notin Tenants \cup Partners \cup {Platform} \cup Tickets

ASSUME BoundsAssumption ==
  /\ Filers \subseteq Tenants \cup Partners \cup {Platform}
  /\ Choices \subseteq TicketStatusSet
  /\ Operations \subseteq {"update", "resolve", "return", "withdraw"}

VARIABLES
  partnerOf,   \* partner_tenants: the partner that manages a tenant, or None
  ticket,      \* support_tickets
  esc,         \* escalation rows of support_ticket_links, named by the
               \* upstream ticket that support_escalate created with the row
  merged,      \* merge rows of support_ticket_links: <<duplicate, master>>
  sess         \* what each session is executing

vars == <<partnerOf, ticket, esc, merged, sess>>
rows == <<partnerOf, ticket, esc, merged>>

-------------------------------------------------------------------------------
(* Owners *)

Owners == Tenants \cup Partners \cup {Platform}

\* How far up the chain an owner is.
Rank(o) == IF o \in Tenants THEN 0 ELSE IF o \in Partners THEN 1 ELSE 2

\* The direct parent of an owner below the platform: support_parent_owner.
ParentOwner(o) ==
  IF o \in Tenants /\ partnerOf[o] # None THEN partnerOf[o] ELSE Platform

-------------------------------------------------------------------------------
(* Rows *)

\* outsider: the requester (created_by) is not a member of the owner.
TicketRow == [status: TicketStatusSet, owner: Owners, outsider: BOOLEAN]
NoTicket  == [status |-> "absent", owner |-> None, outsider |-> FALSE]

LinkState == {"active", "resolved", "returned", "withdrawn"}
LinkRow   == [state: LinkState, from: Tickets, to: Tickets]
NoLink    == [state |-> "absent", from |-> None, to |-> None]

Status(t) == ticket[t].status
Exists(t) == Status(t) # "absent"

SetStatus(t, status) == [ticket EXCEPT ![t].status = status]

\* Links are named by tickets: Inbound(t) are the active escalations waiting
\* on t, Outbound(t) the active escalation t waits on.
Active(l)   == esc[l].state = "active"
Inbound(t)  == {l \in Tickets : Active(l) /\ esc[l].to = t}
Outbound(t) == {l \in Tickets : Active(l) /\ esc[l].from = t}

-------------------------------------------------------------------------------
(* Sessions *)

Idle == [op |-> "none", pc |-> "idle", on |-> None, row |-> "absent",
         put |-> "absent", plan |-> {}]

\* row: the status in the row as read; put: the status the operation saves;
\* plan: the links the operation hands back or withdraws.
Call == [op: {"update", "resolve", "return", "withdraw"},
         pc: {"listLinks", "save", "handBack", "withdraw"},
         on: Tickets,
         row: TicketStatusSet,
         put: TicketStatusSet,
         plan: SUBSET Tickets]

At(s, op, pc) == sess[s].op = op /\ sess[s].pc = pc

GoTo(s, pc, plan) ==
  sess' = [sess EXCEPT ![s] = [@ EXCEPT !.pc = pc, !.plan = plan]]
Finish(s) == sess' = [sess EXCEPT ![s] = Idle]

\* A call that has read its ticket; a call refused at that point changes
\* nothing and is not a step.
Start(s, op, t, put, pc) ==
  /\ op \in Operations
  /\ sess[s] = Idle
  /\ Exists(t)
  /\ sess' = [sess EXCEPT ![s] =
       [op |-> op, pc |-> pc, on |-> t, row |-> Status(t), put |-> put,
        plan |-> {}]]
  /\ UNCHANGED rows

Init ==
  /\ partnerOf \in [Tenants -> Partners \cup {None}]
  /\ ticket = [t \in Tickets |-> NoTicket]
  /\ esc = [l \in Tickets |-> NoLink]
  /\ merged = {}
  /\ sess = [s \in Sessions |-> Idle]

-------------------------------------------------------------------------------
(* createTicket, and the requester's own update of a row *)

\* A tenant's ticket comes from a member who is no support agent; a ticket
\* an agent files can do less, so it is not told apart.
CreateTicket(s, t, o) ==
  /\ sess[s] = Idle
  /\ ~Exists(t)
  /\ ticket' = [ticket EXCEPT ![t] =
       [status |-> "open", owner |-> o, outsider |-> o \in Tenants]]
  /\ UNCHANGED <<partnerOf, esc, merged, sess>>

\* support_ticket_requester_guard: a requester outside the owner may reopen
\* a resolved ticket or close it, in one UPDATE.
RequesterUpdate(s, t, status) ==
  /\ sess[s] = Idle
  /\ ticket[t].outsider
  /\ \/ Status(t) = "resolved" /\ status = "in_progress"
     \/ /\ Status(t) \in {"open", "in_progress", "waiting_on_customer", "resolved"}
        /\ status = "closed"
  /\ ticket' = SetStatus(t, status)
  /\ UNCHANGED <<partnerOf, esc, merged, sess>>

-------------------------------------------------------------------------------
(* updateTicket *)

\* An update that keeps the status still writes the whole row back.
StartUpdate(s, t, status) ==
  /\ Exists(t)
  /\ \/ status = Status(t)
     \/ status \in Choices /\ CanChangeStatus(Status(t), status)
  /\ Start(s, "update", t, status,
           IF status # Status(t) /\ status \in STOPPED_STATUSES
           THEN "listLinks" ELSE "save")

\* A ticket with escalations waiting on it is not resolved or closed here.
UpdateListLinks(s) ==
  /\ At(s, "update", "listLinks")
  /\ IF Inbound(sess[s].on) = {} THEN GoTo(s, "save", {}) ELSE Finish(s)
  /\ UNCHANGED rows

-------------------------------------------------------------------------------
(* resolveTicket and returnEscalation *)

\* Mutant: resolveTicket without its check of the ticket's status.
StartResolveUnchecked(s, t) ==
  Exists(t) /\ Start(s, "resolve", t, "resolved", "listLinks")

StartResolve(s, t) ==
  /\ Exists(t)
  /\ Status(t) = "resolved" \/ CanChangeStatus(Status(t), "resolved")
  /\ Start(s, "resolve", t, "resolved", "listLinks")

StartReturn(s, t) ==
  /\ Exists(t)
  /\ Status(t) = "closed" \/ CanChangeStatus(Status(t), "closed")
  /\ Start(s, "return", t, "closed", "listLinks")

\* Mutant: a retry finds its status saved and takes the call for done.
AfterPlanOnce(s, plan) ==
  IF sess[s].row # sess[s].put THEN GoTo(s, "save", plan) ELSE Finish(s)

\* The row is saved only if its status as read was not there yet: a retry
\* goes straight to the hand-back.
AfterPlan(s, plan) ==
  IF sess[s].row # sess[s].put
  THEN GoTo(s, "save", plan)
  ELSE IF plan # {}
  THEN GoTo(s, "handBack", plan)
  ELSE Finish(s)

\* Mutants of the planning: only the escalation that created the ticket is
\* answered; listLinks' other direction is not filtered out.
ResolveOwnEscalation(s) ==
  /\ At(s, "resolve", "listLinks")
  /\ AfterPlan(s, Inbound(sess[s].on) \cap {sess[s].on})
  /\ UNCHANGED rows
ReturnBothDirections(s) ==
  /\ At(s, "return", "listLinks")
  /\ LET plan == Inbound(sess[s].on) \cup Outbound(sess[s].on)
     IN IF plan = {} THEN Finish(s) ELSE AfterPlan(s, plan)
  /\ UNCHANGED rows

ResolveListLinks(s) ==
  /\ At(s, "resolve", "listLinks")
  /\ AfterPlan(s, Inbound(sess[s].on))
  /\ UNCHANGED rows

\* With no escalation to send back the call fails.
ReturnListLinks(s) ==
  /\ At(s, "return", "listLinks")
  /\ LET plan == Inbound(sess[s].on)
     IN IF plan = {} THEN Finish(s) ELSE AfterPlan(s, plan)
  /\ UNCHANGED rows

\* store.saveTicket writes the whole row, the status in it included.
Save(s) ==
  /\ sess[s].pc = "save"
  /\ ticket' = SetStatus(sess[s].on, sess[s].put)
  /\ IF sess[s].op \in {"resolve", "return"} /\ sess[s].plan # {}
     THEN GoTo(s, "handBack", sess[s].plan)
     ELSE Finish(s)
  /\ UNCHANGED <<partnerOf, esc, merged>>

\* Mutants of the hand-back: the operation's name saved as the outcome, an
\* ended escalation answered again, waiters answered but not resumed.
OutcomeNamesOperation(s) == sess[s].op
MayHandBackAgain(l, outcome) ==
  Status(esc[l].to) \in {"resolved", "closed"}
ResumedNobody(plan) == {}

Outcome(s) == IF sess[s].op = "resolve" THEN "resolved" ELSE "returned"

\* What support_hand_back requires of a link it is given.
MayHandBack(l, outcome) ==
  /\ Active(l)
  /\ IF outcome = "resolved"
     THEN Status(esc[l].to) \in {"resolved", "closed"}
     ELSE Status(esc[l].to) = "closed"

\* The waiting tickets that an answer to the planned links resumes.
Resumed(plan) ==
  {t \in Tickets : /\ Status(t) = "waiting_on_upstream"
                   /\ \E l \in plan : esc[l].from = t}

\* One transaction: every planned link moves, or the call fails and none
\* does.  The upstream status is read without a lock; nothing it could race
\* with reads what this transaction writes, so it orders first.
HandBack(s) ==
  /\ sess[s].pc = "handBack"
  /\ LET plan == sess[s].plan
     IN IF \A l \in plan : MayHandBack(l, Outcome(s))
        THEN /\ esc' = [l \in Tickets |->
                  IF l \in plan THEN [esc[l] EXCEPT !.state = Outcome(s)]
                  ELSE esc[l]]
             /\ ticket' = [t \in Tickets |->
                  IF t \in Resumed(plan)
                  THEN [ticket[t] EXCEPT !.status = "in_progress"]
                  ELSE ticket[t]]
        ELSE UNCHANGED <<esc, ticket>>
  /\ Finish(s)
  /\ UNCHANGED <<partnerOf, merged>>

-------------------------------------------------------------------------------
(* withdrawEscalation *)

StartWithdraw(s, t) ==
  /\ Status(t) = "waiting_on_upstream"
  /\ Start(s, "withdraw", t, "in_progress", "listLinks")

\* Mutant: the links are asked for in the other direction.
WithdrawLinksOfOthers(s) ==
  /\ At(s, "withdraw", "listLinks")
  /\ LET plan == Inbound(sess[s].on)
     IN GoTo(s, IF plan = {} THEN "save" ELSE "withdraw", plan)
  /\ UNCHANGED rows

WithdrawListLinks(s) ==
  /\ At(s, "withdraw", "listLinks")
  /\ LET plan == Outbound(sess[s].on)
     IN GoTo(s, IF plan = {} THEN "save" ELSE "withdraw", plan)
  /\ UNCHANGED rows

\* Mutant: the upstream ticket may have escalated in turn.
MayWithdrawAlways(l) == Active(l)

MayWithdraw(l) == Active(l) /\ Outbound(esc[l].to) = {}

\* support_withdraw: the upstream ticket is closed; the downstream ticket is
\* left to the caller's saveTicket.
GatewayWithdraw(s) ==
  /\ sess[s].pc = "withdraw"
  /\ \E l \in sess[s].plan :
       IF MayWithdraw(l)
       THEN /\ esc' = [esc EXCEPT ![l].state = "withdrawn"]
            /\ ticket' = SetStatus(esc[l].to, "closed")
            /\ GoTo(s, "save", sess[s].plan)
       ELSE Finish(s) /\ UNCHANGED <<esc, ticket>>
  /\ UNCHANGED <<partnerOf, merged>>

-------------------------------------------------------------------------------
(* escalateTicket and mergeTickets.  What they read first only makes them  *)
(* fail sooner: the gateway validates the same conditions again on locked  *)
(* rows, so the gateway transaction is the whole effect.                   *)

MayEscalate(t) ==
  /\ CanEscalate(Status(t))
  /\ ticket[t].owner # Platform
  /\ Outbound(t) = {}      \* support_ticket_links_one_active_escalation

\* What buildUpstreamTicket drafts: the next owner's, open, filed by a member
\* of the owner below.
UpstreamTicket(t) ==
  [status |-> "open", owner |-> ParentOwner(ticket[t].owner), outsider |-> TRUE]

EscalateTicket(s, t, up) ==
  /\ sess[s] = Idle
  /\ MayEscalate(t)
  /\ ~Exists(up)
  /\ ticket' = [ticket EXCEPT
       ![up] = UpstreamTicket(t),
       ![t].status = "waiting_on_upstream"]
  /\ esc' = [esc EXCEPT ![up] = [state |-> "active", from |-> t, to |-> up]]
  /\ UNCHANGED <<partnerOf, merged, sess>>

\* Mutants of the merge: tickets of two owners, a master that is closed,
\* duplicate and master swapped.
MayMergeAcrossOwners(dup, master) ==
  /\ dup # master
  /\ Exists(dup) /\ Exists(master)
  /\ Status(dup) \notin {"closed", "waiting_on_upstream"}
  /\ Status(master) \notin {"resolved", "closed"}
MayMergeIntoClosed(dup, master) ==
  /\ dup # master
  /\ Exists(dup) /\ Exists(master)
  /\ ticket[dup].owner = ticket[master].owner
  /\ Status(dup) \notin {"closed", "waiting_on_upstream"}
RepointSwapped(dup, master) ==
  [l \in Tickets |->
     IF l \in Inbound(master) THEN [esc[l] EXCEPT !.to = dup] ELSE esc[l]]

MayMerge(dup, master) ==
  /\ dup # master
  /\ Exists(dup) /\ Exists(master)
  /\ ticket[dup].owner = ticket[master].owner
  /\ Status(dup) \notin {"closed", "waiting_on_upstream"}
  /\ Status(master) \notin {"resolved", "closed"}

\* Whatever waits on the duplicate waits on the master instead.
Repoint(dup, master) ==
  [l \in Tickets |->
     IF l \in Inbound(dup) THEN [esc[l] EXCEPT !.to = master] ELSE esc[l]]

MergeTickets(s, dup, master) ==
  /\ sess[s] = Idle
  /\ MayMerge(dup, master)
  /\ esc' = Repoint(dup, master)
  /\ merged' = merged \cup {<<dup, master>>}
  /\ ticket' = SetStatus(dup, "closed")
  /\ UNCHANGED <<partnerOf, sess>>

-------------------------------------------------------------------------------
(* The environment *)

\* A session stops: its process dies, or a call it awaits fails.
Abandon(s) ==
  /\ sess[s] # Idle
  /\ Finish(s)
  /\ UNCHANGED rows

\* A tenant gains, loses or changes its partner.
PartnerChanges(n, p) ==
  /\ partnerOf[n] # p
  /\ partnerOf' = [partnerOf EXCEPT ![n] = p]
  /\ UNCHANGED <<ticket, esc, merged, sess>>

Begin(s) ==
  \E t \in Tickets :
    \/ \E o \in Filers : CreateTicket(s, t, o)
    \/ \E status \in TicketStatusSet :
         RequesterUpdate(s, t, status) \/ StartUpdate(s, t, status)
    \/ StartResolve(s, t)
    \/ StartReturn(s, t)
    \/ StartWithdraw(s, t)
    \/ \E u \in Tickets : EscalateTicket(s, t, u) \/ MergeTickets(s, t, u)

Continue(s) ==
  \/ UpdateListLinks(s)
  \/ ResolveListLinks(s)
  \/ ReturnListLinks(s)
  \/ WithdrawListLinks(s)
  \/ Save(s)
  \/ HandBack(s)
  \/ GatewayWithdraw(s)

Next ==
  \/ \E s \in Sessions : Begin(s) \/ Continue(s) \/ Abandon(s)
  \/ \E n \in Tenants, p \in Partners \cup {None} : PartnerChanges(n, p)

Spec == Init /\ [][Next]_vars

-------------------------------------------------------------------------------
(* Properties that hold whatever the sessions interleave. *)

\* Every variable has its type: rows hold statuses, owners and link states the
\* CHECK constraints allow, sessions hold what the operations carry.
TypeOK ==
  /\ partnerOf \in [Tenants -> Partners \cup {None}]
  /\ ticket \in [Tickets -> TicketRow \cup {NoTicket}]
  /\ esc \in [Tickets -> LinkRow \cup {NoLink}]
  /\ merged \subseteq Tickets \X Tickets
  /\ sess \in [Sessions -> Call \cup {Idle}]

\* An escalation only ever goes up the chain of owners, after any number of
\* merges and changes of partner; so escalations cannot wait in a cycle.
EscalationAscends ==
  \A l \in Tickets :
    esc[l] # NoLink =>
      /\ Exists(esc[l].from) /\ Exists(esc[l].to)
      /\ Rank(ticket[esc[l].from].owner) < Rank(ticket[esc[l].to].owner)

\* The ticket an escalation points at is the one created for it or one that
\* ticket was merged into, directly or through other duplicates (said with
\* the sets closed under merging): a merge never loses or misroutes a waiter.
EscalationFollowsMerges ==
  \A l \in Tickets :
    esc[l] # NoLink =>
      \A S \in SUBSET Tickets :
        /\ l \in S
        /\ \A m \in merged : m[1] \in S => m[2] \in S
        => esc[l].to \in S

\* The links a call is about to hand back all point at one ticket, even when
\* merges re-pointed them after the call read them: one status check answers
\* for the whole transaction.
PlanHasOneUpstream ==
  \A s \in Sessions :
    sess[s].pc = "handBack" =>
      \A k, l \in sess[s].plan : Active(k) /\ Active(l) => esc[k].to = esc[l].to

\* An outcome is final: a resolved, returned or withdrawn escalation keeps
\* its outcome and its ends forever, and no row ever changes who escalated.
OutcomeIsFinal ==
  [][\A l \in Tickets :
       /\ esc[l].state \in LinkState \ {"active"} => esc'[l] = esc[l]
       /\ esc[l] # NoLink => esc'[l].from = esc[l].from]_esc

\* Every step of the workflow is a step of the abstract ledger, or none of its
\* business: rows, sessions, failures and races refine it.
Ledger == INSTANCE EscalationLedger WITH Tickets <- Tickets, None <- None, esc <- esc
ImplementsLedger == Ledger!Spec

-------------------------------------------------------------------------------
(* What the documentation says and racing sessions break; TicketRaces says   *)
(* which steps break it.                                                     *)

\* status.ts: waiting_on_upstream is never cleared by hand, so a ticket stays
\* waiting_on_upstream for as long as its escalation is active.
WaitingOutlastsEscalation ==
  [][\A t \in Tickets :
       Status(t) = "waiting_on_upstream" /\ Status(t)' # "waiting_on_upstream" =>
         Outbound(t)' = {}]_ticket
===============================================================================
