----------------------------- MODULE SupportAccess -----------------------------
(***************************************************************************)
(* Support access grants: staff above an owner of tickets (its partner, or *)
(* the platform) read that owner's tickets only through a grant.           *)
(* schema-support/migrations/20260924120000_support_access_grants.sql,     *)
(* with support_is_owner_admin as 20260925130000 redefines it.             *)
(*                                                                         *)
(* A session executes one database function at a time, in a transaction    *)
(* whose now() is the moment it began.  A function that locks the grant    *)
(* first is one step taken at some later moment, when it holds the lock; a *)
(* read checks the grant in one statement and reads in later ones.         *)
(***************************************************************************)
EXTENDS Integers, FiniteSets

CONSTANTS
  Tenants, Partners,
  Platform,
  None,
  Users,
  TenantOf,      \* users.tenant_id
  PartnerOf,     \* the partner a user is Partner Admin of
  Operators,     \* users with a platform role and no tenant
  TenantAdmins,  \* users whose role is Tenant Admin or Organization Admin
  Agents,        \* users with the support.agent permission
  Tickets,
  TicketOwner,
  Grants,        \* identities of grants
  Sessions,
  MaxHours,      \* 168 in the code
  MaxTime,       \* bound: the last moment the clock shows
  MaxEvents      \* bound: how many reads are logged

Owners   == Tenants \cup Partners
Grantees == Partners \cup {Platform}

ASSUME UsersAssumption ==
  /\ TenantOf \in [Users -> Tenants \cup {None}]
  /\ PartnerOf \in [Users -> Partners \cup {None}]
  /\ Operators \subseteq {u \in Users : TenantOf[u] = None /\ PartnerOf[u] = None}
  /\ TenantAdmins \subseteq {u \in Users : PartnerOf[u] = None}
  /\ Agents \subseteq Users
  /\ TicketOwner \in [Tickets -> Owners]

ASSUME NamesAssumption ==
  /\ Tenants \cap Partners = {}
  /\ Platform \notin Owners
  /\ None \notin Owners \cup Users \cup Tickets \cup Grants \cup {Platform}

ASSUME LimitsAssumption ==
  /\ MaxHours \in Nat \ {0}
  /\ MaxTime \in Nat
  /\ MaxEvents \in Nat

VARIABLES
  manages,   \* partner_tenants: the partner of each tenant, or None
  grant,     \* support_access_grants
  events,    \* support_access_events
  now,       \* the database's clock, in hours
  call       \* what each session is executing

vars == <<manages, grant, events, now, call>>

-------------------------------------------------------------------------------
(* Rows *)

Hours == 1 .. MaxHours

GrantRow ==
  [owner: Owners, grantee: Grantees, ticket: Tickets \cup {None},
   kind: {"request", "grant", "break_glass"},
   status: {"pending", "approved", "denied", "revoked"},
   hours: Hours, by: Users, decider: Users \cup {None},
   starts: 0 .. MaxTime, expires: 0 .. (MaxTime + MaxHours)]
NoGrant == [status |-> "absent"]

EventRow ==
  [grant: Grants, actor: Users, ticket: Tickets \cup {None}, at: 0 .. MaxTime]

IdleCall == [op |-> "none"]
CallRow ==
  [op: {"approve", "deny", "revoke", "list", "read"},
   pc: {"begun", "checked"},
   user: Users, grant: Grants, start: 0 .. MaxTime,
   hours: 0 .. MaxHours, ticket: Tickets \cup {None}]

Exists(g) == grant[g] # NoGrant

-------------------------------------------------------------------------------
(* Who a user is *)

\* support_is_owner_admin; for these owners can_access_support_owner is the same.
IsOwnerAdmin(u, o) ==
  \/ o \in Tenants /\ TenantOf[u] = o /\ u \in Agents
  \/ o \in Partners /\ PartnerOf[u] = o

IsGranteeMember(u, grantee) ==
  IF grantee = Platform THEN u \in Operators ELSE PartnerOf[u] = grantee

\* Mutant: a grant without its window's end.
IsActiveForever(g, u, at) ==
  /\ grant[g].status = "approved"
  /\ grant[g].starts <= at
  /\ IsGranteeMember(u, grant[g].grantee)
  /\ grant[g].grantee = Platform \/ manages[grant[g].owner] = grant[g].grantee

\* support_access_grant_active, in a transaction of u that began at "at".
IsActive(g, u, at) ==
  /\ Exists(g)
  /\ grant[g].status = "approved"
  /\ grant[g].starts <= at /\ at < grant[g].expires
  /\ IsGranteeMember(u, grant[g].grantee)
  /\ grant[g].grantee = Platform \/ manages[grant[g].owner] = grant[g].grantee

\* A ticket of the grant's owner, within the grant's scope.
InScope(g, t) ==
  /\ TicketOwner[t] = grant[g].owner
  /\ grant[g].ticket \in {None, t}

-------------------------------------------------------------------------------

Init ==
  /\ manages \in [Tenants -> Partners \cup {None}]
  /\ grant = [g \in Grants |-> NoGrant]
  /\ events = {}
  /\ now = 0
  /\ call = [s \in Sessions |-> IdleCall]

\* now() + make_interval(hours => hours)
WindowEnd(start, hours) == start + hours

\* The three functions that insert a grant; each ends as it began, so it is
\* one step.
Insert(g, row) ==
  /\ ~Exists(g)
  /\ row.ticket # None => TicketOwner[row.ticket] = row.owner
  /\ grant' = [grant EXCEPT ![g] = row]
  /\ UNCHANGED <<manages, events, now, call>>

\* support_access_request: the grantee is derived from the caller.
Request(g, u, owner, t, hours) ==
  LET grantee == IF u \in Operators THEN Platform ELSE PartnerOf[u]
  IN /\ grantee # None
     /\ grantee \in Partners => owner \in Tenants /\ manages[owner] = grantee
     /\ ~IsOwnerAdmin(u, owner)
     /\ hours \in Hours
     /\ Insert(g, [owner |-> owner, grantee |-> grantee, ticket |-> t,
                   kind |-> "request", status |-> "pending", hours |-> hours,
                   by |-> u, decider |-> None, starts |-> 0, expires |-> 0])

\* Who support_access_grant takes for an admin: a tenant admin by the name of
\* the role, or else a partner's admin.
GrantingOwner(u) ==
  IF TenantOf[u] # None /\ u \in TenantAdmins THEN TenantOf[u] ELSE PartnerOf[u]

\* support_access_grant: the owner is the caller's own.
GrantAccess(g, u, grantee, t, hours) ==
  LET owner == GrantingOwner(u)
  IN /\ owner # None
     /\ grantee \in Partners => owner \in Tenants /\ manages[owner] = grantee
     /\ hours \in Hours
     /\ Insert(g, [owner |-> owner, grantee |-> grantee, ticket |-> t,
                   kind |-> "grant", status |-> "approved", hours |-> hours,
                   by |-> u, decider |-> u, starts |-> now,
                   expires |-> WindowEnd(now, hours)])

\* support_access_break_glass: an operator, for one hour.
BreakGlass(g, u, owner, t) ==
  /\ u \in Operators
  /\ Insert(g, [owner |-> owner, grantee |-> Platform, ticket |-> t,
                kind |-> "break_glass", status |-> "approved", hours |-> 1,
                by |-> u, decider |-> u, starts |-> now, expires |-> WindowEnd(now, 1)])

\* A transaction begins: now() is fixed for all of it.
BeginCall(s, op, u, g, t, hours) ==
  /\ call[s] = IdleCall
  /\ Exists(g)
  /\ call' = [call EXCEPT ![s] =
       [op |-> op, pc |-> "begun", user |-> u, grant |-> g, start |-> now,
        hours |-> hours, ticket |-> t]]
  /\ UNCHANGED <<manages, grant, events, now>>

EndCall(s) == call' = [call EXCEPT ![s] = IdleCall]

-------------------------------------------------------------------------------
(* support_access_decide and support_access_revoke, from the lock on *)

\* Mutant: a request decided a second time.
MayDecideAgain(c) == IsOwnerAdmin(c.user, grant[c.grant].owner)

MayDecide(c) ==
  /\ grant[c.grant].status = "pending"
  /\ IsOwnerAdmin(c.user, grant[c.grant].owner)

MayApprove(c) == MayDecide(c) /\ c.hours \in 1 .. grant[c.grant].hours

Decide(s) ==
  LET c == call[s]
  IN /\ c.op \in {"approve", "deny"}
     /\ grant' =
          IF c.op = "approve" /\ MayApprove(c)
          THEN [grant EXCEPT ![c.grant] =
                  [@ EXCEPT !.status = "approved", !.decider = c.user,
                            !.starts = c.start, !.expires = WindowEnd(c.start, c.hours)]]
          ELSE IF c.op = "deny" /\ MayDecide(c)
          THEN [grant EXCEPT ![c.grant] =
                  [@ EXCEPT !.status = "denied", !.decider = c.user]]
          ELSE grant
     /\ EndCall(s)
     /\ UNCHANGED <<manages, events, now>>

MayRevoke(c) ==
  /\ grant[c.grant].status \in {"pending", "approved"}
  /\ \/ IsOwnerAdmin(c.user, grant[c.grant].owner)
     \/ IsGranteeMember(c.user, grant[c.grant].grantee)

Revoke(s) ==
  LET c == call[s]
  IN /\ c.op = "revoke"
     /\ grant' = IF MayRevoke(c)
                 THEN [grant EXCEPT ![c.grant].status = "revoked"]
                 ELSE grant
     /\ EndCall(s)
     /\ UNCHANGED <<manages, events, now>>

-------------------------------------------------------------------------------
(* The reads: support_access_list_tickets, support_access_get_ticket and     *)
(* support_access_attachment_path                                            *)

CheckGrant(s) ==
  LET c == call[s]
  IN /\ c.op \in {"list", "read"} /\ c.pc = "begun"
     /\ IF IsActive(c.grant, c.user, c.start)
        THEN call' = [call EXCEPT ![s].pc = "checked"]
        ELSE EndCall(s)
     /\ UNCHANGED <<manages, grant, events, now>>

Log(c, t) ==
  events' = events \cup
    {[grant |-> c.grant, actor |-> c.user, ticket |-> t, at |-> c.start]}

\* The tickets of the grant's owner, or the one in its scope.
ListTickets(s) ==
  /\ call[s].op = "list" /\ call[s].pc = "checked"
  /\ Log(call[s], None)
  /\ EndCall(s)
  /\ UNCHANGED <<manages, grant, now>>

\* One ticket or the path of one of its attachments, or a refusal.
ReadTicket(s) ==
  /\ call[s].op = "read" /\ call[s].pc = "checked"
  /\ IF InScope(call[s].grant, call[s].ticket)
     THEN Log(call[s], call[s].ticket)
     ELSE UNCHANGED events
  /\ EndCall(s)
  /\ UNCHANGED <<manages, grant, now>>

-------------------------------------------------------------------------------

\* The clock, and a tenant that gains, loses or changes its partner.
Tick ==
  /\ now < MaxTime
  /\ now' = now + 1
  /\ UNCHANGED <<manages, grant, events, call>>

PartnerChanges(n, p) ==
  /\ manages[n] # p
  /\ manages' = [manages EXCEPT ![n] = p]
  /\ UNCHANGED <<grant, events, now, call>>

File(g, u) ==
  \E t \in Tickets \cup {None} :
    \/ \E owner \in Owners, hours \in Hours : Request(g, u, owner, t, hours)
    \/ \E grantee \in Grantees, hours \in Hours : GrantAccess(g, u, grantee, t, hours)
    \/ \E owner \in Owners : BreakGlass(g, u, owner, t)

\* Who is on neither side of a grant is refused whatever its state; so are
\* hours outside the limits.  Neither is a step.
Begin(s, u, g) ==
  /\ Exists(g)
  /\ IsOwnerAdmin(u, grant[g].owner) \/ IsGranteeMember(u, grant[g].grantee)
  /\ \/ \E hours \in Hours : BeginCall(s, "approve", u, g, None, hours)
     \/ BeginCall(s, "deny", u, g, None, 0)
     \/ BeginCall(s, "revoke", u, g, None, 0)
     \/ /\ Cardinality(events) < MaxEvents
        /\ \/ BeginCall(s, "list", u, g, None, 0)
           \/ \E t \in Tickets : BeginCall(s, "read", u, g, t, 0)

Next ==
  \/ Tick
  \/ \E n \in Tenants, p \in Partners \cup {None} : PartnerChanges(n, p)
  \/ \E g \in Grants, u \in Users :
       File(g, u) \/ \E s \in Sessions : Begin(s, u, g)
  \/ \E s \in Sessions :
       Decide(s) \/ Revoke(s) \/ CheckGrant(s) \/ ListTickets(s) \/ ReadTicket(s)

Spec == Init /\ [][Next]_vars

-------------------------------------------------------------------------------

\* Every variable has its type.
TypeOK ==
  /\ manages \in [Tenants -> Partners \cup {None}]
  /\ grant \in [Grants -> GrantRow \cup {NoGrant}]
  /\ events \subseteq EventRow
  /\ now \in 0 .. MaxTime
  /\ call \in [Sessions -> CallRow \cup {IdleCall}]

\* The log stays consistent with the grants: every read it records lies in the
\* window its grant shows, however the read raced a decision, a revocation,
\* the clock or a change of partner.
ReadsInWindow ==
  \A e \in events :
    /\ grant[e.grant].status \in {"approved", "revoked"}
    /\ grant[e.grant].starts <= e.at /\ e.at < grant[e.grant].expires

\* Nobody but the grantee reads, and only tickets of the owner the grant
\* names; never its own queue.
ReadsAreTheGrantees ==
  \A e \in events :
    LET g == e.grant
    IN /\ IsGranteeMember(e.actor, grant[g].grantee)
       /\ grant[g].grantee # grant[g].owner
       /\ e.ticket # None => InScope(g, e.ticket)

\* Reads are consented: somebody of the owner decided, or an operator broke the
\* glass for an hour and no more.
ReadsAreConsented ==
  \A e \in events :
    LET row == grant[e.grant]
    IN IF row.kind = "break_glass"
       THEN row.decider \in Operators /\ row.expires = row.starts + 1
       ELSE \/ IsOwnerAdmin(row.decider, row.owner)
            \/ row.kind = "grant" /\ GrantingOwner(row.decider) = row.owner

\* Every read that is logged was in its grant's window, the grantee's own and
\* consented by the owner, or under broken glass
\* (20260924120000_support_access_grants.sql).
ReadsAreAllowed ==
  TypeOK /\ ReadsInWindow /\ ReadsAreTheGrantees /\ ReadsAreConsented

\* A decision is final: what was granted is never longer than asked and is not
\* extended, moved or granted again; a denial or a revocation stays.
DecisionIsFinal ==
  [][\A g \in Grants :
       LET old == grant[g]
           new == grant'[g]
       IN Exists(g) /\ new # old =>
            /\ new.expires - new.starts <= old.hours
            /\ \/ old.status = "pending"
               \/ /\ old.status = "approved" /\ new.status = "revoked"
                  /\ new.starts = old.starts /\ new.expires = old.expires
                  /\ new.decider = old.decider]_grant
================================================================================
