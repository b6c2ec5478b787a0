-------------------------- MODULE SupportAccessProofs --------------------------
(***************************************************************************)
(* Proofs about support access grants, for any number of tenants,          *)
(* partners, users, tickets, grants and sessions and any bounds.           *)
(***************************************************************************)
EXTENDS SupportAccess, TLAPS

\* Who decided about a grant may have: the body of ReadsAreConsented.
Consented(row) ==
  IF row.kind = "break_glass"
  THEN row.decider \in Operators /\ row.expires = row.starts + 1
  ELSE \/ IsOwnerAdmin(row.decider, row.owner)
       \/ row.kind = "grant" /\ GrantingOwner(row.decider) = row.owner

\* What is stored of a grant agrees with itself: it is to somebody else than
\* the owner, only a request waits for a decision, its window is no longer than
\* asked, and a window that is open to anybody was consented to.
RowAgrees(row) ==
  /\ row.grantee # row.owner
  /\ row.status = "pending" => row.kind = "request"
  /\ row.expires <= row.starts + row.hours
  /\ row.starts < row.expires => Consented(row)

GrantsAgree == \A g \in Grants : Exists(g) => RowAgrees(grant[g])

\* User u was found to hold grant g at the moment "at", and the grant still
\* shows it: revoking it takes neither its window nor its grantee away.
WasActive(g, u, at) ==
  /\ grant[g].status \in {"approved", "revoked"}
  /\ grant[g].starts <= at /\ at < grant[g].expires
  /\ IsGranteeMember(u, grant[g].grantee)

\* A call names a grant that is there; one that passed its check passed it
\* with the grant as it is now, the reads of the log likewise.
CallsAreFounded ==
  \A s \in Sessions : call[s] # IdleCall =>
    /\ Exists(call[s].grant)
    /\ call[s].pc = "checked" => WasActive(call[s].grant, call[s].user, call[s].start)

LogIsFounded ==
  \A e \in events :
    /\ WasActive(e.grant, e.actor, e.at)
    /\ e.ticket # None => InScope(e.grant, e.ticket)

\* The inductive invariant.
AccessInv == TypeOK /\ GrantsAgree /\ CallsAreFounded /\ LogIsFounded

-------------------------------------------------------------------------------
(* Rows *)

\* A grant, or a call, is there exactly when it is well typed.
LEMMA GrantTyped ==
  ASSUME TypeOK, NEW g \in Grants
  PROVE  Exists(g) <=> grant[g] \in GrantRow
BY DEF TypeOK, Exists, GrantRow, NoGrant

LEMMA CallTyped ==
  ASSUME TypeOK, NEW s \in Sessions
  PROVE  call[s] # IdleCall <=> call[s] \in CallRow
BY DEF TypeOK, IdleCall, CallRow

\* A grant that is there stays, is never handed to somebody else, and keeps
\* the window it once had.
GrantKept(g) ==
  Exists(g) =>
    /\ Exists(g)'
    /\ grant'[g].owner = grant[g].owner
    /\ grant'[g].grantee = grant[g].grantee
    /\ grant'[g].ticket = grant[g].ticket
    /\ grant[g].status \in {"approved", "revoked"} =>
         /\ grant'[g].status \in {"approved", "revoked"}
         /\ grant'[g].starts = grant[g].starts
         /\ grant'[g].expires = grant[g].expires

\* What was active stays so seen.
LEMMA ActiveKept ==
  ASSUME NEW g, Exists(g), GrantKept(g), NEW u, NEW at, WasActive(g, u, at)
  PROVE  WasActive(g, u, at)'
BY DEF GrantKept, WasActive, IsGranteeMember

LEMMA ScopeKept ==
  ASSUME NEW g, Exists(g), GrantKept(g), NEW t, InScope(g, t)
  PROVE  InScope(g, t)'
BY DEF GrantKept, InScope

\* Only what exists was active.
LEMMA ActiveExists ==
  ASSUME NEW g, NEW u, NEW at, WasActive(g, u, at)
  PROVE  Exists(g)
BY DEF WasActive, Exists, NoGrant

-------------------------------------------------------------------------------
(* The inductive step: what is common to the actions *)

\* A step that only starts, ends or moves calls, logs founded reads and keeps
\* the grants preserves the invariant.
LEMMA FoundationsKept ==
  ASSUME AccessInv, TypeOK', GrantsAgree', \A g \in Grants : GrantKept(g),
         \A s \in Sessions : call'[s] # IdleCall =>
           \/ call'[s] = call[s]
           \/ /\ call'[s].grant \in Grants /\ Exists(call'[s].grant)
              /\ call'[s].pc = "checked" =>
                   WasActive(call'[s].grant, call'[s].user, call'[s].start),
         \A e \in events' : e \in events \/
           /\ e.grant \in Grants /\ WasActive(e.grant, e.actor, e.at)
           /\ e.ticket # None => InScope(e.grant, e.ticket)
  PROVE  AccessInv'
<1>1. CallsAreFounded'
  <2> SUFFICES ASSUME NEW s \in Sessions, call'[s] # IdleCall
               PROVE  /\ Exists(call[s].grant)'
                      /\ call'[s].pc = "checked" =>
                           WasActive(call[s].grant, call[s].user, call[s].start)'
    BY DEF CallsAreFounded
  <2>1. call'[s].grant \in Grants /\ Exists(call'[s].grant)
    BY CallTyped DEF AccessInv, CallsAreFounded, CallRow
  <2>2. PICK g \in Grants : g = call'[s].grant
    BY <2>1
  <2>3. Exists(g) /\ GrantKept(g) /\ grant'[g] # NoGrant
    BY <2>1, <2>2 DEF GrantKept, Exists
  <2>4. Exists(call[s].grant)'
    BY <2>2, <2>3 DEF Exists
  <2>5. ASSUME call'[s].pc = "checked"
        PROVE  WasActive(call[s].grant, call[s].user, call[s].start)'
    <3>1. WasActive(g, call'[s].user, call'[s].start)
      BY <2>2, <2>5, CallTyped DEF AccessInv, CallsAreFounded, CallRow
    <3> QED BY <2>2, <2>3, <3>1 DEF GrantKept, WasActive, IsGranteeMember
  <2> QED BY <2>4, <2>5
<1>2. LogIsFounded'
  <2> SUFFICES ASSUME NEW e \in events'
               PROVE  /\ WasActive(e.grant, e.actor, e.at)'
                      /\ e.ticket # None => InScope(e.grant, e.ticket)'
    BY DEF LogIsFounded
  <2>1. /\ e.grant \in Grants /\ WasActive(e.grant, e.actor, e.at)
        /\ e.ticket # None => InScope(e.grant, e.ticket)
    BY DEF AccessInv, TypeOK, LogIsFounded, EventRow
  <2>2. Exists(e.grant) /\ GrantKept(e.grant)
    BY <2>1, ActiveExists
  <2> QED BY <2>1, <2>2, ActiveKept, ScopeKept
<1> QED BY <1>1, <1>2 DEF AccessInv

\* Inserting a row that agrees with itself preserves the invariant.
LEMMA InsertKeepsInv ==
  ASSUME AccessInv, NEW g \in Grants, NEW row \in GrantRow, RowAgrees(row),
         Insert(g, row)
  PROVE  AccessInv'
<1>1. /\ grant \in [Grants -> GrantRow \cup {NoGrant}]
      /\ grant' = [grant EXCEPT ![g] = row]
      /\ ~Exists(g)
      /\ UNCHANGED <<manages, events, now, call>>
  BY DEF AccessInv, TypeOK, Insert
<1>2. TypeOK'
  BY <1>1 DEF AccessInv, TypeOK
<1>3. \A h \in Grants : GrantKept(h)
  BY <1>1 DEF GrantKept, Exists
<1>4. GrantsAgree'
  <2> SUFFICES ASSUME NEW h \in Grants, grant'[h] # NoGrant PROVE RowAgrees(grant'[h])
    BY DEF GrantsAgree, Exists, RowAgrees, Consented, IsOwnerAdmin, GrantingOwner
  <2> QED BY <1>1 DEF AccessInv, GrantsAgree, Exists
<1> QED BY <1>1, <1>2, <1>3, <1>4, FoundationsKept

-------------------------------------------------------------------------------
(* The inductive step: one lemma for each action *)

LEMMA RequestKeepsInv ==
  ASSUME AccessInv, NEW g \in Grants, NEW u \in Users, NEW owner \in Owners,
         NEW t \in Tickets \cup {None}, NEW hours \in Hours,
         Request(g, u, owner, t, hours)
  PROVE  AccessInv'
<1> DEFINE grantee == IF u \in Operators THEN Platform ELSE PartnerOf[u]
           row == [owner |-> owner, grantee |-> grantee, ticket |-> t,
                   kind |-> "request", status |-> "pending", hours |-> hours,
                   by |-> u, decider |-> None, starts |-> 0, expires |-> 0]
<1>1. grantee # None /\ (grantee \in Partners => owner \in Tenants) /\ Insert(g, row)
  BY DEF Request
<1>2. grantee \in Grantees
  BY <1>1, UsersAssumption DEF Grantees
<1>3. row \in GrantRow
  BY <1>2, LimitsAssumption DEF GrantRow, Hours
<1>4. grantee # owner
  BY <1>1, <1>2, NamesAssumption DEF Grantees, Owners
<1>5. RowAgrees(row)
  BY <1>4, LimitsAssumption DEF RowAgrees, Hours
<1> HIDE DEF row
<1> QED BY <1>1, <1>3, <1>5, InsertKeepsInv

LEMMA GrantAccessKeepsInv ==
  ASSUME AccessInv, NEW g \in Grants, NEW u \in Users, NEW grantee \in Grantees,
         NEW t \in Tickets \cup {None}, NEW hours \in Hours,
         GrantAccess(g, u, grantee, t, hours)
  PROVE  AccessInv'
<1> DEFINE owner == GrantingOwner(u)
           row == [owner |-> owner, grantee |-> grantee, ticket |-> t,
                   kind |-> "grant", status |-> "approved", hours |-> hours,
                   by |-> u, decider |-> u, starts |-> now,
                   expires |-> WindowEnd(now, hours)]
<1>1. /\ owner # None
      /\ grantee \in Partners => owner \in Tenants
      /\ Insert(g, row)
  BY DEF GrantAccess
<1>2. owner \in Owners
  BY <1>1, UsersAssumption DEF GrantingOwner, Owners
<1>3. now \in 0 .. MaxTime /\ hours \in 1 .. MaxHours
  BY DEF AccessInv, TypeOK, Hours
<1>4. WindowEnd(now, hours) \in 0 .. (MaxTime + MaxHours)
  BY <1>3, LimitsAssumption DEF WindowEnd
<1>5. row \in GrantRow
  BY <1>2, <1>3, <1>4 DEF GrantRow
<1>6. grantee # owner
  BY <1>1, <1>2, NamesAssumption DEF Grantees, Owners
<1>7. RowAgrees(row)
  BY <1>3, <1>6, LimitsAssumption DEF RowAgrees, Consented, WindowEnd
<1> HIDE DEF row
<1> QED BY <1>1, <1>5, <1>7, InsertKeepsInv

LEMMA BreakGlassKeepsInv ==
  ASSUME AccessInv, NEW g \in Grants, NEW u \in Users, NEW owner \in Owners,
         NEW t \in Tickets \cup {None}, BreakGlass(g, u, owner, t)
  PROVE  AccessInv'
<1> DEFINE row == [owner |-> owner, grantee |-> Platform, ticket |-> t,
                   kind |-> "break_glass", status |-> "approved", hours |-> 1,
                   by |-> u, decider |-> u, starts |-> now,
                   expires |-> WindowEnd(now, 1)]
<1>1. u \in Operators /\ Insert(g, row)
  BY DEF BreakGlass
<1>2. now \in 0 .. MaxTime
  BY DEF AccessInv, TypeOK
<1>3. row \in GrantRow
  BY <1>2, LimitsAssumption DEF GrantRow, Hours, Grantees, WindowEnd
<1>4. RowAgrees(row)
  BY <1>1, <1>2, LimitsAssumption, NamesAssumption DEF RowAgrees, Consented, WindowEnd
<1> HIDE DEF row
<1> QED BY <1>1, <1>3, <1>4, InsertKeepsInv

\* A transaction begins on a grant that is there, and has checked nothing yet.
LEMMA BeginKeepsInv ==
  ASSUME AccessInv, NEW s \in Sessions, NEW u \in Users, NEW g \in Grants,
         Begin(s, u, g)
  PROVE  AccessInv'
<1>1. PICK op \in {"approve", "deny", "revoke", "list", "read"},
           t \in Tickets \cup {None}, hours \in 0 .. MaxHours :
        BeginCall(s, op, u, g, t, hours)
  BY LimitsAssumption DEF Begin, Hours
<1> DEFINE c == [op |-> op, pc |-> "begun", user |-> u, grant |-> g, start |-> now,
                 hours |-> hours, ticket |-> t]
<1>2. /\ Exists(g)
      /\ call' = [call EXCEPT ![s] = c]
      /\ UNCHANGED <<manages, grant, events, now>>
  BY <1>1 DEF BeginCall
<1>3. c \in CallRow
  BY DEF CallRow, AccessInv, TypeOK
<1>4. TypeOK'
  BY <1>2, <1>3 DEF AccessInv, TypeOK
<1>5. GrantsAgree' /\ \A h \in Grants : GrantKept(h)
  BY <1>2 DEF AccessInv, GrantsAgree, GrantKept, Exists, RowAgrees, Consented,
              IsOwnerAdmin, GrantingOwner
<1>6. call'[s].grant \in Grants /\ Exists(call'[s].grant) /\ call'[s].pc # "checked"
  BY <1>2 DEF AccessInv, TypeOK
<1>7. \A r \in Sessions : r # s => call'[r] = call[r]
  BY <1>2 DEF AccessInv, TypeOK
<1> QED BY <1>2, <1>4, <1>5, <1>6, <1>7, FoundationsKept

\* A call that ends leaves the others as they are.
LEMMA EndCallTyped ==
  ASSUME TypeOK, NEW s \in Sessions, EndCall(s)
  PROVE  /\ call' \in [Sessions -> CallRow \cup {IdleCall}]
         /\ \A r \in Sessions : call'[r] # IdleCall => call'[r] = call[r]
BY DEF TypeOK, EndCall

\* A write to one grant by a call that then ends: what it must respect.
LEMMA WriteKeepsInv ==
  ASSUME AccessInv, NEW s \in Sessions, NEW g \in Grants, Exists(g),
         NEW row \in GrantRow, RowAgrees(row),
         grant' = [grant EXCEPT ![g] = row],
         row.owner = grant[g].owner, row.grantee = grant[g].grantee,
         row.ticket = grant[g].ticket,
         grant[g].status = "pending" \/
           /\ grant[g].status = "approved" /\ row.status = "revoked"
           /\ row.starts = grant[g].starts /\ row.expires = grant[g].expires,
         EndCall(s), UNCHANGED <<manages, events, now>>
  PROVE  AccessInv'
<1>1. grant \in [Grants -> GrantRow \cup {NoGrant}]
  BY DEF AccessInv, TypeOK
<1>2. TypeOK'
  BY <1>1, EndCallTyped DEF AccessInv, TypeOK
<1>3. \A h \in Grants : GrantKept(h)
  <2>1. GrantKept(g)
    BY <1>1 DEF GrantKept, Exists, GrantRow, NoGrant
  <2>2. ASSUME NEW h \in Grants, h # g PROVE GrantKept(h)
    BY <1>1, <2>2 DEF GrantKept, Exists
  <2> QED BY <2>1, <2>2
<1>4. GrantsAgree'
  <2> SUFFICES ASSUME NEW h \in Grants, grant'[h] # NoGrant PROVE RowAgrees(grant'[h])
    BY DEF GrantsAgree, Exists, RowAgrees, Consented, IsOwnerAdmin, GrantingOwner
  <2> QED BY <1>1 DEF AccessInv, GrantsAgree, Exists
<1> QED BY <1>2, <1>3, <1>4, EndCallTyped, FoundationsKept DEF AccessInv

\* A call that ends without a write.
LEMMA EndKeepsInv ==
  ASSUME AccessInv, NEW s \in Sessions, EndCall(s), UNCHANGED <<manages, grant, now>>,
         events' \subseteq EventRow,
         \A e \in events' : e \in events \/
           /\ WasActive(e.grant, e.actor, e.at)
           /\ e.ticket # None => InScope(e.grant, e.ticket)
  PROVE  AccessInv'
<1>1. TypeOK'
  BY EndCallTyped DEF AccessInv, TypeOK
<1>2. GrantsAgree' /\ \A h \in Grants : GrantKept(h)
  BY DEF AccessInv, GrantsAgree, GrantKept, Exists, RowAgrees, Consented, IsOwnerAdmin,
         GrantingOwner
<1>3. \A e \in events' : e.grant \in Grants
  BY DEF EventRow
<1> QED BY <1>1, <1>2, <1>3, EndCallTyped, FoundationsKept DEF AccessInv

\* What a call works on.
LEMMA CallFounded ==
  ASSUME AccessInv, NEW s \in Sessions, call[s].op # "none"
  PROVE  /\ call[s] \in CallRow
         /\ grant[call[s].grant] \in GrantRow
         /\ RowAgrees(grant[call[s].grant])
         /\ call[s].pc = "checked" => WasActive(call[s].grant, call[s].user, call[s].start)
<1>1. call[s] # IdleCall
  BY DEF IdleCall
<1>2. call[s] \in CallRow /\ call[s].grant \in Grants
  BY <1>1, CallTyped DEF AccessInv, CallRow
<1>3. Exists(call[s].grant)
  BY <1>1 DEF AccessInv, CallsAreFounded
<1> QED BY <1>1, <1>2, <1>3, GrantTyped DEF AccessInv, GrantsAgree, CallsAreFounded

\* The row a decision writes.
Approved(c) ==
  [grant[c.grant] EXCEPT !.status = "approved", !.decider = c.user,
                         !.starts = c.start, !.expires = WindowEnd(c.start, c.hours)]
Denied(c) == [grant[c.grant] EXCEPT !.status = "denied", !.decider = c.user]

\* Only a request can be decided, and the owner consents by deciding.
LEMMA DecisionsAgree ==
  ASSUME AccessInv, NEW s \in Sessions, call[s].op # "none"
  PROVE  /\ MayApprove(call[s]) =>
              Approved(call[s]) \in GrantRow /\ RowAgrees(Approved(call[s]))
         /\ MayDecide(call[s]) =>
              Denied(call[s]) \in GrantRow /\ RowAgrees(Denied(call[s]))
<1> DEFINE c == call[s]
           old == grant[c.grant]
<1>1. c \in CallRow /\ old \in GrantRow /\ RowAgrees(old)
  BY CallFounded
<1>2. ASSUME MayApprove(c) PROVE Approved(c) \in GrantRow /\ RowAgrees(Approved(c))
  <2>1. old.status = "pending" /\ IsOwnerAdmin(c.user, old.owner) /\ c.hours \in 1 .. old.hours
    BY <1>2 DEF MayApprove, MayDecide
  <2>2. c.start \in 0 .. MaxTime /\ c.user \in Users /\ old.hours \in 1 .. MaxHours
    BY <1>1 DEF CallRow, GrantRow, Hours
  <2>3. WindowEnd(c.start, c.hours) \in 0 .. (MaxTime + MaxHours)
    BY <2>1, <2>2, LimitsAssumption DEF WindowEnd
  <2>4. Approved(c) \in GrantRow
    BY <1>1, <2>2, <2>3 DEF Approved, GrantRow
  <2>5. /\ Approved(c).kind = "request" /\ Approved(c).status = "approved"
        /\ Approved(c).owner = old.owner /\ Approved(c).grantee = old.grantee
        /\ Approved(c).decider = c.user /\ Approved(c).starts = c.start
        /\ Approved(c).hours = old.hours
        /\ Approved(c).expires = c.start + c.hours
    BY <1>1, <2>1 DEF Approved, GrantRow, RowAgrees, WindowEnd
  <2> QED BY <1>1, <2>1, <2>2, <2>4, <2>5, LimitsAssumption DEF RowAgrees, Consented
<1>3. ASSUME MayDecide(c) PROVE Denied(c) \in GrantRow /\ RowAgrees(Denied(c))
  <2>1. old.status = "pending" /\ IsOwnerAdmin(c.user, old.owner)
    BY <1>3 DEF MayDecide
  <2>2. Denied(c) \in GrantRow
    BY <1>1 DEF Denied, GrantRow, CallRow
  <2>3. /\ Denied(c).kind = "request" /\ Denied(c).status = "denied"
        /\ Denied(c).owner = old.owner /\ Denied(c).grantee = old.grantee
        /\ Denied(c).decider = c.user /\ Denied(c).starts = old.starts
        /\ Denied(c).hours = old.hours /\ Denied(c).expires = old.expires
    BY <1>1, <2>1 DEF Denied, GrantRow, RowAgrees
  <2> QED BY <1>1, <2>1, <2>2, <2>3 DEF RowAgrees, Consented
<1> QED BY <1>2, <1>3

LEMMA DecideKeepsInv ==
  ASSUME AccessInv, NEW s \in Sessions, Decide(s)
  PROVE  AccessInv'
<1> DEFINE c == call[s]
<1>1. /\ c.op \in {"approve", "deny"}
      /\ EndCall(s) /\ UNCHANGED <<manages, events, now>>
  BY DEF Decide
<1>2. /\ c.grant \in Grants /\ Exists(c.grant)
      /\ grant[c.grant] \in GrantRow
  BY <1>1, CallFounded, GrantTyped DEF AccessInv, CallRow
<1>3. CASE MayApprove(c) /\ grant' = [grant EXCEPT ![c.grant] = Approved(c)]
  <2>1. Approved(c) \in GrantRow /\ RowAgrees(Approved(c)) /\ grant[c.grant].status = "pending"
    BY <1>1, <1>3, DecisionsAgree DEF MayApprove, MayDecide
  <2>2. /\ Approved(c).owner = grant[c.grant].owner
        /\ Approved(c).grantee = grant[c.grant].grantee
        /\ Approved(c).ticket = grant[c.grant].ticket
    BY <1>2 DEF Approved, GrantRow
  <2> QED BY <1>1, <1>2, <1>3, <2>1, <2>2, WriteKeepsInv
<1>4. CASE MayDecide(c) /\ grant' = [grant EXCEPT ![c.grant] = Denied(c)]
  <2>1. Denied(c) \in GrantRow /\ RowAgrees(Denied(c)) /\ grant[c.grant].status = "pending"
    BY <1>1, <1>4, DecisionsAgree DEF MayDecide
  <2>2. /\ Denied(c).owner = grant[c.grant].owner
        /\ Denied(c).grantee = grant[c.grant].grantee
        /\ Denied(c).ticket = grant[c.grant].ticket
    BY <1>2 DEF Denied, GrantRow
  <2> QED BY <1>1, <1>2, <1>4, <2>1, <2>2, WriteKeepsInv
<1>5. CASE UNCHANGED grant
  BY <1>1, <1>5, EndKeepsInv DEF AccessInv, TypeOK
<1> QED BY <1>3, <1>4, <1>5 DEF Decide, Approved, Denied

LEMMA RevokeKeepsInv ==
  ASSUME AccessInv, NEW s \in Sessions, Revoke(s)
  PROVE  AccessInv'
<1> DEFINE c == call[s]
           old == grant[c.grant]
           row == [old EXCEPT !.status = "revoked"]
<1>1. c.op = "revoke" /\ EndCall(s) /\ UNCHANGED <<manages, events, now>>
  BY DEF Revoke
<1>2. /\ c.grant \in Grants /\ Exists(c.grant)
      /\ old \in GrantRow /\ RowAgrees(old)
  BY <1>1, CallFounded, GrantTyped DEF AccessInv, CallRow
<1>3. CASE MayRevoke(c) /\ grant' = [grant EXCEPT ![c.grant] = row]
  <2>1. row \in GrantRow /\ row.status = "revoked"
    BY <1>2 DEF GrantRow
  <2>2. /\ row.owner = old.owner /\ row.grantee = old.grantee /\ row.ticket = old.ticket
        /\ row.kind = old.kind /\ row.decider = old.decider /\ row.hours = old.hours
        /\ row.starts = old.starts /\ row.expires = old.expires
    BY <1>2 DEF GrantRow
  <2>3. RowAgrees(row)
    BY <1>2, <2>1, <2>2 DEF RowAgrees, Consented
  <2>4. old.status \in {"pending", "approved"}
    BY <1>3 DEF MayRevoke
  <2> HIDE DEF row
  <2> QED BY <1>1, <1>2, <1>3, <2>1, <2>2, <2>3, <2>4, WriteKeepsInv
<1>4. CASE UNCHANGED grant
  BY <1>1, <1>4, EndKeepsInv DEF AccessInv, TypeOK
<1> QED BY <1>3, <1>4 DEF Revoke

\* The check of a read: it holds at the moment the transaction began.
LEMMA CheckKeepsInv ==
  ASSUME AccessInv, NEW s \in Sessions, CheckGrant(s)
  PROVE  AccessInv'
<1> DEFINE c == call[s]
<1>1. c.op \in {"list", "read"} /\ UNCHANGED <<manages, grant, events, now>>
  BY DEF CheckGrant
<1>2. c \in CallRow /\ c.grant \in Grants /\ Exists(c.grant)
  BY <1>1, CallFounded, GrantTyped DEF AccessInv, CallRow
<1>3. CASE EndCall(s)
  BY <1>1, <1>3, EndKeepsInv DEF AccessInv, TypeOK
<1>4. CASE IsActive(c.grant, c.user, c.start) /\ call' = [call EXCEPT ![s].pc = "checked"]
  <2>1. call \in [Sessions -> CallRow \cup {IdleCall}]
    BY DEF AccessInv, TypeOK
  <2>2. WasActive(c.grant, c.user, c.start)
    BY <1>4 DEF IsActive, WasActive
  <2>3. /\ call'[s] \in CallRow
        /\ call'[s].grant = c.grant /\ call'[s].user = c.user /\ call'[s].start = c.start
    BY <1>2, <1>4, <2>1 DEF CallRow
  <2>4. \A r \in Sessions : r # s => call'[r] = call[r]
    BY <1>4, <2>1
  <2>5. TypeOK'
    BY <1>1, <1>4, <2>1, <2>3 DEF AccessInv, TypeOK, CallRow
  <2>6. GrantsAgree' /\ \A h \in Grants : GrantKept(h)
    BY <1>1 DEF AccessInv, GrantsAgree, GrantKept, Exists, RowAgrees, Consented,
                IsOwnerAdmin, GrantingOwner
  <2> QED BY <1>1, <1>2, <2>2, <2>3, <2>4, <2>5, <2>6, FoundationsKept
<1> QED BY <1>3, <1>4 DEF CheckGrant

\* A read that passed its check logs what the check found; a single ticket
\* only within the grant's scope.
LEMMA ReadsKeepInv ==
  ASSUME AccessInv, NEW s \in Sessions, ListTickets(s) \/ ReadTicket(s)
  PROVE  AccessInv'
<1> DEFINE c == call[s]
           Entry(t) == [grant |-> c.grant, actor |-> c.user, ticket |-> t, at |-> c.start]
<1>1. PICK t \in Tickets \cup {None} :
        /\ c.op \in {"list", "read"} /\ c.pc = "checked"
        /\ events' = events \cup {Entry(t)} \/ UNCHANGED events
        /\ t # None /\ events' # events => InScope(c.grant, t)
        /\ EndCall(s) /\ UNCHANGED <<manages, grant, now>>
  <2>1. CASE ListTickets(s)
    BY <2>1 DEF ListTickets, Log
  <2>2. CASE ReadTicket(s)
    <3>1. c.op = "read" /\ c \in CallRow
      BY <2>2, CallFounded DEF ReadTicket
    <3>2. c.ticket \in Tickets \cup {None}
      BY <3>1 DEF CallRow
    <3> QED BY <2>2, <3>2 DEF ReadTicket, Log
  <2> QED BY <2>1, <2>2
<1>2. c \in CallRow /\ WasActive(c.grant, c.user, c.start)
  BY <1>1, CallFounded
<1>3. CASE UNCHANGED events
  BY <1>1, <1>3, EndKeepsInv DEF AccessInv, TypeOK
<1>4. CASE events' = events \cup {Entry(t)} /\ events' # events
  <2>1. Entry(t) \in EventRow
    BY <1>2 DEF CallRow, EventRow
  <2>2. events' \subseteq EventRow
    BY <1>4, <2>1 DEF AccessInv, TypeOK
  <2>3. /\ WasActive(Entry(t).grant, Entry(t).actor, Entry(t).at)
        /\ Entry(t).ticket # None => InScope(Entry(t).grant, Entry(t).ticket)
    BY <1>1, <1>2, <1>4
  <2> HIDE DEF Entry
  <2> QED BY <1>1, <1>4, <2>2, <2>3, EndKeepsInv
<1> QED BY <1>1, <1>3, <1>4

\* The clock and the partners take no part: a window is kept as it was, and who
\* manages a tenant is looked at by the check alone.
LEMMA EnvironmentKeepsInv ==
  ASSUME AccessInv, UNCHANGED <<grant, events, call>>,
         \/ UNCHANGED <<manages, now>>
         \/ Tick
         \/ \E n \in Tenants, p \in Partners \cup {None} : PartnerChanges(n, p)
  PROVE  AccessInv'
<1>1. TypeOK'
  BY LimitsAssumption DEF AccessInv, TypeOK, Tick, PartnerChanges
<1>2. GrantsAgree' /\ \A h \in Grants : GrantKept(h)
  BY DEF AccessInv, GrantsAgree, GrantKept, Exists, RowAgrees, Consented, IsOwnerAdmin,
         GrantingOwner
<1> QED BY <1>1, <1>2, FoundationsKept

-------------------------------------------------------------------------------
(* The invariant, and what follows from it *)

LEMMA AccessInvHolds == Spec => []AccessInv
<1>1. Init => AccessInv
  BY LimitsAssumption
     DEF Init, AccessInv, TypeOK, GrantsAgree, CallsAreFounded, LogIsFounded, Exists
<1>2. AccessInv /\ [Next]_vars => AccessInv'
  <2> SUFFICES ASSUME AccessInv, [Next]_vars PROVE AccessInv'
    OBVIOUS
  <2>1. ASSUME NEW g \in Grants, NEW u \in Users, File(g, u) PROVE AccessInv'
    BY <2>1, RequestKeepsInv, GrantAccessKeepsInv, BreakGlassKeepsInv DEF File
  <2>2. ASSUME NEW s \in Sessions, Decide(s) \/ Revoke(s) PROVE AccessInv'
    BY <2>2, DecideKeepsInv, RevokeKeepsInv
  <2>3. ASSUME NEW s \in Sessions, CheckGrant(s) \/ ListTickets(s) \/ ReadTicket(s)
        PROVE  AccessInv'
    BY <2>3, CheckKeepsInv, ReadsKeepInv
  <2>4. CASE Tick
    BY <2>4, EnvironmentKeepsInv DEF Tick
  <2>5. CASE \E n \in Tenants, p \in Partners \cup {None} : PartnerChanges(n, p)
    BY <2>5, EnvironmentKeepsInv DEF PartnerChanges
  <2>6. CASE UNCHANGED vars
    BY <2>6, EnvironmentKeepsInv DEF vars
  <2> QED BY <2>1, <2>2, <2>3, <2>4, <2>5, <2>6, BeginKeepsInv DEF Next
<1> QED BY <1>1, <1>2, PTL DEF Spec

\* Whatever reads, decisions, revocations, changes of partner and the clock
\* interleave: every read the log records was in its grant's window, the
\* grantee's own, within the scope, of another's queue, and consented by the
\* owner or under broken glass (20260924120000_support_access_grants.sql).
THEOREM ReadsStayAllowed == Spec => []ReadsAreAllowed
<1>1. AccessInv => ReadsAreAllowed
  <2> SUFFICES ASSUME AccessInv PROVE ReadsInWindow /\ ReadsAreTheGrantees /\ ReadsAreConsented
    BY DEF AccessInv, ReadsAreAllowed
  <2>1. \A e \in events :
          /\ e.at \in 0 .. MaxTime
          /\ WasActive(e.grant, e.actor, e.at)
          /\ e.ticket # None => InScope(e.grant, e.ticket)
          /\ grant[e.grant] \in GrantRow /\ RowAgrees(grant[e.grant])
    BY ActiveExists, GrantTyped DEF AccessInv, TypeOK, LogIsFounded, GrantsAgree, EventRow
  <2>2. ReadsInWindow
    BY <2>1 DEF ReadsInWindow, WasActive
  <2>3. ReadsAreTheGrantees
    BY <2>1 DEF ReadsAreTheGrantees, WasActive, RowAgrees
  <2>4. ReadsAreConsented
    <3>1. \A e \in events : grant[e.grant].starts < grant[e.grant].expires
      BY <2>1, LimitsAssumption DEF WasActive, GrantRow
    <3> QED BY <2>1, <3>1 DEF ReadsAreConsented, RowAgrees, Consented
  <2> QED BY <2>2, <2>3, <2>4
<1> QED BY <1>1, AccessInvHolds, PTL

\* What a step may do to grant g: the body of DecisionIsFinal.
FinalAt(g) ==
  Exists(g) /\ grant'[g] # grant[g] =>
    /\ grant'[g].expires - grant'[g].starts <= grant[g].hours
    /\ \/ grant[g].status = "pending"
       \/ /\ grant[g].status = "approved" /\ grant'[g].status = "revoked"
          /\ grant'[g].starts = grant[g].starts /\ grant'[g].expires = grant[g].expires
          /\ grant'[g].decider = grant[g].decider

\* A decision or a revocation touches the grant of its call alone.
LEMMA DecideIsFinal ==
  ASSUME AccessInv, NEW s \in Sessions, Decide(s), NEW g \in Grants
  PROVE  FinalAt(g)
<1> DEFINE c == call[s]
           old == grant[c.grant]
<1>1. /\ c \in CallRow /\ old \in GrantRow /\ RowAgrees(old)
      /\ grant \in [Grants -> GrantRow \cup {NoGrant}]
  BY CallFounded DEF Decide, AccessInv, TypeOK
<1>2. c.grant \in Grants /\ c.start \in Nat /\ old.starts \in Int /\ old.expires \in Int
      /\ old.hours \in Int
  BY <1>1, LimitsAssumption DEF CallRow, GrantRow, Hours
<1>3. CASE MayApprove(c) /\ grant' = [grant EXCEPT ![c.grant] = Approved(c)]
  <2>1. old.status = "pending" /\ c.hours \in 1 .. old.hours
    BY <1>3 DEF MayApprove, MayDecide
  <2>2. Approved(c).starts = c.start /\ Approved(c).expires = c.start + c.hours
    BY <1>1 DEF Approved, GrantRow, WindowEnd
  <2>3. Approved(c).expires - Approved(c).starts <= old.hours
    BY <1>2, <2>1, <2>2
  <2> QED BY <1>1, <1>2, <1>3, <2>1, <2>3 DEF FinalAt
<1>4. CASE MayDecide(c) /\ grant' = [grant EXCEPT ![c.grant] = Denied(c)]
  <2>1. old.status = "pending"
    BY <1>4 DEF MayDecide
  <2>2. Denied(c).starts = old.starts /\ Denied(c).expires = old.expires
    BY <1>1 DEF Denied, GrantRow
  <2>3. Denied(c).expires - Denied(c).starts <= old.hours
    BY <1>1, <1>2, <2>2 DEF RowAgrees
  <2> QED BY <1>1, <1>2, <1>4, <2>1, <2>3 DEF FinalAt
<1>5. CASE UNCHANGED grant
  BY <1>5 DEF FinalAt
<1> QED BY <1>3, <1>4, <1>5 DEF Decide, Approved, Denied

LEMMA RevokeIsFinal ==
  ASSUME AccessInv, NEW s \in Sessions, Revoke(s), NEW g \in Grants
  PROVE  FinalAt(g)
<1> DEFINE c == call[s]
           old == grant[c.grant]
           row == [old EXCEPT !.status = "revoked"]
<1>1. /\ c \in CallRow /\ old \in GrantRow /\ RowAgrees(old)
      /\ grant \in [Grants -> GrantRow \cup {NoGrant}]
  BY CallFounded DEF Revoke, AccessInv, TypeOK
<1>2. c.grant \in Grants /\ old.starts \in Int /\ old.expires \in Int /\ old.hours \in Int
  BY <1>1, LimitsAssumption DEF CallRow, GrantRow, Hours
<1>3. CASE MayRevoke(c) /\ grant' = [grant EXCEPT ![c.grant] = row]
  <2>1. old.status \in {"pending", "approved"}
    BY <1>3 DEF MayRevoke
  <2>2. /\ row.status = "revoked" /\ row.decider = old.decider
        /\ row.starts = old.starts /\ row.expires = old.expires
    BY <1>1 DEF GrantRow
  <2>3. row.expires - row.starts <= old.hours
    BY <1>1, <1>2, <2>2 DEF RowAgrees
  <2> HIDE DEF row
  <2> QED BY <1>1, <1>2, <1>3, <2>1, <2>2, <2>3 DEF FinalAt
<1>4. CASE UNCHANGED grant
  BY <1>4 DEF FinalAt
<1> QED BY <1>3, <1>4 DEF Revoke

\* A decision is final: nothing granted is longer than was asked, extended,
\* moved or granted again, and a denial or a revocation stays
\* (support_access_decide and support_access_revoke lock the grant first).
THEOREM DecisionsAreFinal == Spec => DecisionIsFinal
<1>1. AccessInv /\ [Next]_vars => \A g \in Grants : FinalAt(g)
  <2> SUFFICES ASSUME AccessInv, [Next]_vars, NEW g \in Grants PROVE FinalAt(g)
    OBVIOUS
  <2>1. ASSUME NEW h \in Grants, NEW u \in Users, File(h, u) PROVE FinalAt(g)
    BY <2>1 DEF File, Request, GrantAccess, BreakGlass, Insert, FinalAt, Exists, AccessInv, TypeOK
  <2>2. CASE UNCHANGED grant
    BY <2>2 DEF FinalAt
  <2>3. ASSUME NEW s \in Sessions, Decide(s) \/ Revoke(s) PROVE FinalAt(g)
    BY <2>3, DecideIsFinal, RevokeIsFinal
  <2> QED BY <2>1, <2>2, <2>3
       DEF Next, Tick, PartnerChanges, Begin, BeginCall, CheckGrant, ListTickets, ReadTicket,
           vars
<1>2. AccessInv /\ [Next]_vars =>
        [\A g \in Grants :
           LET old == grant[g]
               new == grant'[g]
           IN Exists(g) /\ new # old =>
                /\ new.expires - new.starts <= old.hours
                /\ \/ old.status = "pending"
                   \/ /\ old.status = "approved" /\ new.status = "revoked"
                      /\ new.starts = old.starts /\ new.expires = old.expires
                      /\ new.decider = old.decider]_grant
  BY <1>1 DEF FinalAt
<1> QED BY <1>2, AccessInvHolds, PTL DEF Spec, DecisionIsFinal
================================================================================
