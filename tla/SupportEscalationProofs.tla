------------------------ MODULE SupportEscalationProofs ------------------------
(***************************************************************************)
(* Proofs about the support escalation chain, for any number of tickets,   *)
(* owners and sessions: what its rows keep, that the workflow implements   *)
(* the abstract ledger of escalations, and that of all steps only the save *)
(* of a call that was overtaken undoes what happened meanwhile: all others *)
(* keep tickets and escalations in step.                                   *)
(***************************************************************************)
EXTENDS TicketRaces, TLAPS

\* A call works on a ticket that exists.
CallsHoldRows ==
  \A s \in Sessions : sess[s] # Idle => Exists(sess[s].on)

\* An escalation is named by a ticket that exists, the one created for it.
LinksNameRows ==
  \A l \in Tickets : esc[l] # NoLink => Exists(l)

\* The inductive invariant.
RowsInv == TypeOK /\ CallsHoldRows /\ LinksNameRows /\ EscalationAscends

-------------------------------------------------------------------------------
(* Rows *)

\* A row is there exactly when it is well typed.
LEMMA RowTyped ==
  ASSUME TypeOK, NEW t \in Tickets
  PROVE  Exists(t) <=> ticket[t] \in TicketRow
BY DEF TypeOK, Exists, Status, TicketRow, NoTicket, TicketStatusSet

\* A link is there exactly when it is well typed.
LEMMA LinkTyped ==
  ASSUME TypeOK, NEW l \in Tickets
  PROVE  /\ esc[l] # NoLink <=> esc[l] \in LinkRow
         /\ Active(l) => esc[l] \in LinkRow
BY DEF TypeOK, Active, LinkRow, NoLink, LinkState

\* A session is idle exactly when it holds no call.
LEMMA CallTyped ==
  ASSUME TypeOK, NEW s \in Sessions
  PROVE  sess[s] # Idle <=> sess[s] \in Call
BY DEF TypeOK, Idle, Call

\* Writing a status into an existing row keeps the type of the table and
\* loses no row, and changes no owner.
LEMMA SetStatusKeepsRows ==
  ASSUME TypeOK, NEW t \in Tickets, Exists(t),
         NEW status \in TicketStatusSet,
         ticket' = SetStatus(t, status)
  PROVE  /\ ticket' \in [Tickets -> TicketRow \cup {NoTicket}]
         /\ \A u \in Tickets : Exists(u) => Exists(u)' /\ ticket'[u].owner = ticket[u].owner
<1>1. ticket[t] \in TicketRow
  BY RowTyped
<1>2. ticket \in [Tickets -> TicketRow \cup {NoTicket}]
  BY DEF TypeOK
<1>3. ticket' = [ticket EXCEPT ![t] = [ticket[t] EXCEPT !.status = status]]
  BY <1>2 DEF SetStatus
<1>4. [ticket[t] EXCEPT !.status = status] \in TicketRow
  BY <1>1 DEF TicketRow
<1>5. \A u \in Tickets : Exists(u) => Exists(u)' /\ ticket'[u].owner = ticket[u].owner
  <2> SUFFICES ASSUME NEW u \in Tickets, Exists(u)
               PROVE  Exists(u)' /\ ticket'[u].owner = ticket[u].owner
    OBVIOUS
  <2>1. CASE u = t
    BY <2>1, <1>1, <1>2, <1>3 DEF TicketRow, Exists, Status, TicketStatusSet
  <2>2. CASE u # t
    BY <2>2, <1>2, <1>3 DEF Exists, Status
  <2> QED BY <2>1, <2>2
<1> QED BY <1>2, <1>3, <1>4, <1>5

\* Moving a session on, or setting it idle, keeps the sessions' types and the
\* tickets their calls work on.
LEMMA SessionsMove ==
  ASSUME TypeOK, NEW s \in Sessions,
         \/ Finish(s)
         \/ /\ sess[s] # Idle
            /\ \E pc \in {"listLinks", "save", "handBack", "withdraw"},
                 plan \in SUBSET Tickets : GoTo(s, pc, plan)
  PROVE  /\ sess' \in [Sessions -> Call \cup {Idle}]
         /\ \A r \in Sessions : sess'[r] # Idle =>
              sess[r] # Idle /\ sess'[r].on = sess[r].on
<1>1. CASE Finish(s)
  BY <1>1 DEF Finish, TypeOK
<1>2. ASSUME NEW pc \in {"listLinks", "save", "handBack", "withdraw"},
             NEW plan \in SUBSET Tickets,
             sess[s] # Idle, GoTo(s, pc, plan)
      PROVE  /\ sess' \in [Sessions -> Call \cup {Idle}]
             /\ \A r \in Sessions : sess'[r] # Idle =>
                  sess[r] # Idle /\ sess'[r].on = sess[r].on
  <2> DEFINE c == [sess[s] EXCEPT !.pc = pc, !.plan = plan]
  <2>1. sess[s] \in Call
    BY <1>2, CallTyped
  <2>2. c \in Call /\ c.on = sess[s].on
    BY <2>1 DEF Call
  <2>3. sess' = [sess EXCEPT ![s] = c]
    BY <1>2 DEF GoTo
  <2>4. sess \in [Sessions -> Call \cup {Idle}]
    BY DEF TypeOK
  <2> HIDE DEF c
  <2> QED BY <1>2, <2>2, <2>3, <2>4
<1> QED BY <1>1, <1>2

-------------------------------------------------------------------------------
(* The inductive step *)

\* A step that keeps every row with its owner, keeps the ends of every link
\* and starts no call on a missing row preserves the invariant.
LEMMA RowsInvKept ==
  ASSUME RowsInv, TypeOK',
         \A t \in Tickets : Exists(t) =>
           Exists(t)' /\ ticket'[t].owner = ticket[t].owner,
         \A l \in Tickets : esc'[l] # NoLink =>
           /\ esc[l] # NoLink
           /\ esc'[l].from = esc[l].from /\ esc'[l].to = esc[l].to,
         \A s \in Sessions : sess'[s] # Idle =>
           \/ sess[s] # Idle /\ sess'[s].on = sess[s].on
           \/ sess'[s].on \in Tickets /\ Exists(sess'[s].on)
  PROVE  RowsInv'
<1>1. CallsHoldRows'
  <2> SUFFICES ASSUME NEW s \in Sessions, sess'[s] # Idle
               PROVE  (Exists(sess[s].on))'
    BY DEF CallsHoldRows
  <2>1. CASE sess[s] # Idle /\ sess'[s].on = sess[s].on
    <3>1. sess[s].on \in Tickets
      BY <2>1, CallTyped DEF RowsInv, Call
    <3>2. Exists(sess[s].on)
      BY <2>1 DEF RowsInv, CallsHoldRows
    <3> QED BY <2>1, <3>1, <3>2 DEF Exists, Status
  <2>2. CASE sess'[s].on \in Tickets /\ Exists(sess'[s].on)
    BY <2>2 DEF Exists, Status
  <2> QED BY <2>1, <2>2
<1>2. LinksNameRows'
  BY DEF RowsInv, LinksNameRows, Exists, Status
<1>3. EscalationAscends'
  <2> SUFFICES ASSUME NEW l \in Tickets, esc'[l] # NoLink
               PROVE  /\ Exists(esc[l].from)' /\ Exists(esc[l].to)'
                      /\ Rank(ticket[esc[l].from].owner)' < Rank(ticket[esc[l].to].owner)'
    BY DEF EscalationAscends
  <2>1. esc[l] # NoLink /\ esc'[l].from = esc[l].from /\ esc'[l].to = esc[l].to
    OBVIOUS
  <2>2. esc[l].from \in Tickets /\ esc[l].to \in Tickets
    BY <2>1, LinkTyped DEF RowsInv, LinkRow
  <2>3. Exists(esc[l].from) /\ Exists(esc[l].to)
        /\ Rank(ticket[esc[l].from].owner) < Rank(ticket[esc[l].to].owner)
    BY <2>1 DEF RowsInv, EscalationAscends
  <2> QED BY <2>1, <2>2, <2>3 DEF Exists, Status, Rank
<1> QED BY <1>1, <1>2, <1>3 DEF RowsInv

\* A step of a session that leaves the rows alone.
LEMMA SessionOnlyStep ==
  ASSUME RowsInv, NEW s \in Sessions, UNCHANGED rows,
         \/ Finish(s)
         \/ /\ sess[s] # Idle
            /\ \E pc \in {"listLinks", "save", "handBack", "withdraw"},
                 plan \in SUBSET Tickets : GoTo(s, pc, plan)
  PROVE  RowsInv'
<1>1. TypeOK
  BY DEF RowsInv
<1>2. /\ sess' \in [Sessions -> Call \cup {Idle}]
      /\ \A r \in Sessions : sess'[r] # Idle =>
           sess[r] # Idle /\ sess'[r].on = sess[r].on
  BY <1>1, SessionsMove
<1>3. TypeOK'
  BY <1>1, <1>2 DEF TypeOK, rows
<1> QED BY <1>2, <1>3, RowsInvKept DEF rows, Exists, Status

\* Every call starts on a row that is there.
LEMMA StartStep ==
  ASSUME RowsInv, NEW s \in Sessions, NEW t \in Tickets,
         NEW op \in {"update", "resolve", "return", "withdraw"},
         NEW put \in TicketStatusSet, NEW pc \in {"listLinks", "save"},
         Start(s, op, t, put, pc)
  PROVE  RowsInv'
<1> DEFINE c == [op |-> op, pc |-> pc, on |-> t, row |-> Status(t),
                 put |-> put, plan |-> {}]
<1>1. TypeOK /\ Exists(t) /\ UNCHANGED rows
  BY DEF RowsInv, Start
<1>2. Status(t) \in TicketStatusSet
  BY <1>1, RowTyped DEF TicketRow, Status
<1>3. c \in Call /\ c.on = t
  BY <1>2 DEF Call
<1>4. sess' = [sess EXCEPT ![s] = c]
  BY DEF Start
<1>5. sess \in [Sessions -> Call \cup {Idle}]
  BY <1>1 DEF TypeOK
<1> HIDE DEF c
<1>6. TypeOK'
  BY <1>1, <1>3, <1>4, <1>5 DEF TypeOK, rows
<1>7. \A r \in Sessions : sess'[r] # Idle =>
        \/ sess[r] # Idle /\ sess'[r].on = sess[r].on
        \/ sess'[r].on \in Tickets /\ Exists(sess'[r].on)
  BY <1>1, <1>3, <1>4, <1>5
<1> QED BY <1>1, <1>6, <1>7, RowsInvKept DEF rows, Exists, Status

\* Filing a ticket adds a row of its own.
LEMMA CreateTicketStep ==
  ASSUME RowsInv, NEW s \in Sessions, NEW t \in Tickets, NEW o \in Filers,
         CreateTicket(s, t, o)
  PROVE  RowsInv'
<1> DEFINE row == [status |-> "open", owner |-> o, outsider |-> o \in Tenants]
<1>1. TypeOK /\ ticket' = [ticket EXCEPT ![t] = row]
      /\ UNCHANGED <<partnerOf, esc, merged, sess>> /\ ~Exists(t)
  BY DEF RowsInv, CreateTicket
<1>2. row \in TicketRow /\ row.status = "open"
  BY BoundsAssumption DEF TicketRow, TicketStatusSet, Owners
<1> HIDE DEF row
<1>3. TypeOK'
  BY <1>1, <1>2 DEF TypeOK
<1>4. \A u \in Tickets : Exists(u) =>
        Exists(u)' /\ ticket'[u].owner = ticket[u].owner
  BY <1>1 DEF TypeOK, Exists, Status
<1> QED BY <1>1, <1>3, <1>4, RowsInvKept

\* A direct update by the requester writes a status.
LEMMA RequesterUpdateStep ==
  ASSUME RowsInv, NEW s \in Sessions, NEW t \in Tickets,
         NEW status \in TicketStatusSet, RequesterUpdate(s, t, status)
  PROVE  RowsInv'
<1>1. TypeOK /\ Exists(t) /\ ticket' = SetStatus(t, status)
      /\ UNCHANGED <<partnerOf, esc, merged, sess>>
  BY DEF RowsInv, RequesterUpdate, Exists
<1>2. /\ ticket' \in [Tickets -> TicketRow \cup {NoTicket}]
      /\ \A u \in Tickets : Exists(u) => Exists(u)' /\ ticket'[u].owner = ticket[u].owner
  BY <1>1, SetStatusKeepsRows
<1>3. TypeOK'
  BY <1>1, <1>2 DEF TypeOK
<1> QED BY <1>1, <1>2, <1>3, RowsInvKept

\* saveTicket writes the row its call read.
LEMMA SaveStep ==
  ASSUME RowsInv, NEW s \in Sessions, Save(s)
  PROVE  RowsInv'
<1>1. TypeOK /\ sess[s] # Idle /\ UNCHANGED <<partnerOf, esc, merged>>
      /\ ticket' = SetStatus(sess[s].on, sess[s].put)
  BY DEF RowsInv, Save, Idle
<1>2. sess[s] \in Call
  BY <1>1, CallTyped
<1>3. sess[s].on \in Tickets /\ sess[s].put \in TicketStatusSet
      /\ sess[s].plan \in SUBSET Tickets
  BY <1>2 DEF Call
<1>4. Exists(sess[s].on)
  BY <1>1 DEF RowsInv, CallsHoldRows
<1>5. /\ ticket' \in [Tickets -> TicketRow \cup {NoTicket}]
      /\ \A u \in Tickets : Exists(u) => Exists(u)' /\ ticket'[u].owner = ticket[u].owner
  BY <1>1, <1>3, <1>4, SetStatusKeepsRows
<1>6. Finish(s) \/ GoTo(s, "handBack", sess[s].plan)
  BY DEF Save
<1>7. /\ sess' \in [Sessions -> Call \cup {Idle}]
      /\ \A r \in Sessions : sess'[r] # Idle =>
           sess[r] # Idle /\ sess'[r].on = sess[r].on
  BY <1>1, <1>3, <1>6, SessionsMove
<1>8. TypeOK'
  BY <1>1, <1>5, <1>7 DEF TypeOK
<1> QED BY <1>1, <1>5, <1>7, <1>8, RowsInvKept

\* A hand-back ends links and resumes tickets, all of them rows that are there.
LEMMA HandBackStep ==
  ASSUME RowsInv, NEW s \in Sessions, HandBack(s)
  PROVE  RowsInv'
<1> DEFINE plan == sess[s].plan
           moving == Resumed(plan)
<1>1. TypeOK /\ sess[s] # Idle /\ UNCHANGED <<partnerOf, merged>> /\ Finish(s)
  BY DEF RowsInv, HandBack, Idle
<1>2. CASE UNCHANGED <<esc, ticket>>
  BY <1>1, <1>2, SessionOnlyStep DEF rows
<1>3. CASE /\ \A l \in plan : MayHandBack(l, Outcome(s))
           /\ esc' = [l \in Tickets |->
                IF l \in plan THEN [esc[l] EXCEPT !.state = Outcome(s)] ELSE esc[l]]
           /\ ticket' = [t \in Tickets |->
                IF t \in moving THEN [ticket[t] EXCEPT !.status = "in_progress"]
                ELSE ticket[t]]
  <2>1. /\ sess' \in [Sessions -> Call \cup {Idle}]
        /\ \A r \in Sessions : sess'[r] # Idle =>
             sess[r] # Idle /\ sess'[r].on = sess[r].on
    BY <1>1, SessionsMove
  <2>2. ASSUME NEW t \in Tickets
        PROVE  /\ ticket'[t] \in TicketRow \cup {NoTicket}
               /\ Exists(t) => Exists(t)' /\ ticket'[t].owner = ticket[t].owner
    <3>1. CASE t \in moving
      <4>1. ticket[t] \in TicketRow
        BY <1>1, <3>1, RowTyped DEF Exists, Resumed
      <4>2. ticket'[t] = [ticket[t] EXCEPT !.status = "in_progress"]
        BY <1>3, <3>1
      <4> QED BY <4>1, <4>2 DEF TicketRow, TicketStatusSet, Exists, Status
    <3>2. CASE t \notin moving
      BY <1>1, <1>3, <3>2 DEF TypeOK, Exists, Status
    <3> QED BY <3>1, <3>2
  <2>3. ASSUME NEW l \in Tickets
        PROVE  /\ esc'[l] \in LinkRow \cup {NoLink}
               /\ esc'[l] # NoLink =>
                    /\ esc[l] # NoLink
                    /\ esc'[l].from = esc[l].from /\ esc'[l].to = esc[l].to
    <3>1. CASE l \in plan
      <4>1. esc[l] \in LinkRow
        BY <1>1, <1>3, <3>1, LinkTyped DEF MayHandBack
      <4>2. esc'[l] = [esc[l] EXCEPT !.state = Outcome(s)]
        BY <1>3, <3>1
      <4>3. Outcome(s) \in LinkState
        BY DEF Outcome, LinkState
      <4>4. esc[l] # NoLink
        BY <1>1, <4>1, LinkTyped
      <4> QED BY <4>1, <4>2, <4>3, <4>4 DEF LinkRow
    <3>2. CASE l \notin plan
      BY <1>1, <1>3, <3>2 DEF TypeOK
    <3> QED BY <3>1, <3>2
  <2>4. ticket' \in [Tickets -> TicketRow \cup {NoTicket}]
    BY <1>3, <2>2
  <2>5. esc' \in [Tickets -> LinkRow \cup {NoLink}]
    BY <1>3, <2>3
  <2>6. TypeOK'
    BY <1>1, <2>1, <2>4, <2>5 DEF TypeOK
  <2> QED BY <2>1, <2>2, <2>3, <2>6, RowsInvKept
<1> QED BY <1>2, <1>3 DEF HandBack

\* A withdrawal ends one link and closes the ticket it pointed at.
LEMMA GatewayWithdrawStep ==
  ASSUME RowsInv, NEW s \in Sessions, GatewayWithdraw(s)
  PROVE  RowsInv'
<1>1. TypeOK /\ sess[s] # Idle /\ UNCHANGED <<partnerOf, merged>>
  BY DEF RowsInv, GatewayWithdraw, Idle
<1>2. sess[s].plan \in SUBSET Tickets
  BY <1>1, CallTyped DEF Call
<1>3. PICK l \in Tickets :
        \/ /\ Active(l)
           /\ esc' = [esc EXCEPT ![l].state = "withdrawn"]
           /\ ticket' = SetStatus(esc[l].to, "closed")
           /\ GoTo(s, "save", sess[s].plan)
        \/ Finish(s) /\ UNCHANGED <<esc, ticket>>
  BY <1>2 DEF GatewayWithdraw, MayWithdraw
<1>4. CASE Finish(s) /\ UNCHANGED <<esc, ticket>>
  BY <1>1, <1>4, SessionOnlyStep DEF rows
<1>5. CASE /\ Active(l)
           /\ esc' = [esc EXCEPT ![l].state = "withdrawn"]
           /\ ticket' = SetStatus(esc[l].to, "closed")
           /\ GoTo(s, "save", sess[s].plan)
  <2>1. esc[l] \in LinkRow /\ esc[l] # NoLink
    BY <1>1, <1>5, LinkTyped
  <2>2. esc[l].to \in Tickets /\ Exists(esc[l].to)
    BY <2>1 DEF LinkRow, RowsInv, EscalationAscends
  <2>3. /\ ticket' \in [Tickets -> TicketRow \cup {NoTicket}]
        /\ \A u \in Tickets : Exists(u) => Exists(u)' /\ ticket'[u].owner = ticket[u].owner
    BY <1>1, <1>5, <2>2, SetStatusKeepsRows DEF TicketStatusSet
  <2>4. esc' = [esc EXCEPT ![l] = [esc[l] EXCEPT !.state = "withdrawn"]]
    BY <1>1, <1>5 DEF TypeOK
  <2>5. [esc[l] EXCEPT !.state = "withdrawn"] \in LinkRow
    BY <2>1 DEF LinkRow, LinkState
  <2>6. /\ esc' \in [Tickets -> LinkRow \cup {NoLink}]
        /\ \A k \in Tickets : esc'[k] # NoLink =>
             /\ esc[k] # NoLink
             /\ esc'[k].from = esc[k].from /\ esc'[k].to = esc[k].to
    BY <1>1, <2>1, <2>4, <2>5 DEF TypeOK, LinkRow
  <2>7. /\ sess' \in [Sessions -> Call \cup {Idle}]
        /\ \A r \in Sessions : sess'[r] # Idle =>
             sess[r] # Idle /\ sess'[r].on = sess[r].on
    BY <1>1, <1>2, <1>5, SessionsMove
  <2>8. TypeOK'
    BY <1>1, <2>3, <2>6, <2>7 DEF TypeOK
  <2> QED BY <2>3, <2>6, <2>7, <2>8, RowsInvKept
<1> QED BY <1>3, <1>4, <1>5

\* The parent of an owner below the platform is an owner further up.
LEMMA ParentIsHigher ==
  ASSUME TypeOK, NEW o \in Owners, o # Platform
  PROVE  ParentOwner(o) \in Owners /\ Rank(o) < Rank(ParentOwner(o))
BY OwnersAssumption DEF TypeOK, Owners, ParentOwner, Rank

\* An escalation adds a row and a link between two rows, one above the other.
LEMMA EscalateTicketStep ==
  ASSUME RowsInv, NEW s \in Sessions, NEW t \in Tickets, NEW up \in Tickets,
         EscalateTicket(s, t, up)
  PROVE  RowsInv'
<1> DEFINE row  == [status |-> "open", owner |-> ParentOwner(ticket[t].owner),
                    outsider |-> TRUE]
           down == [ticket[t] EXCEPT !.status = "waiting_on_upstream"]
           link == [state |-> "active", from |-> t, to |-> up]
<1>1. TypeOK /\ UNCHANGED <<partnerOf, merged, sess>> /\ ~Exists(up)
      /\ ticket[t].owner # Platform
  BY DEF RowsInv, EscalateTicket, UpstreamTicket, MayEscalate
<1>2. Exists(t) /\ t # up
  BY <1>1 DEF EscalateTicket, UpstreamTicket, MayEscalate, CanEscalate, ESCALATABLE, Exists
<1>3. ticket[t] \in TicketRow /\ ticket[t].owner \in Owners
  BY <1>1, <1>2, RowTyped DEF TicketRow
<1>4. /\ ParentOwner(ticket[t].owner) \in Owners
      /\ Rank(ticket[t].owner) < Rank(ParentOwner(ticket[t].owner))
  BY <1>1, <1>3, ParentIsHigher
<1>5. row \in TicketRow /\ down \in TicketRow /\ link \in LinkRow
      /\ row.owner = ParentOwner(ticket[t].owner) /\ down.owner = ticket[t].owner
      /\ link.from = t /\ link.to = up /\ row.status = "open"
      /\ down.status = "waiting_on_upstream"
  BY <1>3, <1>4 DEF TicketRow, LinkRow, LinkState, TicketStatusSet
<1>6. ticket' = [ticket EXCEPT ![up] = row, ![t] = down]
      /\ esc' = [esc EXCEPT ![up] = link]
  BY <1>1, <1>2 DEF EscalateTicket, UpstreamTicket, TypeOK
<1> HIDE DEF row, down, link
<1>7. TypeOK'
  BY <1>1, <1>5, <1>6 DEF TypeOK
<1>8. ticket'[up] = row /\ ticket'[t] = down
      /\ \A u \in Tickets \ {t, up} : ticket'[u] = ticket[u]
  BY <1>1, <1>2, <1>6 DEF TypeOK
<1>9. \A u \in Tickets : Exists(u) => Exists(u)' /\ ticket'[u].owner = ticket[u].owner
  BY <1>1, <1>5, <1>8 DEF Exists, Status
<1>10. Exists(up)'
  BY <1>5, <1>8 DEF Exists, Status
<1>11. esc'[up] = link /\ \A l \in Tickets \ {up} : esc'[l] = esc[l]
  BY <1>1, <1>6 DEF TypeOK
<1>12. CallsHoldRows'
  BY <1>1, <1>9, CallTyped DEF RowsInv, CallsHoldRows, Call, Exists, Status
<1>13. LinksNameRows'
  BY <1>9, <1>10, <1>11 DEF RowsInv, LinksNameRows
<1>14. EscalationAscends'
  <2> SUFFICES ASSUME NEW l \in Tickets, esc'[l] # NoLink
               PROVE  /\ Exists(esc[l].from)' /\ Exists(esc[l].to)'
                      /\ Rank(ticket[esc[l].from].owner)' < Rank(ticket[esc[l].to].owner)'
    BY DEF EscalationAscends
  <2>1. CASE l = up
    BY <2>1, <1>2, <1>4, <1>5, <1>8, <1>9, <1>10, <1>11 DEF Rank, Exists, Status
  <2>2. CASE l # up
    <3>1. esc'[l] = esc[l] /\ esc[l] \in LinkRow
      BY <2>2, <1>1, <1>11, LinkTyped
    <3>2. esc[l].from \in Tickets /\ esc[l].to \in Tickets
      BY <3>1 DEF LinkRow
    <3>3. Exists(esc[l].from) /\ Exists(esc[l].to)
          /\ Rank(ticket[esc[l].from].owner) < Rank(ticket[esc[l].to].owner)
      BY <3>1 DEF RowsInv, EscalationAscends
    <3> QED BY <1>9, <3>1, <3>2, <3>3 DEF Rank, Exists, Status
  <2> QED BY <2>1, <2>2
<1> QED BY <1>7, <1>12, <1>13, <1>14 DEF RowsInv

\* A merge moves links between two tickets of one owner.
LEMMA MergeTicketsStep ==
  ASSUME RowsInv, NEW s \in Sessions, NEW dup \in Tickets, NEW master \in Tickets,
         MergeTickets(s, dup, master)
  PROVE  RowsInv'
<1>1. TypeOK /\ UNCHANGED <<partnerOf, sess>> /\ Exists(dup) /\ Exists(master)
      /\ ticket[dup].owner = ticket[master].owner
      /\ ticket' = SetStatus(dup, "closed")
      /\ merged' = merged \cup {<<dup, master>>}
      /\ esc' = [l \in Tickets |->
           IF l \in Inbound(dup) THEN [esc[l] EXCEPT !.to = master] ELSE esc[l]]
  BY DEF RowsInv, MergeTickets, MayMerge, Repoint
<1>2. /\ ticket' \in [Tickets -> TicketRow \cup {NoTicket}]
      /\ \A u \in Tickets : Exists(u) => Exists(u)' /\ ticket'[u].owner = ticket[u].owner
  BY <1>1, SetStatusKeepsRows DEF TicketStatusSet
<1>3. ASSUME NEW l \in Tickets, esc'[l] # NoLink
      PROVE  /\ esc[l] \in LinkRow /\ esc[l] # NoLink /\ esc'[l] \in LinkRow
             /\ esc'[l].from = esc[l].from
             /\ \/ esc'[l].to = esc[l].to
                \/ esc[l].to = dup /\ esc'[l].to = master
  <2>1. CASE l \in Inbound(dup)
    <3>1. esc[l] \in LinkRow /\ esc[l].to = dup
      BY <1>1, <2>1, LinkTyped DEF Inbound
    <3>2. esc'[l] = [esc[l] EXCEPT !.to = master]
      BY <1>1, <2>1
    <3>3. esc[l] # NoLink
      BY <1>1, <3>1, LinkTyped
    <3> QED BY <3>1, <3>2, <3>3 DEF LinkRow
  <2>2. CASE l \notin Inbound(dup)
    BY <1>1, <1>3, <2>2, LinkTyped
  <2> QED BY <2>1, <2>2
<1>4. TypeOK'
  <2>1. esc' \in [Tickets -> LinkRow \cup {NoLink}]
    BY <1>1, <1>3
  <2> QED BY <1>1, <1>2, <2>1 DEF TypeOK
<1>5. CallsHoldRows'
  BY <1>1, <1>2, CallTyped DEF RowsInv, CallsHoldRows, Call, Exists, Status
<1>6. LinksNameRows'
  BY <1>2, <1>3 DEF RowsInv, LinksNameRows
<1>7. EscalationAscends'
  <2> SUFFICES ASSUME NEW l \in Tickets, esc'[l] # NoLink
               PROVE  /\ Exists(esc[l].from)' /\ Exists(esc[l].to)'
                      /\ Rank(ticket[esc[l].from].owner)' < Rank(ticket[esc[l].to].owner)'
    BY DEF EscalationAscends
  <2>1. esc[l].from \in Tickets /\ esc[l].to \in Tickets
    BY <1>3 DEF LinkRow
  <2>2. Exists(esc[l].from) /\ Exists(esc[l].to)
        /\ Rank(ticket[esc[l].from].owner) < Rank(ticket[esc[l].to].owner)
    BY <1>3 DEF RowsInv, EscalationAscends
  <2>3. /\ Exists(esc[l].from)' /\ ticket'[esc'[l].from].owner = ticket[esc[l].from].owner
        /\ Exists(esc[l].to)' /\ ticket'[esc'[l].to].owner = ticket[esc[l].to].owner
    <3>1. \A u \in {esc[l].from, esc[l].to, master} :
            Exists(u) => ticket'[u].status # "absent" /\ ticket'[u].owner = ticket[u].owner
      BY <1>2, <2>1 DEF Exists, Status
    <3>2. esc'[l].from = esc[l].from
      BY <1>3
    <3>3. CASE esc'[l].to = esc[l].to
      BY <2>2, <3>1, <3>2, <3>3 DEF Exists, Status
    <3>4. CASE esc[l].to = dup /\ esc'[l].to = master
      <4>1. ticket[esc[l].to].owner = ticket[master].owner /\ Exists(master)
        BY <1>1, <3>4
      <4> QED BY <2>2, <3>1, <3>2, <3>4, <4>1 DEF Exists, Status
    <3> QED BY <1>3, <3>3, <3>4
  <2> QED BY <2>2, <2>3 DEF Rank, Exists, Status
<1> QED BY <1>4, <1>5, <1>6, <1>7 DEF RowsInv

LEMMA RowsInvInit == Init => RowsInv
<1> SUFFICES ASSUME Init PROVE RowsInv
  OBVIOUS
<1>1. TypeOK
  BY DEF Init, TypeOK
<1>2. CallsHoldRows /\ LinksNameRows /\ EscalationAscends
  BY DEF Init, CallsHoldRows, LinksNameRows, EscalationAscends
<1> QED BY <1>1, <1>2 DEF RowsInv

LEMMA RowsInvNext == RowsInv /\ [Next]_vars => RowsInv'
<1> SUFFICES ASSUME RowsInv, [Next]_vars PROVE RowsInv'
  OBVIOUS
<1>1. ASSUME NEW s \in Sessions, Begin(s) PROVE RowsInv'
  <2>1. PICK t \in Tickets :
          \/ \E o \in Filers : CreateTicket(s, t, o)
          \/ \E status \in TicketStatusSet :
               RequesterUpdate(s, t, status) \/ StartUpdate(s, t, status)
          \/ StartResolve(s, t)
          \/ StartReturn(s, t)
          \/ StartWithdraw(s, t)
          \/ \E u \in Tickets : EscalateTicket(s, t, u) \/ MergeTickets(s, t, u)
    BY <1>1 DEF Begin
  <2>2. CASE \E o \in Filers : CreateTicket(s, t, o)
    BY <2>2, CreateTicketStep
  <2>3. ASSUME NEW status \in TicketStatusSet, RequesterUpdate(s, t, status)
        PROVE  RowsInv'
    BY <2>3, RequesterUpdateStep
  <2>4. ASSUME NEW status \in TicketStatusSet, StartUpdate(s, t, status)
        PROVE  RowsInv'
    BY <2>4, StartStep DEF StartUpdate
  <2>5. CASE StartResolve(s, t)
    BY <2>5, StartStep DEF StartResolve, TicketStatusSet
  <2>6. CASE StartReturn(s, t)
    BY <2>6, StartStep DEF StartReturn, TicketStatusSet
  <2>7. CASE StartWithdraw(s, t)
    BY <2>7, StartStep DEF StartWithdraw, TicketStatusSet
  <2>8. CASE \E u \in Tickets : EscalateTicket(s, t, u)
    BY <2>8, EscalateTicketStep
  <2>9. CASE \E u \in Tickets : MergeTickets(s, t, u)
    BY <2>9, MergeTicketsStep
  <2> QED BY <2>1, <2>2, <2>3, <2>4, <2>5, <2>6, <2>7, <2>8, <2>9
<1>2. ASSUME NEW s \in Sessions, Continue(s) PROVE RowsInv'
  <2>1. Inbound(sess[s].on) \in SUBSET Tickets /\ Outbound(sess[s].on) \in SUBSET Tickets
    BY DEF Inbound, Outbound
  <2>2. CASE UpdateListLinks(s)
    BY <2>2, SessionOnlyStep DEF UpdateListLinks, At, Idle
  <2>3. CASE ResolveListLinks(s)
    BY <2>1, <2>3, SessionOnlyStep DEF ResolveListLinks, AfterPlan, At, Idle
  <2>4. CASE ReturnListLinks(s)
    BY <2>1, <2>4, SessionOnlyStep DEF ReturnListLinks, AfterPlan, At, Idle
  <2>5. CASE WithdrawListLinks(s)
    BY <2>1, <2>5, SessionOnlyStep DEF WithdrawListLinks, At, Idle
  <2>6. CASE Save(s)
    BY <2>6, SaveStep
  <2>7. CASE HandBack(s)
    BY <2>7, HandBackStep
  <2>8. CASE GatewayWithdraw(s)
    BY <2>8, GatewayWithdrawStep
  <2> QED BY <1>2, <2>2, <2>3, <2>4, <2>5, <2>6, <2>7, <2>8 DEF Continue
<1>3. ASSUME NEW s \in Sessions, Abandon(s) PROVE RowsInv'
  BY <1>3, SessionOnlyStep DEF Abandon
<1>4. ASSUME NEW n \in Tenants, NEW p \in Partners \cup {None}, PartnerChanges(n, p)
      PROVE  RowsInv'
  <2>1. TypeOK'
    BY <1>4 DEF PartnerChanges, RowsInv, TypeOK
  <2> QED BY <1>4, <2>1, RowsInvKept DEF PartnerChanges, Exists, Status
<1>5. CASE UNCHANGED vars
  BY <1>5 DEF vars, RowsInv, TypeOK, CallsHoldRows, LinksNameRows,
              EscalationAscends, Exists, Status, Rank
<1> QED BY <1>1, <1>2, <1>3, <1>4, <1>5 DEF Next

\* Every variable keeps its type: no interleaving of calls, failures and
\* merges writes a status, an owner or a link the schema forbids, and no call
\* works on a row that is not there.
THEOREM TypeCorrect == Spec => []TypeOK
<1>1. RowsInv => TypeOK
  BY DEF RowsInv
<1> QED BY <1>1, RowsInvInit, RowsInvNext, PTL DEF Spec

\* Escalations only go up the chain of owners, whatever sessions interleave
\* and however tenants change partner: they cannot wait in a cycle.
THEOREM AlwaysAscends == Spec => []EscalationAscends
<1>1. RowsInv => EscalationAscends
  BY DEF RowsInv
<1> QED BY <1>1, RowsInvInit, RowsInvNext, PTL DEF Spec

-------------------------------------------------------------------------------
(* The workflow implements the abstract ledger of escalations; what the ledger *)
(* guarantees then holds of the workflow. *)

\* What a call has planned are links that are there, and those still active
\* point at one ticket.
PlansAgree ==
  \A s \in Sessions : \A k, l \in sess[s].plan :
    /\ esc[k] # NoLink
    /\ Active(k) /\ Active(l) => esc[k].to = esc[l].to

\* A ticket waits on at most one upstream ticket.
OneActiveEscalation ==
  \A t \in Tickets : \A k, l \in Outbound(t) : k = l

\* The inductive invariant.
LinksInv == RowsInv /\ OneActiveEscalation /\ PlansAgree

-------------------------------------------------------------------------------
(* Every step is a step of the ledger, or leaves the links alone. *)

\* The ledger's names and the workflow's mean the same.
LEMMA LedgerNames ==
  /\ \A l : Ledger!IsActive(l) <=> Active(l)
  /\ \A t : Ledger!WaitingAt(t) = Inbound(t)
  /\ \A t : Ledger!Waits(t) <=> Outbound(t) # {}
  /\ Ledger!Absent = NoLink
BY DEF Ledger!IsActive, Active, Ledger!WaitingAt, Inbound, Ledger!Waits, Outbound,
       Ledger!Absent, NoLink

\* A hand-back answers the links of its plan, which wait at one ticket.
LEMMA HandBackAnswers ==
  ASSUME LinksInv, NEW s \in Sessions, HandBack(s)
  PROVE  [Ledger!Next]_esc
<1> DEFINE plan == sess[s].plan
<1>1. TypeOK /\ sess[s] # Idle
  BY DEF LinksInv, RowsInv, HandBack, Idle
<1>2. plan \subseteq Tickets
  BY <1>1, CallTyped DEF Call
<1>3. CASE UNCHANGED esc
  BY <1>3
<1>4. CASE plan = {} /\ esc' = [l \in Tickets |->
             IF l \in plan THEN [esc[l] EXCEPT !.state = Outcome(s)] ELSE esc[l]]
  BY <1>1, <1>4 DEF TypeOK
<1>5. CASE /\ plan # {}
           /\ \A l \in plan : MayHandBack(l, Outcome(s))
           /\ esc' = [l \in Tickets |->
                IF l \in plan THEN [esc[l] EXCEPT !.state = Outcome(s)] ELSE esc[l]]
  <2>1. PICK k \in plan : TRUE
    BY <1>5
  <2>2. k \in Tickets /\ esc[k] \in LinkRow
    BY <1>1, <1>2, <1>5, <2>1, LinkTyped DEF MayHandBack
  <2>3. esc[k].to \in Tickets
    BY <2>2 DEF LinkRow
  <2>4. plan \subseteq Ledger!WaitingAt(esc[k].to)
    BY <1>2, <1>5, <2>1, LedgerNames DEF LinksInv, PlansAgree, MayHandBack, Inbound
  <2>5. Outcome(s) \in {"resolved", "returned"}
    BY DEF Outcome
  <2>6. Ledger!Answer(esc[k].to, plan, Outcome(s))
    BY <1>5, <2>4 DEF Ledger!Answer
  <2>7. plan \in SUBSET Tickets
    BY <1>2
  <2> HIDE DEF plan
  <2> QED BY <2>3, <2>5, <2>6, <2>7 DEF Ledger!Next
<1> QED BY <1>3, <1>4, <1>5 DEF HandBack

\* A withdrawal takes an escalation back.
LEMMA GatewayWithdrawTakesBack ==
  ASSUME LinksInv, NEW s \in Sessions, GatewayWithdraw(s)
  PROVE  [Ledger!Next]_esc
<1>1. sess[s].plan \subseteq Tickets
  BY CallTyped DEF LinksInv, RowsInv, GatewayWithdraw, Idle, Call
<1>2. PICK l \in sess[s].plan :
        \/ MayWithdraw(l) /\ esc' = [esc EXCEPT ![l].state = "withdrawn"]
        \/ UNCHANGED esc
  BY DEF GatewayWithdraw
<1>3. CASE MayWithdraw(l) /\ esc' = [esc EXCEPT ![l].state = "withdrawn"]
  BY <1>1, <1>3, LedgerNames DEF Ledger!Next, Ledger!TakeBack, MayWithdraw
<1> QED BY <1>2, <1>3

\* An escalation asks the upstream ticket it creates.
LEMMA EscalateAsks ==
  ASSUME LinksInv, NEW s \in Sessions, NEW t \in Tickets, NEW up \in Tickets,
         EscalateTicket(s, t, up)
  PROVE  Ledger!Next
<1>1. esc[up] = NoLink
  BY DEF LinksInv, RowsInv, LinksNameRows, EscalateTicket
<1>2. Ledger!Ask(up, t)
  BY <1>1, LedgerNames DEF Ledger!Ask, EscalateTicket, MayEscalate
<1> QED BY <1>2 DEF Ledger!Next

\* A merge moves whoever waits at the duplicate.
LEMMA MergeMoves ==
  ASSUME NEW s \in Sessions, NEW dup \in Tickets, NEW master \in Tickets,
         MergeTickets(s, dup, master)
  PROVE  Ledger!Next
<1>1. Ledger!Move(dup, master)
  BY LedgerNames DEF Ledger!Move, MergeTickets, MayMerge, Repoint
<1> QED BY <1>1 DEF Ledger!Next

\* Where the plans of the calls come from: a plan stays, is dropped, or is read
\* off links that the step leaves alone.
PlanKept(s) ==
  \/ sess'[s].plan = sess[s].plan
  \/ sess'[s].plan = {}
  \/ /\ UNCHANGED esc
     /\ \E t : sess'[s].plan = Inbound(t) \/ sess'[s].plan = Outbound(t)

LEMMA PlansMove ==
  ASSUME LinksInv, [Next]_vars, NEW s \in Sessions
  PROVE  PlanKept(s)
<1>1. sess \in [Sessions -> Call \cup {Idle}]
  BY DEF LinksInv, RowsInv, TypeOK
<1>2. ASSUME NEW r \in Sessions, Finish(r) PROVE PlanKept(s)
  BY <1>1, <1>2 DEF Finish, Idle, PlanKept
<1>3. ASSUME NEW r \in Sessions, NEW op, NEW t, NEW put, NEW pc, Start(r, op, t, put, pc)
      PROVE  PlanKept(s)
  BY <1>1, <1>3 DEF Start, PlanKept
<1>4. ASSUME NEW r \in Sessions, NEW pc, NEW plan, sess[r] # Idle, GoTo(r, pc, plan),
             \/ plan = sess[r].plan
             \/ plan = {}
             \/ UNCHANGED esc /\ \E t : plan = Inbound(t) \/ plan = Outbound(t)
      PROVE  PlanKept(s)
  <2>1. CASE r = s
    <3>1. sess[s] \in Call
      BY <1>1, <1>4, <2>1
    <3>2. sess'[s].plan = plan
      BY <1>1, <1>4, <2>1, <3>1 DEF GoTo, Call
    <3> QED BY <1>4, <2>1, <3>2 DEF PlanKept
  <2>2. CASE r # s
    BY <1>1, <1>4, <2>2 DEF GoTo, PlanKept
  <2> QED BY <2>1, <2>2
<1>5. ASSUME NEW r \in Sessions, Begin(r) PROVE PlanKept(s)
  <2>1. CASE UNCHANGED sess
    BY <2>1 DEF PlanKept
  <2>2. ASSUME NEW t \in Tickets, NEW status, StartUpdate(r, t, status) PROVE PlanKept(s)
    BY <1>3, <2>2 DEF StartUpdate
  <2>3. ASSUME NEW t \in Tickets, StartResolve(r, t) \/ StartReturn(r, t) \/ StartWithdraw(r, t)
        PROVE  PlanKept(s)
    BY <1>3, <2>3 DEF StartResolve, StartReturn, StartWithdraw
  <2> QED BY <1>5, <2>1, <2>2, <2>3
          DEF Begin, CreateTicket, RequesterUpdate, EscalateTicket, MergeTickets
<1>6. ASSUME NEW r \in Sessions, Continue(r) PROVE PlanKept(s)
  <2>1. CASE UpdateListLinks(r)
    BY <1>2, <1>4, <2>1 DEF UpdateListLinks, At, Idle
  <2>2. CASE ResolveListLinks(r)
    BY <1>2, <1>4, <2>2 DEF ResolveListLinks, AfterPlan, At, Idle, rows
  <2>3. CASE ReturnListLinks(r)
    BY <1>2, <1>4, <2>3 DEF ReturnListLinks, AfterPlan, At, Idle, rows
  <2>4. CASE WithdrawListLinks(r)
    BY <1>4, <2>4 DEF WithdrawListLinks, At, Idle, rows
  <2>5. CASE Save(r)
    BY <1>2, <1>4, <2>5 DEF Save, Idle
  <2>6. CASE HandBack(r)
    BY <1>2, <2>6 DEF HandBack
  <2>7. CASE GatewayWithdraw(r)
    BY <1>2, <1>4, <2>7 DEF GatewayWithdraw, Idle
  <2> QED BY <1>6, <2>1, <2>2, <2>3, <2>4, <2>5, <2>6, <2>7 DEF Continue
<1>7. ASSUME NEW r \in Sessions, Abandon(r) PROVE PlanKept(s)
  BY <1>2, <1>7 DEF Abandon
<1>8. CASE UNCHANGED sess
  BY <1>8 DEF PlanKept
<1>9. \/ \E r \in Sessions : Begin(r) \/ Continue(r) \/ Abandon(r)
      \/ UNCHANGED sess
  BY DEF Next, PartnerChanges, vars
<1> QED BY <1>5, <1>6, <1>7, <1>8, <1>9

LEMMA LedgerStep == LinksInv /\ [Next]_vars => [Ledger!Next]_esc
<1> SUFFICES ASSUME LinksInv, [Next]_vars PROVE [Ledger!Next]_esc
  OBVIOUS
<1>1. ASSUME NEW s \in Sessions, Begin(s) PROVE [Ledger!Next]_esc
  <2>1. CASE UNCHANGED esc
    BY <2>1
  <2>2. ASSUME NEW t \in Tickets, NEW up \in Tickets, EscalateTicket(s, t, up)
        PROVE  [Ledger!Next]_esc
    BY <2>2, EscalateAsks
  <2>3. ASSUME NEW t \in Tickets, NEW u \in Tickets, MergeTickets(s, t, u)
        PROVE  [Ledger!Next]_esc
    BY <2>3, MergeMoves
  <2> QED BY <1>1, <2>1, <2>2, <2>3
          DEF Begin, CreateTicket, RequesterUpdate, StartUpdate, StartResolve,
              StartReturn, StartWithdraw, Start, rows
<1>2. ASSUME NEW s \in Sessions, Continue(s) PROVE [Ledger!Next]_esc
  BY <1>2, HandBackAnswers, GatewayWithdrawTakesBack
     DEF Continue, UpdateListLinks, ResolveListLinks, ReturnListLinks,
         WithdrawListLinks, Save, rows
<1> QED BY <1>1, <1>2 DEF Next, Abandon, PartnerChanges, vars, rows

-------------------------------------------------------------------------------
(* What a step of the ledger does to the links. *)

LEMMA LedgerKeepsLinks ==
  ASSUME TypeOK, TypeOK', [Ledger!Next]_esc
  PROVE  /\ \A l \in Tickets : esc[l] # NoLink =>
              /\ esc'[l] # NoLink
              /\ esc'[l].from = esc[l].from
              /\ ~Active(l) => esc'[l] = esc[l]
         /\ \A k, l \in Tickets :
              Active(k) /\ Active(l) /\ esc[k].to = esc[l].to => esc'[k].to = esc'[l].to
         /\ \A k, l \in Tickets :
              /\ esc[k] = NoLink /\ esc'[k] # NoLink
              /\ esc[l] = NoLink \/ Active(l)
              /\ esc'[l] # NoLink /\ esc'[l].from = esc'[k].from
              => k = l
<1> DEFINE Kept(l) == esc[l] # NoLink =>
             /\ esc'[l] # NoLink
             /\ esc'[l].from = esc[l].from
             /\ ~Active(l) => esc'[l] = esc[l]
           Together(k, l) ==
             Active(k) /\ Active(l) /\ esc[k].to = esc[l].to => esc'[k].to = esc'[l].to
           Alone(k, l) ==
             /\ esc[k] = NoLink /\ esc'[k] # NoLink
             /\ esc[l] = NoLink \/ Active(l)
             /\ esc'[l] # NoLink /\ esc'[l].from = esc'[k].from
             => k = l
<1>1. SUFFICES ASSUME NEW k \in Tickets, NEW l \in Tickets
               PROVE  Kept(l) /\ Together(k, l) /\ Alone(k, l)
  OBVIOUS
<1>2. /\ \A m \in Tickets : esc[m] # NoLink => esc[m] \in LinkRow
      /\ \A m \in Tickets : Active(m) => esc[m] \in LinkRow /\ esc[m] # NoLink
  BY LinkTyped
<1>3. \A row \in LinkRow : row # NoLink
  BY DEF LinkRow, NoLink, LinkState
<1>4. esc \in [Tickets -> LinkRow \cup {NoLink}]
  BY DEF TypeOK
<1>5. CASE UNCHANGED esc
  BY <1>5
<1>6. ASSUME NEW m \in Tickets, NEW t \in Tickets, Ledger!Ask(m, t)
      PROVE  Kept(l) /\ Together(k, l) /\ Alone(k, l)
  <2>1. /\ esc[m] = NoLink /\ Outbound(t) = {}
        /\ esc'[m] = [state |-> "active", from |-> t, to |-> m]
        /\ \A n \in Tickets \ {m} : esc'[n] = esc[n]
    BY <1>4, <1>6, LedgerNames DEF Ledger!Ask
  <2>2. Kept(l) /\ Together(k, l)
    BY <1>2, <2>1 DEF Active, NoLink
  <2>3. Alone(k, l)
    BY <1>2, <2>1 DEF Outbound
  <2> QED BY <2>2, <2>3
<1>7. ASSUME NEW m \in Tickets, NEW t \in Tickets, Ledger!Move(m, t)
      PROVE  Kept(l) /\ Together(k, l) /\ Alone(k, l)
  <2>1. \A n \in Tickets :
          esc'[n] = IF Active(n) /\ esc[n].to = m THEN [esc[n] EXCEPT !.to = t] ELSE esc[n]
    BY <1>4, <1>7, LedgerNames DEF Ledger!Move, Inbound
  <2>2. \A n \in Tickets : Active(n) =>
          /\ esc'[n] \in LinkRow /\ esc'[n].from = esc[n].from
          /\ esc'[n].to = IF esc[n].to = m THEN t ELSE esc[n].to
    BY <1>2, <1>7, <2>1 DEF LinkRow
  <2> QED BY <1>2, <1>3, <2>1, <2>2
<1>8. ASSUME NEW L \in SUBSET Tickets, NEW outcome \in LinkState,
             \A m \in L : Active(m),
             esc' = [m \in Tickets |->
               IF m \in L THEN [esc[m] EXCEPT !.state = outcome] ELSE esc[m]]
      PROVE  Kept(l) /\ Together(k, l) /\ Alone(k, l)
  <2>1. \A n \in L : /\ esc'[n] \in LinkRow /\ esc'[n].from = esc[n].from
                      /\ esc'[n].to = esc[n].to
    BY <1>2, <1>8 DEF LinkRow
  <2>2. \A n \in Tickets \ L : esc'[n] = esc[n]
    BY <1>8
  <2> QED BY <1>2, <1>3, <1>8, <2>1, <2>2
<1>9. ASSUME NEW m \in Tickets, Ledger!TakeBack(m)
      PROVE  Kept(l) /\ Together(k, l) /\ Alone(k, l)
  <2>1. esc' = [n \in Tickets |->
          IF n \in {m} THEN [esc[n] EXCEPT !.state = "withdrawn"] ELSE esc[n]]
    BY <1>4, <1>9 DEF Ledger!TakeBack
  <2>2. \A n \in {m} : Active(n)
    BY <1>9, LedgerNames DEF Ledger!TakeBack
  <2>3. {m} \in SUBSET Tickets /\ "withdrawn" \in LinkState
    BY DEF LinkState
  <2> HIDE DEF Kept, Together, Alone
  <2> QED BY <1>8, <2>1, <2>2, <2>3
<1>10. ASSUME NEW t \in Tickets, NEW L \in SUBSET Tickets,
              NEW outcome \in {"resolved", "returned"}, Ledger!Answer(t, L, outcome)
       PROVE  Kept(l) /\ Together(k, l) /\ Alone(k, l)
  <2>1. (\A m \in L : Active(m)) /\ outcome \in LinkState
    BY <1>10, LedgerNames DEF Ledger!Answer, Inbound, LinkState
  <2> HIDE DEF Kept, Together, Alone
  <2> QED BY <1>8, <1>10, <2>1 DEF Ledger!Answer
<1> HIDE DEF Kept, Together, Alone
<1> QED BY <1>5, <1>6, <1>7, <1>9, <1>10 DEF Ledger!Next

-------------------------------------------------------------------------------
(* The inductive step *)

LEMMA LinksInvInit == Init => LinksInv
<1> SUFFICES ASSUME Init PROVE LinksInv
  OBVIOUS
<1>1. OneActiveEscalation
  BY DEF Init, OneActiveEscalation, Outbound, Active, NoLink
<1>2. PlansAgree
  BY DEF Init, PlansAgree, Idle
<1> QED BY <1>1, <1>2, RowsInvInit DEF LinksInv

LEMMA LinksInvNext == LinksInv /\ [Next]_vars => LinksInv'
<1> SUFFICES ASSUME LinksInv, [Next]_vars PROVE LinksInv'
  OBVIOUS
<1>1. RowsInv'
  BY RowsInvNext DEF LinksInv
<1>2. TypeOK /\ TypeOK' /\ [Ledger!Next]_esc
  BY <1>1, LedgerStep DEF LinksInv, RowsInv
<1>3. /\ \A l \in Tickets : esc[l] # NoLink =>
           /\ esc'[l] # NoLink
           /\ esc'[l].from = esc[l].from
           /\ ~Active(l) => esc'[l] = esc[l]
      /\ \A k, l \in Tickets :
           Active(k) /\ Active(l) /\ esc[k].to = esc[l].to => esc'[k].to = esc'[l].to
      /\ \A k, l \in Tickets :
           /\ esc[k] = NoLink /\ esc'[k] # NoLink
           /\ esc[l] = NoLink \/ Active(l)
           /\ esc'[l] # NoLink /\ esc'[l].from = esc'[k].from
           => k = l
  BY <1>2, LedgerKeepsLinks
<1>4. \A l \in Tickets : Active(l)' => esc'[l] # NoLink /\ (esc[l] = NoLink \/ Active(l))
  BY <1>3 DEF Active, NoLink
<1>5. OneActiveEscalation'
  <2> SUFFICES ASSUME NEW k \in Tickets, NEW l \in Tickets,
                      Active(k)', Active(l)', esc'[k].from = esc'[l].from
               PROVE  k = l
    BY DEF OneActiveEscalation, Outbound, Active
  <2>1. CASE esc[k] = NoLink \/ esc[l] = NoLink
    BY <1>3, <1>4, <2>1
  <2>2. CASE esc[k] # NoLink /\ esc[l] # NoLink
    <3>1. Active(k) /\ Active(l) /\ esc[k].from = esc[l].from
      BY <1>3, <1>4, <2>2
    <3>2. esc[k].from \in Tickets
      BY <1>2, <3>1, LinkTyped DEF LinkRow
    <3> QED BY <3>1, <3>2 DEF LinksInv, OneActiveEscalation, Outbound
  <2> QED BY <2>1, <2>2
<1>6. PlansAgree'
  <2> SUFFICES ASSUME NEW s \in Sessions, NEW k \in sess'[s].plan, NEW l \in sess'[s].plan
               PROVE  /\ esc'[k] # NoLink
                      /\ Active(k)' /\ Active(l)' => esc'[k].to = esc'[l].to
    BY DEF PlansAgree, Active
  <2>1. PlanKept(s)
    BY PlansMove
  <2>2. CASE sess'[s].plan = sess[s].plan
    <3>1. k \in Tickets /\ l \in Tickets
      BY <1>2, <2>2 DEF TypeOK, Call, Idle
    <3>2. esc[k] # NoLink /\ esc[l] # NoLink
          /\ (Active(k) /\ Active(l) => esc[k].to = esc[l].to)
      BY <2>2 DEF LinksInv, PlansAgree
    <3> QED BY <1>3, <1>4, <3>1, <3>2
  <2>3. ASSUME UNCHANGED esc, NEW t, sess'[s].plan = Inbound(t)
        PROVE  /\ esc'[k] # NoLink
               /\ Active(k)' /\ Active(l)' => esc'[k].to = esc'[l].to
    BY <2>3 DEF Inbound, Active, NoLink
  <2>4. ASSUME UNCHANGED esc, NEW t, sess'[s].plan = Outbound(t)
        PROVE  /\ esc'[k] # NoLink
               /\ Active(k)' /\ Active(l)' => esc'[k].to = esc'[l].to
    <3>1. k \in Tickets /\ l \in Tickets /\ Active(k) /\ esc[k].from = t /\ esc[l].from = t
          /\ Active(l)
      BY <2>4 DEF Outbound
    <3>2. t \in Tickets
      BY <1>2, <3>1, LinkTyped DEF LinkRow
    <3>3. k = l
      BY <3>1, <3>2 DEF LinksInv, OneActiveEscalation, Outbound
    <3> QED BY <2>4, <3>1, <3>3 DEF Active, NoLink
  <2> QED BY <2>1, <2>2, <2>3, <2>4 DEF PlanKept
<1> QED BY <1>1, <1>5, <1>6 DEF LinksInv

-------------------------------------------------------------------------------

\* A batch that was planned before merges is still for one upstream ticket when
\* it is handed back.
THEOREM PlansStayTogether == Spec => []PlanHasOneUpstream
<1>1. LinksInv => PlanHasOneUpstream
  BY DEF LinksInv, PlansAgree, PlanHasOneUpstream
<1> QED BY <1>1, LinksInvInit, LinksInvNext, PTL DEF Spec

\* The workflow, with its sessions, failures and stale reads, implements the
\* ledger: an escalation is asked once, moves with all that wait beside it, and
\* is answered or taken back once.
THEOREM WorkflowImplementsLedger == Spec => ImplementsLedger
<1>1. Init => Ledger!Init
  BY LedgerNames DEF Init, Ledger!Init
<1> QED BY <1>1, LinksInvInit, LinksInvNext, LedgerStep, PTL
        DEF Spec, ImplementsLedger, Ledger!Spec

\* Outcomes are final: nothing answers, withdraws or moves an escalation that
\* has ended, and who escalated never changes.
THEOREM OutcomesAreFinal == Spec => OutcomeIsFinal
<1> DEFINE Final == \A l \in Tickets :
             /\ esc[l].state \in LinkState \ {"active"} => esc'[l] = esc[l]
             /\ esc[l] # NoLink => esc'[l].from = esc[l].from
<1>1. ASSUME LinksInv, LinksInv', [Next]_vars PROVE Final
  <2>1. TypeOK /\ TypeOK' /\ [Ledger!Next]_esc
    BY <1>1, LedgerStep DEF LinksInv, RowsInv
  <2> SUFFICES ASSUME NEW l \in Tickets
               PROVE  /\ esc[l].state \in LinkState \ {"active"} => esc'[l] = esc[l]
                      /\ esc[l] # NoLink => esc'[l].from = esc[l].from
    OBVIOUS
  <2> QED BY <2>1, LedgerKeepsLinks DEF Active, LinkState, NoLink
<1> HIDE DEF Final
<1>2. LinksInv /\ LinksInv' /\ [Next]_vars => [Final]_esc
  BY <1>1
<1>3. Spec => [][Final]_esc
  BY <1>2, LinksInvInit, LinksInvNext, PTL DEF Spec
<1> QED BY <1>3 DEF OutcomeIsFinal, Final

-------------------------------------------------------------------------------
(* Where an escalation points *)

\* Every set of tickets that holds the ticket an escalation created and is
\* closed under merging holds the ticket it points at.
LEMMA FollowsStep ==
  ASSUME RowsInv, EscalationFollowsMerges, [Next]_vars
  PROVE  EscalationFollowsMerges'
<1>1. SUFFICES ASSUME NEW l \in Tickets, esc'[l] # NoLink, NEW S \in SUBSET Tickets,
                      l \in S, \A m \in merged' : m[1] \in S => m[2] \in S
               PROVE  esc'[l].to \in S
  BY DEF EscalationFollowsMerges
<1>2. ASSUME esc[l] # NoLink, merged \subseteq merged' PROVE esc[l].to \in S
  BY <1>1, <1>2 DEF EscalationFollowsMerges
<1>3. TypeOK
  BY DEF RowsInv
<1>4. CASE UNCHANGED <<esc, merged>>
  BY <1>1, <1>2, <1>4
<1>5. ASSUME NEW s \in Sessions, HandBack(s) PROVE esc'[l].to \in S
  <2>1. CASE UNCHANGED esc
    BY <1>1, <1>2, <1>5, <2>1 DEF HandBack
  <2>2. CASE esc' = [k \in Tickets |->
              IF k \in sess[s].plan THEN [esc[k] EXCEPT !.state = Outcome(s)] ELSE esc[k]]
             /\ \A k \in sess[s].plan : MayHandBack(k, Outcome(s))
    <3>1. esc[l] \in LinkRow /\ esc[l] # NoLink
      BY <1>1, <1>3, <2>2, LinkTyped DEF MayHandBack
    <3>2. esc'[l].to = esc[l].to
      BY <2>2, <3>1 DEF LinkRow
    <3> QED BY <1>2, <1>5, <3>1, <3>2 DEF HandBack
  <2> QED BY <1>5, <2>1, <2>2 DEF HandBack
<1>6. ASSUME NEW s \in Sessions, GatewayWithdraw(s) PROVE esc'[l].to \in S
  <2>1. PICK k : \/ Active(k) /\ k \in Tickets /\ esc' = [esc EXCEPT ![k].state = "withdrawn"]
                 \/ UNCHANGED esc
    BY <1>3, <1>6, CallTyped DEF GatewayWithdraw, MayWithdraw, Call, Idle
  <2>2. esc[l] \in LinkRow /\ esc[l] # NoLink /\ esc'[l].to = esc[l].to
    BY <1>1, <1>3, <2>1, LinkTyped DEF TypeOK, LinkRow
  <2> QED BY <1>2, <1>6, <2>2 DEF GatewayWithdraw
<1>7. ASSUME NEW s \in Sessions, NEW t \in Tickets, NEW up \in Tickets,
             EscalateTicket(s, t, up)
      PROVE  esc'[l].to \in S
  <2>1. CASE l = up
    BY <1>1, <1>3, <1>7, <2>1 DEF EscalateTicket, TypeOK
  <2>2. CASE l # up
    BY <1>1, <1>2, <1>3, <1>7, <2>2 DEF EscalateTicket, TypeOK
  <2> QED BY <2>1, <2>2
<1>8. ASSUME NEW s \in Sessions, NEW dup \in Tickets, NEW master \in Tickets,
             MergeTickets(s, dup, master)
      PROVE  esc'[l].to \in S
  <2>1. /\ merged' = merged \cup {<<dup, master>>}
        /\ esc'[l] = IF l \in Inbound(dup) THEN [esc[l] EXCEPT !.to = master] ELSE esc[l]
    BY <1>8 DEF MergeTickets, Repoint
  <2>2. dup \in S => master \in S
    <3> DEFINE m == <<dup, master>>
    <3>1. m \in merged' /\ m[1] = dup /\ m[2] = master
      BY <2>1
    <3> HIDE DEF m
    <3> QED BY <1>1, <3>1
  <2>3. CASE l \in Inbound(dup)
    <3>1. esc[l] \in LinkRow /\ esc[l] # NoLink /\ esc[l].to = dup
      BY <1>3, <2>3, LinkTyped DEF Inbound
    <3>2. esc'[l].to = master
      BY <2>1, <2>3, <3>1 DEF LinkRow
    <3> QED BY <1>2, <2>1, <2>2, <3>1, <3>2
  <2>4. CASE l \notin Inbound(dup)
    BY <1>1, <1>2, <2>1, <2>4
  <2> QED BY <2>3, <2>4
<1>9. \/ UNCHANGED <<esc, merged>>
      \/ \E s \in Sessions :
           \/ HandBack(s) \/ GatewayWithdraw(s)
           \/ \E t, u \in Tickets : EscalateTicket(s, t, u) \/ MergeTickets(s, t, u)
  BY DEF Next, Begin, Continue, Abandon, PartnerChanges, vars, rows, CreateTicket,
         RequesterUpdate, StartUpdate, StartResolve, StartReturn, StartWithdraw, Start,
         UpdateListLinks, ResolveListLinks, ReturnListLinks, WithdrawListLinks, Save
<1> QED BY <1>4, <1>5, <1>6, <1>7, <1>8, <1>9

\* A waiter is never lost or misrouted: its escalation points at the ticket that
\* was created for it or at one that ticket was merged into.
THEOREM EscalationsFollowMerges == Spec => []EscalationFollowsMerges
<1>1. Init => EscalationFollowsMerges
  BY DEF Init, EscalationFollowsMerges
<1>2. RowsInv /\ EscalationFollowsMerges /\ [Next]_vars => EscalationFollowsMerges'
  BY FollowsStep
<1> QED BY <1>1, <1>2, RowsInvInit, RowsInvNext, PTL DEF Spec

-------------------------------------------------------------------------------
(* What the steps of the workflow do to tickets and their escalations.         *)

\* What a call knows of its ticket until somebody overtakes it.
CallKnows(s) ==
  LET c == sess[s]
      t == c.on
  IN  /\ c.pc = "withdraw" => c.op = "withdraw"
      /\ c.pc \in {"listLinks", "save", "withdraw"} => c.row = Status(t)
      /\ c.op \in {"update", "resolve", "return"} =>
           c.put = c.row \/ CanChangeStatus(c.row, c.put)
      /\ c.op = "update" /\ c.pc = "save" /\ c.put \in STOPPED_STATUSES =>
           c.put = c.row \/ Inbound(t) = {}
      /\ c.op = "resolve" /\ c.pc = "save" => c.plan = Inbound(t)
      /\ c.op = "return" /\ c.pc = "save" => c.plan # {}
      /\ c.op = "withdraw" => c.row = "waiting_on_upstream" /\ c.put = "in_progress"
      /\ c.op = "withdraw" /\ c.pc = "save" => Outbound(t) = {}
      /\ c.op = "withdraw" /\ c.pc = "withdraw" => c.plan = Outbound(t)

\* The rows are in order, those of X apart: what WaitingMatchesEscalation and
\* MergedStaysMerged say of the tickets that were not saved over.
WaitsOrdered(X) ==
  \A t \in Tickets \ X :
    /\ Outbound(t) # {} => Status(t) = "waiting_on_upstream"
    /\ Status(t) = "waiting_on_upstream" /\ Outbound(t) = {} =>
         \E l \in Tickets : esc[l].from = t /\ esc[l].state = "withdrawn"
MergesOrdered(X) ==
  \A m \in merged :
    m[1] \notin X =>
      /\ Status(m[1]) = "closed"
      /\ Inbound(m[1]) = {}
      /\ \A n \in merged : n[1] = m[1] => n[2] = m[2]
Ordered(X) == WaitsOrdered(X) /\ MergesOrdered(X)

\* What a step may do to a ticket only by overwriting what it did not read.
Orderly ==
  \A t \in Tickets :
    /\ Status(t) = "waiting_on_upstream" /\ Status(t)' # "waiting_on_upstream" =>
         Outbound(t)' = {}
    /\ Status(t) = "closed" => Status(t)' = "closed"

\* Such a step leaves tickets alone that others closed or put on hold, and
\* keeps the rows in order that are.
KeepsOrder == Orderly /\ \A X : Ordered(X) => Ordered(X)'

\* The table has no way out of a closed ticket, nor into or out of a waiting one.
LEMMA TableFacts ==
  ASSUME NEW from \in TicketStatusSet, NEW to, CanChangeStatus(from, to)
  PROVE  /\ from \notin {"closed", "waiting_on_upstream"}
         /\ to # "waiting_on_upstream" /\ to \in TicketStatusSet
BY DEF CanChangeStatus, MANUAL_TRANSITIONS, TicketStatusSet

\* An active link's ends.
LEMMA ActiveEnds ==
  ASSUME TypeOK, NEW l \in Tickets, Active(l)
  PROVE  /\ esc[l] \in LinkRow /\ esc[l].from \in Tickets /\ esc[l].to \in Tickets
         /\ l \in Outbound(esc[l].from) /\ l \in Inbound(esc[l].to)
BY LinkTyped DEF LinkRow, Outbound, Inbound

\* A status is written into a row that nothing waits for, or that has nothing
\* left to wait for.
LEMMA WriteIsOrderly ==
  ASSUME LinksInv, NEW t \in Tickets, NEW status,
         ticket' = SetStatus(t, status), Exists(t), UNCHANGED <<esc, merged>>,
         \/ status = Status(t)
         \/ /\ status # "waiting_on_upstream" /\ Status(t) # "closed"
            /\ Status(t) = "waiting_on_upstream" => Outbound(t) = {}
  PROVE  KeepsOrder
<1>1. ticket[t] \in TicketRow /\ ticket \in [Tickets -> TicketRow \cup {NoTicket}]
  BY RowTyped DEF LinksInv, RowsInv, TypeOK
<1>2. \A u \in Tickets : Status(u)' = IF u = t THEN status ELSE Status(u)
  BY <1>1 DEF SetStatus, Status, TicketRow
<1>3. \A u : Outbound(u)' = Outbound(u) /\ Inbound(u)' = Inbound(u)
  BY DEF Outbound, Inbound, Active
<1>4. merged \subseteq Tickets \X Tickets
  BY DEF LinksInv, RowsInv, TypeOK
<1>5. \A X : Ordered(X) => WaitsOrdered(X)'
  BY <1>2, <1>3 DEF Ordered, WaitsOrdered
<1>6. \A X : Ordered(X) => MergesOrdered(X)'
  BY <1>2, <1>3, <1>4 DEF Ordered, MergesOrdered
<1>7. Orderly
  BY <1>2, <1>3 DEF Orderly
<1> QED BY <1>5, <1>6, <1>7 DEF KeepsOrder, Ordered

\* A new row.
LEMMA CreateIsOrderly ==
  ASSUME LinksInv, NEW s \in Sessions, NEW t \in Tickets, NEW o,
         CreateTicket(s, t, o)
  PROVE  KeepsOrder
<1>1. TypeOK /\ LinksNameRows /\ EscalationAscends
  BY DEF LinksInv, RowsInv
<1>2. /\ Status(t) = "absent" /\ UNCHANGED <<esc, merged>>
      /\ \A u \in Tickets : Status(u)' = IF u = t THEN "open" ELSE Status(u)
  BY <1>1 DEF CreateTicket, Exists, Status, TypeOK
<1>3. \A u : Outbound(u)' = Outbound(u) /\ Inbound(u)' = Inbound(u)
  BY <1>2 DEF Outbound, Inbound, Active
<1>4. Outbound(t) = {}
  BY <1>1, <1>2 DEF Outbound, Active, EscalationAscends, Exists, NoLink
<1>5. \A X : Ordered(X) => WaitsOrdered(X)'
  BY <1>2, <1>3, <1>4 DEF Ordered, WaitsOrdered
<1>6. \A X : Ordered(X) => MergesOrdered(X)'
  <2>1. merged \subseteq Tickets \X Tickets
    BY <1>1 DEF TypeOK
  <2> QED BY <1>2, <1>3, <2>1 DEF Ordered, MergesOrdered
<1>7. Orderly
  BY <1>2 DEF Orderly
<1> QED BY <1>5, <1>6, <1>7 DEF KeepsOrder, Ordered

\* Those who waited for what is answered resume, and nobody else.
LEMMA HandBackIsOrderly ==
  ASSUME LinksInv, NEW s \in Sessions, HandBack(s)
  PROVE  KeepsOrder
<1> DEFINE plan == sess[s].plan
<1>1. TypeOK /\ OneActiveEscalation /\ plan \in SUBSET Tickets
  BY CallTyped DEF LinksInv, RowsInv, TypeOK, Call, Idle
<1>2. merged \subseteq Tickets \X Tickets /\ UNCHANGED merged
  BY <1>1 DEF TypeOK, HandBack
<1>3. CASE UNCHANGED <<esc, ticket>>
  BY <1>2, <1>3 DEF KeepsOrder, Ordered, WaitsOrdered, MergesOrdered, Orderly,
     Outbound, Inbound, Active, Status
<1>4. CASE /\ \A l \in plan : MayHandBack(l, Outcome(s))
           /\ esc' = [l \in Tickets |->
                IF l \in plan THEN [esc[l] EXCEPT !.state = Outcome(s)] ELSE esc[l]]
           /\ ticket' = [t \in Tickets |->
                IF t \in Resumed(plan) THEN [ticket[t] EXCEPT !.status = "in_progress"]
                ELSE ticket[t]]
  <2>1. ASSUME NEW l \in plan
        PROVE  /\ Active(l) /\ ~Active(l)' /\ esc'[l].state # "withdrawn"
    <3>1. Active(l) /\ esc[l] \in LinkRow
      BY <1>1, <1>4, ActiveEnds DEF MayHandBack
    <3>2. esc'[l].state = Outcome(s)
      BY <1>1, <1>4, <3>1 DEF LinkRow
    <3> QED BY <3>1, <3>2 DEF Active, Outcome
  <2>2. \A l \in Tickets \ plan : esc'[l] = esc[l]
    BY <1>4
  <2>3. \A u \in Tickets : Outbound(u)' = Outbound(u) \ plan /\ Inbound(u)' = Inbound(u) \ plan
    BY <2>1, <2>2 DEF Outbound, Inbound, Active
  <2>4. \A u \in Tickets :
          Status(u)' = IF u \in Resumed(plan) THEN "in_progress" ELSE Status(u)
    <3> SUFFICES ASSUME NEW u \in Tickets
                 PROVE  Status(u)' = IF u \in Resumed(plan) THEN "in_progress" ELSE Status(u)
      OBVIOUS
    <3>1. CASE u \in Resumed(plan)
      <4>1. ticket[u] \in TicketRow
        BY <1>1, <3>1, RowTyped DEF Resumed, Exists, Status
      <4> QED BY <1>4, <3>1, <4>1 DEF Status, TicketRow
    <3>2. CASE u \notin Resumed(plan)
      BY <1>4, <3>2 DEF Status
    <3> QED BY <3>1, <3>2
  <2>5. ASSUME NEW u \in Tickets
        PROVE  u \in Resumed(plan) <=>
                 Status(u) = "waiting_on_upstream" /\ Outbound(u) \cap plan # {}
    BY <1>1, <2>1 DEF Resumed, Outbound
  <2>6. \A u \in Tickets : Outbound(u) \cap plan # {} => Outbound(u)' = {}
    BY <1>1, <2>3 DEF OneActiveEscalation
  <2>7. \A l \in Tickets : esc[l].state = "withdrawn" => esc'[l] = esc[l]
    BY <2>1, <2>2 DEF Active
  <2>8. \A X : Ordered(X) => WaitsOrdered(X)'
    <3> SUFFICES ASSUME NEW X, Ordered(X), NEW u \in Tickets \ X
                 PROVE  /\ Outbound(u)' # {} => Status(u)' = "waiting_on_upstream"
                        /\ Status(u)' = "waiting_on_upstream" /\ Outbound(u)' = {} =>
                             \E l \in Tickets : esc'[l].from = u /\ esc'[l].state = "withdrawn"
      BY DEF WaitsOrdered
    <3>1. Outbound(u)' # {} => Status(u)' = "waiting_on_upstream"
      BY <2>3, <2>4, <2>5, <2>6 DEF Ordered, WaitsOrdered
    <3>2. ASSUME Status(u)' = "waiting_on_upstream", Outbound(u)' = {}
          PROVE  \E l \in Tickets : esc'[l].from = u /\ esc'[l].state = "withdrawn"
      <4>1. Status(u) = "waiting_on_upstream" /\ Outbound(u) = {}
        BY <2>3, <2>4, <2>5, <3>2
      <4> QED BY <2>7, <4>1 DEF Ordered, WaitsOrdered
    <3> QED BY <3>1, <3>2
  <2>9. \A X : Ordered(X) => MergesOrdered(X)'
    BY <1>2, <2>3, <2>4, <2>5 DEF Ordered, MergesOrdered
  <2>10. Orderly
    BY <2>4, <2>5, <2>6 DEF Orderly
  <2> QED BY <2>8, <2>9, <2>10 DEF KeepsOrder, Ordered
<1> QED BY <1>3, <1>4 DEF HandBack

\* What is withdrawn closes a ticket that waits for nobody.
LEMMA WithdrawIsOrderly ==
  ASSUME LinksInv, NEW l \in Tickets, MayWithdraw(l), NEW t, t = esc[l].from,
         esc' = [esc EXCEPT ![l].state = "withdrawn"],
         ticket' = SetStatus(esc[l].to, "closed"), UNCHANGED merged
  PROVE  /\ KeepsOrder
         /\ Outbound(t)' = {} /\ Status(t)' = Status(t)
<1> DEFINE u == esc[l].to
<1>1. TypeOK /\ OneActiveEscalation /\ EscalationAscends
  BY DEF LinksInv, RowsInv
<1>2. /\ Active(l) /\ Outbound(u) = {} /\ esc[l] \in LinkRow /\ t \in Tickets /\ u \in Tickets
      /\ l \in Outbound(t)
  BY <1>1, ActiveEnds DEF MayWithdraw
<1>3. Exists(u) /\ ticket[u] \in TicketRow
  BY <1>1, <1>2, RowTyped DEF EscalationAscends, Active, NoLink
<1>4. \A v \in Tickets : Status(v)' = IF v = u THEN "closed" ELSE Status(v)
  BY <1>1, <1>3 DEF SetStatus, Status, TicketRow, TypeOK
<1>5. /\ esc'[l].state = "withdrawn" /\ esc'[l].from = t
      /\ \A k \in Tickets : k # l => esc'[k] = esc[k]
  BY <1>1, <1>2 DEF TypeOK, LinkRow
<1>6. \A v \in Tickets : Outbound(v)' = Outbound(v) \ {l} /\ Inbound(v)' = Inbound(v) \ {l}
  BY <1>5 DEF Outbound, Inbound, Active
<1>7. Outbound(t)' = {} /\ t # u
  BY <1>1, <1>2, <1>6 DEF OneActiveEscalation
<1>8. \A k \in Tickets : esc[k].state = "withdrawn" => esc'[k] = esc[k]
  BY <1>2, <1>5 DEF Active
<1>9. \A X : Ordered(X) => WaitsOrdered(X)'
  <2> SUFFICES ASSUME NEW X, Ordered(X), NEW v \in Tickets \ X
               PROVE  /\ Outbound(v)' # {} => Status(v)' = "waiting_on_upstream"
                      /\ Status(v)' = "waiting_on_upstream" /\ Outbound(v)' = {} =>
                           \E k \in Tickets : esc'[k].from = v /\ esc'[k].state = "withdrawn"
    BY DEF WaitsOrdered
  <2>1. Outbound(v)' # {} => Status(v)' = "waiting_on_upstream"
    BY <1>2, <1>4, <1>6 DEF Ordered, WaitsOrdered
  <2>2. CASE v = t
    <3>1. esc'[l].from = v /\ esc'[l].state = "withdrawn"
      BY <1>5, <2>2
    <3> QED BY <2>1, <3>1
  <2>3. CASE v # t /\ Status(v)' = "waiting_on_upstream" /\ Outbound(v)' = {}
    <3>1. l \notin Outbound(v)
      BY <2>3 DEF Outbound
    <3>2. Outbound(v) = {}
      BY <1>6, <2>3, <3>1
    <3>3. Status(v) = "waiting_on_upstream"
      BY <1>4, <2>3
    <3>4. PICK k \in Tickets : esc[k].from = v /\ esc[k].state = "withdrawn"
      BY <3>2, <3>3 DEF Ordered, WaitsOrdered
    <3>5. esc'[k] = esc[k]
      BY <1>8, <3>4
    <3> QED BY <2>1, <3>4, <3>5
  <2> QED BY <2>1, <2>2, <2>3
<1>10. \A X : Ordered(X) => MergesOrdered(X)'
  <2>1. merged \subseteq Tickets \X Tickets
    BY <1>1 DEF TypeOK
  <2> QED BY <1>4, <1>6, <2>1 DEF Ordered, MergesOrdered
<1>11. Orderly
  BY <1>2, <1>4, <1>6 DEF Orderly
<1> QED BY <1>2, <1>4, <1>7, <1>9, <1>10, <1>11 DEF KeepsOrder, Ordered

\* Whoever escalates waits from then on.
LEMMA EscalateIsOrderly ==
  ASSUME LinksInv, NEW s \in Sessions, NEW t \in Tickets, NEW up \in Tickets,
         EscalateTicket(s, t, up)
  PROVE  KeepsOrder
<1>1. TypeOK /\ LinksNameRows /\ EscalationAscends
  BY DEF LinksInv, RowsInv
<1>2. /\ CanEscalate(Status(t)) /\ Outbound(t) = {} /\ Status(up) = "absent" /\ UNCHANGED merged
      /\ Status(t) \notin {"closed", "waiting_on_upstream", "absent"}
  BY DEF EscalateTicket, MayEscalate, Exists, CanEscalate, ESCALATABLE
<1>3. \A v \in Tickets : Status(v)' = IF v = t THEN "waiting_on_upstream"
                                      ELSE IF v = up THEN "open" ELSE Status(v)
  BY <1>1, <1>2, RowTyped DEF EscalateTicket, UpstreamTicket, Status, TypeOK, Exists, TicketRow
<1>4. /\ esc[up] = NoLink /\ esc'[up] = [state |-> "active", from |-> t, to |-> up]
      /\ \A k \in Tickets : k # up => esc'[k] = esc[k]
  BY <1>1, <1>2 DEF EscalateTicket, LinksNameRows, Exists, TypeOK
<1>5. up \notin Outbound(up) /\ Outbound(up) = {} /\ t # up
  BY <1>1, <1>2 DEF Outbound, Active, EscalationAscends, Exists, NoLink
<1>6. /\ \A v \in Tickets : v # t => Outbound(v)' = Outbound(v)
      /\ Outbound(t)' = {up}
      /\ \A v \in Tickets : v # up => Inbound(v)' = Inbound(v)
  BY <1>2, <1>4 DEF Outbound, Inbound, Active, NoLink
<1>7. \A k \in Tickets : esc[k].state = "withdrawn" => esc'[k] = esc[k]
  BY <1>4 DEF NoLink
<1>8. \A X : Ordered(X) => WaitsOrdered(X)'
  BY <1>2, <1>3, <1>5, <1>6, <1>7 DEF Ordered, WaitsOrdered
<1>9. \A X : Ordered(X) => MergesOrdered(X)'
  <2>1. merged \subseteq Tickets \X Tickets
    BY <1>1 DEF TypeOK
  <2> QED BY <1>2, <1>3, <1>6, <2>1 DEF Ordered, MergesOrdered
<1>10. Orderly
  BY <1>2, <1>3 DEF Orderly
<1> QED BY <1>8, <1>9, <1>10 DEF KeepsOrder, Ordered

\* A master is never a duplicate, as duplicates are closed.
LEMMA MergeIsOrderly ==
  ASSUME LinksInv, NEW s \in Sessions, NEW dup \in Tickets, NEW master \in Tickets,
         MergeTickets(s, dup, master)
  PROVE  KeepsOrder
<1>1. TypeOK /\ merged \subseteq Tickets \X Tickets
  BY DEF LinksInv, RowsInv, TypeOK
<1>2. /\ dup # master /\ Exists(dup) /\ Status(dup) \notin {"closed", "waiting_on_upstream"}
      /\ Status(master) # "closed" /\ merged' = merged \cup {<<dup, master>>}
      /\ ticket' = SetStatus(dup, "closed") /\ esc' = Repoint(dup, master)
  BY DEF MergeTickets, MayMerge
<1>3. \A v \in Tickets : Status(v)' = IF v = dup THEN "closed" ELSE Status(v)
  BY <1>1, <1>2, RowTyped DEF SetStatus, Status, TypeOK, TicketRow
<1>4. ASSUME NEW l \in Tickets
      PROVE  /\ esc'[l].state = esc[l].state /\ esc'[l].from = esc[l].from
             /\ l \in Inbound(dup) => esc'[l].to = master
             /\ l \notin Inbound(dup) => esc'[l] = esc[l]
  <2>1. CASE l \in Inbound(dup)
    <3>1. esc[l] \in LinkRow
      BY <1>1, <2>1, ActiveEnds DEF Inbound
    <3> QED BY <1>2, <2>1, <3>1 DEF Repoint, LinkRow
  <2>2. CASE l \notin Inbound(dup)
    BY <1>2, <2>2 DEF Repoint
  <2> QED BY <2>1, <2>2
<1>5. /\ \A v \in Tickets : Outbound(v)' = Outbound(v)
      /\ Inbound(dup)' = {}
      /\ \A v \in Tickets : v # master => Inbound(v)' \subseteq Inbound(v)
  BY <1>2, <1>4 DEF Outbound, Inbound, Active
<1>6. \A X : Ordered(X) => WaitsOrdered(X)'
  BY <1>2, <1>3, <1>4, <1>5 DEF Ordered, WaitsOrdered
<1>7. \A X : Ordered(X) =>
        \A m \in merged : m[1] \notin X => m[1] # dup /\ m[1] # master /\ m[1] \in Tickets
  BY <1>1, <1>2 DEF Ordered, MergesOrdered
<1>8. \A m \in merged' : m \in merged \/ (m[1] = dup /\ m[2] = master)
  BY <1>2
<1>9. \A X : Ordered(X) => MergesOrdered(X)'
  BY <1>3, <1>5, <1>7, <1>8 DEF Ordered, MergesOrdered
<1>10. Orderly
  BY <1>2, <1>3 DEF Orderly
<1> QED BY <1>6, <1>9, <1>10 DEF KeepsOrder, Ordered

-------------------------------------------------------------------------------
(* What a call knows stays true until it writes. *)

\* A session with no call knows nothing, and a call that starts knows the row.
LEMMA IdleKnows ==
  ASSUME NEW s \in Sessions, sess'[s] = Idle
  PROVE  CallKnows(s)'
BY DEF CallKnows, Idle

LEMMA StartKnows ==
  ASSUME TypeOK, NEW s \in Sessions, NEW op, NEW t \in Tickets, NEW put, NEW pc,
         Start(s, op, t, put, pc),
         op \in {"update", "resolve", "return"} => put = Status(t) \/ CanChangeStatus(Status(t), put),
         op = "update" /\ pc = "save" => put = Status(t) \/ put \notin STOPPED_STATUSES,
         op \in {"resolve", "return"} => pc = "listLinks", pc # "withdraw",
         op = "withdraw" =>
           pc = "listLinks" /\ put = "in_progress" /\ Status(t) = "waiting_on_upstream"
  PROVE  CallKnows(s)'
<1>1. sess'[s] = [op |-> op, pc |-> pc, on |-> t, row |-> Status(t), put |-> put, plan |-> {}]
  BY DEF Start, TypeOK
<1>2. UNCHANGED ticket
  BY DEF Start, rows
<1> QED BY <1>1, <1>2 DEF CallKnows, Status

\* A call goes on with a plan read off the links.
LEMMA GoToKnows ==
  ASSUME TypeOK, NEW s \in Sessions, CallKnows(s), NEW pc, NEW plan, GoTo(s, pc, plan),
         sess[s].pc = "listLinks", UNCHANGED rows,
         sess[s].op = "update" /\ pc = "save" => Inbound(sess[s].on) = {},
         sess[s].op = "resolve" /\ pc = "save" => plan = Inbound(sess[s].on),
         sess[s].op = "return" /\ pc = "save" => plan # {},
         pc = "withdraw" => sess[s].op = "withdraw",
         sess[s].op = "withdraw" =>
           /\ pc = "save" => Outbound(sess[s].on) = {}
           /\ pc = "withdraw" => plan = Outbound(sess[s].on)
  PROVE  CallKnows(s)'
<1>1. sess[s] \in Call
  BY CallTyped DEF Idle
<1>2. /\ sess'[s].op = sess[s].op /\ sess'[s].on = sess[s].on /\ sess'[s].row = sess[s].row
      /\ sess'[s].put = sess[s].put /\ sess'[s].pc = pc /\ sess'[s].plan = plan
  BY <1>1 DEF GoTo, TypeOK, Call
<1>3. UNCHANGED <<ticket, esc>>
  BY DEF rows
<1>4. \A t : Inbound(t)' = Inbound(t) /\ Outbound(t)' = Outbound(t) /\ Status(t)' = Status(t)
  BY <1>3 DEF Inbound, Outbound, Active, Status
<1> QED BY <1>2, <1>4 DEF CallKnows

\* Every step of a session leaves its call knowing its ticket.
LEMMA BeginKnows ==
  ASSUME TypeOK, NEW s \in Sessions, Begin(s)
  PROVE  CallKnows(s)'
<1>1. CASE UNCHANGED sess /\ sess[s] = Idle
  BY <1>1, IdleKnows
<1>2. ASSUME NEW t \in Tickets, NEW status, StartUpdate(s, t, status) PROVE CallKnows(s)'
  BY <1>2, StartKnows DEF StartUpdate
<1>3. ASSUME NEW t \in Tickets, StartResolve(s, t) PROVE CallKnows(s)'
  BY <1>3, StartKnows DEF StartResolve
<1>4. ASSUME NEW t \in Tickets, StartReturn(s, t) PROVE CallKnows(s)'
  BY <1>4, StartKnows DEF StartReturn
<1>5. ASSUME NEW t \in Tickets, StartWithdraw(s, t) PROVE CallKnows(s)'
  BY <1>5, StartKnows DEF StartWithdraw
<1> QED BY <1>1, <1>2, <1>3, <1>4, <1>5
        DEF Begin, CreateTicket, RequesterUpdate, EscalateTicket, MergeTickets

LEMMA ContinueKnows ==
  ASSUME LinksInv, NEW s \in Sessions, CallKnows(s), Continue(s)
  PROVE  CallKnows(s)'
<1>1. TypeOK
  BY DEF LinksInv, RowsInv
<1>2. CASE Finish(s)
  BY <1>1, <1>2, IdleKnows DEF Finish, TypeOK
<1>3. CASE UpdateListLinks(s)
  BY <1>1, <1>2, <1>3, GoToKnows DEF UpdateListLinks, At
<1>4. CASE ResolveListLinks(s)
  BY <1>1, <1>2, <1>4, GoToKnows DEF ResolveListLinks, AfterPlan, At
<1>5. CASE ReturnListLinks(s)
  BY <1>1, <1>2, <1>5, GoToKnows DEF ReturnListLinks, AfterPlan, At
<1>6. CASE WithdrawListLinks(s)
  <2>1. UNCHANGED rows /\ At(s, "withdraw", "listLinks")
    BY <1>6 DEF WithdrawListLinks
  <2>2. CASE Outbound(sess[s].on) = {} /\ GoTo(s, "save", {})
    BY <1>1, <2>1, <2>2, GoToKnows DEF At
  <2>3. CASE GoTo(s, "withdraw", Outbound(sess[s].on))
    BY <1>1, <2>1, <2>3, GoToKnows DEF At
  <2> QED BY <1>6, <2>2, <2>3 DEF WithdrawListLinks
<1>7. CASE Save(s)
  <2>1. CASE GoTo(s, "handBack", sess[s].plan) /\ sess[s].op \in {"resolve", "return"}
    <3>1. sess[s] \in Call
      BY <1>1, <1>7, CallTyped DEF Save, Idle
    <3>2. /\ sess'[s].op = sess[s].op /\ sess'[s].pc = "handBack"
          /\ sess'[s].put = sess[s].put /\ sess'[s].row = sess[s].row
      BY <1>1, <2>1, <3>1 DEF GoTo, TypeOK, Call
    <3> QED BY <2>1, <3>2 DEF CallKnows
  <2> QED BY <1>2, <1>7, <2>1 DEF Save
<1>8. CASE HandBack(s)
  BY <1>2, <1>8 DEF HandBack
<1>9. CASE GatewayWithdraw(s)
  <2>1. sess[s] \in Call /\ sess[s].pc = "withdraw"
    BY <1>1, <1>9, CallTyped DEF GatewayWithdraw, Idle
  <2>2. PICK t \in Tickets : t = sess[s].on
    BY <2>1 DEF Call
  <2>3. ASSUME NEW l \in sess[s].plan, MayWithdraw(l),
               esc' = [esc EXCEPT ![l].state = "withdrawn"],
               ticket' = SetStatus(esc[l].to, "closed"),
               GoTo(s, "save", sess[s].plan)
        PROVE  CallKnows(s)'
    <3>1. /\ sess[s].op = "withdraw" /\ sess[s].put = "in_progress"
          /\ sess[s].row = "waiting_on_upstream" /\ l \in Outbound(t)
      BY <2>1, <2>2, <2>3 DEF CallKnows
    <3>2. l \in Tickets /\ esc[l].from = t
      BY <3>1 DEF Outbound
    <3>3. Outbound(t)' = {} /\ Status(t)' = Status(t)
      BY <1>9, <2>2, <2>3, <3>2, WithdrawIsOrderly DEF GatewayWithdraw
    <3>4. /\ sess'[s].op = "withdraw" /\ sess'[s].pc = "save" /\ sess'[s].on = t
          /\ sess'[s].put = "in_progress" /\ sess'[s].row = "waiting_on_upstream"
      BY <1>1, <2>1, <2>2, <2>3, <3>1 DEF GoTo, TypeOK, Call
    <3> QED BY <2>1, <2>2, <3>3, <3>4 DEF CallKnows
  <2> QED BY <1>2, <1>9, <2>3 DEF GatewayWithdraw
<1> QED BY <1>3, <1>4, <1>5, <1>6, <1>7, <1>8, <1>9 DEF Continue

\* A session moves in its own steps only.
LEMMA OnlyOwnSteps ==
  ASSUME TypeOK, Next, NEW s \in Sessions, sess'[s] # sess[s]
  PROVE  Begin(s) \/ Continue(s) \/ Abandon(s)
<1>1. PICK r \in Sessions : Begin(r) \/ Continue(r) \/ Abandon(r)
  BY DEF Next, PartnerChanges
<1>2. sess' = sess \/ \E c : sess' = [sess EXCEPT ![r] = c]
  <2>1. CASE Begin(r)
    BY <2>1 DEF Begin, CreateTicket, RequesterUpdate, StartUpdate, StartResolve, StartReturn,
       StartWithdraw, Start, EscalateTicket, MergeTickets
  <2>2. CASE Abandon(r)
    BY <2>2 DEF Abandon, Finish
  <2>3. CASE Continue(r)
    <3>1. (\E pc, plan : GoTo(r, pc, plan)) \/ Finish(r)
      BY <2>3 DEF Continue, UpdateListLinks, ResolveListLinks, ReturnListLinks,
         WithdrawListLinks, AfterPlan, Save, HandBack, GatewayWithdraw
    <3> QED BY <3>1 DEF GoTo, Finish
  <2> QED BY <1>1, <2>1, <2>2, <2>3
<1>3. r = s
  BY <1>2 DEF TypeOK
<1> QED BY <1>1, <1>3

\* What a call knows does not change in a step that leaves the call and what it
\* has read alone.
LEMMA ReadKnows ==
  ASSUME NEW s \in Sessions, CallKnows(s), sess'[s] = sess[s],
         HasRead(s)' = HasRead(s)
  PROVE  CallKnows(s)'
<1>1. Status(sess[s].on)' = Status(sess[s].on)
  BY DEF HasRead
<1>2. sess[s].pc # "listLinks" =>
        Inbound(sess[s].on)' = Inbound(sess[s].on) /\ Outbound(sess[s].on)' = Outbound(sess[s].on)
  BY DEF HasRead
<1> QED BY <1>1, <1>2 DEF CallKnows

-------------------------------------------------------------------------------
(* The steps *)

\* What a call that knows its ticket saves.
LEMMA SaveFacts ==
  ASSUME TypeOK, NEW s \in Sessions, Save(s), CallKnows(s), NEW t, t = sess[s].on
  PROVE  /\ t \in Tickets /\ Exists(t)
         /\ ticket' = SetStatus(t, sess[s].put) /\ UNCHANGED <<esc, merged>>
         /\ \/ sess[s].put = Status(t)
            \/ /\ sess[s].put # "waiting_on_upstream" /\ Status(t) # "closed"
               /\ Status(t) = "waiting_on_upstream" => Outbound(t) = {}
<1> DEFINE put == sess[s].put
<1>1. sess[s] \in Call /\ sess[s].pc = "save"
  BY CallTyped DEF Save, Idle
<1>2. /\ t \in Tickets /\ Status(t) \in TicketStatusSet /\ Status(t) = sess[s].row
      /\ sess[s].op \in {"update", "resolve", "return", "withdraw"}
  BY <1>1 DEF CallKnows, Call
<1>3. Exists(t)
  BY <1>2 DEF Exists, TicketStatusSet
<1>4. \/ put = Status(t)
      \/ /\ put # "waiting_on_upstream" /\ Status(t) # "closed"
         /\ Status(t) = "waiting_on_upstream" => Outbound(t) = {}
  BY <1>1, <1>2, TableFacts DEF CallKnows
<1>5. ticket' = SetStatus(t, put) /\ UNCHANGED <<esc, merged>>
  BY DEF Save
<1> HIDE DEF put
<1> QED BY <1>2, <1>3, <1>4, <1>5 DEF put

\* No step disorders the rows, if whoever saves knows the ticket.
LEMMA RowsStep ==
  ASSUME LinksInv, Next, \A s \in Sessions : Save(s) => CallKnows(s)
  PROVE  KeepsOrder
<1>1. TypeOK
  BY DEF LinksInv, RowsInv
<1>2. CASE UNCHANGED <<ticket, esc, merged>>
  BY <1>2 DEF KeepsOrder, Ordered, WaitsOrdered, MergesOrdered, Orderly, Outbound, Inbound,
     Active, Status
<1>3. ASSUME NEW s \in Sessions, NEW t \in Tickets, NEW o, CreateTicket(s, t, o)
      PROVE  KeepsOrder
  BY <1>3, CreateIsOrderly
<1>4. ASSUME NEW s \in Sessions, NEW t \in Tickets, NEW status, RequesterUpdate(s, t, status)
      PROVE  KeepsOrder
  <2>1. Exists(t) /\ Status(t) \notin {"closed", "waiting_on_upstream"}
        /\ status # "waiting_on_upstream"
    BY <1>4 DEF RequesterUpdate, Exists
  <2> QED BY <1>4, <2>1, WriteIsOrderly DEF RequesterUpdate
<1>5. ASSUME NEW s \in Sessions, NEW t \in Tickets, NEW up \in Tickets, EscalateTicket(s, t, up)
      PROVE  KeepsOrder
  BY <1>5, EscalateIsOrderly
<1>6. ASSUME NEW s \in Sessions, NEW t \in Tickets, NEW u \in Tickets, MergeTickets(s, t, u)
      PROVE  KeepsOrder
  BY <1>6, MergeIsOrderly
<1>7. ASSUME NEW s \in Sessions, Save(s)
      PROVE  KeepsOrder
  <2> DEFINE t == sess[s].on
             put == sess[s].put
  <2>1. /\ t \in Tickets /\ Exists(t)
        /\ ticket' = SetStatus(t, put) /\ UNCHANGED <<esc, merged>>
        /\ \/ put = Status(t)
           \/ /\ put # "waiting_on_upstream" /\ Status(t) # "closed"
              /\ Status(t) = "waiting_on_upstream" => Outbound(t) = {}
    BY <1>1, <1>7, SaveFacts
  <2> HIDE DEF t, put
  <2> QED BY <2>1, WriteIsOrderly
<1>8. ASSUME NEW s \in Sessions, HandBack(s)
      PROVE  KeepsOrder
  BY <1>8, HandBackIsOrderly
<1>9. ASSUME NEW s \in Sessions, GatewayWithdraw(s)
      PROVE  KeepsOrder
  <2>1. sess[s].plan \subseteq Tickets
    BY <1>1, <1>9, CallTyped DEF GatewayWithdraw, Idle, Call
  <2>2. ASSUME NEW l \in sess[s].plan, MayWithdraw(l),
               esc' = [esc EXCEPT ![l].state = "withdrawn"],
               ticket' = SetStatus(esc[l].to, "closed"), UNCHANGED merged
        PROVE  KeepsOrder
    BY <2>1, <2>2, WithdrawIsOrderly
  <2> QED BY <1>2, <1>9, <2>2 DEF GatewayWithdraw
<1>10. ASSUME NEW s \in Sessions, Begin(s)
       PROVE  KeepsOrder
  BY <1>2, <1>3, <1>4, <1>5, <1>6, <1>10
     DEF Begin, StartUpdate, StartResolve, StartReturn, StartWithdraw, Start, rows
<1>11. ASSUME NEW s \in Sessions, Continue(s)
       PROVE  KeepsOrder
  BY <1>2, <1>7, <1>8, <1>9, <1>11
     DEF Continue, UpdateListLinks, ResolveListLinks, ReturnListLinks, WithdrawListLinks, rows
<1> QED BY <1>2, <1>10, <1>11 DEF Next, Abandon, PartnerChanges, rows

\* A call's own step leaves it knowing its ticket.
LEMMA OwnStepKnows ==
  ASSUME LinksInv, Next, NEW s \in Sessions, CallKnows(s), sess'[s] # sess[s]
  PROVE  CallKnows(s)'
<1>1. TypeOK
  BY DEF LinksInv, RowsInv
<1>2. CASE Begin(s)
  BY <1>1, <1>2, BeginKnows
<1>3. CASE Continue(s)
  BY <1>3, ContinueKnows
<1>4. CASE Abandon(s)
  BY <1>1, <1>4, IdleKnows DEF Abandon, Finish, TypeOK
<1> QED BY <1>1, <1>2, <1>3, <1>4, OnlyOwnSteps

-------------------------------------------------------------------------------
(* Any number of sessions, and who is overtaken.                               *)

\* The inductive invariant.
RaceInv ==
  /\ LinksInv
  /\ overtaken \subseteq Sessions
  /\ \A s \in Sessions \ overtaken : CallKnows(s)
  /\ Ordered(overwritten)

LEMMA RaceInvInit == RaceInit => RaceInv
<1> SUFFICES ASSUME RaceInit PROVE RaceInv
  OBVIOUS
<1>1. ASSUME NEW s \in Sessions PROVE CallKnows(s)
  BY DEF RaceInit, Init, CallKnows, Idle
<1>2. Ordered(overwritten)
  BY DEF RaceInit, Init, Ordered, WaitsOrdered, MergesOrdered, Outbound, Active, Status,
     NoLink, NoTicket
<1> QED BY <1>1, <1>2, LinksInvInit DEF RaceInit, RaceInv

\* Whoever is not overtaken still knows its ticket.
LEMMA RaceKnows ==
  ASSUME RaceInv, RaceNext, NEW s \in Sessions \ overtaken'
  PROVE  CallKnows(s)'
<1>1. TypeOK /\ LinksInv /\ Next /\ ~OvertakenNow(s)
  BY DEF RaceInv, RaceNext, LinksInv, RowsInv
<1>2. CASE sess'[s] = Idle
  BY <1>2, IdleKnows
<1>3. CASE sess[s] = Idle /\ sess'[s] # Idle
  <2>1. CallKnows(s)
    BY <1>3 DEF CallKnows, Idle
  <2> QED BY <1>1, <1>3, <2>1, OwnStepKnows
<1>4. CASE sess[s] # Idle /\ sess'[s] # Idle
  <2>1. s \notin overtaken /\ (sess'[s] = sess[s] => HasRead(s)' = HasRead(s))
    BY <1>1, <1>4 DEF OvertakenNow
  <2>2. CallKnows(s)
    BY <2>1 DEF RaceInv
  <2> QED BY <1>1, <2>1, <2>2, OwnStepKnows, ReadKnows
<1> QED BY <1>2, <1>3, <1>4

\* A step that is out of order is the save of an overtaken call, and disorders
\* no ticket but the one it saves over.
LEMMA RaceStep ==
  ASSUME RaceInv, RaceNext
  PROVE  /\ \A t \in Tickets :
              /\ Status(t) = "waiting_on_upstream" /\ Status(t)' # "waiting_on_upstream" =>
                   Outbound(t)' = {} \/ Overwrites(t)
              /\ Status(t) = "closed" => Status(t)' = "closed" \/ Overwrites(t)
         /\ Ordered(overwritten)'
<1>1. TypeOK /\ LinksInv /\ Next /\ overtaken \subseteq Sessions
  BY DEF RaceInv, RaceNext, LinksInv, RowsInv
<1>2. PICK X : X = overwritten
  OBVIOUS
<1>3. Ordered(X) /\ overwritten' = X \cup {t \in Tickets : Overwrites(t)}
  BY <1>2 DEF RaceInv, RaceNext
<1>4. CASE \A s \in Sessions : Save(s) => CallKnows(s)
  <2>1. Orderly /\ Ordered(X)'
    BY <1>1, <1>3, <1>4, RowsStep DEF KeepsOrder
  <2>2. Ordered(overwritten)'
    BY <1>3, <2>1 DEF Ordered, WaitsOrdered, MergesOrdered
  <2> QED BY <2>1, <2>2 DEF Orderly
<1>5. ASSUME NEW s \in Sessions, Save(s), ~CallKnows(s)
      PROVE  /\ UNCHANGED <<esc, merged>>
             /\ \A t \in Tickets : Status(t)' = Status(t) \/ Overwrites(t)
  <2>1. s \in overtaken /\ ticket' = SetStatus(sess[s].on, sess[s].put)
    BY <1>1, <1>5 DEF RaceInv, Save
  <2>2. \A t \in Tickets : t # sess[s].on => Status(t)' = Status(t)
    BY <1>1, <2>1 DEF SetStatus, Status, TypeOK
  <2> QED BY <1>5, <2>1, <2>2 DEF Overwrites, Save
<1>6. CASE \E s \in Sessions : Save(s) /\ ~CallKnows(s)
  <2>1. /\ UNCHANGED <<esc, merged>>
        /\ \A t \in Tickets : Status(t)' = Status(t) \/ Overwrites(t)
    BY <1>5, <1>6
  <2>2. \A t : Outbound(t)' = Outbound(t) /\ Inbound(t)' = Inbound(t)
    BY <2>1 DEF Outbound, Inbound, Active
  <2>3. \A t \in Tickets \ overwritten' : t \notin X /\ Status(t)' = Status(t)
    BY <1>3, <2>1
  <2>4. WaitsOrdered(overwritten)'
    BY <1>3, <2>1, <2>2, <2>3 DEF Ordered, WaitsOrdered
  <2>5. merged \subseteq Tickets \X Tickets
    BY <1>1 DEF TypeOK
  <2>6. MergesOrdered(overwritten)'
    BY <1>3, <2>1, <2>2, <2>3, <2>5 DEF Ordered, MergesOrdered
  <2> QED BY <2>1, <2>4, <2>6 DEF Ordered
<1> QED BY <1>4, <1>6

LEMMA RaceInvNext == RaceInv /\ [RaceNext]_raceVars => RaceInv'
<1> SUFFICES ASSUME RaceInv, [RaceNext]_raceVars PROVE RaceInv'
  OBVIOUS
<1>1. LinksInv'
  BY LinksInvNext DEF RaceInv, RaceNext, raceVars
<1>2. CASE RaceNext
  BY <1>1, <1>2, RaceKnows, RaceStep DEF RaceInv, RaceNext
<1>3. CASE UNCHANGED raceVars
  <2>1. Ordered(overwritten)'
    BY <1>3 DEF RaceInv, Ordered, WaitsOrdered, MergesOrdered, Status, Inbound, Outbound,
       Active, raceVars, vars
  <2> QED BY <1>1, <1>3, <2>1
          DEF RaceInv, CallKnows, Status, Inbound, Outbound, Active, raceVars, vars
<1> QED BY <1>2, <1>3

\* With any number of callers a ticket with an active escalation waits, and one
\* that waits without has a withdrawal to finish: what stopped halfway never
\* looks like anything else to the next call.  Tickets saved over are apart.
THEOREM WaitingTicketsAreEscalated == RaceSpec => []WaitingMatchesEscalation
<1>1. RaceInv => WaitingMatchesEscalation
  BY DEF RaceInv, Ordered, WaitsOrdered, WaitingMatchesEscalation
<1> QED BY <1>1, RaceInvInit, RaceInvNext, PTL DEF RaceSpec

\* With any number of callers a duplicate stays closed with nobody waiting on
\* it, and has one master, unless an overtaken call saved over it.
THEOREM DuplicatesStayMerged == RaceSpec => []MergedStaysMerged
<1>1. RaceInv => MergedStaysMerged
  BY DEF RaceInv, Ordered, MergesOrdered, MergedStaysMerged
<1> QED BY <1>1, RaceInvInit, RaceInvNext, PTL DEF RaceSpec

\* With any number of callers nobody resumes a ticket whose escalation is
\* still active, but for the save of a call that was overtaken.
THEOREM WaitersOutlastEscalations == RaceSpec => WaitingEndsWithEscalation
<1> DEFINE Ends == \A t \in Tickets :
             Status(t) = "waiting_on_upstream" /\ Status(t)' # "waiting_on_upstream" =>
               Outbound(t)' = {} \/ Overwrites(t)
<1>1. RaceInv /\ [RaceNext]_raceVars => [Ends]_raceVars
  BY RaceStep
<1> HIDE DEF Ends
<1>2. RaceSpec => [][Ends]_raceVars
  BY <1>1, RaceInvInit, RaceInvNext, PTL DEF RaceSpec
<1> QED BY <1>2 DEF WaitingEndsWithEscalation, Ends

\* With any number of callers nothing reopens a closed ticket, one that was
\* merged or withdrawn included, but for the save of an overtaken call.
THEOREM ClosedTicketsStayClosed == RaceSpec => ClosedStaysClosed
<1> DEFINE Closed == \A t \in Tickets :
             Status(t) = "closed" => Status(t)' = "closed" \/ Overwrites(t)
<1>1. RaceInv /\ [RaceNext]_raceVars => [Closed]_raceVars
  BY RaceStep
<1> HIDE DEF Closed
<1>2. RaceSpec => [][Closed]_raceVars
  BY <1>1, RaceInvInit, RaceInvNext, PTL DEF RaceSpec
<1> QED BY <1>2 DEF ClosedStaysClosed, Closed

\* A save that resolves or closes a ticket and ends its call.
LEMMA StopReaches ==
  ASSUME RaceInv, RaceNext, NEW s \in Sessions \ overtaken, NEW t \in Tickets,
         sess[s].pc = "save", sess[s].on = t, sess'[s] = Idle,
         Status(t)' # Status(t), Status(t)' \in STOPPED_STATUSES
  PROVE  Inbound(t)' = {}
<1>1. /\ TypeOK /\ Next /\ CallKnows(s)
      /\ sess[s] # Idle /\ sess'[s] # sess[s] /\ sess[s] \in Call
  BY CallTyped DEF RaceInv, RaceNext, LinksInv, RowsInv, Idle
<1>2. Save(s)
  <2>1. ~Begin(s)
    BY <1>1 DEF Begin, CreateTicket, RequesterUpdate, StartUpdate, StartResolve, StartReturn,
       StartWithdraw, Start, EscalateTicket, MergeTickets
  <2>2. ~Abandon(s)
    BY DEF Abandon, rows, Status
  <2>3. Continue(s) => Save(s)
    BY DEF Continue, At, UpdateListLinks, ResolveListLinks, ReturnListLinks, WithdrawListLinks,
       HandBack, GatewayWithdraw
  <2> QED BY <1>1, <2>1, <2>2, <2>3, OnlyOwnSteps
<1>3. sess[s].op \in {"resolve", "return"} => sess[s].plan = {}
  <2>1. CASE GoTo(s, "handBack", sess[s].plan)
    <3>1. sess'[s].pc = "handBack"
      BY <1>1, <2>1 DEF GoTo, TypeOK, Call
    <3> QED BY <3>1 DEF Idle
  <2> QED BY <1>2, <2>1 DEF Save
<1>4. Status(t)' = sess[s].put /\ Status(t) = sess[s].row /\ UNCHANGED esc
  BY <1>1, <1>2, SaveFacts, RowTyped DEF Save, SetStatus, Status, TypeOK, TicketRow, CallKnows
<1>5. Inbound(t) = {}
  BY <1>1, <1>3, <1>4 DEF CallKnows, Call, STOPPED_STATUSES
<1> QED BY <1>4, <1>5 DEF Inbound, Active

\* With any number of callers, whoever resolves or closes a ticket and finds
\* nobody to answer leaves nobody waiting, unless it was overtaken.
THEOREM StopsReachWaiters == RaceSpec => StopReachesEveryWaiter
<1> DEFINE Reaches == \A s \in Sessions \ overtaken, t \in Tickets :
             /\ sess[s].pc = "save" /\ sess[s].on = t /\ sess'[s] = Idle
             /\ Status(t)' # Status(t) /\ Status(t)' \in STOPPED_STATUSES
             => Inbound(t)' = {}
<1>1. RaceInv /\ [RaceNext]_raceVars => [Reaches]_raceVars
  BY StopReaches
<1> HIDE DEF Reaches
<1>2. RaceSpec => [][Reaches]_raceVars
  BY <1>1, RaceInvInit, RaceInvNext, PTL DEF RaceSpec
<1> QED BY <1>2 DEF StopReachesEveryWaiter, Reaches

===============================================================================
