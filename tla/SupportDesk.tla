------------------------------ MODULE SupportDesk ------------------------------
(***************************************************************************)
(* What is said on a ticket, and who gets to know: the replies, notes and  *)
(* attachments that domain-support's service shows and sends to people who *)
(* are not agents (store.ts, threads.ts, notifications.ts), and the copies *)
(* it keeps at a specialist desk, if the tenant has bound one              *)
(* (graduation.ts, graduation-server.ts).                                  *)
(*                                                                         *)
(* Every call to the store, to the desk and to the sender is a step that   *)
(* may fail, and calls interleave.  The desk is external: a call to it     *)
(* that fails may have been carried out.                                   *)
(***************************************************************************)
EXTENDS FiniteSets

CONSTANTS
  Tickets,
  Threads,      \* replies and internal notes
  Attachments,
  Sessions,     \* calls that run at once
  None

(* Ids are UUIDs.                                                          *)
ASSUME DeskAssumption ==
  /\ None \notin Tickets \cup Threads
  /\ Threads \cap (Tickets \cup Attachments) = {}

VARIABLES
  ticket,       \* support_tickets: whether the desk's reference is on the
                \* row, and the row's sync_state
  thread,       \* support_ticket_threads
  attachment,   \* support_ticket_attachments
  bound,        \* an enabled binding to a specialist desk
  desk,         \* the tickets and threads that the desk has
  letters,      \* dead letters: the ticket or the thread
  call,         \* what each session is doing
  outside,      \* history: what was shown or sent to people not agents
  tried         \* history: what a call tried to copy, unless it gave up or
                \* the desk had no reference to give

storeVars == <<ticket, thread, attachment>>
copyVars  == <<bound, desk, letters>>
vars == <<storeVars, copyVars, call, outside, tried>>

NoTicket == [there |-> FALSE, ref |-> FALSE, sync |-> "clean"]
NoThread == [on |-> None, internal |-> FALSE]
Missing  == [on |-> None, thread |-> None]
Idle     == [op |-> "none"]

Init ==
  /\ ticket = [t \in Tickets |-> NoTicket]
  /\ thread = [h \in Threads |-> NoThread]
  /\ attachment = [a \in Attachments |-> Missing]
  /\ bound \in BOOLEAN
  /\ desk = {} /\ letters = {}
  /\ call = [s \in Sessions |-> Idle]
  /\ outside = {} /\ tried = {}

At(s, op, at) == call[s].op = op /\ call[s].at = at

GoTo(s, at) == call' = [call EXCEPT ![s].at = at]

End(s) == call' = [call EXCEPT ![s] = Idle]

Item(s) == call[s].item

(* A call to the store fails and the error is thrown, or the process stops. *)
GiveUp(s) ==
  /\ call[s] # Idle
  /\ End(s)
  /\ tried' = IF call[s].op = "copy" THEN tried \ {Item(s)} ELSE tried
  /\ UNCHANGED <<storeVars, copyVars, outside>>

(* The tenant's administrators bind a desk, or unbind it.                  *)
Bind ==
  /\ bound' = ~bound
  /\ UNCHANGED <<storeVars, desk, letters, call, outside, tried>>

----------------------------------------------------------------------------
(* The service: appendThread, listThreads, listAttachments.                *)

Internal(h) == thread[h].internal

Append(h, t, internal) ==
  /\ thread[h] = NoThread /\ ticket[t].there
  /\ thread' = [thread EXCEPT ![h] = [on |-> t, internal |-> internal]]
  /\ UNCHANGED <<ticket, attachment>>

(* Only agents write internal notes.                                       *)
appendThread(s, h, t, isAgent, internal, byRequester) ==
  /\ call[s] = Idle
  /\ internal => isAgent
  /\ Append(h, t, internal)
  /\ call' = [call EXCEPT ![s] =
       [op |-> "append", at |-> "notify", thread |-> h, byRequester |-> byRequester]]
  /\ UNCHANGED <<copyVars, outside, tried>>

(* Mutant: notes are sent like replies.                                    *)
ToCustomerAlways(h, byRequester) == IF byRequester THEN {} ELSE {h}

(* A reply by anyone but the requester goes to the customer, a note to     *)
(* nobody; the requester's own goes to the assignee.                       *)
ToCustomer(h, byRequester) == IF Internal(h) \/ byRequester THEN {} ELSE {h}

(* A sender that fails is passed over.                                     *)
SendNotifications(s) ==
  /\ At(s, "append", "notify")
  /\ outside' \in {outside, outside \cup ToCustomer(call[s].thread, call[s].byRequester)}
  /\ End(s)
  /\ UNCHANGED <<storeVars, copyVars, tried>>

(* Agents see everything, so only calls of others are followed.            *)
listThreads(s, t) ==
  /\ call[s] = Idle
  /\ outside' = outside \cup {h \in Threads : thread[h].on = t /\ ~Internal(h)}
  /\ UNCHANGED <<storeVars, copyVars, call, tried>>

(* The host's upload: to a ticket, or to a thread of it.                   *)
Attach(a, t, h) ==
  /\ attachment[a] = Missing /\ ticket[t].there
  /\ h # None => thread[h].on = t
  /\ attachment' = [attachment EXCEPT ![a] = [on |-> t, thread |-> h]]
  /\ UNCHANGED <<ticket, thread, copyVars, call, outside, tried>>

(* Mutant: every for some.                                                 *)
AllHangOnThreads(listed) == \A a \in listed : attachment[a].thread # None

HangOnThreads(listed) == \E a \in listed : attachment[a].thread # None

(* The attachments are read first,                                         *)
listAttachments(s, t) ==
  /\ call[s] = Idle
  /\ LET listed == {a \in Attachments : attachment[a].on = t}
     IN  IF HangOnThreads(listed)
           THEN /\ call' = [call EXCEPT ![s] =
                     [op |-> "list", at |-> "threads", ticket |-> t, listed |-> listed]]
                /\ UNCHANGED outside
           ELSE /\ outside' = outside \cup listed
                /\ UNCHANGED call
  /\ UNCHANGED <<storeVars, copyVars, tried>>

(* then the threads, to leave out what hangs on internal ones.             *)
ListInternal(s) ==
  /\ At(s, "list", "threads")
  /\ outside' = outside \cup
       {a \in call[s].listed : attachment[a].thread = None \/ ~Internal(attachment[a].thread)}
  /\ End(s)
  /\ UNCHANGED <<storeVars, copyVars, tried>>

----------------------------------------------------------------------------
(* Graduation: createTicketGraduated and addThreadGraduated.  The store's  *)
(* own row comes first; the copy at the desk is tried afterwards.          *)

Copy(s, item, t, at, ref) ==
  call' = [call EXCEPT ![s] =
    [op |-> "copy", at |-> at, item |-> item, ticket |-> t, ref |-> ref]]

createTicketGraduated(s, t) ==
  /\ call[s] = Idle /\ ~ticket[t].there
  /\ ticket' = [ticket EXCEPT ![t].there = TRUE]
  /\ Copy(s, t, t, "resolve", TRUE)
  /\ UNCHANGED <<thread, attachment, copyVars, outside, tried>>

addThreadGraduated(s, h, t) ==
  /\ call[s] = Idle
  /\ Append(h, t, FALSE)
  /\ Copy(s, h, t, "read", FALSE)
  /\ UNCHANGED <<copyVars, outside, tried>>

(* The ticket's row, as it is now.                                         *)
ReadTicket(s) ==
  /\ At(s, "copy", "read")
  /\ Copy(s, Item(s), call[s].ticket, "resolve", ticket[call[s].ticket].ref)
  /\ UNCHANGED <<storeVars, copyVars, outside, tried>>

(* No desk bound, or a registry that fails: the store's row will do.  So it *)
(* will for a reply to a ticket of which the desk has no copy yet.          *)
ResolveProvider(s) ==
  /\ At(s, "copy", "resolve")
  /\ \/ bound /\ call[s].ref /\ GoTo(s, "push")
     \/ End(s)
  /\ UNCHANGED <<storeVars, copyVars, outside, tried>>

AfterPush(s) == IF Item(s) \in Tickets THEN GoTo(s, "ref") ELSE End(s)

(* Mutant: an error is caught and forgotten.                                *)
Swallowed(s) == End(s)

(* Any error on the way to the desk and back ends here.                     *)
Caught(s) == GoTo(s, "mark")

Push(s) ==
  /\ At(s, "copy", "push")
  /\ tried' = tried \cup {Item(s)}
  /\ \/ desk' = desk \cup {Item(s)} /\ AfterPush(s)
     \/ desk' \in {desk, desk \cup {Item(s)}} /\ Caught(s)
  /\ UNCHANGED <<storeVars, bound, letters, outside>>

(* A desk may answer without a reference: nothing is merged, and nothing    *)
(* is wrong.                                                                *)
MergeExternalRefs(s) ==
  /\ At(s, "copy", "ref")
  /\ \/ ticket' = [ticket EXCEPT ![Item(s)].ref = TRUE] /\ End(s) /\ UNCHANGED tried
     \/ UNCHANGED ticket /\ End(s) /\ tried' = tried \ {Item(s)}
     \/ UNCHANGED <<ticket, tried>> /\ Caught(s)
  /\ UNCHANGED <<thread, attachment, copyVars, outside>>

SetSyncState(s) ==
  /\ At(s, "copy", "mark")
  /\ ticket' = [ticket EXCEPT ![call[s].ticket].sync = "error"]
  /\ GoTo(s, "letter")
  /\ UNCHANGED <<thread, attachment, copyVars, outside, tried>>

DeadLetter(s) ==
  /\ At(s, "copy", "letter")
  /\ letters' = letters \cup {Item(s)}
  /\ End(s)
  /\ UNCHANGED <<storeVars, bound, desk, outside, tried>>

----------------------------------------------------------------------------

Service(s) ==
  \/ \E h \in Threads, t \in Tickets, isAgent, internal, byRequester \in BOOLEAN :
       appendThread(s, h, t, isAgent, internal, byRequester)
  \/ \E t \in Tickets : listThreads(s, t) \/ listAttachments(s, t)
  \/ SendNotifications(s) \/ ListInternal(s)

Graduation(s) ==
  \/ \E t \in Tickets : \/ createTicketGraduated(s, t)
                       \/ \E h \in Threads : addThreadGraduated(s, h, t)
  \/ ReadTicket(s) \/ ResolveProvider(s) \/ Push(s) \/ MergeExternalRefs(s)
  \/ SetSyncState(s) \/ DeadLetter(s)

Next ==
  \/ \E s \in Sessions : Service(s) \/ Graduation(s) \/ GiveUp(s)
  \/ \E a \in Attachments, t \in Tickets, h \in Threads \cup {None} : Attach(a, t, h)
  \/ Bind

Spec == Init /\ [][Next]_vars

----------------------------------------------------------------------------
(* Properties.                                                              *)

(* "a non-agent never sees internal threads or their attachments"           *)
(* (store.ts:13), and no note is ever sent to the customer: also when notes *)
(* are written and files attached to them between the two reads of          *)
(* listAttachments, or between the append and the notification.             *)
InternalStaysInside ==
  /\ \A h \in Threads : h \in outside => ~Internal(h)
  /\ \A a \in Attachments :
       a \in outside /\ attachment[a].thread # None => ~Internal(attachment[a].thread)

Copying(item) ==
  \E s \in Sessions : call[s].op = "copy" /\ Item(s) = item

TicketOf(item) == IF item \in Tickets THEN item ELSE thread[item].on

(* Whatever was to be copied to the desk is there, the ticket with its      *)
(* reference on the row, or has left a dead letter and an error on its      *)
(* ticket, however the calls of several replies interleave and fail; only a *)
(* store that fails as well leaves less, and a desk that answers without a  *)
(* reference.  What the desk knows of is a row of ours (graduation.ts:5-8). *)
DeskIsAccountedFor ==
  /\ \A item \in tried :
       \/ Copying(item)
       \/ item \in desk /\ ticket[TicketOf(item)].ref
       \/ item \in letters /\ ticket[TicketOf(item)].sync = "error"
  /\ \A item \in desk :
       ticket[TicketOf(item)].there /\ TicketOf(item) \in desk
================================================================================
