--------------------------- MODULE ContactSuppression ---------------------------
(***************************************************************************)
(* Who may not be written to by e-mail: the opt-out flag of the contacts   *)
(* of a tenant, the suppression rows behind it, and the handlers of        *)
(* unsubscriptions and bounces.  domain-contacts/suppression               *)
(* (suppression-subscriber.ts), suppression-store.ts, system-store.ts      *)
(* (suppressEmail), and the trigger project_contact_suppression.           *)
(*                                                                         *)
(* The event bus is external: it calls a handler for each event it holds,  *)
(* in any order, and the provider may report the same thing again.  Of the *)
(* channels the model follows e-mail, the one that handlers write.         *)
(***************************************************************************)
EXTENDS Naturals, FiniteSets

CONSTANTS
  Contacts,
  Addresses,
  Handlers,    \* events that are handled at once
  None,        \* no contact, no address: a reference that is not there
  Populations, \* bound: who there is at first, and at what addresses
  Reported,    \* bound: the events the provider reports
  MaxEvents,   \* bound: how many it reports
  MaxEdits     \* bound: edits by the tenant

(* A bounce whose report gives no reason is a kind of its own.             *)
Kinds == {"unsubscribe", "hardBounce", "softBounce", "bareBounce"}

(* An event names its contact, or only the address it was sent to.         *)
Event ==
  [kind : Kinds, contact : Contacts, address : {None}] \cup
  [kind : Kinds, contact : {None}, address : Addresses]

ASSUME SuppressionAssumption ==
  /\ None \notin Contacts \cup Addresses
  /\ Reported \subseteq Event
  /\ \A at \in Populations :
       /\ at \in [Contacts -> Addresses \cup {None}]
       /\ \A c, d \in Contacts : at[c] = at[d] => c = d \/ at[c] = None
  /\ MaxEvents \in Nat /\ MaxEdits \in Nat

VARIABLES
  contact,      \* the contacts rows
  suppression,  \* contact_suppressions, channel email: the suppressed column
  bus,          \* events not handled yet
  handler,      \* what each handler is doing
  events,       \* how many events the provider reported
  edits,        \* how many edits the tenant made
  failed        \* a write of a handler failed

suppressionVars ==
  <<contact, suppression, bus, handler, events, edits, failed>>

(* there: the row is; address: email; optOut: email_opt_out; valid:        *)
(* email_valid.                                                            *)
ContactRow ==
  [there : {TRUE}, address : Addresses \cup {None}, optOut : BOOLEAN, valid : BOOLEAN]
NoContact ==
  [there |-> FALSE, address |-> None, optOut |-> FALSE, valid |-> FALSE]
NewContact(address) ==
  [there |-> TRUE, address |-> address, optOut |-> FALSE, valid |-> TRUE]

Exists(c) == contact[c].there

SuppressionState == {"none", "suppressed", "allowed"}

Idle == [at |-> "idle"]

Handling ==
  {Idle} \cup [at : {"apply", "emit"}, event : Event, on : Contacts]

InitSuppression ==
  /\ \E at \in Populations :
       contact = [c \in Contacts |-> IF at[c] = None THEN NoContact
                                     ELSE NewContact(at[c])]
  /\ suppression = [c \in Contacts |-> "none"]
  /\ bus = {}
  /\ handler = [h \in Handlers |-> Idle]
  /\ events = 0 /\ edits = 0
  /\ failed = FALSE

-----------------------------------------------------------------------------
(* The provider, and the tenant's own edits.                                *)

(* Something happened to a message: the event carries the contact if the    *)
(* provider's answer named it.  What is reported twice is reported again.   *)
Report(e) ==
  /\ events < MaxEvents
  /\ bus' = bus \cup {e}
  /\ events' = events + 1
  /\ UNCHANGED <<contact, suppression, handler, edits, failed>>

Edit == edits < MaxEdits /\ edits' = edits + 1

Free(address) == \A c \in Contacts : contact[c].address # address

(* ContactsStore: create, update and remove.  No tenant write carries the   *)
(* flags; contacts_tenant_email_unique keeps the addresses apart.           *)
CreateContact(c, address) ==
  /\ Edit
  /\ ~Exists(c) /\ Free(address)
  /\ contact' = [contact EXCEPT ![c] = NewContact(address)]
  /\ UNCHANGED <<suppression, bus, handler, events, failed>>

ChangeAddress(c, address) ==
  /\ Edit
  /\ Exists(c) /\ (address = None \/ Free(address))
  /\ contact' = [contact EXCEPT ![c].address = address]
  /\ UNCHANGED <<suppression, bus, handler, events, failed>>

(* The suppression rows go with the contact.                                *)
RemoveContact(c) ==
  /\ Edit
  /\ Exists(c)
  /\ contact' = [contact EXCEPT ![c] = NoContact]
  /\ suppression' = [suppression EXCEPT ![c] = "none"]
  /\ UNCHANGED <<bus, handler, events, failed>>

(* Mutant of the trigger: an update of a row is not projected.              *)
ProjectedOnInsert(cs, state) ==
  [c \in Contacts |->
     IF c \in cs /\ (suppression[c] = "none" \/ state = "none")
       THEN [contact[c] EXCEPT !.optOut = (state = "suppressed")]
       ELSE contact[c]]

(* project_contact_suppression: the flag follows the row, and a row that is *)
(* deleted clears it.                                                       *)
Projected(cs, state) ==
  [c \in Contacts |->
     IF c \in cs THEN [contact[c] EXCEPT !.optOut = (state = "suppressed")]
     ELSE contact[c]]

(* The rows of cs are written, or deleted, and the trigger runs with it.    *)
WriteSuppression(cs, state) ==
  /\ Edit
  /\ cs # {}
  /\ suppression' =
       [c \in Contacts |-> IF c \in cs THEN state ELSE suppression[c]]
  /\ contact' = Projected(cs, state)
  /\ UNCHANGED <<bus, handler, events, failed>>

(* set and setMany: the contacts are found to be the tenant's, then one     *)
(* upsert.  It needs the contacts again, so the check only fails sooner.    *)
SetSuppression(cs, state) ==
  /\ \A c \in cs : Exists(c)
  /\ WriteSuppression(cs, state)

(* A tenant user may also delete a row.                                     *)
DeleteSuppression(c) ==
  /\ suppression[c] # "none"
  /\ WriteSuppression({c}, "none")

-----------------------------------------------------------------------------
(* The handlers.                                                            *)

(* Mutant: a bounce says nothing about the wish to hear from the tenant.    *)
SuppressedAnew(c, kind) ==
  IF ~Exists(c) THEN contact
  ELSE [contact EXCEPT ![c].optOut = (kind = "unsubscribe"),
                       ![c].valid = @ /\ kind = "unsubscribe"]

(* What an unsubscription or a bounce writes to the row it finds, if any;   *)
(* a bounce without a reason is taken for a hard one.                       *)
Suppressed(c, kind) ==
  IF ~Exists(c) THEN contact
  ELSE [contact EXCEPT ![c].optOut = TRUE,
                       ![c].valid = @ /\ kind = "unsubscribe"]

Take(e) == e \in bus /\ bus' = bus \ {e}

(* Mutant: an event that names no contact ends here.                        *)
IgnoreUnnamed(h, e) ==
  /\ handler[h] = Idle
  /\ Take(e)
  /\ e.kind = "softBounce" \/ e.contact = None
  /\ UNCHANGED <<contact, suppression, handler, events, edits, failed>>

(* Soft bounces, and addresses that nobody has, end here.                   *)
Ignore(h, e) ==
  /\ handler[h] = Idle
  /\ Take(e)
  /\ \/ e.kind = "softBounce"
     \/ e.contact = None /\ \A c \in Contacts : contact[c].address # e.address
  /\ UNCHANGED <<contact, suppression, handler, events, edits, failed>>

(* The contact is known: one UPDATE.                                        *)
HandleDirect(h, e) ==
  /\ handler[h] = Idle
  /\ e.kind # "softBounce" /\ e.contact # None
  /\ Take(e)
  /\ contact' = Suppressed(e.contact, e.kind)
  /\ UNCHANGED <<suppression, handler, events, edits, failed>>

(* Only the address is known: the contact that has it is looked up.         *)
LookUp(h, e, c) ==
  /\ handler[h] = Idle
  /\ e.kind # "softBounce" /\ e.contact = None
  /\ contact[c].address = e.address
  /\ Take(e)
  /\ handler' = [handler EXCEPT ![h] = [at |-> "apply", event |-> e, on |-> c]]
  /\ UNCHANGED <<contact, suppression, events, edits, failed>>

(* The contact that was found is written, whatever became of it meanwhile.  *)
Apply(h) ==
  /\ handler[h].at = "apply"
  /\ contact' = Suppressed(handler[h].on, handler[h].event.kind)
  /\ handler' =
       IF handler[h].event.kind = "unsubscribe"
         THEN [handler EXCEPT ![h].at = "emit"]
         ELSE [handler EXCEPT ![h] = Idle]
  /\ UNCHANGED <<suppression, bus, events, edits, failed>>

(* Mutant: the event is emitted again as it came.                           *)
Unresolved(h) == handler[h].event

(* The unsubscription is emitted again for the contact that was found.      *)
Resolved(h) ==
  [kind |-> "unsubscribe", contact |-> handler[h].on, address |-> None]

Emit(h) ==
  /\ handler[h].at = "emit"
  /\ bus' = bus \cup {Resolved(h)}
  /\ handler' = [handler EXCEPT ![h] = Idle]
  /\ UNCHANGED <<contact, suppression, events, edits, failed>>

(* A read or a write fails: it is logged, and the event is gone.            *)
Fail(h) ==
  /\ \/ handler[h] = Idle /\ \E e \in bus : Take(e)
     \/ handler[h] # Idle /\ bus' = bus
  /\ failed' = TRUE
  /\ handler' = [handler EXCEPT ![h] = Idle]
  /\ UNCHANGED <<contact, suppression, events, edits>>

Tenant ==
  \/ \E c \in Contacts :
       \/ \E a \in Addresses : CreateContact(c, a)
       \/ \E a \in Addresses \cup {None} : ChangeAddress(c, a)
       \/ RemoveContact(c)
       \/ DeleteSuppression(c)
  \/ \E cs \in SUBSET Contacts, state \in {"suppressed", "allowed"} :
       SetSuppression(cs, state)

Handle(h) ==
  \/ \E e \in bus :
       \/ Ignore(h, e) \/ HandleDirect(h, e)
       \/ \E c \in Contacts : LookUp(h, e, c)
  \/ Apply(h)
  \/ Emit(h)

NextSuppression ==
  \/ \E e \in Reported : Report(e)
  \/ Tenant
  \/ \E h \in Handlers : Handle(h) \/ Fail(h)

(* The bus calls a handler for what it holds and a called handler goes on:  *)
(* for as long as there is something to handle, something is handled.       *)
HandlersRun == WF_suppressionVars(\E h \in Handlers : Handle(h))

-----------------------------------------------------------------------------
(* Properties.                                                              *)

(* Every variable has its type.                                             *)
SuppressionTypeOK ==
  /\ contact \in [Contacts -> ContactRow \cup {NoContact}]
  /\ suppression \in [Contacts -> SuppressionState]
  /\ bus \subseteq Event
  /\ handler \in [Handlers -> Handling]
  /\ events \in 0..MaxEvents /\ edits \in 0..MaxEdits
  /\ failed \in BOOLEAN

(* A contact whose row says suppressed is opted out, whatever handlers and  *)
(* edits came before and between: the flag the send paths look at never     *)
(* forgets a suppression ("Legacy contact flags are projected by the DB     *)
(* trigger", suppression-store.ts:45-46).                                   *)
SuppressedIsOptedOut ==
  \A c \in Contacts : suppression[c] = "suppressed" => contact[c].optOut

(* "Once opted out, stays out until an explicit opt-in (monotonic)"         *)
(* (suppression-subscriber.ts:12): for as long as the contact exists, only  *)
(* a write of its suppression row, never an event, an edit or a handler     *)
(* that started earlier, takes the flag back.                               *)
OptOutIsMonotonic ==
  [][\A c \in Contacts :
       contact[c].optOut /\ Exists(c)' /\ ~contact'[c].optOut =>
         suppression'[c] # "suppressed" /\ edits' # edits
         /\ UNCHANGED <<bus, handler>>]_contact

IsAbout(e, c) ==
  /\ Exists(c)
  /\ e.contact = c \/ (e.contact = None /\ e.address = contact[c].address)

(* Every unsubscription reaches the contact it is about, whether it named   *)
(* the contact or only the address, unless a call fails, the contact goes   *)
(* or the address changes hands first ("Sets contacts.email_opt_out",       *)
(* suppression-subscriber.ts:6).                                            *)
UnsubscribedIsOptedOut ==
  \A c \in Contacts, e \in {d \in Event : d.kind = "unsubscribe"} :
    (e \in bus /\ IsAbout(e, c)) ~>
      (contact[c].optOut \/ failed \/ ~IsAbout(e, c))

(* Emitting what was resolved ends: with no more reports, no event is left  *)
(* and no handler runs.                                                     *)
BusDrains == <>[](bus = {} /\ \A h \in Handlers : handler[h] = Idle)
================================================================================
