----------------------------- MODULE ContactStores -----------------------------
(***************************************************************************)
(* The writers of a tenant's contacts: inbound messages whose sender is    *)
(* looked up or made a contact, the desk synchronisation and its write-    *)
(* back (domain-contacts/system-store.ts), the tenant's own edits and the  *)
(* merging of tags (tenant-store.ts).                                      *)
(*                                                                         *)
(* Every call to the database is a step, and calls interleave.  Of a       *)
(* contact the model keeps what calls are recognized by, its phone number  *)
(* and e-mail address, and the two columns that are read, merged and       *)
(* written back, each a set of entries.                                    *)
(***************************************************************************)
EXTENDS Naturals

CONSTANTS
  Ids,          \* bound: the contacts that there can ever be
  PhoneChannels,  \* of sms, whatsapp and voice, those in use
  Phones,       \* phone numbers
  Emails,       \* e-mail addresses
  Tags,         \* entries of contacts.tags
  Fields,       \* entries of contacts.custom_fields
  Additions,    \* bound: what is merged in at once
  Sessions,     \* calls that run at once
  Roles,        \* bound: what the sessions serve in one behavior
  TenantRows,   \* bound: what the tenant or the desk writes
  MaxEdits,     \* bound: how often they do, by what the sessions serve
  None

VARIABLES
  contacts,   \* the rows, and the identities not used yet or no more
  channels,   \* contact_channels: whose a normalized address is
  calls,      \* what each session is doing
  role,       \* what each session serves
  edits       \* how often the tenant or the desk wrote

storesVars == <<contacts, channels, calls, role, edits>>

Addresses == Phones \cup Emails

(* An address as someone wrote it; plain is the form normalizeAddress      *)
(* gives: no blanks or punctuation, +digits, lower case.                   *)
Written == [address : Addresses, plain : BOOLEAN]
Nothing == [address |-> None, plain |-> TRUE]

normalizeAddress(written) == [written EXCEPT !.plain = TRUE]

Entries == Tags \cup Fields

(* The column an entry belongs to.                                         *)
Column(name) == IF name = "tags" THEN Tags ELSE Fields

Row ==
  [is : {"row"},
   phone : {w \in Written : w.address \in Phones} \cup {Nothing},
   email : {w \in Written : w.address \in Emails} \cup {Nothing},
   entries : SUBSET Entries]

Unborn == [is |-> "unborn"]
Gone   == [is |-> "gone"]

ASSUME StoresAssumption ==
  /\ PhoneChannels \subseteq {"sms", "whatsapp", "voice"}
  /\ Phones \cap Emails = {} /\ Tags \cap Fields = {}
  /\ None \notin Ids \cup Phones \cup Emails
  /\ TenantRows \subseteq Row /\ Additions \subseteq SUBSET Tags \cup SUBSET Fields
  /\ Roles \subseteq [Sessions -> {"messages", "merges", "records"}]
  /\ MaxEdits \in [Roles -> Nat]

Exists(c) == contacts[c].is = "row"

Keys ==
  [channel : PhoneChannels, address : Phones] \cup
  [channel : {"email"}, address : Emails]

Idle == [op |-> "none"]

InitStores ==
  /\ contacts = [c \in Ids |-> Unborn]
  /\ channels = [k \in Keys |-> None]
  /\ calls = [s \in Sessions |-> Idle]
  /\ role \in Roles
  /\ edits = 0

----------------------------------------------------------------------------
(* The tables.                                                             *)

(* contacts_tenant_email_unique compares what was written.                 *)
EmailIsFree(c, email) ==
  email = Nothing \/ \A d \in Ids \ {c} : Exists(d) => contacts[d].email # email

(* A contact's row is added; a second one with an e-mail address is refused. *)
MayInsert(c, row) == contacts[c] = Unborn /\ EmailIsFree(c, row.email)

Insert(c, row) == contacts' = [contacts EXCEPT ![c] = row]

(* A channel's row refers to a contact; an address that is taken stays so.   *)
WithChannel(k, c) ==
  IF channels[k] = None /\ Exists(c) THEN [channels EXCEPT ![k] = c] ELSE channels

(* The histories of the running calls: a sender is familiar no more once the *)
(* tenant has edited; what was merged from an older reading is raced.        *)
Edited(gone, cs) ==
  [s \in Sessions |->
     CASE calls[s].op = "resolve" ->
            [calls[s] EXCEPT !.familiar = FALSE,
                             !.owner = IF @ \in gone THEN None ELSE @]
       [] calls[s].op = "merge" -> [calls[s] EXCEPT !.raced = @ \cup (cs \cap calls[s].left)]
       [] OTHER -> calls[s]]

Overtaken(t, s, c) ==
  IF t # s /\ calls[t].op = "merge" /\ calls[t].column = calls[s].column
     /\ c \in calls[t].left
    THEN [calls[t] EXCEPT !.raced = @ \cup {c}]
    ELSE calls[t]

----------------------------------------------------------------------------
(* The tenant, and the desk's changes that come in.                          *)

Create(c, row) ==
  /\ MayInsert(c, row)
  /\ Insert(c, row)
  /\ UNCHANGED <<channels, calls>>

(* An import is one insert: all of its rows or none.                         *)
BulkCreate(c, d, row, other) ==
  /\ c # d /\ MayInsert(c, row) /\ MayInsert(d, other)
  /\ row.email = Nothing \/ row.email # other.email
  /\ contacts' = [contacts EXCEPT ![c] = row, ![d] = other]
  /\ UNCHANGED <<channels, calls>>

Update(c, row) ==
  /\ Exists(c) /\ EmailIsFree(c, row.email)
  /\ contacts' = [contacts EXCEPT ![c] = row]
  /\ calls' = Edited({}, {c})
  /\ UNCHANGED channels

(* ON DELETE CASCADE.                                                        *)
Remove(cs) ==
  /\ cs # {} /\ \A c \in cs : Exists(c)
  /\ contacts' = [c \in Ids |-> IF c \in cs THEN Gone ELSE contacts[c]]
  /\ channels' = [k \in Keys |-> IF channels[k] \in cs THEN None ELSE channels[k]]
  /\ calls' = Edited(cs, cs)

(* The row the adapter matched is updated, if it is still there; without a   *)
(* match one is inserted.                                                    *)
ApplyInbound(match, c, row) ==
  IF match # None THEN Update(match, row) ELSE Create(c, row)

----------------------------------------------------------------------------
(* resolveChannelIdentity.                                                   *)

PhoneIs(k, c) ==
  Exists(c) /\ contacts[c].phone = [address |-> k.address, plain |-> TRUE]

(* Mutant: the look-up by number is made for text messages only.             *)
ContactsOfSms(k) == {c \in Ids : k.channel = "sms" /\ PhoneIs(k, c)}

(* Whoever has the number, phone or phone_e164, on any channel by phone.     *)
ContactsByPhone(k) == {c \in Ids : k.channel \in PhoneChannels /\ PhoneIs(k, c)}

buildContactRow(k) ==
  LET own == [address |-> k.address, plain |-> TRUE]
  IN  IF k.channel \in PhoneChannels
        THEN [is |-> "row", phone |-> own, email |-> Nothing, entries |-> {}]
        ELSE [is |-> "row", phone |-> Nothing, email |-> own, entries |-> {}]

Known(k) ==
  channels[k] # None \/ \E c \in Ids : k.channel \in PhoneChannels /\ PhoneIs(k, c)

(* A message comes in.  familiar and owner are histories: whether its sender *)
(* was known then, and whose the address was.                                *)
Receive(s, channel, written) ==
  LET k == [channel |-> channel, address |-> normalizeAddress(written).address]
  IN  /\ calls[s] = Idle
      /\ k \in Keys
      /\ calls' = [calls EXCEPT ![s] =
           [op |-> "resolve", at |-> "channel", key |-> k, contact |-> None,
            familiar |-> Known(k), owner |-> channels[k]]]
      /\ UNCHANGED <<contacts, channels>>

At(s, at) == calls[s].op = "resolve" /\ calls[s].at = at

GoTo(s, at, c) == calls' = [calls EXCEPT ![s].at = at, ![s].contact = c]

AfterChannel(k) == IF k.channel \in PhoneChannels THEN "phone" ELSE "create"

LookUpChannel(s) ==
  /\ At(s, "channel")
  /\ LET c == channels[calls[s].key]
     IN  IF c # None THEN GoTo(s, "known", c)
                     ELSE GoTo(s, AfterChannel(calls[s].key), None)
  /\ UNCHANGED <<contacts, channels>>

LookUpPhone(s) ==
  /\ At(s, "phone")
  /\ LET found == ContactsByPhone(calls[s].key)
     IN  \/ \E c \in found : GoTo(s, "reuse", c)
         \/ found = {} /\ GoTo(s, "create", None)
  /\ UNCHANGED <<contacts, channels>>

(* The error of a look-up is not looked at: nobody was found.                *)
LookUpFails(s) ==
  /\ At(s, "channel") \/ At(s, "phone")
  /\ calls' = [calls EXCEPT
       ![s].at = IF @ = "channel" THEN AfterChannel(calls[s].key) ELSE "create",
       ![s].familiar = FALSE, ![s].owner = None]
  /\ UNCHANGED <<contacts, channels>>

(* The number's contact gets the channel, unless the write fails: nobody     *)
(* looks at its error.                                                       *)
Reuse(s) ==
  /\ At(s, "reuse")
  /\ channels' \in {channels, WithChannel(calls[s].key, calls[s].contact)}
  /\ GoTo(s, "known", calls[s].contact)
  /\ UNCHANGED contacts

CreateSender(s, c) ==
  /\ At(s, "create")
  /\ MayInsert(c, buildContactRow(calls[s].key))
  /\ Insert(c, buildContactRow(calls[s].key))
  /\ GoTo(s, "row", c)
  /\ UNCHANGED channels

(* The insert's error is thrown: the address may be a contact's already.     *)
CreateFails(s) ==
  /\ At(s, "create")
  /\ calls' = [calls EXCEPT ![s] = Idle]
  /\ UNCHANGED <<contacts, channels>>

InsertChannel(s) ==
  /\ At(s, "row")
  /\ channels' \in {channels, WithChannel(calls[s].key, calls[s].contact)}
  /\ GoTo(s, "new", calls[s].contact)
  /\ UNCHANGED contacts

Answered(s) == At(s, "known") \/ At(s, "new")

(* The caller has its answer, or the process stops in the middle.            *)
Return(s) ==
  /\ calls[s] # Idle
  /\ calls' = [calls EXCEPT ![s] = Idle]
  /\ UNCHANGED <<contacts, channels>>

----------------------------------------------------------------------------
(* mergeTags, and listOutbound with markOutboundSynced for its rows: columns *)
(* are read for many contacts, and written back one contact at a time.       *)

ReadColumn(s, column, cs, added) ==
  /\ calls[s] = Idle
  /\ added # {} /\ \E c \in cs : Exists(c)
  /\ calls' = [calls EXCEPT ![s] =
       [op |-> "merge", column |-> column, added |-> added,
        left |-> {c \in cs : Exists(c)}, raced |-> {},
        read |-> [c \in {d \in cs : Exists(d)} |->
                    contacts[c].entries \cap Column(column)]]]
  /\ UNCHANGED <<contacts, channels>>

mergeTags(s, cs, tags) == ReadColumn(s, "tags", cs, tags)

(* A page of contacts goes to the desk, whose adapter adds what it assigned. *)
listOutbound(s, page, assigned) == ReadColumn(s, "custom_fields", page, assigned)

(* Mutant: what was there is not merged in.                                  *)
MergedOver(call, c, entries) ==
  (entries \ Column(call.column)) \cup call.added

(* One column of the row is written.                                         *)
Merged(call, c, entries) ==
  (entries \ Column(call.column)) \cup call.read[c] \cup call.added

(* A row that is gone is not missed; a failed write is passed over.          *)
WriteColumn(s, c) ==
  /\ calls[s].op = "merge" /\ c \in calls[s].left
  /\ \/ /\ Exists(c)
        /\ contacts' = [contacts EXCEPT ![c].entries = Merged(calls[s], c, @)]
        /\ calls' = [[t \in Sessions |-> Overtaken(t, s, c)]
                       EXCEPT ![s].left = @ \ {c}, ![s].raced = @ \ {c}]
     \/ /\ calls' = [calls EXCEPT ![s].left = @ \ {c}, ![s].raced = @ \ {c}]
        /\ UNCHANGED contacts
  /\ UNCHANGED channels

----------------------------------------------------------------------------

Edit ==
  \/ \E c \in Ids, row \in TenantRows :
       Create(c, row) \/ Update(c, row)
         \/ \E match \in Ids \cup {None} : ApplyInbound(match, c, row)
  \/ \E c, d \in Ids, row, other \in TenantRows : BulkCreate(c, d, row, other)
  \/ \E cs \in SUBSET Ids : Remove(cs)

Inbound(s) ==
  \/ \E k \in Keys, written \in Written : Receive(s, k.channel, written)
  \/ LookUpChannel(s) \/ LookUpPhone(s) \/ LookUpFails(s) \/ Reuse(s)
  \/ \E c \in Ids : CreateSender(s, c)
  \/ CreateFails(s) \/ InsertChannel(s)

Merging(s) ==
  \/ \E cs \in SUBSET Ids, added \in Additions :
       \/ added \subseteq Tags /\ mergeTags(s, cs, added)
       \/ added \subseteq Fields /\ listOutbound(s, cs, added)
  \/ \E c \in Ids : WriteColumn(s, c)

NextStores ==
  /\ \/ Edit /\ edits < MaxEdits[role] /\ edits' = edits + 1
     \/ /\ \E s \in Sessions :
             (role[s] = "messages" /\ Inbound(s)) \/ (role[s] = "merges" /\ Merging(s))
               \/ Return(s)
        /\ UNCHANGED edits
  /\ UNCHANGED role

----------------------------------------------------------------------------
(* Properties.                                                               *)

(* A sender who was known when the message came in, by the address's channel *)
(* or by a contact's number, is not made a contact again, and an address     *)
(* that was someone's is answered with whose it was: whatever other messages *)
(* do meanwhile, and whichever of their writes failed, as long as the tenant *)
(* does not edit and no look-up of its own fails.  Two messages from an      *)
(* unknown sender may still make two contacts (system-store.ts:285).         *)
SenderIsRecognized ==
  \A s \in Sessions :
    /\ At(s, "new") => ~calls[s].familiar
    /\ Answered(s) /\ calls[s].owner # None => calls[s].contact = calls[s].owner

(* What is merged from an older reading takes away only what another write   *)
(* to the same column put there since: tags and custom fields are never lost *)
(* to each other, nor to a merge that nobody overtook (tenant-store.ts:190,  *)
(* "racy under concurrent tag updates").                                     *)
EntriesAreKept ==
  [][\A s \in Sessions :
       calls[s].op = "merge" /\ contacts' # contacts =>
         \A c \in calls[s].left \ calls'[s].left :
           c \notin calls[s].raced => contacts[c].entries \subseteq contacts'[c].entries]_storesVars
================================================================================
