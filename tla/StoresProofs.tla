---------------------------- MODULE StoresProofs -----------------------------
(***************************************************************************)
(* Theorems about the stores of contacts and of the records that link to   *)
(* them, for any number of contacts, records, messages, merges and calls   *)
(* that run at once.                                                       *)
(***************************************************************************)
EXTENDS PipelineStores, TLAPS

(* What the sessions carry.                                                *)
ResolveCall ==
  [op : {"resolve"}, at : {"channel", "phone", "reuse", "create", "row", "known", "new"},
   key : Keys, contact : Ids \cup {None}, familiar : BOOLEAN, owner : Ids \cup {None}]
Readings == UNION {[S -> SUBSET Entries] : S \in SUBSET Ids}
MergeCall ==
  [op : {"merge"}, column : {"tags", "custom_fields"}, added : SUBSET Entries,
   left : SUBSET Ids, raced : SUBSET Ids, read : Readings]
Tables == {Companies, Deals, Tasks, Notes, Stages}
WriteCall ==
  [op : {"create", "update"}, at : {"write"}, table : Tables, id : Records \cup {None},
   links : Links, fields : SUBSET LinkNames, left : SUBSET LinkNames]
RemoveCall ==
  [op : {"remove"}, at : {"write"}, id : Companies \cup Deals \cup Tasks, existing : BOOLEAN]
LogCall ==
  [op : {"log"}, at : {"write"}, type : {"created", "updated", "deleted", "note_added"},
   of : SUBSET (Ids \cup Records \cup Elsewhere \cup {None})]
SeedCall == [op : {"seed"}, at : {"write"}]

Call == ResolveCall \cup MergeCall \cup WriteCall \cup RemoveCall \cup LogCall \cup SeedCall \cup {Idle}

RecordRow == [is : {"row"}, links : Links]

ContactsOK ==
  /\ contacts \in [Ids -> Row \cup {Unborn, Gone}]
  /\ channels \in [Keys -> Ids \cup {None}]
  /\ calls \in [Sessions -> Call]
RecordsOK == rec \in [Records -> RecordRow \cup {Unborn, Gone}]

(* Until it is recognized, a sender who was known is still on the channel or *)
(* has the number; whose the address was is whose it is.                     *)
SenderKnown(c) ==
  c.op = "resolve" =>
    /\ c.at = "channel" =>
         /\ c.familiar => Known(c.key)
         /\ c.owner # None => channels[c.key] = c.owner
    /\ c.at = "phone" /\ c.familiar => ContactsByPhone(c.key) # {}
    /\ c.at \in {"create", "row", "new"} => ~c.familiar
    /\ c.at \in {"phone", "reuse", "create", "row", "new"} => c.owner = None
    /\ c.at = "known" /\ c.owner # None => c.contact = c.owner

(* What a merge has read of a contact that nobody wrote since is what the    *)
(* contact holds.                                                            *)
ReadingHolds(c) ==
  c.op = "merge" =>
    /\ c.added \subseteq Column(c.column)
    /\ \A x \in c.left :
         /\ c.read[x] \subseteq Column(c.column)
         /\ x \notin c.raced =>
              Exists(x) /\ contacts[x].entries \cap Column(c.column) \subseteq c.read[x]

(* The links of a request that are not left to look up are the tenant's.     *)
RequestHolds(c) ==
  c.op \in {"create", "update"} =>
    /\ Fits(c.table, c.links) /\ c.fields \subseteq Columns(c.table)
    /\ c.op = "update" => c.id \in c.table
    /\ c.table # Notes => \A f \in LinkNames \ c.left : c.links[f] \notin Elsewhere

CallHolds(c) == SenderKnown(c) /\ ReadingHolds(c) /\ RequestHolds(c)
CallsHold == \A s \in Sessions : CallHolds(calls[s])

(* The inductive invariant.                                                  *)
StoresInv == ContactsOK /\ RecordsOK /\ CallsHold /\ LinksHold

-------------------------------------------------------------------------------
(* Contacts and calls *)

LEMMA RowTyped ==
  ASSUME ContactsOK, NEW c \in Ids
  PROVE  Exists(c) <=> contacts[c] \in Row
BY DEF ContactsOK, Exists, Row, Unborn, Gone

LEMMA SessionTyped ==
  ASSUME ContactsOK, NEW s \in Sessions
  PROVE  /\ calls[s] \in Call
         /\ calls[s].op = "resolve" <=> calls[s] \in ResolveCall
         /\ calls[s].op = "merge" <=> calls[s] \in MergeCall
         /\ calls[s].op \in {"create", "update"} <=> calls[s] \in WriteCall
BY DEF ContactsOK, Call, ResolveCall, MergeCall, WriteCall, RemoveCall, LogCall, SeedCall, Idle

LEMMA IdleHolds == Idle \in Call /\ CallHolds(Idle)
BY DEF Idle, Call, CallHolds, SenderKnown, ReadingHolds, RequestHolds

(* What a call relies on is in the tables of contacts.                       *)
LEMMA CallsRelyOnContacts ==
  ASSUME UNCHANGED <<contacts, channels>>, NEW c
  PROVE  CallHolds(c)' <=> CallHolds(c)
BY DEF CallHolds, SenderKnown, ReadingHolds, RequestHolds, Known, ContactsByPhone, PhoneIs,
       Exists

(* A step of one session that leaves the tables of contacts alone.           *)
LEMMA QuietStep ==
  ASSUME ContactsOK, CallsHold, UNCHANGED <<contacts, channels>>,
         NEW s \in Sessions, NEW call \in Call, CallHolds(call),
         calls' = [calls EXCEPT ![s] = call]
  PROVE  ContactsOK' /\ CallsHold'
<1>1. ContactsOK'
  BY DEF ContactsOK
<1>2. ASSUME NEW r \in Sessions PROVE CallHolds(calls[r])'
  <2>1. CallHolds(calls'[r])
    BY DEF ContactsOK, CallsHold
  <2>2. \A c : CallHolds(c)' <=> CallHolds(c)
    BY CallsRelyOnContacts
  <2> QED BY <2>1, <2>2
<1> QED BY <1>1, <1>2 DEF CallsHold

(* A resolving call goes on.                                                 *)
LEMMA GoToIs ==
  ASSUME ContactsOK, NEW s \in Sessions, calls[s].op = "resolve",
         NEW at \in {"channel", "phone", "reuse", "create", "row", "known", "new"},
         NEW c \in Ids \cup {None}, GoTo(s, at, c)
  PROVE  \E call \in ResolveCall :
           /\ call.at = at /\ call.contact = c /\ call.key = calls[s].key
           /\ call.familiar = calls[s].familiar /\ call.owner = calls[s].owner
           /\ calls' = [calls EXCEPT ![s] = call]
<1>1. calls[s] \in ResolveCall
  BY SessionTyped
<1>2. PICK call : call = calls'[s]
  OBVIOUS
<1>3. /\ call \in ResolveCall /\ call.at = at /\ call.contact = c /\ call.key = calls[s].key
      /\ call.familiar = calls[s].familiar /\ call.owner = calls[s].owner
  BY <1>1, <1>2 DEF GoTo, ResolveCall, ContactsOK
<1>4. calls' = [calls EXCEPT ![s] = call]
  BY <1>2 DEF GoTo, ContactsOK
<1> QED BY <1>3, <1>4

(* A step of a resolving call that only goes on.                             *)
LEMMA OnwardStep ==
  ASSUME ContactsOK, CallsHold, UNCHANGED <<contacts, channels>>,
         NEW s \in Sessions, calls[s].op = "resolve",
         NEW at \in {"channel", "phone", "reuse", "create", "row", "known", "new"},
         NEW c \in Ids \cup {None}, GoTo(s, at, c),
         at = "phone" /\ calls[s].familiar => ContactsByPhone(calls[s].key) # {},
         at \in {"create", "row", "new"} => ~calls[s].familiar,
         at \in {"phone", "reuse", "create", "row", "new"} => calls[s].owner = None,
         at = "known" /\ calls[s].owner # None => c = calls[s].owner,
         at # "channel"
  PROVE  ContactsOK' /\ CallsHold'
<1>1. PICK call \in ResolveCall :
        /\ call.at = at /\ call.contact = c /\ call.key = calls[s].key
        /\ call.familiar = calls[s].familiar /\ call.owner = calls[s].owner
        /\ calls' = [calls EXCEPT ![s] = call]
  BY GoToIs
<1>2. call \in Call /\ CallHolds(call)
  BY <1>1 DEF Call, ResolveCall, CallHolds, SenderKnown, ReadingHolds, RequestHolds
<1> QED BY <1>1, <1>2, QuietStep

LEMMA InboundQuiet ==
  ASSUME ContactsOK, CallsHold, NEW s \in Sessions,
         \/ \E k \in Keys, written \in Written : Receive(s, k.channel, written)
         \/ LookUpChannel(s) \/ LookUpPhone(s) \/ LookUpFails(s) \/ CreateFails(s)
         \/ Return(s)
  PROVE  ContactsOK' /\ CallsHold'
<1> DEFINE Kept == ContactsOK' /\ CallsHold'
<1>1. ASSUME NEW k \in Keys, NEW written \in Written, Receive(s, k.channel, written) PROVE Kept
  <2> DEFINE key == [channel |-> k.channel, address |-> normalizeAddress(written).address]
             call == [op |-> "resolve", at |-> "channel", key |-> key, contact |-> None,
                      familiar |-> Known(key), owner |-> channels[key]]
  <2>1. /\ key \in Keys /\ calls' = [calls EXCEPT ![s] = call]
        /\ UNCHANGED <<contacts, channels>>
    BY <1>1 DEF Receive
  <2>2. Known(key) \in BOOLEAN
    BY DEF Known
  <2>3. call \in ResolveCall
    BY <2>1, <2>2 DEF ResolveCall, ContactsOK
  <2>4. CallHolds(call)
    BY DEF CallHolds, SenderKnown, ReadingHolds, RequestHolds
  <2>5. call \in Call
    BY <2>3 DEF Call
  <2> HIDE DEF call
  <2> QED BY <2>1, <2>4, <2>5, QuietStep
<1>2. ASSUME LookUpChannel(s) PROVE Kept
  <2>1. /\ calls[s].op = "resolve" /\ calls[s].at = "channel" /\ calls[s] \in ResolveCall
        /\ UNCHANGED <<contacts, channels>> /\ SenderKnown(calls[s])
    BY <1>2, SessionTyped DEF LookUpChannel, At, CallHolds, CallsHold
  <2> DEFINE c == channels[calls[s].key]
  <2>2. c \in Ids \cup {None}
    BY <2>1 DEF ContactsOK, ResolveCall
  <2>3. CASE c # None /\ GoTo(s, "known", c)
    <3>1. calls[s].owner # None => c = calls[s].owner
      BY <2>1 DEF SenderKnown
    <3> HIDE DEF c
    <3> QED BY <2>1, <2>2, <2>3, <3>1, OnwardStep
  <2>4. CASE c = None /\ GoTo(s, AfterChannel(calls[s].key), None)
    <3>1. calls[s].owner = None
      BY <2>1, <2>4 DEF SenderKnown
    <3>2. calls[s].familiar =>
             calls[s].key.channel \in PhoneChannels /\ ContactsByPhone(calls[s].key) # {}
      BY <2>1, <2>4 DEF SenderKnown, Known, ContactsByPhone
    <3>3. CASE calls[s].key.channel \in PhoneChannels /\ GoTo(s, "phone", None)
      BY <2>1, <3>1, <3>2, <3>3, OnwardStep
    <3>4. CASE calls[s].key.channel \notin PhoneChannels /\ GoTo(s, "create", None)
      BY <2>1, <3>1, <3>2, <3>4, OnwardStep
    <3> QED BY <2>4, <3>3, <3>4 DEF AfterChannel
  <2> QED BY <1>2, <2>3, <2>4 DEF LookUpChannel
<1>3. ASSUME LookUpPhone(s) PROVE Kept
  <2>1. /\ calls[s].op = "resolve" /\ calls[s].at = "phone"
        /\ UNCHANGED <<contacts, channels>> /\ SenderKnown(calls[s])
    BY <1>3 DEF LookUpPhone, At, CallHolds, CallsHold
  <2>2. ASSUME NEW c \in ContactsByPhone(calls[s].key), GoTo(s, "reuse", c) PROVE Kept
    <3>1. calls[s].owner = None /\ c \in Ids
      BY <2>1, <2>2 DEF SenderKnown, ContactsByPhone
    <3> QED BY <2>1, <2>2, <3>1, OnwardStep
  <2>3. CASE ContactsByPhone(calls[s].key) = {} /\ GoTo(s, "create", None)
    <3>1. calls[s].owner = None /\ ~calls[s].familiar
      BY <2>1, <2>3 DEF SenderKnown
    <3> QED BY <2>1, <2>3, <3>1, OnwardStep
  <2> QED BY <1>3, <2>2, <2>3 DEF LookUpPhone
<1>4. ASSUME LookUpFails(s) PROVE Kept
  <2>1. calls[s] \in ResolveCall /\ UNCHANGED <<contacts, channels>>
    BY <1>4, SessionTyped DEF LookUpFails, At
  <2>2. PICK at \in {"phone", "create"} :
          calls' = [calls EXCEPT ![s].at = at, ![s].familiar = FALSE, ![s].owner = None]
    BY <1>4 DEF LookUpFails, AfterChannel
  <2>3. PICK call : call = calls'[s]
    OBVIOUS
  <2>4. call \in ResolveCall /\ call.at = at /\ ~call.familiar /\ call.owner = None
    BY <2>1, <2>2, <2>3 DEF ResolveCall, ContactsOK
  <2>5. calls' = [calls EXCEPT ![s] = call]
    BY <2>2, <2>3 DEF ContactsOK
  <2>6. call \in Call /\ CallHolds(call)
    BY <2>4 DEF Call, ResolveCall, CallHolds, SenderKnown, ReadingHolds, RequestHolds
  <2> QED BY <2>1, <2>5, <2>6, QuietStep
<1>5. ASSUME CreateFails(s) \/ Return(s) PROVE Kept
  BY <1>5, IdleHolds, QuietStep DEF CreateFails, Return
<1> QED BY <1>1, <1>2, <1>3, <1>4, <1>5

-------------------------------------------------------------------------------
(* What merges read and write. *)

LEMMA ReadHolds ==
  ASSUME ContactsOK, CallsHold, NEW s \in Sessions,
         NEW column \in {"tags", "custom_fields"}, NEW cs \in SUBSET Ids,
         NEW added \in SUBSET Column(column), ReadColumn(s, column, cs, added)
  PROVE  ContactsOK' /\ CallsHold'
<1> DEFINE left == {c \in cs : Exists(c)}
           read == [c \in {d \in cs : Exists(d)} |-> contacts[c].entries \cap Column(column)]
           call == [op |-> "merge", column |-> column, added |-> added, left |-> left,
                    raced |-> {}, read |-> read]
<1>1. calls' = [calls EXCEPT ![s] = call] /\ UNCHANGED <<contacts, channels>>
  BY DEF ReadColumn
<1>2. Column(column) \subseteq Entries
  BY DEF Column, Entries
<1>3. read \in [left -> SUBSET Entries] /\ left \in SUBSET Ids
  BY <1>2
<1>4. call \in MergeCall
  BY <1>2, <1>3 DEF MergeCall, Readings
<1>5. CallHolds(call)
  BY DEF CallHolds, SenderKnown, ReadingHolds, RequestHolds
<1>6. call \in Call
  BY <1>4 DEF Call
<1> HIDE DEF call
<1> QED BY <1>1, <1>5, <1>6, QuietStep

-------------------------------------------------------------------------------
(* The tables of contacts change, the calls do not: rows and channels are *)
(* added.                                                                 *)

Grows ==
  /\ \A c \in Ids : Exists(c) => contacts'[c] = contacts[c]
  /\ \A k \in Keys : channels[k] # None => channels'[k] = channels[k]

LEMMA GrowingHolds ==
  ASSUME ContactsOK, Grows, NEW call \in Call, CallHolds(call)
  PROVE  CallHolds(call)'
<1>1. \A c \in Ids : Exists(c) => Exists(c)'
  BY DEF Grows, Exists
<1>2. \A k \in Keys : \A c \in Ids : PhoneIs(k, c) => PhoneIs(k, c)'
  BY <1>1 DEF Grows, PhoneIs
<1>3. CASE call \in ResolveCall
  <2>1. call.key \in Keys
    BY <1>3 DEF ResolveCall
  <2>2. Known(call.key) => Known(call.key)'
    BY <1>2, <2>1 DEF Known, Grows
  <2>3. ContactsByPhone(call.key) # {} => ContactsByPhone(call.key)' # {}
    BY <1>2, <2>1 DEF ContactsByPhone
  <2>4. SenderKnown(call)'
    BY <2>1, <2>2, <2>3 DEF CallHolds, SenderKnown, Grows
  <2> QED BY <1>3, <2>4 DEF CallHolds, ReadingHolds, RequestHolds, ResolveCall
<1>4. CASE call \in MergeCall
  <2>1. ReadingHolds(call)'
    BY <1>1, <1>4 DEF CallHolds, ReadingHolds, Grows, MergeCall
  <2> QED BY <1>4, <2>1 DEF CallHolds, SenderKnown, RequestHolds, MergeCall
<1>5. CASE call \notin ResolveCall \cup MergeCall
  <2>1. call.op \notin {"resolve", "merge"}
    BY <1>5 DEF Call, WriteCall, RemoveCall, LogCall, SeedCall, Idle
  <2> QED BY <2>1 DEF CallHolds, SenderKnown, ReadingHolds, RequestHolds
<1> QED BY <1>3, <1>4, <1>5

(* A step that adds, of one session or of none.                              *)
LEMMA GrowingStep ==
  ASSUME ContactsOK, CallsHold, Grows, contacts' \in [Ids -> Row \cup {Unborn, Gone}],
         channels' \in [Keys -> Ids \cup {None}],
         \/ UNCHANGED calls
         \/ \E s \in Sessions, call \in Call :
              CallHolds(call) /\ calls' = [calls EXCEPT ![s] = call]
  PROVE  ContactsOK' /\ CallsHold'
<1>1. ContactsOK'
  BY DEF ContactsOK
<1>2. ASSUME NEW r \in Sessions PROVE CallHolds(calls[r])'
  <2>1. calls'[r] \in Call /\ CallHolds(calls'[r])
    BY DEF ContactsOK, CallsHold
  <2>2. PICK call \in Call : call = calls'[r]
    BY <2>1
  <2>3. CallHolds(call)'
    BY <2>1, <2>2, GrowingHolds
  <2> QED BY <2>2, <2>3
<1> QED BY <1>1, <1>2 DEF CallsHold

(* A contact with a channel is known from then on.                           *)
LEMMA ChannelHolds ==
  ASSUME ContactsOK, CallsHold, NEW s \in Sessions, Reuse(s) \/ InsertChannel(s)
  PROVE  ContactsOK' /\ CallsHold'
<1> DEFINE c == calls[s].contact
           k == calls[s].key
<1>1. /\ calls[s] \in ResolveCall /\ calls[s].op = "resolve" /\ SenderKnown(calls[s])
      /\ calls[s].at \in {"reuse", "row"} /\ calls[s].owner = None
  BY SessionTyped DEF Reuse, InsertChannel, At, CallsHold, CallHolds, SenderKnown
<1>2. k \in Keys /\ c \in Ids \cup {None}
  BY <1>1 DEF ResolveCall
<1>3. channels' \in {channels, WithChannel(k, c)} /\ UNCHANGED contacts
  BY DEF Reuse, InsertChannel
<1>4. Grows /\ channels' \in [Keys -> Ids \cup {None}]
  <2> HIDE DEF k, c
  <2> QED BY <1>2, <1>3 DEF ContactsOK, Grows, WithChannel
<1>5. \E call \in Call : CallHolds(call) /\ calls' = [calls EXCEPT ![s] = call]
  <2>1. PICK at \in {"known", "new"} : GoTo(s, at, c) /\ (at = "new" => ~calls[s].familiar)
    BY <1>1 DEF Reuse, InsertChannel, At, SenderKnown
  <2>2. PICK call \in ResolveCall :
          /\ call.at = at /\ call.familiar = calls[s].familiar /\ call.owner = calls[s].owner
          /\ calls' = [calls EXCEPT ![s] = call]
    <3> HIDE DEF c
    <3> QED BY <1>1, <1>2, <2>1, GoToIs
  <2>3. call \in Call /\ CallHolds(call)
    BY <1>1, <2>1, <2>2
       DEF Call, ResolveCall, CallHolds, SenderKnown, ReadingHolds, RequestHolds
  <2> QED BY <2>2, <2>3
<1> QED BY <1>3, <1>4, <1>5, GrowingStep DEF ContactsOK

LEMMA SenderRow ==
  ASSUME NEW k \in Keys
  PROVE  buildContactRow(k) \in Row
<1> DEFINE own == [address |-> k.address, plain |-> TRUE]
<1>1. own \in Written
  BY DEF Keys, Written, Addresses
<1>2. CASE k.channel \in PhoneChannels
  <2>1. k.address \in Phones
    BY <1>2, StoresAssumption DEF Keys
  <2>2. own \in {w \in Written : w.address \in Phones}
    BY <1>1, <2>1
  <2> HIDE DEF own
  <2>3. [is |-> "row", phone |-> own, email |-> Nothing, entries |-> {}] \in Row
    BY <2>2 DEF Row
  <2> QED BY <1>2, <2>3 DEF buildContactRow, own
<1>3. CASE k.channel \notin PhoneChannels
  <2>1. own \in {w \in Written : w.address \in Emails}
    BY <1>1, <1>3 DEF Keys
  <2> HIDE DEF own
  <2>2. [is |-> "row", phone |-> Nothing, email |-> own, entries |-> {}] \in Row
    BY <2>1 DEF Row
  <2> QED BY <1>3, <2>2 DEF buildContactRow, own
<1> QED BY <1>2, <1>3

LEMMA InsertGrows ==
  ASSUME ContactsOK, NEW c \in Ids, NEW row \in Row, MayInsert(c, row), Insert(c, row),
         UNCHANGED channels
  PROVE  Grows /\ contacts' \in [Ids -> Row \cup {Unborn, Gone}]
BY DEF ContactsOK, Grows, MayInsert, Insert, Exists, Unborn

LEMMA CreateSenderHolds ==
  ASSUME ContactsOK, CallsHold, NEW s \in Sessions, NEW c \in Ids, CreateSender(s, c)
  PROVE  ContactsOK' /\ CallsHold'
<1>1. /\ calls[s] \in ResolveCall /\ calls[s].op = "resolve"
      /\ ~calls[s].familiar /\ calls[s].owner = None /\ UNCHANGED channels
  BY SessionTyped DEF CreateSender, At, CallsHold, CallHolds, SenderKnown
<1>2. calls[s].key \in Keys
  BY <1>1 DEF ResolveCall
<1>3. Grows /\ contacts' \in [Ids -> Row \cup {Unborn, Gone}]
  BY <1>1, <1>2, SenderRow, InsertGrows DEF CreateSender
<1>4. PICK call \in ResolveCall :
        /\ call.at = "row" /\ call.familiar = calls[s].familiar /\ call.owner = calls[s].owner
        /\ calls' = [calls EXCEPT ![s] = call]
  BY <1>1, GoToIs DEF CreateSender
<1>5. call \in Call /\ CallHolds(call)
  BY <1>1, <1>4 DEF Call, ResolveCall, CallHolds, SenderKnown, ReadingHolds, RequestHolds
<1> QED BY <1>1, <1>3, <1>4, <1>5, GrowingStep DEF ContactsOK

LEMMA CreatesHold ==
  ASSUME ContactsOK, CallsHold, NEW c \in Ids, NEW d \in Ids,
         NEW row \in TenantRows, NEW other \in TenantRows,
         Create(c, row) \/ BulkCreate(c, d, row, other)
  PROVE  ContactsOK' /\ CallsHold'
<1>1. row \in Row /\ other \in Row
  BY StoresAssumption
<1>2. CASE Create(c, row)
  BY <1>1, <1>2, InsertGrows, GrowingStep DEF Create, ContactsOK
<1>3. CASE BulkCreate(c, d, row, other)
  <2>1. Grows /\ contacts' \in [Ids -> Row \cup {Unborn, Gone}]
    BY <1>1, <1>3 DEF BulkCreate, MayInsert, ContactsOK, Grows, Exists, Unborn
  <2> QED BY <1>3, <2>1, GrowingStep DEF BulkCreate, ContactsOK
<1> QED BY <1>2, <1>3

-------------------------------------------------------------------------------
(* Rows change, and so do the histories of the calls. *)

LEMMA EditedCalls ==
  ASSUME ContactsOK, NEW gone, NEW cs \in SUBSET Ids, NEW s \in Sessions,
         calls' = Edited(gone, cs)
  PROVE  /\ calls[s] \in ResolveCall =>
              /\ calls'[s] \in ResolveCall /\ ~calls'[s].familiar
              /\ calls'[s].at = calls[s].at /\ calls'[s].key = calls[s].key
              /\ calls'[s].contact = calls[s].contact
              /\ calls'[s].owner = IF calls[s].owner \in gone THEN None ELSE calls[s].owner
         /\ calls[s] \in MergeCall =>
              /\ calls'[s] \in MergeCall /\ calls'[s].column = calls[s].column
              /\ calls'[s].added = calls[s].added /\ calls'[s].read = calls[s].read
              /\ calls'[s].left = calls[s].left
              /\ calls'[s].raced = calls[s].raced \cup (cs \cap calls[s].left)
         /\ calls[s] \notin ResolveCall \cup MergeCall => calls'[s] = calls[s]
<1>1. /\ calls[s].op = "resolve" <=> calls[s] \in ResolveCall
      /\ calls[s].op = "merge" <=> calls[s] \in MergeCall
  BY SessionTyped
<1>2. CASE calls[s] \in ResolveCall
  <2>1. calls'[s] = [calls[s] EXCEPT !.familiar = FALSE,
                                     !.owner = IF @ \in gone THEN None ELSE @]
    BY <1>1, <1>2 DEF Edited
  <2> QED BY <1>1, <1>2, <2>1 DEF ResolveCall, MergeCall
<1>3. CASE calls[s] \in MergeCall
  <2>1. calls'[s] = [calls[s] EXCEPT !.raced = @ \cup (cs \cap calls[s].left)]
    BY <1>1, <1>3 DEF Edited, MergeCall
  <2> QED BY <1>3, <2>1 DEF ResolveCall, MergeCall
<1>4. CASE calls[s] \notin ResolveCall \cup MergeCall
  BY <1>1, <1>4 DEF Edited
<1> QED BY <1>2, <1>3, <1>4

LEMMA EditedHolds ==
  ASSUME ContactsOK, CallsHold, NEW gone, NEW cs \in SUBSET Ids,
         contacts' \in [Ids -> Row \cup {Unborn, Gone}],
         channels' \in [Keys -> Ids \cup {None}],
         calls' = Edited(gone, cs),
         \A x \in Ids \ cs : contacts'[x] = contacts[x],
         \A k \in Keys : channels[k] \notin gone \cup {None} => channels'[k] = channels[k]
  PROVE  ContactsOK' /\ CallsHold'
<1>1. ASSUME NEW s \in Sessions PROVE calls'[s] \in Call /\ CallHolds(calls[s])'
  <2>1. CallHolds(calls[s]) /\ calls[s] \in Call
    BY SessionTyped DEF CallsHold
  <2>2. CASE calls[s] \in ResolveCall
    <3>1. /\ calls'[s] \in ResolveCall /\ ~calls'[s].familiar
          /\ calls'[s].at = calls[s].at /\ calls'[s].key = calls[s].key
          /\ calls'[s].contact = calls[s].contact
          /\ calls'[s].owner = IF calls[s].owner \in gone THEN None ELSE calls[s].owner
      BY <2>2, EditedCalls
    <3>2. calls[s].op = "resolve" /\ calls[s].key \in Keys
      BY <2>2 DEF ResolveCall
    <3>3. SenderKnown(calls[s])'
      BY <2>1, <3>1, <3>2 DEF CallHolds, SenderKnown
    <3> QED BY <3>1, <3>3 DEF CallHolds, ReadingHolds, RequestHolds, ResolveCall, Call
  <2>3. CASE calls[s] \in MergeCall
    <3>1. /\ calls'[s] \in MergeCall /\ calls'[s].column = calls[s].column
          /\ calls'[s].added = calls[s].added /\ calls'[s].read = calls[s].read
          /\ calls'[s].left = calls[s].left
          /\ calls'[s].raced = calls[s].raced \cup (cs \cap calls[s].left)
      BY <2>3, EditedCalls
    <3>2. calls[s].op = "merge" /\ calls[s].left \subseteq Ids
      BY <2>3 DEF MergeCall
    <3>3. ReadingHolds(calls[s])'
      BY <2>1, <3>1, <3>2 DEF CallHolds, ReadingHolds, Exists
    <3> QED BY <3>1, <3>3 DEF CallHolds, SenderKnown, RequestHolds, MergeCall, Call
  <2>4. CASE calls[s] \notin ResolveCall \cup MergeCall
    <3>1. calls'[s] = calls[s] /\ calls[s].op \notin {"resolve", "merge"}
      BY <2>4, EditedCalls, SessionTyped
    <3> QED BY <2>1, <3>1 DEF CallHolds, SenderKnown, ReadingHolds, RequestHolds
  <2> QED BY <2>2, <2>3, <2>4
<1>2. ContactsOK'
  BY <1>1 DEF ContactsOK, Edited
<1> QED BY <1>1, <1>2 DEF CallsHold

LEMMA UpdateHolds ==
  ASSUME ContactsOK, CallsHold, NEW c \in Ids, NEW row \in TenantRows, Update(c, row)
  PROVE  ContactsOK' /\ CallsHold'
<1>1. row \in Row
  BY StoresAssumption
<1>2. contacts' \in [Ids -> Row \cup {Unborn, Gone}] /\ UNCHANGED channels
      /\ (\A x \in Ids \ {c} : contacts'[x] = contacts[x]) /\ calls' = Edited({}, {c})
  BY <1>1 DEF Update, ContactsOK
<1> QED BY <1>2, EditedHolds DEF ContactsOK

LEMMA RemoveHolds ==
  ASSUME ContactsOK, CallsHold, NEW cs \in SUBSET Ids, Remove(cs)
  PROVE  ContactsOK' /\ CallsHold'
<1>1. /\ contacts' \in [Ids -> Row \cup {Unborn, Gone}]
      /\ channels' \in [Keys -> Ids \cup {None}]
      /\ \A x \in Ids \ cs : contacts'[x] = contacts[x]
      /\ \A k \in Keys : channels[k] \notin cs \cup {None} => channels'[k] = channels[k]
      /\ calls' = Edited(cs, cs)
  BY DEF Remove, ContactsOK
<1> QED BY <1>1, EditedHolds

LEMMA EditHolds ==
  ASSUME ContactsOK, CallsHold, Edit
  PROVE  ContactsOK' /\ CallsHold'
BY CreatesHold, UpdateHolds, RemoveHolds DEF Edit, ApplyInbound

-------------------------------------------------------------------------------
(* A merge writes back. *)

(* The two columns share no entry.                                           *)
LEMMA ColumnsApart ==
  ASSUME NEW a \in {"tags", "custom_fields"}, NEW b \in {"tags", "custom_fields"}, a # b
  PROVE  Column(a) \cap Column(b) = {}
BY StoresAssumption DEF Column

LEMMA MergedRow ==
  ASSUME ContactsOK, CallsHold, NEW s \in Sessions, NEW c \in Ids,
         calls[s].op = "merge", c \in calls[s].left, Exists(c),
         contacts' = [contacts EXCEPT ![c].entries = Merged(calls[s], c, @)]
  PROVE  /\ contacts' \in [Ids -> Row \cup {Unborn, Gone}]
         /\ \A x \in Ids : x # c => contacts'[x] = contacts[x]
         /\ Exists(c)' /\ contacts'[c].phone = contacts[c].phone
         /\ contacts'[c].entries =
              (contacts[c].entries \ Column(calls[s].column)) \cup calls[s].read[c]
                \cup calls[s].added
<1>1. contacts[c] \in Row /\ calls[s] \in MergeCall
  BY RowTyped, SessionTyped
<1>2. ReadingHolds(calls[s])
  BY DEF CallsHold, CallHolds
<1>3. Merged(calls[s], c, contacts[c].entries) =
        (contacts[c].entries \ Column(calls[s].column)) \cup calls[s].read[c]
          \cup calls[s].added
  BY DEF Merged
<1>4. Merged(calls[s], c, contacts[c].entries) \in SUBSET Entries
  <2>1. /\ calls[s].read[c] \subseteq Column(calls[s].column)
        /\ calls[s].added \subseteq Column(calls[s].column)
    BY <1>2 DEF ReadingHolds
  <2>2. Column(calls[s].column) \subseteq Entries /\ contacts[c].entries \subseteq Entries
    BY <1>1 DEF Column, Entries, Row
  <2> QED BY <1>3, <2>1, <2>2
<1>5. [contacts[c] EXCEPT !.entries = Merged(calls[s], c, @)] \in Row
  BY <1>1, <1>4 DEF Row
<1>6. contacts'[c] = [contacts[c] EXCEPT !.entries = Merged(calls[s], c, @)]
  BY DEF ContactsOK
<1>7. contacts' \in [Ids -> Row \cup {Unborn, Gone}]
      /\ \A x \in Ids : x # c => contacts'[x] = contacts[x]
  BY <1>5 DEF ContactsOK
<1>8. /\ contacts'[c].is = "row" /\ contacts'[c].phone = contacts[c].phone
      /\ contacts'[c].entries = Merged(calls[s], c, contacts[c].entries)
  BY <1>1, <1>5, <1>6 DEF Row
<1> QED BY <1>3, <1>7, <1>8 DEF Exists

(* What a write does to the merges that run: the writer is done with the     *)
(* contact, and who read the column before is raced.                         *)
LEMMA MergingCalls ==
  ASSUME ContactsOK, NEW s \in Sessions, NEW c \in Ids, NEW t \in Sessions,
         calls[s].op = "merge",
         calls' = [[r \in Sessions |-> Overtaken(r, s, c)]
                     EXCEPT ![s].left = @ \ {c}, ![s].raced = @ \ {c}]
  PROVE  /\ calls[t] \notin MergeCall => calls'[t] = calls[t]
         /\ calls[t] \in MergeCall =>
              /\ calls'[t] \in MergeCall /\ calls'[t].column = calls[t].column
              /\ calls'[t].added = calls[t].added /\ calls'[t].read = calls[t].read
              /\ calls'[t].left = IF t = s THEN calls[t].left \ {c} ELSE calls[t].left
              /\ t # s => calls'[t].raced =
                   IF calls[t].column = calls[s].column /\ c \in calls[t].left
                     THEN calls[t].raced \cup {c} ELSE calls[t].raced
              /\ t = s => calls'[t].raced = calls[t].raced \ {c}
<1>1. calls[t].op = "merge" <=> calls[t] \in MergeCall
  BY SessionTyped
<1>2. CASE t = s
  <2>1. Overtaken(t, s, c) = calls[t]
    BY <1>2 DEF Overtaken
  <2>2. calls'[t] = [calls[t] EXCEPT !.left = @ \ {c}, !.raced = @ \ {c}]
    BY <1>2, <2>1
  <2>3. calls[t] \in MergeCall
    BY <1>1, <1>2
  <2>4. /\ calls'[t] \in MergeCall /\ calls'[t].column = calls[t].column
        /\ calls'[t].added = calls[t].added /\ calls'[t].read = calls[t].read
        /\ calls'[t].left = calls[t].left \ {c} /\ calls'[t].raced = calls[t].raced \ {c}
    <3>1. PICK left \in SUBSET Ids, raced \in SUBSET Ids :
            left = calls[t].left \ {c} /\ raced = calls[t].raced \ {c}
      BY <2>3 DEF MergeCall
    <3>2. calls'[t] = [calls[t] EXCEPT !.left = left, !.raced = raced]
      BY <2>2, <3>1
    <3>3. /\ calls'[t] \in MergeCall /\ calls'[t].column = calls[t].column
          /\ calls'[t].added = calls[t].added /\ calls'[t].read = calls[t].read
          /\ calls'[t].left = left /\ calls'[t].raced = raced
      BY <2>3, <3>2 DEF MergeCall
    <3> QED BY <3>1, <3>3
  <2> QED BY <1>2, <2>3, <2>4
<1>3. CASE t # s
  <2>1. calls'[t] = Overtaken(t, s, c)
    BY <1>3
  <2>2. CASE calls[t].op = "merge" /\ calls[t].column = calls[s].column /\ c \in calls[t].left
    <3>1. calls[t] \in MergeCall
      BY <1>1, <2>2
    <3>2. PICK raced \in SUBSET Ids : raced = calls[t].raced \cup {c}
      BY <3>1 DEF MergeCall
    <3>3. calls'[t] = [calls[t] EXCEPT !.raced = raced]
      BY <2>1, <2>2, <1>3, <3>2 DEF Overtaken
    <3>4. /\ calls'[t] \in MergeCall /\ calls'[t].column = calls[t].column
          /\ calls'[t].added = calls[t].added /\ calls'[t].read = calls[t].read
          /\ calls'[t].left = calls[t].left /\ calls'[t].raced = raced
      BY <3>1, <3>3 DEF MergeCall
    <3> QED BY <1>3, <2>2, <3>1, <3>2, <3>4
  <2>3. CASE ~(calls[t].op = "merge" /\ calls[t].column = calls[s].column
                /\ c \in calls[t].left)
    BY <1>1, <1>3, <2>1, <2>3 DEF Overtaken
  <2> QED BY <2>2, <2>3
<1> QED BY <1>2, <1>3

LEMMA NumbersKept ==
  ASSUME UNCHANGED channels, NEW call \in ResolveCall, SenderKnown(call),
         \A c \in Ids : Exists(c) => Exists(c)' /\ contacts'[c].phone = contacts[c].phone
  PROVE  SenderKnown(call)'
<1>1. \A k \in Keys : \A c \in Ids : PhoneIs(k, c) => PhoneIs(k, c)'
  BY DEF PhoneIs
<1>2. call.key \in Keys
  BY DEF ResolveCall
<1>3. Known(call.key) => Known(call.key)'
  BY <1>1, <1>2 DEF Known
<1>4. ContactsByPhone(call.key) # {} => ContactsByPhone(call.key)' # {}
  BY <1>1, <1>2 DEF ContactsByPhone
<1> QED BY <1>3, <1>4 DEF SenderKnown

LEMMA WriteHolds ==
  ASSUME ContactsOK, CallsHold, NEW s \in Sessions, NEW c \in Ids, WriteColumn(s, c)
  PROVE  ContactsOK' /\ CallsHold'
<1>1. calls[s].op = "merge" /\ c \in calls[s].left /\ calls[s] \in MergeCall /\ UNCHANGED channels
  BY SessionTyped DEF WriteColumn
<1>2. CASE /\ Exists(c)
           /\ contacts' = [contacts EXCEPT ![c].entries = Merged(calls[s], c, @)]
           /\ calls' = [[t \in Sessions |-> Overtaken(t, s, c)]
                          EXCEPT ![s].left = @ \ {c}, ![s].raced = @ \ {c}]
  <2>1. /\ contacts' \in [Ids -> Row \cup {Unborn, Gone}]
        /\ \A x \in Ids : x # c => contacts'[x] = contacts[x]
        /\ Exists(c)' /\ contacts'[c].phone = contacts[c].phone
        /\ contacts'[c].entries =
             (contacts[c].entries \ Column(calls[s].column)) \cup calls[s].read[c]
               \cup calls[s].added
    BY <1>1, <1>2, MergedRow
  <2>2. /\ calls[s].added \subseteq Column(calls[s].column)
        /\ calls[s].read[c] \subseteq Column(calls[s].column)
        /\ calls[s].column \in {"tags", "custom_fields"}
    BY <1>1 DEF CallsHold, CallHolds, ReadingHolds, MergeCall
  <2>3. \A x \in Ids : Exists(x) => Exists(x)' /\ contacts'[x].phone = contacts[x].phone
    BY <2>1 DEF Exists
  <2>4. ASSUME NEW t \in Sessions PROVE calls'[t] \in Call /\ CallHolds(calls[t])'
    <3>1. CallHolds(calls[t]) /\ calls[t] \in Call
      BY SessionTyped DEF CallsHold
    <3>2. CASE calls[t] \in MergeCall
      <4>1. /\ calls'[t] \in MergeCall /\ calls'[t].column = calls[t].column
            /\ calls'[t].added = calls[t].added /\ calls'[t].read = calls[t].read
            /\ calls'[t].left = IF t = s THEN calls[t].left \ {c} ELSE calls[t].left
            /\ t # s => calls'[t].raced =
                 IF calls[t].column = calls[s].column /\ c \in calls[t].left
                   THEN calls[t].raced \cup {c} ELSE calls[t].raced
            /\ t = s => calls'[t].raced = calls[t].raced \ {c}
        BY <1>1, <1>2, <3>2, MergingCalls
      <4>2. /\ calls[t].op = "merge" /\ calls[t].left \subseteq Ids
            /\ calls[t].column \in {"tags", "custom_fields"} /\ ReadingHolds(calls[t])
        BY <3>1, <3>2 DEF MergeCall, CallHolds
      <4>3. calls[t].added \subseteq Column(calls[t].column)
            /\ \A x \in calls[t].left : calls[t].read[x] \subseteq Column(calls[t].column)
        BY <4>2 DEF ReadingHolds
      <4>4. ASSUME NEW x \in calls'[t].left, x \notin calls'[t].raced
            PROVE  /\ Exists(x)'
                   /\ contacts'[x].entries \cap Column(calls[t].column) \subseteq calls[t].read[x]
        <5>1. x \in calls[t].left /\ x \in Ids
          BY <4>1, <4>2, <4>4
        <5>2. CASE x # c
          <6>1. x \notin calls[t].raced
            BY <4>1, <4>4, <5>2
          <6>2. Exists(x) /\ contacts[x].entries \cap Column(calls[t].column) \subseteq calls[t].read[x]
            BY <4>2, <5>1, <6>1 DEF ReadingHolds
          <6> QED BY <2>1, <5>1, <5>2, <6>2 DEF Exists
        <5>3. CASE x = c
          <6>1. t # s /\ calls[t].column # calls[s].column /\ x \notin calls[t].raced
            BY <4>1, <4>4, <5>1, <5>3
          <6>2. Column(calls[t].column) \cap Column(calls[s].column) = {}
            BY <2>2, <4>2, <6>1, ColumnsApart
          <6>3. contacts[x].entries \cap Column(calls[t].column) \subseteq calls[t].read[x]
            BY <4>2, <5>1, <6>1 DEF ReadingHolds
          <6> QED BY <2>1, <2>2, <5>3, <6>2, <6>3
        <5> QED BY <5>2, <5>3
      <4>5. ReadingHolds(calls[t])'
        BY <4>1, <4>3, <4>4 DEF ReadingHolds
      <4> QED BY <4>1, <4>5 DEF CallHolds, SenderKnown, RequestHolds, MergeCall, Call
    <3>3. CASE calls[t] \in ResolveCall
      <4>1. calls'[t] = calls[t]
        BY <1>1, <1>2, <3>3, MergingCalls DEF ResolveCall, MergeCall
      <4>2. PICK call \in ResolveCall : call = calls[t]
        BY <3>3
      <4>3. SenderKnown(call)'
        BY <1>1, <2>3, <3>1, <4>2, NumbersKept DEF CallHolds
      <4> QED BY <3>1, <4>1, <4>2, <4>3 DEF CallHolds, ReadingHolds, RequestHolds, ResolveCall
    <3>4. CASE calls[t] \notin ResolveCall \cup MergeCall
      <4>1. calls'[t] = calls[t] /\ calls[t].op \notin {"resolve", "merge"}
        BY <1>1, <1>2, <3>4, MergingCalls, SessionTyped
      <4> QED BY <3>1, <4>1 DEF CallHolds, SenderKnown, ReadingHolds, RequestHolds
    <3> QED BY <3>2, <3>3, <3>4
  <2>5. ContactsOK'
    BY <1>1, <1>2, <2>1, <2>4 DEF ContactsOK
  <2> QED BY <2>4, <2>5 DEF CallsHold
<1>3. CASE /\ calls' = [calls EXCEPT ![s].left = @ \ {c}, ![s].raced = @ \ {c}]
           /\ UNCHANGED contacts
  <2>1. PICK call : call = calls'[s]
    OBVIOUS
  <2>2. /\ call \in MergeCall /\ call.column = calls[s].column /\ call.added = calls[s].added
        /\ call.read = calls[s].read /\ call.left = calls[s].left \ {c}
        /\ call.raced = calls[s].raced \ {c}
    BY <1>1, <1>3, <2>1 DEF MergeCall, ContactsOK
  <2>3. ReadingHolds(calls[s])
    BY DEF CallsHold, CallHolds
  <2>4. ReadingHolds(call)
    BY <1>1, <2>2, <2>3 DEF ReadingHolds
  <2>5. call \in Call /\ CallHolds(call)
    BY <2>2, <2>4 DEF Call, MergeCall, CallHolds, SenderKnown, RequestHolds
  <2>6. calls' = [calls EXCEPT ![s] = call]
    BY <1>3, <2>1 DEF ContactsOK
  <2> QED BY <1>1, <1>3, <2>5, <2>6, QuietStep
<1> QED BY <1>2, <1>3 DEF WriteColumn

LEMMA NextStoresHold ==
  ASSUME ContactsOK, CallsHold, NextStores
  PROVE  ContactsOK' /\ CallsHold'
<1>1. CASE Edit
  BY <1>1, EditHolds
<1>2. ASSUME NEW s \in Sessions, Inbound(s) PROVE ContactsOK' /\ CallsHold'
  BY <1>2, InboundQuiet, ChannelHolds, CreateSenderHolds DEF Inbound
<1>3. ASSUME NEW s \in Sessions, Merging(s) PROVE ContactsOK' /\ CallsHold'
  <2>1. ASSUME NEW cs \in SUBSET Ids, NEW added \in Additions, added \subseteq Tags,
               mergeTags(s, cs, added)
        PROVE  ContactsOK' /\ CallsHold'
    <3>1. added \in SUBSET Column("tags")
      BY <2>1 DEF Column
    <3> QED BY <2>1, <3>1, ReadHolds DEF mergeTags
  <2>2. ASSUME NEW cs \in SUBSET Ids, NEW added \in Additions, added \subseteq Fields,
               listOutbound(s, cs, added)
        PROVE  ContactsOK' /\ CallsHold'
    <3>1. added \in SUBSET Column("custom_fields")
      BY <2>2 DEF Column
    <3> QED BY <2>2, <3>1, ReadHolds DEF listOutbound
  <2> QED BY <1>3, <2>1, <2>2, WriteHolds DEF Merging
<1>4. ASSUME NEW s \in Sessions, Return(s) PROVE ContactsOK' /\ CallsHold'
  BY <1>4, InboundQuiet
<1> QED BY <1>1, <1>2, <1>3, <1>4 DEF NextStores

-------------------------------------------------------------------------------
(* The calls of the records' stores. *)

LEMMA LinksTyped ==
  ASSUME NEW links \in Links, NEW f \in LinkNames
  PROVE  /\ links \in [LinkNames -> Ids \cup Records \cup Elsewhere \cup {None}]
         /\ links[f] \in Table(f) \cup Elsewhere \cup {None}
BY DEF Links

LEMMA RequestIsCall ==
  ASSUME NEW op \in {"create", "update"}, NEW table \in Tables, NEW id \in Records \cup {None},
         NEW links \in Given, NEW fields \in SUBSET Columns(table), Fits(table, links),
         op = "update" => id \in table
  PROVE  Request(op, table, id, links, fields) \in Call
         /\ CallHolds(Request(op, table, id, links, fields))
<1>1. links \in Links
  BY PipelineAssumption
<1>2. Columns(table) \subseteq LinkNames
  BY DEF Columns, LinkNames
<1>3. ToVerify(op, table, links) \subseteq Columns(table)
  BY DEF ToVerify
<1>4. Request(op, table, id, links, fields) \in WriteCall
  BY <1>1, <1>2, <1>3 DEF Request, WriteCall
<1>5. table # Notes =>
        \A f \in LinkNames \ ToVerify(op, table, links) : links[f] \notin Elsewhere
  BY PipelineAssumption DEF ToVerify, Fits
<1>6. RequestHolds(Request(op, table, id, links, fields))
  BY <1>5 DEF RequestHolds, Request
<1> QED BY <1>4, <1>6 DEF Call, WriteCall, CallHolds, SenderKnown, ReadingHolds

LEMMA PlainCallHolds ==
  ASSUME NEW call \in RemoveCall \cup LogCall \cup SeedCall \cup {Idle}
  PROVE  call \in Call /\ CallHolds(call)
<1>1. call.op \notin {"resolve", "merge", "create", "update"}
  BY DEF RemoveCall, LogCall, SeedCall, Idle
<1> QED BY <1>1 DEF Call, CallHolds, SenderKnown, ReadingHolds, RequestHolds

LEMMA DoneHolds ==
  ASSUME ContactsOK, CallsHold, UNCHANGED <<contacts, channels>>, NEW s \in Sessions, Done(s)
  PROVE  ContactsOK' /\ CallsHold'
BY IdleHolds, QuietStep DEF Done

LEMMA LogNextHolds ==
  ASSUME ContactsOK, CallsHold, UNCHANGED <<contacts, channels>>, NEW s \in Sessions,
         NEW type \in {"created", "updated", "deleted", "note_added"},
         NEW of \in SUBSET (Ids \cup Records \cup Elsewhere \cup {None}), LogNext(s, type, of)
  PROVE  ContactsOK' /\ CallsHold'
<1> DEFINE call == [op |-> "log", at |-> "write", type |-> type, of |-> of]
<1>1. call \in LogCall
  BY DEF LogCall
<1>2. call \in Call /\ CallHolds(call)
  BY <1>1, PlainCallHolds
<1> HIDE DEF call
<1> QED BY <1>2, QuietStep DEF LogNext, call

LEMMA CallingHolds ==
  ASSUME ContactsOK, CallsHold, UNCHANGED <<contacts, channels>>, NEW s \in Sessions, Calling(s)
  PROVE  ContactsOK' /\ CallsHold'
<1>1. ASSUME NEW table \in Tables, NEW links \in Given, create(s, table, links)
      PROVE  ContactsOK' /\ CallsHold'
  <2> DEFINE call == Request("create", table, None, links, Columns(table))
  <2>1. call \in Call /\ CallHolds(call)
    BY <1>1, RequestIsCall DEF create
  <2>2. calls' = [calls EXCEPT ![s] = call]
    BY <1>1 DEF create, Begin
  <2> HIDE DEF call
  <2> QED BY <2>1, <2>2, QuietStep
<1>2. ASSUME NEW table \in Tables, NEW links \in Given, NEW x \in table,
             update(s, table, x, links)
      PROVE  ContactsOK' /\ CallsHold'
  <2>1. PICK fields \in SUBSET Columns(table) :
          calls' = [calls EXCEPT ![s] = Request("update", table, x, links, fields)]
    BY <1>2 DEF update, Begin
  <2> DEFINE call == Request("update", table, x, links, fields)
  <2>2. x \in Records
    BY DEF Tables, Records
  <2>3. call \in Call /\ CallHolds(call)
    BY <1>2, <2>2, RequestIsCall DEF update
  <2> HIDE DEF call
  <2> QED BY <2>1, <2>3, QuietStep DEF call
<1>3. ASSUME NEW x \in Records, remove(s, x) PROVE ContactsOK' /\ CallsHold'
  <2> DEFINE call == [op |-> "remove", at |-> "write", id |-> x, existing |-> IsRow(x)]
  <2>1. call \in RemoveCall
    BY <1>3 DEF RemoveCall, IsRow, remove
  <2>2. call \in Call /\ CallHolds(call)
    BY <2>1, PlainCallHolds
  <2>3. calls' = [calls EXCEPT ![s] = call]
    BY <1>3 DEF remove, Begin
  <2> HIDE DEF call
  <2> QED BY <2>2, <2>3, QuietStep
<1>4. CASE seedDefaults(s)
  <2>1. [op |-> "seed", at |-> "write"] \in SeedCall
    BY DEF SeedCall
  <2> QED BY <1>4, <2>1, PlainCallHolds, QuietStep DEF seedDefaults, Begin
<1>5. CASE UNCHANGED calls
  BY <1>5, CallsRelyOnContacts DEF ContactsOK, CallsHold
<1> QED BY <1>1, <1>2, <1>3, <1>4, <1>5 DEF Calling, RemoveUnlogged, Tables

LEMMA VerifyHolds ==
  ASSUME ContactsOK, CallsHold, UNCHANGED <<contacts, channels>>, NEW s \in Sessions,
         assertBelongsToTenant(s)
  PROVE  ContactsOK' /\ CallsHold'
<1> DEFINE f == NextToVerify(s)
<1>1. CASE calls[s].links[f] \notin Elsewhere /\ calls' = [calls EXCEPT ![s].left = @ \ {f}]
  <2>1. calls[s] \in WriteCall /\ RequestHolds(calls[s])
    BY SessionTyped DEF assertBelongsToTenant, CallsHold, CallHolds
  <2>2. PICK left \in SUBSET LinkNames : left = calls[s].left \ {f}
    BY <2>1 DEF WriteCall
  <2>3. PICK call : call = calls'[s]
    OBVIOUS
  <2>4. calls' = [calls EXCEPT ![s].left = left]
    BY <1>1, <2>2
  <2>5. /\ call \in WriteCall /\ call.op = calls[s].op /\ call.table = calls[s].table
        /\ call.id = calls[s].id /\ call.links = calls[s].links
        /\ call.fields = calls[s].fields /\ call.left = left
    BY <2>1, <2>3, <2>4 DEF WriteCall, ContactsOK
  <2>6. RequestHolds(call)
    <3> HIDE DEF f
    <3> QED BY <1>1, <2>1, <2>2, <2>5 DEF RequestHolds
  <2>7. call \in Call /\ CallHolds(call)
    BY <2>5, <2>6 DEF Call, WriteCall, CallHolds, SenderKnown, ReadingHolds
  <2>8. calls' = [calls EXCEPT ![s] = call]
    BY <2>3, <2>4 DEF ContactsOK
  <2> QED BY <2>7, <2>8, QuietStep
<1> QED BY <1>1, DoneHolds DEF assertBelongsToTenant

LEMMA KeepingHolds ==
  ASSUME ContactsOK, CallsHold, UNCHANGED <<contacts, channels>>, NEW s \in Sessions, Keeping(s)
  PROVE  ContactsOK' /\ CallsHold'
<1>1. ASSUME NEW x \in Records, InsertRecord(s, x) PROVE ContactsOK' /\ CallsHold'
  <2>1. calls[s] \in WriteCall
    BY <1>1, SessionTyped DEF InsertRecord, Writing, Doing
  <2>2. FirstParent(calls[s].links) \in Ids \cup Records \cup Elsewhere \cup {None}
    <3>1. calls[s].links \in [LinkNames -> Ids \cup Records \cup Elsewhere \cup {None}]
      BY <2>1 DEF WriteCall, Links
    <3> QED BY <3>1 DEF FirstParent, LinkNames
  <2>3. {x} \subseteq Records /\ {x, FirstParent(calls[s].links)}
           \in SUBSET (Ids \cup Records \cup Elsewhere \cup {None})
    BY <2>2
  <2> HIDE DEF Done, LogNext
  <2> QED BY <1>1, <2>3, DoneHolds, LogNextHolds DEF InsertRecord, AfterCreate
<1>2. CASE UpdateRecord(s)
  BY <1>2, DoneHolds, LogNextHolds DEF UpdateRecord, Records
<1>3. CASE RemoveRecord(s)
  <2>1. calls[s].existing => {calls[s].id} \subseteq Records
    <3>1. calls[s].op = "remove" /\ calls[s] \in Call
      BY <1>3, SessionTyped DEF RemoveRecord, Doing
    <3>2. calls[s] \in RemoveCall
      BY <3>1 DEF Call, ResolveCall, MergeCall, WriteCall, RemoveCall, LogCall, SeedCall, Idle
    <3> QED BY <3>2 DEF RemoveCall, Records
  <2>2. Done(s) \/ \E x \in Records : LogNext(s, "deleted", {x})
    BY <1>3, <2>1 DEF RemoveRecord
  <2> QED BY <2>2, DoneHolds, LogNextHolds
<1> QED BY <1>1, <1>2, <1>3, DoneHolds, VerifyHolds DEF Keeping, logActivity, InsertDefaults

-------------------------------------------------------------------------------
(* Records and their links. *)

LEMMA RecordTyped ==
  ASSUME RecordsOK, NEW x \in Records
  PROVE  /\ IsRow(x) <=> rec[x] \in RecordRow
         /\ IsRow(x) => rec[x].links \in Links
BY DEF RecordsOK, IsRow, RecordRow, Unborn, Gone

(* What a column can refer to.                                               *)
LEMMA LinkedTo ==
  ASSUME NEW links \in Links, NEW f \in LinkNames, links[f] # None
  PROVE  /\ links[f] \in Linked(links)
         /\ links[f] \in Ids \cup Companies \cup Deals \cup Stages \cup Elsewhere
         /\ f = "stage" => links[f] \in Stages \cup Elsewhere
BY LinksTyped DEF Linked, Table, LinkNames

LEMMA LinkingIsRow ==
  ASSUME NEW links \in Links
  PROVE  /\ Linking(links) \in RecordRow /\ Linking(links).links = links
         /\ Linking(links).is = "row"
BY DEF Linking, RecordRow

(* A row that keeps to the checks.                                           *)
RowHolds(table, x) ==
  IsRow(x) =>
    /\ MayWrite(table, rec[x].links)
    /\ table # Notes => Linked(rec[x].links) \cap Elsewhere = {}

(* Rows and entries of the log are added or changed, none goes.              *)
LEMMA AddedHolds ==
  ASSUME LinksHold, \A x : Present(x) => Present(x)',
         \A x \in Deals \cup Tasks \cup Notes :
           \/ rec'[x] = rec[x]
           \/ \A table \in {Deals, Tasks, Notes} : x \in table =>
                \E links : /\ rec'[x].links = links /\ MayWrite(table, links)
                           /\ table # Notes => Linked(links) \cap Elsewhere = {},
         \A e \in log' : e \in log \/ \A x \in e.of : Present(x)
  PROVE  LinksHold'
<1>1. ASSUME NEW table \in {Deals, Tasks, Notes}, NEW x \in table PROVE RowHolds(table, x)'
  <2>1. CASE rec'[x] = rec[x]
    <3>1. RowHolds(table, x)
      BY DEF LinksHold, RowHolds
    <3> QED BY <2>1, <3>1 DEF RowHolds, IsRow, MayWrite
  <2>2. CASE \E links : /\ rec'[x].links = links /\ MayWrite(table, links)
                        /\ table # Notes => Linked(links) \cap Elsewhere = {}
    BY <2>2 DEF RowHolds, MayWrite
  <2> QED BY <2>1, <2>2
<1>2. \A e \in log' : \A x \in e.of : Present(x)'
  BY DEF LinksHold
<1> QED BY <1>1, <1>2 DEF LinksHold, RowHolds

(* Records of a table, and of one only.                                      *)
LEMMA OneTable ==
  ASSUME NEW a \in Tables, NEW b \in Tables, NEW x \in a, x \in b
  PROVE  a = b /\ x \in Records
BY PipelineAssumption DEF Tables, Records

LEMMA WrittenHolds ==
  ASSUME LinksHold, RecordsOK, NEW table \in Tables, NEW x \in table, NEW links \in Links,
         MayWrite(table, links),
         table \in {Deals, Tasks} \ {Notes} => \A f \in LinkNames : links[f] \notin Elsewhere,
         rec' = [rec EXCEPT ![x] = Linking(links)], UNCHANGED <<log, contacts>>
  PROVE  RecordsOK' /\ LinksHold'
<1>1. x \in Records
  BY OneTable
<1>2. RecordsOK' /\ rec'[x].is = "row" /\ rec'[x].links = links
      /\ \A y \in Records : y # x => rec'[y] = rec[y]
  BY <1>1, LinkingIsRow DEF RecordsOK
<1>3. \A y : Present(y) => Present(y)'
  BY <1>1, <1>2 DEF Present, Exists, IsRow
<1>4. table \in {Deals, Tasks} \ {Notes} => Linked(links) \cap Elsewhere = {}
  BY DEF Linked
<1>5. \A b \in {Deals, Tasks, Notes} : x \in b => b = table
  BY OneTable DEF Tables
<1>6. \A y \in Deals \cup Tasks \cup Notes : y # x => rec'[y] = rec[y]
  BY <1>2 DEF Records
<1> QED BY <1>2, <1>3, <1>4, <1>5, <1>6, AddedHolds

LEMMA InsertRecordHolds ==
  ASSUME RecordsOK, CallsHold, ContactsOK, LinksHold, NEW s \in Sessions, NEW x \in Records,
         InsertRecord(s, x), UNCHANGED contacts
  PROVE  RecordsOK' /\ LinksHold'
<1>1. /\ calls[s] \in WriteCall /\ RequestHolds(calls[s])
      /\ calls[s].op = "create" /\ calls[s].left = {} /\ x \in calls[s].table
  BY SessionTyped DEF InsertRecord, Writing, Doing, CallsHold, CallHolds
<1>2. calls[s].table \in Tables /\ calls[s].links \in Links
  BY <1>1 DEF WriteCall
<1>3. calls[s].table # Notes => \A f \in LinkNames : calls[s].links[f] \notin Elsewhere
  BY <1>1 DEF RequestHolds
<1>4. CASE UNCHANGED rec
  BY <1>4 DEF InsertRecord, RecordsOK, LinksHold, IsRow, MayWrite, Present, Exists
<1>5. CASE MayWrite(calls[s].table, calls[s].links)
           /\ rec' = [rec EXCEPT ![x] = Linking(calls[s].links)]
  BY <1>1, <1>2, <1>3, <1>5, WrittenHolds DEF InsertRecord
<1> QED BY <1>4, <1>5 DEF InsertRecord

LEMMA UpdateRecordHolds ==
  ASSUME RecordsOK, CallsHold, ContactsOK, LinksHold, NEW s \in Sessions,
         UpdateRecord(s), UNCHANGED contacts
  PROVE  RecordsOK' /\ LinksHold'
<1> DEFINE c == calls[s]
           x == c.id
<1>1. /\ c \in WriteCall /\ RequestHolds(c) /\ c.op = "update" /\ c.left = {}
  BY SessionTyped DEF UpdateRecord, Writing, Doing, CallsHold, CallHolds
<1>2. /\ c.table \in Tables /\ c.links \in Links /\ x \in c.table
      /\ \A f \in LinkNames : c.table # Notes => c.links[f] \notin Elsewhere
  BY <1>1 DEF WriteCall, RequestHolds
<1>3. x \in Records
  BY <1>2, OneTable
<1>4. CASE UNCHANGED rec
  BY <1>4 DEF UpdateRecord, RecordsOK, LinksHold, IsRow, MayWrite, Present, Exists
<1>5. CASE /\ IsRow(x) /\ MayWrite(c.table, Patched(s))
           /\ rec' = [rec EXCEPT ![x] = Linking(Patched(s))]
  <2>1. rec[x].links \in Links
    BY <1>3, <1>5, RecordTyped
  <2>2. \A f \in LinkNames : Patched(s)[f] = c.links[f] \/ Patched(s)[f] = rec[x].links[f]
    BY DEF Patched
  <2>3. Patched(s) \in Links
    <3>1. \A f \in LinkNames : /\ Patched(s)[f] \in Table(f) \cup Elsewhere \cup {None}
                               /\ Patched(s)[f] \in Ids \cup Records \cup Elsewhere \cup {None}
      BY <1>2, <2>1, <2>2, LinksTyped
    <3>2. Patched(s) \in [LinkNames -> Ids \cup Records \cup Elsewhere \cup {None}]
      BY <3>1 DEF Patched
    <3> QED BY <3>1, <3>2 DEF Links
  <2>4. ASSUME c.table \in {Deals, Tasks} \ {Notes}, NEW f \in LinkNames
        PROVE  Patched(s)[f] \notin Elsewhere
    <3>1. Linked(rec[x].links) \cap Elsewhere = {}
      BY <1>2, <1>5, <2>4 DEF LinksHold
    <3>2. rec[x].links[f] \notin Elsewhere
      BY <2>1, <3>1, LinkedTo, PipelineAssumption
    <3> QED BY <1>2, <2>2, <2>4, <3>2
  <2> QED BY <1>2, <1>5, <2>3, <2>4, WrittenHolds DEF UpdateRecord
<1> QED BY <1>4, <1>5 DEF UpdateRecord

(* The defaults are new stages, which link to nothing.                       *)
LEMMA InsertDefaultsHolds ==
  ASSUME RecordsOK, LinksHold, NEW s \in Sessions, NEW xs \in SUBSET Stages,
         InsertDefaults(s, xs), UNCHANGED contacts
  PROVE  RecordsOK' /\ LinksHold'
<1>1. CASE UNCHANGED rec
  BY <1>1 DEF InsertDefaults, RecordsOK, LinksHold, IsRow, MayWrite, Present, Exists
<1>2. CASE rec' = [x \in Records |-> IF x \in xs THEN Linking(NoLinks) ELSE rec[x]]
  <2>1. NoLinks \in Links
    BY DEF NoLinks, Links
  <2>2. RecordsOK' /\ (\A x \in Records \ xs : rec'[x] = rec[x])
        /\ \A x \in xs : rec'[x].is = "row"
    BY <1>2, <2>1, LinkingIsRow DEF RecordsOK, Records
  <2>3. \A y : Present(y) => Present(y)'
    BY <2>2 DEF Present, Exists, IsRow
  <2>4. \A x \in Deals \cup Tasks \cup Notes : rec'[x] = rec[x]
    BY <2>2, PipelineAssumption DEF Records
  <2>5. UNCHANGED log
    BY DEF InsertDefaults
  <2> QED BY <2>2, <2>3, <2>4, <2>5, AddedHolds
<1> QED BY <1>1, <1>2 DEF InsertDefaults

LEMMA LogHolds ==
  ASSUME RecordsOK, LinksHold, NEW s \in Sessions, logActivity(s), UNCHANGED contacts
  PROVE  RecordsOK' /\ LinksHold'
<1>1. \A e \in log' : e \in log \/ \A x \in e.of : Present(x)
  BY DEF logActivity
<1>2. UNCHANGED rec /\ \A y : Present(y) => Present(y)'
  BY DEF logActivity, Present, Exists, IsRow
<1> QED BY <1>1, <1>2, AddedHolds DEF RecordsOK

(* A task's or a note's links, or a deal's stage, hold it back or take it    *)
(* along; whatever else referred to what goes refers to nothing.             *)
LEMMA DeleteHolds ==
  ASSUME RecordsOK, LinksHold, NEW gone \in SUBSET (Ids \cup Records), Delete(gone),
         \A c \in Ids \ gone : Exists(c) => Exists(c)',
         \A d \in Deals : IsRow(d) => rec[d].links.stage \notin gone
  PROVE  RecordsOK' /\ LinksHold'
<1> DEFINE all == AllGone(gone)
           cut(links) == [f \in LinkNames |-> IF links[f] \in gone THEN None ELSE links[f]]
<1>1. CASE gone = {}
  <2>1. UNCHANGED <<rec, log>>
    BY <1>1 DEF Delete
  <2>2. \A y : Present(y) => Present(y)'
    BY <1>1, <2>1 DEF Present, IsRow
  <2> QED BY <2>1, <2>2, AddedHolds DEF RecordsOK
<1>2. CASE gone # {}
  <2>1. /\ \A x \in Records :
             rec'[x] = IF x \in all THEN Gone
                       ELSE IF ~IsRow(x) THEN rec[x] ELSE Linking(cut(rec[x].links))
        /\ rec' = [x \in Records |-> rec'[x]]
        /\ log' = {e \in log : e.of \cap all = {}}
    BY <1>2 DEF Delete
  <2>2. ASSUME NEW links \in Links PROVE cut(links) \in Links
    <3>1. \A f \in LinkNames : /\ cut(links)[f] \in Table(f) \cup Elsewhere \cup {None}
                               /\ cut(links)[f] \in Ids \cup Records \cup Elsewhere \cup {None}
      BY LinksTyped
    <3> QED BY <3>1 DEF Links
  <2> HIDE DEF all, cut
  <2>3. RecordsOK'
    <3>1. ASSUME NEW x \in Records PROVE rec'[x] \in RecordRow \cup {Unborn, Gone}
      <4>1. CASE IsRow(x) /\ x \notin all
        BY <2>1, <2>2, <4>1, RecordTyped, LinkingIsRow
      <4>2. CASE x \in all \/ ~IsRow(x)
        BY <2>1, <4>2 DEF RecordsOK
      <4> QED BY <4>1, <4>2
    <3> QED BY <2>1, <3>1 DEF RecordsOK
  <2>4. \A x \in Records : IsRow(x)' <=> IsRow(x) /\ x \notin all
    BY <2>1, RecordTyped, <2>2, LinkingIsRow DEF IsRow, Gone
  <2>5. \A x \in Records : IsRow(x)' => rec'[x].links = cut(rec[x].links)
    BY <2>1, <2>2, <2>4, RecordTyped, LinkingIsRow
  <2>6. gone \subseteq all /\ \A x \in all \ gone : x \in Tasks \cup Notes
    BY DEF all, AllGone
  <2>7. ASSUME NEW y, Present(y), y \notin all PROVE Present(y)'
    BY <2>4, <2>6, <2>7 DEF Present
  <2>8. ASSUME NEW x \in Records, IsRow(x), NEW y \in Linked(rec[x].links), Present(y), y \notin gone
        PROVE  Present(y)'
    <3>1. y \in Ids \cup Companies \cup Deals \cup Stages \cup Elsewhere
      BY <2>8, RecordTyped, LinkedTo DEF Linked
    <3>2. y \notin Tasks \cup Notes
      BY <3>1, PipelineAssumption DEF Records
    <3> QED BY <2>6, <2>7, <2>8, <3>2
  <2>9. ASSUME NEW table \in {Deals, Tasks, Notes}, NEW x \in table PROVE RowHolds(table, x)'
    <3> SUFFICES ASSUME IsRow(x)'
                 PROVE  /\ MayWrite(table, rec[x].links)'
                        /\ table # Notes => Linked(rec'[x].links) \cap Elsewhere = {}
      BY DEF RowHolds
    <3>1. x \in Records /\ IsRow(x) /\ x \notin all
      BY <2>4 DEF Records
    <3>2. PICK links \in Links : links = rec[x].links
      BY <3>1, RecordTyped
    <3>3. /\ HasReference(table, links) /\ \A y \in Linked(links) : Present(y)
          /\ table # Notes => Linked(links) \cap Elsewhere = {}
      BY <3>1, <3>2 DEF LinksHold, MayWrite
    <3>4. rec'[x].links = cut(links)
      BY <2>5, <3>1, <3>2
    <3>5. Linked(cut(links)) \subseteq Linked(links) /\ Linked(cut(links)) \cap gone = {}
      <4>1. ASSUME NEW f \in LinkNames, cut(links)[f] # None
            PROVE  cut(links)[f] = links[f] /\ links[f] \notin gone
        BY <4>1 DEF cut
      <4> QED BY <4>1 DEF Linked
    <3>6. \A y \in Linked(cut(links)) : Present(y)'
      BY <2>8, <3>1, <3>2, <3>3, <3>5
    <3>7. HasReference(table, cut(links))
      <4>1. CASE table \in {Tasks, Notes}
        <5>1. Linked(links) \cap gone = {}
          BY <3>1, <3>2, <4>1 DEF all, AllGone
        <5>2. \A f \in LinkNames : cut(links)[f] = links[f]
          BY <5>1, LinkedTo, PipelineAssumption, StoresAssumption DEF cut
        <5>3. cut(links) = links
          BY <3>2, <5>2 DEF cut, Links
        <5> QED BY <3>3, <5>3
      <4>2. CASE table = Deals
        <5>1. Deals # Tasks /\ Deals # Notes
          BY <4>2, PipelineAssumption
        <5>2. links["stage"] # None /\ links["stage"] \notin gone
          BY <3>1, <3>2, <3>3, <4>2, <5>1 DEF HasReference
        <5>3. cut(links)["stage"] # None
          BY <5>2 DEF cut, LinkNames
        <5> QED BY <4>2, <5>1, <5>3 DEF HasReference
      <4> QED BY <4>1, <4>2
    <3> QED BY <3>3, <3>4, <3>5, <3>6, <3>7 DEF MayWrite
  <2>10. ASSUME NEW e \in log', NEW x \in e.of PROVE Present(x)'
    <3>1. Present(x) /\ x \notin all
      BY <2>1, <2>10 DEF LinksHold
    <3> QED BY <2>7, <3>1
  <2> QED BY <2>3, <2>9, <2>10 DEF LinksHold, RowHolds
<1> QED BY <1>1, <1>2

(* A stage's column takes stages, so what else goes takes no deal's stage.   *)
LEMMA StagesStay ==
  ASSUME RecordsOK, NEW gone \in SUBSET (Ids \cup Companies \cup Deals \cup Tasks \cup Notes)
  PROVE  \A d \in Deals : IsRow(d) => rec[d].links.stage \notin gone
<1> SUFFICES ASSUME NEW d \in Deals, IsRow(d) PROVE rec[d].links.stage \notin gone
  OBVIOUS
<1>1. rec[d].links \in Links
  BY RecordTyped DEF Records
<1>2. rec[d].links.stage \in Stages \cup Elsewhere \cup {None}
  BY <1>1, LinksTyped DEF Table, LinkNames
<1> QED BY <1>2, PipelineAssumption, StoresAssumption DEF Records

LEMMA RecordsStep ==
  ASSUME StoresInv, NEW s \in Sessions, Calling(s) \/ Keeping(s),
         UNCHANGED <<contacts, channels>>
  PROVE  RecordsOK' /\ LinksHold'
<1>1. ContactsOK /\ RecordsOK /\ CallsHold /\ LinksHold /\ UNCHANGED contacts
  BY DEF StoresInv
<1>2. CASE UNCHANGED <<rec, log>>
  BY <1>1, <1>2 DEF RecordsOK, LinksHold, IsRow, MayWrite, Present, Exists
<1>3. ASSUME NEW xs \in SUBSET Records, RemoveUnlogged(xs)
      PROVE  RecordsOK' /\ LinksHold'
  <2>1. xs \in SUBSET (Ids \cup Records)
    OBVIOUS
  <2>2. \A c \in Ids : Exists(c) => Exists(c)'
    BY <1>1 DEF Exists
  <2> QED BY <1>1, <1>3, <2>1, <2>2, DeleteHolds DEF RemoveUnlogged
<1>4. CASE RemoveRecord(s)
  <2>1. calls[s].id \in Companies \cup Deals \cup Tasks
    <3>1. calls[s].op = "remove" /\ calls[s] \in Call
      BY <1>1, <1>4, SessionTyped DEF RemoveRecord, Doing
    <3> QED BY <3>1
            DEF Call, ResolveCall, MergeCall, WriteCall, RemoveCall, LogCall, SeedCall, Idle
  <2> DEFINE gone == {calls[s].id} \cap {x \in Records : IsRow(x)}
  <2>2. /\ gone \in SUBSET (Ids \cup Companies \cup Deals \cup Tasks \cup Notes)
        /\ gone \in SUBSET (Ids \cup Records) /\ Delete(gone)
    BY <1>4, <2>1 DEF RemoveRecord
  <2>3. \A c \in Ids \ gone : Exists(c) => Exists(c)'
    BY <1>1 DEF Exists
  <2> HIDE DEF gone
  <2> QED BY <1>1, <2>2, <2>3, StagesStay, DeleteHolds
<1> QED BY <1>1, <1>2, <1>3, <1>4, InsertRecordHolds, UpdateRecordHolds, InsertDefaultsHolds,
           LogHolds
        DEF Calling, Keeping, create, update, remove, seedDefaults, assertBelongsToTenant

(* Contacts that go are links cut.                                           *)
LEMMA ContactsStep ==
  ASSUME StoresInv, Delete({c \in Ids : Exists(c) /\ ~Exists(c)'})
  PROVE  RecordsOK' /\ LinksHold'
<1> DEFINE gone == {c \in Ids : Exists(c) /\ ~Exists(c)'}
<1>1. PICK cs \in SUBSET Ids : cs = gone
  OBVIOUS
<1>2. RecordsOK /\ LinksHold /\ Delete(cs) /\ \A c \in Ids \ cs : Exists(c) => Exists(c)'
  BY <1>1 DEF StoresInv
<1>3. /\ cs \in SUBSET (Ids \cup Companies \cup Deals \cup Tasks \cup Notes)
      /\ cs \in SUBSET (Ids \cup Records)
  OBVIOUS
<1> QED BY <1>2, <1>3, StagesStay, DeleteHolds

-------------------------------------------------------------------------------
(* The inductive invariant *)

LEMMA StoresInvInit == Init => StoresInv
<1> SUFFICES ASSUME Init PROVE StoresInv
  OBVIOUS
<1>1. ContactsOK
  BY IdleHolds DEF Init, InitStores, ContactsOK
<1>2. RecordsOK
  BY DEF Init, RecordsOK
<1>3. CallsHold
  BY IdleHolds DEF Init, InitStores, CallsHold
<1>4. LinksHold
  BY DEF Init, LinksHold, IsRow, Unborn, Records
<1> QED BY <1>1, <1>2, <1>3, <1>4 DEF StoresInv

LEMMA StoresInvNext == StoresInv /\ [Next]_vars => StoresInv'
<1> SUFFICES ASSUME StoresInv, [Next]_vars PROVE StoresInv'
  OBVIOUS
<1>1. ContactsOK /\ CallsHold
  BY DEF StoresInv
<1>2. CASE NextStores /\ Delete({c \in Ids : Exists(c) /\ ~Exists(c)'})
  BY <1>1, <1>2, NextStoresHold, ContactsStep DEF StoresInv
<1>3. ASSUME NEW s \in Sessions, Calling(s) \/ Keeping(s), UNCHANGED <<contacts, channels>>
      PROVE  StoresInv'
  BY <1>1, <1>3, CallingHolds, KeepingHolds, RecordsStep DEF StoresInv
<1>4. CASE UNCHANGED vars
  <2>1. UNCHANGED <<contacts, channels, calls, rec, log>>
    BY <1>4 DEF vars, storesVars
  <2>2. CallsHold'
    BY <1>1, <2>1, CallsRelyOnContacts DEF CallsHold
  <2> QED BY <2>1, <2>2 DEF StoresInv, ContactsOK, RecordsOK, LinksHold, IsRow, MayWrite,
          Present, Exists
<1> QED BY <1>2, <1>3, <1>4 DEF Next

-------------------------------------------------------------------------------

(* A sender who was known when the message came in is not made a contact     *)
(* again, and an address that was someone's is answered with whose it was,   *)
(* for any number of messages at once.                                       *)
THEOREM SendersAreRecognized == Spec => []SenderIsRecognized
<1>1. StoresInv => SenderIsRecognized
  BY DEF StoresInv, CallsHold, CallHolds, SenderKnown, SenderIsRecognized, At, Answered
<1> QED BY <1>1, StoresInvInit, StoresInvNext, PTL DEF Spec

(* Links lead to records that are there, whatever is looked up, written and  *)
(* removed in between, and the log speaks of nothing that is gone.           *)
THEOREM LinksAlwaysHold == Spec => []LinksHold
<1>1. StoresInv => LinksHold
  BY DEF StoresInv
<1> QED BY <1>1, StoresInvInit, StoresInvNext, PTL DEF Spec

(* A merge finishes one contact at a time; one that nobody else wrote since  *)
(* it was read keeps what it had.                                            *)
LEMMA MergeKeeps ==
  ASSUME ContactsOK, CallsHold, NextStores, contacts' # contacts,
         NEW s \in Sessions, calls[s].op = "merge", NEW x \in calls[s].left \ calls'[s].left,
         x \notin calls[s].raced
  PROVE  contacts[x].entries \subseteq contacts'[x].entries
<1> DEFINE Kept == contacts[x].entries \subseteq contacts'[x].entries
<1>1. calls[s] \in MergeCall /\ ReadingHolds(calls[s]) /\ x \in Ids
  BY SessionTyped DEF CallsHold, CallHolds, MergeCall
<1>2. CASE UNCHANGED calls
  BY <1>2
<1>3. ASSUME NEW gone, NEW cs \in SUBSET Ids, calls' = Edited(gone, cs) PROVE Kept
  BY <1>1, <1>3, EditedCalls
<1>4. CASE Edit
  <2>1. UNCHANGED calls \/ \E gone : \E cs \in SUBSET Ids : calls' = Edited(gone, cs)
    BY <1>4 DEF Edit, Create, BulkCreate, Update, ApplyInbound, Remove
  <2> QED BY <1>2, <1>3, <2>1
<1>5. ASSUME NEW r \in Sessions, NEW c \in Ids, CreateSender(r, c) PROVE Kept
  BY <1>1, <1>5 DEF CreateSender, At, GoTo, ContactsOK
<1>6. ASSUME NEW r \in Sessions, NEW c \in Ids, WriteColumn(r, c) PROVE Kept
  <2>1. /\ calls[r].op = "merge" /\ c \in calls[r].left /\ Exists(c)
        /\ contacts' = [contacts EXCEPT ![c].entries = Merged(calls[r], c, @)]
        /\ calls' = [[t \in Sessions |-> Overtaken(t, r, c)]
                       EXCEPT ![r].left = @ \ {c}, ![r].raced = @ \ {c}]
    BY <1>6 DEF WriteColumn
  <2>2. calls'[s].left = IF s = r THEN calls[s].left \ {c} ELSE calls[s].left
    BY <1>1, <2>1, MergingCalls
  <2>3. s = r /\ x = c
    BY <2>2
  <2>4. contacts[x].entries \cap Column(calls[s].column) \subseteq calls[s].read[x]
    BY <1>1 DEF ReadingHolds
  <2>5. contacts'[x].entries =
          (contacts[x].entries \ Column(calls[s].column)) \cup calls[s].read[x]
            \cup calls[s].added
    BY <2>1, <2>3, MergedRow
  <2> QED BY <2>4, <2>5
<1> QED BY <1>4, <1>5, <1>6
        DEF NextStores, Inbound, Merging, Receive, LookUpChannel, LookUpPhone, LookUpFails,
            Reuse, CreateFails, InsertChannel, mergeTags, listOutbound, ReadColumn, Return

(* A merge of tags or custom fields takes no entry from a contact that       *)
(* nobody else wrote since the merge read it, however many calls run.        *)
THEOREM MergesKeepEntries == Spec => EntriesAreKept
<1> DEFINE Keeps == \A s \in Sessions :
             calls[s].op = "merge" /\ contacts' # contacts =>
               \A c \in calls[s].left \ calls'[s].left :
                 c \notin calls[s].raced => contacts[c].entries \subseteq contacts'[c].entries
<1>1. StoresInv /\ [Next]_vars => [Keeps]_storesVars
  <2> SUFFICES ASSUME StoresInv, [Next]_vars, contacts' # contacts PROVE Keeps
    OBVIOUS
  <2>1. NextStores
    BY DEF Next, vars, storesVars
  <2> QED BY <2>1, MergeKeeps DEF StoresInv
<1> HIDE DEF Keeps
<1>2. Spec => [][Keeps]_storesVars
  BY <1>1, StoresInvInit, StoresInvNext, PTL DEF Spec
<1> QED BY <1>2 DEF EntriesAreKept, Keeps
================================================================================
