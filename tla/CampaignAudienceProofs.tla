------------------------ MODULE CampaignAudienceProofs -------------------------
(***************************************************************************)
(* Proofs about suppression and the audiences of campaigns, for any        *)
(* contacts, addresses and handlers, whatever the provider reports, and    *)
(* any number of reports and edits.                                        *)
(***************************************************************************)
EXTENDS CampaignAudience, TLAPS

\* contacts_tenant_email_unique: two contacts have two addresses, and a
\* contact that is gone has none.
AddressesApart ==
  \A c, d \in Contacts :
    contact[c].address = contact[d].address => c = d \/ contact[c].address = None

\* Nobody is in an audience that was not materialized.
AudienceIsMade == campaign.at \in {"none", "query"} => campaign.audience = {}

\* The inductive invariant.
AudienceInv ==
  TypeOK /\ SuppressedIsOptedOut /\ AddressesApart /\ AudienceIsMade /\ AudienceLeavesOut

\* The part about the contacts.
ContactsInv ==
  /\ contact \in [Contacts -> ContactRow \cup {NoContact}]
  /\ suppression \in [Contacts -> SuppressionState]
  /\ SuppressedIsOptedOut /\ AddressesApart

\* The part about what handles events.
HandlersTyped ==
  /\ bus \subseteq Event
  /\ handler \in [Handlers -> Handling]
  /\ events \in 0..MaxEvents /\ edits \in 0..MaxEdits
  /\ failed \in BOOLEAN

-------------------------------------------------------------------------------
(* Contacts *)

\* A contact is there or not, and then opted out of nothing.
LEMMA RowKinds ==
  ASSUME ContactsInv, NEW c \in Contacts
  PROVE  /\ Exists(c) => contact[c] \in ContactRow
         /\ ~Exists(c) => contact[c] = NoContact
         /\ contact[c].optOut => Exists(c)
         /\ contact[c].address # None => Exists(c)
<1>1. CASE contact[c] \in ContactRow
  BY <1>1 DEF ContactRow, Exists
<1>2. CASE contact[c] = NoContact
  BY <1>2 DEF NoContact, Exists
<1> QED BY <1>1, <1>2 DEF ContactsInv

\* What each change of the contacts keeps of the opt-outs.
Monotonic ==
  \A c \in Contacts :
    contact[c].optOut /\ Exists(c)' /\ ~contact'[c].optOut =>
      suppression'[c] # "suppressed" /\ edits' # edits
      /\ UNCHANGED <<bus, handler>>

LEMMA EditIsOne ==
  ASSUME HandlersTyped, Edit
  PROVE  edits' \in 0..MaxEdits /\ edits' # edits
BY SuppressionAssumption DEF Edit, HandlersTyped

\* One contact's row is replaced, with its flags.
LEMMA RowReplaced ==
  ASSUME ContactsInv, NEW c \in Contacts, NEW row \in ContactRow \cup {NoContact},
         contact' = [contact EXCEPT ![c] = row],
         suppression' = suppression,
         \/ row.address = None
         \/ row.address = contact[c].address
         \/ Free(row.address),
         contact[c].optOut => row.optOut
  PROVE  ContactsInv' /\ Monotonic
<1>1. /\ contact'[c] = row
      /\ \A d \in Contacts : d # c => contact'[d] = contact[d]
      /\ contact' \in [Contacts -> ContactRow \cup {NoContact}]
  BY DEF ContactsInv
<1>2. AddressesApart'
  BY <1>1 DEF ContactsInv, AddressesApart, Free
<1>3. SuppressedIsOptedOut' /\ suppression' \in [Contacts -> SuppressionState]
  BY <1>1 DEF ContactsInv, SuppressedIsOptedOut
<1>4. Monotonic
  BY <1>1 DEF Monotonic
<1> QED BY <1>1, <1>2, <1>3, <1>4 DEF ContactsInv

\* The rows a handler writes.
LEMMA SuppressedKeeps ==
  ASSUME ContactsInv, NEW c \in Contacts, NEW kind \in Kinds,
         contact' = Suppressed(c, kind), suppression' = suppression
  PROVE  ContactsInv' /\ Monotonic
<1> DEFINE row == [contact[c] EXCEPT !.optOut = TRUE,
                                     !.valid = contact[c].valid /\ kind = "unsubscribe"]
<1>1. CASE ~Exists(c)
  <2>1. UNCHANGED <<contact, suppression>>
    BY <1>1 DEF Suppressed
  <2> QED BY <2>1 DEF ContactsInv, SuppressedIsOptedOut, AddressesApart, Monotonic
<1>2. CASE Exists(c)
  <2>1. contact[c] \in ContactRow
    BY <1>2, RowKinds
  <2>2. row \in ContactRow /\ row.address = contact[c].address /\ row.optOut = TRUE
    BY <2>1 DEF ContactRow
  <2>3. contact' = [contact EXCEPT ![c] = row]
    BY <1>2 DEF Suppressed, ContactsInv
  <2> HIDE DEF row
  <2> QED BY <2>2, <2>3, RowReplaced
<1> QED BY <1>1, <1>2

\* Suppression rows are written or deleted, and the trigger projects them.
LEMMA WrittenKeeps ==
  ASSUME ContactsInv, HandlersTyped, NEW cs \in SUBSET Contacts,
         NEW state \in SuppressionState,
         state = "none" \/ \A c \in cs : Exists(c),
         WriteSuppression(cs, state)
  PROVE  ContactsInv' /\ Monotonic
<1>1. /\ suppression' = [c \in Contacts |-> IF c \in cs THEN state ELSE suppression[c]]
      /\ contact' = Projected(cs, state)
      /\ UNCHANGED <<bus, handler>> /\ edits' # edits
  BY EditIsOne DEF WriteSuppression
<1> DEFINE row(c) == [contact[c] EXCEPT !.optOut = (state = "suppressed")]
<1>2. ASSUME NEW c \in cs
      PROVE  /\ row(c) \in ContactRow \cup {NoContact}
             /\ row(c).address = contact[c].address
             /\ row(c).optOut = (state = "suppressed")
  <2>1. CASE Exists(c)
    <3>1. contact[c] \in ContactRow
      BY <2>1, RowKinds
    <3> QED BY <3>1 DEF ContactRow
  <2>2. CASE ~Exists(c)
    <3>1. contact[c] = NoContact /\ state = "none"
      BY <2>2, RowKinds
    <3>2. row(c) = [NoContact EXCEPT !.optOut = FALSE]
      BY <3>1
    <3>3. [NoContact EXCEPT !.optOut = FALSE] = NoContact /\ NoContact.optOut = FALSE
      <4>1. \A r \in [there : BOOLEAN, address : {None}, optOut : {FALSE}, valid : BOOLEAN] :
              [r EXCEPT !.optOut = FALSE] = r /\ r.optOut = FALSE
        OBVIOUS
      <4>2. NoContact \in [there : BOOLEAN, address : {None}, optOut : {FALSE}, valid : BOOLEAN]
        BY DEF NoContact
      <4> QED BY <4>1, <4>2
    <3>4. row(c) = NoContact
      BY <3>2, <3>3
    <3> HIDE DEF row
    <3> QED BY <3>1, <3>3, <3>4
  <2> QED BY <2>1, <2>2
<1>3. \A c \in Contacts : contact'[c] = IF c \in cs THEN row(c) ELSE contact[c]
  BY <1>1 DEF Projected
<1> HIDE DEF row
<1>4. contact' \in [Contacts -> ContactRow \cup {NoContact}]
  <2>1. contact' = [c \in Contacts |-> IF c \in cs THEN row(c) ELSE contact[c]]
    BY <1>1 DEF Projected, row
  <2> QED BY <1>2, <2>1 DEF ContactsInv
<1>5. \A c \in Contacts : contact'[c].address = contact[c].address
  BY <1>2, <1>3
<1>6. AddressesApart'
  BY <1>5 DEF ContactsInv, AddressesApart
<1>7. suppression' \in [Contacts -> SuppressionState] /\ SuppressedIsOptedOut'
  BY <1>1, <1>2, <1>3 DEF ContactsInv, SuppressedIsOptedOut
<1>8. Monotonic
  BY <1>1, <1>2, <1>3 DEF Monotonic, SuppressionState
<1> QED BY <1>4, <1>6, <1>7, <1>8 DEF ContactsInv

LEMMA TenantKeeps ==
  ASSUME ContactsInv, HandlersTyped, Tenant
  PROVE  ContactsInv' /\ Monotonic /\ HandlersTyped'
<1>1. HandlersTyped'
  BY EditIsOne DEF Tenant, HandlersTyped, CreateContact, ChangeAddress, RemoveContact,
     SetSuppression, DeleteSuppression, WriteSuppression
<1>2. ASSUME NEW c \in Contacts, NEW a \in Addresses, CreateContact(c, a)
      PROVE  ContactsInv' /\ Monotonic
  <2>1. NewContact(a) \in ContactRow /\ NewContact(a).address = a
    BY DEF NewContact, ContactRow
  <2>2. ~contact[c].optOut
    BY <1>2, RowKinds DEF CreateContact
  <2> QED BY <1>2, <2>1, <2>2, RowReplaced DEF CreateContact
<1>3. ASSUME NEW c \in Contacts, NEW a \in Addresses \cup {None}, ChangeAddress(c, a)
      PROVE  ContactsInv' /\ Monotonic
  <2> DEFINE row == [contact[c] EXCEPT !.address = a]
  <2>1. contact[c] \in ContactRow
    BY <1>3, RowKinds DEF ChangeAddress
  <2>2. row \in ContactRow /\ row.address = a /\ row.optOut = contact[c].optOut
    BY <2>1 DEF ContactRow
  <2>3. contact' = [contact EXCEPT ![c] = row] /\ (a = None \/ Free(a))
    BY <1>3 DEF ChangeAddress, ContactsInv
  <2> HIDE DEF row
  <2> QED BY <1>3, <2>2, <2>3, RowReplaced DEF ChangeAddress
<1>4. ASSUME NEW c \in Contacts, RemoveContact(c)
      PROVE  ContactsInv' /\ Monotonic
  <2>1. /\ contact' = [contact EXCEPT ![c] = NoContact]
        /\ suppression' = [suppression EXCEPT ![c] = "none"]
    BY <1>4 DEF RemoveContact
  <2>2. /\ contact' \in [Contacts -> ContactRow \cup {NoContact}]
        /\ suppression' \in [Contacts -> SuppressionState]
    BY <2>1 DEF ContactsInv, SuppressionState
  <2>3. contact'[c] = NoContact /\ \A d \in Contacts : d # c => contact'[d] = contact[d]
    BY <2>1 DEF ContactsInv
  <2>4. AddressesApart'
    BY <2>3 DEF ContactsInv, AddressesApart, NoContact
  <2>5. SuppressedIsOptedOut'
    BY <2>1, <2>3 DEF ContactsInv, SuppressedIsOptedOut
  <2>6. Monotonic
    BY <2>3 DEF Monotonic, Exists, NoContact
  <2> QED BY <2>2, <2>4, <2>5, <2>6 DEF ContactsInv
<1>5. ASSUME NEW c \in Contacts, DeleteSuppression(c)
      PROVE  ContactsInv' /\ Monotonic
  BY <1>5, WrittenKeeps DEF DeleteSuppression, SuppressionState
<1>6. ASSUME NEW cs \in SUBSET Contacts, NEW state \in {"suppressed", "allowed"},
             SetSuppression(cs, state)
      PROVE  ContactsInv' /\ Monotonic
  BY <1>6, WrittenKeeps DEF SetSuppression, SuppressionState
<1> QED BY <1>1, <1>2, <1>3, <1>4, <1>5, <1>6 DEF Tenant

-------------------------------------------------------------------------------
(* Events and their handlers *)

\* An event held is of a kind; the one a handler emits again is one too.
LEMMA EventKind ==
  ASSUME NEW e \in Event
  PROVE  e.kind \in Kinds /\ e.contact \in Contacts \cup {None}
BY DEF Event

LEMMA HandlingKinds ==
  ASSUME HandlersTyped, NEW h \in Handlers, handler[h].at \in {"apply", "emit"}
  PROVE  /\ handler[h] \in [at : {"apply", "emit"}, event : Event, on : Contacts]
         /\ handler[h].on \in Contacts /\ handler[h].event \in Event
         /\ Resolved(h) \in Event
<1>1. handler[h] \in [at : {"apply", "emit"}, event : Event, on : Contacts]
  BY DEF HandlersTyped, Handling, Idle
<1> QED BY <1>1 DEF Resolved, Event, Kinds

LEMMA HandleKeeps ==
  ASSUME ContactsInv, HandlersTyped, NEW h \in Handlers, Handle(h)
  PROVE  ContactsInv' /\ Monotonic /\ HandlersTyped'
<1>1. ASSUME UNCHANGED <<contact, suppression>> PROVE ContactsInv' /\ Monotonic
  BY <1>1 DEF ContactsInv, SuppressedIsOptedOut, AddressesApart, Monotonic
<1>2. ASSUME NEW e \in bus, Ignore(h, e) PROVE ContactsInv' /\ Monotonic /\ HandlersTyped'
  BY <1>1, <1>2 DEF Ignore, Take, HandlersTyped
<1>3. ASSUME NEW e \in bus, HandleDirect(h, e)
      PROVE  ContactsInv' /\ Monotonic /\ HandlersTyped'
  <2>1. e.contact \in Contacts /\ e.kind \in Kinds
    BY <1>3, EventKind DEF HandlersTyped, HandleDirect
  <2> QED BY <1>3, <2>1, SuppressedKeeps DEF HandleDirect, Take, HandlersTyped
<1>4. ASSUME NEW e \in bus, NEW c \in Contacts, LookUp(h, e, c)
      PROVE  ContactsInv' /\ Monotonic /\ HandlersTyped'
  <2> DEFINE w == [at |-> "apply", event |-> e, on |-> c]
  <2>1. w \in Handling
    BY DEF Handling, HandlersTyped
  <2>2. handler' = [handler EXCEPT ![h] = w]
    BY <1>4 DEF LookUp
  <2> HIDE DEF w
  <2> QED BY <1>1, <1>4, <2>1, <2>2 DEF LookUp, Take, HandlersTyped
<1>5. ASSUME Apply(h) PROVE ContactsInv' /\ Monotonic /\ HandlersTyped'
  <2>1. /\ handler[h] \in [at : {"apply", "emit"}, event : Event, on : Contacts]
        /\ handler[h].on \in Contacts /\ handler[h].event \in Event
        /\ handler[h].event.kind \in Kinds
    BY <1>5, HandlingKinds, EventKind DEF Apply
  <2>2. ContactsInv' /\ Monotonic
    BY <1>5, <2>1, SuppressedKeeps DEF Apply
  <2> DEFINE w == [handler[h] EXCEPT !.at = "emit"]
  <2>3. w \in Handling /\ Idle \in Handling
    BY <2>1 DEF Handling
  <2>4. \/ handler' = [handler EXCEPT ![h] = w]
        \/ handler' = [handler EXCEPT ![h] = Idle]
    BY <1>5 DEF Apply
  <2> HIDE DEF w
  <2>5. handler' \in [Handlers -> Handling]
    BY <2>3, <2>4 DEF HandlersTyped
  <2> QED BY <1>5, <2>2, <2>5 DEF Apply, HandlersTyped
<1>6. ASSUME Emit(h) PROVE ContactsInv' /\ Monotonic /\ HandlersTyped'
  BY <1>1, <1>6, HandlingKinds DEF Emit, HandlersTyped, Handling
<1> QED BY <1>2, <1>3, <1>4, <1>5, <1>6 DEF Handle

LEMMA SuppressionKeeps ==
  ASSUME ContactsInv, HandlersTyped, NextSuppression
  PROVE  ContactsInv' /\ Monotonic /\ HandlersTyped'
<1>1. ASSUME UNCHANGED <<contact, suppression>> PROVE ContactsInv' /\ Monotonic
  BY <1>1 DEF ContactsInv, SuppressedIsOptedOut, AddressesApart, Monotonic
<1>2. ASSUME NEW e \in Reported, Report(e) PROVE ContactsInv' /\ Monotonic /\ HandlersTyped'
  BY <1>1, <1>2, SuppressionAssumption DEF Report, HandlersTyped
<1>3. ASSUME NEW h \in Handlers, Fail(h) PROVE ContactsInv' /\ Monotonic /\ HandlersTyped'
  BY <1>1, <1>3 DEF Fail, Take, HandlersTyped, Handling
<1> QED BY <1>2, <1>3, TenantKeeps, HandleKeeps DEF NextSuppression

-------------------------------------------------------------------------------
(* The campaign *)

\* Types of the campaign's own variables.
CampaignTyped ==
  members \subseteq Contacts /\ campaign \in Campaign /\ outSince \subseteq Addresses

LEMMA InvIs ==
  /\ AudienceInv <=> /\ ContactsInv /\ HandlersTyped /\ CampaignTyped
                     /\ AudienceIsMade /\ campaign.audience \cap outSince = {}
  /\ AudienceInv' <=> /\ ContactsInv' /\ HandlersTyped' /\ CampaignTyped'
                      /\ AudienceIsMade' /\ campaign'.audience \cap outSince' = {}
BY DEF AudienceInv, TypeOK, SuppressionTypeOK, ContactsInv, HandlersTyped, CampaignTyped,
       AudienceLeavesOut

\* Nobody whose address is in the audience is out of bounds when it is made.
LEMMA MaterializedIsEligible ==
  ASSUME ContactsInv, CampaignTyped
  PROVE  /\ Materialized \cap OutOfBounds = {}
         /\ Materialized \subseteq Addresses
<1>1. campaign.ids \subseteq Contacts
  BY DEF CampaignTyped, Campaign
<1>2. Materialized \cap OutOfBounds = {}
  BY <1>1 DEF ContactsInv, AddressesApart, Materialized, OutOfBounds, WithAddress, Eligible
<1>3. \A c \in WithAddress : contact[c].address \in Addresses
  BY <1>1, RowKinds DEF WithAddress, ContactRow
<1> QED BY <1>2, <1>3 DEF Materialized

LEMMA OutOfBoundsTyped ==
  ContactsInv' => OutOfBounds' \subseteq Addresses
<1> SUFFICES ASSUME ContactsInv', NEW c \in Contacts, contact'[c].there,
                    contact'[c].address # None
             PROVE  contact'[c].address \in Addresses
  BY DEF OutOfBounds, Exists
<1>1. contact'[c] \in ContactRow \cup {NoContact} /\ NoContact.there = FALSE
  BY DEF ContactsInv, NoContact
<1>2. contact'[c] \in ContactRow
  BY <1>1
<1> QED BY <1>2 DEF ContactRow

\* Who was out of bounds and is in an audience already has been out since.
LEMMA TrackKeeps ==
  ASSUME AudienceInv, ContactsInv', Track,
         \/ campaign'.audience = {}
         \/ campaign.at # "none" /\ campaign'.audience = campaign.audience
  PROVE  outSince' \subseteq Addresses /\ campaign'.audience \cap outSince' = {}
BY OutOfBoundsTyped, InvIs DEF Track, CampaignTyped

LEMMA AudienceInvKept ==
  ASSUME AudienceInv, [Next]_vars
  PROVE  AudienceInv' /\ [Monotonic]_contact
<1> USE InvIs
<1>1. campaign \in Campaign /\ campaign.ids \subseteq Contacts /\ members \subseteq Contacts
      /\ (campaign.at = "none" => campaign.audience = {})
  BY DEF CampaignTyped, Campaign, AudienceIsMade
<1>2. ASSUME UNCHANGED suppressionVars PROVE ContactsInv' /\ HandlersTyped'
  BY <1>2 DEF suppressionVars, ContactsInv, HandlersTyped, SuppressedIsOptedOut, AddressesApart
<1>3. CASE UNCHANGED vars
  BY <1>2, <1>3 DEF vars, audienceVars, suppressionVars, CampaignTyped, AudienceIsMade
<1>4. ASSUME NextSuppression, members' = {c \in members : Exists(c)'}, UNCHANGED campaign, Track
      PROVE  AudienceInv' /\ [Monotonic]_contact
  <2>1. ContactsInv' /\ Monotonic /\ HandlersTyped'
    BY <1>4, SuppressionKeeps
  <2>2. outSince' \subseteq Addresses /\ campaign'.audience \cap outSince' = {}
    BY <1>1, <1>4, <2>1, TrackKeeps
  <2> QED BY <1>1, <1>4, <2>1, <2>2 DEF CampaignTyped, AudienceIsMade
<1>5. ASSUME NEW cs \in SUBSET Contacts, AddMembers(cs) \/ RemoveMembers(cs), Track
      PROVE  AudienceInv' /\ [Monotonic]_contact
  <2>1. UNCHANGED <<contact, suppression, campaign>> /\ members' \subseteq Contacts
    BY <1>1, <1>5 DEF AddMembers, RemoveMembers
  <2>2. ContactsInv'
    BY <2>1 DEF ContactsInv, SuppressedIsOptedOut, AddressesApart
  <2>3. HandlersTyped'
    BY <1>5, EditIsOne DEF AddMembers, RemoveMembers, HandlersTyped
  <2>4. outSince' \subseteq Addresses /\ campaign'.audience \cap outSince' = {}
    BY <1>1, <1>5, <2>1, <2>2, TrackKeeps
  <2> QED BY <1>1, <2>1, <2>2, <2>3, <2>4 DEF CampaignTyped, AudienceIsMade
<1>6. ASSUME ReadMembers, Track PROVE AudienceInv' /\ [Monotonic]_contact
  <2>1. /\ campaign' = [campaign EXCEPT !.at = "query", !.ids = members]
        /\ UNCHANGED <<suppressionVars, members>> /\ campaign.at = "none"
    BY <1>6 DEF ReadMembers
  <2>2. campaign' \in Campaign /\ campaign'.audience = {}
    BY <1>1, <2>1 DEF Campaign
  <2>3. outSince' \subseteq Addresses /\ campaign'.audience \cap outSince' = {}
    BY <1>2, <1>6, <2>1, <2>2, TrackKeeps
  <2> QED BY <1>1, <1>2, <2>1, <2>2, <2>3 DEF CampaignTyped, AudienceIsMade, suppressionVars
<1>7. ASSUME QueryContacts, Track PROVE AudienceInv' /\ [Monotonic]_contact
  <2>1. /\ campaign' = [at |-> "made", ids |-> {}, audience |-> Materialized]
        /\ UNCHANGED <<suppressionVars, members>> /\ campaign.at = "query"
    BY <1>7 DEF QueryContacts
  <2>2. Materialized \cap OutOfBounds = {} /\ Materialized \subseteq Addresses
    BY MaterializedIsEligible
  <2>3. campaign' \in Campaign
    BY <2>1, <2>2 DEF Campaign
  <2>4. outSince' = outSince \cap OutOfBounds
    BY <1>7, <2>1 DEF Track, OutOfBounds, suppressionVars, Exists, Eligible
  <2> QED BY <1>1, <1>2, <2>1, <2>2, <2>3, <2>4 DEF CampaignTyped, AudienceIsMade, suppressionVars
<1>8. ASSUME SendCampaign, Track PROVE AudienceInv' /\ [Monotonic]_contact
  <2>1. /\ campaign' = [campaign EXCEPT !.at = "sent"]
        /\ UNCHANGED <<suppressionVars, members>> /\ campaign.at = "made"
    BY <1>8 DEF SendCampaign
  <2>2. campaign' \in Campaign /\ campaign'.audience = campaign.audience /\ campaign'.at = "sent"
    BY <1>1, <2>1 DEF Campaign
  <2>3. outSince' \subseteq Addresses /\ campaign'.audience \cap outSince' = {}
    BY <1>2, <1>8, <2>1, <2>2, TrackKeeps
  <2> QED BY <1>1, <1>2, <2>1, <2>2, <2>3 DEF CampaignTyped, AudienceIsMade, suppressionVars
<1> QED BY <1>3, <1>4, <1>5, <1>6, <1>7, <1>8 DEF Next

LEMMA AudienceInvHolds == Spec => []AudienceInv
<1>1. Init => AudienceInv
  <2> SUFFICES ASSUME Init PROVE AudienceInv
    OBVIOUS
  <2>1. PICK at \in Populations :
          contact = [c \in Contacts |-> IF at[c] = None THEN NoContact
                                        ELSE NewContact(at[c])]
    BY DEF Init, InitSuppression
  <2>2. /\ at \in [Contacts -> Addresses \cup {None}]
        /\ \A c, d \in Contacts : at[c] = at[d] => c = d \/ at[c] = None
    BY SuppressionAssumption
  <2>3. \A c \in Contacts : contact[c].address = at[c]
    BY <2>1 DEF NoContact, NewContact
  <2>4. AddressesApart
    BY <2>2, <2>3 DEF AddressesApart
  <2>5. contact \in [Contacts -> ContactRow \cup {NoContact}]
    <3>1. \A a \in Addresses : NewContact(a) \in ContactRow
      BY DEF NewContact, ContactRow
    <3> QED BY <2>1, <2>2, <3>1
  <2>6. ContactsInv
    BY <2>4, <2>5 DEF Init, InitSuppression, ContactsInv, SuppressionState, SuppressedIsOptedOut
  <2>7. HandlersTyped
    <3>1. 0 \in 0..MaxEvents /\ 0 \in 0..MaxEdits
      BY SuppressionAssumption
    <3> QED BY <3>1 DEF Init, InitSuppression, HandlersTyped, Handling
  <2>8. CampaignTyped /\ AudienceIsMade /\ campaign.audience = {}
    BY DEF Init, CampaignTyped, AudienceIsMade, NoCampaign, Campaign
  <2> QED BY <2>6, <2>7, <2>8, InvIs
<1> QED BY <1>1, AudienceInvKept, PTL DEF Spec

\* The flag the send paths look at never forgets a suppression, whatever
\* handlers and edits interleave (suppression-store.ts:45-46).
THEOREM SuppressionsAreKept == Spec => []SuppressedIsOptedOut
<1>1. AudienceInv => SuppressedIsOptedOut
  BY DEF AudienceInv
<1> QED BY <1>1, AudienceInvHolds, PTL

\* No audience has an address that was out of bounds when it was asked for and
\* has stayed so (segment-materializer.ts:14).
THEOREM AudiencesLeaveOut == Spec => []AudienceLeavesOut
<1>1. AudienceInv => AudienceLeavesOut
  BY DEF AudienceInv
<1> QED BY <1>1, AudienceInvHolds, PTL

\* Only a write of its suppression row takes a contact's opt-out back
\* (suppression-subscriber.ts:12).
THEOREM OptOutsStay == Spec => OptOutIsMonotonic
<1>1. AudienceInv /\ [Next]_vars => [Monotonic]_contact
  BY AudienceInvKept
<1>2. Spec => [][Monotonic]_contact
  BY <1>1, AudienceInvHolds, PTL DEF Spec
<1> QED BY <1>2 DEF OptOutIsMonotonic, Monotonic
================================================================================
