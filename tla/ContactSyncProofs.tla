--------------------------- MODULE ContactSyncProofs ---------------------------
(***************************************************************************)
(* Proofs about the synchronization of a contact, for any number of syncs, *)
(* any values, lists and actions, and any number of changes.               *)
(***************************************************************************)
EXTENDS ContactSync, TLAPS

\* What a sync is before and after it read the contact.
Waiting == [at : {"provider", "load"}, action : Actions, projection : {None}]
Working == [at : {"compare", "upsert", "save"}, action : Actions, projection : Projection]

SyncTyped == sync \in [Sessions -> {Idle} \cup Waiting \cup Working]

At(s, places) == sync[s].at \in places
Loaded(s) == At(s, {"compare", "upsert", "save"})

\* A hash about to be recorded was accepted, as every hash that is recorded.
SavedWasSent ==
  /\ state # None => state \in sent
  /\ \A s \in Sessions : At(s, {"save"}) => computeHash(sync[s].projection) \in sent

\* Calm behaviors: one sync at a time; the provider has the fields of the hash
\* recorded, or of the one about to be.
CalmIsSerial ==
  calm => \A r, s \in Sessions : sync[r] # Idle /\ sync[s] # Idle => r = s

FieldsShow ==
  calm => /\ \A s \in Sessions : At(s, {"save"}) => remote.fields = sync[s].projection.fields
          /\ \/ \E s \in Sessions : At(s, {"save"})
             \/ state = None
             \/ remote.fields = state.fields

\* Calm behaviors: while no change is due, what a sync works on is the contact
\* as it is, and when none runs the provider has it.
PresentIsLoaded ==
  calm /\ ~due /\ contact # NoContact =>
    /\ \A s \in Sessions : Loaded(s) => sync[s].projection.fields = contact.fields
    /\ cached => (\E s \in Sessions : sync[s] # Idle) \/ remote.fields = contact.fields

\* The inductive invariant.
SyncInv ==
  TypeOK /\ SyncTyped /\ SavedWasSent /\ CalmIsSerial /\ FieldsShow /\ PresentIsLoaded

-------------------------------------------------------------------------------
(* Skipped syncs.                                                              *)

\* What a sync may push: some action's intent.
Intended(p) ==
  \E a \in Actions : p.stage = a.stage /\ p.listKeys = a.add /\ p.removeListKeys = a.remove

\* The provider as it is after it accepted p and nothing since; what is not
\* hashed of the contact is left out.
Shows(p) ==
  /\ remote.fields = p.fields /\ remote.stage = p.stage
  /\ p.listKeys \subseteq remote.lists
  /\ p.removeListKeys \cap remote.lists \subseteq p.listKeys

\* Calm behaviors: the provider shows what was recorded or is about to be.
HoldsRecorded ==
  calm =>
    /\ \A s \in Sessions : Loaded(s) => Intended(sync[s].projection)
    /\ \A s \in Sessions : At(s, {"save"}) => Shows(sync[s].projection)
    /\ \/ \E s \in Sessions : At(s, {"save"})
       \/ state = None
       \/ \E p \in Projection : Intended(p) /\ computeHash(p) = state /\ Shows(p)

SkipInv == SyncInv /\ HoldsRecorded

-------------------------------------------------------------------------------
(* Syncs *)

\* Where a sync is says what it carries.
LEMMA SyncCarries ==
  ASSUME SyncTyped, NEW s \in Sessions
  PROVE  /\ sync[s].at \in {"provider", "load"} <=> sync[s] \in Waiting
         /\ Loaded(s) <=> sync[s] \in Working
         /\ sync[s] # Idle <=> sync[s] \in Waiting \cup Working
BY DEF SyncTyped, Waiting, Working, Idle, Loaded, At

\* A sync changes, and keeps its type.
LEMMA SyncSet ==
  ASSUME SyncTyped, NEW s \in Sessions, NEW c \in {Idle} \cup Waiting \cup Working,
         sync' = [sync EXCEPT ![s] = c]
  PROVE  /\ SyncTyped'
         /\ sync'[s] = c
         /\ \A r \in Sessions : r # s => sync'[r] = sync[r]
BY DEF SyncTyped

\* What a sync may be is what TypeOK says of it.
LEMMA SyncsAreTyped ==
  ASSUME NEW c \in {Idle} \cup Waiting \cup Working
  PROVE  c = Idle \/
         /\ c.at \in {"provider", "load", "compare", "upsert", "save"}
         /\ c.action \in Actions
         /\ c.projection \in IF c.at \in {"provider", "load"} THEN {None} ELSE Projection
<1>1. CASE c \in Waiting
  BY <1>1 DEF Waiting
<1>2. CASE c \in Working
  BY <1>2 DEF Working
<1> QED BY <1>1, <1>2

\* The types of all but the syncs.
RestTyped ==
  /\ calm \in BOOLEAN
  /\ contact \in [fields : Values, sms : BOOLEAN] \cup {NoContact}
  /\ changes \in 0..(IF calm THEN CalmChanges ELSE OtherChanges)
  /\ due \in BOOLEAN /\ connected \in BOOLEAN /\ cached \in BOOLEAN
  /\ state \in {computeHash(p) : p \in Projection} \cup {None}
  /\ remote \in [fields : Values \cup {None}, sms : BOOLEAN,
                 stage : Stages \cup {None}, lists : SUBSET Lists]
  /\ sent \subseteq {computeHash(p) : p \in Projection}

LEMMA TypesCompose ==
  /\ SyncTyped /\ RestTyped => TypeOK
  /\ SyncTyped' /\ RestTyped' => TypeOK'
BY SyncsAreTyped DEF SyncTyped, RestTyped, TypeOK

\* What a projection carries into its hash.
LEMMA HashCarries ==
  ASSUME NEW p \in Projection
  PROVE  /\ computeHash(p).fields = p.fields
         /\ computeHash(p).stage = p.stage
         /\ computeHash(p).listKeys = p.listKeys
         /\ computeHash(p) # None
BY NullAssumption DEF computeHash

\* A contact that is there is pushed as it is, with what the action intends.
LEMMA ProjectionBuilt ==
  ASSUME TypeOK, contact # NoContact, NEW a \in Actions
  PROVE  /\ buildProjection(contact, a) \in Projection
         /\ buildProjection(contact, a).fields = contact.fields
         /\ Intended(buildProjection(contact, a))
<1>1. contact \in [fields : Values, sms : BOOLEAN]
  BY DEF TypeOK
<1>2. a.add \subseteq Lists /\ a.remove \subseteq Lists /\ a.stage \in Stages
  BY SyncAssumption DEF Stages
<1> QED BY <1>1, <1>2 DEF buildProjection, Projection, Intended

-------------------------------------------------------------------------------
(* The inductive step *)

\* The contact's owner changes something; the syncs, the record and the
\* provider stay.
LEMMA ChangeKeepsInv ==
  ASSUME SyncInv, UNCHANGED calm, NEW new, Change(new),
         new \in [fields : Values, sms : BOOLEAN] \cup {NoContact}
  PROVE  SyncInv'
<1>1. /\ changes < IF calm THEN CalmChanges ELSE OtherChanges
      /\ contact' = new /\ changes' = changes + 1 /\ due' = TRUE
      /\ UNCHANGED <<connected, cached, state, remote, sent, sync>>
  BY DEF Change
<1>2. RestTyped
  BY DEF SyncInv, TypeOK, RestTyped
<1>3. changes' \in 0..(IF calm THEN CalmChanges ELSE OtherChanges)
  BY <1>1, <1>2, SyncAssumption DEF RestTyped
<1>4. RestTyped'
  BY <1>1, <1>2, <1>3 DEF RestTyped
<1>5. SyncTyped' /\ SavedWasSent' /\ CalmIsSerial'
  BY <1>1 DEF SyncInv, SyncTyped, SavedWasSent, CalmIsSerial, At
<1>6. FieldsShow' /\ PresentIsLoaded'
  BY <1>1 DEF SyncInv, FieldsShow, PresentIsLoaded, At
<1> QED BY <1>4, <1>5, <1>6, TypesCompose DEF SyncInv

LEMMA ReconnectKeepsInv ==
  ASSUME SyncInv, UNCHANGED calm, NEW c \in BOOLEAN, Reconnect(c)
  PROVE  SyncInv'
<1>1. /\ connected' = c
      /\ UNCHANGED <<contact, changes, due, cached, state, remote, sent, sync>>
  BY DEF Reconnect
<1>2. RestTyped'
  BY <1>1 DEF SyncInv, TypeOK, RestTyped
<1>3. SyncTyped' /\ SavedWasSent' /\ CalmIsSerial'
  BY <1>1 DEF SyncInv, SyncTyped, SavedWasSent, CalmIsSerial, At
<1>4. FieldsShow' /\ PresentIsLoaded'
  BY <1>1 DEF SyncInv, FieldsShow, PresentIsLoaded, At, Loaded
<1> QED BY <1>2, <1>3, <1>4, TypesCompose DEF SyncInv

\* What every step of a sync s keeps: it is the only one to move, and calm
\* behaviors have no other.
LEMMA OneMoves ==
  ASSUME SyncInv, UNCHANGED calm, NEW s \in Sessions,
         NEW c \in {Idle} \cup Waiting \cup Working, sync' = [sync EXCEPT ![s] = c],
         sync[s] # Idle \/ (calm => \A r \in Sessions : sync[r] = Idle)
  PROVE  /\ SyncTyped' /\ CalmIsSerial'
         /\ sync'[s] = c
         /\ \A r \in Sessions : r # s => sync'[r] = sync[r]
         /\ calm => \A r \in Sessions : r # s => sync[r] = Idle /\ sync'[r] = Idle
BY SyncSet DEF SyncInv, CalmIsSerial

LEMMA DeliverKeepsInv ==
  ASSUME SyncInv, UNCHANGED calm, NEW s \in Sessions, NEW a \in Actions, Deliver(s, a)
  PROVE  SyncInv'
<1> DEFINE c == [at |-> "provider", action |-> a, projection |-> None]
<1>1. /\ sync[s] = Idle /\ (calm => \A r \in Sessions : sync[r] = Idle)
      /\ due' = FALSE /\ sync' = [sync EXCEPT ![s] = c]
      /\ UNCHANGED <<contact, changes, connected, cached, state, remote, sent>>
  BY DEF Deliver
<1>2. c \in Waiting /\ c.at = "provider" /\ c # Idle
  BY DEF Waiting, Idle
<1> HIDE DEF c
<1>3. /\ SyncTyped' /\ CalmIsSerial' /\ sync'[s] = c
      /\ \A r \in Sessions : r # s => sync'[r] = sync[r]
      /\ calm => \A r \in Sessions : r # s => sync[r] = Idle /\ sync'[r] = Idle
  BY <1>1, <1>2, OneMoves
<1>4. RestTyped'
  BY <1>1 DEF SyncInv, TypeOK, RestTyped
<1>5. SavedWasSent'
  BY <1>1, <1>2, <1>3 DEF SyncInv, SavedWasSent, At
<1>6. FieldsShow'
  BY <1>1, <1>2, <1>3 DEF SyncInv, FieldsShow, At, Idle
<1>7. PresentIsLoaded'
  BY <1>1, <1>2, <1>3 DEF PresentIsLoaded, At, Loaded, Idle
<1> QED BY <1>3, <1>4, <1>5, <1>6, <1>7, TypesCompose DEF SyncInv

\* A sync that goes on to the next place carries what it carried.
LEMMA GoesOn ==
  ASSUME SyncTyped, NEW s \in Sessions, NEW at, GoTo(s, at),
         \/ sync[s] \in Waiting /\ at = "load"
         \/ sync[s] \in Working /\ at \in {"upsert", "save"}
  PROVE  \E c \in {Idle} \cup Waiting \cup Working :
           /\ sync' = [sync EXCEPT ![s] = c]
           /\ c # Idle /\ c.at = at /\ c.projection = sync[s].projection
           /\ c.action = sync[s].action
<1> DEFINE c == [sync[s] EXCEPT !.at = at]
<1>1. sync' = [sync EXCEPT ![s] = c]
  BY DEF GoTo
<1>2. c \in Waiting \cup Working /\ c.at = at /\ c.projection = sync[s].projection
      /\ c.action = sync[s].action
  BY DEF Waiting, Working
<1>3. c # Idle
  BY <1>2 DEF Waiting, Working, Idle
<1> HIDE DEF c
<1> QED BY <1>1, <1>2, <1>3

LEMMA GetProviderKeepsInv ==
  ASSUME SyncInv, UNCHANGED calm, NEW s \in Sessions, GetProvider(s)
  PROVE  SyncInv'
<1>1. /\ sync[s] \in Waiting /\ sync[s] # Idle /\ sync[s].at = "provider" /\ ~Loaded(s)
      /\ cached' \in BOOLEAN
      /\ UNCHANGED <<contact, changes, due, connected, state, remote, sent>>
  BY SyncCarries DEF GetProvider, SyncInv, TypeOK, Loaded, At
<1>2. PICK c \in {Idle} \cup Waiting \cup Working :
        /\ sync' = [sync EXCEPT ![s] = c]
        /\ c.at \in {"idle", "load"}
        /\ cached' => c # Idle
  <2>1. CASE cached' = TRUE /\ GoTo(s, "load")
    BY <1>1, <2>1, GoesOn DEF SyncInv
  <2>2. CASE ~cached' /\ End(s)
    BY <2>2 DEF End, Idle
  <2> QED BY <2>1, <2>2 DEF GetProvider
<1>3. /\ SyncTyped' /\ CalmIsSerial' /\ sync'[s] = c
      /\ \A r \in Sessions : r # s => sync'[r] = sync[r]
      /\ calm => \A r \in Sessions : r # s => sync[r] = Idle /\ sync'[r] = Idle
  BY <1>1, <1>2, OneMoves
<1>4. RestTyped'
  BY <1>1 DEF SyncInv, TypeOK, RestTyped
<1>5. SavedWasSent'
  BY <1>1, <1>2, <1>3 DEF SyncInv, SavedWasSent, At
<1>6. FieldsShow'
  BY <1>1, <1>2, <1>3 DEF SyncInv, FieldsShow, At, Idle
<1>7. PresentIsLoaded'
  BY <1>1, <1>2, <1>3 DEF PresentIsLoaded, At, Loaded, Idle
<1> QED BY <1>3, <1>4, <1>5, <1>6, <1>7, TypesCompose DEF SyncInv

\* Reading the contact, or finding it gone.
LEMMA LoadContactKeepsInv ==
  ASSUME SyncInv, UNCHANGED calm, NEW s \in Sessions, LoadContact(s)
  PROVE  SyncInv'
<1>1. /\ sync[s] \in Waiting /\ sync[s] # Idle /\ sync[s].at = "load"
      /\ UNCHANGED <<contact, changes, due, connected, cached, state, remote, sent>>
  BY SyncCarries DEF LoadContact, SyncInv
<1>2. PICK c \in {Idle} \cup Waiting \cup Working :
        /\ sync' = [sync EXCEPT ![s] = c]
        /\ \/ contact = NoContact /\ c = Idle
           \/ /\ c # Idle /\ c.at = "compare"
              /\ c.projection = buildProjection(contact, sync[s].action)
              /\ c.projection.fields = contact.fields
  <2>1. CASE contact = NoContact
    BY <2>1 DEF LoadContact, End
  <2>2. CASE contact # NoContact
    <3> DEFINE p == buildProjection(contact, sync[s].action)
               c == [sync[s] EXCEPT !.at = "compare", !.projection = p]
    <3>1. p \in Projection /\ p.fields = contact.fields
      BY <1>1, <2>2, ProjectionBuilt DEF SyncInv, Waiting
    <3> HIDE DEF p
    <3>2. c \in Working /\ c.at = "compare" /\ c.projection = p
      BY <1>1, <3>1 DEF Waiting, Working
    <3>3. c # Idle
      BY <3>2 DEF Idle
    <3>4. sync' = [sync EXCEPT ![s] = c]
      BY <2>2 DEF LoadContact, p
    <3> HIDE DEF c
    <3> QED BY <3>1, <3>2, <3>3, <3>4 DEF p
  <2> QED BY <2>1, <2>2
<1>3. /\ SyncTyped' /\ CalmIsSerial' /\ sync'[s] = c
      /\ \A r \in Sessions : r # s => sync'[r] = sync[r]
      /\ calm => \A r \in Sessions : r # s => sync[r] = Idle /\ sync'[r] = Idle
  BY <1>1, <1>2, OneMoves
<1>4. RestTyped'
  BY <1>1 DEF SyncInv, TypeOK, RestTyped
<1>5. SavedWasSent'
  BY <1>1, <1>2, <1>3 DEF SyncInv, SavedWasSent, At, Idle
<1>6. FieldsShow'
  BY <1>1, <1>2, <1>3 DEF SyncInv, FieldsShow, At, Idle
<1>7. PresentIsLoaded'
  BY <1>1, <1>2, <1>3 DEF SyncInv, PresentIsLoaded, At, Loaded, Idle
<1> QED BY <1>3, <1>4, <1>5, <1>6, <1>7, TypesCompose DEF SyncInv

\* Ending at the comparison leaves the provider with the contact's fields.
LEMMA CompareHashKeepsInv ==
  ASSUME SyncInv, UNCHANGED calm, NEW s \in Sessions, CompareHash(s)
  PROVE  SyncInv'
<1> DEFINE p == sync[s].projection
<1>1. /\ sync[s] \in Working /\ sync[s] # Idle /\ sync[s].at = "compare" /\ p \in Projection
      /\ Loaded(s)
      /\ UNCHANGED <<contact, changes, due, connected, cached, state, remote, sent>>
  BY SyncCarries DEF CompareHash, SyncInv, Loaded, At, Working
<1>2. PICK c \in {Idle} \cup Waiting \cup Working :
        /\ sync' = [sync EXCEPT ![s] = c]
        /\ \/ c = Idle /\ state = computeHash(p)
           \/ c # Idle /\ c.at = "upsert" /\ c.projection = p
  <2>1. CASE state = computeHash(p) /\ End(s)
    BY <2>1 DEF End
  <2>2. CASE GoTo(s, "upsert")
    BY <1>1, <2>2, GoesOn DEF SyncInv
  <2> QED BY <2>1, <2>2 DEF CompareHash
<1>3. /\ SyncTyped' /\ CalmIsSerial' /\ sync'[s] = c
      /\ \A r \in Sessions : r # s => sync'[r] = sync[r]
      /\ calm => \A r \in Sessions : r # s => sync[r] = Idle /\ sync'[r] = Idle
  BY <1>1, <1>2, OneMoves
<1>4. RestTyped'
  BY <1>1 DEF SyncInv, TypeOK, RestTyped
<1>5. SavedWasSent'
  BY <1>1, <1>2, <1>3 DEF SyncInv, SavedWasSent, At, Idle
<1>6. calm => state = None \/ remote.fields = state.fields
  BY <1>1, <1>3 DEF SyncInv, FieldsShow, At, Idle
<1>7. FieldsShow'
  BY <1>1, <1>2, <1>3, <1>6 DEF FieldsShow, At, Idle
<1>8. calm /\ c = Idle => remote.fields = p.fields
  BY <1>1, <1>2, <1>6, HashCarries
<1>9. PresentIsLoaded'
  BY <1>1, <1>2, <1>3, <1>8 DEF SyncInv, PresentIsLoaded, At, Loaded, Idle
<1> QED BY <1>3, <1>4, <1>5, <1>7, <1>9, TypesCompose DEF SyncInv

\* The provider takes over what it is sent.
LEMMA UpsertContactKeepsInv ==
  ASSUME SyncInv, UNCHANGED calm, NEW s \in Sessions, UpsertContact(s)
  PROVE  SyncInv'
<1> DEFINE p == sync[s].projection
<1>1. /\ sync[s] \in Working /\ sync[s] # Idle /\ sync[s].at = "upsert" /\ p \in Projection
      /\ Loaded(s)
      /\ remote' = Upserted(p) /\ sent' = sent \cup {computeHash(p)}
      /\ UNCHANGED <<contact, changes, due, connected, cached, state>>
  BY SyncCarries DEF UpsertContact, SyncInv, Loaded, At, Working
<1>2. PICK c \in {Idle} \cup Waiting \cup Working :
        /\ sync' = [sync EXCEPT ![s] = c]
        /\ c # Idle /\ c.at = "save" /\ c.projection = p
  BY <1>1, GoesOn DEF SyncInv, UpsertContact
<1>3. /\ SyncTyped' /\ CalmIsSerial' /\ sync'[s] = c
      /\ \A r \in Sessions : r # s => sync'[r] = sync[r]
      /\ calm => \A r \in Sessions : r # s => sync[r] = Idle /\ sync'[r] = Idle
  BY <1>1, <1>2, OneMoves
<1>4. /\ remote' \in [fields : Values \cup {None}, sms : BOOLEAN,
                      stage : Stages \cup {None}, lists : SUBSET Lists]
      /\ remote'.fields = p.fields
  <2>1. remote.lists \subseteq Lists
    BY DEF SyncInv, TypeOK
  <2> QED BY <1>1, <2>1 DEF Upserted, Projection
<1>5. sent' \subseteq {computeHash(q) : q \in Projection}
  BY <1>1 DEF SyncInv, TypeOK
<1>6. RestTyped'
  BY <1>1, <1>4, <1>5 DEF SyncInv, TypeOK, RestTyped
<1>7. SavedWasSent'
  BY <1>1, <1>2, <1>3 DEF SyncInv, SavedWasSent, At
<1>8. FieldsShow'
  BY <1>1, <1>2, <1>3, <1>4 DEF FieldsShow, At, Idle
<1>9. PresentIsLoaded'
  BY <1>1, <1>2, <1>3 DEF SyncInv, PresentIsLoaded, At, Loaded, Idle
<1> QED BY <1>3, <1>6, <1>7, <1>8, <1>9, TypesCompose DEF SyncInv

\* The hash is recorded, and the sync ends.
LEMMA SaveStateKeepsInv ==
  ASSUME SyncInv, UNCHANGED calm, NEW s \in Sessions, SaveState(s)
  PROVE  SyncInv'
<1> DEFINE p == sync[s].projection
<1>1. /\ sync[s] \in Working /\ sync[s] # Idle /\ sync[s].at = "save" /\ p \in Projection
      /\ Loaded(s)
      /\ state' = computeHash(p) /\ sync' = [sync EXCEPT ![s] = Idle]
      /\ UNCHANGED <<contact, changes, due, connected, cached, remote, sent>>
  BY SyncCarries DEF SaveState, End, SyncInv, Loaded, At, Working
<1>2. /\ SyncTyped' /\ CalmIsSerial' /\ sync'[s] = Idle
      /\ \A r \in Sessions : r # s => sync'[r] = sync[r]
      /\ calm => \A r \in Sessions : r # s => sync[r] = Idle /\ sync'[r] = Idle
  BY <1>1, OneMoves
<1>3. RestTyped'
  BY <1>1 DEF SyncInv, TypeOK, RestTyped
<1>4. SavedWasSent'
  BY <1>1, <1>2 DEF SyncInv, SavedWasSent, At, Idle
<1>5. calm => remote.fields = p.fields
  BY <1>1 DEF SyncInv, FieldsShow, At
<1>6. FieldsShow'
  BY <1>1, <1>2, <1>5, HashCarries DEF FieldsShow, At, Idle
<1>7. PresentIsLoaded'
  BY <1>1, <1>2, <1>5 DEF SyncInv, PresentIsLoaded, At, Loaded, Idle
<1> QED BY <1>2, <1>3, <1>4, <1>6, <1>7, TypesCompose DEF SyncInv

\* Failures and restarts, outside calm behaviors, only end syncs.
LEMMA StopKeepsInv ==
  ASSUME SyncInv, UNCHANGED calm, ~calm,
         UNCHANGED <<contact, changes, due, connected, state, remote, sent>>,
         cached' \in BOOLEAN, SyncTyped',
         \A s \in Sessions : sync'[s] = sync[s] \/ sync'[s] = Idle
  PROVE  SyncInv'
<1>1. RestTyped'
  BY DEF SyncInv, TypeOK, RestTyped
<1>2. SavedWasSent'
  BY DEF SyncInv, SavedWasSent, At, Idle
<1>3. CalmIsSerial' /\ FieldsShow' /\ PresentIsLoaded'
  BY DEF CalmIsSerial, FieldsShow, PresentIsLoaded
<1> QED BY <1>1, <1>2, <1>3, TypesCompose DEF SyncInv

LEMMA FailKeepsInv ==
  ASSUME SyncInv, UNCHANGED calm,
         Restart \/ \E s \in Sessions : Fail(s)
  PROVE  SyncInv'
<1>1. CASE Restart
  BY <1>1, StopKeepsInv DEF Restart, SyncTyped
<1>2. ASSUME NEW s \in Sessions, Fail(s) PROVE SyncInv'
  <2>1. SyncTyped' /\ \A r \in Sessions : sync'[r] = sync[r] \/ sync'[r] = Idle
    BY <1>2, SyncSet DEF Fail, End, SyncInv
  <2> QED BY <1>2, <2>1, StopKeepsInv DEF Fail, SyncInv, TypeOK
<1> QED BY <1>1, <1>2

-------------------------------------------------------------------------------
(* The invariant, and what follows from it *)

\* A step of the contact's owner, a sync, the connection or a crash.
LEMMA NextKeepsInv ==
  ASSUME SyncInv, [Next]_vars
  PROVE  SyncInv'
<1>1. CASE UNCHANGED vars
  <2>1. SyncTyped' /\ SavedWasSent' /\ CalmIsSerial'
    BY <1>1 DEF vars, SyncInv, SyncTyped, SavedWasSent, CalmIsSerial, At
  <2>2. FieldsShow' /\ PresentIsLoaded'
    BY <1>1 DEF vars, SyncInv, FieldsShow, PresentIsLoaded, At, Loaded
  <2>3. RestTyped'
    BY <1>1 DEF vars, SyncInv, TypeOK, RestTyped
  <2> QED BY <2>1, <2>2, <2>3, TypesCompose DEF SyncInv
<1>2. ASSUME UNCHANGED calm, NEW fields \in Values, Change([contact EXCEPT !.fields = fields])
      PROVE  SyncInv'
  <2>1. contact \in [fields : Values, sms : BOOLEAN]
    BY <1>2 DEF Change, SyncInv, TypeOK
  <2>2. [contact EXCEPT !.fields = fields] \in [fields : Values, sms : BOOLEAN]
    BY <2>1
  <2> QED BY <1>2, <2>2, ChangeKeepsInv
<1>3. ASSUME UNCHANGED calm, Change([contact EXCEPT !.sms = ~contact.sms])
      PROVE  SyncInv'
  <2>1. contact \in [fields : Values, sms : BOOLEAN]
    BY <1>3 DEF Change, SyncInv, TypeOK
  <2>2. [contact EXCEPT !.sms = ~contact.sms] \in [fields : Values, sms : BOOLEAN]
    BY <2>1
  <2> QED BY <1>3, <2>2, ChangeKeepsInv
<1>4. ASSUME UNCHANGED calm, Change(NoContact)
      PROVE  SyncInv'
  BY <1>4, ChangeKeepsInv
<1>5. ASSUME UNCHANGED calm, NEW s \in Sessions, Step(s)
      PROVE  SyncInv'
  <2>1. ASSUME NEW a \in IF calm THEN Actions ELSE OtherActions, Deliver(s, a)
        PROVE  SyncInv'
    BY <1>5, <2>1, SyncAssumption, DeliverKeepsInv
  <2> QED BY <1>5, <2>1, GetProviderKeepsInv, LoadContactKeepsInv, CompareHashKeepsInv,
             UpsertContactKeepsInv, SaveStateKeepsInv, FailKeepsInv DEF Step
<1> QED BY <1>1, <1>2, <1>3, <1>4, <1>5, ReconnectKeepsInv, FailKeepsInv DEF Next

LEMMA SyncInvHolds == Spec => []SyncInv
<1>1. Init => SyncInv
  <2> SUFFICES ASSUME Init PROVE SyncInv
    OBVIOUS
  <2>1. 0 \in 0..(IF calm THEN CalmChanges ELSE OtherChanges)
    BY SyncAssumption
  <2>2. remote \in [fields : Values \cup {None}, sms : BOOLEAN,
                    stage : Stages \cup {None}, lists : SUBSET Lists]
    BY DEF Init, NothingSent
  <2>3. contact \in [fields : Values, sms : BOOLEAN]
    BY DEF Init
  <2>4. RestTyped
    BY <2>1, <2>2, <2>3 DEF Init, RestTyped
  <2>5. SyncTyped /\ \A s \in Sessions : sync[s] = Idle
    BY DEF Init, SyncTyped
  <2>6. SavedWasSent /\ CalmIsSerial /\ FieldsShow /\ PresentIsLoaded
    BY <2>5 DEF Init, SavedWasSent, CalmIsSerial, FieldsShow, PresentIsLoaded, At, Loaded, Idle
  <2> QED BY <2>4, <2>5, <2>6, TypesCompose DEF SyncInv
<1> QED BY <1>1, NextKeepsInv, PTL DEF Spec

\* sync_state never claims what the provider has not accepted, whatever syncs
\* interleave, fail or stop (crm-sync-service.ts:17).
THEOREM RecordsWereSent == Spec => []RecordedWasSent
<1>1. SyncInv => RecordedWasSent
  BY DEF SyncInv, SavedWasSent, RecordedWasSent
<1> QED BY <1>1, SyncInvHolds, PTL

\* Where syncs run one after the other and none fails, the provider ends with
\* the contact's present fields, after any number of changes, events handled
\* again and connections lost.
THEOREM SettledSyncsAgree == Spec => []SettledAgrees
<1>1. SyncInv => SettledAgrees
  BY DEF SyncInv, TypeOK, PresentIsLoaded, SettledAgrees
<1> QED BY <1>1, SyncInvHolds, PTL

-------------------------------------------------------------------------------
(* Skipped syncs *)

\* A projection that hashes like the one accepted last finds the provider as it
\* should be, but for lists that the hash cannot tell.
LEMMA HashTells ==
  ASSUME NEW p \in Projection, NEW q \in Projection, Intended(q), Shows(q),
         computeHash(p) = computeHash(q)
  PROVE  /\ remote.fields = p.fields /\ remote.stage = p.stage
         /\ p.listKeys \subseteq remote.lists
         /\ \A list \in p.removeListKeys \cap remote.lists : MayKeep(p, list)
<1>1. p.fields = q.fields /\ p.stage = q.stage /\ p.listKeys = q.listKeys
  BY HashCarries
<1>2. PICK a \in Actions : q.stage = a.stage /\ q.listKeys = a.add /\ q.removeListKeys = a.remove
  BY DEF Intended
<1> QED BY <1>1, <1>2 DEF Shows, MayKeep

\* The provider's side of an upsert shows what was pushed.
LEMMA UpsertShows ==
  ASSUME NEW p, remote' = Upserted(p)
  PROVE  Shows(p)'
BY DEF Upserted, Shows

\* A step of the only sync of a calm behavior that leaves the record and the
\* provider alone.
LEMMA MoveHolds ==
  ASSUME SkipInv, calm, calm', NEW s \in Sessions,
         NEW c \in {Idle} \cup Waiting \cup Working, sync' = [sync EXCEPT ![s] = c],
         sync[s] # Idle \/ (\A r \in Sessions : sync[r] = Idle),
         sync[s].at # "save", c.at # "save",
         c \in Working => Intended(c.projection),
         UNCHANGED <<calm, state, remote>>
  PROVE  HoldsRecorded'
<1>1. /\ sync'[s] = c
      /\ \A r \in Sessions : r # s => sync[r] = Idle /\ sync'[r] = Idle
  BY OneMoves DEF SkipInv
<1>2. \A p : Shows(p)' <=> Shows(p)
  BY DEF Shows
<1>3. \A r \in Sessions : ~At(r, {"save"}) /\ ~At(r, {"save"})'
  BY <1>1 DEF At, Idle
<1>4. state = None \/ \E p \in Projection : Intended(p) /\ computeHash(p) = state /\ Shows(p)
  BY <1>3 DEF SkipInv, HoldsRecorded
<1>5. state' = None \/ \E p \in Projection : Intended(p) /\ computeHash(p) = state' /\ Shows(p)'
  BY <1>2, <1>4
<1>6. c \notin Working => c.at \notin {"compare", "upsert", "save"}
  BY DEF Idle, Waiting
<1>7. \A r \in Sessions : Loaded(r)' => Intended(sync'[r].projection)
  BY <1>1, <1>6 DEF Loaded, At, Idle
<1> QED BY <1>3, <1>5, <1>7 DEF HoldsRecorded, Loaded, At

LEMMA SkipInvKept ==
  ASSUME SkipInv, [Next]_vars
  PROVE  SkipInv'
<1>1. SyncInv' /\ UNCHANGED calm /\ calm \in BOOLEAN
  BY NextKeepsInv DEF SkipInv, SyncInv, TypeOK, Next, vars
<1> SUFFICES ASSUME calm, calm' PROVE HoldsRecorded'
  BY <1>1 DEF SkipInv, HoldsRecorded
<1>2. \A p : UNCHANGED remote => (Shows(p)' <=> Shows(p))
  BY DEF Shows
<1>3. ASSUME UNCHANGED <<state, remote, sync>>
      PROVE  HoldsRecorded'
  BY <1>2, <1>3 DEF SkipInv, HoldsRecorded, At, Loaded
<1>6. ASSUME NEW s \in Sessions, NEW a \in Actions, Deliver(s, a)
      PROVE  HoldsRecorded'
  <2> DEFINE c == [at |-> "provider", action |-> a, projection |-> None]
  <2>1. /\ sync[s] = Idle /\ (\A r \in Sessions : sync[r] = Idle)
        /\ sync' = [sync EXCEPT ![s] = c]
        /\ UNCHANGED <<contact, state, remote>>
    BY <1>6 DEF Deliver
  <2>2. c \in Waiting /\ c \notin Working /\ c.at # "save" /\ Idle.at # "save"
    BY DEF Waiting, Working, Idle
  <2> HIDE DEF c
  <2> QED BY <1>1, <2>1, <2>2, MoveHolds
<1>7. ASSUME NEW s \in Sessions, GetProvider(s)
      PROVE  HoldsRecorded'
  <2>1. /\ sync[s] \in Waiting /\ sync[s] # Idle /\ sync[s].at = "provider"
        /\ UNCHANGED <<contact, state, remote>>
    BY <1>7, SyncCarries DEF GetProvider, SkipInv, SyncInv
  <2>2. PICK c \in {Idle} \cup Waiting \cup Working :
          sync' = [sync EXCEPT ![s] = c] /\ c.at \in {"idle", "load"}
    <3>1. CASE GoTo(s, "load")
      BY <2>1, <3>1, GoesOn DEF SkipInv, SyncInv
    <3>0. Idle.at = "idle"
      BY DEF Idle
    <3>2. CASE End(s)
      BY <3>0, <3>2 DEF End
    <3> QED BY <1>7, <3>1, <3>2 DEF GetProvider
  <2> QED BY <1>1, <2>1, <2>2, MoveHolds DEF Working
<1>8. ASSUME NEW s \in Sessions, LoadContact(s)
      PROVE  HoldsRecorded'
  <2>1. /\ sync[s] \in Waiting /\ sync[s] # Idle /\ sync[s].at = "load"
        /\ UNCHANGED <<contact, state, remote>>
    BY <1>8, SyncCarries DEF LoadContact, SkipInv, SyncInv
  <2>2. CASE contact = NoContact
    <3>1. sync' = [sync EXCEPT ![s] = Idle] /\ Idle.at # "save" /\ Idle \notin Working
      BY <1>8, <2>2 DEF LoadContact, End, Idle, Working
    <3> QED BY <1>1, <2>1, <3>1, MoveHolds
  <2>3. CASE contact # NoContact
    <3> DEFINE p == buildProjection(contact, sync[s].action)
               c == [sync[s] EXCEPT !.at = "compare", !.projection = p]
    <3>1. p \in Projection /\ Intended(p)
      BY <2>1, <2>3, ProjectionBuilt DEF SkipInv, SyncInv, Waiting
    <3> HIDE DEF p
    <3>2. c \in Working /\ c.at = "compare" /\ c.projection = p
      BY <2>1, <3>1 DEF Waiting, Working
    <3>3. sync' = [sync EXCEPT ![s] = c]
      BY <1>8, <2>3 DEF LoadContact, p
    <3> HIDE DEF c
    <3> QED BY <1>1, <2>1, <3>1, <3>2, <3>3, MoveHolds
  <2> QED BY <2>2, <2>3
<1>9. ASSUME NEW s \in Sessions, CompareHash(s)
      PROVE  HoldsRecorded'
  <2>1. /\ sync[s] \in Working /\ sync[s] # Idle /\ sync[s].at = "compare"
        /\ Loaded(s)
        /\ UNCHANGED <<contact, state, remote>>
    BY <1>9, SyncCarries DEF CompareHash, SkipInv, SyncInv, Loaded, At
  <2>2. Intended(sync[s].projection)
    BY <2>1 DEF SkipInv, HoldsRecorded
  <2>3. PICK c \in {Idle} \cup Waiting \cup Working :
          /\ sync' = [sync EXCEPT ![s] = c]
          /\ c.at # "save"
          /\ c \in Working => c.projection = sync[s].projection
    <3>0. Idle \notin Working /\ Idle.at # "save"
      BY DEF Idle, Working
    <3>1. CASE End(s)
      BY <3>0, <3>1 DEF End
    <3>2. CASE GoTo(s, "upsert")
      BY <2>1, <3>2, GoesOn DEF SkipInv, SyncInv
    <3> QED BY <1>9, <3>1, <3>2 DEF CompareHash
  <2> QED BY <1>1, <2>1, <2>2, <2>3, MoveHolds
<1>10. ASSUME NEW s \in Sessions, UpsertContact(s)
       PROVE  HoldsRecorded'
  <2>1. /\ sync[s] \in Working /\ sync[s] # Idle /\ sync[s].at = "upsert"
        /\ Loaded(s) /\ remote' = Upserted(sync[s].projection)
        /\ UNCHANGED <<contact, state>>
    BY <1>10, SyncCarries DEF UpsertContact, SkipInv, SyncInv, Loaded, At
  <2>2. PICK p : p = sync[s].projection
    OBVIOUS
  <2>3. Intended(p) /\ Shows(p)'
    BY <2>1, <2>2, UpsertShows DEF SkipInv, HoldsRecorded
  <2>4. PICK c \in {Idle} \cup Waiting \cup Working :
          sync' = [sync EXCEPT ![s] = c] /\ c.at = "save" /\ c.projection = p
    BY <1>10, <2>1, <2>2, GoesOn DEF SkipInv, SyncInv, UpsertContact
  <2>5. /\ sync'[s] = c
        /\ \A r \in Sessions : r # s => sync'[r] = Idle
    BY <1>1, <2>1, <2>4, OneMoves DEF SkipInv
  <2>6. \A r \in Sessions : Loaded(r)' => r = s
    BY <2>5 DEF Loaded, At, Idle
  <2>7. At(s, {"save"})' /\ sync'[s].projection = p
    BY <2>4, <2>5 DEF At
  <2>8. \A r \in Sessions : Loaded(r)' => Intended(sync'[r].projection)
    BY <2>3, <2>6, <2>7
  <2>9. \A r \in Sessions : At(r, {"save"})' => Shows(sync[r].projection)'
    BY <2>3, <2>6, <2>7 DEF Loaded, At, Shows
  <2> QED BY <2>1, <2>7, <2>8, <2>9 DEF HoldsRecorded, Loaded, At
<1>11. ASSUME NEW s \in Sessions, SaveState(s)
       PROVE  HoldsRecorded'
  <2> DEFINE p == sync[s].projection
  <2>1. /\ sync[s] \in Working /\ sync[s] # Idle /\ sync[s].at = "save" /\ p \in Projection
        /\ Loaded(s)
        /\ state' = computeHash(p) /\ sync' = [sync EXCEPT ![s] = Idle]
        /\ UNCHANGED <<contact, remote>>
    BY <1>11, SyncCarries DEF SaveState, End, SkipInv, SyncInv, Loaded, At, Working
  <2>2. \A r \in Sessions : sync'[r] = Idle
    BY <1>1, <2>1, OneMoves DEF SkipInv
  <2>3. Intended(p) /\ Shows(p)
    BY <2>1 DEF SkipInv, HoldsRecorded, At
  <2>4. PICK q \in Projection : q = p
    BY <2>1
  <2>5. Intended(q) /\ computeHash(q) = state' /\ Shows(q)'
    BY <1>2, <2>1, <2>3, <2>4
  <2> QED BY <2>2, <2>5 DEF HoldsRecorded, Loaded, At, Idle
<1>12. CASE Next
  <2>1. ASSUME NEW s \in Sessions, Step(s) PROVE HoldsRecorded'
    BY <1>6, <1>7, <1>8, <1>9, <1>10, <1>11, <2>1 DEF Step, Fail
  <2>2. ASSUME NEW row, Change(row) PROVE HoldsRecorded'
    BY <1>3, <2>2 DEF Change
  <2>3. ASSUME NEW b \in BOOLEAN, Reconnect(b) PROVE HoldsRecorded'
    BY <1>3, <2>3 DEF Reconnect
  <2> QED BY <1>12, <2>1, <2>2, <2>3 DEF Next, Restart
<1>13. CASE UNCHANGED vars
  BY <1>3, <1>13 DEF vars
<1> QED BY <1>12, <1>13

\* A sync skipped as identical had nothing to do (crm-sync-service.ts:260), for
\* any map of events: what is not at the provider is not hashed, sms_opt_out
\* and lists that events of one stage and the same lists to join do not agree
\* to leave.
THEOREM SkipsAreNoops == Spec => []SkipIsNoop
<1>1. Init => HoldsRecorded
  <2> SUFFICES ASSUME Init PROVE HoldsRecorded
    OBVIOUS
  <2>1. \A s \in Sessions : ~Loaded(s) /\ ~At(s, {"save"})
    BY DEF Init, Loaded, At, Idle
  <2> QED BY <2>1 DEF Init, HoldsRecorded
<1>2. SkipInv => SkipIsNoop
  <2> SUFFICES ASSUME SkipInv, calm, NEW s \in Sessions, sync[s].at = "compare",
                      NEW p, p = sync[s].projection, state = computeHash(p)
               PROVE  /\ remote.fields = p.fields /\ remote.stage = p.stage
                      /\ p.listKeys \subseteq remote.lists
                      /\ \A list \in p.removeListKeys \cap remote.lists : MayKeep(p, list)
    BY DEF SkipIsNoop
  <2>1. Loaded(s) /\ sync[s] \in Working /\ sync[s] # Idle
    BY SyncCarries DEF SkipInv, SyncInv, Loaded, At
  <2>2. \A r \in Sessions : ~At(r, {"save"})
    BY <2>1 DEF SkipInv, SyncInv, CalmIsSerial, At, Idle
  <2>3. p \in Projection /\ state # None
    BY <2>1, HashCarries DEF Working
  <2>4. PICK q \in Projection : Intended(q) /\ computeHash(q) = state /\ Shows(q)
    BY <2>2, <2>3 DEF SkipInv, HoldsRecorded
  <2> QED BY <2>3, <2>4, HashTells
<1>3. SkipInv /\ [Next]_vars => SkipInv'
  BY SkipInvKept
<1>4. Init /\ SyncInv => SkipInv
  BY <1>1 DEF SkipInv
<1>5. SkipInv => SyncInv
  BY DEF SkipInv
<1> QED BY <1>2, <1>3, <1>4, SyncInvHolds, PTL DEF Spec
================================================================================
