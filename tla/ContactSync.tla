------------------------------ MODULE ContactSync ------------------------------
(***************************************************************************)
(* Pushing one contact to the marketing provider when events about it      *)
(* arrive: domain-contacts/crm-sync (crm-sync-service.ts,                  *)
(* subscriptions.ts).                                                      *)
(*                                                                         *)
(* Subscribers do not wait for the sync they start, so several run at      *)
(* once, each await a step.  The event bus, the map of events to actions   *)
(* and the provider are external: the bus may deliver an event again, and  *)
(* the provider takes over what an upsert carries.                         *)
(***************************************************************************)
EXTENDS Naturals, FiniteSets

CONSTANTS
  Sessions,    \* syncs that can run at once
  Values,      \* the hashed fields of the contact, as a whole
  Actions,     \* EVENT_ACTION_MAP: [stage, add, remove]
  Lists,
  None,
  OtherActions,   \* bound: the actions of events in a behavior not calm
  CalmChanges,    \* bound: changes of the contact in a calm behavior
  OtherChanges    \* and in any other

ASSUME SyncAssumption ==
  /\ \A action \in Actions :
       action.add \subseteq Lists /\ action.remove \subseteq Lists
  /\ None \notin Values
  /\ OtherActions \subseteq Actions
  /\ CalmChanges \in Nat /\ OtherChanges \in Nat

VARIABLES
  calm,       \* in this behavior syncs run one after the other and no
              \* call fails
  contact,    \* the contacts row
  changes,    \* how often it changed
  due,        \* the event of the last change is still to be handled
  connected,  \* integration_connections: the tenant's connection is there
  cached,     \* providerCache holds a provider of the tenant
  state,      \* sync_state: the hash last recorded
  remote,     \* the provider's contact
  sent,       \* the hashes of what the provider ever accepted
  sync        \* each running sync

vars == <<calm, contact, changes, due, connected, cached, state, remote, sent, sync>>

NoContact == [fields |-> None, sms |-> FALSE]

Stages == {action.stage : action \in Actions}

Projection ==
  [fields : Values, sms : BOOLEAN, stage : Stages,
   listKeys : SUBSET Lists, removeListKeys : SUBSET Lists]

(* buildProjection: the contact's row and the event's intent.              *)
buildProjection(row, action) ==
  [fields |-> row.fields, sms |-> row.sms, stage |-> action.stage,
   listKeys |-> action.add, removeListKeys |-> action.remove]

(* Mutant: the stage an event sets is not hashed.                          *)
HashWithoutStage(p) ==
  [fields |-> p.fields, stage |-> None, listKeys |-> p.listKeys]

(* computeHash: neither sms_opt_out nor the lists to leave are hashed.     *)
computeHash(p) ==
  [fields |-> p.fields, stage |-> p.stage, listKeys |-> p.listKeys]

(* A missing sync_state row is no hash.                                    *)
ASSUME NullAssumption == \A p \in Projection : computeHash(p) # None

NothingSent == [fields |-> None, sms |-> FALSE, stage |-> None, lists |-> {}]

Idle == [at |-> "idle"]

Init ==
  /\ calm \in BOOLEAN
  /\ contact \in [fields : Values, sms : {FALSE}]
  /\ changes = 0
  /\ due = TRUE
  /\ connected = TRUE
  /\ cached = FALSE
  /\ state = None
  /\ remote = NothingSent
  /\ sent = {}
  /\ sync = [s \in Sessions |-> Idle]

----------------------------------------------------------------------------
(* The contact's owner: each change emits an event.                        *)

Change(row) ==
  /\ changes < IF calm THEN CalmChanges ELSE OtherChanges
  /\ contact # NoContact /\ row # contact
  /\ contact' = row
  /\ changes' = changes + 1
  /\ due' = TRUE
  /\ UNCHANGED <<connected, cached, state, remote, sent, sync>>

Reconnect(c) ==
  /\ connected' = c
  /\ UNCHANGED <<contact, changes, due, cached, state, remote, sent, sync>>

----------------------------------------------------------------------------
(* syncContactFromEvent.                                                   *)

GoTo(s, at) == sync' = [sync EXCEPT ![s].at = at]

End(s) == sync' = [sync EXCEPT ![s] = Idle]

(* An event is handled, for the first time or again.                       *)
Deliver(s, action) ==
  /\ sync[s] = Idle
  /\ calm => \A r \in Sessions : sync[r] = Idle
  /\ due' = FALSE
  /\ sync' = [sync EXCEPT ![s] =
       [at |-> "provider", action |-> action, projection |-> None]]
  /\ UNCHANGED <<contact, changes, connected, cached, state, remote, sent>>

(* A provider found once is kept for the life of the process, whatever     *)
(* becomes of the tenant's connection.                                     *)
GetProvider(s) ==
  /\ sync[s].at = "provider"
  /\ IF cached \/ connected
       THEN /\ cached' = TRUE
            /\ GoTo(s, "load")
       ELSE cached' = cached /\ End(s)
  /\ UNCHANGED <<contact, changes, due, connected, state, remote, sent>>

LoadContact(s) ==
  /\ sync[s].at = "load"
  /\ IF contact = NoContact
       THEN End(s)
       ELSE sync' = [sync EXCEPT ![s].at = "compare",
              ![s].projection = buildProjection(contact, sync[s].action)]
  /\ UNCHANGED <<contact, changes, due, connected, cached, state, remote, sent>>

(* Mutants: the hash is recorded before the provider is called, or         *)
(* whatever was synced once is skipped.                                    *)
SaveBeforeUpsert(s) ==
  /\ sync[s].at = "compare"
  /\ IF state = computeHash(sync[s].projection) THEN End(s) ELSE GoTo(s, "upsert")
  /\ state' = computeHash(sync[s].projection)
  /\ UNCHANGED <<contact, changes, due, connected, cached, remote, sent>>

SkipOnceSynced(s) ==
  /\ sync[s].at = "compare"
  /\ IF state # None THEN End(s) ELSE GoTo(s, "upsert")
  /\ UNCHANGED <<contact, changes, due, connected, cached, state, remote, sent>>

(* A read of sync_state that fails is taken for no record: the sync goes on. *)
CompareHash(s) ==
  /\ sync[s].at = "compare"
  /\ \/ state = computeHash(sync[s].projection) /\ End(s)
     \/ /\ state # computeHash(sync[s].projection) \/ ~calm
        /\ GoTo(s, "upsert")
  /\ UNCHANGED <<contact, changes, due, connected, cached, state, remote, sent>>

(* The provider's side of upsertContact.                                   *)
Upserted(p) ==
  [fields |-> p.fields, sms |-> p.sms, stage |-> p.stage,
   lists |-> (remote.lists \ p.removeListKeys) \cup p.listKeys]

UpsertContact(s) ==
  /\ sync[s].at = "upsert"
  /\ remote' = Upserted(sync[s].projection)
  /\ sent' = sent \cup {computeHash(sync[s].projection)}
  /\ GoTo(s, "save")
  /\ UNCHANGED <<contact, changes, due, connected, cached, state>>

SaveState(s) ==
  /\ sync[s].at = "save"
  /\ state' = computeHash(sync[s].projection)
  /\ End(s)
  /\ UNCHANGED <<contact, changes, due, connected, cached, remote, sent>>

(* A call fails, the write of sync_state among them, or the process stops: *)
(* the error is logged and the sync is over.                               *)
Fail(s) ==
  /\ ~calm
  /\ sync[s] # Idle
  /\ End(s)
  /\ UNCHANGED <<contact, changes, due, connected, cached, state, remote, sent>>

Restart ==
  /\ ~calm
  /\ cached' = FALSE
  /\ sync' = [s \in Sessions |-> Idle]
  /\ UNCHANGED <<contact, changes, due, connected, state, remote, sent>>

Step(s) ==
  \/ \E action \in IF calm THEN Actions ELSE OtherActions : Deliver(s, action)
  \/ GetProvider(s) \/ LoadContact(s) \/ CompareHash(s)
  \/ UpsertContact(s) \/ SaveState(s) \/ Fail(s)

Next ==
  /\ \/ \E fields \in Values : Change([contact EXCEPT !.fields = fields])
     \/ Change([contact EXCEPT !.sms = ~contact.sms])
     \/ Change(NoContact)
     \/ \E c \in BOOLEAN : Reconnect(c)
     \/ \E s \in Sessions : Step(s)
     \/ Restart
  /\ UNCHANGED calm

Spec == Init /\ [][Next]_vars

----------------------------------------------------------------------------
(* Properties.                                                             *)

(* Every variable has its type; what a sync works on is always a contact   *)
(* that was there when it was read.                                        *)
TypeOK ==
  /\ calm \in BOOLEAN
  /\ contact \in [fields : Values, sms : BOOLEAN] \cup {NoContact}
  /\ changes \in 0..(IF calm THEN CalmChanges ELSE OtherChanges)
  /\ due \in BOOLEAN /\ connected \in BOOLEAN /\ cached \in BOOLEAN
  /\ state \in {computeHash(p) : p \in Projection} \cup {None}
  /\ remote \in [fields : Values \cup {None}, sms : BOOLEAN,
                 stage : Stages \cup {None}, lists : SUBSET Lists]
  /\ sent \subseteq {computeHash(p) : p \in Projection}
  /\ \A s \in Sessions :
       sync[s] = Idle \/
       /\ sync[s].at \in {"provider", "load", "compare", "upsert", "save"}
       /\ sync[s].action \in Actions
       /\ sync[s].projection \in
            IF sync[s].at \in {"provider", "load"} THEN {None} ELSE Projection

(* sync_state never claims what the provider has not accepted: a hash is   *)
(* recorded after the upsert it stands for, whatever fails in between      *)
(* ("sync_state left stale for retry", crm-sync-service.ts:17).            *)
RecordedWasSent == TypeOK /\ (state # None => state \in sent)

(* Two events that set one stage and join the same lists hash alike, though *)
(* they may leave different lists; a list may also be joined and left at    *)
(* once.  Only such a list is kept by a sync that should have left it.      *)
MayKeep(p, list) ==
  \E action \in Actions :
    /\ action.stage = p.stage /\ action.add = p.listKeys
    /\ list \notin action.remove \/ list \in action.add

(* A sync skipped as identical had nothing to do: the provider has the      *)
(* contact's fields, the stage and the lists to join, and has left the      *)
(* lists to leave but for those the hash cannot tell (MayKeep).  Where      *)
(* syncs run one after the other and none fails; of sms_opt_out, which is   *)
(* not hashed, it says nothing.                                             *)
SkipIsNoop ==
  calm =>
    \A s \in Sessions :
      LET p == sync[s].projection
      IN sync[s].at = "compare" /\ state = computeHash(p) =>
           /\ remote.fields = p.fields /\ remote.stage = p.stage
           /\ p.listKeys \subseteq remote.lists
           /\ \A list \in p.removeListKeys \cap remote.lists : MayKeep(p, list)

(* Once the event of the last change is handled and no sync is running,    *)
(* the provider has the contact's present fields, unless no provider was   *)
(* found.  In a calm behavior.                                             *)
SettledAgrees ==
  (/\ calm
   /\ \A s \in Sessions : sync[s] = Idle
   /\ ~due /\ cached
   /\ contact # NoContact) => remote.fields = contact.fields
================================================================================
