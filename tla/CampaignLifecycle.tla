--------------------------- MODULE CampaignLifecycle ---------------------------
(***************************************************************************)
(* One campaign of a tenant: its status, its soft deletion, its audience,  *)
(* and the provider's campaign behind it.  domain-campaigns/               *)
(* campaign-store.ts, campaign-service.ts, and the database function       *)
(* replace_campaign_recipients.                                            *)
(*                                                                         *)
(* A session executes one operation at a time; each of its awaited calls   *)
(* is a step, and a call that fails (or a process that stops) abandons the *)
(* operation where it stands.  The provider and the event bus are          *)
(* external: they keep what was asked of them.                             *)
(***************************************************************************)
EXTENDS Naturals, FiniteSets

CONSTANTS
  Sessions,
  NoSession,
  Audiences,    \* the audiences a replacement may ask for: sets of contacts
  Called,       \* operations the sessions call
  MaxSends      \* bound: sends the provider is asked for

Creations == {"create", "createMarketingCampaign"}
Actions   == {"schedule", "start", "pause", "resume", "complete", "cancel"}
Operations ==
  Creations \cup Actions \cup {"sendCampaignNow", "softDelete", "replaceRecipients"}

ASSUME CampaignAssumption ==
  /\ NoSession \notin Sessions
  /\ Called \subseteq Operations
  /\ MaxSends \in Nat

VARIABLES
  calm,        \* in this behavior operations run one after the other and no
               \* call fails
  row,         \* the campaigns row, or NoRow
  recipients,  \* campaign_recipients of the campaign
  lock,        \* the session that holds the row FOR UPDATE
  provider,    \* the provider's campaign: scheduled, times sent
  announced,   \* the "created" event was emitted
  call         \* the operation of each session

vars == <<calm, row, recipients, lock, provider, announced, call>>

CampaignStatus ==
  {"draft", "scheduled", "running", "paused", "sent", "completed", "cancelled"}

transitions ==
  [draft     |-> {"schedule", "start", "cancel"},
   scheduled |-> {"start", "pause", "cancel"},
   running   |-> {"pause", "complete", "cancel"},
   paused    |-> {"resume", "cancel"},
   sent      |-> {"complete"},
   completed |-> {},
   cancelled |-> {}]

actionStatuses ==
  [schedule |-> "scheduled", start |-> "running", pause |-> "paused",
   resume |-> "running", complete |-> "completed", cancel |-> "cancelled"]

Contacts == UNION Audiences

CampaignRow ==
  [status : CampaignStatus, live : BOOLEAN,
   providerCampaign : BOOLEAN,   \* settings.providerCampaignId is there
   scheduleStart : BOOLEAN]      \* schedule_start is there

NoRow == [status |-> "none"]

NoProviderCampaign == [created |-> FALSE, scheduled |-> FALSE, sends |-> 0]

Idle == [op |-> "none"]

CallRow ==
  {Idle} \cup
  [op : Operations, at : {"read", "provider", "insert", "schedule", "emit",
                          "send", "write", "lock", "delete", "commit"},
   seen : CampaignStatus \cup {"none"},   \* the status that was read
   scheduleAt : BOOLEAN, audience : SUBSET Contacts, deleted : SUBSET Contacts]

Init ==
  /\ calm \in BOOLEAN
  /\ row = NoRow
  /\ recipients = {}
  /\ lock = NoSession
  /\ provider = NoProviderCampaign
  /\ announced = FALSE
  /\ call = [s \in Sessions |-> Idle]

----------------------------------------------------------------------------
(* Steps of a session's call.                                              *)

LiveRow == row # NoRow /\ row.live

(* An UPDATE of the row waits for the transaction that locked it.          *)
Unlocked == lock = NoSession

Start(s, op, at, scheduleAt, audience) ==
  /\ op \in Called
  /\ call[s] = Idle
  /\ calm => \A r \in Sessions : call[r] = Idle
  /\ call' = [call EXCEPT ![s] =
       [op |-> op, at |-> at, seen |-> "none", scheduleAt |-> scheduleAt,
        audience |-> audience, deleted |-> {}]]
  /\ UNCHANGED <<row, recipients, lock, provider, announced>>

At(s, op, at) == call[s] # Idle /\ call[s].op = op /\ call[s].at = at

GoTo(s, at) == call' = [call EXCEPT ![s].at = at]

Finish(s) == call' = [call EXCEPT ![s] = Idle]

NewRow(status, providerCampaign, scheduleStart) ==
  [status |-> status, live |-> TRUE, providerCampaign |-> providerCampaign,
   scheduleStart |-> scheduleStart]

----------------------------------------------------------------------------
(* Creating.                                                               *)

(* The model follows one campaign: it is created once.                     *)
MayCreate ==
  /\ row = NoRow
  /\ \A s \in Sessions : call[s] = Idle \/ call[s].op \notin Creations

StartCreate(s) == MayCreate /\ Start(s, "create", "insert", FALSE, {})

Create(s) ==
  /\ At(s, "create", "insert")
  /\ row' = NewRow("draft", FALSE, FALSE)
  /\ Finish(s)
  /\ UNCHANGED <<recipients, lock, provider, announced>>

StartCreateMarketing(s) ==
  MayCreate /\ \E scheduleAt \in BOOLEAN :
    Start(s, "createMarketingCampaign", "provider", scheduleAt, {})

(* After an attempt that failed, the provider holds a campaign that no row *)
(* names; a new attempt makes another.                                     *)
CreateAtProvider(s) ==
  /\ At(s, "createMarketingCampaign", "provider")
  /\ provider' = [NoProviderCampaign EXCEPT !.created = TRUE]
  /\ GoTo(s, "insert")
  /\ UNCHANGED <<row, recipients, lock, announced>>

(* Mutant: the event is emitted before the provider's schedule.          *)
AnnounceFirst(scheduleAt) == "emit"

AfterInsert(scheduleAt) == IF scheduleAt THEN "schedule" ELSE "emit"

InsertMarketing(s) ==
  /\ At(s, "createMarketingCampaign", "insert")
  /\ row' = NewRow(IF call[s].scheduleAt THEN "scheduled" ELSE "draft",
                   TRUE, call[s].scheduleAt)
  /\ GoTo(s, AfterInsert(call[s].scheduleAt))
  /\ UNCHANGED <<recipients, lock, provider, announced>>

ScheduleAtProvider(s) ==
  /\ At(s, "createMarketingCampaign", "schedule")
  /\ provider' = [provider EXCEPT !.scheduled = TRUE]
  /\ GoTo(s, "emit")
  /\ UNCHANGED <<row, recipients, lock, announced>>

Emit(s) ==
  /\ At(s, "createMarketingCampaign", "emit")
  /\ announced' = TRUE
  /\ Finish(s)
  /\ UNCHANGED <<row, recipients, lock, provider>>

----------------------------------------------------------------------------
(* Sending.                                                                *)

StartSend(s) == row # NoRow /\ Start(s, "sendCampaignNow", "read", FALSE, {})

AlreadySent(status) == status \in {"sent", "completed"}

ReadForSend(s) ==
  /\ At(s, "sendCampaignNow", "read")
  /\ IF LiveRow /\ row.providerCampaign /\ ~AlreadySent(row.status)
       THEN GoTo(s, "send")
       ELSE Finish(s)
  /\ UNCHANGED <<row, recipients, lock, provider, announced>>

(* Mutant: the row is written before the provider is asked.              *)
RecordBeforeSend(s) ==
  /\ At(s, "sendCampaignNow", "send")
  /\ provider.sends < MaxSends
  /\ row' = [row EXCEPT !.status = "sent"]
  /\ GoTo(s, "write")
  /\ UNCHANGED <<recipients, lock, provider, announced>>

SendAtProvider(s) ==
  /\ At(s, "sendCampaignNow", "send")
  /\ provider.sends < MaxSends
  /\ provider' = [provider EXCEPT !.sends = @ + 1]
  /\ GoTo(s, "write")
  /\ UNCHANGED <<row, recipients, lock, announced>>

(* campaigns.update names the row and the tenant, nothing else.            *)
WriteSent(s) ==
  /\ At(s, "sendCampaignNow", "write")
  /\ Unlocked
  /\ row' = [row EXCEPT !.status = "sent"]
  /\ Finish(s)
  /\ UNCHANGED <<recipients, lock, provider, announced>>

----------------------------------------------------------------------------
(* Transitions and deletion.                                               *)

StartTransition(s) ==
  row # NoRow /\ \E action \in Actions : Start(s, action, "read", FALSE, {})

ReadForTransition(s, action) ==
  /\ At(s, action, "read")
  /\ IF LiveRow /\ action \in transitions[row.status]
       THEN call' = [call EXCEPT ![s].at = "write", ![s].seen = row.status]
       ELSE Finish(s)
  /\ UNCHANGED <<row, recipients, lock, provider, announced>>

(* Mutant: the UPDATE does not compare the status that was read.         *)
StillLive(seen) == row.live

(* The UPDATE matches the row only as it was read, and only while it lives. *)
StillAsRead(seen) == row.status = seen /\ row.live

Transition(s, action) ==
  /\ At(s, action, "write")
  /\ Unlocked
  /\ row' = IF StillAsRead(call[s].seen)
              THEN [row EXCEPT !.status = actionStatuses[action]]
              ELSE row
  /\ Finish(s)
  /\ UNCHANGED <<recipients, lock, provider, announced>>

StartSoftDelete(s) == row # NoRow /\ Start(s, "softDelete", "write", FALSE, {})

SoftDelete(s) ==
  /\ At(s, "softDelete", "write")
  /\ Unlocked
  /\ row' = IF row.live THEN [row EXCEPT !.live = FALSE, !.status = "cancelled"]
                        ELSE row
  /\ Finish(s)
  /\ UNCHANGED <<recipients, lock, provider, announced>>

----------------------------------------------------------------------------
(* Replacing the audience: one transaction of several statements.          *)

StartReplace(s) ==
  row # NoRow /\ \E audience \in Audiences :
    Start(s, "replaceRecipients", "lock", FALSE, audience)

(* Mutant: the campaign is read, not locked.                             *)
CheckWithoutLock(s) ==
  /\ At(s, "replaceRecipients", "lock")
  /\ IF row.live THEN GoTo(s, "delete") ELSE Finish(s)
  /\ UNCHANGED <<row, recipients, lock, provider, announced>>

(* Mutant: a deleted campaign is locked too.                             *)
LockAnyCampaign(s) ==
  /\ At(s, "replaceRecipients", "lock")
  /\ Unlocked
  /\ lock' = s
  /\ GoTo(s, "delete")
  /\ UNCHANGED <<row, recipients, provider, announced>>

LockLiveCampaign(s) ==
  /\ At(s, "replaceRecipients", "lock")
  /\ Unlocked
  /\ IF row.live THEN lock' = s /\ GoTo(s, "delete")
                 ELSE lock' = lock /\ Finish(s)
  /\ UNCHANGED <<row, recipients, provider, announced>>

(* The DELETE removes the rows its statement saw, when it commits.         *)
DeleteRecipients(s) ==
  /\ At(s, "replaceRecipients", "delete")
  /\ call' = [call EXCEPT ![s].at = "commit", ![s].deleted = recipients]
  /\ UNCHANGED <<row, recipients, lock, provider, announced>>

InsertAndCommit(s) ==
  /\ At(s, "replaceRecipients", "commit")
  /\ recipients' = (recipients \ call[s].deleted) \cup call[s].audience
  /\ lock' = NoSession
  /\ Finish(s)
  /\ UNCHANGED <<row, provider, announced>>

----------------------------------------------------------------------------

(* A call fails, or its process stops: what was done stays done, and a     *)
(* transaction that had not committed is rolled back.                      *)
Abandon(s) ==
  /\ ~calm
  /\ call[s] # Idle
  /\ lock' = IF lock = s THEN NoSession ELSE lock
  /\ Finish(s)
  /\ UNCHANGED <<row, recipients, provider, announced>>

Begin(s) ==
  \/ StartCreate(s)     \/ StartCreateMarketing(s) \/ StartSend(s)
  \/ StartTransition(s) \/ StartSoftDelete(s)      \/ StartReplace(s)

Continue(s) ==
  \/ Create(s) \/ CreateAtProvider(s) \/ InsertMarketing(s)
  \/ ScheduleAtProvider(s) \/ Emit(s)
  \/ ReadForSend(s) \/ SendAtProvider(s) \/ WriteSent(s)
  \/ \E action \in Actions : ReadForTransition(s, action) \/ Transition(s, action)
  \/ SoftDelete(s)
  \/ LockLiveCampaign(s) \/ DeleteRecipients(s) \/ InsertAndCommit(s)

Next ==
  /\ \E s \in Sessions : Begin(s) \/ Continue(s) \/ Abandon(s)
  /\ UNCHANGED calm

Spec == Init /\ [][Next]_vars

----------------------------------------------------------------------------
(* Properties.                                                             *)

(* Every variable has its type: the stored status stays one of the         *)
(* database's, whatever operation wrote it.                                *)
TypeOK ==
  /\ calm \in BOOLEAN
  /\ row \in CampaignRow \cup {NoRow}
  /\ recipients \subseteq Contacts
  /\ provider \in [created : BOOLEAN, scheduled : BOOLEAN, sends : 0..MaxSends]
  /\ announced \in BOOLEAN
  /\ call \in [Sessions -> CallRow]
  /\ lock \in Sessions \cup {NoSession}

(* Concurrent replacements never merge: the audience is always one that    *)
(* some request asked for, or nothing (campaign-store.ts:210-215).         *)
AudienceIsOneRequest == TypeOK /\ recipients \in Audiences \cup {{}}

(* The audience of a deleted campaign no longer changes: a replacement     *)
(* that had found it live holds it until it commits.                       *)
DeletedAudienceIsKept ==
  [][(row # NoRow /\ ~row.live) => recipients' = recipients]_vars

(* Whatever two sessions read and write, a live campaign moves only along  *)
(* the lifecycle table, apart from the send that marks it sent             *)
(* (campaign-store.ts:48-70, 180-189).                                     *)
StatusFollowsTable ==
  [][(row # NoRow /\ row'.live /\ row'.status \notin {row.status, "sent"}) =>
       \E action \in transitions[row.status] :
         actionStatuses[action] = row'.status]_vars

(* The event that announces a campaign is emitted only once the row, the   *)
(* provider's campaign and the schedule it was created with are all there, *)
(* whichever of the calls fail.                                            *)
AnnouncedIsSetUp ==
  announced => /\ row # NoRow /\ row.providerCampaign
               /\ provider.created
               /\ row.scheduleStart => provider.scheduled

(* A campaign is recorded as sent only when the provider was asked to send *)
(* it, even when the send fails half way; and in a calm behavior it is     *)
(* asked at most once ("Idempotency: re-running a send on an already-sent  *)
(* campaign is a no-op", campaign-service.ts:19).                          *)
SentOnce ==
  /\ (row # NoRow /\ row.status = "sent") => provider.sends > 0
  /\ calm => provider.sends <= 1
================================================================================
