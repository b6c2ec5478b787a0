# Formal models of the shared client care hub

TLA+ models of the program in `src/`: the TypeScript packages of the CRM and
support domains and the PostgreSQL functions, triggers and constraints of their
migrations. TLC checks the models on small instances; TLAPS proves the central
facts for every size. `PROJECT.json` ties each definition to the lines it is
translated from, lists the runs, the mutants that show that each property can
fail, the hazards, the findings and the theorems.

    tlc -workers 2 -config EscalationRaces.cfg MCSupportEscalation.tla
    tlapm SupportEscalationProofs.tla

Contents: [the system](#1-the-system), [modules and code](#2-modules-and-code),
[conventions](#3-how-code-becomes-steps), [runs](#4-what-each-run-checks),
[proofs](#5-what-is-proved), [findings](#6-where-code-and-documents-disagree),
[left out](#7-what-is-not-modelled), [plan](#8-plan).

## 1. The system

A multi-tenant hub, published as npm packages. The packages hold no server of
their own: a host application supplies stores, a database client, a provider of
e-mail campaigns and an event bus, and calls the functions below. Concurrency
comes from the host's requests and event handlers (each `await` lets others
run, in this process or another) and from PostgreSQL transactions.

### Support (`domain-support`, `schema-support`)

*Tickets* belong to an owner: a tenant, a partner that manages tenants, or the
platform. A ticket its owner cannot solve is *escalated*: the next owner up gets
an upstream ticket, the first becomes `waiting_on_upstream`, and a row of
`support_ticket_links` joins the two until the upstream ticket is resolved, sent
back, or the escalation is withdrawn. Duplicates are *merged* into a master, and
whoever waited on the duplicate waits on the master.

- State: `support_tickets` (status, owner, requester), `support_ticket_links`
  (escalations and merges), `partner_tenants` (who manages a tenant).
- Operations: create, update, resolve, return, withdraw, escalate, merge. The
  TypeScript side reads, decides and saves in separate awaits; the four gateway
  functions (`support_escalate`, `support_hand_back`, `support_withdraw`,
  `support_merge`) are one database transaction each and re-validate on locked
  rows.
- Hard: the row is saved as it was read; a call that stops between its save and
  its gateway call; merges between the planning and the execution of an answer;
  retries. Correct when every waiter is answered exactly once, by the ticket its
  escalation came to rest at, and a ticket waits exactly while it has an active
  escalation.

*Access grants* let staff above an owner read its tickets: requested by the
grantee and decided by the owner, given by the owner, or taken for an hour by an
operator ("break glass"). State: `support_access_grants` and the log of reads.
Hard: the clock, decisions and revocations racing reads, a tenant changing
partner in the middle. Correct when each read was consented to, in its window,
by the grantee, and a decision is final.

*The desk.* Agents and requesters write on a ticket; internal notes and the files
on them are for agents. A tenant may bind a specialist desk: a write is then made
here first and copied there by a second call (*graduation*). State: tickets,
threads, attachments; the desk's own; `sync_state` and the dead letters. Hard:
each of five calls fails on its own; two reads make one list. Correct when no
note gets out and every copy is at the desk or accounted for.

Around these: ticket numbers, clocks and status history, hand-off and
conversation helpers, categories.

### Contacts (`domain-contacts`)

- *Suppression*: `contacts.email_opt_out` and `email_valid`, projected from
  `contact_suppressions` by a trigger and written by handlers of unsubscription
  and bounce events. Handlers find the contact by the event's contact or by its
  address and, in the second case, emit the event again with the contact. Correct
  when a contact that opted out stays out until somebody opts it in.
- *CRM sync*: each event about a contact starts a sync that reads the contact,
  compares a hash with `sync_state`, calls the provider and records the hash.
  Nobody waits for it. Correct when `sync_state` only records what the provider
  took, and what is skipped is already there.
- *System store*: resolves a channel identity (address, phone) to a contact,
  creating it if need be, and synchronizes contacts with a desk; *tenant store*:
  contacts, imports, tags. Both read, merge and write columns back. Correct when a
  known sender is recognized and no write takes away another's.
- *Lists and segment materializer*: from a list and filters to the addresses of a
  campaign.

### Campaigns (`domain-campaigns`)

- *Store and service*: a campaign's status moves along a table by read and
  compare-and-set; `sendCampaignNow` asks the provider to send and then writes
  `sent`; `replace_campaign_recipients` replaces an audience in one transaction.
  Correct when nothing is sent twice, audiences do not mix, the status follows
  the table and says no more than what happened.
- *Scheduling*: the next instant at which a recipient may be called, from a
  window in local time, weekdays and a time zone. A pure function.

### Pipeline (`domain-pipeline`)

Companies, deal stages, deals, tasks and notes link to each other and to
contacts; a store looks up, in the caller's tenant, each record that a caller
names, then writes, then logs an activity. Removals cascade in the tables. Hard:
each of the three is a call of its own, and what was looked up may be gone at the
write. Correct when no link leads nowhere or to another tenant, and each task
hangs on one record.

### Screens (`ui-crm`)

Twelve screens over an adapter the host supplies. Their state is what React keeps:
what is loaded, chosen, typed, being confirmed; one `useCrmOperation` hook per
write (no double submit, retry of retryable failures); locks and generation
counters. The adapter answers late, in any order, with a failure or never; the
host shows another record or takes a capability away meanwhile. Correct when an
answer is let in only by the screen that is still about it, a write names what
the user confirmed, and a write's lock is held exactly while it runs.

`schema-crm` (tables, policies, their descriptors), `scripts` (release selection,
linters) and `tests/boundary` (rules about imports) complete the repository.

### How the parts meet

| From | To | By |
| --- | --- | --- |
| ticket workflow | gateway transactions | awaited calls; link rows and ticket rows shared |
| requester | ticket row | a direct UPDATE, filtered by a trigger |
| access reads | tickets, `partner_tenants` | statements of one transaction |
| provider | suppression handlers | events, any order, possibly twice |
| suppression handlers | the bus | they emit what they resolved |
| `contact_suppressions` | `contacts` | trigger |
| materializer | campaign service | injected callback; two reads of contacts |
| contact events | CRM sync | bus; not awaited |
| inbound messages, desk sync, tenant edits | `contacts`, `contact_channels` | statements that interleave |
| removal of a contact | tasks, notes, deals, activities | the tables' references |
| graduated writes | the desk | a second call after the first-party write |
| host | screens | properties; the adapter's answers |

## 2. Modules and code

| Module | Models | Code |
| --- | --- | --- |
| `TicketStatus` | the status table | `domain-support/src/status.ts` |
| `SupportEscalation` | workflow, stores and gateway | `escalation-workflow.ts`, `propagation.ts`, `tickets.ts`, `escalation.ts`; migrations `20260924100000`, `20260924110000` |
| `EscalationLedger` | what the gateway promises of an escalation | contract of `SupportEscalationGateway`, `store.ts` |
| `TicketRaces` | `SupportEscalation` with the history of who was overtaken, for the properties that stale saves endanger | `tickets.ts`, `escalation-workflow.ts` |
| `EscalationRetry` | the above with bounded failures, agents who retry, fairness | `escalation-workflow.ts` |
| `SupportEscalationProofs`, `SupportAccessProofs`, `ContactSyncProofs`, `SupportDeskProofs` | theorems about the module named, the first also about `TicketRaces` | |
| `CampaignProofs` | theorems about `CampaignLifecycle` and `CallingWindow` | |
| `CampaignAudienceProofs` | theorems about `ContactSuppression` and `CampaignAudience` | |
| `StoresProofs` | theorems about `ContactStores` and `PipelineStores` | |
| `CrmScreensProofs` | theorems about `CrmOperation`, `CrmScreens` and the screens they compose | |
| `SupportAccess` | grants, decisions, reads | migrations `20260924120000`, `20260925130000` |
| `CampaignLifecycle` | one campaign: row, audience, provider | `campaign-store.ts`, `campaign-service.ts`, migration `20260919013000` |
| `CallingWindow` | `nextAllowedStartUtc` | `scheduling.ts` |
| `ContactSync` | one contact and the provider | `crm-sync/crm-sync-service.ts`, `subscriptions.ts` |
| `ContactSuppression` | opt-outs of e-mail | `suppression/suppression-subscriber.ts`, `suppression-store.ts`, `system-store.ts`, the trigger |
| `CampaignAudience` | composes suppression with the making of an audience | `campaigns/segment-materializer.ts`, `tenant-store.ts`, `campaign-service.ts` |
| `ContactStores` | inbound messages, edits, merged columns | `system-store.ts`, `tenant-store.ts`, CRM tables, `contact_channels` |
| `PipelineStores` | companies, deals, stages, tasks, notes, the log | `domain-pipeline/src/stores/*`, CRM tables |
| `SupportDesk` | threads, attachments, notifications, graduation | `store.ts`, `threads.ts`, `notifications.ts`, `graduation.ts`, `graduation-server.ts` |
| `CrmOperation` | the hook, calls in flight, the commit of a render | `ui-crm/src/contacts/useCrmOperation.ts`, `adapterError.ts` |
| `ContactScreens` | contacts, contact, form | `ContactsScreen.tsx`, `BulkActionBar.tsx`, `ContactDetailScreen.tsx`, `ContactFormScreen.tsx` |
| `ImportScreen`, `ListScreens`, `SuppressionScreen` | the screens of these names | `ContactImportScreen.tsx`, `ListsScreen.tsx`, `ListDetailScreen.tsx`, `SuppressionScreen.tsx` |
| `CampaignScreens`, `WizardScreen` | campaigns, recipients, analytics, campaign; wizard | `campaigns/*.tsx` |
| `CrmScreens` | composes the screens: a host mounts one of them | |
| `MC…` | small instances for TLC: populations, windows, symmetry | |

`CampaignAudience` EXTENDS `ContactSuppression` and adds the list, the campaign
and the two reads of the materializer to every step of it; `EscalationRetry`
and `TicketRaces` EXTEND `SupportEscalation`; `SupportEscalation` instantiates
`EscalationLedger` WITH its own `Tickets`, `None` and `esc`, a refinement mapping
that keeps the links and forgets tickets and callers. `PipelineStores` EXTENDS
`ContactStores`: a contact that a step of the one removes takes its tasks, notes
and activities along in the other. `CrmScreens` EXTENDS the modules of the
screens, which all EXTEND `CrmOperation`.

**SupportEscalation.** `ticket` and `esc` are the tables; an escalation row is
named by the upstream ticket that was created with it (the two are created in
one transaction). `merged` holds the merge rows. `sess[s]` is what one caller is
executing: operation, the await it has reached, the ticket, the status as read
(`row`), the status to save (`put`) and the planned links (`plan`). The awaits:

    updateTicket    read -> [list links] -> save the row
    resolveTicket   read -> list links -> [save] -> [hand back]
    returnEscalation read -> list links -> [save] -> hand back
    withdraw        read -> list links -> [gateway] -> save

`saveTicket` writes the whole row, status included (the host's store; its
contract is `store.ts:89-109`). `EscalateTicket` and `MergeTickets` are the
gateway transaction alone, because it checks again, on locked rows, whatever
the TypeScript code checked before it. `support_hand_back` reads the upstream
status without a lock; nothing that could change it in between reads what the
transaction writes, so the transaction can be placed at that read. What a
requester outside the owner may do to a row is `RequesterUpdate`.

**TicketRaces** adds two variables of history. `overtaken` are the sessions whose
running call read something of its ticket or its escalations that a step of somebody
else changed since. The code saves what such a call holds all the same, and
`overwritten` are the tickets it was saved over. The action properties say what holds
of every other step, the invariants what holds of every other ticket.

**EscalationLedger** knows escalations only: asked once per upstream ticket,
moved together, answered together with one outcome, or taken back unless the
ticket they wait at waits itself.

**SupportAccess.** A function that inserts a grant ends as it began and is one
step. A decision or a revocation begins (its `now()` is fixed) and takes effect
later, when it holds the row's lock. A read checks the grant in one statement
and reads the tickets in a later one. Roles do not change; partners of tenants do.

**CampaignLifecycle.** One campaign, created once. An UPDATE waits for a
transaction that holds the row `FOR UPDATE`; the DELETE of recipients removes
what its own snapshot saw. Provider and event bus are external and keep what
they were asked.

**CallingWindow.** A behavior picks a window, weekdays, a zone with at most one
change of clocks and how the runtime writes the hour after midnight (`0` or
`24`, as `Intl` may), then asks at each minute. The variables never influence
the code: they are its inputs.

**ContactSync.** `sync[s]` is one running sync; `due` and `sent` are history: the
last change's event is still unhandled, and the hashes the provider accepted. A read
of `sync_state` that fails finds no hash and the sync goes on, as the code ignores
its error.

**ContactSuppression / CampaignAudience.** `bus` holds events, `handler[h]` one
event in the hands of a handler, with the awaits between lookup, write and
emission. `outSince` is history: the addresses that were out of bounds when the
audience was asked for and ever since.

**ContactStores.** `contacts` are the rows, `channels` says whose a normalized
address is. `calls[s]` is a call between two of its statements: a message at one
of five places (`channel`, `phone`, `reuse`, `create`, `row`), or a merge with what
it read and the contacts left to write. `familiar`, `owner` and `raced` are
histories of a call: whether its sender was known when the message came, and which
contacts somebody else wrote after it read them. A failing statement whose error
the code ignores is the disjunct that leaves the table as it is.

**PipelineStores.** `rec` are the rows of five tables, each only its links; `log`
the activities. A call verifies one reference per step in the order of the code,
writes, and logs. `Delete` is what the tables do (`ON DELETE CASCADE`, `SET NULL`;
a stage in use is refused) and is conjoined with the steps of `ContactStores` too.

**SupportDesk.** `call[s]` is at one of the calls a graduated write awaits; each
succeeds, fails, or, at the desk, fails after it was carried out. `tried` is the
history of what was to be copied, without what was given up (the call stopped, or
the desk answered without a reference, which `graduation.ts:132` takes for an
answer), `outside` of what was shown or sent to people
who are not agents. Attachments are uploaded by the host at any time, also to an
internal note.

**CrmOperation and the screens.** A handler up to its first await, the render it causes
and that render's layout effects are one step: React commits them in one task of the
browser. `view` is the state of the mounted screen's hooks, `calls` are the adapter's
calls in flight, at most `Slots`; a load that is superseded and everything at unmount is
forgotten, a write of an old scope stays and still runs the code after its await.
`Commit` takes the scopes of the operations before and after and restarts (`Rescoped`)
and retires (`Retired`) what changed. A call remembers what the screen was about and
what the user had asked for; only properties read it. What an answer does is what the
handler of the render it was submitted in does: a list that was created or edited loads
the query of that render (`reload`), also when a retry replays it. A dialog is closed by
its Escape also while its write is pending (`ConfirmDialog.tsx:65`). Of the fields of a
form the model keeps the one or two that guards and scopes tell apart.

## 3. How code becomes steps

- An `await` that touches shared state ends a step; what runs between two awaits
  is one step. A database function is one step when its locks serialize it, and
  several where a statement's snapshot or `now()` makes a difference.
- A refused call changes nothing and is no step. A call that fails or a process
  that dies is `Abandon` (`Fail`, `Restart`): what was written stays, an open
  transaction is rolled back.
- Identities (tickets, contacts, addresses, sessions) are model values. Subjects,
  notes, message texts, statistics and reports are left out.
- `calm`, in `CampaignLifecycle` and `ContactSync`, never changes after the first
  state: it says that in this behavior operations run one after the other and no
  call fails. One run so covers both kinds of behavior; properties that concern
  sequential use say `calm =>`, all others hold of every behavior.
- Definitions marked `Mutant` stand beside the one they would replace: each is a
  plausible mistake in that code, and `PROJECT.json` names the property that
  notices it. No specification uses them.
- `CHECK_DEADLOCK FALSE` everywhere: sessions may all be idle with every bound
  used up, which is how these instances end.

Bounds, by name: `Filers`, `Choices`, `Operations` (who files tickets, statuses agents
choose, which multi-step operations are called), `MaxFailures`, `MaxOverwritten`,
`MaxTime`, `MaxEvents`, `MaxSends`, `Called`, `CalmChanges`, `OtherChanges`,
`OtherActions`, `Populations`, `Reported`, `MaxEdits`, `First`, `Last`, `Roles`,
`TenantRows`, `Additions`, `Given`, `Slots`, `Mounted`. Each is a CONSTANT with an
assumption; the sets of identities bound the rest.

## 4. What each run checks

**escalation_races** - two sessions whose steps interleave, four tickets, sending
back and withdrawing (the operations that plan and then call the gateway) with
escalations, merges and changes of partner in between. `EscalationAscends` (no cycle
of waiters), `PlanHasOneUpstream` (a planned batch still points at one ticket when it
is answered, so a batch never fails for a mixed reason), `EscalationFollowsMerges`,
`OutcomeIsFinal`, and `ImplementsLedger`: every step is a step of the abstract
ledger or none. Updates and resolutions are of the first ticket and end before there is
another (`UpdatesComeFirst`): with more the run takes too long, a resolution takes the
steps of a send-back, and the next run updates, resolves and withdraws on every ticket.

**ticket_races** - two sessions that update, resolve and withdraw, and whatever
escalations, merges and requesters do between their awaits. The code reads a row,
awaits, and saves the whole row. `WaitingEndsWithEscalation` (a wait ends only when its
escalation has), `ClosedStaysClosed` and `StopReachesEveryWaiter` (a call that stops a
ticket and finds nobody to answer leaves nobody waiting) hold of every step, whatever
interleaves, but a save whose call was `overtaken`: a stale save is the only way to
break them, and the findings say how it does. `WaitingMatchesEscalation` (a ticket with
an active escalation waits, and one that waits without is a withdrawal that stopped in
the middle) and `MergedStaysMerged` (a duplicate stays closed, with one master) hold in
every state of every ticket that was not `overwritten` by such a save. Three tickets
(one waits, its upstream ticket, one to merge or to escalate later) of a tenant and the
platform; an update saves the status it read or `closed` (`Choices`), and one ticket is
saved over (`MaxOverwritten`). Four tickets, more statuses or more tickets saved over
are beyond the time of a run; TLC met no violation in the first millions of their
states, and the theorems hold for all of them.

**escalation_retry** - liveness. Calls stop at most twice; fairness: an awaited
call returns or fails (weak fairness of a session's next step), and an agent
whose ticket still owes an answer retries if again and again possible (strong
fairness of `Retry`, because the session may be busy in between and reopening
disables it). That is the promise "each operation is safe to retry"
(`escalation-workflow.ts`): without agents who retry nothing else in the code
completes a hand-back. `HandBackCompletes`: whoever waits on a resolved or
closed ticket is answered, or the ticket is reopened.

**access_races** - two sessions over one grant, two moments of the clock, windows
of up to two hours, a tenant's agent, a partner's admin and an operator. One
logged read is enough for the invariants, which speak of one read and its
grant. `ReadsAreAllowed` (each logged read was in its grant's window, made by its
grantee and consented to) and `DecisionIsFinal`.

**campaign_lifecycle** - two sessions and every operation, two disjoint
audiences (so that a mixture is neither), two sends. `AudienceIsOneRequest`,
`DeletedAudienceIsKept`, `StatusFollowsTable`, `AnnouncedIsSetUp` and `SentOnce`
(what is recorded as sent was sent and, in calm behaviors, once).

**campaign_audience** - two contacts, two addresses (so an address can change
hands), two handlers, two events in each behavior, drawn from all four kinds and from
both ways of naming a contact, two edits.
`SuppressedIsOptedOut`, `OptOutIsMonotonic`, `AudienceLeavesOut`; liveness under
weak fairness of the handlers together (the bus calls a handler for what it
holds, and a promise that is awaited settles): `UnsubscribedIsOptedOut` (unless a
write failed: the in-process bus does not deliver again) and `BusDrains`.

**calling_window** - all windows of a day of six minutes, four sets of weekdays (one
with a day there is not), seven zones, from the day before a change of clocks to the
week after; clocks change by one or two minutes, so that a window can end and, when
they are set back, open again. `NextStartIsAllowed` (and not past) and
`NextStartIsEarliest`, each against a definition that looks at instants. The code only
adds, compares and takes remainders, so a shorter day loses no case; hours, clamping
and both directions of both kinds of zone are there.

**contact_sync** - two syncs, failures and restarts, or one at a time with up to
three changes; four events, which put a contact on a list, take it off or leave it
there, the last two alike to the hash.
`RecordedWasSent`, `SkipIsNoop` (what is skipped is at the provider, but for the sms
flag and lists to leave that the hash does not tell: `MayKeep`), `SettledAgrees`.

**contact_stores** - two sessions, which in one behavior both serve messages, both
merge, or both keep records (`Roles`), because it is calls of a kind that share
columns and rows. Two contacts (for a message to find the wrong one), one number on
two channels, written in the plain form or not, one e-mail address; two tags and
a custom field, so that each column can lose what the other or another call
wrote; two edits of the tenant beside. With records: a company, a deal, a task, a
note, three stages of which two claim one position, a record of another tenant,
and four calls or edits - enough to create a contact, a deal of it, a task on the
deal, and to remove one of them between the look-up and the write of another.
`SenderIsRecognized`, `EntriesAreKept`, `LinksHold`.

**support_desk** - two sessions, one ticket, two threads and two attachments, with
no bound on failures: two replies that both copy, or a note between the two
reads of a list. `InternalStaysInside`, `DeskIsAccountedFor`.

**crm_screens** - each of the twelve screens, with two calls in flight (one to come
late while another is awaited), two things to be about, two queries, two contacts,
rows of two channels, two files and mappings, and three sets of capabilities.
`AnswersStayInContext` (the page of lists is that of the last load, which section 6
says need not be the last search), `WritesAreAsAsked`, `LocksCoverWrites` (with
`PendingIsAwaited`: no control stays shut), `SelectedAreListed` and
`SubmittedOnce` (an import is committed once per screen, a form's retries
create one campaign).

**escalation_lost_wait** - checks what `status.ts` says of `waiting_on_upstream`
and the code does not keep; TLC's counterexample is the scenario in section 6.

The type invariants of `SupportAccess`, `CampaignLifecycle`, `CampaignAudience` and
`ContactSync` are the first conjuncts of `ReadsAreAllowed`, `AudienceIsOneRequest`,
`AudienceLeavesOut` and `RecordedWasSent`; that of `SupportEscalation` is checked by
itself. A run is under three minutes on two cores.

## 5. What is proved

For any numbers of tickets, users, contacts, records and sessions, any of the
bounds, any interleaving and any failure. Each module of proofs has an inductive
invariant, shown by one lemma for each action (or for what several actions have
in common), and derives its theorems from it. TLC checked each of these
invariants on the component's run first. What is assumed of the constants:

| Assumption | Says |
| --- | --- |
| `OwnersAssumption`, `NamesAssumption` | tenants, partners, the platform and NULL differ |
| `UsersAssumption` | a user belongs to a tenant, a partner or the platform (`current_user_*` of the migrations), a ticket has one owner |
| `StoresAssumption`, `PipelineAssumption`, `DeskAssumption` | keys of different tables, tenants and kinds differ (they are UUIDs; a phone number is no e-mail address); the values given are of the columns' types |
| `NullAssumption` | a hash is not NULL |
| `SuppressionAssumption` | contacts start with addresses of their own (`contacts_tenant_email_unique`) |
| `WindowAssumption` | windows are times, no zone is a day or more from Greenwich, the hour after midnight is written 0 or 24 |
| `BoundsAssumption`, `OverwrittenAssumption`, `LimitsAssumption`, `CampaignAssumption`, `SyncAssumption` | the bounds and the populations are of their types |
| `SlotsAssumption`, `WizardAssumption`, `UnmappedAssumption` | a call can be in flight; an audience of all contacts, a form's first start and a file without a mapping exist |
| `AnswersAssumption`, `ScreensAssumption`, `RequestsAssumption`, `RowScopesAssumption` | `None` (no answer, no screen mounted, a free slot, a row without a scope) is none of the values it stands beside |
| `RowsAssumption` | each row of the suppression table has an operation of its own, apart from the bulk action and the load |

No theorem has a hypothesis of its own.

*SupportEscalationProofs.* The inductive invariant is

    RowsInv == TypeOK /\ CallsHoldRows /\ LinksNameRows /\ EscalationAscends

`EscalationAscends` alone is not inductive: a hand-back or a merge could write
into a row that is missing, and an escalation could recycle the name of an old
link. `CallsHoldRows` (a call works on a ticket that exists) and `LinksNameRows`
(a link's own ticket exists) exclude it. One lemma per action shows that it
preserves `RowsInv`; most go through `RowsInvKept`, which says what they have in
common: they lose no row, change no owner and move no end of a link. Escalation
(`ParentIsHigher`) and merge (tickets of one owner) are the ones that do.

- `TypeCorrect`: `Spec => []TypeOK`.
- `AlwaysAscends`: `Spec => []EscalationAscends`; no cycle of waiters, whatever
  tenants change their partner meanwhile.

The second part is about the ledger. The inductive invariant is

    LinksInv == RowsInv /\ OneActiveEscalation /\ PlansAgree

`PlansAgree` says of every plan a call carries, not only at the hand-back, that
its links are there and those still active point at one ticket. Without it a
hand-back need not be one answer of the ledger; without `OneActiveEscalation`
the plan of a withdrawal may hold two. The argument: every step is a step of
`EscalationLedger` or leaves the links alone (`LedgerStep`, one lemma for each
of the four gateway functions); what a ledger step does to the links is shown
once (`LedgerKeepsLinks`); where plans come from is shown once (`PlansMove`);
together they preserve `LinksInv`.

- `PlansStayTogether`: `Spec => []PlanHasOneUpstream`.
- `WorkflowImplementsLedger`: `Spec => ImplementsLedger`, the refinement.
- `OutcomesAreFinal`: `Spec => OutcomeIsFinal`, an action property.
- `EscalationsFollowMerges`: `Spec => []EscalationFollowsMerges`, inductive with
  `RowsInv`: a merge adds to `merged` the pair along which it moves its waiters.

`OneActiveEscalation` (a ticket waits at one upstream ticket) is the unique index on
active escalations and serves as a lemma only.

The third part is about what stale saves endanger. `CallKnows` says that what a call
read is still so when it writes: the status is the ticket's, the plan of a resolution
is all that wait, that of a withdrawal what the ticket waits on, and the status to
save is one the table allows. With any number of sessions it holds of the calls
that were not overtaken, and what waits and what is merged is in order (`Ordered`)
for the tickets that were not saved over by the others:

    RaceInv == LinksInv /\ overtaken \subseteq Sessions
               /\ (\A s \in Sessions \ overtaken : CallKnows(s))
               /\ Ordered(overwritten)

The invariant is inductive because `overtaken` compares exactly what `CallKnows`
speaks of: a step of another session that changes it adds the session. A call that
was not overtaken saves over a ticket as it read it, so order is kept there.

- `WaitersOutlastEscalations`, `ClosedTicketsStayClosed`, `StopsReachWaiters`:
  `RaceSpec => WaitingEndsWithEscalation`, `ClosedStaysClosed` and
  `StopReachesEveryWaiter`, without a hypothesis. The overtaken saves they exempt are
  those of the findings.
- `WaitingTicketsAreEscalated`, `DuplicatesStayMerged`:
  `RaceSpec => []WaitingMatchesEscalation`, `RaceSpec => []MergedStaysMerged`. What they
  say is about rows and not about a step, so a ticket that an overtaken call saved over
  is exempt from then on, and no other is.

*SupportAccessProofs.*

    AccessInv == TypeOK /\ GrantsAgree /\ CallsAreFounded /\ LogIsFounded

The log alone is not inductive: a read is checked in one step and logged in a later
one. `CallsAreFounded` carries the check across: a checked read was of an active
grant, and what happens to the grant meanwhile takes neither its window nor its
grantee (`GrantKept`). `GrantsAgree` ties a window that is open to the consent
that opened it.

- `ReadsStayAllowed`: `[]ReadsAreAllowed`. `DecisionsAreFinal`: `DecisionIsFinal`.

*CampaignProofs*, of `CampaignLifecycle`.

    LifecycleInv == TypeOK /\ (\A s : CallFits(s)) /\ CalmIsSerial /\ SendShows
                    /\ AudienceAsked /\ AnnouncedIsSetUp /\ SentOnce

`CallFits` has one part per hazard: whoever replaces the audience holds the lock on a
live row and at `commit` has deleted every row there is (else two audiences mix);
a transition leaves a status that lists it; a creation has set up the provider,
the row and the schedule in this order; a send is recorded after it was asked for.
`SendShows` says that in calm behaviors a send is on the row, or about to be.

- `AudiencesNeverMerge`, `SendsAreRecordedOnce`, `AnnouncementsAreLast`:
  `[]AudienceIsOneRequest`, `[]SentOnce`, `[]AnnouncedIsSetUp`.
- `DeletedAudienceStays`, `StatusStaysOnTable`: the action properties
  `DeletedAudienceIsKept` and `StatusFollowsTable`.

*CampaignProofs*, of `CallingWindow`. The variables are the code's inputs and only the
clock moves, so the work is in the operators. `GuessesSettle`: the three guesses of
`zonedLocalTimeToUtc` find the instant of a local time that comes once (the third is
computed from one of two candidates, and both then lead to the same). `OnceOrders`:
around such a time clocks and instants order alike. `AllowedDayAhead`: the search finds
the first allowed day. A window of the past could only be met again by setting clocks
back over its end, which `EndIsPlain` excludes. The proof attempt is how that exception
was found: TLC had not met it while clocks went back by one minute only.

- `NextStartsAreAllowed`, `NextStartsAreEarliest`: `[]NextStartIsAllowed`,
  `[]NextStartIsEarliest`, for any length of a day and any offsets within a day of
  Greenwich (`WindowAssumption`).

*ContactSyncProofs.*

    SyncInv == TypeOK /\ SyncTyped /\ SavedWasSent /\ CalmIsSerial
               /\ FieldsShow /\ PresentIsLoaded
    SkipInv == SyncInv /\ HoldsRecorded

`SavedWasSent`: the hash a sync is about to save was accepted. The
other parts are about calm behaviors: `FieldsShow` says that the provider has the
fields of the recorded hash, so a skip leaves nothing out; `PresentIsLoaded` that a
running sync, while no further change is due, works on the contact as it is, and
that the provider has it when none runs. `HoldsRecorded` says the same of lists and
stage, as far as the hash can tell.

- `RecordsWereSent`: `[]RecordedWasSent`. `SettledSyncsAgree`: `[]SettledAgrees`.
- `SkipsAreNoops`: `[]SkipIsNoop`, for any map from events to stages and lists, which
  is the host's. The hash leaves out the lists to leave (`crm-sync-service.ts:261`), so
  the property says what a skip may leave the contact on: a list that another event
  with the same stage and lists to join does not take it off (`MayKeep`).

*CampaignAudienceProofs.*

    AudienceInv == TypeOK /\ SuppressedIsOptedOut /\ AddressesApart
                   /\ AudienceIsMade /\ AudienceLeavesOut

`AddressesApart` (two contacts never share an address) makes the address taken from
a contact the contact's own, so an address out of bounds is that of one opted-out
contact; it is kept by edits because the index refuses the others.

- `SuppressionsAreKept`, `AudiencesLeaveOut`, `OptOutsStay`:
  `[]SuppressedIsOptedOut`, `[]AudienceLeavesOut`, `OptOutIsMonotonic`.

*SupportDeskProofs.* `ShownInv` is about what is shown: files hang on threads that
are there, what a call has listed or appended is there, what was shown is there and
not internal. It is inductive by itself. `DeskInv` adds the copies: no two
calls copy the same thing (`OneCopies`), a copy is of a row that is there, of a
reply only after its ticket, and the row is marked before the dead letter is
written (`CopyFits`).

- `InternalIsNeverShown`: `[]InternalStaysInside`. `CopiesAreAccountedFor`:
  `[]DeskIsAccountedFor`.

*StoresProofs.*

    StoresInv == ContactsOK /\ RecordsOK /\ (\A s : CallHolds(calls[s])) /\ LinksHold

`CallHolds` says what a call between two statements can rely on: of a message, that
a sender who was known is still found by the statements to come (`SenderKnown`); of
a merge, that what it read of a contact nobody wrote since is what the contact
holds (`ReadingHolds`); of a write, that a link it no longer has to look up is not
another tenant's (`RequestHolds`; the patch of a note apart, whose links the code does
not look up). The record may be gone by then, and then the foreign key refuses it.

- `SendersAreRecognized`, `LinksAlwaysHold`: `[]SenderIsRecognized`, `[]LinksHold`.
- `MergesKeepEntries`: the action property `EntriesAreKept`.

*CrmScreensProofs.* Two invariants, over twelve screens with an action for each
thing a user, the host or the adapter does. TLC checked both on the run
`crm_screens` before they were proved.

    ScreensInv == ... \/ screen = "list" /\ ListInv \/ ...    (one part per screen)
    HeldInv    == Awaited(ops, calls)
                  /\ (screen = "list" => ListHeld) /\ ...     (per screen that locks)

`AnswersStayInContext` is not inductive: what matters is what the calls in flight
are about. A part of `ScreensInv` says that a *live* call is about what its screen
is about now (`Writing`), that a *late* one may be about anything (`Late`), and
that what each writes is what its user asked for. The rest ties a dialog to
what it was opened on: a confirmation follows the selection, the selection of the
suppression screen the rows it loaded, a list's dialog the list it names. The load of
the lists is about the query of the load asked for last (`asked`), which a create or an edit
sets to the query of its submission: the screen shows the page it asked for
last, not always that of the last search (section 6). The
import needs two parts of its own: a live parse is the one its hook waits for, and
nothing is on the screen until it succeeds (`ParseAwaited`); rows that are being
committed are retired before, by one call (`CommitReserved`), without which a
second commit of the same rows cannot be excluded.

`HeldInv` is about locks: what is pending is awaited by a live call (`Awaited`), and
a lock is held exactly while there is one write of its kind (`Holds`, `LocksHeld`).
The attempts to prove it showed what else the code relies on. On the screen of
contacts a bulk action is pending only while the capability that offers it is
granted (`Offered`): without it the hook forgets its calls. On the screen of a list
only the last search is awaited (`LoneSearch`), so that the two loads of a commit
both find a slot of the model.

The screens share what they do with a call, so a lemma each says what any of
them keeps: `AttemptedHooks`, `SettledHooks` of the hook; `Tracked`, `Through` and
`LeftAlone` of a commit, whichever scopes it changes; `WriteMade`, `CallTaken` and
`WriteSettled` of a write that is sent, ignored and answered. Each action of a screen
cites them with what is its own.

- `AnswersInContext`, `WritesAsAsked`: `[]AnswersStayInContext`, `[]WritesAreAsAsked`,
  for any number of calls in flight and any order of the answers.
- `SelectionIsListed`, `SubmittedAtMostOnce`: `[]SelectedAreListed`, `[]SubmittedOnce`.
- `LocksCover`: `[]LocksCoverWrites`.

Every safety property that a passing run checks is stated by a theorem or is a
conjunct of a proved invariant. Beyond the prover and left to TLC: the liveness
properties `HandBackCompletes`, `UnsubscribedIsOptedOut` and `BusDrains` (fairness
and ENABLED).

## 6. Where code and documents disagree

- **A wait can be lost** (`tickets.ts:79`, run `escalation_lost_wait`). `updateTicket`
  reads a ticket and later saves the whole row. If `support_escalate` commits in
  between, the save writes the old status over `waiting_on_upstream`: the
  escalation is active and the ticket does not show it. `status.ts:5` says the
  status is never cleared by hand.

Seen while modelling, without a run of their own:

- A skip can miss something (`crm-sync-service.ts:260`). `computeHash` covers neither
  `sms_opt_out`, which the projection carries, nor the lists to leave, so a changed flag
  or an event that only takes a contact off a list is skipped. The comment beside it
  (`:261`) says of an identical hash: "nothing to do".
- Lists of a query that was left (`ListsScreen.tsx:136`). The handler of a create's or
  an edit's success calls the `load` of the render it was submitted in. Create under one
  query, search for another, and the answer of the create loads the first query again:
  it takes the newest token, drops the search's answer, and its lists stay under the
  search. `lists.test.tsx:248` says that only the latest request is rendered, and shows
  it with a search.
- A cancelled campaign can be sent: `sendCampaignNow` (`campaign-service.ts:279`)
  refuses `sent` and `completed` only; `campaign-store.ts:50` calls `cancelled`
  terminal.
- A bounce without a reason suppresses (`suppression-subscriber.ts:140`): the
  reason is classified only when there is one; the test beside it
  (`suppression-subscriber.test.ts:76`), of a copy of the logic, says an empty
  reason means no suppression.
- Who opts out after a campaign is made is still sent to
  (`campaign-service.ts:288`): the audience is filtered when the campaign is
  created; `suppression-subscriber.ts:8-9` says every send path checks the flag
  before sending. (`campaign-service.ts:20` says the resolver does.)
- Two sessions: a closed ticket is reopened when a withdrawal saves
  `in_progress` over a row it read before two awaits (`escalation-workflow.ts:141`);
  a merge between `resolveTicket`'s listing and its save adds a waiter that this
  call does not answer (`:74`; a retry does) - these two are what `ClosedStaysClosed`
  and `StopReachesEveryWaiter` exempt; a ticket whose upstream ticket a
  withdrawal half undid can be closed while it waits (gateway migration, line 362).
- Campaigns: if the write of `sent` fails after the provider sent, a retry sends
  again. The statuses of `calm` behaviors exclude it, the others allow it.
- Access: `accessGrantState` (`access.ts:58`) shows a grant of a former partner as
  active, the database refuses it; a tenant admin without `support.agent` can give
  access and not revoke it (grants migration line 587 with `20260925130000`).
- Sync: the provider cache is looked at before the connection
  (`crm-sync-service.ts:75`), so a disconnected tenant syncs until the process
  restarts; a crash between
  upsert and record, followed by an edit back, is skipped.
- Suppression: a contact removed and created again has no opt-out; an
  unsubscription emitted again may be handled after an opt-in and undo it;
  `email_valid` is never set back. An empty audience still makes a campaign.
- Senders: two messages from an address nobody has yet make two contacts, the
  second without a channel row; the look-ups of `resolveChannelIdentity` ignore
  their error, so a failing one makes a second contact of a known sender; a
  contact whose e-mail address has no channel row refuses every insert from that
  address. `mergeTags` counts rows that are gone as updated.
- Pipeline: the README of the package (line 89) has "deleted" activities logged
  after the delete, but an activity refers to its record, so the table refuses
  it, the error is swallowed, and the cascade takes the earlier ones: a
  removal leaves no trace in the log. `NoteStore.update` verifies no reference, so
  a patch may link a note to another tenant's record (`LinksHold` exempts it).
  A task created as `done` has no `completed_at`. A stage of the tenant's own that
  is inserted while `seedDefaults` runs ends up among the defaults.
- Desk: one that answers without a reference leaves neither a reference nor a dead
  letter (`graduation.ts:132`); when the sync state or the dead letter cannot be written,
  `createTicketGraduated` throws although the ticket is there; a dead letter may be
  left for a ticket the desk has; replies to a ticket without a reference at the
  desk are skipped without a word; an error state is never cleared.
- Screens: after a wizard's campaign was created and its audience failed, editing
  any field starts another operation, which creates a second campaign; a create
  that was rejected may have been carried out and can be submitted again
  (wizard and contact form); the selection of the suppression screen survives a
  reload that failed; the answer of an old deletion closes a newer
  confirmation of the bulk bar; a campaign's write lock outlives a change of
  campaign until the old answer comes.
- Calling windows: a window across midnight, asked after midnight of a day that
  is not allowed, skips that night's rest; a start in the hour a change of
  clocks skips or repeats gives another or a past instant; where `Intl` writes
  `24`, whoever asks in the hour after midnight is sent to the next allowed
  day; a window that clocks set back open again after it ended is left for the next
  allowed day. `StartIsPlain`, `EndIsPlain` and the other premises of the two
  properties say when they hold.

## 7. What is not modelled

- The host's own stores, provider, bus and adapter, beyond what the code relies
  on; a host that updates campaigns with free-form fields.
- Row-level security policies, storage buckets, audit rows; message texts,
  categories, the notifications of events other than replies: single writes and
  wording.
- SMS and WhatsApp suppression (no handler writes them; `setSmsOptOut` writes the
  flag past its row, `suppression-store.ts:45-47`); tag and custom-field filters
  of segments.
- Row locks inside the gateway transactions: `support_withdraw` takes the link
  before the upstream ticket, `support_merge` the tickets before their links, and
  PostgreSQL ends one of two that wait for each other. In the model any call may
  stop, so what is left behind is covered; how often it happens is not.
- Ticket numbers (`MAX + 1` in a trigger: two inserts may collide and the unique
  index refuses one; five digits), clocks and status history, the hand-off to and
  the reading of conversations: one statement or a pure function each.
- In the pipeline: positions of stages after creation, a task's status, unique
  names of companies, the definitions of custom fields. Several desks for one tenant.
- In the screens: rendering, the loads of tags and companies, single field
  validations, the boundary around extension panels, an adapter object the host
  replaces.
- Read-only queries, reports, release scripts, import linters.

PROJECT.json lists every part with its status, and every hazard with the
properties that cover it or the reason none does.

## 8. Plan

The runs are kept to a dozen; a later module shares a composed run with the one
it interacts with, or takes the place of a run it subsumes.

1. `TicketClocks`: what the history of statuses and the two clocks keep equal.
2. The row locks of the four gateway functions, as a refinement of their steps.
3. Segments by tags and custom fields, composed with `ContactStores`.
