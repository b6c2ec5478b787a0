---------------------------- MODULE CampaignProofs ----------------------------
(***************************************************************************)
(* Proofs about a campaign.  First its lifecycle, for any number of        *)
(* sessions, any audiences, any operations called and any number of sends; *)
(* then the time of the next call, for a day of any length, any windows    *)
(* and weekdays, and any zones with one change of clocks.                  *)
(***************************************************************************)
EXTENDS CampaignLifecycle, CallingWindow, TLAPS

\* A creation that has not inserted its row yet.
Creating(s) == call[s].op \in Creations /\ call[s].at \in {"provider", "insert"}

\* A creation is alone until its row is there, and then there is no other.
CreationIsAlone(s) ==
  IF Creating(s) THEN row = NoRow /\ \A r \in Sessions : r = s \/ call[r] = Idle
                 ELSE call[s] = Idle \/ row # NoRow

\* A replacement past its first statement holds a live row; the rows it
\* deleted are all there are.
ReplacementHolds(s) ==
  call[s].op = "replaceRecipients" =>
    /\ call[s].audience \in Audiences
    /\ call[s].at \in {"delete", "commit"} => lock = s /\ row.live
    /\ call[s].at = "commit" => call[s].deleted = recipients

\* A transition about to be written leaves the status that was read.
TransitionIsListed(s) ==
  call[s].op \in Actions /\ call[s].at = "write" =>
    call[s].seen \in CampaignStatus /\ call[s].op \in transitions[call[s].seen]

\* What a creation with a provider has set up so far.
SetUpSoFar(s) ==
  call[s].op = "createMarketingCampaign" =>
    /\ call[s].at # "provider" => provider.created
    /\ call[s].at \in {"schedule", "emit"} => row.providerCampaign
    /\ call[s].at = "emit" => (row.scheduleStart => provider.scheduled)

\* A send is recorded after it was asked for.
SendIsAsked(s) ==
  call[s].op = "sendCampaignNow" =>
    /\ call[s].at = "write" => provider.sends > 0
    /\ calm => /\ call[s].at = "send" => provider.sends = 0
               /\ call[s].at = "write" => provider.sends = 1

CallFits(s) ==
  /\ CreationIsAlone(s)
  /\ ReplacementHolds(s)
  /\ TransitionIsListed(s)
  /\ SetUpSoFar(s)
  /\ SendIsAsked(s)

\* Calm behaviors are serial, and there a campaign that was sent shows it, or
\* is deleted, or is about to be recorded.
CalmIsSerial ==
  calm => \A r, s \in Sessions : call[r] # Idle /\ call[s] # Idle => r = s
SendShows ==
  provider.sends > 0 =>
    /\ row # NoRow
    /\ calm => \/ ~row.live \/ AlreadySent(row.status)
                \/ \E s \in Sessions :
                     call[s].op = "sendCampaignNow" /\ call[s].at = "write"

AudienceAsked == recipients \in Audiences \cup {{}}

\* The inductive invariant.
LifecycleInv ==
  /\ TypeOK
  /\ \A s \in Sessions : CallFits(s)
  /\ CalmIsSerial /\ SendShows
  /\ AudienceAsked /\ AnnouncedIsSetUp /\ SentOnce

-------------------------------------------------------------------------------
(* Calls *)

Places == {"read", "provider", "insert", "schedule", "emit", "send", "write", "lock",
           "delete", "commit"}

\* The calls that are not idle.
RunningCall ==
  [op : Operations, at : Places, seen : CampaignStatus \cup {"none"},
   scheduleAt : BOOLEAN, audience : SUBSET Contacts, deleted : SUBSET Contacts]

\* A call is idle or has the fields of one that runs.
LEMMA CallTyped ==
  ASSUME TypeOK, NEW s \in Sessions
  PROVE  /\ call[s] # Idle <=> call[s] \in RunningCall
         /\ call[s] = Idle \/ call[s].op \in Operations
         /\ call[s] = Idle => call[s].op \notin Operations
<1>1. call[s] \in {Idle} \cup RunningCall
  BY DEF TypeOK, CallRow, RunningCall, Places
<1>2. \A c \in RunningCall : c.op \in Operations
  BY DEF RunningCall
<1>3. Idle.op \notin Operations
  BY DEF Idle, Operations, Creations, Actions
<1> QED BY <1>1, <1>2, <1>3

\* A call that moves on changes its place only, and the other calls stay.
LEMMA CallMoves ==
  ASSUME TypeOK, NEW s \in Sessions, call[s] # Idle, NEW at \in Places, GoTo(s, at)
  PROVE  /\ call' \in [Sessions -> CallRow]
         /\ call'[s] # Idle
         /\ call'[s].at = at
         /\ call'[s].op = call[s].op
         /\ call'[s].seen = call[s].seen
         /\ call'[s].scheduleAt = call[s].scheduleAt
         /\ call'[s].audience = call[s].audience
         /\ call'[s].deleted = call[s].deleted
         /\ \A r \in Sessions : r # s => call'[r] = call[r]
<1> DEFINE c == [call[s] EXCEPT !.at = at]
<1>1. call[s] \in RunningCall /\ call \in [Sessions -> CallRow]
  BY CallTyped DEF TypeOK
<1>2. /\ c \in RunningCall /\ c.at = at /\ c.op = call[s].op /\ c.seen = call[s].seen
      /\ c.scheduleAt = call[s].scheduleAt /\ c.audience = call[s].audience
      /\ c.deleted = call[s].deleted
  BY <1>1 DEF RunningCall
<1>3. call' = [call EXCEPT ![s] = c]
  BY DEF GoTo
<1>4. c \in CallRow /\ c # Idle
  BY <1>2 DEF CallRow, RunningCall, Places, Idle, Operations, Creations, Actions
<1> HIDE DEF c
<1> QED BY <1>1, <1>2, <1>3, <1>4

LEMMA CallEnds ==
  ASSUME TypeOK, NEW s \in Sessions, Finish(s)
  PROVE  /\ call' \in [Sessions -> CallRow]
         /\ call'[s] = Idle
         /\ \A r \in Sessions : r # s => call'[r] = call[r]
BY DEF TypeOK, Finish, CallRow

\* A session that is idle asks nothing of the rest.
LEMMA IdleFits ==
  ASSUME NEW s \in Sessions, call[s] = Idle
  PROVE  CallFits(s)
BY DEF Idle, CallFits, CreationIsAlone, Creating, ReplacementHolds, TransitionIsListed,
       SetUpSoFar, SendIsAsked, Creations, Actions

LEMMA RowTyped ==
  ASSUME TypeOK
  PROVE  row # NoRow <=> row \in CampaignRow
BY DEF TypeOK, CampaignRow, NoRow, CampaignStatus

-------------------------------------------------------------------------------
(* What the step of one session leaves to the others *)

\* Session s moves; what others rely on stays: the row and what it was created
\* with, what the provider was asked for, and all that another session locked.
StepKeeps(s) ==
  /\ UNCHANGED calm
  /\ \A r \in Sessions : r # s => call'[r] = call[r]
  /\ row # NoRow =>
       /\ row' # NoRow
       /\ row'.providerCampaign = row.providerCampaign
       /\ row'.scheduleStart = row.scheduleStart
       /\ provider.created => provider'.created
       /\ provider.scheduled => provider'.scheduled
       /\ provider.sends > 0 => provider'.sends > 0
  /\ lock \notin {s, NoSession} =>
       /\ UNCHANGED <<lock, recipients>>
       /\ row # NoRow => row'.live = row.live

\* While one session creates the campaign, and in calm behaviors while one
\* runs, no other moves.
OthersWait(s) ==
  \A r \in Sessions : r # s => ~Creating(r) /\ (calm => call[r] = Idle)

LEMMA OthersFit ==
  ASSUME LifecycleInv, NEW s \in Sessions, StepKeeps(s), OthersWait(s),
         NEW r \in Sessions, r # s
  PROVE  CallFits(r)'
<1>1. CallFits(r) /\ call'[r] = call[r] /\ ~Creating(r)
  BY DEF LifecycleInv, StepKeeps, OthersWait
<1>2. CASE call[r] = Idle
  BY <1>1, <1>2, IdleFits DEF Idle, CallFits, CreationIsAlone, Creating, ReplacementHolds,
     TransitionIsListed, SetUpSoFar, SendIsAsked, Creations, Actions
<1>3. CASE call[r] # Idle
  <2>1. row # NoRow /\ row' # NoRow /\ ~calm /\ ~calm'
    BY <1>1, <1>3 DEF CallFits, CreationIsAlone, StepKeeps, OthersWait
  <2>2. CreationIsAlone(r)'
    BY <1>1, <2>1 DEF CreationIsAlone, Creating
  <2>3. ReplacementHolds(r)'
    <3>1. r # NoSession
      BY CampaignAssumption
    <3>2. CASE lock = r
      BY <1>1, <2>1, <3>1, <3>2 DEF CallFits, ReplacementHolds, StepKeeps
    <3>3. CASE lock # r
      BY <1>1, <3>3 DEF CallFits, ReplacementHolds
    <3> QED BY <3>2, <3>3
  <2>4. TransitionIsListed(r)'
    BY <1>1 DEF CallFits, TransitionIsListed
  <2>5. SetUpSoFar(r)'
    BY <1>1, <2>1 DEF CallFits, SetUpSoFar, StepKeeps, OthersWait
  <2>6. SendIsAsked(r)'
    BY <1>1, <2>1 DEF CallFits, SendIsAsked, StepKeeps
  <2> QED BY <2>2, <2>3, <2>4, <2>5, <2>6 DEF CallFits
<1> QED BY <1>2, <1>3

\* What the step of s has to show by itself.
StepFits(s) ==
  /\ TypeOK'
  /\ CallFits(s)'
  /\ SendShows' /\ AudienceAsked' /\ AnnouncedIsSetUp' /\ SentOnce'

LEMMA StepsKeepInv ==
  ASSUME LifecycleInv, NEW s \in Sessions, StepKeeps(s), OthersWait(s), StepFits(s)
  PROVE  LifecycleInv'
<1>1. \A r \in Sessions : CallFits(r)'
  BY OthersFit DEF StepFits
<1>2. CalmIsSerial'
  BY DEF StepKeeps, OthersWait, CalmIsSerial
<1> QED BY <1>1, <1>2 DEF LifecycleInv, StepFits

\* A session that runs a call, or starts one, moves only when others wait.
LEMMA RunningAlone ==
  ASSUME LifecycleInv, NEW s \in Sessions, call[s] # Idle
  PROVE  OthersWait(s)
BY DEF LifecycleInv, OthersWait, CallFits, CreationIsAlone, CalmIsSerial

-------------------------------------------------------------------------------
(* The inductive step: one lemma for each action *)

\* An operation starts; its first place asks nothing of the rest but the row,
\* or that it creates it.
LEMMA StartKeepsInv ==
  ASSUME LifecycleInv, UNCHANGED calm, NEW s \in Sessions,
         NEW op \in Operations,
         NEW at \in {"read", "provider", "insert", "write", "lock"},
         NEW scheduleAt \in BOOLEAN,
         NEW audience \in {{}} \cup Audiences, Start(s, op, at, scheduleAt, audience),
         IF op \in Creations
         THEN MayCreate /\ at \in {"provider", "insert"} /\ (at = "insert" => op = "create")
         ELSE row # NoRow /\ at \notin {"provider", "insert"},
         op \in Actions \cup {"sendCampaignNow"} => at # "write",
         op = "replaceRecipients" => audience \in Audiences
  PROVE  LifecycleInv'
<1> DEFINE c == [op |-> op, at |-> at, seen |-> "none", scheduleAt |-> scheduleAt,
                 audience |-> audience, deleted |-> {}]
<1>1. /\ call[s] = Idle /\ (calm => \A r \in Sessions : call[r] = Idle)
      /\ call' = [call EXCEPT ![s] = c]
      /\ UNCHANGED <<row, recipients, lock, provider, announced>>
  BY DEF Start
<1>2. TypeOK
  BY DEF LifecycleInv
<1>3. c \in RunningCall
  BY DEF RunningCall, Places, Contacts
<1>4. c \in CallRow /\ c # Idle
  BY <1>3 DEF RunningCall, CallRow, Places, Idle, Operations, Creations, Actions
<1>5. call'[s] = c /\ \A r \in Sessions : r # s => call'[r] = call[r]
  BY <1>1, <1>2 DEF TypeOK
<1>6. StepKeeps(s)
  BY <1>1, <1>5 DEF StepKeeps
<1>7. OthersWait(s)
  <2> SUFFICES ASSUME NEW r \in Sessions, r # s PROVE ~Creating(r)
    BY <1>1 DEF OthersWait
  <2>1. Creating(r) => row = NoRow /\ call[r] # Idle /\ call[r].op \in Creations
    BY <1>2, CallTyped DEF LifecycleInv, CallFits, CreationIsAlone, Creating, Operations
  <2> QED BY <2>1 DEF MayCreate
<1>8. TypeOK'
  BY <1>1, <1>2, <1>4 DEF TypeOK
<1>9. CallFits(s)'
  <2> HIDE DEF c
  <2>1. /\ call'[s].op = op /\ call'[s].at = at /\ call'[s].seen = "none"
        /\ call'[s].audience = audience /\ call'[s].scheduleAt = scheduleAt
    BY <1>5 DEF c
  <2>2. CreationIsAlone(s)'
    <3>1. CASE op \in Creations
      <4>1. row' = NoRow /\ Creating(s)'
        BY <1>1, <2>1, <3>1 DEF MayCreate, Creating
      <4>2. ASSUME NEW r \in Sessions, r # s PROVE call'[r] = Idle
        <5>1. call[r] = Idle \/ call[r].op \notin Creations
          BY <3>1 DEF MayCreate
        <5>2. CreationIsAlone(r)
          BY DEF LifecycleInv, CallFits
        <5> QED BY <1>1, <1>5, <3>1, <4>1, <4>2, <5>1, <5>2 DEF CreationIsAlone, Creating
      <4> QED BY <4>1, <4>2 DEF CreationIsAlone, Idle
    <3>2. CASE op \notin Creations
      BY <1>1, <2>1, <3>2 DEF CreationIsAlone, Creating
    <3> QED BY <3>1, <3>2
  <2>3. ReplacementHolds(s)'
    BY <2>1 DEF ReplacementHolds
  <2>4. TransitionIsListed(s)'
    BY <2>1 DEF TransitionIsListed
  <2>5. SetUpSoFar(s)'
    BY <2>1 DEF SetUpSoFar, Creations
  <2>6. SendIsAsked(s)'
    BY <2>1 DEF SendIsAsked
  <2> QED BY <2>2, <2>3, <2>4, <2>5, <2>6 DEF CallFits
<1>10. SendShows'
  BY <1>1, <1>5 DEF LifecycleInv, SendShows, AlreadySent, Idle
<1>11. AudienceAsked' /\ AnnouncedIsSetUp' /\ SentOnce'
  BY <1>1 DEF LifecycleInv, AudienceAsked, AnnouncedIsSetUp, SentOnce
<1> QED BY <1>6, <1>7, <1>8, <1>9, <1>10, <1>11, StepsKeepInv DEF StepFits

LEMMA BeginKeepsInv ==
  ASSUME LifecycleInv, UNCHANGED calm, NEW s \in Sessions, Begin(s)
  PROVE  LifecycleInv'
<1>1. CASE StartCreate(s)
  BY <1>1, StartKeepsInv DEF StartCreate, Operations, Creations, Actions
<1>2. CASE StartCreateMarketing(s)
  BY <1>2, StartKeepsInv DEF StartCreateMarketing, Operations, Creations, Actions
<1>3. CASE StartSend(s)
  BY <1>3, StartKeepsInv DEF StartSend, Operations, Creations, Actions
<1>4. CASE StartTransition(s)
  BY <1>4, StartKeepsInv DEF StartTransition, Operations, Creations, Actions
<1>5. CASE StartSoftDelete(s)
  BY <1>5, StartKeepsInv DEF StartSoftDelete, Operations, Creations, Actions
<1>6. CASE StartReplace(s)
  BY <1>6, StartKeepsInv DEF StartReplace, Operations, Creations, Actions
<1> QED BY <1>1, <1>2, <1>3, <1>4, <1>5, <1>6 DEF Begin

\* A call that ends, or is abandoned, gives up its own lock at most.  What the
\* rest needs of the step is what it wrote.
LEMMA EndKeepsInv ==
  ASSUME LifecycleInv, NEW s \in Sessions, call[s] # Idle, Finish(s), UNCHANGED calm,
         TypeOK' \/ UNCHANGED <<row, recipients, lock, provider, announced>>,
         row # NoRow =>
           /\ row' # NoRow
           /\ row'.providerCampaign = row.providerCampaign
           /\ row'.scheduleStart = row.scheduleStart
           /\ UNCHANGED provider,
         lock \notin {s, NoSession} =>
           /\ UNCHANGED <<lock, recipients>>
           /\ row # NoRow => row'.live = row.live,
         SendShows' /\ AudienceAsked' /\ AnnouncedIsSetUp' /\ SentOnce'
  PROVE  LifecycleInv'
<1>1. TypeOK
  BY DEF LifecycleInv
<1>2. TypeOK'
  BY <1>1, CallEnds DEF TypeOK
<1>3. CallFits(s)'
  BY <1>1, CallEnds, IdleFits
     DEF Idle, CallFits, CreationIsAlone, Creating, ReplacementHolds, TransitionIsListed,
         SetUpSoFar, SendIsAsked, Creations, Actions
<1>4. StepKeeps(s)
  BY <1>1, CallEnds DEF StepKeeps
<1> QED BY <1>2, <1>3, <1>4, RunningAlone, StepsKeepInv DEF StepFits

\* A call that ends and writes nothing.
LEMMA StopKeepsInv ==
  ASSUME LifecycleInv, NEW s \in Sessions, call[s] # Idle, Finish(s), UNCHANGED calm,
         UNCHANGED <<row, recipients, provider, announced>>,
         lock' = lock \/ (lock' = NoSession /\ lock = s),
         calm => ~(call[s].op = "sendCampaignNow" /\ call[s].at = "write")
  PROVE  LifecycleInv'
<1>1. TypeOK
  BY DEF LifecycleInv
<1>2. TypeOK'
  BY <1>1, CallEnds DEF TypeOK
<1>3. SendShows'
  BY <1>1, CallEnds DEF LifecycleInv, SendShows, AlreadySent
<1>4. AudienceAsked' /\ AnnouncedIsSetUp' /\ SentOnce'
  BY DEF LifecycleInv, AudienceAsked, AnnouncedIsSetUp, SentOnce
<1> QED BY <1>2, <1>3, <1>4, EndKeepsInv

LEMMA AbandonKeepsInv ==
  ASSUME LifecycleInv, UNCHANGED calm, NEW s \in Sessions, Abandon(s)
  PROVE  LifecycleInv'
BY StopKeepsInv DEF Abandon

\* Nothing was sent or announced while there is no row.
LEMMA NothingBeforeRow ==
  ASSUME LifecycleInv, NEW s \in Sessions, Creating(s)
  PROVE  /\ row = NoRow /\ ~announced
         /\ \A r \in Sessions : r = s \/ call[r] = Idle
         /\ provider.sends = 0
BY DEF LifecycleInv, TypeOK, CallFits, CreationIsAlone, AnnouncedIsSetUp, SendShows

LEMMA CreateKeepsInv ==
  ASSUME LifecycleInv, UNCHANGED calm, NEW s \in Sessions, Create(s)
  PROVE  LifecycleInv'
<1>1. call[s] # Idle /\ Creating(s)
  BY DEF Create, At, Creating, Creations
<1>2. /\ row = NoRow /\ ~announced /\ provider.sends = 0
      /\ row' = NewRow("draft", FALSE, FALSE) /\ row'.status = "draft"
      /\ Finish(s) /\ UNCHANGED <<recipients, lock, provider, announced>>
  BY <1>1, NothingBeforeRow DEF Create, NewRow
<1>3. row' \in CampaignRow
  BY <1>2 DEF NewRow, CampaignRow, CampaignStatus
<1>4. TypeOK'
  BY <1>2, <1>3, CallEnds DEF LifecycleInv, TypeOK
<1>5. SendShows' /\ AudienceAsked' /\ AnnouncedIsSetUp' /\ SentOnce'
  BY <1>2 DEF LifecycleInv, SendShows, AudienceAsked, AnnouncedIsSetUp, SentOnce
<1> QED BY <1>1, <1>2, <1>4, <1>5, EndKeepsInv DEF AudienceAsked

LEMMA CreateAtProviderKeepsInv ==
  ASSUME LifecycleInv, UNCHANGED calm, NEW s \in Sessions, CreateAtProvider(s)
  PROVE  LifecycleInv'
<1>1. /\ call[s] # Idle /\ Creating(s)
      /\ call[s].op = "createMarketingCampaign" /\ call[s].at = "provider"
      /\ GoTo(s, "insert") /\ UNCHANGED <<row, recipients, lock, announced>>
      /\ provider' = [created |-> TRUE, scheduled |-> FALSE, sends |-> 0]
  BY DEF CreateAtProvider, At, Creating, Creations, NoProviderCampaign
<1>2. TypeOK
  BY DEF LifecycleInv
<1>3. /\ row = NoRow /\ ~announced
      /\ \A r \in Sessions : r = s \/ call[r] = Idle
  BY <1>1, NothingBeforeRow
<1>4. /\ call' \in [Sessions -> CallRow]
      /\ call'[s].op = "createMarketingCampaign" /\ call'[s].at = "insert"
      /\ \A r \in Sessions : r # s => call'[r] = call[r]
  BY <1>1, <1>2, CallMoves DEF Places
<1>5. TypeOK'
  BY <1>1, <1>2, <1>4, CampaignAssumption DEF TypeOK
<1>6. CallFits(s)'
  BY <1>1, <1>3, <1>4 DEF CallFits, CreationIsAlone, Creating, ReplacementHolds,
     TransitionIsListed, SetUpSoFar, SendIsAsked, Creations, Actions
<1>7. SendShows' /\ AudienceAsked' /\ AnnouncedIsSetUp' /\ SentOnce'
  BY <1>1, <1>3 DEF LifecycleInv, SendShows, AudienceAsked, AnnouncedIsSetUp, SentOnce
<1>8. StepKeeps(s)
  BY <1>1, <1>3, <1>4 DEF StepKeeps
<1> QED BY <1>1, <1>5, <1>6, <1>7, <1>8, RunningAlone, StepsKeepInv DEF StepFits

LEMMA InsertMarketingKeepsInv ==
  ASSUME LifecycleInv, UNCHANGED calm, NEW s \in Sessions, InsertMarketing(s)
  PROVE  LifecycleInv'
<1> DEFINE at == AfterInsert(call[s].scheduleAt)
           new == NewRow(IF call[s].scheduleAt THEN "scheduled" ELSE "draft",
                         TRUE, call[s].scheduleAt)
<1>1. /\ call[s] # Idle /\ Creating(s)
      /\ call[s].op = "createMarketingCampaign" /\ call[s].at = "insert"
      /\ GoTo(s, at) /\ row' = new
      /\ UNCHANGED <<recipients, lock, provider, announced>>
  BY DEF InsertMarketing, At, Creating, Creations
<1>2. TypeOK
  BY DEF LifecycleInv
<1>3. /\ row = NoRow /\ ~announced /\ provider.sends = 0
  BY <1>1, NothingBeforeRow
<1>4. call[s].scheduleAt \in BOOLEAN
  BY <1>1, <1>2, CallTyped DEF RunningCall
<1>5. /\ at \in {"schedule", "emit"}
      /\ at = "emit" => ~new.scheduleStart
      /\ new \in CampaignRow /\ new.providerCampaign /\ new.status # "sent"
  BY <1>4 DEF AfterInsert, NewRow, CampaignRow, CampaignStatus
<1> HIDE DEF at, new
<1>6. /\ call' \in [Sessions -> CallRow]
      /\ call'[s].op = "createMarketingCampaign" /\ call'[s].at = at
      /\ \A r \in Sessions : r # s => call'[r] = call[r]
  BY <1>1, <1>2, <1>5, CallMoves DEF Places
<1>7. row' # NoRow
  BY <1>1, <1>5 DEF NoRow, CampaignRow
<1>8. TypeOK'
  BY <1>1, <1>2, <1>5, <1>6 DEF TypeOK
<1>9. provider.created
  BY <1>1 DEF LifecycleInv, CallFits, SetUpSoFar
<1>10. CallFits(s)'
  <2>1. CreationIsAlone(s)' /\ ReplacementHolds(s)' /\ TransitionIsListed(s)' /\ SendIsAsked(s)'
    BY <1>5, <1>6, <1>7
       DEF CreationIsAlone, Creating, ReplacementHolds, TransitionIsListed, SendIsAsked, Actions
  <2>2. SetUpSoFar(s)'
    BY <1>1, <1>5, <1>6, <1>9 DEF SetUpSoFar
  <2> QED BY <2>1, <2>2 DEF CallFits
<1>11. SendShows' /\ AudienceAsked' /\ AnnouncedIsSetUp' /\ SentOnce'
  BY <1>1, <1>3, <1>5 DEF LifecycleInv, SendShows, AudienceAsked, AnnouncedIsSetUp, SentOnce
<1>12. StepKeeps(s)
  BY <1>1, <1>3, <1>6 DEF StepKeeps
<1> QED BY <1>1, <1>8, <1>10, <1>11, <1>12, RunningAlone, StepsKeepInv DEF StepFits

LEMMA ScheduleAtProviderKeepsInv ==
  ASSUME LifecycleInv, UNCHANGED calm, NEW s \in Sessions, ScheduleAtProvider(s)
  PROVE  LifecycleInv'
<1>1. /\ call[s] # Idle
      /\ call[s].op = "createMarketingCampaign" /\ call[s].at = "schedule"
      /\ GoTo(s, "emit") /\ UNCHANGED <<row, recipients, lock, announced>>
      /\ provider' = [provider EXCEPT !.scheduled = TRUE]
  BY DEF ScheduleAtProvider, At
<1>2. TypeOK
  BY DEF LifecycleInv
<1>3. /\ provider' \in [created : BOOLEAN, scheduled : BOOLEAN, sends : 0..MaxSends]
      /\ provider'.created = provider.created /\ provider'.scheduled
      /\ provider'.sends = provider.sends
  BY <1>1, <1>2 DEF TypeOK
<1>4. /\ call' \in [Sessions -> CallRow]
      /\ call'[s].op = "createMarketingCampaign" /\ call'[s].at = "emit"
      /\ \A r \in Sessions : r # s => call'[r] = call[r]
  BY <1>1, <1>2, CallMoves DEF Places
<1>5. /\ row # NoRow /\ provider.created /\ row.providerCampaign
  BY <1>1 DEF LifecycleInv, CallFits, CreationIsAlone, Creating, SetUpSoFar
<1>6. TypeOK'
  BY <1>1, <1>2, <1>3, <1>4 DEF TypeOK
<1>7. CallFits(s)'
  BY <1>1, <1>3, <1>4, <1>5 DEF CallFits, CreationIsAlone, Creating, ReplacementHolds,
     TransitionIsListed, SetUpSoFar, SendIsAsked, Actions
<1>8. SendShows'
  BY <1>1, <1>3, <1>4 DEF LifecycleInv, SendShows, AlreadySent
<1>9. AudienceAsked' /\ AnnouncedIsSetUp' /\ SentOnce'
  BY <1>1, <1>3 DEF LifecycleInv, AudienceAsked, AnnouncedIsSetUp, SentOnce
<1>10. StepKeeps(s)
  BY <1>1, <1>3, <1>4 DEF StepKeeps
<1> QED BY <1>1, <1>6, <1>7, <1>8, <1>9, <1>10, RunningAlone, StepsKeepInv DEF StepFits

LEMMA EmitKeepsInv ==
  ASSUME LifecycleInv, UNCHANGED calm, NEW s \in Sessions, Emit(s)
  PROVE  LifecycleInv'
<1>1. /\ call[s] # Idle
      /\ call[s].op = "createMarketingCampaign" /\ call[s].at = "emit"
      /\ Finish(s) /\ announced' = TRUE /\ UNCHANGED <<row, recipients, lock, provider>>
  BY DEF Emit, At
<1>2. TypeOK
  BY DEF LifecycleInv
<1>3. /\ call' \in [Sessions -> CallRow]
      /\ \A r \in Sessions : r # s => call'[r] = call[r]
  BY <1>1, <1>2, CallEnds
<1>4. TypeOK'
  BY <1>1, <1>2, <1>3 DEF TypeOK
<1>5. AnnouncedIsSetUp'
  BY <1>1 DEF LifecycleInv, CallFits, CreationIsAlone, Creating, SetUpSoFar, AnnouncedIsSetUp
<1>6. SendShows'
  BY <1>1, <1>3 DEF LifecycleInv, SendShows, AlreadySent
<1>7. AudienceAsked' /\ SentOnce'
  BY <1>1 DEF LifecycleInv, AudienceAsked, SentOnce
<1> QED BY <1>1, <1>4, <1>5, <1>6, <1>7, EndKeepsInv

\* A send goes on from its read only while nothing shows that it was sent.
LEMMA ReadForSendKeepsInv ==
  ASSUME LifecycleInv, UNCHANGED calm, NEW s \in Sessions, ReadForSend(s)
  PROVE  LifecycleInv'
<1>1. /\ call[s] # Idle /\ call[s].op = "sendCampaignNow" /\ call[s].at = "read"
      /\ UNCHANGED <<row, recipients, lock, provider, announced>>
  BY DEF ReadForSend, At
<1>2. TypeOK
  BY DEF LifecycleInv
<1>3. CASE Finish(s)
  BY <1>1, <1>3, StopKeepsInv
<1>4. CASE LiveRow /\ ~AlreadySent(row.status) /\ GoTo(s, "send")
  <2>1. /\ call' \in [Sessions -> CallRow]
        /\ call'[s].op = "sendCampaignNow" /\ call'[s].at = "send"
        /\ \A r \in Sessions : r # s => call'[r] = call[r]
    BY <1>1, <1>2, <1>4, CallMoves DEF Places
  <2>2. calm => provider.sends = 0
    <3> SUFFICES ASSUME calm, provider.sends > 0 PROVE FALSE
      BY <1>2 DEF TypeOK
    <3>1. PICK r \in Sessions : call[r].op = "sendCampaignNow" /\ call[r].at = "write"
      BY <1>4 DEF LifecycleInv, SendShows, LiveRow
    <3>2. r = s
      BY <1>1, <3>1 DEF LifecycleInv, CalmIsSerial, Idle
    <3> QED BY <1>1, <3>1, <3>2
  <2>3. TypeOK'
    BY <1>1, <1>2, <2>1 DEF TypeOK
  <2>4. row # NoRow
    BY <1>4 DEF LiveRow
  <2>5. CallFits(s)'
    BY <1>1, <2>1, <2>2, <2>4 DEF CallFits, CreationIsAlone, Creating, ReplacementHolds,
       TransitionIsListed, SetUpSoFar, SendIsAsked, Creations, Actions
  <2>6. SendShows'
    BY <1>1, <2>1, <2>2, <2>4 DEF LifecycleInv, SendShows, AlreadySent
  <2>7. AudienceAsked' /\ AnnouncedIsSetUp' /\ SentOnce'
    BY <1>1 DEF LifecycleInv, AudienceAsked, AnnouncedIsSetUp, SentOnce
  <2>8. StepKeeps(s)
    BY <1>1, <2>1 DEF StepKeeps
  <2> QED BY <1>1, <2>3, <2>5, <2>6, <2>7, <2>8, RunningAlone, StepsKeepInv DEF StepFits
<1> QED BY <1>3, <1>4 DEF ReadForSend

LEMMA SendAtProviderKeepsInv ==
  ASSUME LifecycleInv, UNCHANGED calm, NEW s \in Sessions, SendAtProvider(s)
  PROVE  LifecycleInv'
<1>1. /\ call[s] # Idle /\ call[s].op = "sendCampaignNow" /\ call[s].at = "send"
      /\ provider.sends < MaxSends
      /\ provider' = [provider EXCEPT !.sends = provider.sends + 1]
      /\ GoTo(s, "write") /\ UNCHANGED <<row, recipients, lock, announced>>
  BY DEF SendAtProvider, At
<1>2. TypeOK
  BY DEF LifecycleInv
<1>3. /\ provider' \in [created : BOOLEAN, scheduled : BOOLEAN, sends : 0..MaxSends]
      /\ provider'.created = provider.created /\ provider'.scheduled = provider.scheduled
      /\ provider.sends \in Nat /\ provider'.sends = provider.sends + 1
  BY <1>1, <1>2, CampaignAssumption DEF TypeOK
<1>4. /\ call' \in [Sessions -> CallRow]
      /\ call'[s].op = "sendCampaignNow" /\ call'[s].at = "write"
      /\ \A r \in Sessions : r # s => call'[r] = call[r]
  BY <1>1, <1>2, CallMoves DEF Places
<1>5. row # NoRow /\ (calm => provider.sends = 0)
  BY <1>1 DEF LifecycleInv, CallFits, CreationIsAlone, Creating, SendIsAsked
<1>6. TypeOK'
  BY <1>1, <1>2, <1>3, <1>4 DEF TypeOK
<1>7. CallFits(s)'
  BY <1>1, <1>3, <1>4, <1>5 DEF CallFits, CreationIsAlone, Creating, ReplacementHolds,
     TransitionIsListed, SetUpSoFar, SendIsAsked, Creations, Actions
<1>8. SendShows'
  BY <1>1, <1>4, <1>5 DEF SendShows
<1>9. AudienceAsked' /\ AnnouncedIsSetUp' /\ SentOnce'
  BY <1>1, <1>3, <1>5 DEF LifecycleInv, AudienceAsked, AnnouncedIsSetUp, SentOnce
<1>10. StepKeeps(s)
  BY <1>1, <1>3, <1>4 DEF StepKeeps
<1> QED BY <1>1, <1>6, <1>7, <1>8, <1>9, <1>10, RunningAlone, StepsKeepInv DEF StepFits

\* The row, with another status, is still the campaign's row.
LEMMA StatusWritten ==
  ASSUME TypeOK, row # NoRow, NEW status \in CampaignStatus,
         row' = [row EXCEPT !.status = status]
  PROVE  /\ row' \in CampaignRow /\ row' # NoRow
         /\ row'.status = status /\ row'.live = row.live
         /\ row'.providerCampaign = row.providerCampaign
         /\ row'.scheduleStart = row.scheduleStart
<1>1. row \in CampaignRow
  BY RowTyped
<1>2. row' \in CampaignRow
  BY <1>1 DEF CampaignRow
<1>3. row' # NoRow
  BY <1>2 DEF CampaignRow, NoRow, CampaignStatus
<1> QED BY <1>1, <1>2, <1>3 DEF CampaignRow

LEMMA WriteSentKeepsInv ==
  ASSUME LifecycleInv, UNCHANGED calm, NEW s \in Sessions, WriteSent(s)
  PROVE  LifecycleInv'
<1>1. /\ call[s] # Idle /\ call[s].op = "sendCampaignNow" /\ call[s].at = "write"
      /\ lock = NoSession /\ Finish(s)
      /\ row' = [row EXCEPT !.status = "sent"]
      /\ UNCHANGED <<recipients, lock, provider, announced>>
  BY DEF WriteSent, At, Unlocked
<1>2. TypeOK
  BY DEF LifecycleInv
<1>3. row # NoRow /\ provider.sends > 0
  BY <1>1 DEF LifecycleInv, CallFits, CreationIsAlone, Creating, SendIsAsked
<1>4. /\ row' \in CampaignRow /\ row' # NoRow /\ row'.status = "sent"
      /\ row'.providerCampaign = row.providerCampaign
      /\ row'.scheduleStart = row.scheduleStart
  BY <1>1, <1>2, <1>3, StatusWritten DEF CampaignStatus
<1>5. TypeOK'
  BY <1>1, <1>2, <1>4, CallEnds DEF TypeOK
<1>6. SendShows' /\ AudienceAsked' /\ AnnouncedIsSetUp' /\ SentOnce'
  BY <1>1, <1>3, <1>4
     DEF LifecycleInv, SendShows, AlreadySent, AudienceAsked, AnnouncedIsSetUp, SentOnce
<1> QED BY <1>1, <1>4, <1>5, <1>6, EndKeepsInv

LEMMA ReadForTransitionKeepsInv ==
  ASSUME LifecycleInv, UNCHANGED calm, NEW s \in Sessions, NEW action \in Actions,
         ReadForTransition(s, action)
  PROVE  LifecycleInv'
<1>1. /\ call[s] # Idle /\ call[s].op = action /\ call[s].at = "read"
      /\ UNCHANGED <<row, recipients, lock, provider, announced>>
  BY DEF ReadForTransition, At
<1>2. TypeOK /\ call[s] \in RunningCall /\ call \in [Sessions -> CallRow]
  BY <1>1, CallTyped DEF LifecycleInv, TypeOK
<1>3. CASE Finish(s)
  BY <1>1, <1>3, StopKeepsInv
<1>4. CASE /\ LiveRow /\ action \in transitions[row.status]
           /\ call' = [call EXCEPT ![s].at = "write", ![s].seen = row.status]
  <2> DEFINE c == [call[s] EXCEPT !.at = "write", !.seen = row.status]
  <2>1. row # NoRow /\ row.status \in CampaignStatus
    BY <1>2, <1>4, RowTyped DEF LiveRow, CampaignRow
  <2>2. /\ c \in RunningCall /\ c.op = action /\ c.at = "write" /\ c.seen = row.status
    BY <1>1, <1>2, <2>1 DEF RunningCall, Places
  <2>3. call' = [call EXCEPT ![s] = c]
    BY <1>2, <1>4
  <2> HIDE DEF c
  <2>4. c \in CallRow /\ c # Idle
    BY <2>2 DEF CallRow, RunningCall, Places, Idle, Operations, Creations, Actions
  <2>5. call'[s] = c /\ \A r \in Sessions : r # s => call'[r] = call[r]
    BY <1>2, <2>3
  <2>6. TypeOK'
    BY <1>1, <1>2, <2>3, <2>4 DEF TypeOK
  <2>7. CallFits(s)'
    BY <1>1, <1>4, <2>1, <2>2, <2>5 DEF CallFits, CreationIsAlone, Creating, ReplacementHolds,
       TransitionIsListed, SetUpSoFar, SendIsAsked, Creations, Actions
  <2>8. SendShows'
    BY <1>1, <2>5 DEF LifecycleInv, SendShows, AlreadySent, Actions
  <2>9. AudienceAsked' /\ AnnouncedIsSetUp' /\ SentOnce'
    BY <1>1 DEF LifecycleInv, AudienceAsked, AnnouncedIsSetUp, SentOnce
  <2>10. StepKeeps(s)
    BY <1>1, <2>5 DEF StepKeeps
  <2> QED BY <1>1, <2>6, <2>7, <2>8, <2>9, <2>10, RunningAlone, StepsKeepInv DEF StepFits
<1> QED BY <1>3, <1>4 DEF ReadForTransition

\* The table leads nowhere to "sent", and from a sent campaign to "completed".
LEMMA TableLeads ==
  ASSUME NEW status \in CampaignStatus, NEW action \in transitions[status]
  PROVE  /\ action \in Actions
         /\ actionStatuses[action] \in CampaignStatus \ {"sent"}
         /\ AlreadySent(status) => AlreadySent(actionStatuses[action])
<1>1. action \in Actions
  BY DEF CampaignStatus, transitions, Actions
<1>2. actionStatuses[action] \in CampaignStatus \ {"sent"}
  BY <1>1 DEF Actions, actionStatuses, CampaignStatus
<1>3. ASSUME AlreadySent(status) PROVE actionStatuses[action] = "completed"
  <2>1. action = "complete"
    BY <1>3 DEF AlreadySent, transitions
  <2> QED BY <2>1 DEF actionStatuses
<1> QED BY <1>1, <1>2, <1>3 DEF AlreadySent

\* Where a sent campaign of a calm behavior is not being recorded, it shows it.
LEMMA SentShows ==
  ASSUME LifecycleInv, NEW s \in Sessions, call[s] # Idle, call[s].op # "sendCampaignNow",
         calm, provider.sends > 0
  PROVE  ~row.live \/ AlreadySent(row.status)
BY DEF LifecycleInv, SendShows, CalmIsSerial, Idle

LEMMA TransitionKeepsInv ==
  ASSUME LifecycleInv, UNCHANGED calm, NEW s \in Sessions, NEW action \in Actions,
         Transition(s, action)
  PROVE  LifecycleInv'
<1>1. /\ call[s] # Idle /\ call[s].op = action /\ call[s].at = "write"
      /\ lock = NoSession /\ Finish(s)
      /\ UNCHANGED <<recipients, lock, provider, announced>>
  BY DEF Transition, At, Unlocked
<1>2. TypeOK
  BY DEF LifecycleInv
<1>3. CASE UNCHANGED row
  BY <1>1, <1>3, StopKeepsInv DEF Actions
<1>4. CASE StillAsRead(call[s].seen) /\ row' = [row EXCEPT !.status = actionStatuses[action]]
  <2>1. /\ row.status \in CampaignStatus /\ action \in transitions[row.status]
        /\ row # NoRow /\ row.live
    BY <1>1, <1>4 DEF LifecycleInv, CallFits, TransitionIsListed, CreationIsAlone, Creating,
       StillAsRead, Creations, Actions
  <2>2. /\ actionStatuses[action] \in CampaignStatus \ {"sent"}
        /\ AlreadySent(row.status) => AlreadySent(actionStatuses[action])
    BY <2>1, TableLeads
  <2>3. /\ row' \in CampaignRow /\ row' # NoRow
        /\ row'.status = actionStatuses[action]
        /\ row'.providerCampaign = row.providerCampaign
        /\ row'.scheduleStart = row.scheduleStart
    BY <1>2, <1>4, <2>1, <2>2, StatusWritten
  <2>4. TypeOK'
    BY <1>1, <1>2, <2>3, CallEnds DEF TypeOK
  <2>5. calm /\ provider.sends > 0 => AlreadySent(row.status)
    BY <1>1, <2>1, SentShows DEF Actions
  <2>6. SendShows'
    BY <1>1, <2>2, <2>3, <2>5 DEF SendShows, AlreadySent
  <2>7. AudienceAsked' /\ AnnouncedIsSetUp' /\ SentOnce'
    BY <1>1, <2>1, <2>2, <2>3 DEF LifecycleInv, AudienceAsked, AnnouncedIsSetUp, SentOnce
  <2> QED BY <1>1, <2>3, <2>4, <2>6, <2>7, EndKeepsInv
<1> QED BY <1>3, <1>4 DEF Transition

LEMMA SoftDeleteKeepsInv ==
  ASSUME LifecycleInv, UNCHANGED calm, NEW s \in Sessions, SoftDelete(s)
  PROVE  LifecycleInv'
<1>1. /\ call[s] # Idle /\ call[s].op = "softDelete" /\ call[s].at = "write"
      /\ lock = NoSession /\ Finish(s)
      /\ UNCHANGED <<recipients, lock, provider, announced>>
  BY DEF SoftDelete, At, Unlocked
<1>2. TypeOK
  BY DEF LifecycleInv
<1>3. CASE UNCHANGED row
  BY <1>1, <1>3, StopKeepsInv
<1>4. CASE row' = [row EXCEPT !.live = FALSE, !.status = "cancelled"]
  <2>1. row # NoRow /\ row \in CampaignRow
    BY <1>1, <1>2, RowTyped
       DEF LifecycleInv, CallFits, CreationIsAlone, Creating, Creations
  <2>2. /\ row' \in CampaignRow /\ row'.status = "cancelled" /\ ~row'.live
        /\ row'.providerCampaign = row.providerCampaign
        /\ row'.scheduleStart = row.scheduleStart
    BY <1>4, <2>1 DEF CampaignRow, CampaignStatus
  <2>3. row' # NoRow
    BY <2>2 DEF NoRow
  <2>4. TypeOK'
    BY <1>1, <1>2, <2>2, CallEnds DEF TypeOK
  <2>5. SendShows' /\ AudienceAsked' /\ AnnouncedIsSetUp' /\ SentOnce'
    BY <1>1, <2>1, <2>2, <2>3
       DEF LifecycleInv, SendShows, AudienceAsked, AnnouncedIsSetUp, SentOnce
  <2> QED BY <1>1, <2>2, <2>3, <2>4, <2>5, EndKeepsInv
<1> QED BY <1>3, <1>4 DEF SoftDelete

LEMMA LockLiveCampaignKeepsInv ==
  ASSUME LifecycleInv, UNCHANGED calm, NEW s \in Sessions, LockLiveCampaign(s)
  PROVE  LifecycleInv'
<1>1. /\ call[s] # Idle /\ call[s].op = "replaceRecipients" /\ call[s].at = "lock"
      /\ lock = NoSession /\ UNCHANGED <<row, recipients, provider, announced>>
  BY DEF LockLiveCampaign, At, Unlocked
<1>2. TypeOK
  BY DEF LifecycleInv
<1>3. CASE lock' = lock /\ Finish(s)
  BY <1>1, <1>3, StopKeepsInv
<1>4. CASE row.live /\ lock' = s /\ GoTo(s, "delete")
  <2>1. /\ call' \in [Sessions -> CallRow]
        /\ call'[s].op = "replaceRecipients" /\ call'[s].at = "delete"
        /\ call'[s].audience = call[s].audience
        /\ \A r \in Sessions : r # s => call'[r] = call[r]
    BY <1>1, <1>2, <1>4, CallMoves DEF Places
  <2>2. row # NoRow /\ call[s].audience \in Audiences
    BY <1>1 DEF LifecycleInv, CallFits, CreationIsAlone, Creating, ReplacementHolds
  <2>3. TypeOK'
    BY <1>1, <1>2, <1>4, <2>1 DEF TypeOK
  <2>4. CallFits(s)'
    BY <1>1, <1>4, <2>1, <2>2 DEF CallFits, CreationIsAlone, Creating, ReplacementHolds,
       TransitionIsListed, SetUpSoFar, SendIsAsked, Creations, Actions
  <2>5. SendShows'
    BY <1>1, <2>1 DEF LifecycleInv, SendShows, AlreadySent
  <2>6. AudienceAsked' /\ AnnouncedIsSetUp' /\ SentOnce'
    BY <1>1 DEF LifecycleInv, AudienceAsked, AnnouncedIsSetUp, SentOnce
  <2>7. StepKeeps(s)
    BY <1>1, <2>1 DEF StepKeeps
  <2> QED BY <1>1, <2>3, <2>4, <2>5, <2>6, <2>7, RunningAlone, StepsKeepInv DEF StepFits
<1> QED BY <1>1, <1>3, <1>4 DEF LockLiveCampaign

LEMMA DeleteRecipientsKeepsInv ==
  ASSUME LifecycleInv, UNCHANGED calm, NEW s \in Sessions, DeleteRecipients(s)
  PROVE  LifecycleInv'
<1> DEFINE c == [call[s] EXCEPT !.at = "commit", !.deleted = recipients]
<1>1. /\ call[s] # Idle /\ call[s].op = "replaceRecipients" /\ call[s].at = "delete"
      /\ UNCHANGED <<row, recipients, lock, provider, announced>>
  BY DEF DeleteRecipients, At
<1>2. TypeOK /\ call[s] \in RunningCall /\ call \in [Sessions -> CallRow]
  BY <1>1, CallTyped DEF LifecycleInv, TypeOK
<1>3. call' = [call EXCEPT ![s] = c]
  BY <1>2 DEF DeleteRecipients
<1>4. /\ c \in RunningCall /\ c.op = "replaceRecipients" /\ c.at = "commit"
      /\ c.audience = call[s].audience /\ c.deleted = recipients
  BY <1>1, <1>2 DEF RunningCall, Places, TypeOK
<1> HIDE DEF c
<1>5. c \in CallRow /\ c # Idle
  BY <1>4 DEF CallRow, RunningCall, Places, Idle
<1>6. call'[s] = c /\ \A r \in Sessions : r # s => call'[r] = call[r]
  BY <1>2, <1>3
<1>7. /\ row # NoRow /\ call[s].audience \in Audiences
      /\ lock = s /\ row.live
  BY <1>1 DEF LifecycleInv, CallFits, CreationIsAlone, Creating, Creations, ReplacementHolds
<1>8. TypeOK'
  BY <1>1, <1>2, <1>3, <1>5 DEF TypeOK
<1>9. CallFits(s)'
  BY <1>1, <1>4, <1>6, <1>7 DEF CallFits, CreationIsAlone, Creating, ReplacementHolds,
     TransitionIsListed, SetUpSoFar, SendIsAsked, Creations, Actions
<1>10. SendShows'
  BY <1>1, <1>6 DEF LifecycleInv, SendShows, AlreadySent
<1>11. AudienceAsked' /\ AnnouncedIsSetUp' /\ SentOnce'
  BY <1>1 DEF LifecycleInv, AudienceAsked, AnnouncedIsSetUp, SentOnce
<1>12. StepKeeps(s)
  BY <1>1, <1>6 DEF StepKeeps
<1> QED BY <1>1, <1>8, <1>9, <1>10, <1>11, <1>12, RunningAlone, StepsKeepInv DEF StepFits

\* What a commit leaves: the audience asked for, nothing of the one before.
LEMMA CommitReplaces ==
  ASSUME LifecycleInv, NEW s \in Sessions, InsertAndCommit(s)
  PROVE  /\ call[s] # Idle /\ call[s].op = "replaceRecipients" /\ call[s].at = "commit"
         /\ lock = s /\ row # NoRow /\ row.live
         /\ recipients' = call[s].audience /\ recipients' \in Audiences
<1>1. call[s] # Idle /\ call[s].op = "replaceRecipients" /\ call[s].at = "commit"
  BY DEF InsertAndCommit, At
<1>2. /\ row # NoRow /\ lock = s /\ row.live
      /\ call[s].audience \in Audiences /\ call[s].deleted = recipients
  BY <1>1 DEF LifecycleInv, CallFits, CreationIsAlone, Creating, Creations, ReplacementHolds
<1>3. recipients' = call[s].audience
  BY <1>2 DEF InsertAndCommit
<1> QED BY <1>1, <1>2, <1>3

LEMMA InsertAndCommitKeepsInv ==
  ASSUME LifecycleInv, UNCHANGED calm, NEW s \in Sessions, InsertAndCommit(s)
  PROVE  LifecycleInv'
<1>1. /\ call[s] # Idle /\ call[s].op = "replaceRecipients"
      /\ lock = s /\ recipients' \in Audiences
      /\ lock' = NoSession /\ Finish(s) /\ UNCHANGED <<row, provider, announced>>
  BY CommitReplaces DEF InsertAndCommit
<1>2. TypeOK
  BY DEF LifecycleInv
<1>3. TypeOK'
  BY <1>1, <1>2, CallEnds DEF TypeOK, Contacts
<1>4. SendShows'
  BY <1>1, <1>2, CallEnds DEF LifecycleInv, SendShows, AlreadySent
<1>5. AudienceAsked' /\ AnnouncedIsSetUp' /\ SentOnce'
  BY <1>1 DEF LifecycleInv, AudienceAsked, AnnouncedIsSetUp, SentOnce
<1> QED BY <1>1, <1>3, <1>4, <1>5, EndKeepsInv

-------------------------------------------------------------------------------
(* The invariant, and what follows from it *)

LEMMA LifecycleInvHolds == Spec => []LifecycleInv
<1>1. Init => LifecycleInv
  <2> SUFFICES ASSUME Init PROVE LifecycleInv
    OBVIOUS
  <2>1. TypeOK
    <3>1. 0 \in 0..MaxSends
      BY CampaignAssumption
    <3>2. provider \in [created : BOOLEAN, scheduled : BOOLEAN, sends : 0..MaxSends]
      BY <3>1 DEF Init, NoProviderCampaign
    <3> QED BY <3>2 DEF Init, TypeOK, CallRow
  <2>2. \A s \in Sessions : CallFits(s)
    BY IdleFits DEF Init
  <2> QED BY <2>1, <2>2
          DEF Init, LifecycleInv, CalmIsSerial, SendShows, AudienceAsked, AnnouncedIsSetUp,
              SentOnce, NoProviderCampaign
<1>2. LifecycleInv /\ [Next]_vars => LifecycleInv'
  <2> SUFFICES ASSUME LifecycleInv, [Next]_vars PROVE LifecycleInv'
    OBVIOUS
  <2>1. CASE UNCHANGED vars
    <3>1. TypeOK'
      BY <2>1 DEF vars, LifecycleInv, TypeOK
    <3>2. \A s \in Sessions : CallFits(s)'
      BY <2>1 DEF vars, LifecycleInv, CallFits, CreationIsAlone, Creating, ReplacementHolds,
                 TransitionIsListed, SetUpSoFar, SendIsAsked
    <3>3. CalmIsSerial' /\ SendShows'
      BY <2>1 DEF vars, LifecycleInv, CalmIsSerial, SendShows, AlreadySent
    <3>4. AudienceAsked' /\ AnnouncedIsSetUp' /\ SentOnce'
      BY <2>1 DEF vars, LifecycleInv, AudienceAsked, AnnouncedIsSetUp, SentOnce
    <3> QED BY <3>1, <3>2, <3>3, <3>4 DEF LifecycleInv
  <2>2. ASSUME NEW s \in Sessions, UNCHANGED calm, Continue(s) PROVE LifecycleInv'
    <3>1. CASE Create(s) \/ CreateAtProvider(s) \/ InsertMarketing(s)
               \/ ScheduleAtProvider(s) \/ Emit(s)
      BY <2>2, <3>1, CreateKeepsInv, CreateAtProviderKeepsInv, InsertMarketingKeepsInv,
         ScheduleAtProviderKeepsInv, EmitKeepsInv
    <3>2. CASE ReadForSend(s) \/ SendAtProvider(s) \/ WriteSent(s)
      BY <2>2, <3>2, ReadForSendKeepsInv, SendAtProviderKeepsInv, WriteSentKeepsInv
    <3>3. CASE \E action \in Actions : ReadForTransition(s, action) \/ Transition(s, action)
      BY <2>2, <3>3, ReadForTransitionKeepsInv, TransitionKeepsInv
    <3>4. CASE SoftDelete(s) \/ LockLiveCampaign(s) \/ DeleteRecipients(s) \/ InsertAndCommit(s)
      BY <2>2, <3>4, SoftDeleteKeepsInv, LockLiveCampaignKeepsInv, DeleteRecipientsKeepsInv,
         InsertAndCommitKeepsInv
    <3> QED BY <2>2, <3>1, <3>2, <3>3, <3>4 DEF Continue
  <2> QED BY <2>1, <2>2, BeginKeepsInv, AbandonKeepsInv DEF Next
<1> QED BY <1>1, <1>2, PTL DEF Spec

\* Concurrent replacements never merge, for any number of them: the audience is
\* one that some request asked for, or nothing (campaign-store.ts:210-215).
THEOREM AudiencesNeverMerge == Spec => []AudienceIsOneRequest
<1>1. LifecycleInv => AudienceIsOneRequest
  BY DEF LifecycleInv, AudienceAsked, AudienceIsOneRequest
<1> QED BY <1>1, LifecycleInvHolds, PTL

\* What is recorded as sent was asked for, whatever fails; and where operations
\* are called one after the other and none fails, it is asked for once
\* (campaign-service.ts:19).
THEOREM SendsAreRecordedOnce == Spec => []SentOnce
<1>1. LifecycleInv => SentOnce
  BY DEF LifecycleInv
<1> QED BY <1>1, LifecycleInvHolds, PTL

\* The event that announces a campaign follows its row, its provider's campaign
\* and its schedule, whichever of the calls fail (campaign-service.ts).
THEOREM AnnouncementsAreLast == Spec => []AnnouncedIsSetUp
<1>1. LifecycleInv => AnnouncedIsSetUp
  BY DEF LifecycleInv
<1> QED BY <1>1, LifecycleInvHolds, PTL

\* The audience of a deleted campaign stays as it is: who replaces it holds the
\* row locked, and a deletion waits for the lock
\* (replace_campaign_recipients, campaign-store.ts).
THEOREM DeletedAudienceStays == Spec => DeletedAudienceIsKept
<1>1. LifecycleInv /\ [Next]_vars =>
        [(row # NoRow /\ ~row.live) => recipients' = recipients]_vars
  <2> SUFFICES ASSUME LifecycleInv, Next, row # NoRow, ~row.live
               PROVE  recipients' = recipients
    OBVIOUS
  <2>1. ASSUME NEW s \in Sessions, InsertAndCommit(s) PROVE FALSE
    BY <2>1, CommitReplaces
  <2> QED BY <2>1
          DEF Next, Begin, StartCreate, StartCreateMarketing, StartSend, StartTransition,
              StartSoftDelete, StartReplace, Start, Abandon, Continue, Create,
              CreateAtProvider, InsertMarketing, ScheduleAtProvider, Emit, ReadForSend,
              SendAtProvider, WriteSent, ReadForTransition, Transition, SoftDelete,
              LockLiveCampaign, DeleteRecipients
<1> QED BY <1>1, LifecycleInvHolds, PTL DEF Spec, DeletedAudienceIsKept

\* Whatever two sessions read and write, a live campaign moves along the
\* lifecycle table, apart from the send that marks it sent
\* (campaign-store.ts:48-70, 180-189).
THEOREM StatusStaysOnTable == Spec => StatusFollowsTable
<1> DEFINE Follows ==
      (row # NoRow /\ row'.live /\ row'.status \notin {row.status, "sent"}) =>
        \E action \in transitions[row.status] : actionStatuses[action] = row'.status
<1>1. LifecycleInv /\ [Next]_vars => [Follows]_vars
  <2> SUFFICES ASSUME LifecycleInv, Next, row # NoRow, row'.live,
                      row'.status \notin {row.status, "sent"}
               PROVE  \E action \in transitions[row.status] :
                        actionStatuses[action] = row'.status
    OBVIOUS
  <2>1. row' # row /\ row \in CampaignRow /\ TypeOK
    BY RowTyped DEF LifecycleInv
  <2>2. ASSUME NEW s \in Sessions, Create(s) \/ InsertMarketing(s) PROVE FALSE
    <3>1. Creating(s)
      BY <2>2 DEF Create, InsertMarketing, At, Creating, Creations
    <3> QED BY <3>1, NothingBeforeRow
  <2>3. ASSUME NEW s \in Sessions, WriteSent(s) \/ SoftDelete(s) PROVE FALSE
    BY <2>1, <2>3 DEF WriteSent, SoftDelete, CampaignRow
  <2>4. ASSUME NEW s \in Sessions, NEW action \in Actions, Transition(s, action)
        PROVE  \E a \in transitions[row.status] : actionStatuses[a] = row'.status
    <3>1. /\ call[s] # Idle /\ call[s].op = action /\ call[s].at = "write"
          /\ StillAsRead(call[s].seen)
          /\ row' = [row EXCEPT !.status = actionStatuses[action]]
      BY <2>1, <2>4 DEF Transition, At
    <3>2. action \in transitions[row.status]
      BY <3>1 DEF LifecycleInv, CallFits, TransitionIsListed, StillAsRead
    <3>3. row'.status = actionStatuses[action]
      BY <2>1, <3>1 DEF CampaignRow
    <3> QED BY <3>2, <3>3
  <2> QED BY <2>1, <2>2, <2>3, <2>4
          DEF Next, Begin, StartCreate, StartCreateMarketing, StartSend, StartTransition,
              StartSoftDelete, StartReplace, Start, Abandon, Continue, CreateAtProvider,
              ScheduleAtProvider, Emit, ReadForSend, SendAtProvider, ReadForTransition,
              LockLiveCampaign, DeleteRecipients, InsertAndCommit
<1> QED BY <1>1, LifecycleInvHolds, PTL DEF Spec, StatusFollowsTable

(***************************************************************************)
(* The time of the next call                                               *)
(***************************************************************************)

\* The code's inputs, which no step but the clock's changes.
DialingTyped ==
  /\ campaign \in [window : Windows, days : CallingDays]
  /\ zone \in Zones
  /\ midnight \in MidnightHours
  /\ now \in Int

-------------------------------------------------------------------------------
(* Days and minutes *)

LEMMA DayAndTime ==
  ASSUME NEW x \in Int
  PROVE  /\ x \div DayLength \in Int
         /\ x % DayLength \in 0..(DayLength - 1)
         /\ x = (x \div DayLength) * DayLength + (x % DayLength)
BY WindowAssumption

LEMMA TimeOfDay ==
  ASSUME NEW day \in Int, NEW minutes \in 0..(DayLength - 1)
  PROVE  /\ day * DayLength + minutes \in Int
         /\ (day * DayLength + minutes) \div DayLength = day
         /\ (day * DayLength + minutes) % DayLength = minutes
BY WindowAssumption

LEMMA DaysApart ==
  ASSUME NEW day \in Int, NEW later \in Int, day < later
  PROVE  /\ day * DayLength \in Int /\ later * DayLength \in Int
         /\ day * DayLength + DayLength <= later * DayLength
<1>1. PICK k \in Nat : later = day + 1 + k
  BY SMT
<1>2. later * DayLength = day * DayLength + DayLength + k * DayLength /\ k * DayLength >= 0
  BY <1>1, WindowAssumption
<1> QED BY <1>2, WindowAssumption

LEMMA LargerAndSmaller ==
  ASSUME NEW x \in Int, NEW y \in Int
  PROVE  /\ Max({x, y}) \in {x, y} /\ Max({x, y}) >= x /\ Max({x, y}) >= y
         /\ Min({x, y}) \in {x, y} /\ Min({x, y}) <= x /\ Min({x, y}) <= y
<1>1. \E m \in {x, y} : \A n \in {x, y} : m >= n
  OBVIOUS
<1>2. \E m \in {x, y} : \A n \in {x, y} : m <= n
  OBVIOUS
<1> QED BY <1>1, <1>2 DEF Max, Min

LEMMA TimesAreOfTheDay ==
  ASSUME DialingTyped
  PROVE  startMinutes \in 0..(DayLength - 1) /\ endMinutes \in 0..(DayLength - 1)
<1>1. ASSUME NEW m \in Int PROVE Clamped(m) \in 0..(DayLength - 1)
  <2> DEFINE last == DayLength - 1
             low == Min({last, m})
             high == Max({0, low})
  <2>1. last \in Nat
    BY WindowAssumption
  <2> HIDE DEF last
  <2>2. low \in Int /\ low <= last
    BY <2>1, LargerAndSmaller
  <2> HIDE DEF low
  <2>3. high \in {0, low} /\ high >= 0
    BY <2>1, <2>2, LargerAndSmaller
  <2> HIDE DEF high
  <2>4. high \in 0..last
    BY <2>1, <2>2, <2>3
  <2> QED BY <2>4 DEF Clamped, high, low, last
<1>2. campaign.window.start \in Int /\ campaign.window.end \in Int
  BY WindowAssumption DEF DialingTyped
<1> QED BY <1>1, <1>2 DEF startMinutes, endMinutes

-------------------------------------------------------------------------------
(* Local times and instants *)

LEMMA OffsetsTyped ==
  ASSUME DialingTyped
  PROVE  /\ zone.before \in Int /\ zone.after \in Int /\ zone.change \in Int
         /\ 1 - DayLength <= zone.before /\ zone.before <= DayLength - 1
         /\ 1 - DayLength <= zone.after /\ zone.after <= DayLength - 1
BY WindowAssumption DEF DialingTyped, Offsets

LEMMA LocalIs ==
  ASSUME DialingTyped, NEW u \in Int
  PROVE  /\ Local(zone, u) \in Int
         /\ Local(zone, u) = IF u < zone.change THEN u + zone.before ELSE u + zone.after
BY OffsetsTyped DEF Local, getOffsetMinutes

\* Three guesses find the instant of a local time that comes once.
LEMMA GuessesSettle ==
  ASSUME DialingTyped, NEW day \in Int, NEW minutes \in Int, day * DayLength \in Int,
         ComesOnce(day * DayLength + minutes)
  PROVE  /\ zonedLocalTimeToUtc(zone, day, minutes) \in Int
         /\ Local(zone, zonedLocalTimeToUtc(zone, day, minutes)) = day * DayLength + minutes
<1> DEFINE base == day * DayLength + minutes
           Guess(u) == base - getOffsetMinutes(zone, u)
<1>1. base \in Int
  OBVIOUS
<1>2. ASSUME NEW u \in Int PROVE Guess(u) \in {base - zone.before, base - zone.after}
  BY DEF getOffsetMinutes
<1>3. zonedLocalTimeToUtc(zone, day, minutes) = Guess(Guess(Guess(base)))
  BY DEF zonedLocalTimeToUtc
<1>4. \A u \in Int : Guess(u) \in Int
  BY <1>1, <1>2, OffsetsTyped
<1>5. PICK v \in Int : v = Guess(Guess(base))
  BY <1>1, <1>4
<1>6. v \in {base - zone.before, base - zone.after}
  BY <1>1, <1>2, <1>4, <1>5
<1>7. Local(zone, base - getOffsetMinutes(zone, v)) = base
  BY <1>1, <1>6, OffsetsTyped DEF ComesOnce, Local, getOffsetMinutes
<1>8. Guess(v) \in Int /\ Local(zone, Guess(v)) = base
  BY <1>4, <1>7
<1> HIDE DEF Guess, base
<1>9. zonedLocalTimeToUtc(zone, day, minutes) = Guess(v)
  BY <1>3, <1>5
<1>10. Local(zone, zonedLocalTimeToUtc(zone, day, minutes)) = base
  BY <1>8, <1>9
<1> QED BY <1>8, <1>9, <1>10 DEF base

\* What is before an instant whose local time comes once is earlier on the
\* clock too, and what is after it is later.
LEMMA OnceOrders ==
  ASSUME DialingTyped, NEW v \in Int, ComesOnce(Local(zone, v)), NEW u \in Int
  PROVE  /\ u < v <=> Local(zone, u) < Local(zone, v)
         /\ v < u <=> Local(zone, v) < Local(zone, u)
BY LocalIs, OffsetsTyped DEF ComesOnce

\* A time of day, and what the runtime writes for it.
LEMMA TimeWritten ==
  ASSUME DialingTyped, NEW u \in Int
  PROVE  /\ LocalDay(zone, u) \in Int /\ TimeMinutes(zone, u) \in Int
         /\ Weekday(zone, u) \in 0..6 /\ Weekday(zone, u) = LocalDay(zone, u) % 7
         /\ TimeMinutes(zone, u) >= 0
         /\ TimeMinutes(zone, u) < DayLength =>
              Local(zone, u) = LocalDay(zone, u) * DayLength + TimeMinutes(zone, u)
         /\ LocalDay(zone, u) * DayLength \in Int
         /\ LocalDay(zone, u) * DayLength <= Local(zone, u)
         /\ Local(zone, u) < LocalDay(zone, u) * DayLength + DayLength
<1>1. Local(zone, u) \in Int
  BY LocalIs
<1> DEFINE L == Local(zone, u)
           d == L \div DayLength
           t == L % DayLength
<1>2. d \in Int /\ t \in 0..(DayLength - 1) /\ L = d * DayLength + t
  BY <1>1, DayAndTime
<1>3. TimeMinutes(zone, u) \in {t, DayLength + t}
  BY DEF TimeMinutes
<1>4. d % 7 \in 0..6
  BY <1>2
<1>5. LocalDay(zone, u) = d /\ Weekday(zone, u) = d % 7
  BY DEF LocalDay, Weekday, Week
<1>6. d * DayLength \in Int
  BY <1>2, WindowAssumption
<1> HIDE DEF d, t
<1>7. L = Local(zone, u)
  OBVIOUS
<1> HIDE DEF L
<1> QED BY <1>1, <1>2, <1>3, <1>4, <1>5, <1>6, <1>7, WindowAssumption

-------------------------------------------------------------------------------
(* The day that is chosen *)

LEMMA AllowedDayAhead ==
  ASSUME SomeDayIsAllowed, NEW weekday \in 0..6
  PROVE  /\ DaysAhead(weekday) \in 1..7
         /\ (weekday + DaysAhead(weekday)) % 7 \in days
         /\ \A i \in 1..(DaysAhead(weekday) - 1) : (weekday + i) % 7 \notin days
<1> DEFINE ahead == AllowedWithinAWeek(weekday)
<1>1. PICK w \in 0..6 : w \in days
  BY DEF SomeDayIsAllowed, Week
<1>2. \E i \in 1..7 : (weekday + i) % 7 = w
  OBVIOUS
<1>3. ahead \subseteq 1..7 /\ ahead # {}
  BY <1>1, <1>2 DEF AllowedWithinAWeek, Week
<1>4. \E i \in ahead : \A j \in ahead : i <= j
  <2> HIDE DEF ahead
  <2> DEFINE Least(n) == n \in ahead /\ \A j \in ahead : n <= j
  <2>1. 1 \in ahead => Least(1)  BY <1>3
  <2>2. 1 \notin ahead /\ 2 \in ahead => Least(2)  BY <1>3
  <2>3. {1, 2} \cap ahead = {} /\ 3 \in ahead => Least(3)  BY <1>3
  <2>4. {1, 2, 3} \cap ahead = {} /\ 4 \in ahead => Least(4)  BY <1>3
  <2>5. {1, 2, 3, 4} \cap ahead = {} /\ 5 \in ahead => Least(5)  BY <1>3
  <2>6. {1, 2, 3, 4, 5} \cap ahead = {} /\ 6 \in ahead => Least(6)  BY <1>3
  <2>7. {1, 2, 3, 4, 5, 6} \cap ahead = {} => Least(7)
    <3> SUFFICES ASSUME {1, 2, 3, 4, 5, 6} \cap ahead = {} PROVE Least(7)
      OBVIOUS
    <3>1. ASSUME NEW j \in ahead PROVE j = 7
      <4>1. j \in 1..7 /\ j \notin {1, 2, 3, 4, 5, 6}
        BY <1>3
      <4> QED BY <4>1
    <3>2. PICK i \in ahead : TRUE
      BY <1>3
    <3>3. i = 7 /\ 7 \in ahead
      BY <3>1, <3>2
    <3>4. \A j \in ahead : 7 <= j
      BY <3>1
    <3> QED BY <3>3, <3>4
  <2>8. \E n \in 1..7 : Least(n)
    <3> HIDE DEF Least
    <3> QED BY <2>1, <2>2, <2>3, <2>4, <2>5, <2>6, <2>7
  <2> QED BY <2>8
<1>5. DaysAhead(weekday) \in ahead /\ \A j \in ahead : DaysAhead(weekday) <= j
  BY <1>3, <1>4 DEF DaysAhead, Min
<1> QED BY <1>3, <1>5 DEF AllowedWithinAWeek, Week

\* The day the answer is on.
ChosenDay ==
  LET today == LocalDay(zone, now)
  IN  IF StillToCome(now) THEN today ELSE today + DaysAhead(Weekday(zone, now))

LEMMA ChosenDayIsAllowed ==
  ASSUME DialingTyped, SomeDayIsAllowed
  PROVE  /\ ChosenDay \in LocalDay(zone, now)..(LocalDay(zone, now) + Week)
         /\ ChosenDay % 7 \in days
         /\ \A day \in Int : LocalDay(zone, now) < day /\ day < ChosenDay => day % 7 \notin days
         /\ ~StillToCome(now) => ChosenDay > LocalDay(zone, now)
<1> DEFINE today == LocalDay(zone, now)
           ahead == DaysAhead(today % 7)
<1>1. today \in Int /\ today % 7 \in 0..6 /\ Weekday(zone, now) = today % 7
  BY TimeWritten DEF DialingTyped
<1>2. /\ ahead \in 1..7 /\ ((today % 7) + ahead) % 7 \in days
      /\ \A i \in 1..(ahead - 1) : ((today % 7) + i) % 7 \notin days
  BY <1>1, AllowedDayAhead
<1>3. ChosenDay = IF StillToCome(now) THEN today ELSE today + ahead
  BY <1>1 DEF ChosenDay
<1>4. StillToCome(now) => today % 7 \in days
  BY <1>1 DEF StillToCome
<1> HIDE DEF today, ahead
<1>5. \A i \in Int : (today + i) % 7 = ((today % 7) + i) % 7
  BY <1>1
<1>6. ASSUME NEW day \in Int, today < day, day < ChosenDay PROVE day % 7 \notin days
  <2>1. ~StillToCome(now) /\ day - today \in 1..(ahead - 1)
    BY <1>1, <1>2, <1>3, <1>6
  <2>2. day = today + (day - today)
    BY <1>1
  <2> QED BY <1>2, <1>5, <2>1, <2>2
<1>7. ChosenDay \in today..(today + 7)
  BY <1>1, <1>2, <1>3
<1>8. ChosenDay % 7 \in days
  BY <1>1, <1>2, <1>3, <1>4, <1>5
<1> QED BY <1>1, <1>2, <1>3, <1>6, <1>7, <1>8 DEF today, Week

\* The answer, where the code has to look for one.
LEMMA AnswerIsTheStart ==
  ASSUME DialingTyped, SomeDayIsAllowed, StartIsPlain, ~isWithinCallingWindowAt(now)
  PROVE  /\ nextAllowedStartUtc(now) \in Int
         /\ ChosenDay \in Int /\ ChosenDay * DayLength \in Int
         /\ Local(zone, nextAllowedStartUtc(now)) = ChosenDay * DayLength + startMinutes
         /\ ComesOnce(Local(zone, nextAllowedStartUtc(now)))
<1>1. LocalDay(zone, now) \in Int
  BY TimeWritten DEF DialingTyped
<1>2. /\ ChosenDay \in LocalDay(zone, now)..(LocalDay(zone, now) + Week)
      /\ ChosenDay \in Int
  BY <1>1, ChosenDayIsAllowed DEF Week
<1>3. ComesOnce(ChosenDay * DayLength + startMinutes)
  BY <1>2 DEF StartIsPlain
<1>4. nextAllowedStartUtc(now) = zonedLocalTimeToUtc(zone, ChosenDay, startMinutes)
  BY DEF nextAllowedStartUtc, ChosenDay
<1>5. ChosenDay * DayLength \in Int /\ startMinutes \in Int
  BY <1>2, WindowAssumption, TimesAreOfTheDay
<1> QED BY <1>2, <1>3, <1>4, <1>5, GuessesSettle

-------------------------------------------------------------------------------

\* The answer can be used: it is not past, and at that instant the code itself
\* allows a call, for any day's length, window, weekdays and change of clocks
\* (scheduling.ts:155).
LEMMA AnswerIsAllowed == ASSUME DialingTyped PROVE NextStartIsAllowed
<1> DEFINE answer == nextAllowedStartUtc(now)
<1>1. now \in Int
  BY DEF DialingTyped
<1>2. CASE isWithinCallingWindowAt(now)
  <2>1. answer = now
    BY <1>2 DEF nextAllowedStartUtc
  <2> QED BY <1>1, <1>2, <2>1 DEF NextStartIsAllowed
<1>3. CASE ~isWithinCallingWindowAt(now)
  <2> SUFFICES ASSUME StartIsPlain, SomeDayIsAllowed
               PROVE  /\ answer >= now
                      /\ startMinutes # endMinutes /\ (midnight = 0 \/ startMinutes >= HourLength) =>
                           isWithinCallingWindowAt(answer)
    BY DEF NextStartIsAllowed
  <2>1. /\ answer \in Int /\ ChosenDay \in Int /\ ChosenDay * DayLength \in Int
        /\ Local(zone, answer) = ChosenDay * DayLength + startMinutes
        /\ ComesOnce(Local(zone, answer))
    BY <1>3, AnswerIsTheStart
  <2>2. startMinutes \in 0..(DayLength - 1) /\ endMinutes \in 0..(DayLength - 1)
    BY TimesAreOfTheDay
  <2> HIDE DEF answer
  <2>3. Local(zone, now) <= Local(zone, answer)
    <3> DEFINE today == LocalDay(zone, now)
    <3>1. /\ today \in Int /\ today * DayLength \in Int
          /\ Local(zone, now) < today * DayLength + DayLength
          /\ TimeMinutes(zone, now) \in Int
          /\ TimeMinutes(zone, now) < DayLength =>
               Local(zone, now) = today * DayLength + TimeMinutes(zone, now)
      BY <1>1, TimeWritten
    <3>2. Local(zone, now) \in Int /\ DayLength \in Nat
      BY <1>1, LocalIs, WindowAssumption
    <3> HIDE DEF today
    <3>3. CASE StillToCome(now)
      <4>1. ChosenDay = today
        BY <3>3 DEF ChosenDay, today
      <4>2. TimeMinutes(zone, now) < startMinutes
        BY <1>3, <2>2, <3>1, <3>3 DEF StillToCome, isWithinCallingWindowAt
      <4> QED BY <2>1, <2>2, <3>1, <3>2, <4>1, <4>2
    <3>4. CASE ~StillToCome(now)
      <4>1. today < ChosenDay
        BY <2>1, <3>1, <3>4, ChosenDayIsAllowed DEF today
      <4>2. today * DayLength + DayLength <= ChosenDay * DayLength
        BY <2>1, <3>1, <4>1, DaysApart
      <4> QED BY <2>1, <2>2, <3>1, <3>2, <4>2
    <3> QED BY <3>3, <3>4
  <2>4. answer >= now
    BY <1>1, <2>1, <2>3, OnceOrders, LocalIs
  <2>5. LocalDay(zone, answer) = ChosenDay /\ Local(zone, answer) % DayLength = startMinutes
    BY <2>1, <2>2, TimeOfDay DEF LocalDay
  <2>6. Weekday(zone, answer) \in days
    BY <2>5, ChosenDayIsAllowed DEF Weekday, Week
  <2>7. ASSUME midnight = 0 \/ startMinutes >= HourLength
        PROVE  TimeMinutes(zone, answer) = startMinutes
    BY <2>2, <2>5, <2>7, WindowAssumption DEF TimeMinutes
  <2>8. ASSUME startMinutes # endMinutes, midnight = 0 \/ startMinutes >= HourLength
        PROVE  isWithinCallingWindowAt(answer)
    BY <2>2, <2>6, <2>7, <2>8 DEF isWithinCallingWindowAt, crossesMidnight
  <2> QED BY <2>4, <2>8
<1> QED BY <1>2, <1>3

LEMMA AnswerIsEarliest == ASSUME DialingTyped PROVE NextStartIsEarliest
<1> SUFFICES ASSUME ~crossesMidnight, StartIsPlain, EndIsPlain,
                    TimeMinutes(zone, now) < DayLength,
                    NEW u \in Horizon, u < nextAllowedStartUtc(now),
                    isWithinCallingWindowAt(u)
             PROVE  FALSE
  BY DEF NextStartIsEarliest
<1> DEFINE answer == nextAllowedStartUtc(now)
           today == LocalDay(zone, now)
           day == LocalDay(zone, u)
           L == Local(zone, u)
<1>1. now \in Int /\ u \in Int /\ now <= u
  BY WindowAssumption DEF DialingTyped, Horizon, Week
<1>2. /\ startMinutes \in 0..(DayLength - 1) /\ endMinutes \in 0..(DayLength - 1)
      /\ DayLength \in Nat
  BY TimesAreOfTheDay, WindowAssumption
<1>3. ~isWithinCallingWindowAt(now)
  BY <1>1 DEF nextAllowedStartUtc
<1>4. /\ day \in Int /\ day * DayLength \in Int /\ L \in Int
      /\ TimeMinutes(zone, u) \in Int
      /\ TimeMinutes(zone, u) < DayLength => L = day * DayLength + TimeMinutes(zone, u)
      /\ Weekday(zone, u) = day % 7 /\ Weekday(zone, u) \in 0..6
  BY <1>1, TimeWritten, LocalIs
<1>5. /\ today \in Int /\ today * DayLength \in Int /\ Local(zone, now) \in Int
      /\ TimeMinutes(zone, now) \in Int
      /\ Local(zone, now) = today * DayLength + TimeMinutes(zone, now)
      /\ today * DayLength <= Local(zone, now)
      /\ Weekday(zone, now) = today % 7
  BY <1>1, TimeWritten, LocalIs
<1>6. SomeDayIsAllowed
  BY <1>4 DEF isWithinCallingWindowAt, SomeDayIsAllowed, Week
<1>7. /\ answer \in Int /\ ChosenDay \in Int /\ ChosenDay * DayLength \in Int
      /\ Local(zone, answer) = ChosenDay * DayLength + startMinutes
      /\ ComesOnce(Local(zone, answer))
  BY <1>3, <1>6, AnswerIsTheStart
<1>8. /\ L = day * DayLength + TimeMinutes(zone, u)
      /\ startMinutes <= TimeMinutes(zone, u) /\ TimeMinutes(zone, u) < endMinutes
  BY <1>2, <1>4 DEF isWithinCallingWindowAt, crossesMidnight
<1>9. day % 7 \in days
  BY <1>4 DEF isWithinCallingWindowAt
<1>10. L < Local(zone, answer)
  BY <1>1, <1>7, OnceOrders
<1> HIDE DEF answer, today, day, L
<1>11. day < ChosenDay
  <2> SUFFICES ASSUME ChosenDay <= day PROVE FALSE
    BY <1>4, <1>7
  <2>1. ChosenDay * DayLength <= day * DayLength
    BY <1>2, <1>4, <1>7, DaysApart
  <2> QED BY <1>2, <1>4, <1>7, <1>8, <1>10, <2>1
<1>12. day <= today
  <2>1. ~(today < day)
    BY <1>4, <1>6, <1>9, <1>11, ChosenDayIsAllowed DEF today
  <2> QED BY <1>4, <1>5, <2>1
<1>13. today - 2 <= day
  <2> SUFFICES ASSUME day < today - 2 PROVE FALSE
    BY <1>4, <1>5
  <2>1. Local(zone, now) <= L + 2 * (DayLength - 1)
    BY <1>1, LocalIs, OffsetsTyped, WindowAssumption DEF L
  <2>2. day * DayLength + DayLength <= (today - 2) * DayLength
    BY <1>4, <1>5, DaysApart
  <2>3. (today - 2) * DayLength = today * DayLength - 2 * DayLength
    BY <1>2, <1>5
  <2> QED BY <1>2, <1>4, <1>5, <1>8, <2>1, <2>2, <2>3
<1>14. ComesOnce(day * DayLength + endMinutes)
  BY <1>4, <1>5, <1>12, <1>13 DEF EndIsPlain, today
\* The window of that day has not ended yet.
<1>15. Local(zone, now) < day * DayLength + endMinutes
  <2>1. endMinutes \in Int
    BY <1>2
  <2>2. PICK e \in Int : Local(zone, e) = day * DayLength + endMinutes
    BY <1>4, <1>14, <2>1, GuessesSettle
  <2>3. u < e
    BY <1>1, <1>2, <1>4, <1>8, <1>14, <2>2, OnceOrders DEF L
  <2>4. now < e
    BY <1>1, <2>2, <2>3
  <2> QED BY <1>1, <1>14, <2>2, <2>4, OnceOrders
<1>16. day = today
  <2> SUFFICES ASSUME day < today PROVE FALSE
    BY <1>4, <1>5, <1>12
  <2>1. day * DayLength + DayLength <= today * DayLength
    BY <1>4, <1>5, DaysApart
  <2> QED BY <1>2, <1>4, <1>5, <1>15, <2>1
<1>17. StillToCome(now)
  <2>1. TimeMinutes(zone, now) < endMinutes /\ Weekday(zone, now) \in days
    BY <1>2, <1>4, <1>5, <1>9, <1>15, <1>16
  <2> QED BY <1>2, <1>3, <1>5, <2>1 DEF StillToCome, isWithinCallingWindowAt, crossesMidnight
<1> QED BY <1>5, <1>11, <1>16, <1>17 DEF ChosenDay, today

-------------------------------------------------------------------------------

LEMMA InputsStay == DialingSpec => []DialingTyped
<1>1. InitDialing => DialingTyped
  BY WindowAssumption DEF InitDialing, DialingTyped
<1>2. DialingTyped /\ [Tick]_dialingVars => DialingTyped'
  BY DEF DialingTyped, Tick, dialingVars
<1> QED BY <1>1, <1>2, PTL DEF DialingSpec

\* The answer can be used: it is not past, and at that instant the code itself
\* allows a call, whatever the window, the weekdays, the length of a day and the
\* change of clocks (scheduling.ts:155).
THEOREM NextStartsAreAllowed == DialingSpec => []NextStartIsAllowed
BY InputsStay, AnswerIsAllowed, PTL

\* No allowed minute is passed over, for windows within one day that no change
\* of clocks opens again.
THEOREM NextStartsAreEarliest == DialingSpec => []NextStartIsEarliest
BY InputsStay, AnswerIsEarliest, PTL
================================================================================
