----------------------------- MODULE CampaignScreens -----------------------------
(***************************************************************************)
(* The campaign screens of ui-crm that read and that change a status: the  *)
(* list, the recipients, the analytics and the page of one campaign.       *)
(***************************************************************************)
EXTENDS CrmOperation

CONSTANTS PageQueries, Statuses

(***************************************************************************)
(* Three screens that only load.  A page is what it answers; the list of   *)
(* campaigns is about a query, the analytics about a campaign, the         *)
(* recipients about both.                                                  *)
(***************************************************************************)
Browsers == {"campaigns", "recipients", "analytics"}

BrowseInit ==
  /\ screen \in Browsers
  /\ \E t \in (IF screen = "campaigns" THEN {None} ELSE Targets), q \in PageQueries :
       /\ props = [target |-> t, can |-> {}]
       /\ view = [query |-> q, page |-> None, failed |-> None, loading |-> TRUE]
       /\ calls = Loading(NoCalls, "load", <<t, q>>)
  /\ ops = [op \in {} |-> Idle]
  /\ astray = FALSE

BrowseAbout == <<props.target, view.query>>

(* The list keeps its page, hidden, while the next one loads ...           *)
CampaignsReload(v) == [v EXCEPT !.failed = None, !.loading = TRUE]

(* ... the recipients and the analytics drop theirs at once.               *)
RecipientsReload(v) == [v EXCEPT !.page = None, !.failed = None, !.loading = TRUE]
AnalyticsReload(v) == [v EXCEPT !.page = None, !.failed = None, !.loading = TRUE]

Reload(v) ==
  CASE screen = "campaigns"  -> CampaignsReload(v)
    [] screen = "recipients" -> RecipientsReload(v)
    [] screen = "analytics"  -> AnalyticsReload(v)

BrowseCommit(p, v, c) == Commit(<<>>, <<>>, p, v, ops, c)

(* Filters and page buttons; the analytics have none.                      *)
BrowseQuery ==
  /\ screen # "analytics" /\ MayLoad("load")
  /\ \E q \in PageQueries :
       BrowseCommit(props, [Reload(view) EXCEPT !.query = q],
                    Loading(calls, "load", <<props.target, q>>))
  /\ UNCHANGED astray

(* The host opens the screen on another campaign without unmounting it.    *)
BrowseRetarget ==
  /\ screen # "campaigns" /\ MayLoad("load")
  /\ \E t \in Targets \ {props.target} :
       BrowseCommit([props EXCEPT !.target = t], Reload(view),
                    Loading(calls, "load", <<t, view.query>>))
  /\ UNCHANGED astray

BrowseRetry ==
  /\ view.failed = "retryable" /\ HasSlot
  /\ BrowseCommit(props, Reload(view), Loading(calls, "load", BrowseAbout))
  /\ UNCHANGED astray

BrowseLoaded(s, answer) ==
  /\ calls[s] # None
  /\ Apply(calls[s], BrowseAbout)
  /\ BrowseCommit(props,
       IF answer = "ok"
       THEN [view EXCEPT !.loading = FALSE, !.page = calls[s].about]
       ELSE [view EXCEPT !.loading = FALSE, !.page = None,
                         !.failed = safeAdapterCall(answer)], Taken(s))

BrowseNext ==
  /\ screen \in Browsers
  /\ \/ BrowseQuery \/ BrowseRetarget \/ BrowseRetry
     \/ \E s \in Slots, answer \in Answers : BrowseLoaded(s, answer)

(***************************************************************************)
(* One campaign.  Its status offers the transitions; one lock covers the   *)
(* transitions and the deletion.  confirm is the campaign the dialog was   *)
(* opened on.                                                              *)
(***************************************************************************)
LifecycleActions ==
  [draft     |-> {"schedule", "start", "cancel"},
   scheduled |-> {"start", "pause", "cancel"},
   running   |-> {"pause", "complete", "cancel"},
   paused    |-> {"resume", "cancel"},
   sent      |-> {"complete"},
   completed |-> {},
   cancelled |-> {}]

actionsFor(status) == IF status \in DOMAIN LifecycleActions THEN LifecycleActions[status] ELSE {}

CampaignInit ==
  /\ screen = "campaign"
  /\ \E t \in Targets, can \in Grants :
       /\ props = [target |-> t, can |-> can]
       /\ calls = Loading(NoCalls, "load", t)
  /\ view = [campaign |-> None, failed |-> None, confirm |-> None, locked |-> FALSE]
  /\ ops = [op \in {"write"} |-> Idle]
  /\ astray = FALSE

CampaignVisible(v, p) == v.campaign # None /\ v.campaign.id = p.target

CampaignScopes(v, p) ==
  [write |-> <<p.target, IF CampaignVisible(v, p) THEN v.campaign.status ELSE None,
              p.can \cap {"update", "remove"}>>]

CampaignCommit(p, v, o, c) ==
  LET same == p.target = props.target /\ ("remove" \in p.can <=> "remove" \in props.can)
      kept == [v EXCEPT !.confirm = IF same THEN @ ELSE None]
  IN  Commit(CampaignScopes(view, props), CampaignScopes(kept, p), p, kept, o, c)

CampaignEmptied(v) == [v EXCEPT !.campaign = None, !.failed = None]

CampaignRetarget ==
  /\ MayLoad("load")
  /\ \E t \in Targets \ {props.target} :
       CampaignCommit([props EXCEPT !.target = t], CampaignEmptied(view), ops,
                      Loading(calls, "load", t))
  /\ UNCHANGED astray

CampaignRegrant ==
  /\ \E p \in Regrants : CampaignCommit(p, view, ops, calls)
  /\ UNCHANGED astray

CampaignRetryLoad ==
  /\ view.failed = "retryable" /\ HasSlot
  /\ CampaignCommit(props, CampaignEmptied(view), ops, Loading(calls, "load", props.target))
  /\ UNCHANGED astray

(* runWrite: the lock is held from the call to its answer.                 *)
RunWrite(v, args) ==
  /\ CampaignVisible(view, props) /\ ~view.locked /\ MayStart("write") /\ HasSlot
  /\ CampaignCommit(props, [v EXCEPT !.locked = TRUE], Attempted("write", args),
                    Made(calls, Request("write", props.target, args)))
  /\ UNCHANGED astray

transition ==
  /\ CampaignVisible(view, props) /\ "update" \in props.can
  /\ \E action \in actionsFor(view.campaign.status) :
       RunWrite(view, [names |-> <<view.campaign.id, action>>, asked |-> <<props.target, action>>])

(* The buttons wait for a write, the Escape that closes the dialog does not. *)
AskDeleteCampaign ==
  /\ CampaignVisible(view, props) /\ "remove" \in props.can
  /\ \E confirm \in {None} \cup (IF view.locked THEN {} ELSE {props.target}) :
       CampaignCommit(props, [view EXCEPT !.confirm = confirm], ops, calls)
  /\ UNCHANGED astray

deleteCampaign ==
  /\ CampaignVisible(view, props) /\ "remove" \in props.can /\ view.confirm # None
  /\ RunWrite([view EXCEPT !.confirm = None],
              [names |-> <<view.campaign.id, "delete">>, asked |-> <<view.confirm, "delete">>])

CampaignRetry ==
  /\ MayRetry("write")
  /\ RunWrite(view, ops["write"].last)

CampaignLoaded(s, answer) ==
  /\ calls[s] # None /\ calls[s].op = "load"
  /\ Apply(calls[s], props.target)
  /\ IF answer = "ok"
     THEN \E status \in Statuses :
            CampaignCommit(props,
              [view EXCEPT !.campaign = [id |-> calls[s].about, status |-> status]],
              ops, Taken(s))
     ELSE CampaignCommit(props, [view EXCEPT !.failed = safeAdapterCall(answer)],
                         ops, Taken(s))

(* A transition shows the campaign the adapter returns; a deletion leaves  *)
(* for the list.                                                           *)
CampaignAnswered(s, answer) ==
  /\ calls[s] # None /\ calls[s].op = "write"
  /\ LET v == [view EXCEPT !.locked = FALSE]
     IN  IF ~calls[s].live
         THEN CampaignCommit(props, v, ops, Taken(s)) /\ UNCHANGED astray
         ELSE /\ Apply(calls[s], props.target)
              /\ IF answer = "ok" /\ calls[s].args.names[2] # "delete"
                 THEN \E status \in Statuses :
                        CampaignCommit(props,
                          [v EXCEPT !.campaign = [id |-> calls[s].args.names[1],
                                                  status |-> status]],
                          Settled("write", answer), Taken(s))
                 ELSE CampaignCommit(props, v, Settled("write", answer), Taken(s))

CampaignNext ==
  /\ screen = "campaign"
  /\ \/ CampaignRetarget \/ CampaignRegrant \/ CampaignRetryLoad \/ transition
     \/ AskDeleteCampaign \/ deleteCampaign \/ CampaignRetry
     \/ \E s \in Slots, answer \in Answers : CampaignLoaded(s, answer) \/ CampaignAnswered(s, answer)

=================================================================================
