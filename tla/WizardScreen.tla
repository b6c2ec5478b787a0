------------------------------ MODULE WizardScreen ------------------------------
(***************************************************************************)
(* The campaign wizard of ui-crm: it creates a campaign or edits one, and  *)
(* saves it in two calls of the adapter, the campaign first and then its   *)
(* audience.                                                               *)
(*                                                                         *)
(* Of the fields the model keeps the start of the schedule, to the half    *)
(* minute, for the form shows whole minutes; the audience; the             *)
(* configuration of one extension; and one value, words, that stands for   *)
(* the others and passes the checks of submit or does not.                 *)
(***************************************************************************)
EXTENDS CrmOperation

CONSTANTS
  Audiences,     \* the audiences a user may choose
  AllContacts,   \* the one the form starts with
  Starts         \* starts of a schedule, in half minutes

ASSUME WizardAssumption == AllContacts \in Audiences /\ Starts \subseteq Nat /\ 0 \in Starts

(* What the form shows of a start: its minute.                             *)
toDateTimeLocal(start) == 2 * (start \div 2)

(* A form of its owner: what a new campaign starts with, and what is left  *)
(* of the previous owner: nothing.                                         *)
Blank(t) ==
  [of |-> t, loaded |-> None, failed |-> None, words |-> "unfit",
   shown |-> 0, original |-> 0, startDirty |-> FALSE,
   audience |-> AllContacts, audienceDirty |-> t = None,
   preview |-> None,
   config |-> None]

WizardInit ==
  /\ screen = "wizard"
  /\ \E t \in Targets \cup {None}, can \in Grants :
       /\ props = [target |-> t, can |-> can]
       /\ view = [form |-> Blank(t), holder |-> None]
       /\ calls = IF t = None THEN NoCalls ELSE Loading(NoCalls, "load", t)
  /\ ops = [op \in {"write"} |-> Idle]
  /\ astray = FALSE

Form == view.form
WizardAllowed(p) == (IF p.target = None THEN "create" ELSE "update") \in p.can
WizardReady == props.target = None \/ Form.loaded = props.target
WriteLocked == view.holder # None

(* Everything that would be saved is part of the scope.                    *)
WizardScopes(v, p) ==
  [write |-> <<p.target, WizardAllowed(p), v.form.words, v.form.shown,
               IF v.form.audienceDirty THEN v.form.audience ELSE None,
               v.form.config>>]

(* A preview is about the audience on screen.                              *)
WizardCommit(p, v, o, c) ==
  LET turned == v.form.audience # Form.audience \/ p.target # props.target
      kept == IF turned THEN [v EXCEPT !.form.preview = None] ELSE v
  IN  Commit(WizardScopes(view, props), WizardScopes(kept, p), p, kept, o,
             IF turned THEN Superseded(c, "preview") ELSE c)

(* Another owner: a blank form, another generation of writes, and the load *)
(* of the campaign to edit.                                                *)
WizardRetarget ==
  \E t \in (Targets \cup {None}) \ {props.target} :
    LET v == [view EXCEPT !.form = Blank(t), !.holder = None]
        p == [props EXCEPT !.target = t]
    IN  /\ IF t = None THEN WizardCommit(p, v, ops, Superseded(calls, "load"))
                       ELSE MayLoad("load") /\ WizardCommit(p, v, ops, Loading(calls, "load", t))
        /\ UNCHANGED astray

WizardRegrant ==
  /\ \E p \in Regrants : WizardCommit(p, view, ops, calls)
  /\ UNCHANGED astray

WizardRetryLoad ==
  /\ Form.failed = "retryable" /\ HasSlot
  /\ WizardCommit(props, [view EXCEPT !.form.loaded = None, !.form.failed = None], ops,
                  Loading(calls, "load", props.target))
  /\ UNCHANGED astray

(* load fills the form with the campaign; the original start is kept       *)
(* beside the minute that is shown.                                        *)
WizardLoaded(s, answer) ==
  /\ calls[s] # None /\ calls[s].op = "load"
  /\ Apply(calls[s], props.target)
  /\ IF answer = "ok"
     THEN \E start \in Starts :
            WizardCommit(props,
              [view EXCEPT !.form.loaded = calls[s].about, !.form.words = "fit",
                           !.form.shown = toDateTimeLocal(start),
                           !.form.original = start, !.form.startDirty = FALSE],
              ops, Taken(s))
     ELSE WizardCommit(props, [view EXCEPT !.form.failed = safeAdapterCall(answer)],
                       ops, Taken(s))

Edit(form) == WizardCommit(props, [view EXCEPT !.form = form], ops, calls)

(* The fields: disabled while a write holds the lock.                      *)
WizardEdit ==
  /\ WizardReady /\ ~WriteLocked
  /\ \/ \E w \in {"fit", "unfit"} : Edit([Form EXCEPT !.words = w])
     \/ \E start \in {toDateTimeLocal(x) : x \in Starts} :
          Edit([Form EXCEPT !.shown = start, !.startDirty = TRUE])
  /\ UNCHANGED astray

ChooseAudience ==
  /\ WizardReady /\ ~WriteLocked
  /\ \E a \in Audiences : Edit([Form EXCEPT !.audience = a, !.audienceDirty = TRUE])
  /\ UNCHANGED astray

previewAudience ==
  /\ WizardReady /\ ~WriteLocked /\ MayLoad("preview")
  /\ WizardCommit(props, [view EXCEPT !.form.preview = None], ops,
                  Loading(calls, "preview", Form.audience))
  /\ UNCHANGED astray

AudiencePreviewed(s, answer) ==
  /\ calls[s] # None /\ calls[s].op = "preview"
  /\ Apply(calls[s], Form.audience)
  /\ WizardCommit(props,
       [view EXCEPT !.form.preview = IF answer = "ok" THEN calls[s].about ELSE "failed"],
       ops, Taken(s))

(* An extension is chosen or left; its panel, the host's code, changes its *)
(* configuration to one that the extension's validate accepts or not.  A   *)
(* panel may keep the handler of an earlier render: what such a handler    *)
(* reports, its owner or its token being another, is dropped.              *)
ChooseExtension ==
  /\ WizardReady /\ ~WriteLocked
  /\ \E config \in {None, "fit", "unfit"} \ {Form.config} :
       Edit([Form EXCEPT !.config = config])
  /\ UNCHANGED astray

(***************************************************************************)
(* The save.  An attempt remembers how far it came: its retry goes on with *)
(* the step that failed.                                                   *)
(***************************************************************************)
StartToSave ==
  IF props.target # None /\ ~Form.startDirty THEN Form.original ELSE Form.shown

AudienceToSave == IF Form.audienceDirty THEN Form.audience ELSE None

Submitted ==
  [names |-> <<props.target, StartToSave>>,
   asked |-> <<Form.of, IF Form.startDirty THEN Form.shown ELSE Form.original>>,
   step |-> "save", audience |-> AudienceToSave, created |-> 0]

Submit(args) ==
  /\ WizardReady /\ ~WriteLocked /\ MayStart("write") /\ HasSlot
  /\ WizardCommit(props, [view EXCEPT !.holder = FreeSlot(calls)], Attempted("write", args),
                  Made(calls, Request("write", props.target, args)))
  /\ UNCHANGED astray

submitCampaign == WizardAllowed(props) /\ Form.words = "fit" /\ Form.config # "unfit" /\ Submit(Submitted)
retrySave == MayRetry("write") /\ Submit(ops["write"].last)

(* The attempt once its campaign is saved; created counts the campaigns    *)
(* that one attempt and its retries have created.                          *)
Created(args) == args.created + (IF args.names[1] = None /\ args.step = "save" THEN 1 ELSE 0)

(* Mutant: a retry starts over.                                            *)
AdvancedFromStart(args) == [args EXCEPT !.created = Created(args)]

Advanced(args) == [args EXCEPT !.created = Created(args), !.step = "audience"]

Continues(args, answer) == args.step = "save" /\ answer = "ok" /\ args.audience # None

LockReleased(s) == [view EXCEPT !.holder = IF @ = s THEN None ELSE @]

(* The first step is done: the attempt goes on to the audience, also when  *)
(* its screen has moved on.                                                *)
CampaignSaved(s, answer) ==
  /\ calls[s] # None /\ calls[s].op = "write" /\ Continues(calls[s].args, answer)
  /\ WizardCommit(props, view,
       IF calls[s].live THEN [ops EXCEPT !["write"].last = Advanced(calls[s].args)] ELSE ops,
       [calls EXCEPT ![s].args = [Advanced(calls[s].args) EXCEPT !.step = "audience"]])
  /\ UNCHANGED astray

(* The attempt is over, saved or not; only a write of this generation      *)
(* releases the lock.                                                      *)
WizardAnswered(s, answer) ==
  /\ calls[s] # None /\ calls[s].op = "write" /\ ~Continues(calls[s].args, answer)
  /\ IF ~calls[s].live
     THEN WizardCommit(props, LockReleased(s), ops, Taken(s)) /\ UNCHANGED astray
     ELSE /\ Apply(calls[s], props.target)
          /\ WizardCommit(props, LockReleased(s), Settled("write", answer), Taken(s))

WizardNext ==
  /\ screen = "wizard"
  /\ \/ WizardRetarget \/ WizardRegrant \/ WizardRetryLoad \/ WizardEdit \/ ChooseAudience
     \/ previewAudience \/ ChooseExtension \/ submitCampaign \/ retrySave
     \/ \E s \in Slots, answer \in Answers :
          WizardLoaded(s, answer) \/ AudiencePreviewed(s, answer)
          \/ CampaignSaved(s, answer) \/ WizardAnswered(s, answer)

(***************************************************************************)
(* Properties                                                              *)
(***************************************************************************)

(* However often the save of one form is retried, it creates one campaign: *)
(* where the audience failed, the retry replaces the audience of the       *)
(* campaign that was created.                                              *)
SavedCreatesOnce ==
  screen = "wizard" =>
    \A s \in Slots : calls[s] # None /\ calls[s].op = "write" => calls[s].args.created <= 1
=================================================================================
