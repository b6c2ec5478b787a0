----------------------------- MODULE ContactScreens -----------------------------
(***************************************************************************)
(* The contact screens of ui-crm: the list with its bulk actions, the      *)
(* contact with its notes, the form that creates and edits.                *)
(***************************************************************************)
EXTENDS CrmOperation

CONSTANTS Contacts, Queries

Toggled(set, x) == IF x \in set THEN set \ {x} ELSE set \cup {x}

(***************************************************************************)
(* The list of contacts and its bulk actions.  confirm is the selection    *)
(* the delete dialog was opened on, None while it is closed; a page is the *)
(* query it answers and the contacts it holds.                             *)
(***************************************************************************)
ContactsInit ==
  /\ screen = "contacts"
  /\ props \in [target : {None}, can : Grants]
  /\ \E q \in Queries :
       /\ view = [query |-> q, page |-> None, loading |-> TRUE, failed |-> None,
                  selected |-> {}, confirm |-> None]
       /\ calls = Loading(NoCalls, "load", q)
  /\ ops = [op \in {"tag", "delete"} |-> Idle]
  /\ astray = FALSE

CanTag(p) == {"bulkActions", "update"} \subseteq p.can
CanDelete(p) == {"bulkActions", "remove"} \subseteq p.can

(* A bulk retry is valid for the exact selection and capability it was     *)
(* created with.                                                           *)
BulkScopes(v, p) == [tag |-> <<v.selected, CanTag(p)>>, delete |-> <<v.selected, CanDelete(p)>>]

ContactsAbout(op, v) == IF op = "load" THEN v.query ELSE v.selected

(* Mutant: the dialog stays open when the selection changes under it.      *)
ConfirmationFollows(v, p) == v.confirm

(* The confirmation is retired with the scope of the deletion.             *)
ConfirmationKept(v, p) ==
  IF BulkScopes(v, p).delete = BulkScopes(view, props).delete THEN v.confirm ELSE None

(* Without bulk actions their bar is unmounted, and nothing of it is       *)
(* called back.                                                            *)
ContactsCommit(p, v, o, c) ==
  LET closed == [v EXCEPT !.confirm = ConfirmationKept(v, p)]
      barred == "bulkActions" \notin p.can
  IN  Commit(BulkScopes(view, props), BulkScopes(v, p), p, closed, o,
             IF barred THEN Superseded(Superseded(c, "tag"), "delete") ELSE c)

(* load: what is on screen stays, hidden, until the answer; a new query    *)
(* also empties the selection.                                             *)
Reloaded(v) == [v EXCEPT !.loading = TRUE, !.failed = None]

(* submitSearch, the tag filter and the page buttons all set a new query.  *)
NewQuery ==
  /\ MayLoad("load")
  /\ \E q \in Queries :
       ContactsCommit(props, [Reloaded(view) EXCEPT !.query = q, !.selected = {}], ops,
                      Loading(calls, "load", q))
  /\ UNCHANGED astray

ContactsRetryLoad ==
  /\ view.failed = "retryable" /\ HasSlot
  /\ ContactsCommit(props, Reloaded(view), ops, Loading(calls, "load", view.query))
  /\ UNCHANGED astray

RowsShown == IF view.loading \/ view.failed # None \/ view.page = None THEN {} ELSE view.page.rows

ContactsSelect ==
  /\ "bulkActions" \in props.can
  /\ \E c \in RowsShown :
       ContactsCommit(props, [view EXCEPT !.selected = Toggled(@, c)], ops, calls)
  /\ UNCHANGED astray

(* Tags are assigned to a copy of the selection.                           *)
assign ==
  /\ CanTag(props) /\ view.selected # {} /\ MayStart("tag") /\ HasSlot
  /\ LET args == [names |-> view.selected, asked |-> view.selected]
     IN  ContactsCommit(props, view, Attempted("tag", args),
                        Made(calls, Request("tag", view.selected, args)))
  /\ UNCHANGED astray

AskBulkDelete ==
  /\ CanDelete(props) /\ view.selected # {} /\ MayStart("delete")
  /\ ContactsCommit(props, [view EXCEPT !.confirm = view.selected], ops, calls)
  /\ UNCHANGED astray

(* The button waits for the deletion, the dialog's Escape does not.        *)
CancelBulkDelete ==
  /\ CanDelete(props) /\ view.confirm # None
  /\ ContactsCommit(props, [view EXCEPT !.confirm = None], ops, calls)
  /\ UNCHANGED astray

bulkRemove ==
  /\ CanDelete(props) /\ view.confirm # None /\ MayStart("delete") /\ HasSlot
  /\ LET args == [names |-> view.selected, asked |-> view.confirm]
     IN  ContactsCommit(props, view, Attempted("delete", args),
                        Made(calls, Request("delete", view.selected, args)))
  /\ UNCHANGED astray

BulkRetry(op) ==
  /\ MayRetry(op) /\ HasSlot
  /\ IF op = "tag" THEN CanTag(props) ELSE CanDelete(props)
  /\ ContactsCommit(props, view, Attempted(op, ops[op].last),
                    Made(calls, Request(op, view.selected, ops[op].last)))
  /\ UNCHANGED astray

(* The answer to a load: the selection keeps what the page still shows.    *)
ContactsLoaded(s, answer) ==
  /\ calls[s] # None /\ calls[s].op = "load"
  /\ Apply(calls[s], ContactsAbout("load", view))
  /\ IF answer = "ok"
     THEN \E rows \in SUBSET Contacts :
            ContactsCommit(props,
              [view EXCEPT !.loading = FALSE,
                           !.page = [query |-> calls[s].about, rows |-> rows],
                           !.selected = @ \cap rows], ops, Taken(s))
     ELSE ContactsCommit(props,
            [view EXCEPT !.loading = FALSE, !.page = None,
                         !.failed = safeAdapterCall(answer)], ops, Taken(s))

(* The answer to a bulk action: done, the selection is emptied and the list *)
(* loads again.  The code after the await closes the dialog in any case.   *)
BulkAnswered(s, answer) ==
  /\ calls[s] # None /\ calls[s].op \in {"tag", "delete"}
  /\ LET op == calls[s].op
         v == [view EXCEPT !.confirm = IF op = "delete" THEN None ELSE @]
     IN  IF ~calls[s].live
         THEN ContactsCommit(props, v, ops, Taken(s)) /\ UNCHANGED astray
         ELSE /\ Apply(calls[s], ContactsAbout(op, view))
              /\ IF answer = "ok"
                 THEN ContactsCommit(props, [Reloaded(v) EXCEPT !.selected = {}],
                        Settled(op, answer), Loading(Taken(s), "load", view.query))
                 ELSE ContactsCommit(props, v, Settled(op, answer), Taken(s))

ContactsRegrant ==
  /\ \E p \in Regrants : ContactsCommit(p, view, ops, calls)
  /\ UNCHANGED astray

ContactsNext ==
  /\ screen = "contacts"
  /\ \/ NewQuery \/ ContactsRetryLoad \/ ContactsSelect \/ ContactsRegrant
     \/ assign \/ AskBulkDelete \/ CancelBulkDelete \/ bulkRemove
     \/ \E op \in {"tag", "delete"} : BulkRetry(op)
     \/ \E s \in Slots, answer \in Answers : ContactsLoaded(s, answer) \/ BulkAnswered(s, answer)

(***************************************************************************)
(* One contact: its page, its notes, its deletion.  draft is the contact   *)
(* the text of the note was typed on; confirm the contact the delete       *)
(* dialog was opened on.                                                   *)
(***************************************************************************)
DetailInit ==
  /\ screen = "contact"
  /\ \E t \in Targets, can \in Grants :
       /\ props = [target |-> t, can |-> can]
       /\ calls = Loading(NoCalls, "load", t)
  /\ view = [contact |-> None, draft |-> None, confirm |-> None, failed |-> None]
  /\ ops = [op \in {"note", "delete"} |-> Idle]
  /\ astray = FALSE

DetailScopes(p) ==
  [note |-> <<p.target, "update" \in p.can>>, delete |-> <<p.target, "remove" \in p.can>>]

(* A contact that is not the one asked for is never rendered.              *)
Visible(v, p) == v.contact # None /\ v.contact = p.target

(* Another contact is another draft and another confirmation.              *)
DetailCommit(p, v, o, c) ==
  LET before == DetailScopes(props)  after == DetailScopes(p)
      kept == [v EXCEPT !.draft = IF p.target = props.target THEN @ ELSE None,
                        !.confirm = IF after.delete = before.delete THEN @ ELSE None]
  IN  Commit(before, after, p, kept, o, c)

(* load: the contact, its activities and its notes are awaited together,   *)
(* and nothing stays on screen meanwhile.                                  *)
Emptied(v) == [v EXCEPT !.contact = None, !.failed = None]

DetailRetarget ==
  /\ MayLoad("load")
  /\ \E t \in Targets \ {props.target} :
       DetailCommit([props EXCEPT !.target = t], Emptied(view), ops, Loading(calls, "load", t))
  /\ UNCHANGED astray

DetailRegrant ==
  /\ \E p \in Regrants : DetailCommit(p, view, ops, calls)
  /\ UNCHANGED astray

DetailRetryLoad ==
  /\ view.failed = "retryable" /\ HasSlot
  /\ DetailCommit(props, Emptied(view), ops, Loading(calls, "load", props.target))
  /\ UNCHANGED astray

TypeNote ==
  /\ Visible(view, props) /\ "update" \in props.can
  /\ DetailCommit(props, [view EXCEPT !.draft = props.target], ops, calls)
  /\ UNCHANGED astray

addNote ==
  /\ Visible(view, props) /\ "update" \in props.can /\ view.draft # None
  /\ MayStart("note") /\ HasSlot
  /\ LET args == [names |-> {view.contact}, asked |-> {view.draft}]
     IN  DetailCommit(props, view, Attempted("note", args),
                      Made(calls, Request("note", props.target, args)))
  /\ UNCHANGED astray

AskDelete ==
  /\ Visible(view, props) /\ "remove" \in props.can /\ MayStart("delete")
  /\ DetailCommit(props, [view EXCEPT !.confirm = props.target], ops, calls)
  /\ UNCHANGED astray

CancelDelete ==
  /\ Visible(view, props) /\ view.confirm # None
  /\ DetailCommit(props, [view EXCEPT !.confirm = None], ops, calls)
  /\ UNCHANGED astray

removeContact ==
  /\ Visible(view, props) /\ "remove" \in props.can /\ view.confirm # None
  /\ MayStart("delete") /\ HasSlot
  /\ LET args == [names |-> {view.contact}, asked |-> {view.confirm}]
     IN  DetailCommit(props, view, Attempted("delete", args),
                      Made(calls, Request("delete", props.target, args)))
  /\ UNCHANGED astray

DetailRetry(op) ==
  /\ Visible(view, props) /\ MayRetry(op) /\ HasSlot
  /\ (IF op = "note" THEN "update" ELSE "remove") \in props.can
  /\ DetailCommit(props, view, Attempted(op, ops[op].last),
                  Made(calls, Request(op, props.target, ops[op].last)))
  /\ UNCHANGED astray

DetailLoaded(s, answer) ==
  /\ calls[s] # None /\ calls[s].op = "load"
  /\ Apply(calls[s], props.target)
  /\ DetailCommit(props,
       IF answer = "ok" THEN [view EXCEPT !.contact = calls[s].about]
                        ELSE [view EXCEPT !.failed = safeAdapterCall(answer)],
       ops, Taken(s))

(* The answer to a note or a deletion; a deletion that succeeded leaves    *)
(* for the list, which the history of applied answers records.             *)
DetailAnswered(s, answer) ==
  /\ calls[s] # None /\ calls[s].op \in {"note", "delete"}
  /\ LET op == calls[s].op
         v == [view EXCEPT !.confirm = IF op = "delete" THEN None ELSE @]
     IN  IF ~calls[s].live
         THEN DetailCommit(props, v, ops, Taken(s)) /\ UNCHANGED astray
         ELSE /\ Apply(calls[s], props.target)
              /\ DetailCommit(props,
                   [v EXCEPT !.draft = IF op = "note" /\ answer = "ok" THEN None ELSE @],
                   Settled(op, answer), Taken(s))

DetailNext ==
  /\ screen = "contact"
  /\ \/ DetailRetarget \/ DetailRegrant \/ DetailRetryLoad \/ TypeNote \/ addNote
     \/ AskDelete \/ CancelDelete \/ removeContact
     \/ \E op \in {"note", "delete"} : DetailRetry(op)
     \/ \E s \in Slots, answer \in Answers : DetailLoaded(s, answer) \/ DetailAnswered(s, answer)

(***************************************************************************)
(* The form.  Without a target it creates, with one it edits.  The input   *)
(* remembers the context its values were given in; owner is the context    *)
(* that may render and submit it.                                          *)
(***************************************************************************)
Allowed(p) == (IF p.target = None THEN "create" ELSE "update") \in p.can

FormScopes(p) == [save |-> <<p.target, Allowed(p)>>]

EmptyInput == [of |-> None, valid |-> FALSE]

FormInit ==
  /\ screen = "form"
  /\ \E t \in Targets \cup {None}, can \in Grants :
       /\ props = [target |-> t, can |-> can]
       /\ view = [input |-> IF t = None THEN EmptyInput ELSE None, owner |-> <<t>>,
                  invalid |-> FALSE, failed |-> None]
       /\ calls = IF t = None THEN NoCalls ELSE Loading(NoCalls, "load", t)
  /\ ops = [op \in {"save"} |-> Idle]
  /\ astray = FALSE

Ready(v, p) == v.input # None /\ v.owner = <<p.target>>

FormCommit(p, v, o, c) == Commit(FormScopes(props), FormScopes(p), p, v, o, c)

(* The form is closed until the load that matches its contact arrives.     *)
FormClosed(v) == [v EXCEPT !.input = None, !.owner = None, !.failed = None]

(* Another mode or contact: what the previous context owned is retired, a  *)
(* form that creates starts empty, one that edits waits for its load.      *)
FormRetarget ==
  \E t \in (Targets \cup {None}) \ {props.target} :
    LET p == [props EXCEPT !.target = t]
        v == [FormClosed(view) EXCEPT !.invalid = FALSE]
    IN  /\ IF t = None
           THEN FormCommit(p, [v EXCEPT !.input = EmptyInput, !.owner = <<None>>],
                           ops, Superseded(calls, "load"))
           ELSE MayLoad("load") /\ FormCommit(p, v, ops, Loading(calls, "load", t))
        /\ UNCHANGED astray

FormRegrant ==
  /\ \E p \in Regrants : FormCommit(p, view, ops, calls)
  /\ UNCHANGED astray

FormRetryLoad ==
  /\ view.failed = "retryable" /\ HasSlot /\ props.target # None
  /\ FormCommit(props, FormClosed(view), ops, Loading(calls, "load", props.target))
  /\ UNCHANGED astray

(* update: a field is edited; an alert goes with the last invalid field.   *)
EditField ==
  /\ Ready(view, props) /\ Allowed(props)
  /\ \E valid \in BOOLEAN :
       FormCommit(props, [view EXCEPT !.input.valid = valid,
                                      !.invalid = @ /\ ~valid], ops, calls)
  /\ UNCHANGED astray

(* submit: names and address are checked first; what is saved is the input *)
(* as it was submitted, also by a retry.                                   *)
submit ==
  /\ Ready(view, props) /\ Allowed(props) /\ MayStart("save")
  /\ IF ~view.input.valid
     THEN FormCommit(props, [view EXCEPT !.invalid = TRUE], ops, calls)
     ELSE /\ HasSlot
          /\ LET args == [names |-> {props.target}, asked |-> {view.input.of}]
             IN  FormCommit(props, [view EXCEPT !.invalid = FALSE], Attempted("save", args),
                            Made(calls, Request("save", props.target, args)))
  /\ UNCHANGED astray

FormRetry ==
  /\ Ready(view, props) /\ MayRetry("save") /\ HasSlot
  /\ FormCommit(props, view, Attempted("save", ops["save"].last),
                Made(calls, Request("save", props.target, ops["save"].last)))
  /\ UNCHANGED astray

FormLoaded(s, answer) ==
  /\ calls[s] # None /\ calls[s].op = "load"
  /\ Apply(calls[s], props.target)
  /\ FormCommit(props,
       IF answer = "ok"
       THEN [view EXCEPT !.input = [of |-> calls[s].about, valid |-> TRUE],
                         !.owner = <<props.target>>]
       ELSE [view EXCEPT !.failed = safeAdapterCall(answer)], ops, Taken(s))

(* Saved: the form leaves for the contact that was saved.                  *)
FormAnswered(s, answer) ==
  /\ calls[s] # None /\ calls[s].op = "save"
  /\ IF ~calls[s].live
     THEN FormCommit(props, view, ops, Taken(s)) /\ UNCHANGED astray
     ELSE /\ Apply(calls[s], props.target)
          /\ FormCommit(props, view, Settled("save", answer), Taken(s))

FormNext ==
  /\ screen = "form"
  /\ \/ FormRetarget \/ FormRegrant \/ FormRetryLoad \/ EditField \/ submit \/ FormRetry
     \/ \E s \in Slots, answer \in Answers : FormLoaded(s, answer) \/ FormAnswered(s, answer)
=================================================================================
