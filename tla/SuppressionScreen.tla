---------------------------- MODULE SuppressionScreen ----------------------------
(***************************************************************************)
(* The suppression screen of ui-crm: one row for each contact and channel, *)
(* set one by one or in bulk for one channel.  A single lock covers every  *)
(* mutation of the screen; while it is held the controls are disabled.     *)
(***************************************************************************)
EXTENDS CrmOperation

CONSTANTS
  Rows,               \* the suppressions there are, by the name of their hook
  ContactOf,          \* [Rows -> contact]
  ChannelOf,          \* [Rows -> channel]
  SuppressionQueries

ASSUME RowsAssumption == Rows \subseteq OpNames /\ Rows \cap {"bulk", "load"} = {}

Channels == {ChannelOf[r] : r \in Rows}

(* None, the scope of a row that is not mounted, is that of no row.        *)
ASSUME RowScopesAssumption ==
  None \notin BOOLEAN \X BOOLEAN
            \X [contacts : SUBSET {ContactOf[r] : r \in Rows}, channel : Channels,
                suppressed : BOOLEAN]

(* page is what the last load of this query returned: the rows and, for    *)
(* each, whether it is suppressed.  Of reason and source only edited is    *)
(* kept: the rows whose text the user changed, for it is part of what the  *)
(* row's operation would send.                                             *)
SuppressionInit ==
  /\ screen = "suppression"
  /\ props \in [target : {None}, can : Grants]
  /\ \E q \in SuppressionQueries, ch \in Channels :
       /\ view = [query |-> q, page |-> None, loading |-> TRUE, failed |-> None,
                  selected |-> {}, channel |-> ch, suppress |-> TRUE,
                  edited |-> {}, locked |-> FALSE]
       /\ calls = Loading(NoCalls, "load", q)
  /\ ops = [op \in {"bulk"} \cup Rows |-> Idle]
  /\ astray = FALSE

CanBulk(p) == {"update", "bulkActions"} \subseteq p.can

BulkInput(v) == [contacts |-> v.selected, channel |-> v.channel, suppressed |-> v.suppress]

(* What a row would send: the opposite of what it shows.                   *)
RowInput(v, r) ==
  [contacts |-> {ContactOf[r]}, channel |-> ChannelOf[r], suppressed |-> ~v.page[r]]

TableShown(v) == ~v.loading /\ v.failed = None /\ v.page # None

(* A row and its operation are unmounted with the table.                   *)
RowMounted(v, r) == TableShown(v) /\ r \in DOMAIN v.page

SuppressionScopes(v, p) ==
  [op \in {"bulk"} \cup Rows |->
     IF op = "bulk" THEN <<v.query, CanBulk(p), BulkInput(v)>>
     ELSE IF RowMounted(v, op) THEN <<op \in v.edited, "update" \in p.can, RowInput(v, op)>>
     ELSE None]

SuppressionAbout(op, v) ==
  CASE op = "load" -> v.query
    [] op = "bulk" -> BulkInput(v)
    [] op \in Rows -> IF RowMounted(v, op) THEN RowInput(v, op) ELSE None

SuppressionCommit(p, v, o, c) ==
  LET kept == [v EXCEPT !.selected = IF v.query = view.query THEN @ ELSE {}]
  IN  Commit(SuppressionScopes(view, props), SuppressionScopes(kept, p), p, kept, o, c)

Refetching(v) == [v EXCEPT !.loading = TRUE, !.failed = None]

SuppressionQuery ==
  /\ ~view.locked /\ MayLoad("load")
  /\ \E q \in SuppressionQueries :
       SuppressionCommit(props, [Refetching(view) EXCEPT !.query = q], ops,
                         Loading(calls, "load", q))
  /\ UNCHANGED astray

SuppressionRetryLoad ==
  /\ view.failed = "retryable" /\ HasSlot
  /\ SuppressionCommit(props, Refetching(view), ops, Loading(calls, "load", view.query))
  /\ UNCHANGED astray

(* A row is selected for the bulk channel; a row of another channel turns  *)
(* the bulk to its channel and starts the selection anew.  The channel is  *)
(* an argument of load, so turning it loads the page again.                *)
Chosen(v, r) ==
  IF ChannelOf[r] = v.channel
  THEN [v EXCEPT !.selected = @ \cup {ContactOf[r]}]
  ELSE [v EXCEPT !.channel = ChannelOf[r], !.selected = {ContactOf[r]}]

select ==
  /\ ~view.locked /\ CanBulk(props) /\ TableShown(view)
  /\ \E r \in DOMAIN view.page :
       LET checked == ChannelOf[r] = view.channel /\ ContactOf[r] \in view.selected
           v == IF checked THEN [view EXCEPT !.selected = @ \ {ContactOf[r]}] ELSE Chosen(view, r)
       IN  IF v.channel = view.channel
           THEN SuppressionCommit(props, v, ops, calls)
           ELSE MayLoad("load") /\ SuppressionCommit(props, Refetching(v), ops,
                                             Loading(calls, "load", v.query))
  /\ UNCHANGED astray

(* The bulk form: another channel empties the selection and loads again.   *)
SetBulkForm ==
  /\ ~view.locked /\ CanBulk(props)
  /\ \/ SuppressionCommit(props, [view EXCEPT !.suppress = ~@], ops, calls)
     \/ \E ch \in Channels \ {view.channel} :
          /\ MayLoad("load")
          /\ SuppressionCommit(props,
               [Refetching(view) EXCEPT !.channel = ch, !.selected = {}], ops,
               Loading(calls, "load", view.query))
  /\ UNCHANGED astray

EditReason ==
  /\ ~view.locked /\ "update" \in props.can /\ TableShown(view)
  /\ \E r \in DOMAIN view.page :
       SuppressionCommit(props, [view EXCEPT !.edited = @ \cup {r}], ops, calls)
  /\ UNCHANGED astray

(* runMutation: the lock, the operation, the release.                      *)
RunMutation(op, v, args) ==
  /\ ~view.locked /\ HasSlot
  /\ SuppressionCommit(props, [v EXCEPT !.locked = TRUE],
       [ops EXCEPT ![op] = [flying |-> TRUE, error |-> None, last |-> args]],
       Made(calls, Request(op, SuppressionAbout(op, v), args)))
  /\ UNCHANGED astray

bulkSet ==
  /\ CanBulk(props) /\ view.selected # {} /\ MayStart("bulk")
  /\ RunMutation("bulk", view, [names |-> BulkInput(view), asked |-> BulkInput(view)])

setSuppression ==
  /\ "update" \in props.can /\ TableShown(view)
  /\ \E r \in DOMAIN view.page :
       /\ MayStart(r)
       /\ RunMutation(r, view, [names |-> RowInput(view, r), asked |-> RowInput(view, r)])

SuppressionRetry(op) ==
  /\ MayRetry(op)
  /\ IF op = "bulk" THEN CanBulk(props) ELSE "update" \in props.can /\ RowMounted(view, op)
  /\ RunMutation(op, view, ops[op].last)

(* Mutant: the selection keeps every contact that has a row.               *)
StillListedAtAll(v, page) == {c \in v.selected : \E r \in page : ContactOf[r] = c}

(* The selection keeps the contacts that have a row of the bulk channel.   *)
StillListed(v, page) ==
  {c \in v.selected : \E r \in page : ContactOf[r] = c /\ ChannelOf[r] = v.channel}

SuppressionLoaded(s, answer) ==
  /\ calls[s] # None /\ calls[s].op = "load"
  /\ Apply(calls[s], SuppressionAbout("load", view))
  /\ IF answer = "ok"
     THEN \E page \in SUBSET Rows, on \in BOOLEAN :
            SuppressionCommit(props,
              [view EXCEPT !.loading = FALSE, !.page = [r \in page |-> on],
                           !.edited = {}, !.selected = StillListed(view, page)], ops, Taken(s))
     ELSE SuppressionCommit(props,
            [view EXCEPT !.loading = FALSE, !.page = None,
                         !.failed = safeAdapterCall(answer)], ops, Taken(s))

SuppressionAnswered(s, answer) ==
  /\ calls[s] # None /\ calls[s].op # "load"
  /\ LET op == calls[s].op
         v == [view EXCEPT !.locked = FALSE]
         done == IF op = "bulk" THEN [v EXCEPT !.selected = {}] ELSE v
     IN  IF ~calls[s].live
         THEN SuppressionCommit(props, v, ops, Taken(s)) /\ UNCHANGED astray
         ELSE /\ Apply(calls[s], SuppressionAbout(op, view))
              /\ IF answer = "ok"
                 THEN SuppressionCommit(props, Refetching(done), Settled(op, answer),
                                        Loading(Taken(s), "load", view.query))
                 ELSE SuppressionCommit(props, v, Settled(op, answer), Taken(s))

SuppressionRegrant ==
  /\ \E p \in Regrants : SuppressionCommit(p, view, ops, calls)
  /\ UNCHANGED astray

SuppressionNext ==
  /\ screen = "suppression"
  /\ \/ SuppressionQuery \/ SuppressionRetryLoad \/ select \/ SetBulkForm \/ EditReason
     \/ bulkSet \/ setSuppression \/ SuppressionRegrant
     \/ \E op \in {"bulk"} \cup Rows : SuppressionRetry(op)
     \/ \E s \in Slots, answer \in Answers :
          SuppressionLoaded(s, answer) \/ SuppressionAnswered(s, answer)

(***************************************************************************)
(* Properties                                                              *)
(***************************************************************************)

(* What the bulk action would opt in or out is what the table showed: every *)
(* selected contact has a row of the bulk channel in the page that was     *)
(* loaded last, however the user went from channel to channel and whichever *)
(* load answered in between.                                               *)
SelectedAreListed ==
  screen = "suppression" /\ TableShown(view) =>
    \A c \in view.selected :
      \E r \in DOMAIN view.page : ContactOf[r] = c /\ ChannelOf[r] = view.channel
=================================================================================
