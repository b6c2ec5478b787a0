------------------------------- MODULE ListScreens -------------------------------
(***************************************************************************)
(* The contact lists of ui-crm: the list of lists, which creates, renames  *)
(* and deletes them, and one list with its members.  Beside the hook each  *)
(* write has a lock, taken before the call and released after it, that a   *)
(* change of scope does not release.                                       *)
(***************************************************************************)
EXTENDS CrmOperation

CONSTANTS Lists, ListQueries, Members

Flipped(set, x) == IF x \in set THEN set \ {x} ELSE set \cup {x}

(***************************************************************************)
(* Locks                                                                   *)
(***************************************************************************)
Locked(v, op) == op \in v.locks
Lock(v, op) == [v EXCEPT !.locks = @ \cup {op}]
Unlock(v, op) == [v EXCEPT !.locks = @ \ {op}]

(* Mutant: a lock is released with the capability, as the hook is.         *)
LocksOfCapability(v, p) == IF p.can = props.can THEN v.locks ELSE {}

(* No change of scope releases a lock.                                     *)
LocksKept(v, p) == v.locks

(***************************************************************************)
(* The list of lists.  draft tells whether a name was typed; editing is    *)
(* the list in the edit form and the value it holds; deleting the list the *)
(* delete dialog is, or was last, open for.  asked is history: the query   *)
(* of the load that was asked for last.                                    *)
(***************************************************************************)
ListsInit ==
  /\ screen = "lists"
  /\ props \in [target : {None}, can : Grants]
  /\ \E q \in ListQueries :
       /\ view = [query |-> q, asked |-> q, page |-> None, loading |-> TRUE, failed |-> None,
                  named |-> FALSE, editing |-> None, deleting |-> None, confirm |-> None,
                  locks |-> {}]
       /\ calls = Loading(NoCalls, "load", q)
  /\ ops = [op \in {"create", "edit", "delete"} |-> Idle]
  /\ astray = FALSE

ListScopes(v, p) ==
  [create |-> <<"create" \in p.can, v.named>>,
   edit   |-> <<v.editing, "update" \in p.can>>,
   delete |-> <<v.query, v.deleting, "remove" \in p.can>>]

ListsAbout(op, v) ==
  CASE op = "load"   -> v.asked
    [] op = "create" -> v.named
    [] op = "edit"   -> v.editing
    [] op = "delete" -> v.deleting

(* What a revoked capability closes, and a new query.                      *)
ListsCommit(p, v, o, c) ==
  LET gone == "remove" \notin p.can \/ v.query # view.query
      kept == [v EXCEPT !.editing = IF "update" \in p.can THEN @ ELSE None,
                        !.deleting = IF gone THEN None ELSE @,
                        !.confirm = IF gone THEN None ELSE @,
                        !.locks = LocksKept(v, p)]
  IN  Commit(ListScopes(view, props), ListScopes(kept, p), p, kept, o, c)

(* load, of the render in which the query was q.                           *)
Fetching(v, q) == [v EXCEPT !.loading = TRUE, !.failed = None, !.asked = q]

(* The search and the page buttons wait for a deletion; a search for what  *)
(* is searched for already is a new query too, and loads again.            *)
ListsQuery ==
  /\ ~Locked(view, "delete") /\ MayLoad("load")
  /\ \E q \in ListQueries :
       ListsCommit(props, [Fetching(view, q) EXCEPT !.query = q], ops, Loading(calls, "load", q))
  /\ UNCHANGED astray

ListsRetryLoad ==
  /\ view.failed = "retryable" /\ HasSlot
  /\ ListsCommit(props, Fetching(view, view.query), ops, Loading(calls, "load", view.query))
  /\ UNCHANGED astray

ListsShown == IF view.loading \/ view.failed # None \/ view.page = None THEN {} ELSE view.page

(* The forms are disabled while their write is in flight.                  *)
NameDraft ==
  /\ "create" \in props.can /\ ~Locked(view, "create")
  /\ ListsCommit(props, [view EXCEPT !.named = ~@], ops, calls)
  /\ UNCHANGED astray

EditList ==
  /\ "update" \in props.can /\ ~Locked(view, "edit")
  /\ \E e \in {[id |-> l, changed |-> FALSE] : l \in ListsShown} \cup {None}
            \cup (IF view.editing = None THEN {} ELSE {[view.editing EXCEPT !.changed = TRUE]}) :
       ListsCommit(props, [view EXCEPT !.editing = e], ops, calls)
  /\ UNCHANGED astray

AskDeleteList ==
  /\ "remove" \in props.can /\ ~Locked(view, "delete")
  /\ \E l \in ListsShown :
       ListsCommit(props, [view EXCEPT !.deleting = l, !.confirm = l], ops, calls)
  /\ UNCHANGED astray

(* The button waits for the deletion, the dialog's Escape does not.        *)
CancelDeleteList ==
  /\ view.confirm # None
  /\ ListsCommit(props, [view EXCEPT !.deleting = None, !.confirm = None], ops, calls)
  /\ UNCHANGED astray

(* A write: the lock, then the hook; a hook that is still in flight        *)
(* refuses the call and the lock is released at once.  Its handling of     *)
(* success is that of the render it was submitted in: it will load the     *)
(* lists for the query of that render, and a retry replays it so.          *)
Submission(names, asked) == [names |-> names, asked |-> asked, reload |-> view.query]

ListWrite(op, v, args) ==
  /\ ~Locked(view, op) /\ MayStart(op) /\ HasSlot
  /\ ListsCommit(props, Lock(v, op), Attempted(op, args),
                 Made(calls, Request(op, ListsAbout(op, view), args)))
  /\ UNCHANGED astray

createList ==
  /\ "create" \in props.can /\ view.named
  /\ ListWrite("create", view, Submission({None}, {None}))

updateList ==
  /\ "update" \in props.can /\ view.editing # None
  /\ ListWrite("edit", view, Submission({view.editing.id}, {view.editing.id}))

removeList ==
  /\ "remove" \in props.can /\ view.deleting # None /\ view.confirm # None
  /\ ListWrite("delete", [view EXCEPT !.confirm = None],
               Submission({view.deleting}, {view.confirm}))

ListShows(op) ==
  CASE op = "create" -> "create" \in props.can
    [] op = "edit"   -> "update" \in props.can /\ view.editing # None
    [] op = "delete" -> "remove" \in props.can

retryList(op) ==
  /\ ListShows(op) /\ MayRetry(op)
  /\ ListWrite(op, view, ops[op].last)

ListsLoaded(s, answer) ==
  /\ calls[s] # None /\ calls[s].op = "load"
  /\ Apply(calls[s], ListsAbout("load", view))
  /\ IF answer = "ok"
     THEN \E page \in SUBSET Lists :
            ListsCommit(props, [view EXCEPT !.loading = FALSE, !.page = page],
                        ops, Taken(s))
     ELSE ListsCommit(props, [view EXCEPT !.loading = FALSE, !.page = None,
                                          !.failed = safeAdapterCall(answer)],
                      ops, Taken(s))

(* The answer: what the write closes, then the lists load again, for the   *)
(* query at the submission: the scopes of create and edit do not name the  *)
(* query, so the user may have searched meanwhile, and this load overtakes *)
(* that of the search.  The lock is released also where the answer is too  *)
(* late.                                                                   *)
ListAnswered(s, answer) ==
  /\ calls[s] # None /\ calls[s].op \in {"create", "edit", "delete"}
  /\ LET op == calls[s].op
         v == Unlock(view, op)
         done == CASE op = "create" -> [v EXCEPT !.named = FALSE]
                   [] op = "edit"   -> [v EXCEPT !.editing = None]
                   [] op = "delete" -> [v EXCEPT !.deleting = None]
     IN  IF ~calls[s].live
         THEN ListsCommit(props, v, ops, Taken(s)) /\ UNCHANGED astray
         ELSE /\ Apply(calls[s], ListsAbout(op, view))
              /\ IF answer = "ok"
                 THEN LET q == calls[s].args.reload
                      IN  ListsCommit(props, Fetching(done, q), Settled(op, answer),
                                      Loading(Taken(s), "load", q))
                 ELSE ListsCommit(props, v, Settled(op, answer), Taken(s))

ListsRegrant ==
  /\ \E p \in Regrants : ListsCommit(p, view, ops, calls)
  /\ UNCHANGED astray

ListsNext ==
  /\ screen = "lists"
  /\ \/ ListsQuery \/ ListsRetryLoad \/ NameDraft \/ EditList \/ AskDeleteList
     \/ CancelDeleteList \/ createList \/ updateList \/ removeList \/ ListsRegrant
     \/ \E op \in {"create", "edit", "delete"} : retryList(op)
     \/ \E s \in Slots, answer \in Answers : ListsLoaded(s, answer) \/ ListAnswered(s, answer)

(***************************************************************************)
(* One list: its members, and the contacts that may be added.  confirm is  *)
(* the choice the removal dialog was opened on.                            *)
(***************************************************************************)
ListInit ==
  /\ screen = "list"
  /\ \E t \in Targets, q \in ListQueries, can \in Grants :
       /\ props = [target |-> t, can |-> can]
       /\ view = [list |-> None, failed |-> None, query |-> q, found |-> None, missed |-> None,
                  toAdd |-> {}, toRemove |-> {}, confirm |-> None, locks |-> {}]
       /\ calls = Loading(Loading(NoCalls, "load", t), "search", <<t, q>>)
  /\ ops = [op \in {"add", "remove"} |-> Idle]
  /\ astray = FALSE

CanAdd(p) == {"update", "bulkActions"} \subseteq p.can
CanRemove(p) == {"remove", "bulkActions"} \subseteq p.can

MemberScopes(v, p) ==
  [add    |-> <<p.target, v.query, v.toAdd, CanAdd(p)>>,
   remove |-> <<p.target, v.toRemove, CanRemove(p)>>]

MembersAbout(op, v) ==
  CASE op = "load"   -> props.target
    [] op = "search" -> <<props.target, v.query>>
    [] op = "add"    -> <<props.target, v.toAdd>>
    [] op = "remove" -> <<props.target, v.toRemove>>

ListVisible(v, p) == v.list # None /\ v.list.id = p.target

(* A removal dialog belongs to one list, one choice and what the user may do. *)
RemovalKept(v, p) ==
  IF /\ p.target = props.target /\ v.toRemove = view.toRemove
     /\ CanRemove(p) = CanRemove(props)
  THEN v.confirm ELSE None

MembersCommit(p, v, o, c) ==
  LET elsewhere == p.target # props.target
      kept == [v EXCEPT !.toAdd = IF elsewhere \/ v.query # view.query THEN {} ELSE @,
                        !.toRemove = IF elsewhere THEN {} ELSE @]
      closed == [kept EXCEPT !.confirm = RemovalKept(kept, p), !.locks = LocksKept(v, p)]
  IN  Commit(MemberScopes(view, props), MemberScopes(closed, p), p, closed, o, c)

LoadingList(v) == [v EXCEPT !.list = None, !.failed = None]
Searching(v) == [v EXCEPT !.found = None, !.missed = None]

(* Searching is a request of its own beside the load of the list.          *)
SearchFrom(c, about) == Loading(c, "search", about)

MayLoadBoth == Cardinality({s \in Slots : calls[s] = None \/ calls[s].op \in {"load", "search"}}) > 1

ListRetarget ==
  /\ MayLoadBoth
  /\ \E t \in Targets \ {props.target} :
       MembersCommit([props EXCEPT !.target = t], Searching(LoadingList(view)), ops,
                     SearchFrom(Loading(calls, "load", t), <<t, view.query>>))
  /\ UNCHANGED astray

SearchContacts ==
  /\ ListVisible(view, props) /\ ~Locked(view, "add") /\ MayLoad("search")
  /\ \E q \in ListQueries :
       MembersCommit(props, [Searching(view) EXCEPT !.query = q], ops,
                     SearchFrom(calls, <<props.target, q>>))
  /\ UNCHANGED astray

ListRetryLoad ==
  /\ view.failed = "retryable" /\ HasSlot
  /\ MembersCommit(props, LoadingList(view), ops, Loading(calls, "load", props.target))
  /\ UNCHANGED astray

SearchRetry ==
  /\ ListVisible(view, props) /\ view.missed = "retryable" /\ HasSlot
  /\ MembersCommit(props, Searching(view), ops, SearchFrom(calls, <<props.target, view.query>>))
  /\ UNCHANGED astray

ToggleMember ==
  /\ ListVisible(view, props)
  /\ \/ /\ CanRemove(props) /\ ~Locked(view, "remove")
        /\ \E c \in view.list.members :
             MembersCommit(props, [view EXCEPT !.toRemove = Flipped(@, c)], ops, calls)
     \/ /\ CanAdd(props) /\ ~Locked(view, "add") /\ view.found # None
        /\ \E c \in view.found :
             MembersCommit(props, [view EXCEPT !.toAdd = Flipped(@, c)], ops, calls)
  /\ UNCHANGED astray

AskRemoval ==
  /\ ListVisible(view, props) /\ CanRemove(props)
  /\ view.toRemove # {} /\ ~Locked(view, "remove")
  /\ MembersCommit(props, [view EXCEPT !.confirm = view.toRemove], ops, calls)
  /\ UNCHANGED astray

CancelRemoval ==
  /\ ListVisible(view, props) /\ CanRemove(props) /\ view.confirm # None
  /\ MembersCommit(props, [view EXCEPT !.confirm = None], ops, calls)
  /\ UNCHANGED astray

MemberWrite(op, v, args) ==
  /\ ListVisible(view, props) /\ ~Locked(view, op) /\ MayStart(op) /\ HasSlot
  /\ MembersCommit(props, Lock(v, op), Attempted(op, args),
                   Made(calls, Request(op, MembersAbout(op, view), args)))
  /\ UNCHANGED astray

addMembers ==
  /\ CanAdd(props) /\ view.toAdd # {}
  /\ MemberWrite("add", view,
                 [names |-> <<view.list.id, view.toAdd>>, asked |-> <<props.target, view.toAdd>>])

removeMembers ==
  /\ CanRemove(props) /\ view.toRemove # {} /\ view.confirm # None
  /\ MemberWrite("remove", [view EXCEPT !.confirm = None],
                 [names |-> <<view.list.id, view.toRemove>>,
                  asked |-> <<props.target, view.confirm>>])

retryMembers(op) ==
  /\ MayRetry(op)
  /\ IF op = "add" THEN CanAdd(props) ELSE CanRemove(props)
  /\ MemberWrite(op, view, ops[op].last)

ListLoaded(s, answer) ==
  /\ calls[s] # None /\ calls[s].op = "load"
  /\ Apply(calls[s], MembersAbout("load", view))
  /\ IF answer = "ok"
     THEN \E members \in SUBSET Members :
            MembersCommit(props,
              [view EXCEPT !.list = [id |-> calls[s].about, members |-> members]],
              ops, Taken(s))
     ELSE MembersCommit(props, [view EXCEPT !.failed = safeAdapterCall(answer)],
                        ops, Taken(s))

ContactsFound(s, answer) ==
  /\ calls[s] # None /\ calls[s].op = "search"
  /\ Apply(calls[s], MembersAbout("search", view))
  /\ MembersCommit(props,
       IF answer = "ok" THEN [view EXCEPT !.found = Members]
                        ELSE [view EXCEPT !.missed = safeAdapterCall(answer)],
       ops, Taken(s))

MembersAnswered(s, answer) ==
  /\ calls[s] # None /\ calls[s].op \in {"add", "remove"}
  /\ LET op == calls[s].op
         v == Unlock(view, op)
         done == IF op = "add" THEN [v EXCEPT !.toAdd = {}] ELSE [v EXCEPT !.toRemove = {}]
     IN  IF ~calls[s].live
         THEN MembersCommit(props, v, ops, Taken(s)) /\ UNCHANGED astray
         ELSE /\ Apply(calls[s], MembersAbout(op, view))
              /\ IF answer = "ok"
                 THEN MembersCommit(props, LoadingList(done), Settled(op, answer),
                                    Loading(Taken(s), "load", props.target))
                 ELSE MembersCommit(props, v, Settled(op, answer), Taken(s))

ListRegrant ==
  /\ \E p \in Regrants : MembersCommit(p, view, ops, calls)
  /\ UNCHANGED astray

ListNext ==
  /\ screen = "list"
  /\ \/ ListRetarget \/ SearchContacts \/ ListRetryLoad \/ SearchRetry \/ ToggleMember
     \/ AskRemoval \/ CancelRemoval \/ addMembers \/ removeMembers \/ ListRegrant
     \/ \E op \in {"add", "remove"} : retryMembers(op)
     \/ \E s \in Slots, answer \in Answers :
          ListLoaded(s, answer) \/ ContactsFound(s, answer) \/ MembersAnswered(s, answer)
=================================================================================
