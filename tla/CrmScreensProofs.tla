---------------------------- MODULE CrmScreensProofs ----------------------------
(***************************************************************************)
(* Proofs about the screens of ui-crm.                                     *)
(***************************************************************************)
EXTENDS CrmScreens, FiniteSetTheorems, TLAPS

\* What a write asked for is what it names.
AskedFor(N) == {[names |-> n, asked |-> n] : n \in N}

Failures == {None, "retryable", "final"}

\* The hooks of the operations O, whose attempts carry A.
Hooks(O, A) == [O -> [flying : BOOLEAN, error : Failures, last : A \cup {None}]]

\* The calls in flight are of G.
Flights(G) == [Slots -> G \cup {None}]

\* What is asked without arguments, about x.
Asking(op, x) == [op : {op}, about : {x}, args : {None}, live : {TRUE}]

\* The live writes of O, about x, and those that are too late, about any of X.
Writing(O, x, A) == [op : O, about : {x}, args : A, live : {TRUE}]
Late(O, X, A) == [op : O, about : X, args : A, live : {FALSE}]

-------------------------------------------------------------------------------
(* The hook and the calls in flight *)

LEMMA AttemptedHooks ==
  ASSUME NEW O, NEW A, ops \in Hooks(O, A), NEW op \in O, NEW args \in A
  PROVE  Attempted(op, args) \in Hooks(O, A)
BY DEF Hooks, Attempted, Failures

LEMMA SettledHooks ==
  ASSUME NEW O, NEW A, ops \in Hooks(O, A), NEW op \in O, NEW answer \in Answers
  PROVE  Settled(op, answer) \in Hooks(O, A)
<1> DEFINE error == IF answer = "ok" THEN None ELSE safeAdapterCall(answer)
           last == IF answer = "retryable" THEN ops[op].last ELSE None
<1>1. error \in Failures
  BY DEF Answers, safeAdapterCall, Failures
<1>2. ops[op] \in [flying : BOOLEAN, error : Failures, last : A \cup {None}]
  BY DEF Hooks
<1>3. last \in A \cup {None}
  BY <1>2
<1>4. Settled(op, answer) =
        [ops EXCEPT ![op] = [[[ops[op] EXCEPT !.flying = FALSE] EXCEPT !.error = error]
                              EXCEPT !.last = last]]
  BY DEF Settled, Hooks
<1> HIDE DEF error, last
<1> QED BY <1>1, <1>2, <1>3, <1>4 DEF Hooks

LEMMA AttemptedBesides ==
  ASSUME NEW O, NEW A, ops \in Hooks(O, A), NEW op \in O, NEW args
  PROVE  /\ Attempted(op, args)[op].flying /\ Attempted(op, args)[op].last = args
         /\ \A q \in O \ {op} : Attempted(op, args)[q] = ops[q]
BY DEF Hooks, Attempted

LEMMA SettledBesides ==
  ASSUME NEW O, NEW A, ops \in Hooks(O, A), NEW op \in O, NEW answer
  PROVE  /\ ~Settled(op, answer)[op].flying
         /\ answer # "retryable" => Settled(op, answer)[op].last = None
         /\ \A q \in O \ {op} : Settled(op, answer)[q] = ops[q]
BY DEF Hooks, Settled

LEMMA RescopedHooks ==
  ASSUME NEW O, NEW A, NEW o \in Hooks(O, A), NEW before, NEW after
  PROVE  Rescoped(before, after, o) \in Hooks(O, A)
BY DEF Hooks, Rescoped, Idle, Failures

LEMMA IdleHooks ==
  ASSUME NEW O, NEW A
  PROVE  [op \in O |-> Idle] \in Hooks(O, A)
BY DEF Hooks, Idle, Failures

LEMMA MadeFlights ==
  ASSUME NEW G, NEW c \in Flights(G), NEW call \in G
  PROVE  Made(c, call) \in Flights(G)
BY DEF Made, Flights

LEMMA MadeSlots ==
  ASSUME NEW G, NEW c \in Flights(G), NEW call, NEW s \in Slots
  PROVE  Made(c, call)[s] = IF s = FreeSlot(c) THEN call ELSE c[s]
BY DEF Made, Flights

LEMMA TakenFlights ==
  ASSUME NEW G, calls \in Flights(G), NEW s \in Slots
  PROVE  Taken(s) \in Flights(G)
BY DEF Taken, Flights

\* Without the calls of an operation, what is left is of a smaller set.
LEMMA SupersededFlights ==
  ASSUME NEW G, NEW H, NEW c \in Flights(G), NEW op, \A x \in G : x.op = op \/ x \in H
  PROVE  Superseded(c, op) \in Flights(H)
BY DEF Superseded, Flights

LEMMA LoadingFlights ==
  ASSUME NEW G, NEW H, NEW c \in Flights(G), NEW op, NEW about,
         \A x \in G : x.op = op \/ x \in H, Asking(op, about) \subseteq H
  PROVE  Loading(c, op, about) \in Flights(H)
<1>1. Superseded(c, op) \in Flights(H)
  BY SupersededFlights
<1>2. Request(op, about, None) \in H
  BY DEF Request, Asking
<1> QED BY <1>1, <1>2, MadeFlights DEF Loading

\* A commit lets a write live where the scope of its operation is the same,
\* and is too late for it otherwise.
LEMMA RetiredFlights ==
  ASSUME NEW B, NEW L, NEW M, NEW O, NEW X, NEW A, NEW before, NEW after,
         NEW c \in Flights(B \cup L \cup Late(O, X, A)),
         \A x \in B : x.op \notin DOMAIN before,
         L \subseteq [op : O, about : X, args : A, live : {TRUE}],
         \A x \in L : x.op \in DOMAIN before /\ (before[x.op] = after[x.op] => x \in M)
  PROVE  Retired(before, after, c) \in Flights(B \cup M \cup Late(O, X, A))
<1> DEFINE kept(x) == IF x.op \in DOMAIN before /\ before[x.op] # after[x.op]
                      THEN [x EXCEPT !.live = FALSE] ELSE x
<1>1. \A x \in B : kept(x) = x
  OBVIOUS
<1>2. \A x \in L : kept(x) \in M \cup Late(O, X, A)
  <2> TAKE x \in L
  <2>1. [x EXCEPT !.live = FALSE] \in Late(O, X, A)
    BY DEF Late
  <2> QED BY <2>1
<1>3. \A x \in Late(O, X, A) : kept(x) \in Late(O, X, A)
  <2> TAKE x \in Late(O, X, A)
  <2>1. [x EXCEPT !.live = FALSE] \in Late(O, X, A)
    BY DEF Late
  <2> QED BY <2>1
<1>5. \A s \in Slots : c[s] # None => Retired(before, after, c)[s] = kept(c[s])
  BY DEF Retired
<1>6. \A s \in Slots : c[s] = None => Retired(before, after, c)[s] = None
  BY DEF Retired
<1> HIDE DEF kept
<1>7. \A s \in Slots : Retired(before, after, c)[s] \in B \cup M \cup Late(O, X, A) \cup {None}
  BY <1>1, <1>2, <1>3, <1>5, <1>6 DEF Flights
<1> QED BY <1>7 DEF Flights, Retired

LEMMA NoFlights ==
  ASSUME NEW G
  PROVE  NoCalls \in Flights(G)
BY DEF NoCalls, Flights

LEMMA RegrantedProps ==
  ASSUME NEW T, props \in [target : T, can : Grants], NEW p \in Regrants
  PROVE  p \in [target : T, can : Grants] /\ p.target = props.target
BY DEF Regrants

-------------------------------------------------------------------------------
(* The list of contacts *)

ContactsWrites == {"tag", "delete"}
ContactsArgs == AskedFor(SUBSET Contacts)

\* A page, and a dialog that is open for what is selected.
ContactsFields ==
  [query : Queries, page : {None} \cup [query : Queries, rows : SUBSET Contacts],
   loading : BOOLEAN, failed : Failures, selected : SUBSET Contacts,
   confirm : {None} \cup SUBSET Contacts]

ContactsCalls(query, selected) ==
  Asking("load", query) \cup Writing(ContactsWrites, selected, ContactsArgs)
  \cup Late(ContactsWrites, SUBSET Contacts, ContactsArgs)

ContactsInv ==
  /\ astray = FALSE
  /\ view \in ContactsFields /\ view.confirm \in {None, view.selected}
  /\ ops \in Hooks(ContactsWrites, ContactsArgs)
  /\ calls \in Flights(ContactsCalls(view.query, view.selected))

\* The commit of the screen.
LEMMA ContactsCommitted ==
  ASSUME ContactsInv, NEW p, NEW v \in ContactsFields, v.confirm \in {None, view.selected, v.selected},
         v.selected = view.selected \/ v.confirm \in {None, view.selected},
         NEW o \in Hooks(ContactsWrites, ContactsArgs),
         NEW c \in Flights(ContactsCalls(v.query, view.selected)),
         ContactsCommit(p, v, o, c), astray' = FALSE
  PROVE  ContactsInv'
<1> DEFINE before == BulkScopes(view, props)
           after == BulkScopes(v, p)
           kept == ConfirmationKept(v, p)
           closed == [v EXCEPT !.confirm = kept]
           G == ContactsCalls(v.query, view.selected)
           H == ContactsCalls(v.query, v.selected)
           shut == Superseded(Superseded(c, "tag"), "delete")
           left == IF "bulkActions" \notin p.can THEN shut ELSE c
<1>1. /\ view' = closed
      /\ ops' = Rescoped(before, after, o)
      /\ calls' = Retired(before, after, left)
  BY DEF ContactsCommit, Commit
<1>2. kept \in {None, v.selected}
  BY DEF ConfirmationKept, BulkScopes, ContactsFields
<1>3. /\ closed \in ContactsFields /\ closed.confirm = kept
      /\ closed.query = v.query /\ closed.selected = v.selected
  BY <1>2 DEF ContactsFields
<1>4. left \in Flights(G)
  BY SupersededFlights
<1>5. Retired(before, after, left) \in Flights(H)
  <2> DEFINE L == Writing(ContactsWrites, view.selected, ContactsArgs)
             M == Writing(ContactsWrites, v.selected, ContactsArgs)
  <2>1. DOMAIN before = ContactsWrites
    BY DEF BulkScopes, ContactsWrites
  <2>2. \A x \in L : before[x.op] = after[x.op] => x \in M
    <3> SUFFICES ASSUME NEW x \in L, before[x.op] = after[x.op] PROVE v.selected = view.selected
      OBVIOUS
    <3>1. x.op = "tag" \/ x.op = "delete"
      BY DEF Writing, ContactsWrites
    <3> QED BY <3>1 DEF BulkScopes
  <2>3. L \subseteq [op : ContactsWrites, about : SUBSET Contacts, args : ContactsArgs, live : {TRUE}]
    BY DEF Writing, ContactsInv, ContactsFields
  <2>4. \A x \in Asking("load", v.query) : x.op \notin DOMAIN before
    BY <2>1 DEF Asking, ContactsWrites
  <2>5. \A x \in L : x.op \in DOMAIN before
    BY <2>1 DEF Writing
  <2> HIDE DEF before, after, left, L, M
  <2> QED BY <1>4, <2>2, <2>3, <2>4, <2>5, RetiredFlights DEF ContactsCalls, L, M
<1>7. Rescoped(before, after, o) \in Hooks(ContactsWrites, ContactsArgs)
  BY RescopedHooks
<1> QED BY <1>1, <1>2, <1>3, <1>5, <1>7 DEF ContactsInv

LEMMA ContactsBegins == ContactsInit => ContactsInv
<1> SUFFICES ASSUME ContactsInit PROVE ContactsInv
  OBVIOUS
<1>1. PICK q \in Queries :
        /\ view = [query |-> q, page |-> None, loading |-> TRUE, failed |-> None,
                   selected |-> {}, confirm |-> None]
        /\ calls = Loading(NoCalls, "load", q)
  BY DEF ContactsInit
<1>2. view \in ContactsFields /\ view.confirm = None /\ view.query = q /\ view.selected = {}
  BY <1>1 DEF ContactsFields, Failures
<1>3. NoCalls \in Flights({})
  BY NoFlights
<1>4. calls \in Flights(ContactsCalls(q, {}))
  BY <1>1, <1>3, LoadingFlights DEF ContactsCalls
<1>5. ops \in Hooks(ContactsWrites, ContactsArgs)
  BY IdleHooks DEF ContactsInit, ContactsWrites
<1> QED BY <1>2, <1>4, <1>5 DEF ContactsInv, ContactsInit

\* A load that replaces the last one; the writes are those there were.
LEMMA ContactsLoading ==
  ASSUME NEW query, NEW q, NEW selected, NEW c \in Flights(ContactsCalls(query, selected))
  PROVE  Loading(c, "load", q) \in Flights(ContactsCalls(q, selected))
<1>1. \A x \in ContactsCalls(query, selected) :
        x.op = "load" \/ x \in ContactsCalls(q, selected)
  BY DEF ContactsCalls, Asking
<1> QED BY <1>1, LoadingFlights DEF ContactsCalls

LEMMA ContactsCall ==
  ASSUME ContactsInv, NEW s \in Slots, calls[s] # None
  PROVE  /\ calls[s].op = "load" =>
              calls[s].about = view.query /\ Taken(s) \in Flights(ContactsCalls(view.query, view.selected))
         /\ calls[s].op # "load" =>
              /\ calls[s].op \in ContactsWrites
              /\ calls[s].live => calls[s].about = view.selected
BY TakenFlights DEF ContactsInv, Flights, ContactsCalls, Asking, Writing, Late, ContactsWrites

LEMMA ContactsStep ==
  ASSUME ContactsInv, ContactsNext
  PROVE  ContactsInv'
<1> DEFINE A == ContactsArgs
           C == Flights(ContactsCalls(view.query, view.selected))
<1>t. /\ view \in ContactsFields /\ view.confirm \in {None, view.selected} /\ astray = FALSE
      /\ ops \in Hooks(ContactsWrites, A) /\ calls \in C
  BY DEF ContactsInv
<1>r. Reloaded(view) \in ContactsFields
      /\ Reloaded(view).query = view.query /\ Reloaded(view).selected = view.selected
      /\ Reloaded(view).confirm = view.confirm
  BY <1>t DEF Reloaded, ContactsFields, Failures
<1>1. CASE NewQuery
  <2>1. PICK q \in Queries :
          ContactsCommit(props, [Reloaded(view) EXCEPT !.query = q, !.selected = {}], ops,
                         Loading(calls, "load", q))
    BY <1>1 DEF NewQuery
  <2> DEFINE v == [Reloaded(view) EXCEPT !.query = q, !.selected = {}]
  <2>2. v \in ContactsFields /\ v.query = q /\ v.selected = {} /\ v.confirm = view.confirm
    BY <1>r DEF ContactsFields
  <2>3. Loading(calls, "load", q) \in Flights(ContactsCalls(q, view.selected))
    BY <1>t, ContactsLoading
  <2>4. astray' = FALSE
    BY <1>1, <1>t DEF NewQuery
  <2> HIDE DEF v
  <2> QED BY <1>t, <2>1, <2>2, <2>3, <2>4, ContactsCommitted DEF v
<1>2. CASE ContactsRetryLoad
  <2>1. Loading(calls, "load", view.query) \in C
    BY <1>t, ContactsLoading
  <2> QED BY <1>2, <1>t, <1>r, <2>1, ContactsCommitted DEF ContactsRetryLoad
<1>3. CASE ContactsSelect
  <2>1. PICK x \in RowsShown :
          ContactsCommit(props, [view EXCEPT !.selected = Toggled(@, x)], ops, calls)
    BY <1>3 DEF ContactsSelect
  <2> DEFINE v == [view EXCEPT !.selected = Toggled(@, x)]
  <2>2. x \in Contacts
    BY <1>t DEF RowsShown, ContactsFields
  <2>3. v \in ContactsFields /\ v.query = view.query /\ v.confirm = view.confirm
    BY <1>t, <2>2 DEF ContactsFields, Toggled
  <2>4. astray' = FALSE
    BY <1>3, <1>t DEF ContactsSelect
  <2> HIDE DEF v
  <2> QED BY <1>t, <2>1, <2>3, <2>4, ContactsCommitted DEF v
<1>4. CASE ContactsRegrant
  <2>1. \A p : ContactsCommit(p, view, ops, calls) => ContactsInv'
    <3> SUFFICES ASSUME NEW p, ContactsCommit(p, view, ops, calls) PROVE ContactsInv'
      OBVIOUS
    <3> QED BY <1>4, <1>t, ContactsCommitted DEF ContactsRegrant
  <2> QED BY <1>4, <2>1 DEF ContactsRegrant
<1>5. CASE assign
  <2> DEFINE args == [names |-> view.selected, asked |-> view.selected]
             call == Request("tag", view.selected, args)
  <2>1. args \in A
    BY <1>t DEF ContactsFields, ContactsArgs, AskedFor
  <2>2. Attempted("tag", args) \in Hooks(ContactsWrites, A)
    BY <1>t, <2>1, AttemptedHooks DEF ContactsWrites
  <2>3. call \in ContactsCalls(view.query, view.selected)
    BY <2>1 DEF Request, ContactsCalls, Writing, ContactsWrites
  <2>4. Made(calls, call) \in C
    BY <1>t, <2>3, MadeFlights
  <2> QED BY <1>5, <1>t, <2>2, <2>4, ContactsCommitted DEF assign
<1>6. CASE AskBulkDelete
  <2> DEFINE v == [view EXCEPT !.confirm = view.selected]
  <2>1. /\ v \in ContactsFields /\ v.confirm = view.selected
        /\ v.query = view.query /\ v.selected = view.selected
    BY <1>t DEF ContactsFields
  <2> HIDE DEF v
  <2> QED BY <1>6, <1>t, <2>1, ContactsCommitted DEF AskBulkDelete, v
<1>7. CASE CancelBulkDelete
  <2> DEFINE v == [view EXCEPT !.confirm = None]
  <2>1. /\ v \in ContactsFields /\ v.confirm = None
        /\ v.query = view.query /\ v.selected = view.selected
    BY <1>t DEF ContactsFields
  <2> HIDE DEF v
  <2> QED BY <1>7, <1>t, <2>1, ContactsCommitted DEF CancelBulkDelete, v
<1>8. CASE bulkRemove
  <2> DEFINE args == [names |-> view.selected, asked |-> view.confirm]
             call == Request("delete", view.selected, args)
  <2>1. args \in A
    BY <1>8, <1>t DEF bulkRemove, ContactsFields, ContactsArgs, AskedFor
  <2>2. Attempted("delete", args) \in Hooks(ContactsWrites, A)
    BY <1>t, <2>1, AttemptedHooks DEF ContactsWrites
  <2>3. call \in ContactsCalls(view.query, view.selected)
    BY <2>1 DEF Request, ContactsCalls, Writing, ContactsWrites
  <2>4. Made(calls, call) \in C
    BY <1>t, <2>3, MadeFlights
  <2> QED BY <1>8, <1>t, <2>2, <2>4, ContactsCommitted DEF bulkRemove
<1>9. ASSUME NEW op \in ContactsWrites, BulkRetry(op)
      PROVE  ContactsInv'
  <2> DEFINE args == ops[op].last
             call == Request(op, view.selected, args)
  <2>1. args \in A
    BY <1>9, <1>t DEF BulkRetry, MayRetry, Hooks
  <2>2. Attempted(op, args) \in Hooks(ContactsWrites, A)
    BY <1>t, <2>1, AttemptedHooks
  <2>3. call \in ContactsCalls(view.query, view.selected)
    BY <2>1 DEF Request, ContactsCalls, Writing
  <2>4. Made(calls, call) \in C
    BY <1>t, <2>3, MadeFlights
  <2> QED BY <1>9, <1>t, <2>2, <2>4, ContactsCommitted DEF BulkRetry
<1>10. ASSUME NEW s \in Slots, NEW answer \in Answers, ContactsLoaded(s, answer)
       PROVE  ContactsInv'
  <2>1. calls[s].about = view.query /\ Taken(s) \in C
    BY <1>10, ContactsCall DEF ContactsLoaded
  <2>2. astray' = FALSE
    BY <1>10, <1>t, <2>1 DEF ContactsLoaded, Apply, ContactsAbout
  <2>3. CASE answer = "ok"
    <3>1. PICK rows \in SUBSET Contacts :
            ContactsCommit(props, [view EXCEPT !.loading = FALSE,
                                               !.page = [query |-> calls[s].about, rows |-> rows],
                                               !.selected = @ \cap rows], ops, Taken(s))
      BY <1>10, <2>3 DEF ContactsLoaded
    <3> DEFINE v == [view EXCEPT !.loading = FALSE, !.page = [query |-> calls[s].about, rows |-> rows],
                                 !.selected = @ \cap rows]
    <3>2. v \in ContactsFields /\ v.query = view.query /\ v.confirm = view.confirm
      BY <1>t, <2>1 DEF ContactsFields
    <3> HIDE DEF v
    <3> QED BY <1>t, <2>1, <2>2, <3>1, <3>2, ContactsCommitted DEF v
  <2>4. CASE answer # "ok"
    <3> DEFINE v == [view EXCEPT !.loading = FALSE, !.page = None, !.failed = safeAdapterCall(answer)]
    <3>1. v \in ContactsFields /\ v.query = view.query /\ v.confirm = view.confirm /\ v.selected = view.selected
      BY <1>t, <2>4 DEF ContactsFields, safeAdapterCall, Answers, Failures
    <3>2. ContactsCommit(props, v, ops, Taken(s))
      BY <1>10, <2>4 DEF ContactsLoaded
    <3> HIDE DEF v
    <3> QED BY <1>t, <2>1, <2>2, <3>1, <3>2, ContactsCommitted
  <2> QED BY <2>3, <2>4
<1>11. ASSUME NEW s \in Slots, NEW answer \in Answers, BulkAnswered(s, answer)
       PROVE  ContactsInv'
  <2> DEFINE op == calls[s].op
             confirm == IF op = "delete" THEN None ELSE view.confirm
             v == [view EXCEPT !.confirm = confirm]
             done == [Reloaded(v) EXCEPT !.selected = {}]
  <2>1. op \in ContactsWrites /\ (calls[s].live => calls[s].about = view.selected)
    BY <1>11, ContactsCall DEF BulkAnswered
  <2>2. Taken(s) \in C
    BY <1>t, TakenFlights
  <2>3. /\ v \in ContactsFields /\ v.confirm = confirm /\ confirm \in {None, view.selected}
        /\ v.query = view.query /\ v.selected = view.selected
    BY <1>t DEF ContactsFields
  <2>4. /\ done \in ContactsFields /\ done.confirm = confirm
        /\ done.query = view.query /\ done.selected = {}
    BY <2>3 DEF Reloaded, ContactsFields, Failures
  <2>5. astray' = FALSE
    BY <1>11, <1>t, <2>1 DEF BulkAnswered, Apply, ContactsAbout, ContactsWrites
  <2>6. Settled(op, answer) \in Hooks(ContactsWrites, A)
    BY <1>t, <2>1, SettledHooks
  <2>7. Loading(Taken(s), "load", view.query) \in C
    BY <2>2, ContactsLoading
  <2>8. \/ ContactsCommit(props, v, ops, Taken(s))
        \/ ContactsCommit(props, v, Settled(op, answer), Taken(s))
        \/ ContactsCommit(props, done, Settled(op, answer), Loading(Taken(s), "load", view.query))
    BY <1>11 DEF BulkAnswered
  <2> HIDE DEF v, done, confirm, op
  <2> QED BY <1>t, <2>2, <2>3, <2>4, <2>5, <2>6, <2>7, <2>8, ContactsCommitted
<1> QED BY <1>1, <1>2, <1>3, <1>4, <1>5, <1>6, <1>7, <1>8, <1>9, <1>10, <1>11 DEF ContactsNext, ContactsWrites

-------------------------------------------------------------------------------
(* One contact *)

DetailWrites == {"note", "delete"}
DetailArgs == AskedFor({{t} : t \in Targets})
DetailProps == [target : Targets, can : Grants]

DetailFields ==
  [contact : Targets \cup {None}, draft : Targets \cup {None}, confirm : Targets \cup {None},
   failed : Failures]

DetailCalls(loaded, target) ==
  Asking("load", loaded) \cup Writing(DetailWrites, target, DetailArgs)
  \cup Late(DetailWrites, Targets, DetailArgs)

\* A note is drafted, and a dialog open, on the contact of the screen only.
DetailInv ==
  /\ astray = FALSE
  /\ props \in DetailProps
  /\ view \in DetailFields /\ {view.draft, view.confirm} \subseteq {None, props.target}
  /\ ops \in Hooks(DetailWrites, DetailArgs)
  /\ calls \in Flights(DetailCalls(props.target, props.target))

LEMMA DetailCommitted ==
  ASSUME DetailInv, NEW p \in DetailProps, NEW v \in DetailFields,
         {v.draft, v.confirm} \subseteq {None, props.target},
         NEW o \in Hooks(DetailWrites, DetailArgs),
         NEW c \in Flights(DetailCalls(p.target, props.target)),
         DetailCommit(p, v, o, c), astray' = FALSE
  PROVE  DetailInv'
<1> DEFINE before == DetailScopes(props)
           after == DetailScopes(p)
           draft == IF p.target = props.target THEN v.draft ELSE None
           confirm == IF after.delete = before.delete THEN v.confirm ELSE None
           kept == [v EXCEPT !.draft = draft, !.confirm = confirm]
<1>1. /\ props' = p
      /\ view' = kept
      /\ ops' = Rescoped(before, after, o)
      /\ calls' = Retired(before, after, c)
  BY DEF DetailCommit, Commit, DetailFields
<1>2. {draft, confirm} \subseteq {None, p.target}
  BY DEF DetailScopes
<1>3. kept \in DetailFields /\ kept.draft = draft /\ kept.confirm = confirm
  BY <1>2 DEF DetailFields, DetailProps
<1>4. Retired(before, after, c) \in Flights(DetailCalls(p.target, p.target))
  <2> DEFINE L == Writing(DetailWrites, props.target, DetailArgs)
             M == Writing(DetailWrites, p.target, DetailArgs)
  <2>1. DOMAIN before = DetailWrites
    BY DEF DetailScopes, DetailWrites
  <2>2. \A x \in L : before[x.op] = after[x.op] => x \in M
    <3> SUFFICES ASSUME NEW x \in L, before[x.op] = after[x.op] PROVE p.target = props.target
      OBVIOUS
    <3>1. x.op = "note" \/ x.op = "delete"
      BY DEF Writing, DetailWrites
    <3> QED BY <3>1 DEF DetailScopes
  <2>3. L \subseteq [op : DetailWrites, about : Targets, args : DetailArgs, live : {TRUE}]
    BY DEF Writing, DetailInv, DetailProps
  <2>4. \A x \in Asking("load", p.target) : x.op \notin DOMAIN before
    BY <2>1 DEF Asking, DetailWrites
  <2>5. \A x \in L : x.op \in DOMAIN before
    BY <2>1 DEF Writing
  <2> HIDE DEF before, after, L, M
  <2> QED BY <2>2, <2>3, <2>4, <2>5, RetiredFlights DEF DetailCalls, L, M
<1>5. Rescoped(before, after, o) \in Hooks(DetailWrites, DetailArgs)
  BY RescopedHooks
<1> HIDE DEF before, after, draft, confirm, kept
<1> QED BY <1>1, <1>2, <1>3, <1>4, <1>5 DEF DetailInv

LEMMA DetailLoading ==
  ASSUME NEW t, NEW u, NEW target, NEW c \in Flights(DetailCalls(t, target))
  PROVE  Loading(c, "load", u) \in Flights(DetailCalls(u, target))
<1>1. \A x \in DetailCalls(t, target) : x.op = "load" \/ x \in DetailCalls(u, target)
  BY DEF DetailCalls, Asking
<1> QED BY <1>1, LoadingFlights DEF DetailCalls

LEMMA DetailCall ==
  ASSUME DetailInv, NEW s \in Slots, calls[s] # None
  PROVE  /\ calls[s].op = "load" => calls[s].about = props.target
         /\ calls[s].op # "load" /\ calls[s].live => calls[s].about = props.target
         /\ Taken(s) \in Flights(DetailCalls(props.target, props.target))
BY TakenFlights DEF DetailInv, Flights, DetailCalls, Asking, Writing, Late, DetailWrites

\* A write of the contact that is shown, with what it asked for.
LEMMA DetailMade ==
  ASSUME DetailInv, NEW op \in DetailWrites, NEW args \in DetailArgs
  PROVE  /\ Attempted(op, args) \in Hooks(DetailWrites, DetailArgs)
         /\ Made(calls, Request(op, props.target, args)) \in Flights(DetailCalls(props.target, props.target))
<1>1. Attempted(op, args) \in Hooks(DetailWrites, DetailArgs)
  BY AttemptedHooks DEF DetailInv
<1>2. Request(op, props.target, args) \in DetailCalls(props.target, props.target)
  BY DEF Request, DetailCalls, Writing
<1> QED BY <1>1, <1>2, MadeFlights DEF DetailInv

LEMMA DetailBegins == DetailInit => DetailInv
<1> SUFFICES ASSUME DetailInit PROVE DetailInv
  OBVIOUS
<1>1. props \in DetailProps /\ calls = Loading(NoCalls, "load", props.target)
  BY DEF DetailInit, DetailProps
<1>2. view \in DetailFields /\ view.draft = None /\ view.confirm = None
  BY DEF DetailInit, DetailFields, Failures
<1>3. calls \in Flights(DetailCalls(props.target, props.target))
  BY <1>1, NoFlights, LoadingFlights DEF DetailCalls
<1>4. ops \in Hooks(DetailWrites, DetailArgs)
  BY IdleHooks DEF DetailInit, DetailWrites
<1> QED BY <1>1, <1>2, <1>3, <1>4 DEF DetailInv, DetailInit

LEMMA DetailStep ==
  ASSUME DetailInv, DetailNext
  PROVE  DetailInv'
<1> DEFINE t == props.target
           C == Flights(DetailCalls(t, t))
           H == Hooks(DetailWrites, DetailArgs)
<1>t. /\ props \in DetailProps /\ t \in Targets /\ astray = FALSE
      /\ view \in DetailFields /\ {view.draft, view.confirm} \subseteq {None, t}
      /\ ops \in H /\ calls \in C
  BY DEF DetailInv, DetailProps
<1>e. Emptied(view) \in DetailFields
      /\ Emptied(view).draft = view.draft /\ Emptied(view).confirm = view.confirm
  BY <1>t DEF Emptied, DetailFields, Failures
<1>1. CASE DetailRetarget
  <2>1. PICK u \in Targets : DetailCommit([props EXCEPT !.target = u], Emptied(view), ops,
                                         Loading(calls, "load", u))
    BY <1>1 DEF DetailRetarget
  <2> DEFINE p == [props EXCEPT !.target = u]
  <2>2. p \in DetailProps /\ p.target = u
    BY <1>t DEF DetailProps
  <2>3. Loading(calls, "load", u) \in Flights(DetailCalls(u, t))
    BY <1>t, DetailLoading
  <2>4. astray' = FALSE
    BY <1>1, <1>t DEF DetailRetarget
  <2> HIDE DEF p
  <2> QED BY <1>t, <1>e, <2>1, <2>2, <2>3, <2>4, DetailCommitted DEF p
<1>2. CASE DetailRegrant
  <2>1. PICK p \in Regrants : DetailCommit(p, view, ops, calls)
    BY <1>2 DEF DetailRegrant
  <2>2. p \in DetailProps /\ p.target = t
    BY <1>t, RegrantedProps DEF DetailProps
  <2>3. astray' = FALSE
    BY <1>2, <1>t DEF DetailRegrant
  <2> QED BY <1>t, <2>1, <2>2, <2>3, DetailCommitted
<1>3. CASE DetailRetryLoad
  <2>1. Loading(calls, "load", t) \in C
    BY <1>t, DetailLoading
  <2> QED BY <1>3, <1>t, <1>e, <2>1, DetailCommitted DEF DetailRetryLoad
<1>4. CASE TypeNote
  <2> DEFINE v == [view EXCEPT !.draft = props.target]
  <2>1. v \in DetailFields /\ v.draft = t /\ v.confirm = view.confirm
    BY <1>t DEF DetailFields
  <2> HIDE DEF v
  <2> QED BY <1>4, <1>t, <2>1, DetailCommitted DEF TypeNote, v
<1>5. CASE addNote
  <2> DEFINE args == [names |-> {view.contact}, asked |-> {view.draft}]
  <2>1. args \in DetailArgs
    BY <1>5, <1>t DEF addNote, Visible, DetailArgs, AskedFor
  <2>2. DetailCommit(props, view, Attempted("note", args), Made(calls, Request("note", t, args)))
    BY <1>5 DEF addNote
  <2>3. astray' = FALSE
    BY <1>5, <1>t DEF addNote
  <2> HIDE DEF args
  <2> QED BY <1>t, <2>1, <2>2, <2>3, DetailMade, DetailCommitted DEF DetailWrites
<1>6. CASE AskDelete
  <2> DEFINE v == [view EXCEPT !.confirm = props.target]
  <2>1. v \in DetailFields /\ v.draft = view.draft /\ v.confirm = t
    BY <1>t DEF DetailFields
  <2> HIDE DEF v
  <2> QED BY <1>6, <1>t, <2>1, DetailCommitted DEF AskDelete, v
<1>7. CASE CancelDelete
  <2> DEFINE v == [view EXCEPT !.confirm = None]
  <2>1. v \in DetailFields /\ v.draft = view.draft /\ v.confirm = None
    BY <1>t DEF DetailFields
  <2> HIDE DEF v
  <2> QED BY <1>7, <1>t, <2>1, DetailCommitted DEF CancelDelete, v
<1>8. CASE removeContact
  <2> DEFINE args == [names |-> {view.contact}, asked |-> {view.confirm}]
  <2>1. args \in DetailArgs
    BY <1>8, <1>t DEF removeContact, Visible, DetailArgs, AskedFor
  <2>2. DetailCommit(props, view, Attempted("delete", args), Made(calls, Request("delete", t, args)))
    BY <1>8 DEF removeContact
  <2>3. astray' = FALSE
    BY <1>8, <1>t DEF removeContact
  <2> HIDE DEF args
  <2> QED BY <1>t, <2>1, <2>2, <2>3, DetailMade, DetailCommitted DEF DetailWrites
<1>9. ASSUME NEW op \in DetailWrites, DetailRetry(op)
      PROVE  DetailInv'
  <2>1. ops[op].last \in DetailArgs
    BY <1>9, <1>t DEF DetailRetry, MayRetry, Hooks
  <2> QED BY <1>9, <1>t, <2>1, DetailMade, DetailCommitted DEF DetailRetry
<1>10. ASSUME NEW s \in Slots, NEW answer \in Answers, DetailLoaded(s, answer)
       PROVE  DetailInv'
  <2>1. calls[s].about = t /\ Taken(s) \in C
    BY <1>10, DetailCall DEF DetailLoaded
  <2>2. astray' = FALSE
    BY <1>10, <1>t, <2>1 DEF DetailLoaded, Apply
  <2> DEFINE v == IF answer = "ok" THEN [view EXCEPT !.contact = calls[s].about]
                                   ELSE [view EXCEPT !.failed = safeAdapterCall(answer)]
  <2>3. v \in DetailFields /\ v.draft = view.draft /\ v.confirm = view.confirm
    BY <1>t, <2>1 DEF DetailFields, safeAdapterCall, Answers, Failures
  <2>4. DetailCommit(props, v, ops, Taken(s))
    BY <1>10 DEF DetailLoaded
  <2> HIDE DEF v
  <2> QED BY <1>t, <2>1, <2>2, <2>3, <2>4, DetailCommitted
<1>11. ASSUME NEW s \in Slots, NEW answer \in Answers, DetailAnswered(s, answer)
       PROVE  DetailInv'
  <2> DEFINE op == calls[s].op
             confirm == IF op = "delete" THEN None ELSE view.confirm
             v == [view EXCEPT !.confirm = confirm]
             draft == IF op = "note" /\ answer = "ok" THEN None ELSE v.draft
             done == [v EXCEPT !.draft = draft]
  <2>1. op \in DetailWrites /\ (calls[s].live => calls[s].about = t) /\ Taken(s) \in C
    BY <1>11, DetailCall DEF DetailAnswered, DetailWrites
  <2>2. v \in DetailFields /\ {v.draft, v.confirm} \subseteq {None, t}
    BY <1>t DEF DetailFields
  <2>3. done \in DetailFields /\ {done.draft, done.confirm} \subseteq {None, t}
    BY <2>2 DEF DetailFields
  <2>4. astray' = FALSE
    BY <1>11, <1>t, <2>1 DEF DetailAnswered, Apply
  <2>5. Settled(op, answer) \in H
    BY <1>t, <2>1, SettledHooks
  <2>6. \/ DetailCommit(props, v, ops, Taken(s))
        \/ DetailCommit(props, done, Settled(op, answer), Taken(s))
    BY <1>11 DEF DetailAnswered
  <2> HIDE DEF op, v, done
  <2> QED BY <1>t, <2>1, <2>2, <2>3, <2>4, <2>5, <2>6, DetailCommitted
<1> QED BY <1>1, <1>2, <1>3, <1>4, <1>5, <1>6, <1>7, <1>8, <1>9, <1>10, <1>11 DEF DetailNext, DetailWrites

-------------------------------------------------------------------------------
(* The form of a contact *)

FormTargets == Targets \cup {None}
FormArgs == AskedFor({{t} : t \in FormTargets})
FormProps == [target : FormTargets, can : Grants]

FormFields ==
  [input : {None} \cup [of : FormTargets, valid : BOOLEAN], owner : {None} \cup {<<t>> : t \in FormTargets},
   invalid : BOOLEAN, failed : Failures]

FormCalls(loaded, target) ==
  Asking("load", loaded) \cup Writing({"save"}, target, FormArgs)
  \cup Late({"save"}, FormTargets, FormArgs)

\* What may be typed and saved was given in the context of the form.
FormInv ==
  /\ astray = FALSE
  /\ props \in FormProps
  /\ view \in FormFields /\ (view.input # None => view.input.of = props.target)
  /\ ops \in Hooks({"save"}, FormArgs)
  /\ calls \in Flights(FormCalls(props.target, props.target))

LEMMA FormCommitted ==
  ASSUME FormInv, NEW p \in FormProps, NEW v \in FormFields, v.input # None => v.input.of = p.target,
         NEW o \in Hooks({"save"}, FormArgs),
         NEW c \in Flights(FormCalls(p.target, props.target)),
         FormCommit(p, v, o, c), astray' = FALSE
  PROVE  FormInv'
<1> DEFINE before == FormScopes(props)
           after == FormScopes(p)
<1>1. /\ props' = p
      /\ view' = v
      /\ ops' = Rescoped(before, after, o)
      /\ calls' = Retired(before, after, c)
  BY DEF FormCommit, Commit
<1>2. Retired(before, after, c) \in Flights(FormCalls(p.target, p.target))
  <2> DEFINE L == Writing({"save"}, props.target, FormArgs)
             M == Writing({"save"}, p.target, FormArgs)
  <2>1. DOMAIN before = {"save"}
    BY DEF FormScopes
  <2>2. \A x \in L : before[x.op] = after[x.op] => x \in M
    <3> SUFFICES ASSUME NEW x \in L, before[x.op] = after[x.op] PROVE p.target = props.target
      OBVIOUS
    <3>1. x.op = "save"
      BY DEF Writing
    <3> QED BY <3>1 DEF FormScopes
  <2>3. L \subseteq [op : {"save"}, about : FormTargets, args : FormArgs, live : {TRUE}]
    BY DEF Writing, FormInv, FormProps
  <2>4. \A x \in Asking("load", p.target) : x.op \notin DOMAIN before
    BY <2>1 DEF Asking
  <2>5. \A x \in L : x.op \in DOMAIN before
    BY <2>1 DEF Writing
  <2> HIDE DEF before, after, L, M
  <2> QED BY <2>2, <2>3, <2>4, <2>5, RetiredFlights DEF FormCalls, L, M
<1>3. Rescoped(before, after, o) \in Hooks({"save"}, FormArgs)
  BY RescopedHooks
<1> HIDE DEF before, after
<1> QED BY <1>1, <1>2, <1>3 DEF FormInv

LEMMA FormLoading ==
  ASSUME NEW t, NEW u, NEW target, NEW c \in Flights(FormCalls(t, target))
  PROVE  /\ Loading(c, "load", u) \in Flights(FormCalls(u, target))
         /\ Superseded(c, "load") \in Flights(FormCalls(u, target))
<1>1. \A x \in FormCalls(t, target) : x.op = "load" \/ x \in FormCalls(u, target)
  BY DEF FormCalls, Asking
<1> QED BY <1>1, LoadingFlights, SupersededFlights DEF FormCalls

LEMMA FormCall ==
  ASSUME FormInv, NEW s \in Slots, calls[s] # None
  PROVE  /\ calls[s].op = "load" \/ calls[s].live => calls[s].about = props.target
         /\ Taken(s) \in Flights(FormCalls(props.target, props.target))
BY TakenFlights DEF FormInv, Flights, FormCalls, Asking, Writing, Late

LEMMA FormMade ==
  ASSUME FormInv, NEW args \in FormArgs
  PROVE  /\ Attempted("save", args) \in Hooks({"save"}, FormArgs)
         /\ Made(calls, Request("save", props.target, args)) \in Flights(FormCalls(props.target, props.target))
<1>1. Attempted("save", args) \in Hooks({"save"}, FormArgs)
  BY AttemptedHooks DEF FormInv
<1>2. Request("save", props.target, args) \in FormCalls(props.target, props.target)
  BY DEF Request, FormCalls, Writing
<1> QED BY <1>1, <1>2, MadeFlights DEF FormInv

LEMMA FormBegins == FormInit => FormInv
<1> SUFFICES ASSUME FormInit PROVE FormInv
  OBVIOUS
<1>1. PICK t \in FormTargets, can \in Grants :
        /\ props = [target |-> t, can |-> can]
        /\ view = [input |-> IF t = None THEN EmptyInput ELSE None, owner |-> <<t>>,
                   invalid |-> FALSE, failed |-> None]
        /\ calls = IF t = None THEN NoCalls ELSE Loading(NoCalls, "load", t)
  BY DEF FormInit, FormTargets
<1>2. props \in FormProps /\ props.target = t
  BY <1>1 DEF FormProps
<1>3. view \in FormFields /\ (view.input # None => view.input.of = t)
  BY <1>1 DEF FormFields, Failures, EmptyInput, FormTargets
<1>4. calls \in Flights(FormCalls(t, t))
  BY <1>1, NoFlights, LoadingFlights DEF FormCalls
<1>5. ops \in Hooks({"save"}, FormArgs)
  BY IdleHooks DEF FormInit
<1> QED BY <1>2, <1>3, <1>4, <1>5 DEF FormInv, FormInit

LEMMA FormStep ==
  ASSUME FormInv, FormNext
  PROVE  FormInv'
<1> DEFINE t == props.target
           C == Flights(FormCalls(t, t))
           H == Hooks({"save"}, FormArgs)
<1>t. /\ props \in FormProps /\ t \in FormTargets /\ astray = FALSE
      /\ view \in FormFields /\ (view.input # None => view.input.of = t)
      /\ ops \in H /\ calls \in C
  BY DEF FormInv, FormProps
<1>e. FormClosed(view) \in FormFields /\ FormClosed(view).input = None
  BY <1>t DEF FormClosed, FormFields, Failures
<1>1. CASE FormRetarget
  <2>1. PICK u \in FormTargets :
          LET p == [props EXCEPT !.target = u]
              v == [FormClosed(view) EXCEPT !.invalid = FALSE]
          IN  IF u = None
              THEN FormCommit(p, [v EXCEPT !.input = EmptyInput, !.owner = <<None>>], ops,
                              Superseded(calls, "load"))
              ELSE FormCommit(p, v, ops, Loading(calls, "load", u))
    BY <1>1 DEF FormRetarget, FormTargets
  <2> DEFINE p == [props EXCEPT !.target = u]
             v == [FormClosed(view) EXCEPT !.invalid = FALSE]
             w == [v EXCEPT !.input = EmptyInput, !.owner = <<None>>]
  <2>2. p \in FormProps /\ p.target = u
    BY <1>t DEF FormProps
  <2>3. v \in FormFields /\ v.input = None
    BY <1>e DEF FormFields
  <2>4. w \in FormFields /\ w.input = EmptyInput
    BY <2>3 DEF FormFields, EmptyInput, FormTargets
  <2>5. /\ Loading(calls, "load", u) \in Flights(FormCalls(u, t))
        /\ Superseded(calls, "load") \in Flights(FormCalls(u, t))
    BY <1>t, FormLoading
  <2>6. astray' = FALSE
    BY <1>1, <1>t DEF FormRetarget
  <2>7. \/ u = None /\ FormCommit(p, w, ops, Superseded(calls, "load"))
        \/ FormCommit(p, v, ops, Loading(calls, "load", u))
    BY <2>1
  <2>8. u = None => w.input.of = u
    BY <2>4 DEF EmptyInput
  <2> HIDE DEF p, v, w
  <2> QED BY <1>t, <2>2, <2>3, <2>4, <2>5, <2>6, <2>7, <2>8, FormCommitted
<1>2. CASE FormRegrant
  <2>1. PICK p \in Regrants : FormCommit(p, view, ops, calls)
    BY <1>2 DEF FormRegrant
  <2>2. p \in FormProps /\ p.target = t
    BY <1>t, RegrantedProps DEF FormProps
  <2>3. astray' = FALSE
    BY <1>2, <1>t DEF FormRegrant
  <2> QED BY <1>t, <2>1, <2>2, <2>3, FormCommitted
<1>3. CASE FormRetryLoad
  <2>1. Loading(calls, "load", t) \in C
    BY <1>t, FormLoading
  <2> QED BY <1>3, <1>t, <1>e, <2>1, FormCommitted DEF FormRetryLoad
<1>4. CASE EditField
  <2>1. PICK valid \in BOOLEAN :
          FormCommit(props, [view EXCEPT !.input.valid = valid, !.invalid = @ /\ ~valid], ops, calls)
    BY <1>4 DEF EditField
  <2> DEFINE input == [view.input EXCEPT !.valid = valid]
             v == [view EXCEPT !.input = input, !.invalid = @ /\ ~valid]
  <2>2. view.input \in [of : FormTargets, valid : BOOLEAN]
    BY <1>4, <1>t DEF EditField, Ready, FormFields
  <2>3. input \in [of : FormTargets, valid : BOOLEAN] /\ input.of = view.input.of
    BY <2>2
  <2>4. view.input # None
    BY <1>4 DEF EditField, Ready
  <2> HIDE DEF input
  <2>5. v \in FormFields /\ v.input.of = t
    BY <1>t, <2>3, <2>4 DEF FormFields
  <2>6. FormCommit(props, v, ops, calls)
    BY <2>1 DEF input
  <2>7. astray' = FALSE
    BY <1>4, <1>t DEF EditField
  <2> HIDE DEF v
  <2> QED BY <1>t, <2>5, <2>6, <2>7, FormCommitted
<1>5. CASE submit
  <2> DEFINE args == [names |-> {props.target}, asked |-> {view.input.of}]
             v == [view EXCEPT !.invalid = TRUE]
             w == [view EXCEPT !.invalid = FALSE]
  <2>1. args \in FormArgs
    BY <1>5, <1>t DEF submit, Ready, FormArgs, AskedFor
  <2>2. /\ v \in FormFields /\ v.input = view.input
        /\ w \in FormFields /\ w.input = view.input
    BY <1>t DEF FormFields
  <2>3. \/ FormCommit(props, v, ops, calls)
        \/ FormCommit(props, w, Attempted("save", args), Made(calls, Request("save", t, args)))
    BY <1>5 DEF submit
  <2>4. astray' = FALSE
    BY <1>5, <1>t DEF submit
  <2> HIDE DEF args, v, w
  <2> QED BY <1>t, <2>1, <2>2, <2>3, <2>4, FormMade, FormCommitted
<1>6. CASE FormRetry
  <2>1. ops["save"].last \in FormArgs
    BY <1>6, <1>t DEF FormRetry, MayRetry, Hooks
  <2> QED BY <1>6, <1>t, <2>1, FormMade, FormCommitted DEF FormRetry
<1>7. ASSUME NEW s \in Slots, NEW answer \in Answers, FormLoaded(s, answer)
      PROVE  FormInv'
  <2>1. calls[s].about = t /\ Taken(s) \in C
    BY <1>7, FormCall DEF FormLoaded
  <2>2. astray' = FALSE
    BY <1>7, <1>t, <2>1 DEF FormLoaded, Apply
  <2> DEFINE v == [view EXCEPT !.input = [of |-> calls[s].about, valid |-> TRUE],
                               !.owner = <<props.target>>]
             w == [view EXCEPT !.failed = safeAdapterCall(answer)]
  <2>3. v \in FormFields /\ v.input.of = t
    BY <1>t, <2>1 DEF FormFields
  <2>4. answer # "ok" => w \in FormFields /\ w.input = view.input
    BY <1>t DEF FormFields, safeAdapterCall, Answers, Failures
  <2>5. FormCommit(props, IF answer = "ok" THEN v ELSE w, ops, Taken(s))
    BY <1>7 DEF FormLoaded
  <2> HIDE DEF v, w
  <2> QED BY <1>t, <2>1, <2>2, <2>3, <2>4, <2>5, FormCommitted
<1>8. ASSUME NEW s \in Slots, NEW answer \in Answers, FormAnswered(s, answer)
      PROVE  FormInv'
  <2>1. (calls[s].live => calls[s].about = t) /\ Taken(s) \in C
    BY <1>8, FormCall DEF FormAnswered
  <2>2. astray' = FALSE
    BY <1>8, <1>t, <2>1 DEF FormAnswered, Apply
  <2>3. Settled("save", answer) \in H
    BY <1>t, SettledHooks
  <2>4. \/ FormCommit(props, view, ops, Taken(s))
        \/ FormCommit(props, view, Settled("save", answer), Taken(s))
    BY <1>8 DEF FormAnswered
  <2> QED BY <1>t, <2>1, <2>2, <2>3, <2>4, FormCommitted
<1> QED BY <1>1, <1>2, <1>3, <1>4, <1>5, <1>6, <1>7, <1>8 DEF FormNext

-------------------------------------------------------------------------------
(* The screens that only load *)

BrowseProps == [target : Targets \cup {None}, can : {{}}]

BrowseFields ==
  [query : PageQueries, page : {None} \cup ((Targets \cup {None}) \X PageQueries),
   failed : Failures, loading : BOOLEAN]

BrowseInv ==
  /\ astray = FALSE
  /\ props \in BrowseProps
  /\ view \in BrowseFields
  /\ ops \in Hooks({}, {})
  /\ calls \in Flights(Asking("load", <<props.target, view.query>>))

LEMMA BrowseCommitted ==
  ASSUME BrowseInv, NEW p \in BrowseProps, NEW v \in BrowseFields,
         NEW c \in Flights(Asking("load", <<p.target, v.query>>)),
         BrowseCommit(p, v, c), astray' = FALSE
  PROVE  BrowseInv'
<1>1. /\ props' = p
      /\ view' = v
      /\ ops' = Rescoped(<<>>, <<>>, ops)
      /\ calls' = Retired(<<>>, <<>>, c)
  BY DEF BrowseCommit, Commit
<1>2. Retired(<<>>, <<>>, c) \in Flights(Asking("load", <<p.target, v.query>>))
  BY DEF Retired, Flights
<1>3. Rescoped(<<>>, <<>>, ops) \in Hooks({}, {})
  BY RescopedHooks DEF BrowseInv
<1> QED BY <1>1, <1>2, <1>3 DEF BrowseInv

\* A load that is asked replaces the one before.
LEMMA BrowseLoading ==
  ASSUME NEW x, NEW y, NEW c \in Flights(Asking("load", x))
  PROVE  Loading(c, "load", y) \in Flights(Asking("load", y))
<1>1. \A z \in Asking("load", x) : z.op = "load"
  BY DEF Asking
<1> QED BY <1>1, LoadingFlights

LEMMA BrowseBegins == BrowseInit => BrowseInv
<1> SUFFICES ASSUME BrowseInit PROVE BrowseInv
  OBVIOUS
<1>1. PICK t \in Targets \cup {None}, q \in PageQueries :
        /\ props = [target |-> t, can |-> {}]
        /\ view = [query |-> q, page |-> None, failed |-> None, loading |-> TRUE]
        /\ calls = Loading(NoCalls, "load", <<t, q>>)
  BY DEF BrowseInit
<1>2. props \in BrowseProps /\ props.target = t /\ view \in BrowseFields /\ view.query = q
  BY <1>1 DEF BrowseProps, BrowseFields, Failures
<1>3. NoCalls \in Flights({})
  BY NoFlights
<1>4. calls \in Flights(Asking("load", <<t, q>>))
  BY <1>1, <1>3, LoadingFlights
<1>5. ops \in Hooks({}, {})
  BY IdleHooks DEF BrowseInit
<1> QED BY <1>2, <1>4, <1>5 DEF BrowseInv, BrowseInit

LEMMA BrowseStep ==
  ASSUME BrowseInv, BrowseNext
  PROVE  BrowseInv'
<1> DEFINE t == props.target
           C == Flights(Asking("load", <<t, view.query>>))
<1>t. /\ props \in BrowseProps /\ astray = FALSE /\ view \in BrowseFields
      /\ calls \in C
  BY DEF BrowseInv
<1>r. Reload(view) \in BrowseFields /\ Reload(view).query = view.query
  <2>1. /\ CampaignsReload(view) \in BrowseFields /\ CampaignsReload(view).query = view.query
        /\ RecipientsReload(view) \in BrowseFields /\ RecipientsReload(view).query = view.query
        /\ AnalyticsReload(view) \in BrowseFields /\ AnalyticsReload(view).query = view.query
    BY <1>t DEF CampaignsReload, RecipientsReload, AnalyticsReload, BrowseFields, Failures
  <2>2. \/ screen = "campaigns" \/ screen = "recipients" \/ screen = "analytics"
    BY DEF BrowseNext, Browsers
  <2> QED BY <2>1, <2>2 DEF Reload
<1>1. CASE BrowseQuery
  <2>1. PICK q \in PageQueries :
          BrowseCommit(props, [Reload(view) EXCEPT !.query = q], Loading(calls, "load", <<t, q>>))
    BY <1>1 DEF BrowseQuery
  <2> DEFINE v == [Reload(view) EXCEPT !.query = q]
  <2>2. v \in BrowseFields /\ v.query = q
    BY <1>r DEF BrowseFields
  <2>3. Loading(calls, "load", <<t, q>>) \in Flights(Asking("load", <<t, q>>))
    BY <1>t, BrowseLoading
  <2>4. astray' = FALSE
    BY <1>1, <1>t DEF BrowseQuery
  <2> HIDE DEF v
  <2> QED BY <1>t, <2>1, <2>2, <2>3, <2>4, BrowseCommitted DEF v
<1>2. CASE BrowseRetarget
  <2>1. PICK u \in Targets :
          BrowseCommit([props EXCEPT !.target = u], Reload(view),
                       Loading(calls, "load", <<u, view.query>>))
    BY <1>2 DEF BrowseRetarget
  <2> DEFINE p == [props EXCEPT !.target = u]
  <2>2. p \in BrowseProps /\ p.target = u
    BY <1>t DEF BrowseProps
  <2>3. Loading(calls, "load", <<u, view.query>>) \in Flights(Asking("load", <<u, view.query>>))
    BY <1>t, BrowseLoading
  <2>4. astray' = FALSE
    BY <1>2, <1>t DEF BrowseRetarget
  <2> HIDE DEF p
  <2> QED BY <1>r, <2>1, <2>2, <2>3, <2>4, BrowseCommitted DEF p
<1>3. CASE BrowseRetry
  <2>1. Loading(calls, "load", BrowseAbout) \in C
    BY <1>t, BrowseLoading DEF BrowseAbout
  <2> QED BY <1>3, <1>t, <1>r, <2>1, BrowseCommitted DEF BrowseRetry
<1>4. ASSUME NEW s \in Slots, NEW answer \in Answers, BrowseLoaded(s, answer)
      PROVE  BrowseInv'
  <2>1. calls[s].about = <<t, view.query>>
    BY <1>4, <1>t DEF BrowseLoaded, Flights, Asking
  <2>2. astray' = FALSE
    BY <1>4, <1>t, <2>1 DEF BrowseLoaded, Apply, BrowseAbout
  <2> DEFINE v == IF answer = "ok"
                  THEN [view EXCEPT !.loading = FALSE, !.page = calls[s].about]
                  ELSE [view EXCEPT !.loading = FALSE, !.page = None,
                                    !.failed = safeAdapterCall(answer)]
  <2>3. v \in BrowseFields /\ v.query = view.query
    <3>1. calls[s].about \in (Targets \cup {None}) \X PageQueries
      BY <1>t, <2>1 DEF BrowseFields, BrowseProps
    <3>2. CASE answer = "ok"
      BY <1>t, <3>1, <3>2 DEF BrowseFields
    <3>3. CASE answer # "ok"
      BY <1>t, <3>3 DEF BrowseFields, safeAdapterCall, Answers, Failures
    <3> QED BY <3>2, <3>3
  <2>4. BrowseCommit(props, v, Taken(s))
    BY <1>4 DEF BrowseLoaded
  <2>5. Taken(s) \in C
    BY <1>t, TakenFlights
  <2> HIDE DEF v
  <2> QED BY <1>t, <2>2, <2>3, <2>4, <2>5, BrowseCommitted
<1> QED BY <1>1, <1>2, <1>3, <1>4 DEF BrowseNext

-------------------------------------------------------------------------------
(* One campaign *)

CampaignProps == [target : Targets, can : Grants]
CampaignActions == {"schedule", "start", "pause", "resume", "complete", "cancel", "delete"}
CampaignArgs == AskedFor(Targets \X CampaignActions)

CampaignFields ==
  [campaign : {None} \cup [id : Targets, status : Statuses], failed : Failures,
   confirm : Targets \cup {None}, locked : BOOLEAN]

CampaignCalls(loaded, target) ==
  Asking("load", loaded) \cup Writing({"write"}, target, CampaignArgs)
  \cup Late({"write"}, Targets, CampaignArgs)

\* The dialog is open on the campaign of the screen only.
CampaignInv ==
  /\ astray = FALSE
  /\ props \in CampaignProps
  /\ view \in CampaignFields /\ view.confirm \in {None, props.target}
  /\ ops \in Hooks({"write"}, CampaignArgs)
  /\ calls \in Flights(CampaignCalls(props.target, props.target))

LEMMA CampaignCommitted ==
  ASSUME CampaignInv, NEW p \in CampaignProps, NEW v \in CampaignFields,
         v.confirm \in {None, props.target},
         NEW o \in Hooks({"write"}, CampaignArgs),
         NEW c \in Flights(CampaignCalls(p.target, props.target)),
         CampaignCommit(p, v, o, c), astray' = FALSE
  PROVE  CampaignInv'
<1> DEFINE same == p.target = props.target /\ ("remove" \in p.can <=> "remove" \in props.can)
           confirm == IF same THEN v.confirm ELSE None
           kept == [v EXCEPT !.confirm = confirm]
           before == CampaignScopes(view, props)
           after == CampaignScopes(kept, p)
<1>1. /\ props' = p
      /\ view' = kept
      /\ ops' = Rescoped(before, after, o)
      /\ calls' = Retired(before, after, c)
  BY DEF CampaignCommit, Commit
<1>2. confirm \in {None, p.target}
  OBVIOUS
<1>3. kept \in CampaignFields /\ kept.confirm = confirm
  BY <1>2 DEF CampaignFields, CampaignProps
<1>4. Retired(before, after, c) \in Flights(CampaignCalls(p.target, p.target))
  <2> DEFINE L == Writing({"write"}, props.target, CampaignArgs)
             M == Writing({"write"}, p.target, CampaignArgs)
  <2> HIDE DEF kept
  <2>1. DOMAIN before = {"write"}
    BY DEF CampaignScopes
  <2>2. \A x \in L : before[x.op] = after[x.op] => x \in M
    <3> SUFFICES ASSUME NEW x \in L, before[x.op] = after[x.op] PROVE p.target = props.target
      OBVIOUS
    <3>1. x.op = "write"
      BY DEF Writing
    <3> QED BY <3>1 DEF CampaignScopes
  <2>3. L \subseteq [op : {"write"}, about : Targets, args : CampaignArgs, live : {TRUE}]
    BY DEF Writing, CampaignInv, CampaignProps
  <2>4. \A x \in Asking("load", p.target) : x.op \notin DOMAIN before
    BY <2>1 DEF Asking
  <2>5. \A x \in L : x.op \in DOMAIN before
    BY <2>1 DEF Writing
  <2> HIDE DEF before, after, L, M
  <2> QED BY <2>2, <2>3, <2>4, <2>5, RetiredFlights DEF CampaignCalls, L, M
<1>5. Rescoped(before, after, o) \in Hooks({"write"}, CampaignArgs)
  BY RescopedHooks
<1> HIDE DEF before, after, confirm, kept
<1> QED BY <1>1, <1>2, <1>3, <1>4, <1>5 DEF CampaignInv

LEMMA CampaignLoading ==
  ASSUME NEW t, NEW u, NEW target, NEW c \in Flights(CampaignCalls(t, target))
  PROVE  Loading(c, "load", u) \in Flights(CampaignCalls(u, target))
<1>1. \A x \in CampaignCalls(t, target) : x.op = "load" \/ x \in CampaignCalls(u, target)
  BY DEF CampaignCalls, Asking
<1> QED BY <1>1, LoadingFlights DEF CampaignCalls

LEMMA CampaignCall ==
  ASSUME CampaignInv, NEW s \in Slots, calls[s] # None
  PROVE  /\ calls[s].op = "load" \/ calls[s].live => calls[s].about = props.target
         /\ calls[s].op # "load" => calls[s].args \in CampaignArgs
         /\ Taken(s) \in Flights(CampaignCalls(props.target, props.target))
BY TakenFlights DEF CampaignInv, Flights, CampaignCalls, Asking, Writing, Late

\* runWrite, of a write that names what it was asked for.
LEMMA CampaignWritten ==
  ASSUME CampaignInv, NEW v \in CampaignFields, v.confirm \in {None, props.target},
         NEW args \in CampaignArgs, RunWrite(v, args)
  PROVE  CampaignInv'
<1> DEFINE w == [v EXCEPT !.locked = TRUE]
<1>1. w \in CampaignFields /\ w.confirm = v.confirm
  BY DEF CampaignFields
<1>2. Attempted("write", args) \in Hooks({"write"}, CampaignArgs)
  BY AttemptedHooks DEF CampaignInv
<1>3. Request("write", props.target, args) \in CampaignCalls(props.target, props.target)
  BY DEF Request, CampaignCalls, Writing
<1>4. Made(calls, Request("write", props.target, args)) \in Flights(CampaignCalls(props.target, props.target))
  BY <1>3, MadeFlights DEF CampaignInv
<1>5. CampaignCommit(props, w, Attempted("write", args), Made(calls, Request("write", props.target, args)))
  BY DEF RunWrite
<1>6. astray' = FALSE /\ props \in CampaignProps
  BY DEF RunWrite, CampaignInv
<1> HIDE DEF w
<1> QED BY <1>1, <1>2, <1>4, <1>5, <1>6, CampaignCommitted

LEMMA CampaignBegins == CampaignInit => CampaignInv
<1> SUFFICES ASSUME CampaignInit PROVE CampaignInv
  OBVIOUS
<1>1. props \in CampaignProps /\ calls = Loading(NoCalls, "load", props.target)
  BY DEF CampaignInit, CampaignProps
<1>2. view \in CampaignFields /\ view.confirm = None
  BY DEF CampaignInit, CampaignFields, Failures
<1>3. calls \in Flights(CampaignCalls(props.target, props.target))
  BY <1>1, NoFlights, LoadingFlights DEF CampaignCalls
<1>4. ops \in Hooks({"write"}, CampaignArgs)
  BY IdleHooks DEF CampaignInit
<1> QED BY <1>1, <1>2, <1>3, <1>4 DEF CampaignInv, CampaignInit

LEMMA ActionsOffered ==
  ASSUME NEW status
  PROVE  actionsFor(status) \subseteq CampaignActions
<1>1. CASE status = "draft"
  BY <1>1 DEF actionsFor, LifecycleActions, CampaignActions
<1>2. CASE status = "scheduled"
  BY <1>2 DEF actionsFor, LifecycleActions, CampaignActions
<1>3. CASE status = "running"
  BY <1>3 DEF actionsFor, LifecycleActions, CampaignActions
<1>4. CASE status = "paused"
  BY <1>4 DEF actionsFor, LifecycleActions, CampaignActions
<1>5. CASE status = "sent"
  BY <1>5 DEF actionsFor, LifecycleActions, CampaignActions
<1>6. CASE status = "completed"
  BY <1>6 DEF actionsFor, LifecycleActions, CampaignActions
<1>7. CASE status = "cancelled"
  BY <1>7 DEF actionsFor, LifecycleActions, CampaignActions
<1> QED BY <1>1, <1>2, <1>3, <1>4, <1>5, <1>6, <1>7 DEF actionsFor, LifecycleActions

LEMMA CampaignStep ==
  ASSUME CampaignInv, CampaignNext
  PROVE  CampaignInv'
<1> DEFINE t == props.target
           C == Flights(CampaignCalls(t, t))
           H == Hooks({"write"}, CampaignArgs)
<1>t. /\ props \in CampaignProps /\ t \in Targets /\ astray = FALSE
      /\ view \in CampaignFields /\ view.confirm \in {None, t}
      /\ ops \in H /\ calls \in C
  BY DEF CampaignInv, CampaignProps
<1>e. CampaignEmptied(view) \in CampaignFields /\ CampaignEmptied(view).confirm = view.confirm
  BY <1>t DEF CampaignEmptied, CampaignFields, Failures
<1>1. CASE CampaignRetarget
  <2>1. PICK u \in Targets : CampaignCommit([props EXCEPT !.target = u], CampaignEmptied(view), ops,
                                           Loading(calls, "load", u))
    BY <1>1 DEF CampaignRetarget
  <2> DEFINE p == [props EXCEPT !.target = u]
  <2>2. p \in CampaignProps /\ p.target = u
    BY <1>t DEF CampaignProps
  <2>3. Loading(calls, "load", u) \in Flights(CampaignCalls(u, t))
    BY <1>t, CampaignLoading
  <2>4. astray' = FALSE
    BY <1>1, <1>t DEF CampaignRetarget
  <2> HIDE DEF p
  <2> QED BY <1>t, <1>e, <2>1, <2>2, <2>3, <2>4, CampaignCommitted DEF p
<1>2. CASE CampaignRegrant
  <2>1. PICK p \in Regrants : CampaignCommit(p, view, ops, calls)
    BY <1>2 DEF CampaignRegrant
  <2>2. p \in CampaignProps /\ p.target = t
    BY <1>t, RegrantedProps DEF CampaignProps
  <2>3. astray' = FALSE
    BY <1>2, <1>t DEF CampaignRegrant
  <2> QED BY <1>t, <2>1, <2>2, <2>3, CampaignCommitted
<1>3. CASE CampaignRetryLoad
  <2>1. Loading(calls, "load", t) \in C
    BY <1>t, CampaignLoading
  <2> QED BY <1>3, <1>t, <1>e, <2>1, CampaignCommitted DEF CampaignRetryLoad
<1>4. CASE transition
  <2>1. PICK action \in actionsFor(view.campaign.status) :
          RunWrite(view, [names |-> <<view.campaign.id, action>>, asked |-> <<t, action>>])
    BY <1>4 DEF transition
  <2> DEFINE args == [names |-> <<view.campaign.id, action>>, asked |-> <<t, action>>]
  <2>2. action \in CampaignActions
    BY <2>1, ActionsOffered
  <2>3. view.campaign.id = t
    BY <1>4 DEF transition, CampaignVisible
  <2>4. args \in CampaignArgs
    BY <1>t, <2>2, <2>3 DEF CampaignArgs, AskedFor
  <2> HIDE DEF args
  <2> QED BY <1>t, <2>1, <2>4, CampaignWritten DEF args
<1>5. CASE AskDeleteCampaign
  <2>1. PICK confirm \in {None, t} : CampaignCommit(props, [view EXCEPT !.confirm = confirm], ops, calls)
    BY <1>5 DEF AskDeleteCampaign
  <2> DEFINE v == [view EXCEPT !.confirm = confirm]
  <2>2. v \in CampaignFields /\ v.confirm = confirm
    BY <1>t DEF CampaignFields
  <2>3. astray' = FALSE
    BY <1>5, <1>t DEF AskDeleteCampaign
  <2> HIDE DEF v
  <2> QED BY <1>t, <2>1, <2>2, <2>3, CampaignCommitted DEF v
<1>6. CASE deleteCampaign
  <2> DEFINE v == [view EXCEPT !.confirm = None]
             args == [names |-> <<view.campaign.id, "delete">>, asked |-> <<view.confirm, "delete">>]
  <2>1. v \in CampaignFields /\ v.confirm = None
    BY <1>t DEF CampaignFields
  <2>2. view.campaign.id = t /\ view.confirm = t
    BY <1>6, <1>t DEF deleteCampaign, CampaignVisible
  <2>3. args \in CampaignArgs
    <3>1. <<t, "delete">> \in Targets \X CampaignActions
      BY <1>t DEF CampaignActions
    <3> QED BY <2>2, <3>1 DEF CampaignArgs, AskedFor
  <2>4. RunWrite(v, args)
    BY <1>6 DEF deleteCampaign
  <2> HIDE DEF v, args
  <2> QED BY <2>1, <2>3, <2>4, CampaignWritten
<1>7. CASE CampaignRetry
  <2>1. ops["write"].last \in CampaignArgs
    BY <1>7, <1>t DEF CampaignRetry, MayRetry, Hooks
  <2> QED BY <1>7, <1>t, <2>1, CampaignWritten DEF CampaignRetry
<1>8. ASSUME NEW s \in Slots, NEW answer \in Answers, CampaignLoaded(s, answer)
      PROVE  CampaignInv'
  <2>1. calls[s].about = t /\ Taken(s) \in C
    BY <1>8, CampaignCall DEF CampaignLoaded
  <2>2. astray' = FALSE
    BY <1>8, <1>t, <2>1 DEF CampaignLoaded, Apply
  <2>3. CASE answer = "ok"
    <3>1. PICK status \in Statuses :
            CampaignCommit(props, [view EXCEPT !.campaign = [id |-> calls[s].about, status |-> status]],
                           ops, Taken(s))
      BY <1>8, <2>3 DEF CampaignLoaded
    <3> DEFINE v == [view EXCEPT !.campaign = [id |-> calls[s].about, status |-> status]]
    <3>2. v \in CampaignFields /\ v.confirm = view.confirm
      BY <1>t, <2>1 DEF CampaignFields
    <3> HIDE DEF v
    <3> QED BY <1>t, <2>1, <2>2, <3>1, <3>2, CampaignCommitted DEF v
  <2>4. CASE answer # "ok"
    <3> DEFINE v == [view EXCEPT !.failed = safeAdapterCall(answer)]
    <3>1. v \in CampaignFields /\ v.confirm = view.confirm
      BY <1>t, <2>4 DEF CampaignFields, safeAdapterCall, Answers, Failures
    <3>2. CampaignCommit(props, v, ops, Taken(s))
      BY <1>8, <2>4 DEF CampaignLoaded
    <3> HIDE DEF v
    <3> QED BY <1>t, <2>1, <2>2, <3>1, <3>2, CampaignCommitted
  <2> QED BY <2>3, <2>4
<1>9. ASSUME NEW s \in Slots, NEW answer \in Answers, CampaignAnswered(s, answer)
      PROVE  CampaignInv'
  <2> DEFINE v == [view EXCEPT !.locked = FALSE]
             shown == {[v EXCEPT !.campaign = [id |-> calls[s].args.names[1], status |-> status]]
                         : status \in Statuses}
  <2>1. /\ calls[s].live => calls[s].about = t
        /\ calls[s].args \in CampaignArgs /\ Taken(s) \in C
    BY <1>9, CampaignCall DEF CampaignAnswered
  <2>2. v \in CampaignFields /\ v.confirm = view.confirm
    BY <1>t DEF CampaignFields
  <2>3. calls[s].args.names[1] \in Targets
    BY <2>1 DEF CampaignArgs, AskedFor
  <2>4. \A w \in shown : w \in CampaignFields /\ w.confirm = view.confirm
    <3> SUFFICES ASSUME NEW status \in Statuses,
                        NEW w, w = [v EXCEPT !.campaign = [id |-> calls[s].args.names[1], status |-> status]]
                 PROVE  w \in CampaignFields /\ w.confirm = view.confirm
      OBVIOUS
    <3> HIDE DEF v
    <3> QED BY <2>2, <2>3 DEF CampaignFields
  <2>5. astray' = FALSE
    BY <1>9, <1>t, <2>1 DEF CampaignAnswered, Apply
  <2>6. Settled("write", answer) \in H
    BY <1>t, SettledHooks
  <2>7. \/ CampaignCommit(props, v, ops, Taken(s))
        \/ CampaignCommit(props, v, Settled("write", answer), Taken(s))
        \/ \E w \in shown : CampaignCommit(props, w, Settled("write", answer), Taken(s))
    BY <1>9 DEF CampaignAnswered
  <2> HIDE DEF v, shown
  <2> QED BY <1>t, <2>1, <2>2, <2>4, <2>5, <2>6, <2>7, CampaignCommitted
<1> QED BY <1>1, <1>2, <1>3, <1>4, <1>5, <1>6, <1>7, <1>8, <1>9 DEF CampaignNext

-------------------------------------------------------------------------------
(* The import *)

ImportOps == {"parse", "preview", "commit"}
ImportAbouts == {None} \cup Files \cup Snapshots
ImportArgs == AskedFor({{x} : x \in Files \cup Snapshots})

ImportFields ==
  [parsed : {None} \cup Files, mapping : Mappings, previewed : {None} \cup Snapshots,
   complete : BOOLEAN, retired : SUBSET Snapshots, picked : {None} \cup Files,
   imported : [Snapshots -> 0..1]]

ImportLive(picked, onScreen, previewed) ==
  Writing({"parse"}, picked, ImportArgs) \cup Writing({"preview"}, onScreen, ImportArgs)
  \cup Writing({"commit"}, previewed, ImportArgs)

ImportCalls(picked, onScreen, previewed) ==
  {} \cup ImportLive(picked, onScreen, previewed) \cup Late(ImportOps, ImportAbouts, ImportArgs)

\* A live parse is the one its hook waits for; until a parse succeeds nothing
\* is on the screen, so that what it then shows has not been previewed.
ParseAwaited(v, o, c) ==
  /\ \A s \in Slots :
       c[s] # None /\ c[s].op = "parse" /\ c[s].live =>
         /\ o["parse"].flying /\ v.parsed = None
         /\ \A r \in Slots : c[r] # None /\ c[r].op = "parse" /\ c[r].live => r = s
  /\ o["parse"].last # None => v.parsed = None

\* What was imported is retired; what is being imported is retired, was not
\* imported before, and is imported by one call.
CommitReserved(v, c) ==
  /\ \A x \in Snapshots : v.imported[x] = 1 => x \in v.retired
  /\ \A s \in Slots :
       c[s] # None /\ c[s].op = "commit" =>
         /\ \E x \in Snapshots : c[s].args.names = {x} /\ x \in v.retired /\ v.imported[x] = 0
         /\ \A r \in Slots :
              c[r] # None /\ c[r].op = "commit" /\ c[r].args.names = c[s].args.names => r = s

ImportInv ==
  /\ astray = FALSE
  /\ view \in ImportFields /\ view.previewed \in {None, OnScreen(view)}
  /\ ops \in Hooks(ImportOps, ImportArgs)
  /\ calls \in Flights(ImportCalls(view.picked, OnScreen(view), view.previewed))
  /\ ParseAwaited(view, ops, calls)
  /\ CommitReserved(view, calls)

LEMMA OnScreenType ==
  ASSUME NEW v \in ImportFields
  PROVE  OnScreen(v) \in {None} \cup Snapshots /\ (v.parsed # None => OnScreen(v) \in Snapshots)
BY DEF OnScreen, snapshotFingerprint, ImportFields, Snapshots

LEMMA ImportCommitted ==
  ASSUME ImportInv, NEW p, NEW v \in ImportFields, v.previewed \in {None, OnScreen(v)},
         NEW o \in Hooks(ImportOps, ImportArgs),
         NEW c \in Flights(ImportCalls(v.picked, OnScreen(view), view.previewed)),
         ParseAwaited(v, o, c), CommitReserved(v, c),
         Commit(ImportScopes(view, props), ImportScopes(v, p), p, v, o, c), astray' = FALSE
  PROVE  ImportInv'
<1> DEFINE before == ImportScopes(view, props)
           after == ImportScopes(v, p)
           L == ImportLive(v.picked, OnScreen(view), view.previewed)
           M == ImportLive(v.picked, OnScreen(v), v.previewed)
           left == Retired(before, after, c)
           hooks == Rescoped(before, after, o)
<1>1. view' = v /\ ops' = hooks /\ calls' = left
  BY DEF Commit
<1>2. left \in Flights(ImportCalls(v.picked, OnScreen(v), v.previewed))
  <2>1. DOMAIN before = ImportOps
    BY DEF ImportScopes, ImportOps
  <2>2. \A x \in L : before[x.op] = after[x.op] => x \in M
    <3> SUFFICES ASSUME NEW x \in L, before[x.op] = after[x.op] PROVE x \in M
      OBVIOUS
    <3>1. CASE x \in Writing({"parse"}, v.picked, ImportArgs)
      BY <3>1 DEF ImportLive
    <3>2. CASE x \in Writing({"preview"}, OnScreen(view), ImportArgs)
      <4>1. x.op = "preview"
        BY <3>2 DEF Writing
      <4>2. OnScreen(view) = OnScreen(v)
        BY <4>1 DEF ImportScopes
      <4> QED BY <3>2, <4>2 DEF ImportLive
    <3>3. CASE x \in Writing({"commit"}, view.previewed, ImportArgs)
      <4>1. x.op = "commit"
        BY <3>3 DEF Writing
      <4>2. view.previewed = v.previewed
        BY <4>1 DEF ImportScopes
      <4> QED BY <3>3, <4>2 DEF ImportLive
    <3> QED BY <3>1, <3>2, <3>3 DEF ImportLive
  <2>3. L \subseteq [op : ImportOps, about : ImportAbouts, args : ImportArgs, live : {TRUE}]
    <3>1. {v.picked, OnScreen(view), view.previewed} \subseteq ImportAbouts
      BY OnScreenType DEF ImportInv, ImportFields, ImportAbouts
    <3> QED BY <3>1 DEF ImportLive, Writing, ImportOps
  <2>4. \A x \in L : x.op \in DOMAIN before
    BY <2>1 DEF ImportLive, Writing, ImportOps
  <2> HIDE DEF before, after, L, M
  <2>5. left \in Flights({} \cup M \cup Late(ImportOps, ImportAbouts, ImportArgs))
    BY <2>2, <2>3, <2>4, RetiredFlights DEF ImportCalls, L
  <2> QED BY <2>5 DEF ImportCalls, M
<1>3. hooks \in Hooks(ImportOps, ImportArgs)
  BY RescopedHooks
<1>4. \A s \in Slots :
        left[s] # None =>
          /\ c[s] # None /\ left[s].op = c[s].op /\ left[s].args = c[s].args
          /\ left[s].live => /\ c[s].live
                             /\ c[s].op \in ImportOps => before[c[s].op] = after[c[s].op]
  <2> SUFFICES ASSUME NEW s \in Slots, left[s] # None
               PROVE  /\ c[s] # None /\ left[s].op = c[s].op /\ left[s].args = c[s].args
                      /\ left[s].live => /\ c[s].live
                                         /\ c[s].op \in ImportOps => before[c[s].op] = after[c[s].op]
    OBVIOUS
  <2>1. c[s] # None
    BY DEF Retired
  <2>2. c[s] \in [op : ImportOps, about : ImportAbouts, args : ImportArgs, live : BOOLEAN]
    <3>1. {v.picked, OnScreen(view), view.previewed} \subseteq ImportAbouts
      BY OnScreenType DEF ImportInv, ImportFields, ImportAbouts
    <3> QED BY <2>1, <3>1 DEF Flights, ImportCalls, ImportLive, Writing, Late, ImportOps
  <2>3. DOMAIN before = ImportOps
    BY DEF ImportScopes, ImportOps
  <2> HIDE DEF before, after
  <2> QED BY <2>1, <2>2, <2>3 DEF Retired
<1>5. ParseAwaited(v, hooks, left)
  <2> HIDE DEF before, after, left
  <2>1. before["parse"] = after["parse"] => hooks["parse"] = o["parse"]
    BY DEF Rescoped, Hooks, ImportOps
  <2>2. before["parse"] # after["parse"] => hooks["parse"].last = None
    BY DEF Rescoped, Hooks, ImportOps, Idle
  <2> HIDE DEF hooks
  <2> QED BY <1>4, <2>1, <2>2 DEF ParseAwaited, ImportOps
<1>6. CommitReserved(v, left)
  <2> HIDE DEF left
  <2> QED BY <1>4 DEF CommitReserved
<1> HIDE DEF left, hooks
<1> QED BY <1>1, <1>2, <1>3, <1>5, <1>6 DEF ImportInv

LEMMA ImportCall ==
  ASSUME ImportInv, NEW s \in Slots, calls[s] # None
  PROVE  /\ calls[s].live => calls[s].about = ImportAbout(calls[s].op, view)
         /\ calls[s].op \in ImportOps
         /\ Taken(s) \in Flights(ImportCalls(view.picked, OnScreen(view), view.previewed))
<1>1. Taken(s) \in Flights(ImportCalls(view.picked, OnScreen(view), view.previewed))
  BY TakenFlights DEF ImportInv
<1>2. calls[s] \in ImportLive(view.picked, OnScreen(view), view.previewed)
                     \cup Late(ImportOps, ImportAbouts, ImportArgs)
  BY DEF ImportInv, Flights, ImportCalls
<1> QED BY <1>1, <1>2 DEF ImportLive, Writing, Late, ImportOps, ImportAbout

\* A call that is not a commit takes nothing from the commits in flight.
LEMMA ReservedBesides ==
  ASSUME NEW G, calls \in Flights(G), NEW v, NEW w, CommitReserved(v, calls),
         w.imported = v.imported, w.retired = v.retired
  PROVE  /\ CommitReserved(w, calls)
         /\ \A s \in Slots : CommitReserved(w, Taken(s))
         /\ \A call : call.op # "commit" => CommitReserved(w, Made(calls, call))
<1>1. \A s \in Slots : \A r \in Slots : Taken(s)[r] = IF r = s THEN None ELSE calls[r]
  BY DEF Taken, Flights
<1>2. \A call : \A r \in Slots : Made(calls, call)[r] = IF r = FreeSlot(calls) THEN call ELSE calls[r]
  BY MadeSlots
<1> QED BY <1>1, <1>2 DEF CommitReserved

\* Beside a parse, calls come and go.
LEMMA ParseBesides ==
  ASSUME NEW G, calls \in Flights(G), NEW v, NEW w, ParseAwaited(v, ops, calls), w.parsed = v.parsed
  PROVE  /\ ParseAwaited(w, ops, calls)
         /\ \A s \in Slots : ParseAwaited(w, ops, Taken(s))
         /\ \A call : call.op # "parse" => ParseAwaited(w, ops, Made(calls, call))
<1>1. \A s \in Slots : \A r \in Slots : Taken(s)[r] = IF r = s THEN None ELSE calls[r]
  BY DEF Taken, Flights
<1>2. \A call : \A r \in Slots : Made(calls, call)[r] = IF r = FreeSlot(calls) THEN call ELSE calls[r]
  BY MadeSlots
<1> QED BY <1>1, <1>2 DEF ParseAwaited

LEMMA ImportBegins == ImportInit => ImportInv
<1> SUFFICES ASSUME ImportInit PROVE ImportInv
  OBVIOUS
<1>1. view \in ImportFields /\ view.previewed = None
  BY UnmappedAssumption DEF ImportInit, ImportFields
<1>2. ops \in Hooks(ImportOps, ImportArgs) /\ ops["parse"].last = None
  BY IdleHooks DEF ImportInit, ImportOps, Idle
<1>3. calls \in Flights(ImportCalls(view.picked, OnScreen(view), view.previewed))
  BY NoFlights DEF ImportInit
<1>4. ParseAwaited(view, ops, calls) /\ CommitReserved(view, calls)
  BY <1>2 DEF ImportInit, NoCalls, ParseAwaited, CommitReserved
<1> QED BY <1>1, <1>2, <1>3, <1>4 DEF ImportInv, ImportInit

LEMMA ImportStep ==
  ASSUME ImportInv, ImportNext
  PROVE  ImportInv'
<1> DEFINE C == Flights(ImportCalls(view.picked, OnScreen(view), view.previewed))
           H == Hooks(ImportOps, ImportArgs)
           T(v, o, c) == Commit(ImportScopes(view, props), ImportScopes(v, props), props, v, o, c)
<1>t. /\ astray = FALSE
      /\ view \in ImportFields /\ view.previewed \in {None, OnScreen(view)}
      /\ ops \in H /\ calls \in C
      /\ ParseAwaited(view, ops, calls) /\ CommitReserved(view, calls)
  BY DEF ImportInv
<1>o. \A s \in Slots : CommitReserved(view, Taken(s)) /\ ParseAwaited(view, ops, Taken(s))
  BY <1>t, ReservedBesides, ParseBesides
<1>1. CASE parse
  <2>1. PICK f \in Files :
          ImportStart("parse",
            [view EXCEPT !.parsed = None, !.mapping = Unmapped, !.previewed = None,
                         !.complete = FALSE, !.picked = f],
            [names |-> {f}, asked |-> {f}])
    BY <1>1 DEF parse
  <2> DEFINE v == [view EXCEPT !.parsed = None, !.mapping = Unmapped, !.previewed = None,
                               !.complete = FALSE, !.picked = f]
             args == [names |-> {f}, asked |-> {f}]
             call == Request("parse", f, args)
             c == Made(calls, call)
             o == Attempted("parse", args)
  <2>2. /\ v \in ImportFields /\ v.parsed = None /\ v.previewed = None /\ v.picked = f
        /\ v.imported = view.imported /\ v.retired = view.retired
    BY <1>t, UnmappedAssumption DEF ImportFields
  <2>3. args \in ImportArgs
    BY DEF ImportArgs, AskedFor
  <2>4. o \in H /\ o["parse"].flying
    <3>1. "parse" \in ImportOps /\ "parse" \in ImportOps
      BY DEF ImportOps
    <3> HIDE DEF args
    <3>2. o \in H
      BY <1>t, <2>3, <3>1, AttemptedHooks
    <3>3. o["parse"].flying
      BY <1>t, <3>1, AttemptedBesides
    <3> QED BY <3>2, <3>3
  <2>5. ImportAbout("parse", v) = f
    BY <2>2 DEF ImportAbout
  <2>6. ImportCommit(v, o, c) /\ astray' = FALSE
    BY <1>t, <2>1, <2>5 DEF ImportStart
  <2>7. \A s \in Slots : calls[s] # None /\ calls[s].op = "parse" => ~calls[s].live
    BY <1>1, <1>t DEF parse, MayStart, ParseAwaited
  <2>8. c \in Flights(ImportCalls(f, OnScreen(view), view.previewed))
    <3> DEFINE G == ImportCalls(f, OnScreen(view), view.previewed)
    <3>1. call \in G
      BY <2>3 DEF Request, ImportCalls, ImportLive, Writing
    <3>2. \A s \in Slots : calls[s] \in G \cup {None}
      <4> SUFFICES ASSUME NEW s \in Slots, calls[s] # None PROVE calls[s] \in G
        OBVIOUS
      <4>1. calls[s] \in ImportCalls(view.picked, OnScreen(view), view.previewed)
        BY <1>t DEF Flights
      <4>2. calls[s] \notin Writing({"parse"}, view.picked, ImportArgs)
        BY <2>7 DEF Writing
      <4> QED BY <4>1, <4>2 DEF ImportCalls, ImportLive
    <3>3. calls \in Flights(G)
      BY <1>t, <3>2 DEF Flights
    <3> QED BY <3>1, <3>3, MadeFlights
  <2>9. CommitReserved(v, c)
    <3>1. call.op # "commit"
      BY DEF Request
    <3> HIDE DEF v, call
    <3> QED BY <1>t, <2>2, <3>1, ReservedBesides
  <2>10. ParseAwaited(v, o, c)
    <3>1. \A r \in Slots : c[r] = IF r = FreeSlot(calls) THEN call ELSE calls[r]
      BY <1>t, MadeSlots
    <3> HIDE DEF v, c, o, call
    <3> QED BY <2>2, <2>4, <2>7, <3>1 DEF ParseAwaited
  <2> HIDE DEF v, o, c
  <2> QED BY <2>2, <2>4, <2>6, <2>8, <2>9, <2>10, ImportCommitted DEF ImportCommit
<1>2. CASE changeMapping
  <2>1. PICK m \in Mappings :
          ImportCommit([view EXCEPT !.mapping = m, !.previewed = None, !.complete = FALSE], ops, calls)
    BY <1>2 DEF changeMapping
  <2> DEFINE v == [view EXCEPT !.mapping = m, !.previewed = None, !.complete = FALSE]
  <2>2. /\ v \in ImportFields /\ v.parsed = view.parsed /\ v.previewed = None
        /\ v.picked = view.picked /\ v.imported = view.imported /\ v.retired = view.retired
    BY <1>t DEF ImportFields
  <2>3. astray' = FALSE
    BY <1>2, <1>t DEF changeMapping
  <2> HIDE DEF v
  <2>4. CommitReserved(v, calls) /\ ParseAwaited(v, ops, calls)
    BY <1>t, <2>2, ReservedBesides, ParseBesides
  <2> QED BY <1>t, <2>1, <2>2, <2>3, <2>4, ImportCommitted DEF ImportCommit, v
<1>3. CASE showPreview
  <2> DEFINE x == OnScreen(view)
             args == [names |-> {x}, asked |-> {x}]
             call == Request("preview", x, args)
             c == Made(calls, call)
             o == Attempted("preview", args)
  <2>1. x \in Snapshots
    BY <1>3, <1>t, OnScreenType DEF showPreview
  <2>2. args \in ImportArgs
    BY <2>1 DEF ImportArgs, AskedFor
  <2>3. o \in H /\ o["parse"] = ops["parse"]
    <3>1. "parse" \in ImportOps /\ "preview" \in ImportOps
      BY DEF ImportOps
    <3> HIDE DEF args
    <3>2. o \in H
      BY <1>t, <2>2, <3>1, AttemptedHooks
    <3>3. o["parse"] = ops["parse"]
      BY <1>t, <3>1, AttemptedBesides
    <3> QED BY <3>2, <3>3
  <2>4. ImportCommit(view, o, c) /\ astray' = FALSE
    BY <1>3, <1>t DEF showPreview, ImportStart, ImportAbout
  <2>5. call \in ImportCalls(view.picked, OnScreen(view), view.previewed)
    BY <2>2 DEF Request, ImportCalls, ImportLive, Writing
  <2>6. c \in C
    BY <1>t, <2>5, MadeFlights
  <2>7. call.op = "preview"
    BY DEF Request
  <2> HIDE DEF call
  <2>8. CommitReserved(view, c) /\ ParseAwaited(view, ops, c)
    BY <1>t, <2>7, ReservedBesides, ParseBesides
  <2> HIDE DEF c, o
  <2>9. ParseAwaited(view, o, c)
    BY <2>3, <2>8 DEF ParseAwaited
  <2> QED BY <1>t, <2>3, <2>4, <2>6, <2>8, <2>9, ImportCommitted DEF ImportCommit
<1>4. CASE commit
  <2> DEFINE x == view.previewed
             v == [view EXCEPT !.retired = @ \cup {x}]
             args == [names |-> {x}, asked |-> {OnScreen(view)}]
             call == Request("commit", x, args)
             c == Made(calls, call)
             o == Attempted("commit", args)
  <2>1. x \in Snapshots /\ x = OnScreen(view) /\ x \notin view.retired
    BY <1>4, <1>t DEF commit, Importable, ImportFields
  <2>2. /\ v \in ImportFields /\ v.parsed = view.parsed /\ v.mapping = view.mapping
        /\ v.previewed = x /\ v.picked = view.picked
        /\ v.imported = view.imported /\ v.retired = view.retired \cup {x}
    BY <1>t, <2>1 DEF ImportFields
  <2>3. args \in ImportArgs
    BY <2>1 DEF ImportArgs, AskedFor
  <2>4. o \in H /\ o["parse"] = ops["parse"]
    <3>1. "parse" \in ImportOps /\ "commit" \in ImportOps
      BY DEF ImportOps
    <3> HIDE DEF args
    <3>2. o \in H
      BY <1>t, <2>3, <3>1, AttemptedHooks
    <3>3. o["parse"] = ops["parse"]
      BY <1>t, <3>1, AttemptedBesides
    <3> QED BY <3>2, <3>3
  <2>5. ImportCommit(v, o, c) /\ astray' = FALSE
    BY <1>4, <1>t, <2>2 DEF commit, ImportStart, ImportAbout
  <2>6. call \in ImportCalls(view.picked, OnScreen(view), view.previewed)
    BY <2>3 DEF Request, ImportCalls, ImportLive, Writing
  <2>7. c \in C
    BY <1>t, <2>6, MadeFlights
  <2>8. call.op = "commit" /\ call.args.names = {x}
    BY DEF Request
  <2>9. \A r \in Slots : c[r] = IF r = FreeSlot(calls) THEN call ELSE calls[r]
    BY <1>t, MadeSlots
  <2> HIDE DEF call, v, c, o
  <2>10. CommitReserved(v, c)
    <3>1. \A y \in Snapshots : v.imported[y] = 1 => y \in v.retired
      BY <1>t, <2>2 DEF CommitReserved
    <3>2. v.imported[x] = 0
      BY <1>t, <2>1, <2>2 DEF CommitReserved, ImportFields
    <3>3. \A s \in Slots : c[s] # None /\ c[s].op = "commit" =>
            \E y \in Snapshots : c[s].args.names = {y} /\ y \in v.retired /\ v.imported[y] = 0
      BY <1>t, <2>1, <2>2, <2>8, <2>9, <3>2 DEF CommitReserved
    <3>4. \A s \in Slots : calls[s] # None /\ calls[s].op = "commit" => calls[s].args.names # {x}
      BY <1>t, <2>1 DEF CommitReserved
    <3>5. \A s, r \in Slots :
            /\ c[s] # None /\ c[s].op = "commit" /\ c[r] # None /\ c[r].op = "commit"
            /\ c[r].args.names = c[s].args.names
            => r = s
      BY <1>t, <2>8, <2>9, <3>4 DEF CommitReserved
    <3> QED BY <3>1, <3>3, <3>5 DEF CommitReserved
  <2>11. ParseAwaited(v, ops, c)
    BY <1>t, <2>2, <2>8, ParseBesides DEF c
  <2>12. ParseAwaited(v, o, c)
    BY <2>4, <2>11 DEF ParseAwaited
  <2>13. OnScreen(v) = OnScreen(view)
    BY <2>2 DEF OnScreen
  <2> QED BY <1>t, <2>1, <2>2, <2>4, <2>5, <2>7, <2>10, <2>12, <2>13, ImportCommitted DEF ImportCommit
<1>5. CASE ImportRegrant
  <2>1. PICK p \in Regrants :
          Commit(ImportScopes(view, props), ImportScopes(view, p), p, view, ops, calls)
    BY <1>5 DEF ImportRegrant
  <2>2. astray' = FALSE
    BY <1>5, <1>t DEF ImportRegrant
  <2> QED BY <1>t, <2>1, <2>2, ImportCommitted
<1>6. ASSUME NEW op \in {"parse", "preview"}, ImportRetry(op)
      PROVE  ImportInv'
  <2> DEFINE args == ops[op].last
             call == Request(op, ImportAbout(op, view), args)
             c == Made(calls, call)
             o == Attempted(op, args)
  <2>1. args # None /\ ~ops[op].flying
    BY <1>6 DEF ImportRetry, MayRetry
  <2>2. args \in ImportArgs
    BY <1>t, <2>1 DEF Hooks, ImportOps
  <2>3. o \in H
    BY <1>t, <2>2, AttemptedHooks DEF ImportOps
  <2>4. ImportCommit(view, o, c) /\ astray' = FALSE
    BY <1>6, <1>t DEF ImportRetry, ImportStart
  <2>5. call \in ImportCalls(view.picked, OnScreen(view), view.previewed)
    BY <2>2 DEF Request, ImportCalls, ImportLive, Writing, ImportAbout
  <2>6. c \in C
    BY <1>t, <2>5, MadeFlights
  <2>7. call.op = op
    BY DEF Request
  <2>8. CommitReserved(view, c)
    <3> HIDE DEF call
    <3> QED BY <1>t, <2>7, ReservedBesides
  <2>9. ParseAwaited(view, o, c)
    <3>1. CASE op = "preview"
      <4>1. o["parse"] = ops["parse"]
        BY <1>t, <3>1 DEF Attempted, Hooks, ImportOps
      <4> HIDE DEF call
      <4>2. ParseAwaited(view, ops, c)
        BY <1>t, <2>7, <3>1, ParseBesides
      <4> HIDE DEF c, o
      <4> QED BY <4>1, <4>2 DEF ParseAwaited
    <3>2. CASE op = "parse"
      <4>1. o["parse"].flying /\ view.parsed = None
        BY <1>t, <2>1, <3>2 DEF Attempted, Hooks, ImportOps, ParseAwaited
      <4>2. \A s \in Slots : calls[s] # None /\ calls[s].op = "parse" => ~calls[s].live
        BY <1>t, <2>1, <3>2 DEF ParseAwaited
      <4>3. \A r \in Slots : c[r] = IF r = FreeSlot(calls) THEN call ELSE calls[r]
        BY <1>t, MadeSlots
      <4> HIDE DEF c, o, call
      <4> QED BY <4>1, <4>2, <4>3 DEF ParseAwaited
    <3> QED BY <3>1, <3>2
  <2> HIDE DEF c, o
  <2> QED BY <1>t, <2>3, <2>4, <2>6, <2>8, <2>9, ImportCommitted DEF ImportCommit
<1>7. ASSUME NEW s \in Slots, NEW answer \in Answers, Parsed(s, answer)
      PROVE  ImportInv'
  <2>1. /\ calls[s].live => calls[s].about = view.picked
        /\ Taken(s) \in C /\ calls[s] # None /\ calls[s].op = "parse"
    BY <1>7, ImportCall DEF Parsed, ImportAbout
  <2>2. astray' = FALSE
    BY <1>7, <1>t, <2>1 DEF Parsed, Apply, ImportAbout
  <2>3. CASE ~calls[s].live
    BY <1>7, <1>t, <1>o, <2>1, <2>2, <2>3, ImportCommitted DEF Parsed, ImportCommit
  <2>4. CASE calls[s].live
    <3> DEFINE v == [view EXCEPT !.parsed = calls[s].about, !.mapping = Unmapped]
               w == IF answer = "ok" THEN v ELSE view
               o == Settled("parse", answer)
    <3>1. ImportCommit(w, o, Taken(s))
      BY <1>7, <2>4 DEF Parsed
    <3>2. view.parsed = None
      BY <1>t, <2>1, <2>4 DEF ParseAwaited
    <3>3. /\ w \in ImportFields /\ w.picked = view.picked /\ w.previewed \in {None, OnScreen(w)}
          /\ w.imported = view.imported /\ w.retired = view.retired
          /\ answer # "ok" => w.parsed = None
      BY <1>t, <2>1, <2>4, <3>2, UnmappedAssumption DEF ImportFields, OnScreen
    <3>4. o \in H /\ (answer = "ok" => o["parse"].last = None)
      <4>1. o \in H
        BY <1>t, SettledHooks DEF ImportOps
      <4>2. answer = "ok" => o["parse"].last = None
        BY <1>t DEF Settled, Hooks, ImportOps
      <4> QED BY <4>1, <4>2
    <3>5. \A r \in Slots : Taken(s)[r] = IF r = s THEN None ELSE calls[r]
      BY <1>t DEF Taken, Flights
    <3> HIDE DEF v, w, o
    <3>6. CommitReserved(w, Taken(s))
      BY <1>t, <3>3, ReservedBesides
    <3>7. ParseAwaited(w, o, Taken(s))
      <4>1. \A r \in Slots : Taken(s)[r] # None /\ Taken(s)[r].op = "parse" => ~Taken(s)[r].live
        BY <1>t, <2>1, <2>4, <3>5 DEF ParseAwaited
      <4> QED BY <3>3, <3>4, <4>1 DEF ParseAwaited
    <3> QED BY <1>t, <2>1, <2>2, <3>1, <3>3, <3>4, <3>6, <3>7, ImportCommitted DEF ImportCommit
  <2> QED BY <2>3, <2>4
<1>8. ASSUME NEW s \in Slots, NEW answer \in Answers, Previewed(s, answer)
      PROVE  ImportInv'
  <2>1. /\ calls[s].live => calls[s].about = OnScreen(view)
        /\ Taken(s) \in C /\ calls[s] # None /\ calls[s].op = "preview"
    BY <1>8, ImportCall DEF Previewed, ImportAbout
  <2>2. astray' = FALSE
    BY <1>8, <1>t, <2>1 DEF Previewed, Apply, ImportAbout
  <2>3. CASE ~calls[s].live
    BY <1>8, <1>t, <1>o, <2>1, <2>2, <2>3, ImportCommitted DEF Previewed, ImportCommit
  <2>4. CASE calls[s].live
    <3> DEFINE w == IF answer = "ok" THEN [view EXCEPT !.previewed = calls[s].about] ELSE view
               o == Settled("preview", answer)
    <3>1. ImportCommit(w, o, Taken(s))
      BY <1>8, <2>4 DEF Previewed
    <3>2. /\ w \in ImportFields /\ w.picked = view.picked /\ w.parsed = view.parsed /\ w.mapping = view.mapping
          /\ w.previewed \in {None, OnScreen(view)}
          /\ w.imported = view.imported /\ w.retired = view.retired
      BY <1>t, <2>1, <2>4, OnScreenType DEF ImportFields
    <3>3. OnScreen(w) = OnScreen(view)
      BY <3>2 DEF OnScreen
    <3>4. o \in H /\ o["parse"] = ops["parse"]
      <4>1. o \in H
        BY <1>t, SettledHooks DEF ImportOps
      <4>2. o["parse"] = ops["parse"]
        BY <1>t DEF Settled, Hooks, ImportOps
      <4> QED BY <4>1, <4>2
    <3> HIDE DEF w, o
    <3>5. CommitReserved(w, Taken(s)) /\ ParseAwaited(w, ops, Taken(s))
      BY <1>t, <3>2, ReservedBesides, ParseBesides
    <3>6. ParseAwaited(w, o, Taken(s))
      BY <3>4, <3>5 DEF ParseAwaited
    <3> QED BY <1>t, <2>1, <2>2, <3>1, <3>2, <3>3, <3>4, <3>5, <3>6, ImportCommitted DEF ImportCommit
  <2> QED BY <2>3, <2>4
<1>9. ASSUME NEW s \in Slots, NEW answer \in Answers, Committed(s, answer)
      PROVE  ImportInv'
  <2>1. /\ calls[s].live => calls[s].about = view.previewed
        /\ Taken(s) \in C /\ calls[s] # None /\ calls[s].op = "commit"
    BY <1>9, ImportCall DEF Committed, ImportAbout
  <2>2. PICK x \in Snapshots : calls[s].args.names = {x} /\ x \in view.retired /\ view.imported[x] = 0
    BY <1>t, <2>1 DEF CommitReserved
  <2> DEFINE snapshot == CHOOSE y \in calls[s].args.names : TRUE
  <2>3. snapshot = x
    <3>1. x \in calls[s].args.names /\ \A y \in calls[s].args.names : y = x
      BY <2>2
    <3> QED BY <3>1
  <2>4. PICK n \in IF answer = "ok" THEN {1} ELSE IF answer = "thrown" THEN {0, 1} ELSE {0} :
          LET v == [view EXCEPT
                      !.imported[snapshot] = IF @ + n > 2 THEN 2 ELSE @ + n,
                      !.retired = IF Released(answer) THEN @ \ {snapshot} ELSE @,
                      !.complete = @ \/ (calls[s].live /\ answer = "ok")]
          IN  /\ IF ~calls[s].live
                 THEN ImportCommit(v, ops, Taken(s)) /\ UNCHANGED astray
                 ELSE /\ Apply(calls[s], ImportAbout("commit", view))
                      /\ ImportCommit(v, Settled("commit", answer), Taken(s))
    BY <1>9 DEF Committed
  <2> DEFINE retired == IF Released(answer) THEN view.retired \ {x} ELSE view.retired
             imported == [view.imported EXCEPT ![x] = n]
             complete == view.complete \/ (calls[s].live /\ answer = "ok")
             v == [view EXCEPT !.imported = imported, !.retired = retired, !.complete = complete]
             o == Settled("commit", answer)
  <2>5. n \in 0..1 /\ (n = 1 => ~Released(answer))
    BY <2>4 DEF Released
  <2>6. /\ v \in ImportFields /\ v.picked = view.picked /\ v.parsed = view.parsed
        /\ v.mapping = view.mapping /\ v.previewed = view.previewed
        /\ v.imported = imported /\ v.retired = retired
    <3>1. imported \in [Snapshots -> 0..1] /\ retired \in SUBSET Snapshots
      BY <1>t, <2>5 DEF ImportFields
    <3>2. complete \in BOOLEAN
      BY <1>t, <2>1 DEF ImportFields, Flights, ImportCalls, ImportLive, Writing, Late
    <3> HIDE DEF imported, retired, complete
    <3> QED BY <1>t, <3>1, <3>2 DEF ImportFields
  <2>7. (IF view.imported[x] + n > 2 THEN 2 ELSE view.imported[x] + n) = n
    BY <2>2, <2>5
  <2>8. /\ astray' = FALSE
        /\ ImportCommit(v, ops, Taken(s)) \/ ImportCommit(v, o, Taken(s))
    <3> HIDE DEF snapshot
    <3> QED BY <1>t, <2>1, <2>3, <2>4, <2>7 DEF Apply, ImportAbout
  <2>9. OnScreen(v) = OnScreen(view)
    BY <2>6 DEF OnScreen
  <2>10. o \in H /\ o["parse"] = ops["parse"]
    <3>1. o \in H
      BY <1>t, SettledHooks DEF ImportOps
    <3>2. o["parse"] = ops["parse"]
      BY <1>t DEF Settled, Hooks, ImportOps
    <3> QED BY <3>1, <3>2
  <2>11. \A r \in Slots : Taken(s)[r] = IF r = s THEN None ELSE calls[r]
    BY <1>t DEF Taken, Flights
  <2>12. \A y \in Snapshots : imported[y] = IF y = x THEN n ELSE view.imported[y]
    BY <1>t DEF ImportFields
  <2> HIDE DEF v, o
  <2>13. CommitReserved(v, Taken(s))
    <3>1. \A y \in Snapshots : v.imported[y] = 1 => y \in v.retired
      BY <1>t, <2>2, <2>5, <2>6, <2>12 DEF CommitReserved
    <3> HIDE DEF imported
    <3>2. ASSUME NEW r \in Slots, Taken(s)[r] # None, Taken(s)[r].op = "commit"
          PROVE  \E y \in Snapshots : /\ Taken(s)[r].args.names = {y} /\ y \in v.retired
                                      /\ v.imported[y] = 0
      <4>1. r # s /\ Taken(s)[r] = calls[r]
        BY <2>11, <3>2
      <4>2. PICK y \in Snapshots : calls[r].args.names = {y} /\ y \in view.retired /\ view.imported[y] = 0
        BY <1>t, <3>2, <4>1 DEF CommitReserved
      <4>3. y # x
        <5>1. calls[r] # None /\ calls[r].op = "commit"
          BY <3>2, <4>1
        <5>2. calls[r].args.names # calls[s].args.names
          BY <1>t, <2>1, <4>1, <5>1 DEF CommitReserved
        <5> QED BY <2>2, <4>2, <5>2
      <4> QED BY <2>6, <2>12, <4>1, <4>2, <4>3
    <3>3. \A r, q \in Slots :
            /\ Taken(s)[r] # None /\ Taken(s)[r].op = "commit"
            /\ Taken(s)[q] # None /\ Taken(s)[q].op = "commit"
            /\ Taken(s)[q].args.names = Taken(s)[r].args.names
            => q = r
      BY <1>t, <2>11 DEF CommitReserved
    <3> QED BY <3>1, <3>2, <3>3 DEF CommitReserved
  <2>14. ParseAwaited(v, ops, Taken(s))
    BY <1>t, <2>6, ParseBesides
  <2>15. ParseAwaited(v, o, Taken(s))
    BY <2>10, <2>14 DEF ParseAwaited
  <2> QED BY <1>t, <2>1, <2>6, <2>8, <2>9, <2>10, <2>13, <2>14, <2>15, ImportCommitted DEF ImportCommit
<1> QED BY <1>1, <1>2, <1>3, <1>4, <1>5, <1>6, <1>7, <1>8, <1>9 DEF ImportNext

-------------------------------------------------------------------------------
(* The list of lists *)

ListsWrites == {"create", "edit", "delete"}
\* A write of the lists keeps, beside what it names, the query to reload.
ListsArgs ==
  {[names |-> n, asked |-> n, reload |-> q] :
     n \in {{l} : l \in Lists \cup {None}}, q \in ListQueries}
Edited == [id : Lists, changed : BOOLEAN]
ListsAbouts == BOOLEAN \cup {None} \cup Edited \cup Lists

ListsFields ==
  [query : ListQueries, asked : ListQueries, page : {None} \cup SUBSET Lists, loading : BOOLEAN, failed : Failures,
   named : BOOLEAN, editing : {None} \cup Edited, deleting : {None} \cup Lists,
   confirm : {None} \cup Lists, locks : SUBSET ListsWrites]

ListsLive(named, editing, deleting) ==
  Writing({"create"}, named, ListsArgs) \cup Writing({"edit"}, editing, ListsArgs)
  \cup Writing({"delete"}, deleting, ListsArgs)

ListsCalls(loaded, named, editing, deleting) ==
  Asking("load", loaded) \cup ListsLive(named, editing, deleting)
  \cup Late(ListsWrites, ListsAbouts, ListsArgs)

\* What the dialog was opened for is what it would delete.
DialogFollows(v) == v.deleting = None \/ v.confirm \in {None, v.deleting}

ListsInv ==
  /\ astray = FALSE
  /\ view \in ListsFields /\ DialogFollows(view)
  /\ ops \in Hooks(ListsWrites, ListsArgs)
  /\ calls \in Flights(ListsCalls(view.asked, view.named, view.editing, view.deleting))

LEMMA ListsCommitted ==
  ASSUME ListsInv, NEW p, NEW v \in ListsFields, DialogFollows(v),
         NEW o \in Hooks(ListsWrites, ListsArgs),
         NEW c \in Flights(ListsCalls(v.asked, view.named, view.editing, view.deleting)),
         ListsCommit(p, v, o, c), astray' = FALSE
  PROVE  ListsInv'
<1> DEFINE gone == "remove" \notin p.can \/ v.query # view.query
           editing == IF "update" \in p.can THEN v.editing ELSE None
           deleting == IF gone THEN None ELSE v.deleting
           confirm == IF gone THEN None ELSE v.confirm
           kept == [v EXCEPT !.editing = editing, !.deleting = deleting, !.confirm = confirm,
                             !.locks = v.locks]
           before == ListScopes(view, props)
           after == ListScopes(kept, p)
           L == ListsLive(view.named, view.editing, view.deleting)
           M == ListsLive(kept.named, kept.editing, kept.deleting)
<1>1. /\ view' = kept
      /\ ops' = Rescoped(before, after, o)
      /\ calls' = Retired(before, after, c)
  BY DEF ListsCommit, Commit, LocksKept
<1>2. /\ kept \in ListsFields /\ kept.asked = v.asked
      /\ kept.deleting = deleting /\ kept.confirm = confirm
  BY DEF ListsFields
<1>3. DialogFollows(kept)
  <2> HIDE DEF kept
  <2> QED BY <1>2 DEF DialogFollows
<1>4. Retired(before, after, c) \in Flights(ListsCalls(kept.asked, kept.named, kept.editing, kept.deleting))
  <2> HIDE DEF kept
  <2>1. DOMAIN before = ListsWrites
    BY DEF ListScopes, ListsWrites
  <2>2. \A x \in L : before[x.op] = after[x.op] => x \in M
    <3> SUFFICES ASSUME NEW x \in L, before[x.op] = after[x.op] PROVE x \in M
      OBVIOUS
    <3>1. CASE x \in Writing({"create"}, view.named, ListsArgs)
      <4>1. x.op = "create"
        BY <3>1 DEF Writing
      <4>2. view.named = kept.named
        BY <4>1 DEF ListScopes
      <4> QED BY <3>1, <4>2 DEF ListsLive
    <3>2. CASE x \in Writing({"edit"}, view.editing, ListsArgs)
      <4>1. x.op = "edit"
        BY <3>2 DEF Writing
      <4>2. view.editing = kept.editing
        BY <4>1 DEF ListScopes
      <4> QED BY <3>2, <4>2 DEF ListsLive
    <3>3. CASE x \in Writing({"delete"}, view.deleting, ListsArgs)
      <4>1. x.op = "delete"
        BY <3>3 DEF Writing
      <4>2. view.deleting = kept.deleting
        BY <4>1 DEF ListScopes
      <4> QED BY <3>3, <4>2 DEF ListsLive
    <3> QED BY <3>1, <3>2, <3>3 DEF ListsLive
  <2>3. L \subseteq [op : ListsWrites, about : ListsAbouts, args : ListsArgs, live : {TRUE}]
    <3>1. {view.named, view.editing, view.deleting} \subseteq ListsAbouts
      BY DEF ListsInv, ListsFields, ListsAbouts
    <3> QED BY <3>1 DEF ListsLive, Writing, ListsWrites
  <2>4. \A x \in L : x.op \in DOMAIN before
    BY <2>1 DEF ListsLive, Writing, ListsWrites
  <2>5. \A x \in Asking("load", v.asked) : x.op \notin DOMAIN before
    BY <2>1 DEF Asking, ListsWrites
  <2> HIDE DEF before, after, L, M
  <2> QED BY <1>2, <2>2, <2>3, <2>4, <2>5, RetiredFlights DEF ListsCalls, L, M
<1>5. Rescoped(before, after, o) \in Hooks(ListsWrites, ListsArgs)
  BY RescopedHooks
<1> HIDE DEF before, after, kept
<1> QED BY <1>1, <1>2, <1>3, <1>4, <1>5 DEF ListsInv

LEMMA ListsLoading ==
  ASSUME NEW q, NEW r, NEW named, NEW editing, NEW deleting,
         NEW c \in Flights(ListsCalls(q, named, editing, deleting))
  PROVE  Loading(c, "load", r) \in Flights(ListsCalls(r, named, editing, deleting))
<1>1. \A x \in ListsCalls(q, named, editing, deleting) :
        x.op = "load" \/ x \in ListsCalls(r, named, editing, deleting)
  BY DEF ListsCalls, Asking
<1> QED BY <1>1, LoadingFlights DEF ListsCalls

LEMMA ListsCall ==
  ASSUME ListsInv, NEW s \in Slots, calls[s] # None
  PROVE  /\ calls[s].op = "load" \/ calls[s].live => calls[s].about = ListsAbout(calls[s].op, view)
         /\ calls[s].op \in ListsWrites => calls[s].args \in ListsArgs
         /\ Taken(s) \in Flights(ListsCalls(view.asked, view.named, view.editing, view.deleting))
<1>1. Taken(s) \in Flights(ListsCalls(view.asked, view.named, view.editing, view.deleting))
  BY TakenFlights DEF ListsInv
<1>2. calls[s] \in ListsCalls(view.asked, view.named, view.editing, view.deleting)
  BY DEF ListsInv, Flights
<1>3. CASE calls[s] \in Asking("load", view.asked)
  BY <1>1, <1>3 DEF Asking, ListsAbout, ListsWrites
<1>4. CASE calls[s] \in ListsLive(view.named, view.editing, view.deleting)
  BY <1>1, <1>4 DEF ListsLive, Writing, ListsAbout
<1>5. CASE calls[s] \in Late(ListsWrites, ListsAbouts, ListsArgs)
  BY <1>1, <1>5 DEF Late, ListsWrites
<1> QED BY <1>2, <1>3, <1>4, <1>5 DEF ListsCalls

LEMMA ListWritten ==
  ASSUME ListsInv, NEW op \in ListsWrites, NEW v \in ListsFields, DialogFollows(v),
         v.asked = view.asked, NEW args \in ListsArgs, ListWrite(op, v, args)
  PROVE  ListsInv'
<1> DEFINE w == Lock(v, op)
           call == Request(op, ListsAbout(op, view), args)
           C == ListsCalls(view.asked, view.named, view.editing, view.deleting)
<1>1. w \in ListsFields /\ w.asked = view.asked /\ w.deleting = v.deleting /\ w.confirm = v.confirm
  BY DEF ListsFields, Lock
<1>2. Attempted(op, args) \in Hooks(ListsWrites, ListsArgs)
  BY AttemptedHooks DEF ListsInv
<1>3. call \in C
  <2>1. CASE op = "create"
    BY <2>1 DEF Request, ListsAbout, ListsCalls, ListsLive, Writing
  <2>2. CASE op = "edit"
    BY <2>2 DEF Request, ListsAbout, ListsCalls, ListsLive, Writing
  <2>3. CASE op = "delete"
    BY <2>3 DEF Request, ListsAbout, ListsCalls, ListsLive, Writing
  <2> QED BY <2>1, <2>2, <2>3 DEF ListsWrites
<1>4. Made(calls, call) \in Flights(C)
  BY <1>3, MadeFlights DEF ListsInv
<1>5. ListsCommit(props, w, Attempted(op, args), Made(calls, call))
  BY DEF ListWrite
<1>6. astray' = FALSE
  BY DEF ListWrite, ListsInv
<1> HIDE DEF w, call
<1>7. DialogFollows(w)
  BY <1>1 DEF DialogFollows
<1> QED BY <1>1, <1>2, <1>4, <1>5, <1>6, <1>7, ListsCommitted

LEMMA Submitting ==
  ASSUME view \in ListsFields, NEW l \in Lists \cup {None}
  PROVE  Submission({l}, {l}) \in ListsArgs
<1>1. view.query \in ListQueries /\ {l} \in {{k} : k \in Lists \cup {None}}
  BY DEF ListsFields
<1> QED BY <1>1 DEF Submission, ListsArgs

LEMMA ListsBegins == ListsInit => ListsInv
<1> SUFFICES ASSUME ListsInit PROVE ListsInv
  OBVIOUS
<1>1. PICK q \in ListQueries :
        /\ view = [query |-> q, asked |-> q, page |-> None, loading |-> TRUE, failed |-> None,
                   named |-> FALSE, editing |-> None, deleting |-> None, confirm |-> None,
                   locks |-> {}]
        /\ calls = Loading(NoCalls, "load", q)
  BY DEF ListsInit
<1>2. view \in ListsFields /\ view.asked = q /\ view.deleting = None
  BY <1>1 DEF ListsFields, Failures
<1>3. NoCalls \in Flights(ListsCalls(q, view.named, view.editing, view.deleting))
  BY NoFlights
<1>4. calls \in Flights(ListsCalls(q, view.named, view.editing, view.deleting))
  BY <1>1, <1>3, ListsLoading
<1>5. ops \in Hooks(ListsWrites, ListsArgs)
  BY IdleHooks DEF ListsInit, ListsWrites
<1> QED BY <1>2, <1>4, <1>5 DEF ListsInv, ListsInit, DialogFollows

LEMMA ListsStep ==
  ASSUME ListsInv, ListsNext
  PROVE  ListsInv'
<1> DEFINE C == Flights(ListsCalls(view.asked, view.named, view.editing, view.deleting))
           H == Hooks(ListsWrites, ListsArgs)
<1>t. /\ astray = FALSE /\ view \in ListsFields /\ DialogFollows(view)
      /\ ops \in H /\ calls \in C
  BY DEF ListsInv
<1>f. \A v \in ListsFields, q \in ListQueries :
        /\ Fetching(v, q) \in ListsFields /\ Fetching(v, q).asked = q
        /\ Fetching(v, q).deleting = v.deleting /\ Fetching(v, q).confirm = v.confirm
  BY DEF Fetching, ListsFields, Failures
<1>1. CASE ListsQuery
  <2>1. PICK q \in ListQueries :
          ListsCommit(props, [Fetching(view, q) EXCEPT !.query = q], ops, Loading(calls, "load", q))
    BY <1>1 DEF ListsQuery
  <2> DEFINE v == [Fetching(view, q) EXCEPT !.query = q]
  <2>2. v \in ListsFields /\ v.asked = q /\ v.deleting = view.deleting /\ v.confirm = view.confirm
    BY <1>t, <1>f DEF ListsFields
  <2>3. Loading(calls, "load", q) \in Flights(ListsCalls(q, view.named, view.editing, view.deleting))
    BY <1>t, ListsLoading
  <2>4. astray' = FALSE
    BY <1>1, <1>t DEF ListsQuery
  <2> HIDE DEF v
  <2>5. DialogFollows(v)
    BY <1>t, <2>2 DEF DialogFollows
  <2> QED BY <1>t, <2>1, <2>2, <2>3, <2>4, <2>5, ListsCommitted DEF v
<1>2. CASE ListsRetryLoad
  <2> DEFINE q == view.query
             v == Fetching(view, q)
  <2>1. Loading(calls, "load", q) \in Flights(ListsCalls(q, view.named, view.editing, view.deleting))
    BY <1>t, ListsLoading
  <2>2. ListsCommit(props, v, ops, Loading(calls, "load", q)) /\ astray' = FALSE
    BY <1>2, <1>t DEF ListsRetryLoad
  <2>3. q \in ListQueries
    BY <1>t DEF ListsFields
  <2> HIDE DEF q
  <2>4. v \in ListsFields /\ v.asked = q /\ v.deleting = view.deleting /\ v.confirm = view.confirm
    BY <1>t, <1>f, <2>3
  <2> HIDE DEF v
  <2>5. DialogFollows(v)
    BY <1>t, <2>4 DEF DialogFollows
  <2> QED BY <1>t, <2>1, <2>2, <2>4, <2>5, ListsCommitted
<1>3. CASE NameDraft
  <2> DEFINE v == [view EXCEPT !.named = ~@]
  <2>1. v \in ListsFields /\ v.asked = view.asked /\ v.deleting = view.deleting /\ v.confirm = view.confirm
    BY <1>t DEF ListsFields
  <2>2. ListsCommit(props, v, ops, calls) /\ astray' = FALSE
    BY <1>3, <1>t DEF NameDraft
  <2> HIDE DEF v
  <2>3. DialogFollows(v)
    BY <1>t, <2>1 DEF DialogFollows
  <2> QED BY <1>t, <2>1, <2>2, <2>3, ListsCommitted
<1>4. CASE EditList
  <2>1. PICK e \in {[id |-> l, changed |-> FALSE] : l \in ListsShown} \cup {None}
                  \cup (IF view.editing = None THEN {} ELSE {[view.editing EXCEPT !.changed = TRUE]}) :
          ListsCommit(props, [view EXCEPT !.editing = e], ops, calls)
    BY <1>4 DEF EditList
  <2>2. e \in {None} \cup Edited
    <3>1. ListsShown \subseteq Lists
      BY <1>t DEF ListsShown, ListsFields
    <3>2. view.editing \in {None} \cup Edited
      BY <1>t DEF ListsFields
    <3>3. CASE e \in {[id |-> l, changed |-> FALSE] : l \in ListsShown}
      <4>1. PICK l \in Lists : e = [id |-> l, changed |-> FALSE]
        BY <3>1, <3>3
      <4> QED BY <4>1 DEF Edited
    <3>4. CASE view.editing # None /\ e = [view.editing EXCEPT !.changed = TRUE]
      BY <3>2, <3>4 DEF Edited
    <3> QED BY <2>1, <3>3, <3>4
  <2> DEFINE v == [view EXCEPT !.editing = e]
  <2>3. v \in ListsFields /\ v.asked = view.asked /\ v.deleting = view.deleting /\ v.confirm = view.confirm
    BY <1>t, <2>2 DEF ListsFields
  <2>4. astray' = FALSE
    BY <1>4, <1>t DEF EditList
  <2> HIDE DEF v
  <2>5. DialogFollows(v)
    BY <1>t, <2>3 DEF DialogFollows
  <2> QED BY <1>t, <2>1, <2>3, <2>4, <2>5, ListsCommitted DEF v
<1>5. CASE AskDeleteList
  <2>1. PICK l \in ListsShown : ListsCommit(props, [view EXCEPT !.deleting = l, !.confirm = l], ops, calls)
    BY <1>5 DEF AskDeleteList
  <2> DEFINE v == [view EXCEPT !.deleting = l, !.confirm = l]
  <2>2. l \in Lists
    BY <1>t DEF ListsShown, ListsFields
  <2>3. v \in ListsFields /\ v.asked = view.asked /\ v.deleting = l /\ v.confirm = l
    BY <1>t, <2>2 DEF ListsFields
  <2>4. astray' = FALSE
    BY <1>5, <1>t DEF AskDeleteList
  <2> HIDE DEF v
  <2>5. DialogFollows(v)
    BY <2>3 DEF DialogFollows
  <2> QED BY <1>t, <2>1, <2>3, <2>4, <2>5, ListsCommitted DEF v
<1>6. CASE CancelDeleteList
  <2> DEFINE v == [view EXCEPT !.deleting = None, !.confirm = None]
  <2>1. v \in ListsFields /\ v.asked = view.asked /\ v.deleting = None
    BY <1>t DEF ListsFields
  <2>2. ListsCommit(props, v, ops, calls) /\ astray' = FALSE
    BY <1>6, <1>t DEF CancelDeleteList
  <2> HIDE DEF v
  <2>3. DialogFollows(v)
    BY <2>1 DEF DialogFollows
  <2> QED BY <1>t, <2>1, <2>2, <2>3, ListsCommitted
<1>7. CASE createList
  <2>1. Submission({None}, {None}) \in ListsArgs
    BY <1>t, Submitting
  <2>2. ListWrite("create", view, Submission({None}, {None}))
    BY <1>7 DEF createList
  <2> QED BY <1>t, <2>1, <2>2, ListWritten DEF ListsWrites
<1>8. CASE updateList
  <2>1. view.editing.id \in Lists
    BY <1>8, <1>t DEF updateList, ListsFields, Edited
  <2>2. Submission({view.editing.id}, {view.editing.id}) \in ListsArgs
    BY <1>t, <2>1, Submitting
  <2>3. ListWrite("edit", view, Submission({view.editing.id}, {view.editing.id}))
    BY <1>8 DEF updateList
  <2> QED BY <1>t, <2>2, <2>3, ListWritten DEF ListsWrites
<1>9. CASE removeList
  <2> DEFINE v == [view EXCEPT !.confirm = None]
             args == Submission({view.deleting}, {view.confirm})
  <2>1. v \in ListsFields /\ v.asked = view.asked /\ v.confirm = None
    BY <1>t DEF ListsFields
  <2>2. view.deleting \in Lists /\ view.confirm = view.deleting
    BY <1>9, <1>t DEF removeList, ListsFields, DialogFollows
  <2>3. args \in ListsArgs
    BY <1>t, <2>2, Submitting
  <2>4. ListWrite("delete", v, args)
    BY <1>9 DEF removeList
  <2> HIDE DEF v, args
  <2>5. DialogFollows(v)
    BY <2>1 DEF DialogFollows
  <2> QED BY <2>1, <2>3, <2>4, <2>5, ListWritten DEF ListsWrites
<1>10. ASSUME NEW op \in ListsWrites, retryList(op)
       PROVE  ListsInv'
  <2>1. ops[op].last \in ListsArgs
    BY <1>10, <1>t DEF retryList, MayRetry, Hooks
  <2> QED BY <1>10, <1>t, <2>1, ListWritten DEF retryList
<1>11. CASE ListsRegrant
  <2>1. PICK p \in Regrants : ListsCommit(p, view, ops, calls)
    BY <1>11 DEF ListsRegrant
  <2>2. astray' = FALSE
    BY <1>11, <1>t DEF ListsRegrant
  <2> QED BY <1>t, <2>1, <2>2, ListsCommitted
<1>12. ASSUME NEW s \in Slots, NEW answer \in Answers, ListsLoaded(s, answer)
       PROVE  ListsInv'
  <2>1. calls[s].about = ListsAbout("load", view) /\ Taken(s) \in C
    BY <1>12, ListsCall DEF ListsLoaded
  <2>2. astray' = FALSE
    BY <1>12, <1>t, <2>1 DEF ListsLoaded, Apply
  <2>3. CASE answer = "ok"
    <3>1. PICK page \in SUBSET Lists :
            ListsCommit(props, [view EXCEPT !.loading = FALSE, !.page = page], ops, Taken(s))
      BY <1>12, <2>3 DEF ListsLoaded
    <3> DEFINE v == [view EXCEPT !.loading = FALSE, !.page = page]
    <3>2. v \in ListsFields /\ v.asked = view.asked /\ v.deleting = view.deleting /\ v.confirm = view.confirm
      BY <1>t DEF ListsFields
    <3> HIDE DEF v
    <3>3. DialogFollows(v)
      BY <1>t, <3>2 DEF DialogFollows
    <3> QED BY <1>t, <2>1, <2>2, <3>1, <3>2, <3>3, ListsCommitted DEF v
  <2>4. CASE answer # "ok"
    <3> DEFINE failed == safeAdapterCall(answer)
               v == [view EXCEPT !.loading = FALSE, !.page = None, !.failed = failed]
    <3>0. failed \in Failures
      BY <2>4 DEF safeAdapterCall, Answers, Failures
    <3> HIDE DEF failed
    <3>1. v \in ListsFields /\ v.asked = view.asked /\ v.deleting = view.deleting /\ v.confirm = view.confirm
      BY <1>t, <3>0 DEF ListsFields
    <3>2. ListsCommit(props, v, ops, Taken(s))
      BY <1>12, <2>4 DEF ListsLoaded, failed
    <3> HIDE DEF v
    <3>3. DialogFollows(v)
      BY <1>t, <3>1 DEF DialogFollows
    <3> QED BY <1>t, <2>1, <2>2, <3>1, <3>2, <3>3, ListsCommitted
  <2> QED BY <2>3, <2>4
<1>13. ASSUME NEW s \in Slots, NEW answer \in Answers, ListAnswered(s, answer)
       PROVE  ListsInv'
  <2> DEFINE op == calls[s].op
             v == Unlock(view, op)
             done == CASE op = "create" -> [v EXCEPT !.named = FALSE]
                       [] op = "edit"   -> [v EXCEPT !.editing = None]
                       [] op = "delete" -> [v EXCEPT !.deleting = None]
             q == calls[s].args.reload
             w == Fetching(done, q)
  <2>1. /\ op \in ListsWrites /\ (calls[s].live => calls[s].about = ListsAbout(op, view))
        /\ Taken(s) \in C /\ calls[s].args \in ListsArgs
    BY <1>13, ListsCall DEF ListAnswered, ListsWrites
  <2>2. v \in ListsFields /\ v.asked = view.asked /\ v.deleting = view.deleting /\ v.confirm = view.confirm
    BY <1>t DEF Unlock, ListsFields
  <2> HIDE DEF v
  <2>3. /\ done \in ListsFields /\ done.confirm = view.confirm
        /\ done.deleting \in {view.deleting, None}
    <3>1. CASE op = "create"
      BY <2>2, <3>1 DEF ListsFields
    <3>2. CASE op = "edit"
      BY <2>2, <3>2 DEF ListsFields
    <3>3. CASE op = "delete"
      BY <2>2, <3>3 DEF ListsFields
    <3> QED BY <2>1, <3>1, <3>2, <3>3 DEF ListsWrites
  <2>4. astray' = FALSE
    BY <1>13, <1>t, <2>1 DEF ListAnswered, Apply
  <2>5. Settled(op, answer) \in H
    BY <1>t, <2>1, SettledHooks
  <2>6. Loading(Taken(s), "load", q) \in Flights(ListsCalls(q, view.named, view.editing, view.deleting))
    BY <2>1, ListsLoading
  <2>7. \/ ListsCommit(props, v, ops, Taken(s))
        \/ ListsCommit(props, v, Settled(op, answer), Taken(s))
        \/ ListsCommit(props, w, Settled(op, answer), Loading(Taken(s), "load", q))
    BY <1>13 DEF ListAnswered, v
  <2>8. q \in ListQueries
    BY <2>1 DEF ListsArgs
  <2> HIDE DEF op, done, q
  <2>9. /\ w \in ListsFields /\ w.asked = q /\ w.confirm = view.confirm
        /\ w.deleting \in {view.deleting, None}
    BY <1>f, <2>3, <2>8
  <2> HIDE DEF w
  <2>10. DialogFollows(v) /\ DialogFollows(w)
    BY <1>t, <2>2, <2>9 DEF DialogFollows
  <2> QED BY <1>t, <2>1, <2>2, <2>4, <2>5, <2>6, <2>7, <2>9, <2>10, ListsCommitted
<1> QED BY <1>1, <1>2, <1>3, <1>4, <1>5, <1>6, <1>7, <1>8, <1>9, <1>10, <1>11, <1>12, <1>13
        DEF ListsNext, ListsWrites

-------------------------------------------------------------------------------
(* One list *)

MembersWrites == {"add", "remove"}
Choices == Targets \X SUBSET Members
MembersArgs == AskedFor(Choices)

ListFields ==
  [list : {None} \cup [id : Targets, members : SUBSET Members], failed : Failures,
   query : ListQueries, found : {None, Members}, missed : Failures,
   toAdd : SUBSET Members, toRemove : SUBSET Members, confirm : {None} \cup SUBSET Members,
   locks : SUBSET MembersWrites]

MembersLive(target, toAdd, toRemove) ==
  Writing({"add"}, <<target, toAdd>>, MembersArgs)
  \cup Writing({"remove"}, <<target, toRemove>>, MembersArgs)

MembersCalls(loaded, searched, target, toAdd, toRemove) ==
  Asking("load", loaded) \cup Asking("search", searched) \cup MembersLive(target, toAdd, toRemove)
  \cup Late(MembersWrites, Choices, MembersArgs)

ListInv ==
  /\ astray = FALSE
  /\ props \in [target : Targets, can : Grants]
  /\ view \in ListFields /\ view.confirm \in {None, view.toRemove}
  /\ ops \in Hooks(MembersWrites, MembersArgs)
  /\ calls \in Flights(MembersCalls(props.target, <<props.target, view.query>>,
                                    props.target, view.toAdd, view.toRemove))

LEMMA MembersCommitted ==
  ASSUME ListInv, NEW p \in [target : Targets, can : Grants],
         NEW v \in ListFields, v.confirm \in {None, view.toRemove},
         NEW o \in Hooks(MembersWrites, MembersArgs),
         NEW c \in Flights(MembersCalls(p.target, <<p.target, v.query>>,
                                        props.target, view.toAdd, view.toRemove)),
         MembersCommit(p, v, o, c), astray' = FALSE
  PROVE  ListInv'
<1> DEFINE elsewhere == p.target # props.target
           toAdd == IF elsewhere \/ v.query # view.query THEN {} ELSE v.toAdd
           toRemove == IF elsewhere THEN {} ELSE v.toRemove
           kept == [v EXCEPT !.toAdd = toAdd, !.toRemove = toRemove]
           closed == [kept EXCEPT !.confirm = RemovalKept(kept, p), !.locks = v.locks]
           before == MemberScopes(view, props)
           after == MemberScopes(closed, p)
           L == MembersLive(props.target, view.toAdd, view.toRemove)
           M == MembersLive(p.target, closed.toAdd, closed.toRemove)
<1>1. /\ view' = closed /\ props' = p
      /\ ops' = Rescoped(before, after, o)
      /\ calls' = Retired(before, after, c)
  BY DEF MembersCommit, Commit, LocksKept
<1>2. /\ kept \in ListFields /\ kept.query = v.query /\ kept.confirm = v.confirm
      /\ kept.toRemove = toRemove
  BY DEF ListFields
<1>3. RemovalKept(kept, p) \in {None, kept.toRemove}
  <2> HIDE DEF kept, toRemove
  <2> QED BY <1>2 DEF RemovalKept
<1>4. /\ closed \in ListFields /\ closed.query = v.query
      /\ closed.confirm \in {None, closed.toRemove}
  <2> HIDE DEF kept
  <2> QED BY <1>2, <1>3 DEF ListFields
<1>5. Retired(before, after, c)
        \in Flights(MembersCalls(p.target, <<p.target, closed.query>>,
                                 p.target, closed.toAdd, closed.toRemove))
  <2> HIDE DEF closed
  <2>1. DOMAIN before = MembersWrites
    BY DEF MemberScopes, MembersWrites
  <2>2. \A x \in L : before[x.op] = after[x.op] => x \in M
    <3> SUFFICES ASSUME NEW x \in L, before[x.op] = after[x.op] PROVE x \in M
      OBVIOUS
    <3>1. CASE x \in Writing({"add"}, <<props.target, view.toAdd>>, MembersArgs)
      <4>1. x.op = "add"
        BY <3>1 DEF Writing
      <4>2. props.target = p.target /\ view.toAdd = closed.toAdd
        BY <4>1 DEF MemberScopes
      <4> QED BY <3>1, <4>2 DEF MembersLive
    <3>2. CASE x \in Writing({"remove"}, <<props.target, view.toRemove>>, MembersArgs)
      <4>1. x.op = "remove"
        BY <3>2 DEF Writing
      <4>2. props.target = p.target /\ view.toRemove = closed.toRemove
        BY <4>1 DEF MemberScopes
      <4> QED BY <3>2, <4>2 DEF MembersLive
    <3> QED BY <3>1, <3>2 DEF MembersLive
  <2>3. L \subseteq [op : MembersWrites, about : Choices, args : MembersArgs, live : {TRUE}]
    <3>1. {<<props.target, view.toAdd>>, <<props.target, view.toRemove>>} \subseteq Choices
      BY DEF ListInv, ListFields, Choices
    <3> QED BY <3>1 DEF MembersLive, Writing, MembersWrites
  <2>4. \A x \in L : x.op \in DOMAIN before
    BY <2>1 DEF MembersLive, Writing, MembersWrites
  <2> DEFINE B == Asking("load", p.target) \cup Asking("search", <<p.target, v.query>>)
  <2>5. \A x \in B : x.op \notin DOMAIN before
    BY <2>1 DEF Asking, MembersWrites
  <2> HIDE DEF before, after, L, M, B
  <2>6. c \in Flights(B \cup L \cup Late(MembersWrites, Choices, MembersArgs))
    BY DEF MembersCalls, B, L
  <2>7. Retired(before, after, c) \in Flights(B \cup M \cup Late(MembersWrites, Choices, MembersArgs))
    BY <2>2, <2>3, <2>4, <2>5, <2>6, RetiredFlights
  <2> QED BY <1>4, <2>7 DEF MembersCalls, B, M
<1>6. Rescoped(before, after, o) \in Hooks(MembersWrites, MembersArgs)
  BY RescopedHooks
<1> HIDE DEF before, after, closed
<1> QED BY <1>1, <1>4, <1>5, <1>6 DEF ListInv

LEMMA MembersLoading ==
  ASSUME NEW x, NEW y, NEW q, NEW t, NEW toAdd, NEW toRemove,
         NEW c \in Flights(MembersCalls(x, y, t, toAdd, toRemove))
  PROVE  /\ Loading(c, "load", q) \in Flights(MembersCalls(q, y, t, toAdd, toRemove))
         /\ SearchFrom(c, q) \in Flights(MembersCalls(x, q, t, toAdd, toRemove))
<1> DEFINE G == MembersCalls(x, y, t, toAdd, toRemove)
           H == MembersCalls(q, y, t, toAdd, toRemove)
           J == MembersCalls(x, q, t, toAdd, toRemove)
<1>1. /\ \A z \in G : z.op = "load" \/ z \in H
      /\ Asking("load", q) \subseteq H
  BY DEF MembersCalls, Asking
<1>2. /\ \A z \in G : z.op = "search" \/ z \in J
      /\ Asking("search", q) \subseteq J
  BY DEF MembersCalls, Asking
<1> HIDE DEF G, H, J
<1>3. Loading(c, "load", q) \in Flights(H)
  BY <1>1, LoadingFlights DEF G
<1>4. Loading(c, "search", q) \in Flights(J)
  BY <1>2, LoadingFlights DEF G
<1> QED BY <1>3, <1>4 DEF SearchFrom, H, J

LEMMA MembersCall ==
  ASSUME ListInv, NEW s \in Slots, calls[s] # None
  PROVE  /\ calls[s].op \in {"load", "search"} \/ calls[s].live
              => calls[s].about = MembersAbout(calls[s].op, view)
         /\ Taken(s) \in Flights(MembersCalls(props.target, <<props.target, view.query>>,
                                              props.target, view.toAdd, view.toRemove))
<1>1. Taken(s) \in Flights(MembersCalls(props.target, <<props.target, view.query>>,
                                        props.target, view.toAdd, view.toRemove))
  BY TakenFlights DEF ListInv
<1>2. calls[s] \in MembersCalls(props.target, <<props.target, view.query>>,
                                props.target, view.toAdd, view.toRemove)
  BY DEF ListInv, Flights
<1>3. CASE calls[s] \in Asking("load", props.target) \cup Asking("search", <<props.target, view.query>>)
  BY <1>1, <1>3 DEF Asking, MembersAbout
<1>4. CASE calls[s] \in MembersLive(props.target, view.toAdd, view.toRemove)
  BY <1>1, <1>4 DEF MembersLive, Writing, MembersAbout
<1>5. CASE calls[s] \in Late(MembersWrites, Choices, MembersArgs)
  BY <1>1, <1>5 DEF Late, MembersWrites
<1> QED BY <1>2, <1>3, <1>4, <1>5 DEF MembersCalls

LEMMA MembersWritten ==
  ASSUME ListInv, NEW op \in MembersWrites, NEW v \in ListFields,
         v.query = view.query, v.confirm \in {None, view.toRemove},
         NEW args \in MembersArgs, MemberWrite(op, v, args)
  PROVE  ListInv'
<1> DEFINE w == Lock(v, op)
           call == Request(op, MembersAbout(op, view), args)
           G == MembersCalls(props.target, <<props.target, view.query>>,
                             props.target, view.toAdd, view.toRemove)
<1>1. w \in ListFields /\ w.query = view.query /\ w.confirm = v.confirm
  BY DEF ListFields, Lock
<1>2. Attempted(op, args) \in Hooks(MembersWrites, MembersArgs)
  BY AttemptedHooks DEF ListInv
<1>3. call \in G
  <2>1. CASE op = "add"
    BY <2>1 DEF Request, MembersAbout, MembersCalls, MembersLive, Writing
  <2>2. CASE op = "remove"
    BY <2>2 DEF Request, MembersAbout, MembersCalls, MembersLive, Writing
  <2> QED BY <2>1, <2>2 DEF MembersWrites
<1>4. Made(calls, call) \in Flights(G)
  BY <1>3, MadeFlights DEF ListInv
<1>5. MembersCommit(props, w, Attempted(op, args), Made(calls, call))
  BY DEF MemberWrite
<1>6. astray' = FALSE /\ props \in [target : Targets, can : Grants]
  BY DEF MemberWrite, ListInv
<1> HIDE DEF w, call
<1> QED BY <1>1, <1>2, <1>4, <1>5, <1>6, MembersCommitted

LEMMA ListBegins == ListInit => ListInv
<1> SUFFICES ASSUME ListInit PROVE ListInv
  OBVIOUS
<1>1. PICK t \in Targets, q \in ListQueries, can \in Grants :
       /\ props = [target |-> t, can |-> can]
       /\ view = [list |-> None, failed |-> None, query |-> q, found |-> None, missed |-> None,
                  toAdd |-> {}, toRemove |-> {}, confirm |-> None, locks |-> {}]
       /\ calls = Loading(Loading(NoCalls, "load", t), "search", <<t, q>>)
  BY DEF ListInit
<1>2. /\ view \in ListFields /\ view.confirm = None /\ view.query = q
      /\ view.toAdd = {} /\ view.toRemove = {}
  BY <1>1 DEF ListFields, Failures
<1>3. props \in [target : Targets, can : Grants] /\ props.target = t
  BY <1>1
<1>4. NoCalls \in Flights(MembersCalls(t, <<t, q>>, t, {}, {}))
  BY NoFlights
<1>5. Loading(NoCalls, "load", t) \in Flights(MembersCalls(t, <<t, q>>, t, {}, {}))
  BY <1>4, MembersLoading
<1>6. calls \in Flights(MembersCalls(t, <<t, q>>, t, {}, {}))
  BY <1>1, <1>5, MembersLoading DEF SearchFrom
<1>7. ops \in Hooks(MembersWrites, MembersArgs)
  BY IdleHooks DEF ListInit, MembersWrites
<1> QED BY <1>2, <1>3, <1>6, <1>7 DEF ListInv, ListInit

LEMMA ListStep ==
  ASSUME ListInv, ListNext
  PROVE  ListInv'
<1> DEFINE C == Flights(MembersCalls(props.target, <<props.target, view.query>>,
                                     props.target, view.toAdd, view.toRemove))
           H == Hooks(MembersWrites, MembersArgs)
           P == [target : Targets, can : Grants]
<1>t. /\ astray = FALSE /\ props \in P /\ view \in ListFields
      /\ view.confirm \in {None, view.toRemove} /\ ops \in H /\ calls \in C
  BY DEF ListInv
<1>f. \A v \in ListFields :
        /\ LoadingList(v) \in ListFields /\ LoadingList(v).query = v.query
        /\ LoadingList(v).confirm = v.confirm
        /\ Searching(v) \in ListFields /\ Searching(v).query = v.query
        /\ Searching(v).confirm = v.confirm
  BY DEF LoadingList, Searching, ListFields, Failures
<1>1. CASE ListRetarget
  <2>1. PICK t \in Targets :
          MembersCommit([props EXCEPT !.target = t], Searching(LoadingList(view)), ops,
                        SearchFrom(Loading(calls, "load", t), <<t, view.query>>))
    BY <1>1 DEF ListRetarget
  <2> DEFINE p == [props EXCEPT !.target = t]
  <2>2. p \in P /\ p.target = t
    BY <1>t
  <2>3. Loading(calls, "load", t)
          \in Flights(MembersCalls(t, <<props.target, view.query>>,
                                   props.target, view.toAdd, view.toRemove))
    BY <1>t, MembersLoading
  <2>4. SearchFrom(Loading(calls, "load", t), <<t, view.query>>)
          \in Flights(MembersCalls(t, <<t, view.query>>, props.target, view.toAdd, view.toRemove))
    BY <2>3, MembersLoading
  <2>5. astray' = FALSE
    BY <1>1, <1>t DEF ListRetarget
  <2> HIDE DEF p
  <2> QED BY <1>t, <1>f, <2>1, <2>2, <2>4, <2>5, MembersCommitted DEF p
<1>2. CASE SearchContacts
  <2>1. PICK q \in ListQueries :
          MembersCommit(props, [Searching(view) EXCEPT !.query = q], ops,
                        SearchFrom(calls, <<props.target, q>>))
    BY <1>2 DEF SearchContacts
  <2> DEFINE v == [Searching(view) EXCEPT !.query = q]
  <2>2. v \in ListFields /\ v.query = q /\ v.confirm = view.confirm
    BY <1>t, <1>f DEF ListFields
  <2>3. SearchFrom(calls, <<props.target, q>>)
          \in Flights(MembersCalls(props.target, <<props.target, q>>,
                                   props.target, view.toAdd, view.toRemove))
    BY <1>t, MembersLoading
  <2>4. astray' = FALSE
    BY <1>2, <1>t DEF SearchContacts
  <2> HIDE DEF v
  <2> QED BY <1>t, <2>1, <2>2, <2>3, <2>4, MembersCommitted DEF v
<1>3. CASE ListRetryLoad
  <2>1. Loading(calls, "load", props.target) \in C
    BY <1>t, MembersLoading
  <2> QED BY <1>3, <1>t, <1>f, <2>1, MembersCommitted DEF ListRetryLoad
<1>4. CASE SearchRetry
  <2>1. SearchFrom(calls, <<props.target, view.query>>) \in C
    BY <1>t, MembersLoading
  <2> QED BY <1>4, <1>t, <1>f, <2>1, MembersCommitted DEF SearchRetry
<1>5. CASE ToggleMember
  <2>a. astray' = FALSE
    BY <1>5, <1>t DEF ToggleMember
  <2>1. ASSUME NEW x \in view.list.members, ListVisible(view, props),
               MembersCommit(props, [view EXCEPT !.toRemove = Flipped(@, x)], ops, calls)
        PROVE  ListInv'
    <3> DEFINE v == [view EXCEPT !.toRemove = Flipped(@, x)]
    <3>1. x \in Members
      BY <1>t, <2>1 DEF ListVisible, ListFields
    <3>2. v \in ListFields /\ v.query = view.query /\ v.confirm = view.confirm
      BY <1>t, <3>1 DEF ListFields, Flipped
    <3> HIDE DEF v
    <3> QED BY <1>t, <2>a, <2>1, <3>2, MembersCommitted DEF v
  <2>2. ASSUME NEW x \in view.found, view.found # None,
               MembersCommit(props, [view EXCEPT !.toAdd = Flipped(@, x)], ops, calls)
        PROVE  ListInv'
    <3> DEFINE v == [view EXCEPT !.toAdd = Flipped(@, x)]
    <3>1. x \in Members
      BY <1>t, <2>2 DEF ListFields
    <3>2. v \in ListFields /\ v.query = view.query /\ v.confirm = view.confirm
      BY <1>t, <3>1 DEF ListFields, Flipped
    <3> HIDE DEF v
    <3> QED BY <1>t, <2>a, <2>2, <3>2, MembersCommitted DEF v
  <2> QED BY <1>5, <2>1, <2>2 DEF ToggleMember
<1>6. CASE AskRemoval
  <2> DEFINE v == [view EXCEPT !.confirm = view.toRemove]
  <2>1. v \in ListFields /\ v.query = view.query /\ v.confirm = view.toRemove
    BY <1>t DEF ListFields
  <2>2. MembersCommit(props, v, ops, calls) /\ astray' = FALSE
    BY <1>6, <1>t DEF AskRemoval
  <2> HIDE DEF v
  <2> QED BY <1>t, <2>1, <2>2, MembersCommitted
<1>7. CASE CancelRemoval
  <2> DEFINE v == [view EXCEPT !.confirm = None]
  <2>1. v \in ListFields /\ v.query = view.query /\ v.confirm = None
    BY <1>t DEF ListFields
  <2>2. MembersCommit(props, v, ops, calls) /\ astray' = FALSE
    BY <1>7, <1>t DEF CancelRemoval
  <2> HIDE DEF v
  <2> QED BY <1>t, <2>1, <2>2, MembersCommitted
<1>8. CASE addMembers
  <2> DEFINE args == [names |-> <<view.list.id, view.toAdd>>, asked |-> <<props.target, view.toAdd>>]
  <2>1. MemberWrite("add", view, args)
    BY <1>8 DEF addMembers
  <2>2. view.list.id = props.target
    BY <2>1 DEF MemberWrite, ListVisible
  <2>3. <<props.target, view.toAdd>> \in Choices
    BY <1>t DEF ListFields, Choices
  <2>4. args \in MembersArgs
    BY <2>2, <2>3 DEF MembersArgs, AskedFor
  <2> HIDE DEF args
  <2> QED BY <1>t, <2>1, <2>4, MembersWritten DEF MembersWrites
<1>9. CASE removeMembers
  <2> DEFINE v == [view EXCEPT !.confirm = None]
             args == [names |-> <<view.list.id, view.toRemove>>,
                      asked |-> <<props.target, view.confirm>>]
  <2>1. v \in ListFields /\ v.query = view.query /\ v.confirm = None
    BY <1>t DEF ListFields
  <2>2. MemberWrite("remove", v, args) /\ view.confirm = view.toRemove
    BY <1>9, <1>t DEF removeMembers
  <2> HIDE DEF v
  <2>3. view.list.id = props.target
    BY <2>2 DEF MemberWrite, ListVisible
  <2>4. <<props.target, view.toRemove>> \in Choices
    BY <1>t DEF ListFields, Choices
  <2>5. args \in MembersArgs
    BY <2>2, <2>3, <2>4 DEF MembersArgs, AskedFor
  <2> HIDE DEF args
  <2> QED BY <2>1, <2>2, <2>5, MembersWritten DEF MembersWrites
<1>10. ASSUME NEW op \in MembersWrites, retryMembers(op)
       PROVE  ListInv'
  <2>1. ops[op].last \in MembersArgs
    BY <1>10, <1>t DEF retryMembers, MayRetry, Hooks
  <2> QED BY <1>10, <1>t, <2>1, MembersWritten DEF retryMembers
<1>11. CASE ListRegrant
  <2>1. PICK p \in Regrants : MembersCommit(p, view, ops, calls)
    BY <1>11 DEF ListRegrant
  <2>2. p \in P /\ p.target = props.target
    BY <1>t, RegrantedProps
  <2>3. astray' = FALSE
    BY <1>11, <1>t DEF ListRegrant
  <2> QED BY <1>t, <2>1, <2>2, <2>3, MembersCommitted
<1>12. ASSUME NEW s \in Slots, NEW answer \in Answers, ListLoaded(s, answer)
       PROVE  ListInv'
  <2>1. /\ calls[s].about = MembersAbout("load", view) /\ Taken(s) \in C
        /\ calls[s].about = props.target
    BY <1>12, MembersCall DEF ListLoaded, MembersAbout
  <2>2. astray' = FALSE
    BY <1>12, <1>t, <2>1 DEF ListLoaded, Apply
  <2>3. CASE answer = "ok"
    <3>1. PICK members \in SUBSET Members :
            MembersCommit(props,
              [view EXCEPT !.list = [id |-> calls[s].about, members |-> members]], ops, Taken(s))
      BY <1>12, <2>3 DEF ListLoaded
    <3> DEFINE v == [view EXCEPT !.list = [id |-> calls[s].about, members |-> members]]
    <3>2. v \in ListFields /\ v.query = view.query /\ v.confirm = view.confirm
      BY <1>t, <2>1 DEF ListFields
    <3> HIDE DEF v
    <3> QED BY <1>t, <2>1, <2>2, <3>1, <3>2, MembersCommitted DEF v
  <2>4. CASE answer # "ok"
    <3> DEFINE v == [view EXCEPT !.failed = safeAdapterCall(answer)]
    <3>1. v \in ListFields /\ v.query = view.query /\ v.confirm = view.confirm
      BY <1>t, <2>4 DEF ListFields, safeAdapterCall, Answers, Failures
    <3>2. MembersCommit(props, v, ops, Taken(s))
      BY <1>12, <2>4 DEF ListLoaded
    <3> HIDE DEF v
    <3> QED BY <1>t, <2>1, <2>2, <3>1, <3>2, MembersCommitted
  <2> QED BY <2>3, <2>4
<1>13. ASSUME NEW s \in Slots, NEW answer \in Answers, ContactsFound(s, answer)
       PROVE  ListInv'
  <2>1. calls[s].about = MembersAbout("search", view) /\ Taken(s) \in C
    BY <1>13, MembersCall DEF ContactsFound
  <2>2. astray' = FALSE
    BY <1>13, <1>t, <2>1 DEF ContactsFound, Apply
  <2> DEFINE v == IF answer = "ok" THEN [view EXCEPT !.found = Members]
                  ELSE [view EXCEPT !.missed = safeAdapterCall(answer)]
  <2>3. v \in ListFields /\ v.query = view.query /\ v.confirm = view.confirm
    BY <1>t DEF ListFields, safeAdapterCall, Answers, Failures
  <2>4. MembersCommit(props, v, ops, Taken(s))
    BY <1>13 DEF ContactsFound
  <2> HIDE DEF v
  <2> QED BY <1>t, <2>1, <2>2, <2>3, <2>4, MembersCommitted
<1>14. ASSUME NEW s \in Slots, NEW answer \in Answers, MembersAnswered(s, answer)
       PROVE  ListInv'
  <2> DEFINE op == calls[s].op
             v == Unlock(view, op)
             done == IF op = "add" THEN [v EXCEPT !.toAdd = {}] ELSE [v EXCEPT !.toRemove = {}]
  <2>1. op \in MembersWrites /\ (calls[s].live => calls[s].about = MembersAbout(op, view)) /\ Taken(s) \in C
    BY <1>14, MembersCall DEF MembersAnswered, MembersWrites
  <2>2. v \in ListFields /\ v.query = view.query /\ v.confirm = view.confirm
    BY <1>t DEF Unlock, ListFields
  <2> HIDE DEF v
  <2>3. done \in ListFields /\ done.query = view.query /\ done.confirm = view.confirm
    BY <2>2 DEF ListFields
  <2>4. astray' = FALSE
    BY <1>14, <1>t, <2>1 DEF MembersAnswered, Apply
  <2>5. Settled(op, answer) \in H
    BY <1>t, <2>1, SettledHooks
  <2>6. Loading(Taken(s), "load", props.target) \in C
    BY <2>1, MembersLoading
  <2>7. \/ MembersCommit(props, v, ops, Taken(s))
        \/ MembersCommit(props, v, Settled(op, answer), Taken(s))
        \/ MembersCommit(props, LoadingList(done), Settled(op, answer),
                         Loading(Taken(s), "load", props.target))
    BY <1>14 DEF MembersAnswered, v
  <2> HIDE DEF op, done
  <2>8. /\ LoadingList(done) \in ListFields /\ LoadingList(done).query = view.query
        /\ LoadingList(done).confirm = view.confirm
    BY <1>f, <2>3
  <2> QED BY <1>t, <2>1, <2>2, <2>4, <2>5, <2>6, <2>7, <2>8, MembersCommitted
<1> QED BY <1>1, <1>2, <1>3, <1>4, <1>5, <1>6, <1>7, <1>8, <1>9, <1>10, <1>11, <1>12, <1>13, <1>14
        DEF ListNext, MembersWrites

-------------------------------------------------------------------------------
(* The wizard *)

Owners == Targets \cup {None}

\* An attempt that has not saved its campaign has created none.
WizardArgs ==
  {a \in [names : Owners \X Nat, asked : Owners \X Nat, step : {"save", "audience"},
          audience : Audiences \cup {None}, created : 0..1] :
     a.names = a.asked /\ (a.step = "save" => a.created = 0)}

CampaignFormFields ==
  [of : Owners, loaded : Owners, failed : Failures, words : {"fit", "unfit"},
   shown : Nat, original : Nat, startDirty : BOOLEAN,
   audience : Audiences, audienceDirty : BOOLEAN,
   preview : Audiences \cup {None, "failed"}, config : {None, "fit", "unfit"}]

WizardFields == [form : CampaignFormFields, holder : Slots \cup {None}]

\* The form of its owner; that of a new campaign was not loaded, so that the
\* start it shows is the one it was given.
FormOf(form, owner) ==
  /\ form.of = owner
  /\ owner = None => form.failed = None /\ (form.startDirty \/ form.shown = form.original)

WizardCalls(owner, previewed, target) ==
  (IF owner = None THEN {} ELSE Asking("load", owner)) \cup Asking("preview", previewed)
  \cup Writing({"write"}, target, WizardArgs) \cup Late({"write"}, Owners, WizardArgs)

WizardInv ==
  /\ astray = FALSE
  /\ props \in [target : Owners, can : Grants]
  /\ view \in WizardFields /\ FormOf(Form, props.target)
  /\ ops \in Hooks({"write"}, WizardArgs)
  /\ calls \in Flights(WizardCalls(props.target, Form.audience, props.target))

LEMMA WizardCommitted ==
  ASSUME WizardInv, NEW p \in [target : Owners, can : Grants],
         NEW v \in WizardFields, FormOf(v.form, p.target),
         NEW o \in Hooks({"write"}, WizardArgs),
         NEW c \in Flights(WizardCalls(p.target, Form.audience, props.target)),
         WizardCommit(p, v, o, c), astray' = FALSE
  PROVE  WizardInv'
<1> DEFINE turned == v.form.audience # Form.audience \/ p.target # props.target
           kept == IF turned THEN [v EXCEPT !.form.preview = None] ELSE v
           left == IF turned THEN Superseded(c, "preview") ELSE c
           before == WizardScopes(view, props)
           after == WizardScopes(kept, p)
           L == Writing({"write"}, props.target, WizardArgs)
           M == Writing({"write"}, p.target, WizardArgs)
           B == (IF p.target = None THEN {} ELSE Asking("load", p.target))
                \cup Asking("preview", kept.form.audience)
           W == Late({"write"}, Owners, WizardArgs)
<1>1. /\ view' = kept /\ props' = p
      /\ ops' = Rescoped(before, after, o)
      /\ calls' = Retired(before, after, left)
  BY DEF WizardCommit, Commit
<1>2. /\ kept \in WizardFields /\ kept.form.audience = v.form.audience
      /\ FormOf(kept.form, p.target)
  <2>1. CASE turned
    <3> DEFINE form == [v.form EXCEPT !.preview = None]
    <3>1. form \in CampaignFormFields /\ form.audience = v.form.audience /\ FormOf(form, p.target)
      BY DEF CampaignFormFields, WizardFields, FormOf
    <3>2. kept = [v EXCEPT !.form = form] /\ v \in WizardFields
      BY <2>1
    <3> HIDE DEF kept, form
    <3> QED BY <3>1, <3>2 DEF WizardFields
  <2>2. CASE ~turned
    BY <2>2
  <2> QED BY <2>1, <2>2
<1>3. left \in Flights(B \cup L \cup W)
  <2> DEFINE G == WizardCalls(p.target, Form.audience, props.target)
  <2>1. CASE turned
    <3>1. \A x \in G : x.op = "preview" \/ x \in B \cup L \cup W
      BY DEF WizardCalls, Asking
    <3> HIDE DEF B, L, W, G
    <3> QED BY <2>1, <3>1, SupersededFlights DEF G
  <2>2. CASE ~turned
    <3>1. kept.form.audience = Form.audience
      BY <2>2
    <3> HIDE DEF kept
    <3> QED BY <2>2, <3>1 DEF WizardCalls
  <2> QED BY <2>1, <2>2
<1>4. Retired(before, after, left)
        \in Flights(WizardCalls(p.target, kept.form.audience, p.target))
  <2> HIDE DEF kept, left
  <2>1. DOMAIN before = {"write"}
    BY DEF WizardScopes
  <2>2. \A x \in L : before[x.op] = after[x.op] => x \in M
    <3> SUFFICES ASSUME NEW x \in L, before[x.op] = after[x.op] PROVE x \in M
      OBVIOUS
    <3>1. x.op = "write"
      BY DEF Writing
    <3>2. props.target = p.target
      BY <3>1 DEF WizardScopes
    <3> QED BY <3>2
  <2>3. L \subseteq [op : {"write"}, about : Owners, args : WizardArgs, live : {TRUE}]
    BY DEF WizardInv, Writing
  <2>4. \A x \in L : x.op \in DOMAIN before
    BY <2>1 DEF Writing
  <2>5. \A x \in B : x.op \notin DOMAIN before
    BY <2>1 DEF Asking
  <2> HIDE DEF before, after, L, M, B
  <2>6. Retired(before, after, left) \in Flights(B \cup M \cup W)
    BY <1>3, <2>2, <2>3, <2>4, <2>5, RetiredFlights
  <2> QED BY <2>6 DEF WizardCalls, B, M
<1>5. Rescoped(before, after, o) \in Hooks({"write"}, WizardArgs)
  BY RescopedHooks
<1> HIDE DEF before, after, kept, left, turned
<1> QED BY <1>1, <1>2, <1>4, <1>5 DEF WizardInv, Form

LEMMA WizardLoading ==
  ASSUME NEW owner, NEW a, NEW target, NEW c \in Flights(WizardCalls(owner, a, target))
  PROVE  /\ \A t : t # None => Loading(c, "load", t) \in Flights(WizardCalls(t, a, target))
         /\ Superseded(c, "load") \in Flights(WizardCalls(None, a, target))
         /\ Loading(c, "preview", a) \in Flights(WizardCalls(owner, a, target))
<1> DEFINE G == WizardCalls(owner, a, target)
           J == WizardCalls(None, a, target)
<1>1. ASSUME NEW t, t # None
      PROVE  Loading(c, "load", t) \in Flights(WizardCalls(t, a, target))
  <2> DEFINE H == WizardCalls(t, a, target)
  <2>1. (\A x \in G : x.op = "load" \/ x \in H) /\ Asking("load", t) \subseteq H
    BY <1>1 DEF WizardCalls, Asking
  <2> HIDE DEF G, H
  <2> QED BY <2>1, LoadingFlights DEF G, H
<1>2. \A x \in G : x.op = "load" \/ x \in J
  BY DEF WizardCalls, Asking
<1>3. Asking("preview", a) \subseteq G
  BY DEF WizardCalls
<1> HIDE DEF G, J
<1>4. Superseded(c, "load") \in Flights(J)
  BY <1>2, SupersededFlights DEF G
<1>5. Loading(c, "preview", a) \in Flights(G)
  BY <1>3, LoadingFlights DEF G
<1> QED BY <1>1, <1>4, <1>5 DEF G, J

LEMMA WizardCall ==
  ASSUME WizardInv, NEW s \in Slots, calls[s] # None
  PROVE  /\ calls[s].op = "load" => calls[s].about = props.target /\ props.target # None
         /\ calls[s].op = "preview" => calls[s].about = Form.audience
         /\ calls[s].op = "write" =>
              calls[s].args \in WizardArgs /\ (calls[s].live => calls[s].about = props.target)
         /\ Taken(s) \in Flights(WizardCalls(props.target, Form.audience, props.target))
<1> DEFINE G == WizardCalls(props.target, Form.audience, props.target)
<1>1. Taken(s) \in Flights(G)
  BY TakenFlights DEF WizardInv
<1>2. calls[s] \in G
  BY DEF WizardInv, Flights
<1>3. CASE props.target # None /\ calls[s] \in Asking("load", props.target)
  BY <1>1, <1>3 DEF Asking
<1>4. CASE calls[s] \in Asking("preview", Form.audience)
  BY <1>1, <1>4 DEF Asking
<1>5. CASE calls[s] \in Writing({"write"}, props.target, WizardArgs)
  BY <1>1, <1>5 DEF Writing
<1>6. CASE calls[s] \in Late({"write"}, Owners, WizardArgs)
  BY <1>1, <1>6 DEF Late
<1> QED BY <1>2, <1>3, <1>4, <1>5, <1>6 DEF WizardCalls

LEMMA BlankForms ==
  ASSUME NEW t \in Owners
  PROVE  Blank(t) \in CampaignFormFields /\ FormOf(Blank(t), t)
BY WizardAssumption DEF Blank, CampaignFormFields, FormOf, Failures, Owners

LEMMA WizardBegins == WizardInit => WizardInv
<1> SUFFICES ASSUME WizardInit PROVE WizardInv
  OBVIOUS
<1>1. PICK t \in Owners, can \in Grants :
        /\ props = [target |-> t, can |-> can]
        /\ view = [form |-> Blank(t), holder |-> None]
        /\ calls = IF t = None THEN NoCalls ELSE Loading(NoCalls, "load", t)
  BY DEF WizardInit, Owners
<1>2. view \in WizardFields /\ FormOf(Form, t) /\ Form = Blank(t)
  BY <1>1, BlankForms DEF WizardFields, Form
<1>3. NoCalls \in Flights(WizardCalls(t, Form.audience, t))
  BY NoFlights
<1>4. calls \in Flights(WizardCalls(t, Form.audience, t))
  BY <1>1, <1>3, WizardLoading
<1>5. ops \in Hooks({"write"}, WizardArgs)
  BY IdleHooks DEF WizardInit
<1>6. props \in [target : Owners, can : Grants] /\ props.target = t
  BY <1>1
<1> QED BY <1>2, <1>4, <1>5, <1>6 DEF WizardInv, WizardInit

\* The fields that the user changes.
LEMMA WizardEdited ==
  ASSUME WizardInv, NEW form \in CampaignFormFields, FormOf(form, props.target), Edit(form), astray' = FALSE
  PROVE  WizardInv'
<1> DEFINE v == [view EXCEPT !.form = form]
<1>1. v \in WizardFields /\ v.form = form
  BY DEF WizardInv, WizardFields
<1>2. WizardCommit(props, v, ops, calls)
  BY DEF Edit
<1> HIDE DEF v
<1> QED BY <1>1, <1>2, WizardCommitted DEF WizardInv

LEMMA WizardSubmitted ==
  ASSUME WizardInv, NEW args \in WizardArgs, Submit(args)
  PROVE  WizardInv'
<1> DEFINE v == [view EXCEPT !.holder = FreeSlot(calls)]
           call == Request("write", props.target, args)
           G == WizardCalls(props.target, Form.audience, props.target)
<1>1. FreeSlot(calls) \in Slots
  BY DEF Submit, HasSlot, FreeSlot
<1>2. v \in WizardFields /\ v.form = Form
  BY <1>1 DEF WizardInv, WizardFields, Form
<1>3. Attempted("write", args) \in Hooks({"write"}, WizardArgs)
  BY AttemptedHooks DEF WizardInv
<1>4. call \in G
  BY DEF Request, WizardCalls, Writing
<1>5. Made(calls, call) \in Flights(G)
  BY <1>4, MadeFlights DEF WizardInv
<1>6. WizardCommit(props, v, Attempted("write", args), Made(calls, call)) /\ astray' = FALSE
  BY DEF Submit, WizardInv
<1> HIDE DEF v, call
<1> QED BY <1>2, <1>3, <1>5, <1>6, WizardCommitted DEF WizardInv

\* What is submitted is what the user asked for: with an owner, its own start
\* unless the user gave another; for a new campaign, the start that is shown.
LEMMA SubmittedArgs ==
  ASSUME WizardInv
  PROVE  Submitted \in WizardArgs
<1>1. Form \in CampaignFormFields /\ FormOf(Form, props.target) /\ props.target \in Owners
  BY DEF WizardInv, WizardFields, Form
<1>2. StartToSave = IF Form.startDirty THEN Form.shown ELSE Form.original
  BY <1>1 DEF StartToSave, FormOf
<1>3. StartToSave \in Nat
  BY <1>1 DEF StartToSave, CampaignFormFields
<1>4. AudienceToSave \in Audiences \cup {None}
  BY <1>1 DEF AudienceToSave, CampaignFormFields
<1>5. Form.of = props.target
  BY <1>1 DEF FormOf
<1> DEFINE n == <<props.target, StartToSave>>
<1>6. n \in Owners \X Nat
  BY <1>1, <1>3
<1>7. Submitted = [names |-> n, asked |-> n, step |-> "save", audience |-> AudienceToSave, created |-> 0]
  BY <1>2, <1>5 DEF Submitted
<1> HIDE DEF n
<1> QED BY <1>4, <1>6, <1>7 DEF WizardArgs

\* The step that saves creates at most once, for it is taken once.
LEMMA AdvancedArgs ==
  ASSUME NEW args \in WizardArgs, args.step = "save"
  PROVE  /\ Advanced(args) \in WizardArgs
         /\ [Advanced(args) EXCEPT !.step = "audience"] \in WizardArgs
<1> DEFINE n == Created(args)
           adv == [args EXCEPT !.created = n, !.step = "audience"]
<1>1. n \in 0..1
  BY DEF WizardArgs, Created
<1> HIDE DEF n
<1>2. adv \in WizardArgs /\ [adv EXCEPT !.step = "audience"] = adv
  BY <1>1 DEF WizardArgs
<1> QED BY <1>2 DEF Advanced, n

LEMMA WizardStep ==
  ASSUME WizardInv, WizardNext
  PROVE  WizardInv'
<1> DEFINE G == WizardCalls(props.target, Form.audience, props.target)
           C == Flights(G)
           H == Hooks({"write"}, WizardArgs)
           P == [target : Owners, can : Grants]
<1>t. /\ astray = FALSE /\ props \in P /\ view \in WizardFields /\ ops \in H /\ calls \in C
      /\ Form \in CampaignFormFields /\ view.form = Form /\ FormOf(Form, props.target)
  BY DEF WizardInv, WizardFields, Form
<1>1. CASE WizardRetarget
  <2>1. PICK t \in Owners :
          LET v == [view EXCEPT !.form = Blank(t), !.holder = None]
              p == [props EXCEPT !.target = t]
          IN  IF t = None THEN WizardCommit(p, v, ops, Superseded(calls, "load"))
                          ELSE WizardCommit(p, v, ops, Loading(calls, "load", t))
    BY <1>1 DEF WizardRetarget, Owners
  <2> DEFINE v == [view EXCEPT !.form = Blank(t), !.holder = None]
             p == [props EXCEPT !.target = t]
             c == IF t = None THEN Superseded(calls, "load") ELSE Loading(calls, "load", t)
  <2>2. p \in P /\ p.target = t
    BY <1>t
  <2>3. v \in WizardFields /\ v.form = Blank(t)
    BY <1>t, BlankForms DEF WizardFields
  <2>4. c \in Flights(WizardCalls(t, Form.audience, props.target))
    BY <1>t, WizardLoading
  <2>5. WizardCommit(p, v, ops, c)
    BY <2>1
  <2>6. astray' = FALSE
    BY <1>1, <1>t DEF WizardRetarget
  <2> HIDE DEF p, v, c
  <2>7. FormOf(v.form, p.target)
    BY <2>2, <2>3, BlankForms
  <2> QED BY <1>t, <2>2, <2>3, <2>4, <2>5, <2>6, <2>7, WizardCommitted
<1>2. CASE WizardRegrant
  <2>1. PICK p \in Regrants : WizardCommit(p, view, ops, calls)
    BY <1>2 DEF WizardRegrant
  <2>2. p \in P /\ p.target = props.target
    BY <1>t, RegrantedProps
  <2>3. astray' = FALSE
    BY <1>2, <1>t DEF WizardRegrant
  <2> QED BY <1>t, <2>1, <2>2, <2>3, WizardCommitted
<1>3. CASE WizardRetryLoad
  <2> DEFINE form == [Form EXCEPT !.loaded = None, !.failed = None]
             v == [view EXCEPT !.form = form]
  <2>1. form \in CampaignFormFields /\ FormOf(form, props.target)
    BY <1>t DEF CampaignFormFields, FormOf, Failures, Owners
  <2>2. WizardCommit(props, v, ops, Loading(calls, "load", props.target)) /\ astray' = FALSE
    BY <1>3, <1>t DEF WizardRetryLoad, WizardFields
  <2>3. props.target # None
    <3>1. Form.failed # None
      BY <1>3, AnswersAssumption DEF WizardRetryLoad, Answers
    <3> QED BY <1>t, <3>1 DEF FormOf
  <2>4. Loading(calls, "load", props.target) \in C
    BY <1>t, <2>3, WizardLoading
  <2> HIDE DEF form
  <2>5. v \in WizardFields /\ v.form = form
    BY <1>t, <2>1 DEF WizardFields
  <2> HIDE DEF v
  <2> QED BY <1>t, <2>1, <2>2, <2>4, <2>5, WizardCommitted
<1>4. ASSUME NEW s \in Slots, NEW answer \in Answers, WizardLoaded(s, answer)
      PROVE  WizardInv'
  <2>1. calls[s].about = props.target /\ props.target # None /\ Taken(s) \in C
    BY <1>4, WizardCall DEF WizardLoaded
  <2>2. astray' = FALSE
    BY <1>4, <1>t, <2>1 DEF WizardLoaded, Apply
  <2>3. ASSUME NEW form \in CampaignFormFields, FormOf(form, props.target),
               WizardCommit(props, [view EXCEPT !.form = form], ops, Taken(s))
        PROVE  WizardInv'
    <3> DEFINE v == [view EXCEPT !.form = form]
    <3>1. v \in WizardFields /\ v.form = form
      BY <1>t DEF WizardFields
    <3> HIDE DEF v
    <3> QED BY <1>t, <2>1, <2>2, <2>3, <3>1, WizardCommitted DEF v
  <2>4. CASE answer = "ok"
    <3>1. PICK start \in Starts :
            WizardCommit(props,
              [view EXCEPT !.form.loaded = calls[s].about, !.form.words = "fit",
                           !.form.shown = toDateTimeLocal(start),
                           !.form.original = start, !.form.startDirty = FALSE],
              ops, Taken(s))
      BY <1>4, <2>4 DEF WizardLoaded
    <3> DEFINE shown == toDateTimeLocal(start)
               form == [Form EXCEPT !.loaded = calls[s].about, !.words = "fit", !.shown = shown,
                                    !.original = start, !.startDirty = FALSE]
    <3>2. start \in Nat /\ shown \in Nat
      BY WizardAssumption DEF toDateTimeLocal
    <3> HIDE DEF shown
    <3>3. form \in CampaignFormFields /\ FormOf(form, props.target)
      BY <1>t, <2>1, <3>2 DEF CampaignFormFields, FormOf
    <3>4. [view EXCEPT !.form.loaded = calls[s].about, !.form.words = "fit",
                       !.form.shown = toDateTimeLocal(start),
                       !.form.original = start, !.form.startDirty = FALSE]
          = [view EXCEPT !.form = form]
      BY <1>t DEF WizardFields, CampaignFormFields, shown
    <3> HIDE DEF form
    <3> QED BY <2>3, <3>1, <3>3, <3>4
  <2>5. CASE answer # "ok"
    <3> DEFINE form == [Form EXCEPT !.failed = safeAdapterCall(answer)]
    <3>1. form \in CampaignFormFields /\ FormOf(form, props.target)
      BY <1>t, <2>1, <2>5 DEF CampaignFormFields, FormOf, safeAdapterCall, Answers, Failures
    <3>2. WizardCommit(props, [view EXCEPT !.form = form], ops, Taken(s))
      BY <1>4, <1>t, <2>5 DEF WizardLoaded, WizardFields
    <3> HIDE DEF form
    <3> QED BY <2>3, <3>1, <3>2
  <2> QED BY <2>4, <2>5
<1>5. CASE WizardEdit
  <2>1. astray' = FALSE
    BY <1>5, <1>t DEF WizardEdit
  <2>2. ASSUME NEW w \in {"fit", "unfit"}, Edit([Form EXCEPT !.words = w])
        PROVE  WizardInv'
    <3> DEFINE form == [Form EXCEPT !.words = w]
    <3>1. form \in CampaignFormFields /\ FormOf(form, props.target)
      BY <1>t DEF CampaignFormFields, FormOf
    <3> HIDE DEF form
    <3> QED BY <2>1, <2>2, <3>1, WizardEdited DEF form
  <2>3. ASSUME NEW x \in Starts, Edit([Form EXCEPT !.shown = toDateTimeLocal(x), !.startDirty = TRUE])
        PROVE  WizardInv'
    <3> DEFINE shown == toDateTimeLocal(x)
               form == [Form EXCEPT !.shown = shown, !.startDirty = TRUE]
    <3>1. shown \in Nat
      BY WizardAssumption DEF toDateTimeLocal
    <3> HIDE DEF shown
    <3>2. form \in CampaignFormFields /\ FormOf(form, props.target)
      BY <1>t, <3>1 DEF CampaignFormFields, FormOf
    <3> HIDE DEF form
    <3> QED BY <2>1, <2>3, <3>2, WizardEdited DEF form, shown
  <2> QED BY <1>5, <2>2, <2>3 DEF WizardEdit
<1>6. CASE ChooseAudience
  <2>1. PICK a \in Audiences : Edit([Form EXCEPT !.audience = a, !.audienceDirty = TRUE])
    BY <1>6 DEF ChooseAudience
  <2> DEFINE form == [Form EXCEPT !.audience = a, !.audienceDirty = TRUE]
  <2>2. form \in CampaignFormFields /\ FormOf(form, props.target)
    BY <1>t DEF CampaignFormFields, FormOf
  <2>3. astray' = FALSE
    BY <1>6, <1>t DEF ChooseAudience
  <2> HIDE DEF form
  <2> QED BY <2>1, <2>2, <2>3, WizardEdited DEF form
<1>7. CASE previewAudience
  <2> DEFINE form == [Form EXCEPT !.preview = None]
             v == [view EXCEPT !.form = form]
  <2>1. form \in CampaignFormFields /\ FormOf(form, props.target)
    BY <1>t DEF CampaignFormFields, FormOf
  <2>2. WizardCommit(props, v, ops, Loading(calls, "preview", Form.audience)) /\ astray' = FALSE
    BY <1>7, <1>t DEF previewAudience, WizardFields
  <2>3. Loading(calls, "preview", Form.audience) \in C
    BY <1>t, WizardLoading
  <2> HIDE DEF form
  <2>4. v \in WizardFields /\ v.form = form
    BY <1>t, <2>1 DEF WizardFields
  <2> HIDE DEF v
  <2> QED BY <1>t, <2>1, <2>2, <2>3, <2>4, WizardCommitted
<1>8. CASE ChooseExtension
  <2>1. PICK config \in {None, "fit", "unfit"} : Edit([Form EXCEPT !.config = config])
    BY <1>8 DEF ChooseExtension
  <2> DEFINE form == [Form EXCEPT !.config = config]
  <2>2. form \in CampaignFormFields /\ FormOf(form, props.target)
    BY <1>t DEF CampaignFormFields, FormOf
  <2>3. astray' = FALSE
    BY <1>8, <1>t DEF ChooseExtension
  <2> HIDE DEF form
  <2> QED BY <2>1, <2>2, <2>3, WizardEdited DEF form
<1>9. CASE submitCampaign
  BY <1>9, SubmittedArgs, WizardSubmitted DEF submitCampaign
<1>10. CASE retrySave
  <2>1. ops["write"].last \in WizardArgs
    BY <1>10, <1>t DEF retrySave, MayRetry, Hooks
  <2> QED BY <1>10, <2>1, WizardSubmitted DEF retrySave
<1>11. ASSUME NEW s \in Slots, NEW answer \in Answers, AudiencePreviewed(s, answer)
       PROVE  WizardInv'
  <2>1. calls[s].about = Form.audience /\ Taken(s) \in C
    BY <1>11, WizardCall DEF AudiencePreviewed
  <2>2. astray' = FALSE
    BY <1>11, <1>t, <2>1 DEF AudiencePreviewed, Apply
  <2> DEFINE form == [Form EXCEPT !.preview = IF answer = "ok" THEN calls[s].about ELSE "failed"]
             v == [view EXCEPT !.form = form]
  <2>3. form \in CampaignFormFields /\ FormOf(form, props.target)
    BY <1>t, <2>1 DEF CampaignFormFields, FormOf
  <2>4. WizardCommit(props, v, ops, Taken(s))
    BY <1>11, <1>t DEF AudiencePreviewed, WizardFields
  <2> HIDE DEF form
  <2>5. v \in WizardFields /\ v.form = form
    BY <1>t, <2>3 DEF WizardFields
  <2> HIDE DEF v
  <2> QED BY <1>t, <2>1, <2>2, <2>3, <2>4, <2>5, WizardCommitted
<1>12. ASSUME NEW s \in Slots, NEW answer \in Answers, CampaignSaved(s, answer)
       PROVE  WizardInv'
  <2> DEFINE args == calls[s].args
             adv == Advanced(args)
             next == [adv EXCEPT !.step = "audience"]
             o == IF calls[s].live THEN [ops EXCEPT !["write"].last = adv] ELSE ops
             c == [calls EXCEPT ![s].args = next]
  <2>1. args \in WizardArgs /\ args.step = "save"
    BY <1>12, WizardCall DEF CampaignSaved, Continues
  <2> HIDE DEF args
  <2>2. adv \in WizardArgs /\ next \in WizardArgs
    BY <2>1, AdvancedArgs
  <2>3. WizardCommit(props, view, o, c) /\ astray' = FALSE
    BY <1>12, <1>t DEF CampaignSaved, args
  <2> HIDE DEF adv, next
  <2>4. o \in H
    BY <1>t, <2>2 DEF Hooks
  <2>5. [calls[s] EXCEPT !.args = next] \in G
    <3>1. calls[s] \in Writing({"write"}, props.target, WizardArgs)
                       \cup Late({"write"}, Owners, WizardArgs)
      BY <1>12, <1>t DEF CampaignSaved, Flights, WizardCalls, Asking
    <3>2. [calls[s] EXCEPT !.args = next] \in Writing({"write"}, props.target, WizardArgs)
                       \cup Late({"write"}, Owners, WizardArgs)
      BY <2>2, <3>1 DEF Writing, Late
    <3> QED BY <3>2 DEF WizardCalls
  <2>6. c \in C
    <3> HIDE DEF G
    <3> QED BY <1>t, <2>5 DEF Flights
  <2> HIDE DEF o, c
  <2> QED BY <1>t, <2>3, <2>4, <2>6, WizardCommitted
<1>13. ASSUME NEW s \in Slots, NEW answer \in Answers, WizardAnswered(s, answer)
       PROVE  WizardInv'
  <2>1. /\ calls[s].live => calls[s].about = props.target
        /\ Taken(s) \in C
    BY <1>13, WizardCall DEF WizardAnswered
  <2>2. astray' = FALSE
    BY <1>13, <1>t, <2>1 DEF WizardAnswered, Apply
  <2>3. LockReleased(s) \in WizardFields /\ LockReleased(s).form = Form
    BY <1>t DEF LockReleased, WizardFields
  <2>4. Settled("write", answer) \in H
    BY <1>t, SettledHooks
  <2>5. \/ WizardCommit(props, LockReleased(s), ops, Taken(s))
        \/ WizardCommit(props, LockReleased(s), Settled("write", answer), Taken(s))
    BY <1>13 DEF WizardAnswered
  <2> QED BY <1>t, <2>1, <2>2, <2>3, <2>4, <2>5, WizardCommitted
<1> QED BY <1>1, <1>2, <1>3, <1>4, <1>5, <1>6, <1>7, <1>8, <1>9, <1>10, <1>11, <1>12, <1>13 DEF WizardNext

-------------------------------------------------------------------------------
(* The suppressions *)

Mutations == {"bulk"} \cup Rows
Listed == {ContactOf[r] : r \in Rows}
Inputs == [contacts : SUBSET Listed, channel : Channels, suppressed : BOOLEAN]
SuppressionArgs == AskedFor(Inputs)
Pages == UNION {[page -> BOOLEAN] : page \in SUBSET Rows}

SuppressionFields ==
  [query : SuppressionQueries, page : {None} \cup Pages, loading : BOOLEAN, failed : Failures,
   selected : SUBSET Listed, channel : Channels, suppress : BOOLEAN,
   edited : SUBSET Rows, locked : BOOLEAN]

ChosenAreListed(v) ==
  TableShown(v) =>
    \A c \in v.selected : \E r \in DOMAIN v.page : ContactOf[r] = c /\ ChannelOf[r] = v.channel

\* A row's write is live while the row is mounted, and about what it shows.
SuppressionLive(v) ==
  {x \in [op : Mutations, about : Inputs, args : SuppressionArgs, live : {TRUE}] :
     /\ x.op \in Rows => RowMounted(v, x.op)
     /\ x.about = SuppressionAbout(x.op, v)}

SuppressionCalls(loaded, v) ==
  Asking("load", loaded) \cup SuppressionLive(v) \cup Late(Mutations, Inputs, SuppressionArgs)

SuppressionInv ==
  /\ astray = FALSE
  /\ view \in SuppressionFields /\ ChosenAreListed(view)
  /\ ops \in Hooks(Mutations, SuppressionArgs)
  /\ calls \in Flights(SuppressionCalls(view.query, view))

LEMMA RowInputs ==
  ASSUME NEW v \in SuppressionFields, NEW r, RowMounted(v, r)
  PROVE  RowInput(v, r) \in Inputs /\ r \in Rows
<1>1. v.page \in Pages
  BY DEF RowMounted, TableShown, SuppressionFields
<1>2. PICK page \in SUBSET Rows : v.page \in [page -> BOOLEAN]
  BY <1>1 DEF Pages
<1>3. r \in Rows
  BY <1>2 DEF RowMounted
<1>4. {ContactOf[r]} \in SUBSET Listed /\ ChannelOf[r] \in Channels
  BY <1>3 DEF Listed, Channels
<1> QED BY <1>3, <1>4 DEF RowInput, Inputs

LEMMA BulkInputs ==
  ASSUME NEW v \in SuppressionFields
  PROVE  BulkInput(v) \in Inputs
BY DEF BulkInput, Inputs, SuppressionFields

\* An operation whose scope a commit leaves as it was is about what it was.
LEMMA SameScopes ==
  ASSUME NEW v \in SuppressionFields, NEW w \in SuppressionFields, NEW p, NEW q,
         NEW x \in SuppressionLive(v),
         SuppressionScopes(v, p)[x.op] = SuppressionScopes(w, q)[x.op]
  PROVE  x \in SuppressionLive(w)
<1>1. /\ x \in [op : Mutations, about : Inputs, args : SuppressionArgs, live : {TRUE}]
      /\ x.op \in Rows => RowMounted(v, x.op)
      /\ x.about = SuppressionAbout(x.op, v)
  BY DEF SuppressionLive
<1> DEFINE op == x.op
<1>2. op \in Mutations
  BY <1>1
<1> HIDE DEF op
<1>3. CASE op = "bulk"
  <2>1. "bulk" \in Mutations /\ "bulk" \notin Rows
    BY RowsAssumption DEF Mutations
  <2>2. BulkInput(v) = BulkInput(w)
    BY <1>3, <2>1 DEF SuppressionScopes, Mutations, op
  <2>3. SuppressionAbout("bulk", v) = BulkInput(v) /\ SuppressionAbout("bulk", w) = BulkInput(w)
    BY <2>1 DEF SuppressionAbout
  <2> QED BY <1>1, <1>3, <2>1, <2>2, <2>3 DEF SuppressionLive, op
<1>4. CASE op \in Rows
  <2>1. op # "bulk" /\ op # "load" /\ RowMounted(v, op)
    BY <1>1, <1>4, RowsAssumption DEF op
  <2> DEFINE b == <<op \in v.edited, "update" \in p.can, RowInput(v, op)>>
             a == <<op \in w.edited, "update" \in q.can, RowInput(w, op)>>
  <2>2. SuppressionScopes(v, p)[op] = b
    BY <1>2, <2>1 DEF SuppressionScopes, Mutations
  <2>3. SuppressionScopes(w, q)[op] = IF RowMounted(w, op) THEN a ELSE None
    BY <1>2, <2>1 DEF SuppressionScopes, Mutations
  <2>4. RowInput(v, op) \in Inputs
    BY <2>1, RowInputs
  <2>5. b \in BOOLEAN \X BOOLEAN \X Inputs
    <3> DEFINE edited == op \in v.edited
               allowed == "update" \in p.can
               input == RowInput(v, op)
    <3>1. edited \in BOOLEAN /\ allowed \in BOOLEAN /\ input \in Inputs
      BY <2>4
    <3>2. b = <<edited, allowed, input>>
      OBVIOUS
    <3> HIDE DEF b, edited, allowed, input
    <3> QED BY <3>1, <3>2
  <2>6. b # None
    BY <2>5, RowScopesAssumption DEF Inputs, Listed
  <2>7. RowMounted(w, op) /\ b = a
    BY <2>2, <2>3, <2>6 DEF op
  <2>8. RowInput(v, op) = RowInput(w, op)
    BY <2>7
  <2>9. SuppressionAbout(op, v) = RowInput(v, op) /\ SuppressionAbout(op, w) = RowInput(w, op)
    BY <1>4, <2>1, <2>7 DEF SuppressionAbout
  <2> QED BY <1>1, <2>7, <2>8, <2>9 DEF SuppressionLive, op
<1> QED BY <1>2, <1>3, <1>4 DEF Mutations

LEMMA SuppressionCommitted ==
  ASSUME SuppressionInv, NEW p, NEW v \in SuppressionFields, ChosenAreListed(v),
         NEW o \in Hooks(Mutations, SuppressionArgs),
         NEW c \in Flights(SuppressionCalls(v.query, view)),
         SuppressionCommit(p, v, o, c), astray' = FALSE
  PROVE  SuppressionInv'
<1> DEFINE selected == IF v.query = view.query THEN v.selected ELSE {}
           kept == [v EXCEPT !.selected = selected]
           before == SuppressionScopes(view, props)
           after == SuppressionScopes(kept, p)
           L == SuppressionLive(view)
           M == SuppressionLive(kept)
           B == Asking("load", v.query)
           W == Late(Mutations, Inputs, SuppressionArgs)
<1>1. /\ view' = kept
      /\ ops' = Rescoped(before, after, o)
      /\ calls' = Retired(before, after, c)
  BY DEF SuppressionCommit, Commit
<1>2. /\ kept \in SuppressionFields /\ kept.query = v.query
      /\ kept.selected \subseteq v.selected /\ kept.channel = v.channel /\ kept.page = v.page
      /\ kept.loading = v.loading /\ kept.failed = v.failed
  BY DEF SuppressionFields
<1>3. ChosenAreListed(kept)
  <2> HIDE DEF kept
  <2> QED BY <1>2 DEF ChosenAreListed, TableShown
<1>4. Retired(before, after, c) \in Flights(SuppressionCalls(kept.query, kept))
  <2> HIDE DEF kept
  <2>1. DOMAIN before = Mutations
    BY DEF SuppressionScopes, Mutations
  <2>2. \A x \in L : before[x.op] = after[x.op] => x \in M
    BY <1>2, SameScopes DEF SuppressionInv
  <2>3. L \subseteq [op : Mutations, about : Inputs, args : SuppressionArgs, live : {TRUE}]
    BY DEF SuppressionLive
  <2>4. \A x \in L : x.op \in DOMAIN before
    BY <2>1, <2>3
  <2>5. \A x \in B : x.op \notin DOMAIN before
    BY <2>1, RowsAssumption DEF Asking, Mutations
  <2> HIDE DEF before, after, L, M, B
  <2>6. c \in Flights(B \cup L \cup W)
    BY DEF SuppressionCalls, B, L
  <2>7. Retired(before, after, c) \in Flights(B \cup M \cup W)
    BY <2>2, <2>3, <2>4, <2>5, <2>6, RetiredFlights
  <2> QED BY <1>2, <2>7 DEF SuppressionCalls, B, M
<1>5. Rescoped(before, after, o) \in Hooks(Mutations, SuppressionArgs)
  BY RescopedHooks
<1> HIDE DEF before, after, kept
<1> QED BY <1>1, <1>2, <1>3, <1>4, <1>5 DEF SuppressionInv

LEMMA SuppressionLoading ==
  ASSUME NEW q, NEW r, NEW v, NEW c \in Flights(SuppressionCalls(q, v))
  PROVE  Loading(c, "load", r) \in Flights(SuppressionCalls(r, v))
<1> DEFINE G == SuppressionCalls(q, v)
           H == SuppressionCalls(r, v)
<1>1. (\A x \in G : x.op = "load" \/ x \in H) /\ Asking("load", r) \subseteq H
  BY DEF SuppressionCalls, Asking
<1> HIDE DEF G, H
<1> QED BY <1>1, LoadingFlights DEF G, H

LEMMA SuppressionCall ==
  ASSUME SuppressionInv, NEW s \in Slots, calls[s] # None
  PROVE  /\ calls[s].op = "load" => calls[s].about = view.query
         /\ calls[s].op # "load" =>
              /\ calls[s].op \in Mutations
              /\ calls[s].live => calls[s].about = SuppressionAbout(calls[s].op, view)
         /\ Taken(s) \in Flights(SuppressionCalls(view.query, view))
<1>1. Taken(s) \in Flights(SuppressionCalls(view.query, view))
  BY TakenFlights DEF SuppressionInv
<1>2. calls[s] \in SuppressionCalls(view.query, view)
  BY DEF SuppressionInv, Flights
<1>3. CASE calls[s] \in Asking("load", view.query)
  BY <1>1, <1>3 DEF Asking
<1>4. CASE calls[s] \in SuppressionLive(view)
  BY <1>1, <1>4, RowsAssumption DEF SuppressionLive, Mutations
<1>5. CASE calls[s] \in Late(Mutations, Inputs, SuppressionArgs)
  BY <1>1, <1>5, RowsAssumption DEF Late, Mutations
<1> QED BY <1>2, <1>3, <1>4, <1>5 DEF SuppressionCalls

LEMMA MutationInputs ==
  ASSUME NEW v \in SuppressionFields, NEW op \in Mutations, op \in Rows => RowMounted(v, op)
  PROVE  SuppressionAbout(op, v) \in Inputs
<1>1. CASE op = "bulk"
  BY <1>1, RowsAssumption, BulkInputs DEF SuppressionAbout
<1>2. CASE op \in Rows
  <2>1. RowInput(v, op) \in Inputs /\ op # "bulk" /\ op # "load"
    BY <1>2, RowsAssumption, RowInputs
  <2> QED BY <1>2, <2>1 DEF SuppressionAbout
<1> QED BY <1>1, <1>2 DEF Mutations

LEMMA MutationRun ==
  ASSUME SuppressionInv, NEW op \in Mutations, op \in Rows => RowMounted(view, op),
         NEW args \in SuppressionArgs, RunMutation(op, view, args)
  PROVE  SuppressionInv'
<1> DEFINE v == [view EXCEPT !.locked = TRUE]
           call == Request(op, SuppressionAbout(op, view), args)
           G == SuppressionCalls(view.query, view)
<1>1. /\ v \in SuppressionFields /\ v.query = view.query
      /\ v.selected = view.selected /\ v.channel = view.channel /\ v.page = view.page
      /\ v.loading = view.loading /\ v.failed = view.failed
  BY DEF SuppressionInv, SuppressionFields
<1>2. Attempted(op, args) \in Hooks(Mutations, SuppressionArgs)
  BY AttemptedHooks DEF SuppressionInv
<1>3. SuppressionAbout(op, view) \in Inputs
  BY MutationInputs DEF SuppressionInv
<1>4. call \in SuppressionLive(view)
  BY <1>3 DEF Request, SuppressionLive
<1>5. Made(calls, call) \in Flights(G)
  <2>1. call \in G
    BY <1>4 DEF SuppressionCalls
  <2> HIDE DEF call, G
  <2> QED BY <2>1, MadeFlights DEF SuppressionInv, G
<1>6. SuppressionCommit(props, v, Attempted(op, args), Made(calls, call)) /\ astray' = FALSE
  BY DEF RunMutation, Attempted, SuppressionInv
<1> HIDE DEF v, call
<1>7. ChosenAreListed(v)
  BY <1>1 DEF ChosenAreListed, TableShown, SuppressionInv
<1> QED BY <1>1, <1>2, <1>5, <1>6, <1>7, SuppressionCommitted

LEMMA SuppressionBegins == SuppressionInit => SuppressionInv
<1> SUFFICES ASSUME SuppressionInit PROVE SuppressionInv
  OBVIOUS
<1>1. PICK q \in SuppressionQueries, ch \in Channels :
       /\ view = [query |-> q, page |-> None, loading |-> TRUE, failed |-> None,
                  selected |-> {}, channel |-> ch, suppress |-> TRUE,
                  edited |-> {}, locked |-> FALSE]
       /\ calls = Loading(NoCalls, "load", q)
  BY DEF SuppressionInit
<1>2. view \in SuppressionFields /\ view.query = q /\ view.loading
  BY <1>1 DEF SuppressionFields, Failures
<1>3. NoCalls \in Flights(SuppressionCalls(q, view))
  BY NoFlights
<1>4. calls \in Flights(SuppressionCalls(q, view))
  BY <1>1, <1>3, SuppressionLoading
<1>5. ops \in Hooks(Mutations, SuppressionArgs)
  BY IdleHooks DEF SuppressionInit, Mutations
<1> QED BY <1>2, <1>4, <1>5 DEF SuppressionInv, SuppressionInit, ChosenAreListed, TableShown

LEMMA SuppressionStep ==
  ASSUME SuppressionInv, SuppressionNext
  PROVE  SuppressionInv'
<1> DEFINE C == Flights(SuppressionCalls(view.query, view))
           H == Hooks(Mutations, SuppressionArgs)
<1>t. /\ astray = FALSE /\ view \in SuppressionFields /\ ChosenAreListed(view)
      /\ ops \in H /\ calls \in C
  BY DEF SuppressionInv
<1>f. \A v \in SuppressionFields :
        /\ Refetching(v) \in SuppressionFields /\ Refetching(v).query = v.query
        /\ Refetching(v).loading
  BY DEF Refetching, SuppressionFields, Failures
<1>l. \A v : v.loading => ChosenAreListed(v)
  BY DEF ChosenAreListed, TableShown
<1>g. Loading(calls, "load", view.query) \in C
  BY <1>t, SuppressionLoading
<1>1. CASE SuppressionQuery
  <2>1. PICK q \in SuppressionQueries :
          SuppressionCommit(props, [Refetching(view) EXCEPT !.query = q], ops,
                            Loading(calls, "load", q))
    BY <1>1 DEF SuppressionQuery
  <2> DEFINE v == [Refetching(view) EXCEPT !.query = q]
  <2>2. v \in SuppressionFields /\ v.query = q /\ v.loading
    BY <1>t, <1>f DEF SuppressionFields
  <2>3. Loading(calls, "load", q) \in Flights(SuppressionCalls(q, view))
    BY <1>t, SuppressionLoading
  <2>4. astray' = FALSE
    BY <1>1, <1>t DEF SuppressionQuery
  <2> HIDE DEF v
  <2> QED BY <1>t, <1>l, <2>1, <2>2, <2>3, <2>4, SuppressionCommitted DEF v
<1>2. CASE SuppressionRetryLoad
  BY <1>2, <1>t, <1>f, <1>l, <1>g, SuppressionCommitted DEF SuppressionRetryLoad
<1>3. CASE select
  <2>1. PICK r \in DOMAIN view.page :
          LET checked == ChannelOf[r] = view.channel /\ ContactOf[r] \in view.selected
              v == IF checked THEN [view EXCEPT !.selected = @ \ {ContactOf[r]}] ELSE Chosen(view, r)
          IN  IF v.channel = view.channel
              THEN SuppressionCommit(props, v, ops, calls)
              ELSE MayLoad("load") /\ SuppressionCommit(props, Refetching(v), ops,
                                                Loading(calls, "load", v.query))
    BY <1>3 DEF select
  <2>2. astray' = FALSE
    BY <1>3, <1>t DEF select
  <2>3. r \in Rows /\ RowMounted(view, r)
    BY <1>3, <1>t, RowInputs DEF select, RowMounted
  <2>4. ContactOf[r] \in Listed /\ ChannelOf[r] \in Channels
    BY <2>3 DEF Listed, Channels
  <2>5. CASE ChannelOf[r] = view.channel /\ ContactOf[r] \in view.selected
    <3> DEFINE v == [view EXCEPT !.selected = @ \ {ContactOf[r]}]
    <3>1. /\ v \in SuppressionFields /\ v.query = view.query /\ v.channel = view.channel
          /\ v.selected \subseteq view.selected /\ v.page = view.page
          /\ v.loading = view.loading /\ v.failed = view.failed
      BY <1>t DEF SuppressionFields
    <3>2. SuppressionCommit(props, v, ops, calls)
      BY <2>1, <2>5, <3>1
    <3> HIDE DEF v
    <3>3. ChosenAreListed(v)
      BY <1>t, <3>1 DEF ChosenAreListed, TableShown
    <3> QED BY <1>t, <2>2, <3>1, <3>2, <3>3, SuppressionCommitted
  <2>6. CASE ChannelOf[r] = view.channel /\ ContactOf[r] \notin view.selected
    <3> DEFINE v == [view EXCEPT !.selected = @ \cup {ContactOf[r]}]
    <3>1. /\ v \in SuppressionFields /\ v.query = view.query /\ v.channel = view.channel
          /\ v.selected = view.selected \cup {ContactOf[r]} /\ v.page = view.page
          /\ v.loading = view.loading /\ v.failed = view.failed
      BY <1>t, <2>4 DEF SuppressionFields
    <3>2. SuppressionCommit(props, v, ops, calls)
      BY <2>1, <2>6, <3>1 DEF Chosen
    <3> HIDE DEF v
    <3>3. ChosenAreListed(v)
      BY <1>t, <2>6, <3>1 DEF ChosenAreListed, TableShown
    <3> QED BY <1>t, <2>2, <3>1, <3>2, <3>3, SuppressionCommitted
  <2>7. CASE ChannelOf[r] # view.channel
    <3> DEFINE v == [view EXCEPT !.channel = ChannelOf[r], !.selected = {ContactOf[r]}]
    <3>1. v \in SuppressionFields /\ v.query = view.query /\ v.channel # view.channel
      BY <1>t, <2>4, <2>7 DEF SuppressionFields
    <3>2. SuppressionCommit(props, Refetching(v), ops, Loading(calls, "load", v.query))
      BY <2>1, <2>7, <3>1 DEF Chosen
    <3> HIDE DEF v
    <3> QED BY <1>t, <1>f, <1>l, <1>g, <2>2, <3>1, <3>2, SuppressionCommitted
  <2> QED BY <2>5, <2>6, <2>7
<1>4. CASE SetBulkForm
  <2>1. astray' = FALSE
    BY <1>4, <1>t DEF SetBulkForm
  <2>2. ASSUME SuppressionCommit(props, [view EXCEPT !.suppress = ~@], ops, calls)
        PROVE  SuppressionInv'
    <3> DEFINE v == [view EXCEPT !.suppress = ~@]
    <3>1. /\ v \in SuppressionFields /\ v.query = view.query /\ v.channel = view.channel
          /\ v.selected = view.selected /\ v.page = view.page
          /\ v.loading = view.loading /\ v.failed = view.failed
      BY <1>t DEF SuppressionFields
    <3> HIDE DEF v
    <3>2. ChosenAreListed(v)
      BY <1>t, <3>1 DEF ChosenAreListed, TableShown
    <3> QED BY <1>t, <2>1, <2>2, <3>1, <3>2, SuppressionCommitted DEF v
  <2>3. ASSUME NEW ch \in Channels,
               SuppressionCommit(props,
                 [Refetching(view) EXCEPT !.channel = ch, !.selected = {}], ops,
                 Loading(calls, "load", view.query))
        PROVE  SuppressionInv'
    <3> DEFINE v == [Refetching(view) EXCEPT !.channel = ch, !.selected = {}]
    <3>1. v \in SuppressionFields /\ v.query = view.query /\ v.loading
      BY <1>t, <1>f DEF SuppressionFields
    <3> HIDE DEF v
    <3> QED BY <1>t, <1>l, <1>g, <2>1, <2>3, <3>1, SuppressionCommitted DEF v
  <2> QED BY <1>4, <2>2, <2>3 DEF SetBulkForm
<1>5. CASE EditReason
  <2>1. PICK r \in DOMAIN view.page :
          SuppressionCommit(props, [view EXCEPT !.edited = @ \cup {r}], ops, calls)
    BY <1>5 DEF EditReason
  <2>2. r \in Rows
    BY <1>5, <1>t, RowInputs DEF EditReason, RowMounted
  <2> DEFINE v == [view EXCEPT !.edited = @ \cup {r}]
  <2>3. /\ v \in SuppressionFields /\ v.query = view.query /\ v.channel = view.channel
        /\ v.selected = view.selected /\ v.page = view.page
        /\ v.loading = view.loading /\ v.failed = view.failed
    BY <1>t, <2>2 DEF SuppressionFields
  <2>4. astray' = FALSE
    BY <1>5, <1>t DEF EditReason
  <2> HIDE DEF v
  <2>5. ChosenAreListed(v)
    BY <1>t, <2>3 DEF ChosenAreListed, TableShown
  <2> QED BY <1>t, <2>1, <2>3, <2>4, <2>5, SuppressionCommitted DEF v
<1>6. CASE bulkSet
  <2>1. [names |-> BulkInput(view), asked |-> BulkInput(view)] \in SuppressionArgs
    BY <1>t, BulkInputs DEF SuppressionArgs, AskedFor
  <2>2. "bulk" \in Mutations /\ "bulk" \notin Rows
    BY RowsAssumption DEF Mutations
  <2> QED BY <1>6, <2>1, <2>2, MutationRun DEF bulkSet
<1>7. CASE setSuppression
  <2>1. PICK r \in DOMAIN view.page :
          RunMutation(r, view, [names |-> RowInput(view, r), asked |-> RowInput(view, r)])
    BY <1>7 DEF setSuppression
  <2>2. RowMounted(view, r)
    BY <1>7 DEF setSuppression, RowMounted
  <2>3. r \in Rows /\ RowInput(view, r) \in Inputs
    BY <1>t, <2>2, RowInputs
  <2>4. [names |-> RowInput(view, r), asked |-> RowInput(view, r)] \in SuppressionArgs
    BY <2>3 DEF SuppressionArgs, AskedFor
  <2> QED BY <2>1, <2>2, <2>3, <2>4, MutationRun DEF Mutations
<1>8. CASE SuppressionRegrant
  <2>1. PICK p \in Regrants : SuppressionCommit(p, view, ops, calls)
    BY <1>8 DEF SuppressionRegrant
  <2>2. astray' = FALSE
    BY <1>8, <1>t DEF SuppressionRegrant
  <2> QED BY <1>t, <2>1, <2>2, SuppressionCommitted
<1>9. ASSUME NEW op \in Mutations, SuppressionRetry(op)
      PROVE  SuppressionInv'
  <2>1. ops[op].last \in SuppressionArgs
    BY <1>9, <1>t DEF SuppressionRetry, MayRetry, Hooks
  <2>2. op \in Rows => RowMounted(view, op)
    BY <1>9, RowsAssumption DEF SuppressionRetry
  <2> QED BY <1>9, <2>1, <2>2, MutationRun DEF SuppressionRetry
<1>10. ASSUME NEW s \in Slots, NEW answer \in Answers, SuppressionLoaded(s, answer)
       PROVE  SuppressionInv'
  <2>1. calls[s].about = view.query /\ Taken(s) \in C
    BY <1>10, SuppressionCall DEF SuppressionLoaded
  <2>2. astray' = FALSE
    <3>1. SuppressionAbout("load", view) = view.query
      BY RowsAssumption DEF SuppressionAbout
    <3> QED BY <1>10, <1>t, <2>1, <3>1 DEF SuppressionLoaded, Apply
  <2>3. CASE answer = "ok"
    <3>1. PICK page \in SUBSET Rows, on \in BOOLEAN :
            SuppressionCommit(props,
              [view EXCEPT !.loading = FALSE, !.page = [r \in page |-> on],
                           !.edited = {}, !.selected = StillListed(view, page)], ops, Taken(s))
      BY <1>10, <2>3 DEF SuppressionLoaded
    <3> DEFINE f == [r \in page |-> on]
               still == StillListed(view, page)
               v == [view EXCEPT !.loading = FALSE, !.page = f, !.edited = {}, !.selected = still]
    <3>2. f \in Pages /\ DOMAIN f = page
      BY DEF Pages
    <3>3. /\ still \subseteq view.selected
          /\ \A x \in still : \E r \in page : ContactOf[r] = x /\ ChannelOf[r] = view.channel
      BY DEF StillListed
    <3> HIDE DEF f, still
    <3>4. /\ v \in SuppressionFields /\ v.query = view.query /\ v.channel = view.channel
          /\ v.selected = still /\ v.page = f
      BY <1>t, <3>2, <3>3 DEF SuppressionFields
    <3>5. SuppressionCommit(props, v, ops, Taken(s))
      BY <3>1 DEF f, still
    <3> HIDE DEF v
    <3>6. ChosenAreListed(v)
      BY <3>2, <3>3, <3>4 DEF ChosenAreListed
    <3> QED BY <1>t, <2>1, <2>2, <3>4, <3>5, <3>6, SuppressionCommitted
  <2>4. CASE answer # "ok"
    <3> DEFINE v == [view EXCEPT !.loading = FALSE, !.page = None,
                                 !.failed = safeAdapterCall(answer)]
    <3>1. v \in SuppressionFields /\ v.query = view.query /\ v.page = None
      BY <1>t, <2>4 DEF SuppressionFields, safeAdapterCall, Answers, Failures
    <3>2. SuppressionCommit(props, v, ops, Taken(s))
      BY <1>10, <2>4 DEF SuppressionLoaded
    <3> HIDE DEF v
    <3>3. ChosenAreListed(v)
      BY <3>1 DEF ChosenAreListed, TableShown
    <3> QED BY <1>t, <2>1, <2>2, <3>1, <3>2, <3>3, SuppressionCommitted
  <2> QED BY <2>3, <2>4
<1>11. ASSUME NEW s \in Slots, NEW answer \in Answers, SuppressionAnswered(s, answer)
       PROVE  SuppressionInv'
  <2> DEFINE op == calls[s].op
             v == [view EXCEPT !.locked = FALSE]
             done == IF op = "bulk" THEN [v EXCEPT !.selected = {}] ELSE v
  <2>1. /\ op \in Mutations /\ (calls[s].live => calls[s].about = SuppressionAbout(op, view))
        /\ Taken(s) \in C
    BY <1>11, SuppressionCall DEF SuppressionAnswered
  <2>2. /\ v \in SuppressionFields /\ v.query = view.query /\ v.channel = view.channel
        /\ v.selected = view.selected /\ v.page = view.page
        /\ v.loading = view.loading /\ v.failed = view.failed
    BY <1>t DEF SuppressionFields
  <2> HIDE DEF v
  <2>3. done \in SuppressionFields /\ done.query = view.query
    BY <2>2 DEF SuppressionFields
  <2>4. astray' = FALSE
    BY <1>11, <1>t, <2>1 DEF SuppressionAnswered, Apply
  <2>5. Settled(op, answer) \in H
    BY <1>t, <2>1, SettledHooks
  <2>6. Loading(Taken(s), "load", view.query) \in C
    BY <2>1, SuppressionLoading
  <2>7. \/ SuppressionCommit(props, v, ops, Taken(s))
        \/ SuppressionCommit(props, v, Settled(op, answer), Taken(s))
        \/ SuppressionCommit(props, Refetching(done), Settled(op, answer),
                             Loading(Taken(s), "load", view.query))
    BY <1>11 DEF SuppressionAnswered, v
  <2>8. ChosenAreListed(v)
    BY <1>t, <2>2 DEF ChosenAreListed, TableShown
  <2> HIDE DEF op, done
  <2> QED BY <1>t, <1>f, <1>l, <2>1, <2>2, <2>3, <2>4, <2>5, <2>6, <2>7, <2>8, SuppressionCommitted
<1> QED BY <1>1, <1>2, <1>3, <1>4, <1>5, <1>6, <1>7, <1>8, <1>9, <1>10, <1>11
        DEF SuppressionNext, Mutations

-------------------------------------------------------------------------------
(* Whichever screen is mounted *)

ScreensInv ==
  \/ screen = "contacts" /\ ContactsInv
  \/ screen = "contact" /\ DetailInv
  \/ screen = "form" /\ FormInv
  \/ screen = "import" /\ ImportInv
  \/ screen = "lists" /\ ListsInv
  \/ screen = "list" /\ ListInv
  \/ screen = "suppression" /\ SuppressionInv
  \/ screen \in Browsers /\ BrowseInv
  \/ screen = "campaign" /\ CampaignInv
  \/ screen = "wizard" /\ WizardInv
  \/ screen = None /\ calls = NoCalls /\ astray = FALSE

LEMMA ScreensInvInit == Init => ScreensInv
BY ContactsBegins, DetailBegins, FormBegins, ImportBegins, ListsBegins, ListBegins,
   SuppressionBegins, BrowseBegins, CampaignBegins, WizardBegins
   DEF Init, ScreensInv, ContactsInit, DetailInit, FormInit, ImportInit, ListsInit, ListInit,
       SuppressionInit, BrowseInit, CampaignInit, WizardInit

\* Only Unmount changes which screen is mounted.
LEMMA ContactsStay == ContactsNext => screen' = "contacts"
<1>1. \A p, v, o, c : ContactsCommit(p, v, o, c) => screen' = screen
  BY DEF ContactsCommit, Commit
<1>2. NewQuery \/ ContactsRetryLoad \/ ContactsSelect \/ ContactsRegrant => screen' = screen
  BY <1>1 DEF NewQuery, ContactsRetryLoad, ContactsSelect, ContactsRegrant
<1>3. assign \/ AskBulkDelete \/ CancelBulkDelete \/ bulkRemove => screen' = screen
  BY <1>1 DEF assign, AskBulkDelete, CancelBulkDelete, bulkRemove
<1>4. \A op : BulkRetry(op) => screen' = screen
  BY <1>1 DEF BulkRetry
<1>5. \A s, answer : ContactsLoaded(s, answer) => screen' = screen
  BY <1>1 DEF ContactsLoaded
<1>6. \A s, answer : BulkAnswered(s, answer) => screen' = screen
  BY <1>1 DEF BulkAnswered
<1> QED BY <1>2, <1>3, <1>4, <1>5, <1>6 DEF ContactsNext

LEMMA DetailStay == DetailNext => screen' = "contact"
<1>1. \A p, v, o, c : DetailCommit(p, v, o, c) => screen' = screen
  BY DEF DetailCommit, Commit
<1>2. DetailRetarget \/ DetailRegrant \/ DetailRetryLoad \/ TypeNote => screen' = screen
  BY <1>1 DEF DetailRetarget, DetailRegrant, DetailRetryLoad, TypeNote
<1>3. addNote \/ AskDelete \/ CancelDelete \/ removeContact => screen' = screen
  BY <1>1 DEF addNote, AskDelete, CancelDelete, removeContact
<1>4. \A op : DetailRetry(op) => screen' = screen
  BY <1>1 DEF DetailRetry
<1>5. \A s, answer : DetailLoaded(s, answer) \/ DetailAnswered(s, answer) => screen' = screen
  BY <1>1 DEF DetailLoaded, DetailAnswered
<1> QED BY <1>2, <1>3, <1>4, <1>5 DEF DetailNext

LEMMA FormStay == FormNext => screen' = "form"
BY DEF FormNext, FormRetarget, FormRegrant, FormRetryLoad, EditField, submit, FormRetry,
       FormLoaded, FormAnswered, FormCommit, Commit

\* What the answer to an import changes in the view, and then the commit.
LEMMA CommittedView ==
  ASSUME NEW s, NEW answer, Committed(s, answer)
  PROVE  \E v : IF ~calls[s].live THEN ImportCommit(v, ops, Taken(s))
                                  ELSE ImportCommit(v, Settled("commit", answer), Taken(s))
<1>1. PICK n \in IF answer = "ok" THEN {1} ELSE IF answer = "thrown" THEN {0, 1} ELSE {0} :
        LET snapshot == CHOOSE x \in calls[s].args.names : TRUE
            v == [view EXCEPT
                    !.imported[snapshot] = IF @ + n > 2 THEN 2 ELSE @ + n,
                    !.retired = IF Released(answer) THEN @ \ {snapshot} ELSE @,
                    !.complete = @ \/ (calls[s].live /\ answer = "ok")]
        IN  IF ~calls[s].live
            THEN ImportCommit(v, ops, Taken(s)) /\ UNCHANGED astray
            ELSE /\ Apply(calls[s], ImportAbout("commit", view))
                 /\ ImportCommit(v, Settled("commit", answer), Taken(s))
  BY Zenon DEF Committed
<1> DEFINE v == [view EXCEPT
                   !.imported[CHOOSE x \in calls[s].args.names : TRUE] = IF @ + n > 2 THEN 2 ELSE @ + n,
                   !.retired = IF Released(answer) THEN @ \ {CHOOSE x \in calls[s].args.names : TRUE} ELSE @,
                   !.complete = @ \/ (calls[s].live /\ answer = "ok")]
<1>2. IF ~calls[s].live THEN ImportCommit(v, ops, Taken(s))
                        ELSE ImportCommit(v, Settled("commit", answer), Taken(s))
  BY <1>1, Zenon
<1> HIDE DEF v
<1> QED BY <1>2

LEMMA ImportStay == ImportNext => screen' = "import"
<1>1. \A v, o, c : ImportCommit(v, o, c) => screen' = screen
  BY DEF ImportCommit, Commit
<1>2. \A op, v, args : ImportStart(op, v, args) => screen' = screen
  BY <1>1 DEF ImportStart
<1>3. ImportRegrant => screen' = screen
  BY DEF ImportRegrant, Commit
<1>4. \A s, answer : Committed(s, answer) => screen' = screen
  BY <1>1, CommittedView
<1>5. \A s, answer : Parsed(s, answer) \/ Previewed(s, answer) => screen' = screen
  BY <1>1 DEF Parsed, Previewed
<1>6. parse \/ changeMapping \/ showPreview \/ commit => screen' = screen
  BY <1>1, <1>2 DEF parse, changeMapping, showPreview, commit
<1>7. \A op : ImportRetry(op) => screen' = screen
  BY <1>2 DEF ImportRetry
<1> QED BY <1>3, <1>4, <1>5, <1>6, <1>7 DEF ImportNext

LEMMA ListsStay == ListsNext => screen' = "lists"
<1>1. \A p, v, o, c : ListsCommit(p, v, o, c) => screen' = screen
  BY DEF ListsCommit, Commit
<1>2. \A op, v, args : ListWrite(op, v, args) => screen' = screen
  BY <1>1 DEF ListWrite
<1>3. \A s, answer : ListAnswered(s, answer) => screen' = screen
  BY <1>1 DEF ListAnswered
<1> QED BY <1>1, <1>2, <1>3
        DEF ListsNext, ListsQuery, ListsRetryLoad, NameDraft, EditList, AskDeleteList,
            CancelDeleteList, createList, updateList, removeList, ListsRegrant, retryList,
            ListsLoaded

LEMMA ListStay == ListNext => screen' = "list"
<1>1. \A p, v, o, c : MembersCommit(p, v, o, c) => screen' = screen
  BY DEF MembersCommit, Commit
<1>2. \A op, v, args : MemberWrite(op, v, args) => screen' = screen
  BY <1>1 DEF MemberWrite
<1>3. \A s, answer : MembersAnswered(s, answer) => screen' = screen
  BY <1>1, Zenon DEF MembersAnswered
<1>4. \A s, answer : ListLoaded(s, answer) \/ ContactsFound(s, answer) => screen' = screen
  BY <1>1 DEF ListLoaded, ContactsFound
<1>5. ListRetarget \/ SearchContacts \/ ListRetryLoad \/ SearchRetry \/ ToggleMember => screen' = screen
  BY <1>1 DEF ListRetarget, SearchContacts, ListRetryLoad, SearchRetry, ToggleMember
<1>6. AskRemoval \/ CancelRemoval \/ addMembers \/ removeMembers \/ ListRegrant => screen' = screen
  BY <1>1, <1>2 DEF AskRemoval, CancelRemoval, addMembers, removeMembers, ListRegrant
<1>7. \A op : retryMembers(op) => screen' = screen
  BY <1>2 DEF retryMembers
<1> QED BY <1>3, <1>4, <1>5, <1>6, <1>7 DEF ListNext

LEMMA SuppressionStay == SuppressionNext => screen' = "suppression"
<1>1. \A p, v, o, c : SuppressionCommit(p, v, o, c) => screen' = screen
  BY DEF SuppressionCommit, Commit
<1>2. \A op, v, args : RunMutation(op, v, args) => screen' = screen
  BY <1>1 DEF RunMutation
<1>3. SuppressionQuery \/ SuppressionRetryLoad \/ SetBulkForm \/ EditReason => screen' = screen
  BY <1>1 DEF SuppressionQuery, SuppressionRetryLoad, SetBulkForm, EditReason
<1>4. select => screen' = screen
  BY <1>1, Zenon DEF select
<1>5. bulkSet \/ setSuppression \/ SuppressionRegrant => screen' = screen
  BY <1>1, <1>2 DEF bulkSet, setSuppression, SuppressionRegrant
<1>6. \A op : SuppressionRetry(op) => screen' = screen
  BY <1>2 DEF SuppressionRetry
<1>7. \A s, answer : SuppressionLoaded(s, answer) => screen' = screen
  BY <1>1, Zenon DEF SuppressionLoaded
<1>8. \A s, answer : SuppressionAnswered(s, answer) => screen' = screen
  BY <1>1, Zenon DEF SuppressionAnswered
<1> QED BY <1>3, <1>4, <1>5, <1>6, <1>7, <1>8 DEF SuppressionNext

LEMMA BrowseStay == BrowseNext => screen' \in Browsers
BY DEF BrowseNext, BrowseQuery, BrowseRetarget, BrowseRetry, BrowseLoaded, BrowseCommit, Commit

LEMMA CampaignStay == CampaignNext => screen' = "campaign"
<1>1. \A p, v, o, c : CampaignCommit(p, v, o, c) => screen' = screen
  BY DEF CampaignCommit, Commit
<1>2. \A v, args : RunWrite(v, args) => screen' = screen
  BY <1>1 DEF RunWrite
<1>3. CampaignRetarget \/ CampaignRegrant \/ CampaignRetryLoad \/ AskDeleteCampaign => screen' = screen
  BY <1>1 DEF CampaignRetarget, CampaignRegrant, CampaignRetryLoad, AskDeleteCampaign
<1>4. transition \/ deleteCampaign \/ CampaignRetry => screen' = screen
  BY <1>2 DEF transition, deleteCampaign, CampaignRetry
<1>5. \A s, answer : CampaignLoaded(s, answer) => screen' = screen
  BY <1>1, Zenon DEF CampaignLoaded
<1>6. \A s, answer : CampaignAnswered(s, answer) => screen' = screen
  BY <1>1, Zenon DEF CampaignAnswered
<1> QED BY <1>3, <1>4, <1>5, <1>6 DEF CampaignNext

LEMMA WizardStay == WizardNext => screen' = "wizard"
<1>1. \A p, v, o, c : WizardCommit(p, v, o, c) => screen' = screen
  BY DEF WizardCommit, Commit
<1>2. \A args : Submit(args) => screen' = screen
  BY <1>1 DEF Submit
<1>3. \A form : Edit(form) => screen' = screen
  BY <1>1 DEF Edit
<1>4. \A s, answer : CampaignSaved(s, answer) \/ WizardAnswered(s, answer) => screen' = screen
  BY <1>1 DEF CampaignSaved, WizardAnswered
<1>5. \A s, answer : WizardLoaded(s, answer) \/ AudiencePreviewed(s, answer) => screen' = screen
  BY <1>1, Zenon DEF WizardLoaded, AudiencePreviewed
<1>6. WizardRetarget => screen' = screen
  BY <1>1, Zenon DEF WizardRetarget
<1>7. WizardRegrant \/ WizardRetryLoad \/ previewAudience => screen' = screen
  BY <1>1 DEF WizardRegrant, WizardRetryLoad, previewAudience
<1>8. WizardEdit \/ ChooseAudience \/ ChooseExtension => screen' = screen
  BY <1>3 DEF WizardEdit, ChooseAudience, ChooseExtension
<1>9. submitCampaign \/ retrySave => screen' = screen
  BY <1>2 DEF submitCampaign, retrySave
<1> QED BY <1>4, <1>5, <1>6, <1>7, <1>8, <1>9 DEF WizardNext

\* A step belongs to the screen that is mounted.
LEMMA ScreensInvStep ==
  ASSUME ScreensInv, Next
  PROVE  ScreensInv'
<1>0. astray = FALSE
  BY DEF ScreensInv, ContactsInv, DetailInv, FormInv, ImportInv, ListsInv, ListInv,
         SuppressionInv, BrowseInv, CampaignInv, WizardInv
<1>1. CASE ContactsNext
  <2>1. screen = "contacts"
    BY <1>1 DEF ContactsNext
  <2>2. ContactsInv
    BY <2>1, ScreensAssumption DEF ScreensInv, Browsers
  <2> QED BY <1>1, <2>2, ContactsStep, ContactsStay DEF ScreensInv
<1>2. CASE DetailNext
  <2>1. screen = "contact"
    BY <1>2 DEF DetailNext
  <2>2. DetailInv
    BY <2>1, ScreensAssumption DEF ScreensInv, Browsers
  <2> QED BY <1>2, <2>2, DetailStep, DetailStay DEF ScreensInv
<1>3. CASE FormNext
  <2>1. screen = "form"
    BY <1>3 DEF FormNext
  <2>2. FormInv
    BY <2>1, ScreensAssumption DEF ScreensInv, Browsers
  <2> QED BY <1>3, <2>2, FormStep, FormStay DEF ScreensInv
<1>4. CASE ImportNext
  <2>1. screen = "import"
    BY <1>4 DEF ImportNext
  <2>2. ImportInv
    BY <2>1, ScreensAssumption DEF ScreensInv, Browsers
  <2> QED BY <1>4, <2>2, ImportStep, ImportStay DEF ScreensInv
<1>5. CASE ListsNext
  <2>1. screen = "lists"
    BY <1>5 DEF ListsNext
  <2>2. ListsInv
    BY <2>1, ScreensAssumption DEF ScreensInv, Browsers
  <2> QED BY <1>5, <2>2, ListsStep, ListsStay DEF ScreensInv
<1>6. CASE ListNext
  <2>1. screen = "list"
    BY <1>6 DEF ListNext
  <2>2. ListInv
    BY <2>1, ScreensAssumption DEF ScreensInv, Browsers
  <2> QED BY <1>6, <2>2, ListStep, ListStay DEF ScreensInv
<1>7. CASE SuppressionNext
  <2>1. screen = "suppression"
    BY <1>7 DEF SuppressionNext
  <2>2. SuppressionInv
    BY <2>1, ScreensAssumption DEF ScreensInv, Browsers
  <2> QED BY <1>7, <2>2, SuppressionStep, SuppressionStay DEF ScreensInv
<1>8. CASE BrowseNext
  <2>1. screen \in Browsers
    BY <1>8 DEF BrowseNext
  <2>2. BrowseInv
    BY <2>1, ScreensAssumption DEF ScreensInv, Browsers
  <2> QED BY <1>8, <2>2, BrowseStep, BrowseStay DEF ScreensInv
<1>9. CASE CampaignNext
  <2>1. screen = "campaign"
    BY <1>9 DEF CampaignNext
  <2>2. CampaignInv
    BY <2>1, ScreensAssumption DEF ScreensInv, Browsers
  <2> QED BY <1>9, <2>2, CampaignStep, CampaignStay DEF ScreensInv
<1>10. CASE WizardNext
  <2>1. screen = "wizard"
    BY <1>10 DEF WizardNext
  <2>2. WizardInv
    BY <2>1, ScreensAssumption DEF ScreensInv, Browsers
  <2> QED BY <1>10, <2>2, WizardStep, WizardStay DEF ScreensInv
<1>11. CASE Unmount
  BY <1>0, <1>11 DEF Unmount, ScreensInv
<1> QED BY <1>1, <1>2, <1>3, <1>4, <1>5, <1>6, <1>7, <1>8, <1>9, <1>10, <1>11 DEF Next

LEMMA ScreensInvStutter ==
  ASSUME ScreensInv, UNCHANGED vars
  PROVE  ScreensInv'
BY DEF vars, ScreensInv, ContactsInv, DetailInv, FormInv, ImportInv, ListsInv, ListInv,
       SuppressionInv, BrowseInv, CampaignInv, WizardInv, Form

\* Whatever is asked, changed and answered, each screen keeps its invariant:
\* a live call in flight is about what its screen is about now, and only a
\* call that will be ignored may be about something else (useCrmOperation.ts:22).
THEOREM ScreensInvariant == Spec => []ScreensInv
<1>1. ScreensInv /\ [Next]_vars => ScreensInv'
  BY ScreensInvStep, ScreensInvStutter
<1> QED BY <1>1, ScreensInvInit, PTL DEF Spec

\* What a screen shows, or leaves for, after an answer is what it was about
\* when it asked: no answer that the adapter gives late, or in another order,
\* reaches another contact, list, query or campaign (useCrmOperation.ts:22).
\* The page of the lists is the one asked for last, by a create or an edit
\* perhaps for a query the user has left (ListsScreen.tsx:136).
THEOREM AnswersInContext == Spec => []AnswersStayInContext
<1>1. ScreensInv => AnswersStayInContext
  BY DEF ScreensInv, ContactsInv, DetailInv, FormInv, ImportInv, ListsInv, ListInv,
         SuppressionInv, BrowseInv, CampaignInv, WizardInv, AnswersStayInContext
<1> QED BY <1>1, ScreensInvariant, PTL

\* Every selected contact has a row of the bulk channel in the page the
\* suppression screen shows, so that a bulk action sets what the user saw.
THEOREM SelectionIsListed == Spec => []SelectedAreListed
<1>1. ScreensInv => SelectedAreListed
  BY ScreensAssumption
     DEF ScreensInv, Browsers, SuppressionInv, ChosenAreListed, SelectedAreListed
<1> QED BY <1>1, ScreensInvariant, PTL

\* An import commits a file's rows at most once from one screen, and a form of
\* the wizard creates at most one campaign, however often its save is retried.
THEOREM SubmittedAtMostOnce == Spec => []SubmittedOnce
<1>1. ScreensInv => ImportedOnce
  <2> SUFFICES ASSUME ScreensInv, screen = "import", NEW x \in Snapshots PROVE view.imported[x] <= 1
    BY DEF ImportedOnce
  <2>1. ImportInv
    BY ScreensAssumption DEF ScreensInv, Browsers
  <2>2. view.imported \in [Snapshots -> 0..1]
    BY <2>1 DEF ImportInv, ImportFields
  <2> QED BY <2>2
<1>2. ScreensInv => SavedCreatesOnce
  <2> SUFFICES ASSUME ScreensInv, screen = "wizard", NEW s \in Slots,
                      calls[s] # None, calls[s].op = "write"
               PROVE  calls[s].args.created <= 1
    BY DEF SavedCreatesOnce
  <2>1. WizardInv
    BY ScreensAssumption DEF ScreensInv, Browsers
  <2>2. calls[s].args \in WizardArgs
    BY <2>1, WizardCall
  <2>3. calls[s].args.created \in 0..1
    BY <2>2 DEF WizardArgs
  <2> QED BY <2>3
<1>3. ScreensInv => SubmittedOnce
  BY <1>1, <1>2 DEF SubmittedOnce
<1> QED BY <1>3, ScreensInvariant, PTL

-------------------------------------------------------------------------------
(* What is sent is what was asked for *)

\* The calls of G name what was asked for.
Honest(G) == \A x \in G : x.args # None => x.args.names = x.args.asked

LEMMA HonestRequests ==
  ASSUME NEW A, \A a \in A : a.names = a.asked, NEW O, NEW X, NEW x, NEW op
  PROVE  Honest(Asking(op, x)) /\ Honest(Writing(O, x, A)) /\ Honest(Late(O, X, A))
<1>1. Honest(Asking(op, x))
  BY DEF Honest, Asking
<1>2. Honest(Writing(O, x, A))
  BY DEF Honest, Writing
<1>3. Honest(Late(O, X, A))
  BY DEF Honest, Late
<1> QED BY <1>1, <1>2, <1>3

LEMMA AskedIsHonest ==
  ASSUME NEW N, NEW O, NEW X, NEW x, NEW op
  PROVE  Honest(Asking(op, x)) /\ Honest(Writing(O, x, AskedFor(N))) /\ Honest(Late(O, X, AskedFor(N)))
<1>1. \A a \in AskedFor(N) : a.names = a.asked
  BY DEF AskedFor
<1> DEFINE A == AskedFor(N)
<1> HIDE DEF A
<1>2. Honest(Asking(op, x)) /\ Honest(Writing(O, x, A)) /\ Honest(Late(O, X, A))
  BY <1>1, HonestRequests DEF A
<1> QED BY <1>2 DEF A

LEMMA HonestBoth ==
  ASSUME NEW G, NEW H, Honest(G), Honest(H)
  PROVE  Honest(G \cup H)
BY DEF Honest

LEMMA HonestFlights ==
  ASSUME NEW G, Honest(G), calls \in Flights(G)
  PROVE  WritesAreAsAsked
BY DEF Honest, Flights, WritesAreAsAsked

\* A write names what its user asked for: the contacts of the confirmation,
\* the list of the dialog, the contact a note was drafted on, the start of the
\* campaign that is saved, whatever changed under the dialog meanwhile.
THEOREM WritesAsAsked == Spec => []WritesAreAsAsked
<1>1. ContactsInv => WritesAreAsAsked
  <2>1. Honest(ContactsCalls(view.query, view.selected))
    BY AskedIsHonest DEF ContactsCalls, ContactsArgs, Honest
  <2> QED BY <2>1, HonestFlights DEF ContactsInv
<1>2. DetailInv => WritesAreAsAsked
  <2>1. Honest(DetailCalls(props.target, props.target))
    BY AskedIsHonest DEF DetailCalls, DetailArgs, Honest
  <2> QED BY <2>1, HonestFlights DEF DetailInv
<1>3. FormInv => WritesAreAsAsked
  <2>1. Honest(FormCalls(props.target, props.target))
    BY AskedIsHonest DEF FormCalls, FormArgs, Honest
  <2> QED BY <2>1, HonestFlights DEF FormInv
<1>4. ImportInv => WritesAreAsAsked
  <2> DEFINE N == {{x} : x \in Files \cup Snapshots}
  <2>1. ImportArgs = AskedFor(N)
    BY DEF ImportArgs
  <2> HIDE DEF N
  <2>2. /\ Honest(Writing({"parse"}, view.picked, ImportArgs))
        /\ Honest(Writing({"preview"}, OnScreen(view), ImportArgs))
        /\ Honest(Writing({"commit"}, view.previewed, ImportArgs))
        /\ Honest(Late(ImportOps, ImportAbouts, ImportArgs))
    BY <2>1, AskedIsHonest
  <2>3. Honest(ImportLive(view.picked, OnScreen(view), view.previewed))
    BY <2>2, HonestBoth DEF ImportLive
  <2>4. Honest(ImportCalls(view.picked, OnScreen(view), view.previewed))
    BY <2>2, <2>3, HonestBoth DEF ImportCalls
  <2> QED BY <2>4, HonestFlights DEF ImportInv
<1>5. ListsInv => WritesAreAsAsked
  <2>1. \A a \in ListsArgs : a.names = a.asked
    BY DEF ListsArgs
  <2>2. /\ Honest(Writing({"create"}, view.named, ListsArgs))
        /\ Honest(Writing({"edit"}, view.editing, ListsArgs))
        /\ Honest(Writing({"delete"}, view.deleting, ListsArgs))
        /\ Honest(Late(ListsWrites, ListsAbouts, ListsArgs)) /\ Honest(Asking("load", view.asked))
    BY <2>1, HonestRequests
  <2>3. Honest(ListsLive(view.named, view.editing, view.deleting))
    BY <2>2, HonestBoth DEF ListsLive
  <2>4. Honest(ListsCalls(view.asked, view.named, view.editing, view.deleting))
    BY <2>2, <2>3, HonestBoth DEF ListsCalls
  <2> QED BY <2>4, HonestFlights DEF ListsInv
<1>6. ListInv => WritesAreAsAsked
  <2>1. Honest(MembersCalls(props.target, <<props.target, view.query>>,
                            props.target, view.toAdd, view.toRemove))
    BY AskedIsHonest DEF MembersCalls, MembersLive, MembersArgs, Honest
  <2> QED BY <2>1, HonestFlights DEF ListInv
<1>7. SuppressionInv => WritesAreAsAsked
  <2>1. Honest(SuppressionLive(view))
    BY DEF SuppressionLive, SuppressionArgs, AskedFor, Honest
  <2>2. Honest(SuppressionCalls(view.query, view))
    BY <2>1, AskedIsHonest DEF SuppressionCalls, SuppressionArgs, Honest
  <2> QED BY <2>2, HonestFlights DEF SuppressionInv
<1>8. BrowseInv => WritesAreAsAsked
  BY AskedIsHonest, HonestFlights DEF BrowseInv
<1>9. CampaignInv => WritesAreAsAsked
  <2>1. Honest(CampaignCalls(props.target, props.target))
    <3> DEFINE N == Targets \X CampaignActions
    <3>1. CampaignArgs = AskedFor(N)
      BY DEF CampaignArgs
    <3> HIDE DEF N
    <3> QED BY <3>1, AskedIsHonest DEF CampaignCalls, Honest
  <2> QED BY <2>1, HonestFlights DEF CampaignInv
<1>10. WizardInv => WritesAreAsAsked
  <2>1. Honest(WizardCalls(props.target, Form.audience, props.target))
    BY DEF WizardCalls, Asking, Writing, Late, WizardArgs, Honest
  <2> QED BY <2>1, HonestFlights DEF WizardInv
<1>11. calls = NoCalls => WritesAreAsAsked
  BY DEF NoCalls, WritesAreAsAsked
<1>12. ScreensInv => WritesAreAsAsked
  BY <1>1, <1>2, <1>3, <1>4, <1>5, <1>6, <1>7, <1>8, <1>9, <1>10, <1>11 DEF ScreensInv
<1> QED BY <1>12, ScreensInvariant, PTL

-------------------------------------------------------------------------------
(* What is pending is awaited, and a lock is held as long as its write *)

Requests(O, X, A) == [op : O, about : X, args : A, live : BOOLEAN]

Pending(c, P) == {s \in Slots : c[s] # None /\ c[s].op \in P}

Typed(c, O, R) == \A s \in Pending(c, O) : c[s] \in R

Awaited(o, c) ==
  \A op \in DOMAIN o : o[op].flying => \E s \in Slots : c[s] # None /\ c[s].op = op /\ c[s].live

\* The calls of O are the same in c as in d.
SameWrites(c, d, O) == \A s \in Pending(c, O) \cup Pending(d, O) : c[s] = d[s]

\* A commit of the hooks o and the calls c, whatever the scopes.
Through(O, o, c) ==
  \E before, after : /\ DOMAIN before = O
                     /\ ops' = Rescoped(before, after, o)
                     /\ calls' = Retired(before, after, c)

\* A commit starts a hook anew where it retires its calls, and forgets no call.
LEMMA ThroughCommit ==
  ASSUME NEW O, NEW X, NEW A, None \notin Requests(O, X, A),
         NEW o, DOMAIN o = O, NEW c, Typed(c, O, Requests(O, X, A)),
         Awaited(o, c), Through(O, o, c)
  PROVE  /\ Awaited(ops', calls')
         /\ \A P : Pending(calls', P) = Pending(c, P)
<1>1. PICK before, after : /\ DOMAIN before = O
                           /\ ops' = Rescoped(before, after, o)
                           /\ calls' = Retired(before, after, c)
  BY DEF Through
<1>2. ASSUME NEW s \in Slots, c[s] # None
      PROVE  /\ calls'[s] # None /\ calls'[s].op = c[s].op
             /\ (c[s].op \notin O \/ before[c[s].op] = after[c[s].op]) => calls'[s] = c[s]
  <2>1. CASE c[s].op \in O /\ before[c[s].op] # after[c[s].op]
    <3>1. c[s] \in Requests(O, X, A)
      BY <1>2, <2>1 DEF Typed, Pending
    <3>2. calls'[s] = [c[s] EXCEPT !.live = FALSE]
      BY <1>1, <1>2, <2>1 DEF Retired
    <3>3. calls'[s] \in Requests(O, X, A) /\ calls'[s].op = c[s].op
      BY <3>1, <3>2 DEF Requests
    <3> QED BY <2>1, <3>3
  <2>2. CASE ~(c[s].op \in O /\ before[c[s].op] # after[c[s].op])
    BY <1>1, <1>2, <2>2 DEF Retired
  <2> QED BY <2>1, <2>2
<1>3. \A s \in Slots : c[s] = None => calls'[s] = None
  BY <1>1 DEF Retired
<1>4. ASSUME NEW op \in DOMAIN ops', ops'[op].flying
      PROVE  \E s \in Slots : calls'[s] # None /\ calls'[s].op = op /\ calls'[s].live
  <2>1. op \in O /\ before[op] = after[op] /\ o[op].flying
    BY <1>1, <1>4 DEF Rescoped, Idle
  <2>2. PICK s \in Slots : c[s] # None /\ c[s].op = op /\ c[s].live
    BY <2>1 DEF Awaited
  <2> QED BY <1>2, <2>1, <2>2
<1>5. \A P : Pending(calls', P) = Pending(c, P)
  BY <1>2, <1>3 DEF Pending
<1> QED BY <1>4, <1>5 DEF Awaited

LEMMA SamePending ==
  ASSUME NEW c, NEW d, NEW O, SameWrites(c, d, O), NEW P \in SUBSET O
  PROVE  Pending(c, P) = Pending(d, P)
BY DEF SameWrites, Pending

LEMMA SameTyped ==
  ASSUME NEW c, NEW d, NEW O, NEW R, SameWrites(c, d, O), Typed(d, O, R)
  PROVE  Typed(c, O, R)
BY DEF SameWrites, Pending, Typed

LEMMA SameAwaited ==
  ASSUME NEW c, NEW d, NEW o, SameWrites(c, d, DOMAIN o), Awaited(o, d)
  PROVE  Awaited(o, c)
BY DEF SameWrites, Pending, Awaited

\* The hooks of the writes O, whose calls are Requests(O, X, A).
Tracked(O, X, A) ==
  /\ None \notin Requests(O, X, A)
  /\ ops \in Hooks(O, A) /\ DOMAIN calls = Slots
  /\ Typed(calls, O, Requests(O, X, A))
  /\ Awaited(ops, calls)

\* Nothing is written.
LEMMA LeftAlone ==
  ASSUME NEW O, NEW X, NEW A, Tracked(O, X, A),
         NEW c, SameWrites(c, calls, O), Through(O, ops, c)
  PROVE  /\ Awaited(ops', calls')
         /\ \A P : Pending(calls', P) = Pending(c, P)
         /\ \A P \in SUBSET O : Pending(calls', P) = Pending(calls, P)
<1>1. DOMAIN ops = O
  BY DEF Tracked, Hooks
<1>2. Typed(c, O, Requests(O, X, A)) /\ Awaited(ops, c)
  BY <1>1, SameTyped, SameAwaited DEF Tracked
<1>3. Awaited(ops', calls') /\ \A P : Pending(calls', P) = Pending(c, P)
  BY <1>1, <1>2, ThroughCommit DEF Tracked
<1>4. \A P \in SUBSET O : Pending(c, P) = Pending(calls, P)
  BY SamePending
<1> QED BY <1>3, <1>4

\* A write is made.
LEMMA WriteMade ==
  ASSUME NEW O, NEW X, NEW A, Tracked(O, X, A),
         NEW op \in O, NEW about \in X, NEW args \in A, HasSlot,
         Through(O, Attempted(op, args), Made(calls, Request(op, about, args)))
  PROVE  /\ Awaited(ops', calls')
         /\ \E f \in Slots : \A P :
              Pending(calls', P) = IF op \in P THEN Pending(calls, P) \cup {f} ELSE Pending(calls, P)
<1> DEFINE f == FreeSlot(calls)
           call == Request(op, about, args)
           c == Made(calls, call)
           o == Attempted(op, args)
<1>1. f \in Slots /\ calls[f] = None
  BY DEF HasSlot, FreeSlot
<1>2. call \in Requests(O, X, A) /\ call.op = op /\ call.live
  BY DEF Request, Requests
<1>3. call # None
  BY <1>2 DEF Tracked
<1>4. c[f] = call /\ \A s \in Slots \ {f} : c[s] = calls[s]
  BY <1>1 DEF Made, Tracked
<1>5. ops \in Hooks(O, A)
  BY DEF Tracked
<1>6. DOMAIN o = O /\ \A q \in O \ {op} : o[q] = ops[q]
  BY <1>5, AttemptedBesides DEF Attempted, Hooks
<1> HIDE DEF f, call, c, o
<1>7. \A P : Pending(c, P) = IF op \in P THEN Pending(calls, P) \cup {f} ELSE Pending(calls, P)
  BY <1>1, <1>2, <1>3, <1>4 DEF Pending
<1>8. Typed(c, O, Requests(O, X, A))
  BY <1>1, <1>2, <1>4, <1>7 DEF Typed, Tracked, Pending
<1>9. Awaited(o, c)
  <2> SUFFICES ASSUME NEW q \in O, o[q].flying
               PROVE  \E s \in Slots : c[s] # None /\ c[s].op = q /\ c[s].live
    BY <1>6 DEF Awaited
  <2>1. CASE q = op
    BY <1>1, <1>2, <1>3, <1>4, <2>1
  <2>2. CASE q # op
    <3>1. ops[q].flying /\ q \in DOMAIN ops
      BY <1>5, <1>6, <2>2 DEF Hooks
    <3>2. PICK s \in Slots : calls[s] # None /\ calls[s].op = q /\ calls[s].live
      BY <3>1 DEF Tracked, Awaited
    <3> QED BY <1>1, <1>4, <3>2
  <2> QED BY <2>1, <2>2
<1>10. Awaited(ops', calls') /\ \A P : Pending(calls', P) = Pending(c, P)
  BY <1>6, <1>8, <1>9, ThroughCommit DEF Tracked, o, c, call
<1> QED BY <1>1, <1>7, <1>10

LEMMA WithoutCall ==
  ASSUME DOMAIN calls = Slots, NEW s \in Slots, NEW P
  PROVE  Pending(Taken(s), P) = Pending(calls, P) \ {s}
BY DEF Taken, Pending

\* An answer that comes too late, or that is a load's.
LEMMA CallTaken ==
  ASSUME NEW O, NEW X, NEW A, Tracked(O, X, A),
         NEW s \in Slots, calls[s] # None, calls[s].op \notin O \/ ~calls[s].live,
         Through(O, ops, Taken(s))
  PROVE  Awaited(ops', calls') /\ \A P : Pending(calls', P) = Pending(calls, P) \ {s}
<1>1. DOMAIN ops = O /\ \A t \in Slots : Taken(s)[t] = IF t = s THEN None ELSE calls[t]
  BY DEF Tracked, Hooks, Taken
<1>2. Typed(Taken(s), O, Requests(O, X, A))
  BY <1>1 DEF Tracked, Typed, Pending
<1>3. Awaited(ops, Taken(s))
  <2> SUFFICES ASSUME NEW q \in DOMAIN ops, ops[q].flying
               PROVE  \E t \in Slots : Taken(s)[t] # None /\ Taken(s)[t].op = q /\ Taken(s)[t].live
    BY DEF Awaited
  <2>1. PICK t \in Slots : calls[t] # None /\ calls[t].op = q /\ calls[t].live
    BY DEF Tracked, Awaited
  <2>2. t # s
    BY <1>1, <2>1
  <2> QED BY <1>1, <2>1, <2>2
<1>4. Awaited(ops', calls') /\ \A P : Pending(calls', P) = Pending(Taken(s), P)
  BY <1>1, <1>2, <1>3, ThroughCommit DEF Tracked
<1> QED BY <1>4, WithoutCall DEF Tracked

\* The answer that settles a write; its screen may load again.
LEMMA WriteSettled ==
  ASSUME NEW O, NEW X, NEW A, Tracked(O, X, A),
         NEW s \in Slots, calls[s] # None, calls[s].op \in O, NEW answer \in Answers,
         NEW c, SameWrites(c, Taken(s), O), Through(O, Settled(calls[s].op, answer), c)
  PROVE  /\ Awaited(ops', calls')
         /\ \A P : Pending(calls', P) = Pending(c, P)
         /\ \A P \in SUBSET O : Pending(calls', P) = Pending(calls, P) \ {s}
<1> DEFINE op == calls[s].op
           o == Settled(op, answer)
<1>1. \A t \in Slots : Taken(s)[t] = IF t = s THEN None ELSE calls[t]
  BY DEF Tracked, Taken
<1>2. Typed(c, O, Requests(O, X, A))
  <2>1. Typed(Taken(s), O, Requests(O, X, A))
    BY <1>1 DEF Tracked, Typed, Pending
  <2> QED BY <2>1, SameTyped
<1>3. ops \in Hooks(O, A) /\ DOMAIN ops = O
  BY DEF Tracked, Hooks
<1>4. DOMAIN o = O /\ ~o[op].flying /\ \A q \in O \ {op} : o[q] = ops[q]
  <2>1. DOMAIN o = O
    BY <1>3 DEF Settled
  <2> QED BY <1>3, <2>1, SettledBesides
<1> HIDE DEF o
<1>5. Awaited(o, Taken(s))
  <2> SUFFICES ASSUME NEW q \in O, o[q].flying
               PROVE  \E t \in Slots : Taken(s)[t] # None /\ Taken(s)[t].op = q /\ Taken(s)[t].live
    BY <1>4 DEF Awaited
  <2>1. q # op /\ ops[q].flying
    BY <1>4
  <2>2. PICK t \in Slots : calls[t] # None /\ calls[t].op = q /\ calls[t].live
    BY <1>3, <2>1 DEF Tracked, Awaited
  <2> QED BY <1>1, <2>1, <2>2
<1>6. Awaited(o, c)
  BY <1>4, <1>5, SameAwaited
<1>7. Awaited(ops', calls') /\ \A P : Pending(calls', P) = Pending(c, P)
  BY <1>2, <1>4, <1>6, ThroughCommit DEF Tracked, o
<1>8. \A P \in SUBSET O : Pending(c, P) = Pending(Taken(s), P)
  BY SamePending
<1> QED BY <1>7, <1>8, WithoutCall DEF Tracked

\* A load takes the place of the last one, or a free slot, and of no write.
LEMMA LoadingSame ==
  ASSUME NEW c, NEW op, NEW about, NEW O, op \notin O,
         \E s \in Slots : c[s] = None \/ c[s].op = op
  PROVE  SameWrites(Loading(c, op, about), c, O)
<1> DEFINE left == Superseded(c, op)
           f == FreeSlot(left)
           call == Request(op, about, None)
<1>1. \A s \in Slots : left[s] = IF c[s] # None /\ c[s].op = op THEN None ELSE c[s]
  BY DEF Superseded
<1>2. \E s \in Slots : left[s] = None
  BY <1>1
<1>3. f \in Slots /\ left[f] = None
  BY <1>2 DEF FreeSlot
<1>4. DOMAIN left = Slots
  BY DEF Superseded
<1>5. Loading(c, op, about) = [left EXCEPT ![f] = call] /\ call.op = op
  BY DEF Loading, Made, Request
<1> HIDE DEF left, f, call
<1>6. \A s \in Slots : Loading(c, op, about)[s] = IF s = f THEN call ELSE left[s]
  BY <1>3, <1>4, <1>5
<1> QED BY <1>1, <1>3, <1>5, <1>6 DEF SameWrites, Pending

LEMMA SupersededSame ==
  ASSUME NEW c, NEW op, NEW O, op \notin O
  PROVE  SameWrites(Superseded(c, op), c, O)
BY DEF SameWrites, Pending, Superseded

\* Where a load may be made.
LEMMA MayLoadSame ==
  ASSUME NEW op, NEW about, NEW O, op \notin O, MayLoad(op) \/ HasSlot
  PROVE  SameWrites(Loading(calls, op, about), calls, O)
BY LoadingSame DEF MayLoad, HasSlot, InFlight

LEMMA ReloadSame ==
  ASSUME DOMAIN calls = Slots, NEW s \in Slots, NEW op, NEW about, NEW O, op \notin O
  PROVE  SameWrites(Loading(Taken(s), op, about), Taken(s), O)
<1>1. Taken(s)[s] = None
  BY DEF Taken
<1> QED BY <1>1, LoadingSame

LEMMA SameSelf ==
  ASSUME NEW c, NEW O
  PROVE  SameWrites(c, c, O)
BY DEF SameWrites

LEMMA AskedRequests ==
  ASSUME NEW O, NEW X, NEW N,
         None \notin [op : O, about : X, args : [names : N, asked : N], live : BOOLEAN]
  PROVE  None \notin Requests(O, X, AskedFor(N))
<1>1. AskedFor(N) \subseteq [names : N, asked : N]
  BY DEF AskedFor
<1> DEFINE A == AskedFor(N)
           B == [names : N, asked : N]
<1> HIDE DEF A, B
<1>2. Requests(O, X, A) \subseteq [op : O, about : X, args : B, live : BOOLEAN]
  BY <1>1 DEF Requests, A, B
<1> QED BY <1>2 DEF A, B

LEMMA NarrowRequests ==
  ASSUME NEW O, NEW X, NEW A, NEW P \in SUBSET O, NEW Y \in SUBSET X, NEW B \in SUBSET A,
         None \notin Requests(O, X, A)
  PROVE  None \notin Requests(P, Y, B)
BY DEF Requests

(* One contact *)

LEMMA DetailTracked ==
  ASSUME DetailInv, Awaited(ops, calls)
  PROVE  Tracked(DetailWrites, Targets, DetailArgs)
<1>1. None \notin Requests(DetailWrites, Targets, DetailArgs)
  <2> DEFINE N == {{t} : t \in Targets \cup {None}}
             M == {{t} : t \in Targets}
  <2>1. None \notin Requests({"note", "delete", "save"}, Targets \cup {None}, AskedFor(N))
    BY RequestsAssumption, AskedRequests
  <2>2. AskedFor(M) \subseteq AskedFor(N)
    BY DEF AskedFor
  <2> HIDE DEF N, M
  <2> QED BY <2>1, <2>2, NarrowRequests DEF DetailWrites, DetailArgs, M
<1>2. Typed(calls, DetailWrites, Requests(DetailWrites, Targets, DetailArgs))
  BY DEF DetailInv, Typed, Pending, Flights, DetailCalls, Asking, Writing, Late, Requests,
         DetailWrites, DetailProps
<1>3. DOMAIN calls = Slots /\ ops \in Hooks(DetailWrites, DetailArgs)
  BY DEF DetailInv, Flights
<1> QED BY <1>1, <1>2, <1>3 DEF Tracked

LEMMA DetailThrough ==
  ASSUME NEW p, NEW v, NEW o, NEW c, DetailCommit(p, v, o, c)
  PROVE  Through(DetailWrites, o, c)
<1> DEFINE before == DetailScopes(props)
           after == DetailScopes(p)
<1>1. ops' = Rescoped(before, after, o) /\ calls' = Retired(before, after, c)
  BY DEF DetailCommit, Commit
<1>2. DOMAIN before = DetailWrites
  BY DEF DetailScopes, DetailWrites
<1> QED BY <1>1, <1>2 DEF Through

LEMMA DetailAwaits ==
  ASSUME DetailInv, Awaited(ops, calls), DetailNext
  PROVE  Awaited(ops', calls')
<1>l. Tracked(DetailWrites, Targets, DetailArgs)
  BY DetailTracked
<1>t. props.target \in Targets /\ ops \in Hooks(DetailWrites, DetailArgs) /\ "load" \notin DetailWrites
  BY DEF DetailInv, DetailProps, DetailWrites
<1>a. ASSUME NEW p, NEW v, DetailCommit(p, v, ops, calls)
      PROVE  Awaited(ops', calls')
  BY <1>a, <1>l, DetailThrough, SameSelf, LeftAlone
<1>b. ASSUME NEW p, NEW v, NEW x, MayLoad("load") \/ HasSlot,
             DetailCommit(p, v, ops, Loading(calls, "load", x))
      PROVE  Awaited(ops', calls')
  BY <1>b, <1>l, <1>t, DetailThrough, MayLoadSame, LeftAlone
<1>c. ASSUME NEW v, NEW op \in DetailWrites, NEW args \in DetailArgs, HasSlot,
             DetailCommit(props, v, Attempted(op, args), Made(calls, Request(op, props.target, args)))
      PROVE  Awaited(ops', calls')
  <2> DEFINE about == props.target
  <2>1. Through(DetailWrites, Attempted(op, args), Made(calls, Request(op, about, args)))
    BY <1>c, DetailThrough
  <2>2. about \in Targets
    BY <1>t
  <2> HIDE DEF about
  <2> QED BY <1>c, <1>l, <2>1, <2>2, WriteMade
<1>1. CASE DetailRetarget
  BY <1>1, <1>b DEF DetailRetarget
<1>2. CASE DetailRegrant
  BY <1>2, <1>a DEF DetailRegrant
<1>3. CASE DetailRetryLoad
  BY <1>3, <1>b DEF DetailRetryLoad
<1>4. CASE TypeNote \/ AskDelete \/ CancelDelete
  BY <1>4, <1>a DEF TypeNote, AskDelete, CancelDelete
<1>5. CASE addNote
  <2>1. view.contact = props.target /\ view.draft = props.target
    BY <1>5 DEF addNote, Visible, DetailInv
  <2>2. [names |-> {view.contact}, asked |-> {view.draft}] \in DetailArgs
    BY <1>t, <2>1 DEF DetailArgs, AskedFor
  <2> QED BY <1>5, <1>c, <2>2 DEF addNote, DetailWrites
<1>6. CASE removeContact
  <2>1. view.contact = props.target /\ view.confirm = props.target
    BY <1>6 DEF removeContact, Visible, DetailInv
  <2>2. [names |-> {view.contact}, asked |-> {view.confirm}] \in DetailArgs
    BY <1>t, <2>1 DEF DetailArgs, AskedFor
  <2> QED BY <1>6, <1>c, <2>2 DEF removeContact, DetailWrites
<1>7. ASSUME NEW op \in DetailWrites, DetailRetry(op)
      PROVE  Awaited(ops', calls')
  <2>1. ops[op].last \in DetailArgs
    BY <1>7, <1>t DEF DetailRetry, MayRetry, Hooks
  <2> QED BY <1>7, <1>c, <2>1 DEF DetailRetry
<1>8. ASSUME NEW s \in Slots, NEW answer \in Answers, DetailLoaded(s, answer)
      PROVE  Awaited(ops', calls')
  <2>1. Through(DetailWrites, ops, Taken(s))
    BY <1>8, DetailThrough DEF DetailLoaded
  <2> QED BY <1>8, <1>l, <1>t, <2>1, CallTaken DEF DetailLoaded
<1>9. ASSUME NEW s \in Slots, NEW answer \in Answers, DetailAnswered(s, answer)
      PROVE  Awaited(ops', calls')
  <2>1. CASE ~calls[s].live
    <3>1. Through(DetailWrites, ops, Taken(s))
      BY <1>9, <2>1, DetailThrough DEF DetailAnswered
    <3> QED BY <1>9, <1>l, <2>1, <3>1, CallTaken DEF DetailAnswered
  <2>2. CASE calls[s].live
    <3>1. Through(DetailWrites, Settled(calls[s].op, answer), Taken(s))
      BY <1>9, <2>2, DetailThrough DEF DetailAnswered
    <3>2. calls[s].op \in DetailWrites /\ calls[s] # None
      BY <1>9 DEF DetailAnswered, DetailWrites
    <3> QED BY <1>l, <3>1, <3>2, SameSelf, WriteSettled
  <2> QED BY <2>1, <2>2
<1> QED BY <1>1, <1>2, <1>3, <1>4, <1>5, <1>6, <1>7, <1>8, <1>9 DEF DetailNext, DetailWrites

(* The form *)

LEMMA FormTracked ==
  ASSUME FormInv, Awaited(ops, calls)
  PROVE  Tracked({"save"}, FormTargets, FormArgs)
<1>1. None \notin Requests({"save"}, FormTargets, FormArgs)
  <2> DEFINE N == {{t} : t \in Targets \cup {None}}
  <2>1. None \notin Requests({"note", "delete", "save"}, Targets \cup {None}, AskedFor(N))
    BY RequestsAssumption, AskedRequests
  <2>2. FormArgs = AskedFor(N) /\ FormTargets = Targets \cup {None}
    BY DEF FormArgs, FormTargets
  <2> HIDE DEF N
  <2> QED BY <2>1, <2>2, NarrowRequests
<1>2. Typed(calls, {"save"}, Requests({"save"}, FormTargets, FormArgs))
  BY DEF FormInv, Typed, Pending, Flights, FormCalls, Asking, Writing, Late, Requests, FormProps
<1>3. DOMAIN calls = Slots /\ ops \in Hooks({"save"}, FormArgs)
  BY DEF FormInv, Flights
<1> QED BY <1>1, <1>2, <1>3 DEF Tracked

LEMMA FormThrough ==
  ASSUME NEW p, NEW v, NEW o, NEW c, FormCommit(p, v, o, c)
  PROVE  Through({"save"}, o, c)
<1> DEFINE before == FormScopes(props)
           after == FormScopes(p)
<1>1. ops' = Rescoped(before, after, o) /\ calls' = Retired(before, after, c)
  BY DEF FormCommit, Commit
<1>2. DOMAIN before = {"save"}
  BY DEF FormScopes
<1> QED BY <1>1, <1>2 DEF Through

LEMMA FormAwaits ==
  ASSUME FormInv, Awaited(ops, calls), FormNext
  PROVE  Awaited(ops', calls')
<1>l. Tracked({"save"}, FormTargets, FormArgs)
  BY FormTracked
<1>t. props.target \in FormTargets /\ ops \in Hooks({"save"}, FormArgs)
  BY DEF FormInv, FormProps
<1>a. ASSUME NEW p, NEW v, NEW c, SameWrites(c, calls, {"save"}), FormCommit(p, v, ops, c)
      PROVE  Awaited(ops', calls')
  BY <1>a, <1>l, FormThrough, LeftAlone
<1>b. ASSUME NEW v, NEW args \in FormArgs, HasSlot,
             FormCommit(props, v, Attempted("save", args), Made(calls, Request("save", props.target, args)))
      PROVE  Awaited(ops', calls')
  <2> DEFINE about == props.target
  <2>1. Through({"save"}, Attempted("save", args), Made(calls, Request("save", about, args)))
    BY <1>b, FormThrough
  <2>2. about \in FormTargets
    BY <1>t
  <2> HIDE DEF about
  <2> QED BY <1>b, <1>l, <2>1, <2>2, WriteMade
<1>s. SameWrites(calls, calls, {"save"})
  BY SameSelf
<1>1. CASE FormRetarget
  <2>1. PICK p, v, c : /\ FormCommit(p, v, ops, c)
                       /\ \/ c = Superseded(calls, "load")
                          \/ \E t : MayLoad("load") /\ c = Loading(calls, "load", t)
    BY <1>1 DEF FormRetarget
  <2>2. SameWrites(c, calls, {"save"})
    BY <2>1, SupersededSame, MayLoadSame
  <2> QED BY <1>a, <2>1, <2>2
<1>2. CASE FormRegrant
  BY <1>2, <1>a, <1>s DEF FormRegrant
<1>3. CASE FormRetryLoad
  <2>1. SameWrites(Loading(calls, "load", props.target), calls, {"save"})
    BY <1>3, MayLoadSame DEF FormRetryLoad
  <2> QED BY <1>3, <1>a, <2>1 DEF FormRetryLoad
<1>4. CASE EditField
  BY <1>4, <1>a, <1>s DEF EditField
<1>5. CASE submit
  <2>1. CASE ~view.input.valid
    BY <1>5, <1>a, <1>s, <2>1 DEF submit
  <2>2. CASE view.input.valid
    <3>1. view.input.of = props.target
      BY <1>5 DEF submit, Ready, FormInv
    <3>2. [names |-> {props.target}, asked |-> {view.input.of}] \in FormArgs
      BY <1>t, <3>1 DEF FormArgs, AskedFor
    <3> QED BY <1>5, <1>b, <2>2, <3>2 DEF submit
  <2> QED BY <2>1, <2>2
<1>6. CASE FormRetry
  <2>1. ops["save"].last \in FormArgs
    BY <1>6, <1>t DEF FormRetry, MayRetry, Hooks
  <2> QED BY <1>6, <1>b, <2>1 DEF FormRetry
<1>7. ASSUME NEW s \in Slots, NEW answer \in Answers, FormLoaded(s, answer)
      PROVE  Awaited(ops', calls')
  <2>1. Through({"save"}, ops, Taken(s))
    BY <1>7, FormThrough DEF FormLoaded
  <2> QED BY <1>7, <1>l, <2>1, CallTaken DEF FormLoaded
<1>8. ASSUME NEW s \in Slots, NEW answer \in Answers, FormAnswered(s, answer)
      PROVE  Awaited(ops', calls')
  <2>1. CASE ~calls[s].live
    <3>1. Through({"save"}, ops, Taken(s))
      BY <1>8, <2>1, FormThrough DEF FormAnswered
    <3> QED BY <1>8, <1>l, <2>1, <3>1, CallTaken DEF FormAnswered
  <2>2. CASE calls[s].live
    <3>1. Through({"save"}, Settled(calls[s].op, answer), Taken(s))
      BY <1>8, <2>2, FormThrough DEF FormAnswered
    <3>2. calls[s].op \in {"save"} /\ calls[s] # None
      BY <1>8 DEF FormAnswered
    <3> QED BY <1>l, <3>1, <3>2, SameSelf, WriteSettled
  <2> QED BY <2>1, <2>2
<1> QED BY <1>1, <1>2, <1>3, <1>4, <1>5, <1>6, <1>7, <1>8 DEF FormNext

\* A lock of the operations P: held while the one call of them is in flight.
Holds(lock, c, P) ==
  IF lock THEN \E s \in Slots : Pending(c, P) = {s} ELSE Pending(c, P) = {}

(* One campaign *)

CampaignHeld == Awaited(ops, calls) /\ Holds(view.locked, calls, {"write"})

LEMMA CampaignTracked ==
  ASSUME CampaignInv, Awaited(ops, calls)
  PROVE  Tracked({"write"}, Targets, CampaignArgs)
<1>1. None \notin Requests({"write"}, Targets, CampaignArgs)
  <2> DEFINE N == Targets \X CampaignActions
  <2>1. None \notin [op : {"write"}, about : Targets, args : [names : N, asked : N], live : BOOLEAN]
    BY RequestsAssumption DEF CampaignActions
  <2> HIDE DEF N
  <2> QED BY <2>1, AskedRequests DEF CampaignArgs, N
<1>2. Typed(calls, {"write"}, Requests({"write"}, Targets, CampaignArgs))
  BY DEF CampaignInv, Typed, Pending, Flights, CampaignCalls, Asking, Writing, Late, Requests,
         CampaignProps
<1>3. DOMAIN calls = Slots /\ ops \in Hooks({"write"}, CampaignArgs)
  BY DEF CampaignInv, Flights
<1> QED BY <1>1, <1>2, <1>3 DEF Tracked

LEMMA CampaignThrough ==
  ASSUME NEW p, NEW v, NEW o, NEW c, CampaignCommit(p, v, o, c)
  PROVE  /\ Through({"write"}, o, c)
         /\ "locked" \in DOMAIN v => view'.locked = v.locked
<1> DEFINE same == p.target = props.target /\ ("remove" \in p.can <=> "remove" \in props.can)
           confirm == IF same THEN v.confirm ELSE None
           kept == [v EXCEPT !.confirm = confirm]
           before == CampaignScopes(view, props)
           after == CampaignScopes(kept, p)
<1>1. view' = kept /\ ops' = Rescoped(before, after, o) /\ calls' = Retired(before, after, c)
  BY DEF CampaignCommit, Commit
<1>2. DOMAIN before = {"write"}
  BY DEF CampaignScopes
<1>3. "locked" \in DOMAIN v => kept.locked = v.locked
  OBVIOUS
<1> HIDE DEF confirm, kept, before, after
<1> QED BY <1>1, <1>2, <1>3 DEF Through

LEMMA CampaignHolds ==
  ASSUME CampaignInv, CampaignHeld, CampaignNext
  PROVE  CampaignHeld'
<1> DEFINE W == {"write"}
<1>l. Tracked(W, Targets, CampaignArgs) /\ Holds(view.locked, calls, W)
  BY CampaignTracked DEF CampaignHeld
<1>t. /\ props.target \in Targets /\ view \in CampaignFields /\ "locked" \in DOMAIN view
      /\ view.confirm \in {None, props.target} /\ ops \in Hooks(W, CampaignArgs) /\ "load" \notin W
  BY DEF CampaignInv, CampaignProps, CampaignFields
<1>a. ASSUME NEW p, NEW v, "locked" \in DOMAIN v, v.locked = view.locked,
             NEW c, SameWrites(c, calls, W), CampaignCommit(p, v, ops, c)
      PROVE  CampaignHeld'
  <2>1. Through(W, ops, c) /\ view'.locked = view.locked
    BY <1>a, CampaignThrough
  <2> HIDE DEF W
  <2>2. Awaited(ops', calls') /\ Pending(calls', W) = Pending(calls, W)
    BY <1>a, <1>l, <2>1, LeftAlone
  <2> QED BY <1>l, <2>1, <2>2 DEF CampaignHeld, Holds, W
<1>b. ASSUME NEW v, "locked" \in DOMAIN v, NEW args \in CampaignArgs, RunWrite(v, args)
      PROVE  CampaignHeld'
  <2> DEFINE about == props.target
             w == [v EXCEPT !.locked = TRUE]
  <2>1. "locked" \in DOMAIN w /\ w.locked = TRUE
    BY <1>b
  <2>2. /\ CampaignCommit(props, w, Attempted("write", args), Made(calls, Request("write", about, args)))
        /\ ~view.locked /\ HasSlot
    BY <1>b DEF RunWrite
  <2> HIDE DEF w
  <2>3. Through(W, Attempted("write", args), Made(calls, Request("write", about, args)))
        /\ view'.locked = TRUE
    BY <2>1, <2>2, CampaignThrough
  <2>4. about \in Targets /\ "write" \in W
    BY <1>t
  <2> HIDE DEF about, W
  <2>5. PICK f \in Slots :
          /\ Awaited(ops', calls')
          /\ \A P : Pending(calls', P) = IF "write" \in P THEN Pending(calls, P) \cup {f}
                                                          ELSE Pending(calls, P)
    BY <1>b, <1>l, <2>2, <2>3, <2>4, WriteMade
  <2>6. Pending(calls', W) = {f}
    BY <1>l, <2>2, <2>4, <2>5 DEF Holds
  <2> QED BY <2>3, <2>5, <2>6 DEF CampaignHeld, Holds, W
<1>s. SameWrites(calls, calls, W)
  BY SameSelf
<1>1. CASE CampaignRetarget
  <2>1. PICK u : /\ CampaignCommit([props EXCEPT !.target = u], CampaignEmptied(view), ops,
                                   Loading(calls, "load", u))
                 /\ MayLoad("load")
    BY <1>1 DEF CampaignRetarget
  <2>2. SameWrites(Loading(calls, "load", u), calls, W)
    BY <1>t, <2>1, MayLoadSame
  <2>3. "locked" \in DOMAIN CampaignEmptied(view) /\ CampaignEmptied(view).locked = view.locked
    BY <1>t DEF CampaignEmptied
  <2> QED BY <1>a, <2>1, <2>2, <2>3
<1>2. CASE CampaignRegrant
  BY <1>2, <1>a, <1>s, <1>t DEF CampaignRegrant
<1>3. CASE CampaignRetryLoad
  <2>1. CampaignCommit(props, CampaignEmptied(view), ops, Loading(calls, "load", props.target)) /\ HasSlot
    BY <1>3 DEF CampaignRetryLoad
  <2>2. SameWrites(Loading(calls, "load", props.target), calls, W)
    BY <1>t, <2>1, MayLoadSame
  <2>3. "locked" \in DOMAIN CampaignEmptied(view) /\ CampaignEmptied(view).locked = view.locked
    BY <1>t DEF CampaignEmptied
  <2> QED BY <1>a, <2>1, <2>2, <2>3
<1>4. CASE transition
  <2>1. PICK action \in actionsFor(view.campaign.status) :
          RunWrite(view, [names |-> <<view.campaign.id, action>>, asked |-> <<props.target, action>>])
    BY <1>4 DEF transition
  <2> DEFINE args == [names |-> <<view.campaign.id, action>>, asked |-> <<props.target, action>>]
  <2>2. action \in CampaignActions
    BY <2>1, ActionsOffered
  <2>3. view.campaign.id = props.target
    BY <1>4 DEF transition, CampaignVisible
  <2>4. args \in CampaignArgs
    BY <1>t, <2>2, <2>3 DEF CampaignArgs, AskedFor
  <2> HIDE DEF args
  <2> QED BY <1>b, <1>t, <2>1, <2>4 DEF args
<1>5. CASE AskDeleteCampaign
  <2>1. PICK confirm : CampaignCommit(props, [view EXCEPT !.confirm = confirm], ops, calls)
    BY <1>5 DEF AskDeleteCampaign
  <2> DEFINE v == [view EXCEPT !.confirm = confirm]
  <2>2. "locked" \in DOMAIN v /\ v.locked = view.locked
    BY <1>t
  <2> HIDE DEF v
  <2> QED BY <1>a, <1>s, <2>1, <2>2 DEF v
<1>6. CASE deleteCampaign
  <2> DEFINE v == [view EXCEPT !.confirm = None]
             args == [names |-> <<view.campaign.id, "delete">>, asked |-> <<view.confirm, "delete">>]
  <2>1. "locked" \in DOMAIN v
    BY <1>t
  <2>2. view.campaign.id = props.target /\ view.confirm = props.target
    BY <1>6, <1>t DEF deleteCampaign, CampaignVisible
  <2>3. args \in CampaignArgs
    <3>1. <<props.target, "delete">> \in Targets \X CampaignActions
      BY <1>t DEF CampaignActions
    <3> QED BY <2>2, <3>1 DEF CampaignArgs, AskedFor
  <2>4. RunWrite(v, args)
    BY <1>6 DEF deleteCampaign
  <2> HIDE DEF v, args
  <2> QED BY <1>b, <2>1, <2>3, <2>4
<1>7. CASE CampaignRetry
  <2>1. ops["write"].last \in CampaignArgs
    BY <1>7, <1>t DEF CampaignRetry, MayRetry, Hooks
  <2> QED BY <1>7, <1>b, <1>t, <2>1 DEF CampaignRetry
<1>8. ASSUME NEW s \in Slots, NEW answer \in Answers, CampaignLoaded(s, answer)
      PROVE  CampaignHeld'
  <2>1. PICK v : CampaignCommit(props, v, ops, Taken(s)) /\ "locked" \in DOMAIN v /\ v.locked = view.locked
    <3>1. CASE answer = "ok"
      <4>1. \E x : CampaignCommit(props, [view EXCEPT !.campaign = x], ops, Taken(s))
        BY <1>8, <3>1 DEF CampaignLoaded
      <4>2. \A x : "locked" \in DOMAIN [view EXCEPT !.campaign = x]
                   /\ [view EXCEPT !.campaign = x].locked = view.locked
        BY <1>t
      <4> QED BY <4>1, <4>2
    <3>2. CASE answer # "ok"
      BY <1>8, <1>t, <3>2 DEF CampaignLoaded
    <3> QED BY <3>1, <3>2
  <2>2. Through(W, ops, Taken(s)) /\ view'.locked = view.locked
    BY <2>1, CampaignThrough
  <2>3. calls[s] # None /\ calls[s].op \notin W
    BY <1>8 DEF CampaignLoaded
  <2> HIDE DEF W
  <2>4. Awaited(ops', calls') /\ Pending(calls', W) = Pending(calls, W) \ {s}
    BY <1>l, <2>2, <2>3, CallTaken
  <2>5. s \notin Pending(calls, W)
    BY <2>3 DEF Pending
  <2> QED BY <1>l, <2>2, <2>4, <2>5 DEF CampaignHeld, Holds, W
<1>9. ASSUME NEW s \in Slots, NEW answer \in Answers, CampaignAnswered(s, answer)
      PROVE  CampaignHeld'
  <2>1. PICK v, o : /\ CampaignCommit(props, v, o, Taken(s))
                    /\ "locked" \in DOMAIN v /\ v.locked = FALSE
                    /\ o = IF calls[s].live THEN Settled("write", answer) ELSE ops
    <3> DEFINE w == [view EXCEPT !.locked = FALSE]
    <3>1. "locked" \in DOMAIN w /\ w.locked = FALSE
      BY <1>t
    <3>2. CASE ~calls[s].live
      <4>1. CampaignCommit(props, w, ops, Taken(s))
        BY <1>9, <3>2 DEF CampaignAnswered
      <4> HIDE DEF w
      <4> QED BY <3>1, <3>2, <4>1
    <3>3. CASE calls[s].live
      <4>1. \/ CampaignCommit(props, w, Settled("write", answer), Taken(s))
            \/ \E x : CampaignCommit(props, [w EXCEPT !.campaign = x], Settled("write", answer), Taken(s))
        BY <1>9, <3>3 DEF CampaignAnswered
      <4> HIDE DEF w
      <4>2. \A x : "locked" \in DOMAIN [w EXCEPT !.campaign = x] /\ [w EXCEPT !.campaign = x].locked = FALSE
        BY <3>1
      <4> QED BY <3>1, <3>3, <4>1, <4>2
    <3> QED BY <3>2, <3>3
  <2>2. Through(W, o, Taken(s)) /\ view'.locked = FALSE
    BY <2>1, CampaignThrough
  <2>3. calls[s] # None /\ calls[s].op = "write" /\ calls[s].op \in W
    BY <1>9 DEF CampaignAnswered
  <2>4. SameWrites(Taken(s), Taken(s), W)
    BY SameSelf
  <2> HIDE DEF W
  <2>5. Awaited(ops', calls') /\ Pending(calls', W) = Pending(calls, W) \ {s}
    <3>1. CASE ~calls[s].live
      BY <1>l, <2>1, <2>2, <2>3, <3>1, CallTaken
    <3>2. CASE calls[s].live
      BY <1>l, <2>1, <2>2, <2>3, <2>4, <3>2, WriteSettled
    <3> QED BY <3>1, <3>2
  <2>6. s \in Pending(calls, W)
    BY <2>3 DEF Pending
  <2> QED BY <1>l, <2>2, <2>5, <2>6 DEF CampaignHeld, Holds, W
<1> QED BY <1>1, <1>2, <1>3, <1>4, <1>5, <1>6, <1>7, <1>8, <1>9 DEF CampaignNext

(* The suppressions *)

SuppressionHeld == Awaited(ops, calls) /\ Holds(view.locked, calls, Mutations)

LEMMA SuppressionTracked ==
  ASSUME SuppressionInv, Awaited(ops, calls)
  PROVE  Tracked(Mutations, Inputs, SuppressionArgs)
<1>1. None \notin Requests(Mutations, Inputs, SuppressionArgs)
  <2>1. None \notin [op : Mutations, about : Inputs, args : [names : Inputs, asked : Inputs],
                     live : BOOLEAN]
    BY RequestsAssumption DEF Inputs, Mutations, Listed
  <2> QED BY <2>1, AskedRequests DEF SuppressionArgs
<1>2. Typed(calls, Mutations, Requests(Mutations, Inputs, SuppressionArgs))
  <2> SUFFICES ASSUME NEW s \in Slots, calls[s] # None, calls[s].op \in Mutations
               PROVE  calls[s] \in Requests(Mutations, Inputs, SuppressionArgs)
    BY DEF Typed, Pending
  <2>1. calls[s] \in SuppressionCalls(view.query, view)
    BY DEF SuppressionInv, Flights
  <2>2. calls[s] \notin Asking("load", view.query)
    BY RowsAssumption DEF Asking, Mutations
  <2>3. CASE calls[s] \in SuppressionLive(view)
    BY <2>3 DEF SuppressionLive, Requests
  <2>4. CASE calls[s] \in Late(Mutations, Inputs, SuppressionArgs)
    BY <2>4 DEF Late, Requests
  <2> QED BY <2>1, <2>2, <2>3, <2>4 DEF SuppressionCalls
<1>3. DOMAIN calls = Slots /\ ops \in Hooks(Mutations, SuppressionArgs)
  BY DEF SuppressionInv, Flights
<1> QED BY <1>1, <1>2, <1>3 DEF Tracked

LEMMA SuppressionThrough ==
  ASSUME NEW p, NEW v, NEW o, NEW c, SuppressionCommit(p, v, o, c)
  PROVE  /\ Through(Mutations, o, c)
         /\ "locked" \in DOMAIN v => view'.locked = v.locked
<1> DEFINE selected == IF v.query = view.query THEN v.selected ELSE {}
           kept == [v EXCEPT !.selected = selected]
           before == SuppressionScopes(view, props)
           after == SuppressionScopes(kept, p)
<1>1. view' = kept /\ ops' = Rescoped(before, after, o) /\ calls' = Retired(before, after, c)
  BY DEF SuppressionCommit, Commit
<1>2. DOMAIN before = Mutations
  BY DEF SuppressionScopes, Mutations
<1>3. "locked" \in DOMAIN v => kept.locked = v.locked
  OBVIOUS
<1> HIDE DEF selected, kept, before, after
<1> QED BY <1>1, <1>2, <1>3 DEF Through

LEMMA SuppressionHolds ==
  ASSUME SuppressionInv, SuppressionHeld, SuppressionNext
  PROVE  SuppressionHeld'
<1> DEFINE W == Mutations
<1>l. Tracked(W, Inputs, SuppressionArgs) /\ Holds(view.locked, calls, W)
  BY SuppressionTracked DEF SuppressionHeld
<1>t. /\ view \in SuppressionFields /\ "locked" \in DOMAIN view
      /\ ops \in Hooks(W, SuppressionArgs) /\ "load" \notin W
  BY RowsAssumption DEF SuppressionInv, SuppressionFields, Mutations
<1> HIDE DEF W
<1>a. ASSUME NEW p, NEW v, "locked" \in DOMAIN v, v.locked = view.locked,
             NEW c, SameWrites(c, calls, W), SuppressionCommit(p, v, ops, c)
      PROVE  SuppressionHeld'
  <2>1. Through(W, ops, c) /\ view'.locked = view.locked
    BY <1>a, SuppressionThrough DEF W
  <2>2. Awaited(ops', calls') /\ Pending(calls', W) = Pending(calls, W)
    BY <1>a, <1>l, <2>1, LeftAlone
  <2> QED BY <1>l, <2>1, <2>2 DEF SuppressionHeld, Holds, W
<1>b. ASSUME NEW op \in Mutations, op \in Rows => RowMounted(view, op),
             NEW args \in SuppressionArgs, RunMutation(op, view, args)
      PROVE  SuppressionHeld'
  <2> DEFINE about == SuppressionAbout(op, view)
             w == [view EXCEPT !.locked = TRUE]
  <2>1. "locked" \in DOMAIN w /\ w.locked = TRUE
    BY <1>t
  <2>2. /\ SuppressionCommit(props, w, Attempted(op, args), Made(calls, Request(op, about, args)))
        /\ ~view.locked /\ HasSlot
    BY <1>b DEF RunMutation, Attempted
  <2>3. about \in Inputs
    BY <1>b, <1>t, MutationInputs
  <2> HIDE DEF about, w
  <2>4. Through(W, Attempted(op, args), Made(calls, Request(op, about, args))) /\ view'.locked = TRUE
    BY <2>1, <2>2, SuppressionThrough DEF W
  <2>5. PICK f \in Slots :
          /\ Awaited(ops', calls')
          /\ \A P : Pending(calls', P) = IF op \in P THEN Pending(calls, P) \cup {f}
                                                     ELSE Pending(calls, P)
    BY <1>b, <1>l, <2>2, <2>3, <2>4, WriteMade DEF W
  <2>6. Pending(calls', W) = {f}
    BY <1>b, <1>l, <2>2, <2>5 DEF Holds, W
  <2> QED BY <2>4, <2>5, <2>6 DEF SuppressionHeld, Holds, W
<1>s. SameWrites(calls, calls, W)
  BY SameSelf
<1>g. \A q : HasSlot \/ MayLoad("load") => SameWrites(Loading(calls, "load", q), calls, W)
  BY <1>t, MayLoadSame
<1>f. \A v : "locked" \in DOMAIN v =>
               "locked" \in DOMAIN Refetching(v) /\ Refetching(v).locked = v.locked
  BY DEF Refetching
<1>1. CASE SuppressionQuery
  <2>1. PICK q : /\ SuppressionCommit(props, [Refetching(view) EXCEPT !.query = q], ops,
                                      Loading(calls, "load", q))
                 /\ MayLoad("load")
    BY <1>1 DEF SuppressionQuery
  <2> DEFINE v == [Refetching(view) EXCEPT !.query = q]
  <2>2. "locked" \in DOMAIN v /\ v.locked = view.locked
    BY <1>f, <1>t
  <2> HIDE DEF v
  <2> QED BY <1>a, <1>g, <2>1, <2>2 DEF v
<1>2. CASE SuppressionRetryLoad
  BY <1>2, <1>a, <1>f, <1>g, <1>t DEF SuppressionRetryLoad
<1>3. CASE select
  <2>1. PICK v, c : SuppressionCommit(props, v, ops, c)
                    /\ "locked" \in DOMAIN v /\ v.locked = view.locked /\ SameWrites(c, calls, W)
    <3>1. PICK r \in DOMAIN view.page :
            LET checked == ChannelOf[r] = view.channel /\ ContactOf[r] \in view.selected
                v == IF checked THEN [view EXCEPT !.selected = @ \ {ContactOf[r]}] ELSE Chosen(view, r)
            IN  IF v.channel = view.channel
                THEN SuppressionCommit(props, v, ops, calls)
                ELSE MayLoad("load") /\ SuppressionCommit(props, Refetching(v), ops,
                                                  Loading(calls, "load", v.query))
      BY <1>3 DEF select
    <3> DEFINE checked == ChannelOf[r] = view.channel /\ ContactOf[r] \in view.selected
               v == IF checked THEN [view EXCEPT !.selected = @ \ {ContactOf[r]}] ELSE Chosen(view, r)
    <3>2. "locked" \in DOMAIN v /\ v.locked = view.locked
      BY <1>t DEF Chosen
    <3>3. \/ SuppressionCommit(props, v, ops, calls)
          \/ MayLoad("load") /\ SuppressionCommit(props, Refetching(v), ops, Loading(calls, "load", v.query))
      BY <3>1
    <3> HIDE DEF v
    <3> QED BY <1>f, <1>g, <1>s, <3>2, <3>3
  <2> QED BY <1>a, <2>1
<1>4. CASE SetBulkForm
  <2>1. ASSUME SuppressionCommit(props, [view EXCEPT !.suppress = ~@], ops, calls)
        PROVE  SuppressionHeld'
    <3> DEFINE v == [view EXCEPT !.suppress = ~@]
    <3>1. "locked" \in DOMAIN v /\ v.locked = view.locked
      BY <1>t
    <3> HIDE DEF v
    <3> QED BY <1>a, <1>s, <2>1, <3>1 DEF v
  <2>2. ASSUME NEW ch, MayLoad("load"),
               SuppressionCommit(props, [Refetching(view) EXCEPT !.channel = ch, !.selected = {}],
                                 ops, Loading(calls, "load", view.query))
        PROVE  SuppressionHeld'
    <3> DEFINE v == [Refetching(view) EXCEPT !.channel = ch, !.selected = {}]
    <3>1. "locked" \in DOMAIN v /\ v.locked = view.locked
      BY <1>f, <1>t
    <3> HIDE DEF v
    <3> QED BY <1>a, <1>g, <2>2, <3>1 DEF v
  <2> QED BY <1>4, <2>1, <2>2 DEF SetBulkForm
<1>5. CASE EditReason
  <2>1. PICK r : SuppressionCommit(props, [view EXCEPT !.edited = @ \cup {r}], ops, calls)
    BY <1>5 DEF EditReason
  <2> DEFINE v == [view EXCEPT !.edited = @ \cup {r}]
  <2>2. "locked" \in DOMAIN v /\ v.locked = view.locked
    BY <1>t
  <2> HIDE DEF v
  <2> QED BY <1>a, <1>s, <2>1, <2>2 DEF v
<1>6. CASE bulkSet
  <2>1. [names |-> BulkInput(view), asked |-> BulkInput(view)] \in SuppressionArgs
    BY <1>t, BulkInputs DEF SuppressionArgs, AskedFor
  <2>2. "bulk" \in Mutations /\ "bulk" \notin Rows
    BY RowsAssumption DEF Mutations
  <2> QED BY <1>6, <1>b, <2>1, <2>2 DEF bulkSet
<1>7. CASE setSuppression
  <2>1. PICK r \in DOMAIN view.page :
          RunMutation(r, view, [names |-> RowInput(view, r), asked |-> RowInput(view, r)])
    BY <1>7 DEF setSuppression
  <2>2. RowMounted(view, r)
    BY <1>7 DEF setSuppression, RowMounted
  <2>3. r \in Rows /\ RowInput(view, r) \in Inputs
    BY <1>t, <2>2, RowInputs
  <2>4. [names |-> RowInput(view, r), asked |-> RowInput(view, r)] \in SuppressionArgs
    BY <2>3 DEF SuppressionArgs, AskedFor
  <2> QED BY <1>b, <2>1, <2>2, <2>3, <2>4 DEF Mutations
<1>8. CASE SuppressionRegrant
  BY <1>8, <1>a, <1>s, <1>t DEF SuppressionRegrant
<1>9. ASSUME NEW op \in Mutations, SuppressionRetry(op)
      PROVE  SuppressionHeld'
  <2>1. ops[op].last \in SuppressionArgs
    BY <1>9, <1>t DEF SuppressionRetry, MayRetry, Hooks, W
  <2>2. op \in Rows => RowMounted(view, op)
    BY <1>9, RowsAssumption DEF SuppressionRetry
  <2> QED BY <1>9, <1>b, <2>1, <2>2 DEF SuppressionRetry
<1>10. ASSUME NEW s \in Slots, NEW answer \in Answers, SuppressionLoaded(s, answer)
       PROVE  SuppressionHeld'
  <2>1. PICK v : SuppressionCommit(props, v, ops, Taken(s)) /\ "locked" \in DOMAIN v /\ v.locked = view.locked
    <3>1. CASE answer = "ok"
      <4> DEFINE shown(page, still) == [view EXCEPT !.loading = FALSE, !.page = page,
                                                    !.edited = {}, !.selected = still]
      <4>1. \E page, still : SuppressionCommit(props, shown(page, still), ops, Taken(s))
        BY <1>10, <3>1 DEF SuppressionLoaded
      <4>2. \A page, still : "locked" \in DOMAIN shown(page, still)
                             /\ shown(page, still).locked = view.locked
        BY <1>t
      <4> HIDE DEF shown
      <4> QED BY <4>1, <4>2
    <3>2. CASE answer # "ok"
      <4> DEFINE failed == [view EXCEPT !.loading = FALSE, !.page = None,
                                        !.failed = safeAdapterCall(answer)]
      <4>1. SuppressionCommit(props, failed, ops, Taken(s))
        BY <1>10, <3>2 DEF SuppressionLoaded
      <4>2. "locked" \in DOMAIN failed /\ failed.locked = view.locked
        BY <1>t
      <4> HIDE DEF failed
      <4> QED BY <4>1, <4>2
    <3> QED BY <3>1, <3>2
  <2>2. Through(W, ops, Taken(s)) /\ view'.locked = view.locked
    BY <2>1, SuppressionThrough DEF W
  <2>3. calls[s] # None /\ calls[s].op \notin W
    BY <1>10, <1>t DEF SuppressionLoaded
  <2>4. Awaited(ops', calls') /\ Pending(calls', W) = Pending(calls, W) \ {s}
    BY <1>l, <2>2, <2>3, CallTaken
  <2>5. s \notin Pending(calls, W)
    BY <2>3 DEF Pending
  <2> QED BY <1>l, <2>2, <2>4, <2>5 DEF SuppressionHeld, Holds, W
<1>11. ASSUME NEW s \in Slots, NEW answer \in Answers, SuppressionAnswered(s, answer)
       PROVE  SuppressionHeld'
  <2> DEFINE op == calls[s].op
             v == [view EXCEPT !.locked = FALSE]
             done == IF op = "bulk" THEN [v EXCEPT !.selected = {}] ELSE v
             again == Loading(Taken(s), "load", view.query)
  <2>1. "locked" \in DOMAIN v /\ v.locked = FALSE
    BY <1>t
  <2>2. /\ ~calls[s].live => SuppressionCommit(props, v, ops, Taken(s))
        /\ calls[s].live =>
             \/ SuppressionCommit(props, v, Settled(op, answer), Taken(s))
             \/ SuppressionCommit(props, Refetching(done), Settled(op, answer), again)
    BY <1>11 DEF SuppressionAnswered
  <2>3. calls[s] # None /\ op \in W
    BY <1>11, SuppressionCall DEF SuppressionAnswered, W
  <2> HIDE DEF v
  <2>4. "locked" \in DOMAIN done /\ done.locked = FALSE
    BY <2>1
  <2>5. SameWrites(Taken(s), Taken(s), W) /\ SameWrites(again, Taken(s), W)
    BY <1>l, <1>t, SameSelf, ReloadSame DEF Tracked
  <2> HIDE DEF done, again
  <2>6. /\ Awaited(ops', calls') /\ Pending(calls', W) = Pending(calls, W) \ {s}
        /\ view'.locked = FALSE
    <3>1. CASE ~calls[s].live
      <4>1. Through(W, ops, Taken(s)) /\ view'.locked = FALSE
        BY <2>1, <2>2, <3>1, SuppressionThrough DEF W
      <4> QED BY <1>l, <2>3, <3>1, <4>1, CallTaken
    <3>2. CASE calls[s].live
      <4>1. PICK c : /\ Through(W, Settled(op, answer), c) /\ view'.locked = FALSE
                     /\ SameWrites(c, Taken(s), W)
        <5>1. "locked" \in DOMAIN Refetching(done) /\ Refetching(done).locked = FALSE
          BY <1>f, <2>4
        <5> QED BY <2>1, <2>2, <2>5, <3>2, <5>1, SuppressionThrough DEF W
      <4> QED BY <1>l, <2>3, <4>1, WriteSettled
    <3> QED BY <3>1, <3>2
  <2>7. s \in Pending(calls, W)
    BY <2>3 DEF Pending
  <2> QED BY <1>l, <2>6, <2>7 DEF SuppressionHeld, Holds, W
<1> QED BY <1>1, <1>2, <1>3, <1>4, <1>5, <1>6, <1>7, <1>8, <1>9, <1>10, <1>11
        DEF SuppressionNext, Mutations

(* The list of lists *)

\* Of each of the writes W the lock is held while its one call is in flight.
LocksHeld(locks, c, W) ==
  \A op \in W : /\ op \in locks => \E s \in Slots : Pending(c, {op}) = {s}
                /\ op \notin locks => Pending(c, {op}) = {}

LEMMA LocksLeft ==
  ASSUME NEW W, NEW locks, LocksHeld(locks, calls, W),
         \A P \in SUBSET W : Pending(calls', P) = Pending(calls, P)
  PROVE  LocksHeld(locks, calls', W)
<1>1. \A op \in W : {op} \in SUBSET W
  OBVIOUS
<1> QED BY <1>1 DEF LocksHeld

LEMMA LockTaken ==
  ASSUME NEW W, NEW locks, LocksHeld(locks, calls, W), NEW op \in W, op \notin locks,
         NEW f \in Slots,
         \A P : Pending(calls', P) = IF op \in P THEN Pending(calls, P) \cup {f} ELSE Pending(calls, P)
  PROVE  LocksHeld(locks \cup {op}, calls', W)
<1>1. Pending(calls', {op}) = {f}
  <2>1. Pending(calls, {op}) = {} /\ op \in {op}
    BY DEF LocksHeld
  <2> QED BY <2>1
<1>2. \A q \in W \ {op} : Pending(calls', {q}) = Pending(calls, {q})
  OBVIOUS
<1> QED BY <1>1, <1>2 DEF LocksHeld

LEMMA LockFreed ==
  ASSUME NEW W, NEW locks, LocksHeld(locks, calls, W), NEW s \in Slots, calls[s] # None,
         \A P \in SUBSET W : Pending(calls', P) = Pending(calls, P) \ {s}
  PROVE  /\ calls[s].op \in W => LocksHeld(locks \ {calls[s].op}, calls', W)
         /\ calls[s].op \notin W => LocksHeld(locks, calls', W)
<1>1. \A q \in W : Pending(calls', {q}) = Pending(calls, {q}) \ {s}
  OBVIOUS
<1>2. \A q : s \in Pending(calls, {q}) <=> q = calls[s].op
  BY DEF Pending
<1> DEFINE op == calls[s].op
<1>3. ASSUME NEW q \in W, q # op
      PROVE  Pending(calls', {q}) = Pending(calls, {q})
  <2>1. s \notin Pending(calls, {q})
    BY <1>2, <1>3
  <2> QED BY <1>1, <2>1
<1>4. ASSUME op \in W
      PROVE  Pending(calls', {op}) = {}
  <2>1. Pending(calls', {op}) = Pending(calls, {op}) \ {s}
    BY <1>1, <1>4
  <2>2. s \in Pending(calls, {op})
    BY <1>2
  <2>3. Pending(calls, {op}) = {s}
    BY <1>4, <2>2 DEF LocksHeld
  <2> QED BY <2>1, <2>3
<1> HIDE DEF op
<1> QED BY <1>3, <1>4 DEF LocksHeld, op

ListsHeld == Awaited(ops, calls) /\ LocksHeld(view.locks, calls, ListsWrites)

LEMMA ListsTracked ==
  ASSUME ListsInv, Awaited(ops, calls)
  PROVE  Tracked(ListsWrites, ListsAbouts, ListsArgs)
<1>1. None \notin Requests(ListsWrites, ListsAbouts, ListsArgs)
  <2> DEFINE N == {{l} : l \in Lists \cup {None}}
             B == [names : N, asked : N, reload : ListQueries]
  <2>1. None \notin [op : ListsWrites, about : ListsAbouts, args : B, live : BOOLEAN]
    BY RequestsAssumption DEF ListsWrites, ListsAbouts, Edited
  <2>2. ListsArgs \subseteq B
    BY DEF ListsArgs
  <2> HIDE DEF N, B
  <2> QED BY <2>1, <2>2 DEF Requests
<1>2. Typed(calls, ListsWrites, Requests(ListsWrites, ListsAbouts, ListsArgs))
  <2> SUFFICES ASSUME NEW s \in Slots, calls[s] # None, calls[s].op \in ListsWrites
               PROVE  calls[s] \in Requests(ListsWrites, ListsAbouts, ListsArgs)
    BY DEF Typed, Pending
  <2>1. calls[s] \in ListsCalls(view.asked, view.named, view.editing, view.deleting)
    BY DEF ListsInv, Flights
  <2>2. calls[s] \notin Asking("load", view.asked)
    BY DEF Asking, ListsWrites
  <2>3. CASE calls[s] \in ListsLive(view.named, view.editing, view.deleting)
    <3>1. {view.named, view.editing, view.deleting} \subseteq ListsAbouts
      BY DEF ListsInv, ListsFields, ListsAbouts
    <3> QED BY <2>3, <3>1 DEF ListsLive, Writing, Requests, ListsWrites
  <2>4. CASE calls[s] \in Late(ListsWrites, ListsAbouts, ListsArgs)
    BY <2>4 DEF Late, Requests
  <2> QED BY <2>1, <2>2, <2>3, <2>4 DEF ListsCalls
<1>3. DOMAIN calls = Slots /\ ops \in Hooks(ListsWrites, ListsArgs)
  BY DEF ListsInv, Flights
<1> QED BY <1>1, <1>2, <1>3 DEF Tracked

LEMMA ListsThrough ==
  ASSUME NEW p, NEW v, NEW o, NEW c, ListsCommit(p, v, o, c)
  PROVE  /\ Through(ListsWrites, o, c)
         /\ "locks" \in DOMAIN v => view'.locks = v.locks
<1> DEFINE gone == "remove" \notin p.can \/ v.query # view.query
           editing == IF "update" \in p.can THEN v.editing ELSE None
           deleting == IF gone THEN None ELSE v.deleting
           confirm == IF gone THEN None ELSE v.confirm
           kept == [v EXCEPT !.editing = editing, !.deleting = deleting, !.confirm = confirm,
                             !.locks = v.locks]
           before == ListScopes(view, props)
           after == ListScopes(kept, p)
<1>1. view' = kept /\ ops' = Rescoped(before, after, o) /\ calls' = Retired(before, after, c)
  BY DEF ListsCommit, Commit, LocksKept
<1>2. DOMAIN before = ListsWrites
  BY DEF ListScopes, ListsWrites
<1>3. "locks" \in DOMAIN v => kept.locks = v.locks
  OBVIOUS
<1> HIDE DEF kept, before, after
<1> QED BY <1>1, <1>2, <1>3 DEF Through

LEMMA ListsHolds ==
  ASSUME ListsInv, ListsHeld, ListsNext
  PROVE  ListsHeld'
<1> DEFINE W == ListsWrites
<1>l. Tracked(W, ListsAbouts, ListsArgs) /\ LocksHeld(view.locks, calls, W)
  BY ListsTracked DEF ListsHeld
<1>t. /\ view \in ListsFields /\ "locks" \in DOMAIN view /\ DialogFollows(view)
      /\ ops \in Hooks(W, ListsArgs) /\ "load" \notin W
  BY DEF ListsInv, ListsFields, ListsWrites
<1> HIDE DEF W
<1>a. ASSUME NEW p, NEW v, "locks" \in DOMAIN v, v.locks = view.locks,
             NEW c, SameWrites(c, calls, W), ListsCommit(p, v, ops, c)
      PROVE  ListsHeld'
  <2>1. Through(W, ops, c) /\ view'.locks = view.locks
    BY <1>a, ListsThrough DEF W
  <2>2. Awaited(ops', calls') /\ \A P \in SUBSET W : Pending(calls', P) = Pending(calls, P)
    BY <1>a, <1>l, <2>1, LeftAlone
  <2>3. LocksHeld(view.locks, calls', W)
    BY <1>l, <2>2, LocksLeft
  <2> QED BY <2>1, <2>2, <2>3 DEF ListsHeld, W
<1>b. ASSUME NEW op \in ListsWrites, NEW v, "locks" \in DOMAIN v, v.locks = view.locks,
             NEW args \in ListsArgs, ListWrite(op, v, args)
      PROVE  ListsHeld'
  <2> DEFINE about == ListsAbout(op, view)
             w == Lock(v, op)
  <2>1. "locks" \in DOMAIN w /\ w.locks = view.locks \cup {op}
    BY <1>b DEF Lock
  <2>2. /\ ListsCommit(props, w, Attempted(op, args), Made(calls, Request(op, about, args)))
        /\ op \notin view.locks /\ HasSlot
    BY <1>b DEF ListWrite, Locked
  <2>3. about \in ListsAbouts
    <3>1. {view.named, view.editing, view.deleting} \subseteq ListsAbouts
      BY <1>t DEF ListsFields, ListsAbouts
    <3> QED BY <1>b, <3>1 DEF ListsAbout, ListsWrites
  <2> HIDE DEF about, w
  <2>4. Through(W, Attempted(op, args), Made(calls, Request(op, about, args)))
        /\ view'.locks = view.locks \cup {op}
    BY <2>1, <2>2, ListsThrough DEF W
  <2>5. PICK f \in Slots :
          /\ Awaited(ops', calls')
          /\ \A P : Pending(calls', P) = IF op \in P THEN Pending(calls, P) \cup {f}
                                                     ELSE Pending(calls, P)
    BY <1>b, <1>l, <2>2, <2>3, <2>4, WriteMade DEF W
  <2>6. LocksHeld(view.locks \cup {op}, calls', W)
    BY <1>b, <1>l, <2>2, <2>5, LockTaken DEF W
  <2> QED BY <2>4, <2>5, <2>6 DEF ListsHeld, W
<1>s. SameWrites(calls, calls, W)
  BY SameSelf
<1>g. \A q : HasSlot \/ MayLoad("load") => SameWrites(Loading(calls, "load", q), calls, W)
  BY <1>t, MayLoadSame
<1>f. \A v, q : "locks" \in DOMAIN v =>
                 "locks" \in DOMAIN Fetching(v, q) /\ Fetching(v, q).locks = v.locks
  BY DEF Fetching
<1>1. CASE ListsQuery
  <2>1. PICK q : /\ ListsCommit(props, [Fetching(view, q) EXCEPT !.query = q], ops, Loading(calls, "load", q))
                 /\ MayLoad("load")
    BY <1>1 DEF ListsQuery
  <2> DEFINE v == [Fetching(view, q) EXCEPT !.query = q]
  <2>2. "locks" \in DOMAIN v /\ v.locks = view.locks
    BY <1>f, <1>t
  <2> HIDE DEF v
  <2> QED BY <1>a, <1>g, <2>1, <2>2 DEF v
<1>2. CASE ListsRetryLoad
  BY <1>2, <1>a, <1>f, <1>g, <1>t DEF ListsRetryLoad
<1>3. CASE NameDraft
  <2> DEFINE v == [view EXCEPT !.named = ~@]
  <2>1. "locks" \in DOMAIN v /\ v.locks = view.locks
    BY <1>t
  <2>2. ListsCommit(props, v, ops, calls)
    BY <1>3 DEF NameDraft
  <2> HIDE DEF v
  <2> QED BY <1>a, <1>s, <2>1, <2>2
<1>4. CASE EditList
  <2>1. PICK e : ListsCommit(props, [view EXCEPT !.editing = e], ops, calls)
    BY <1>4 DEF EditList
  <2> DEFINE v == [view EXCEPT !.editing = e]
  <2>2. "locks" \in DOMAIN v /\ v.locks = view.locks
    BY <1>t
  <2> HIDE DEF v
  <2> QED BY <1>a, <1>s, <2>1, <2>2 DEF v
<1>5. CASE AskDeleteList
  <2>1. PICK l : ListsCommit(props, [view EXCEPT !.deleting = l, !.confirm = l], ops, calls)
    BY <1>5 DEF AskDeleteList
  <2> DEFINE v == [view EXCEPT !.deleting = l, !.confirm = l]
  <2>2. "locks" \in DOMAIN v /\ v.locks = view.locks
    BY <1>t
  <2> HIDE DEF v
  <2> QED BY <1>a, <1>s, <2>1, <2>2 DEF v
<1>6. CASE CancelDeleteList
  <2> DEFINE v == [view EXCEPT !.deleting = None, !.confirm = None]
  <2>1. "locks" \in DOMAIN v /\ v.locks = view.locks
    BY <1>t
  <2>2. ListsCommit(props, v, ops, calls)
    BY <1>6 DEF CancelDeleteList
  <2> HIDE DEF v
  <2> QED BY <1>a, <1>s, <2>1, <2>2
<1>7. CASE createList
  <2>1. Submission({None}, {None}) \in ListsArgs
    BY <1>t, Submitting
  <2>2. ListWrite("create", view, Submission({None}, {None}))
    BY <1>7 DEF createList
  <2> QED BY <1>b, <1>t, <2>1, <2>2 DEF ListsWrites
<1>8. CASE updateList
  <2>1. view.editing.id \in Lists
    BY <1>8, <1>t DEF updateList, ListsFields, Edited
  <2>2. Submission({view.editing.id}, {view.editing.id}) \in ListsArgs
    BY <1>t, <2>1, Submitting
  <2>3. ListWrite("edit", view, Submission({view.editing.id}, {view.editing.id}))
    BY <1>8 DEF updateList
  <2> QED BY <1>b, <1>t, <2>2, <2>3 DEF ListsWrites
<1>9. CASE removeList
  <2> DEFINE v == [view EXCEPT !.confirm = None]
             args == Submission({view.deleting}, {view.confirm})
  <2>1. "locks" \in DOMAIN v /\ v.locks = view.locks
    BY <1>t
  <2>2. view.deleting \in Lists /\ view.confirm = view.deleting
    BY <1>9, <1>t DEF removeList, ListsFields, DialogFollows
  <2>3. args \in ListsArgs
    BY <1>t, <2>2, Submitting
  <2>4. ListWrite("delete", v, args)
    BY <1>9 DEF removeList
  <2> HIDE DEF v, args
  <2> QED BY <1>b, <2>1, <2>3, <2>4 DEF ListsWrites
<1>10. ASSUME NEW op \in ListsWrites, retryList(op)
       PROVE  ListsHeld'
  <2>1. ops[op].last \in ListsArgs
    BY <1>10, <1>t DEF retryList, MayRetry, Hooks, W
  <2> QED BY <1>10, <1>b, <1>t, <2>1 DEF retryList
<1>11. CASE ListsRegrant
  BY <1>11, <1>a, <1>s, <1>t DEF ListsRegrant
<1>12. ASSUME NEW s \in Slots, NEW answer \in Answers, ListsLoaded(s, answer)
       PROVE  ListsHeld'
  <2>1. PICK v : ListsCommit(props, v, ops, Taken(s)) /\ "locks" \in DOMAIN v /\ v.locks = view.locks
    <3> DEFINE shown(page) == [view EXCEPT !.loading = FALSE, !.page = page]
               failed == [view EXCEPT !.loading = FALSE, !.page = None,
                                      !.failed = safeAdapterCall(answer)]
    <3>1. (\E page : ListsCommit(props, shown(page), ops, Taken(s)))
          \/ ListsCommit(props, failed, ops, Taken(s))
      BY <1>12 DEF ListsLoaded
    <3>2. "locks" \in DOMAIN failed /\ failed.locks = view.locks
      BY <1>t
    <3>3. \A page : "locks" \in DOMAIN shown(page) /\ shown(page).locks = view.locks
      BY <1>t
    <3> HIDE DEF shown, failed
    <3> QED BY <3>1, <3>2, <3>3
  <2>2. Through(W, ops, Taken(s)) /\ view'.locks = view.locks
    BY <2>1, ListsThrough DEF W
  <2>3. calls[s] # None /\ calls[s].op \notin W
    BY <1>12, <1>t DEF ListsLoaded
  <2>4. Awaited(ops', calls') /\ \A P \in SUBSET W : Pending(calls', P) = Pending(calls, P) \ {s}
    BY <1>l, <2>2, <2>3, CallTaken
  <2>5. LocksHeld(view.locks, calls', W)
    BY <1>l, <2>3, <2>4, LockFreed
  <2> QED BY <2>2, <2>4, <2>5 DEF ListsHeld, W
<1>13. ASSUME NEW s \in Slots, NEW answer \in Answers, ListAnswered(s, answer)
       PROVE  ListsHeld'
  <2> DEFINE op == calls[s].op
             v == Unlock(view, op)
             done == CASE op = "create" -> [v EXCEPT !.named = FALSE]
                       [] op = "edit"   -> [v EXCEPT !.editing = None]
                       [] op = "delete" -> [v EXCEPT !.deleting = None]
             q == calls[s].args.reload
             again == Loading(Taken(s), "load", q)
             left == view.locks \ {op}
  <2>1. "locks" \in DOMAIN v /\ v.locks = left
    BY <1>t DEF Unlock
  <2>2. /\ ~calls[s].live => ListsCommit(props, v, ops, Taken(s))
        /\ calls[s].live =>
             \/ ListsCommit(props, v, Settled(op, answer), Taken(s))
             \/ ListsCommit(props, Fetching(done, q), Settled(op, answer), again)
    BY <1>13 DEF ListAnswered
  <2>3. calls[s] # None /\ op \in W
    BY <1>13 DEF ListAnswered, W, ListsWrites
  <2> HIDE DEF v, left
  <2>4. "locks" \in DOMAIN done /\ done.locks = left
    BY <2>1, <2>3 DEF W, ListsWrites
  <2>5. SameWrites(Taken(s), Taken(s), W) /\ SameWrites(again, Taken(s), W)
    BY <1>l, <1>t, SameSelf, ReloadSame DEF Tracked
  <2> HIDE DEF done, again, q
  <2>6. /\ Awaited(ops', calls') /\ \A P \in SUBSET W : Pending(calls', P) = Pending(calls, P) \ {s}
        /\ view'.locks = left
    <3>1. CASE ~calls[s].live
      <4>1. Through(W, ops, Taken(s)) /\ view'.locks = left
        BY <2>1, <2>2, <3>1, ListsThrough DEF W
      <4> QED BY <1>l, <2>3, <3>1, <4>1, CallTaken
    <3>2. CASE calls[s].live
      <4>1. PICK c : /\ Through(W, Settled(op, answer), c) /\ view'.locks = left
                     /\ SameWrites(c, Taken(s), W)
        <5>1. "locks" \in DOMAIN Fetching(done, q) /\ Fetching(done, q).locks = left
          BY <1>f, <2>4
        <5> QED BY <2>1, <2>2, <2>5, <3>2, <5>1, ListsThrough DEF W
      <4> QED BY <1>l, <2>3, <4>1, WriteSettled
    <3> QED BY <3>1, <3>2
  <2>7. LocksHeld(left, calls', W)
    BY <1>l, <2>3, <2>6, LockFreed DEF left
  <2> QED BY <2>6, <2>7 DEF ListsHeld, W
<1> QED BY <1>1, <1>2, <1>3, <1>4, <1>5, <1>6, <1>7, <1>8, <1>9, <1>10, <1>11, <1>12, <1>13
        DEF ListsNext, ListsWrites

(* One list *)

\* Of the searches, only the last one is let in.
LoneSearch(c) == \A s, t \in Pending(c, {"search"}) : s = t

ListHeld ==
  /\ Awaited(ops, calls)
  /\ LocksHeld(view.locks, calls, MembersWrites)
  /\ LoneSearch(calls)

LEMMA SearchAlone ==
  ASSUME NEW c, NEW about
  PROVE  LoneSearch(SearchFrom(c, about))
<1> DEFINE left == Superseded(c, "search")
           f == FreeSlot(left)
           call == Request("search", about, None)
<1>1. \A s \in Slots : left[s] = None \/ left[s].op # "search"
  BY DEF Superseded
<1>2. DOMAIN left = Slots
  BY DEF Superseded
<1>3. SearchFrom(c, about) = [left EXCEPT ![f] = call]
  BY DEF SearchFrom, Loading, Made
<1> HIDE DEF left, f, call
<1>4. \A s \in Slots : s # f => SearchFrom(c, about)[s] = left[s]
  BY <1>2, <1>3
<1> QED BY <1>1, <1>4 DEF LoneSearch, Pending

\* The load of another list and its search have a slot each.
LEMMA BothLoad ==
  ASSUME MayLoadBoth, LoneSearch(calls), NEW t, NEW u, NEW O, "load" \notin O, "search" \notin O
  PROVE  SameWrites(SearchFrom(Loading(calls, "load", t), u), calls, O)
<1> DEFINE free == {s \in Slots : calls[s] = None \/ calls[s].op \in {"load", "search"}}
           left == Superseded(calls, "load")
           f == FreeSlot(left)
           c == Loading(calls, "load", t)
<1>1. PICK a \in free, b \in free : a # b
  <2>1. Cardinality(free) > 1
    BY DEF MayLoadBoth
  <2> HIDE DEF free
  <2>2. free # {}
    BY <2>1, FS_EmptySet
  <2>3. PICK x : x \in free
    BY <2>2
  <2>4. free # {x}
    BY <2>1, FS_Singleton
  <2> QED BY <2>3, <2>4
<1>2. \E s \in Slots : calls[s] = None \/ calls[s].op = "load"
  BY <1>1 DEF LoneSearch, Pending
<1>3. SameWrites(c, calls, O)
  BY <1>2, LoadingSame
<1>4. \E s \in Slots : c[s] = None \/ c[s].op = "search"
  <2>1. \A s \in Slots : left[s] = IF calls[s] # None /\ calls[s].op = "load" THEN None ELSE calls[s]
    BY DEF Superseded
  <2>2. DOMAIN left = Slots /\ c = [left EXCEPT ![f] = Request("load", t, None)]
    BY DEF Superseded, Loading, Made
  <2> HIDE DEF left, f, c
  <2>3. \A s \in Slots : s # f => c[s] = left[s]
    BY <2>2
  <2> QED BY <1>1, <2>1, <2>3
<1> HIDE DEF c
<1>5. SameWrites(SearchFrom(c, u), c, O)
  BY <1>4, LoadingSame DEF SearchFrom
<1> QED BY <1>3, <1>5 DEF SameWrites, Pending, c

LEMMA ListTracked ==
  ASSUME ListInv, Awaited(ops, calls)
  PROVE  Tracked(MembersWrites, Choices, MembersArgs)
<1>1. None \notin Requests(MembersWrites, Choices, MembersArgs)
  <2>1. None \notin [op : MembersWrites, about : Choices, args : [names : Choices, asked : Choices],
                     live : BOOLEAN]
    BY RequestsAssumption DEF MembersWrites, Choices
  <2> QED BY <2>1, AskedRequests DEF MembersArgs
<1>2. Typed(calls, MembersWrites, Requests(MembersWrites, Choices, MembersArgs))
  <2> SUFFICES ASSUME NEW s \in Slots, calls[s] # None, calls[s].op \in MembersWrites
               PROVE  calls[s] \in Requests(MembersWrites, Choices, MembersArgs)
    BY DEF Typed, Pending
  <2>1. calls[s] \in MembersCalls(props.target, <<props.target, view.query>>,
                                  props.target, view.toAdd, view.toRemove)
    BY DEF ListInv, Flights
  <2>2. calls[s] \notin Asking("load", props.target) \cup Asking("search", <<props.target, view.query>>)
    BY DEF Asking, MembersWrites
  <2>3. CASE calls[s] \in MembersLive(props.target, view.toAdd, view.toRemove)
    <3>1. {<<props.target, view.toAdd>>, <<props.target, view.toRemove>>} \subseteq Choices
      BY DEF ListInv, ListFields, Choices
    <3> QED BY <2>3, <3>1 DEF MembersLive, Writing, Requests, MembersWrites
  <2>4. CASE calls[s] \in Late(MembersWrites, Choices, MembersArgs)
    BY <2>4 DEF Late, Requests
  <2> QED BY <2>1, <2>2, <2>3, <2>4 DEF MembersCalls
<1>3. DOMAIN calls = Slots /\ ops \in Hooks(MembersWrites, MembersArgs)
  BY DEF ListInv, Flights
<1> QED BY <1>1, <1>2, <1>3 DEF Tracked

LEMMA ListThrough ==
  ASSUME NEW p, NEW v, NEW o, NEW c, MembersCommit(p, v, o, c)
  PROVE  /\ Through(MembersWrites, o, c)
         /\ "locks" \in DOMAIN v => view'.locks = v.locks
<1> DEFINE elsewhere == p.target # props.target
           toAdd == IF elsewhere \/ v.query # view.query THEN {} ELSE v.toAdd
           toRemove == IF elsewhere THEN {} ELSE v.toRemove
           kept == [v EXCEPT !.toAdd = toAdd, !.toRemove = toRemove]
           closed == [kept EXCEPT !.confirm = RemovalKept(kept, p), !.locks = v.locks]
           before == MemberScopes(view, props)
           after == MemberScopes(closed, p)
<1>1. view' = closed /\ ops' = Rescoped(before, after, o) /\ calls' = Retired(before, after, c)
  BY DEF MembersCommit, Commit, LocksKept
<1>2. DOMAIN before = MembersWrites
  BY DEF MemberScopes, MembersWrites
<1>3. "locks" \in DOMAIN v => "locks" \in DOMAIN kept
  OBVIOUS
<1>4. "locks" \in DOMAIN v => closed.locks = v.locks
  <2> HIDE DEF kept
  <2> QED BY <1>3
<1> HIDE DEF closed, before, after
<1> QED BY <1>1, <1>2, <1>4 DEF Through

LEMMA ListHolds ==
  ASSUME ListInv, ListHeld, ListNext
  PROVE  ListHeld'
<1> DEFINE W == MembersWrites
<1>l. Tracked(W, Choices, MembersArgs) /\ LocksHeld(view.locks, calls, W) /\ LoneSearch(calls)
  BY ListTracked DEF ListHeld
<1>t. /\ view \in ListFields /\ "locks" \in DOMAIN view /\ view.confirm \in {None, view.toRemove}
      /\ props.target \in Targets
      /\ ops \in Hooks(W, MembersArgs) /\ "load" \notin W /\ "search" \notin W
  BY DEF ListInv, ListFields, MembersWrites
<1> HIDE DEF W
<1>a. ASSUME NEW p, NEW v, "locks" \in DOMAIN v, v.locks = view.locks,
             NEW c, SameWrites(c, calls, W), LoneSearch(c), MembersCommit(p, v, ops, c)
      PROVE  ListHeld'
  <2>1. Through(W, ops, c) /\ view'.locks = view.locks
    BY <1>a, ListThrough DEF W
  <2>2. /\ Awaited(ops', calls') /\ \A P \in SUBSET W : Pending(calls', P) = Pending(calls, P)
        /\ \A P : Pending(calls', P) = Pending(c, P)
    BY <1>a, <1>l, <2>1, LeftAlone
  <2>3. LocksHeld(view.locks, calls', W)
    BY <1>l, <2>2, LocksLeft
  <2>4. LoneSearch(calls')
    BY <1>a, <2>2 DEF LoneSearch
  <2> QED BY <2>1, <2>2, <2>3, <2>4 DEF ListHeld, W
<1>b. ASSUME NEW op \in MembersWrites, NEW v, "locks" \in DOMAIN v, v.locks = view.locks,
             NEW args \in MembersArgs, MemberWrite(op, v, args)
      PROVE  ListHeld'
  <2> DEFINE about == MembersAbout(op, view)
             w == Lock(v, op)
  <2>1. "locks" \in DOMAIN w /\ w.locks = view.locks \cup {op}
    BY <1>b DEF Lock
  <2>2. /\ MembersCommit(props, w, Attempted(op, args), Made(calls, Request(op, about, args)))
        /\ op \notin view.locks /\ HasSlot
    BY <1>b DEF MemberWrite, Locked
  <2>3. about \in Choices
    <3>1. {<<props.target, view.toAdd>>, <<props.target, view.toRemove>>} \subseteq Choices
      BY <1>t DEF ListFields, Choices
    <3> QED BY <1>b, <3>1 DEF MembersAbout, MembersWrites
  <2> HIDE DEF about, w
  <2>4. Through(W, Attempted(op, args), Made(calls, Request(op, about, args)))
        /\ view'.locks = view.locks \cup {op}
    BY <2>1, <2>2, ListThrough DEF W
  <2>5. PICK f \in Slots :
          /\ Awaited(ops', calls')
          /\ \A P : Pending(calls', P) = IF op \in P THEN Pending(calls, P) \cup {f}
                                                     ELSE Pending(calls, P)
    BY <1>b, <1>l, <2>2, <2>3, <2>4, WriteMade DEF W
  <2>6. LocksHeld(view.locks \cup {op}, calls', W)
    BY <1>b, <1>l, <2>2, <2>5, LockTaken DEF W
  <2>7. LoneSearch(calls')
    <3>1. Pending(calls', {"search"}) = Pending(calls, {"search"})
      BY <1>b, <2>5 DEF MembersWrites
    <3> QED BY <1>l, <3>1 DEF LoneSearch
  <2> QED BY <2>4, <2>5, <2>6, <2>7 DEF ListHeld, W
<1>s. SameWrites(calls, calls, W)
  BY SameSelf
<1>g. ASSUME NEW q, HasSlot \/ MayLoad("load")
      PROVE  SameWrites(Loading(calls, "load", q), calls, W) /\ LoneSearch(Loading(calls, "load", q))
  <2>1. SameWrites(Loading(calls, "load", q), calls, W)
    BY <1>g, <1>t, MayLoadSame
  <2>2. SameWrites(Loading(calls, "load", q), calls, {"search"})
    BY <1>g, MayLoadSame
  <2>3. Pending(Loading(calls, "load", q), {"search"}) = Pending(calls, {"search"})
    BY <2>2, SamePending
  <2> QED BY <1>l, <2>1, <2>3 DEF LoneSearch
<1>h. ASSUME NEW q, HasSlot \/ MayLoad("search")
      PROVE  SameWrites(SearchFrom(calls, q), calls, W) /\ LoneSearch(SearchFrom(calls, q))
  BY <1>h, <1>t, MayLoadSame, SearchAlone DEF SearchFrom
<1>f. \A v : "locks" \in DOMAIN v =>
               /\ "locks" \in DOMAIN LoadingList(v) /\ LoadingList(v).locks = v.locks
               /\ "locks" \in DOMAIN Searching(v) /\ Searching(v).locks = v.locks
  BY DEF LoadingList, Searching
<1>1. CASE ListRetarget
  <2>1. PICK t, u : MembersCommit([props EXCEPT !.target = t], Searching(LoadingList(view)), ops,
                                  SearchFrom(Loading(calls, "load", t), u))
    BY <1>1 DEF ListRetarget
  <2>2. SameWrites(SearchFrom(Loading(calls, "load", t), u), calls, W)
    BY <1>1, <1>l, <1>t, BothLoad DEF ListRetarget
  <2> QED BY <1>a, <1>f, <1>t, <2>1, <2>2, SearchAlone
<1>2. CASE SearchContacts
  <2>1. PICK q : /\ MembersCommit(props, [Searching(view) EXCEPT !.query = q], ops,
                                  SearchFrom(calls, <<props.target, q>>))
                 /\ MayLoad("search")
    BY <1>2 DEF SearchContacts
  <2> DEFINE v == [Searching(view) EXCEPT !.query = q]
  <2>2. "locks" \in DOMAIN v /\ v.locks = view.locks
    BY <1>f, <1>t
  <2> HIDE DEF v
  <2> QED BY <1>a, <1>h, <2>1, <2>2 DEF v
<1>3. CASE ListRetryLoad
  BY <1>3, <1>a, <1>f, <1>g, <1>t DEF ListRetryLoad
<1>4. CASE SearchRetry
  BY <1>4, <1>a, <1>f, <1>h, <1>t DEF SearchRetry
<1>5. CASE ToggleMember
  <2> DEFINE removal(x) == [view EXCEPT !.toRemove = Flipped(@, x)]
             addition(x) == [view EXCEPT !.toAdd = Flipped(@, x)]
  <2>1. \E x : MembersCommit(props, removal(x), ops, calls) \/ MembersCommit(props, addition(x), ops, calls)
    BY <1>5 DEF ToggleMember
  <2>2. \A x : /\ "locks" \in DOMAIN removal(x) /\ removal(x).locks = view.locks
               /\ "locks" \in DOMAIN addition(x) /\ addition(x).locks = view.locks
    BY <1>t
  <2> HIDE DEF removal, addition
  <2> QED BY <1>a, <1>l, <1>s, <2>1, <2>2
<1>6. CASE AskRemoval
  <2> DEFINE v == [view EXCEPT !.confirm = view.toRemove]
  <2>1. "locks" \in DOMAIN v /\ v.locks = view.locks
    BY <1>t
  <2>2. MembersCommit(props, v, ops, calls)
    BY <1>6 DEF AskRemoval
  <2> HIDE DEF v
  <2> QED BY <1>a, <1>l, <1>s, <2>1, <2>2
<1>7. CASE CancelRemoval
  <2> DEFINE v == [view EXCEPT !.confirm = None]
  <2>1. "locks" \in DOMAIN v /\ v.locks = view.locks
    BY <1>t
  <2>2. MembersCommit(props, v, ops, calls)
    BY <1>7 DEF CancelRemoval
  <2> HIDE DEF v
  <2> QED BY <1>a, <1>l, <1>s, <2>1, <2>2
<1>8. CASE addMembers
  <2> DEFINE args == [names |-> <<view.list.id, view.toAdd>>, asked |-> <<props.target, view.toAdd>>]
  <2>1. MemberWrite("add", view, args)
    BY <1>8 DEF addMembers
  <2>2. view.list.id = props.target
    BY <2>1 DEF MemberWrite, ListVisible
  <2>3. <<props.target, view.toAdd>> \in Choices
    BY <1>t DEF ListFields, Choices
  <2>4. args \in MembersArgs
    BY <2>2, <2>3 DEF MembersArgs, AskedFor
  <2> HIDE DEF args
  <2> QED BY <1>b, <1>t, <2>1, <2>4 DEF MembersWrites
<1>9. CASE removeMembers
  <2> DEFINE v == [view EXCEPT !.confirm = None]
             args == [names |-> <<view.list.id, view.toRemove>>,
                      asked |-> <<props.target, view.confirm>>]
  <2>1. "locks" \in DOMAIN v /\ v.locks = view.locks
    BY <1>t
  <2>2. MemberWrite("remove", v, args) /\ view.confirm = view.toRemove
    BY <1>9, <1>t DEF removeMembers
  <2> HIDE DEF v
  <2>3. view.list.id = props.target
    BY <2>2 DEF MemberWrite, ListVisible
  <2>4. <<props.target, view.toRemove>> \in Choices
    BY <1>t DEF ListFields, Choices
  <2>5. args \in MembersArgs
    BY <2>2, <2>3, <2>4 DEF MembersArgs, AskedFor
  <2> HIDE DEF args
  <2> QED BY <1>b, <2>1, <2>2, <2>5 DEF MembersWrites
<1>10. ASSUME NEW op \in MembersWrites, retryMembers(op)
       PROVE  ListHeld'
  <2>1. ops[op].last \in MembersArgs
    BY <1>10, <1>t DEF retryMembers, MayRetry, Hooks, W
  <2> QED BY <1>10, <1>b, <1>t, <2>1 DEF retryMembers
<1>11. CASE ListRegrant
  BY <1>11, <1>a, <1>l, <1>s, <1>t DEF ListRegrant
<1>12. ASSUME NEW s \in Slots, NEW v, calls[s] # None, calls[s].op \in {"load", "search"},
              MembersCommit(props, v, ops, Taken(s)), "locks" \in DOMAIN v, v.locks = view.locks
       PROVE  ListHeld'
  <2>1. Through(W, ops, Taken(s)) /\ view'.locks = view.locks
    BY <1>12, ListThrough DEF W
  <2>2. calls[s].op \notin W
    BY <1>12, <1>t
  <2>3. Awaited(ops', calls') /\ \A P : Pending(calls', P) = Pending(calls, P) \ {s}
    BY <1>12, <1>l, <2>1, <2>2, CallTaken
  <2>4. LocksHeld(view.locks, calls', W)
    BY <1>12, <1>l, <2>2, <2>3, LockFreed
  <2>5. LoneSearch(calls')
    BY <1>l, <2>3 DEF LoneSearch
  <2> QED BY <2>1, <2>3, <2>4, <2>5 DEF ListHeld, W
<1>13. ASSUME NEW s \in Slots, NEW answer \in Answers, ListLoaded(s, answer)
       PROVE  ListHeld'
  <2> DEFINE shown(x) == [view EXCEPT !.list = x]
             failed == [view EXCEPT !.failed = safeAdapterCall(answer)]
  <2>1. (\E x : MembersCommit(props, shown(x), ops, Taken(s)))
        \/ MembersCommit(props, failed, ops, Taken(s))
    BY <1>13 DEF ListLoaded
  <2>2. "locks" \in DOMAIN failed /\ failed.locks = view.locks
    BY <1>t
  <2>3. \A x : "locks" \in DOMAIN shown(x) /\ shown(x).locks = view.locks
    BY <1>t
  <2>4. calls[s] # None /\ calls[s].op \in {"load", "search"}
    BY <1>13 DEF ListLoaded
  <2> HIDE DEF shown, failed
  <2> QED BY <1>12, <2>1, <2>2, <2>3, <2>4
<1>14. ASSUME NEW s \in Slots, NEW answer \in Answers, ContactsFound(s, answer)
       PROVE  ListHeld'
  <2> DEFINE v == IF answer = "ok" THEN [view EXCEPT !.found = Members]
                  ELSE [view EXCEPT !.missed = safeAdapterCall(answer)]
  <2>1. "locks" \in DOMAIN v /\ v.locks = view.locks
    BY <1>t
  <2>2. MembersCommit(props, v, ops, Taken(s)) /\ calls[s] # None /\ calls[s].op \in {"load", "search"}
    BY <1>14 DEF ContactsFound
  <2> HIDE DEF v
  <2> QED BY <1>12, <2>1, <2>2
<1>15. ASSUME NEW s \in Slots, NEW answer \in Answers, MembersAnswered(s, answer)
       PROVE  ListHeld'
  <2> DEFINE op == calls[s].op
             v == Unlock(view, op)
             done == IF op = "add" THEN [v EXCEPT !.toAdd = {}] ELSE [v EXCEPT !.toRemove = {}]
             again == Loading(Taken(s), "load", props.target)
             left == view.locks \ {op}
  <2>1. "locks" \in DOMAIN v /\ v.locks = left
    BY <1>t DEF Unlock
  <2>2. /\ ~calls[s].live => MembersCommit(props, v, ops, Taken(s))
        /\ calls[s].live =>
             \/ MembersCommit(props, v, Settled(op, answer), Taken(s))
             \/ MembersCommit(props, LoadingList(done), Settled(op, answer), again)
    BY <1>15 DEF MembersAnswered
  <2>3. calls[s] # None /\ op \in W /\ DOMAIN calls = Slots
    BY <1>15, <1>l DEF MembersAnswered, W, MembersWrites, Tracked
  <2> HIDE DEF v, left
  <2>4. "locks" \in DOMAIN done /\ done.locks = left
    BY <2>1
  <2>5. SameWrites(Taken(s), Taken(s), W) /\ SameWrites(again, Taken(s), W)
    BY <2>3, <1>t, SameSelf, ReloadSame
  <2>6. LoneSearch(Taken(s)) /\ LoneSearch(again)
    <3>1. Pending(Taken(s), {"search"}) = Pending(calls, {"search"}) \ {s}
      BY <2>3, WithoutCall
    <3>2. SameWrites(again, Taken(s), {"search"})
      BY <2>3, ReloadSame
    <3>3. Pending(again, {"search"}) = Pending(Taken(s), {"search"})
      BY <3>2, SamePending
    <3> QED BY <1>l, <3>1, <3>3 DEF LoneSearch
  <2> HIDE DEF done, again
  <2>7. /\ Awaited(ops', calls') /\ \A P \in SUBSET W : Pending(calls', P) = Pending(calls, P) \ {s}
        /\ view'.locks = left /\ LoneSearch(calls')
    <3>1. CASE ~calls[s].live
      <4>1. Through(W, ops, Taken(s)) /\ view'.locks = left
        BY <2>1, <2>2, <3>1, ListThrough DEF W
      <4>2. Awaited(ops', calls') /\ \A P : Pending(calls', P) = Pending(calls, P) \ {s}
        BY <1>l, <2>3, <3>1, <4>1, CallTaken
      <4> QED BY <1>l, <4>1, <4>2 DEF LoneSearch
    <3>2. CASE calls[s].live
      <4>1. PICK c : /\ Through(W, Settled(op, answer), c) /\ view'.locks = left
                     /\ SameWrites(c, Taken(s), W) /\ LoneSearch(c)
        <5>1. "locks" \in DOMAIN LoadingList(done) /\ LoadingList(done).locks = left
          BY <1>f, <2>4
        <5> QED BY <2>1, <2>2, <2>5, <2>6, <3>2, <5>1, ListThrough DEF W
      <4>2. /\ Awaited(ops', calls') /\ \A P : Pending(calls', P) = Pending(c, P)
            /\ \A P \in SUBSET W : Pending(calls', P) = Pending(calls, P) \ {s}
        BY <1>l, <2>3, <4>1, WriteSettled
      <4> QED BY <4>1, <4>2 DEF LoneSearch
    <3> QED BY <3>1, <3>2
  <2>8. LocksHeld(left, calls', W)
    BY <1>l, <2>3, <2>7, LockFreed DEF left
  <2> QED BY <2>7, <2>8 DEF ListHeld, W
<1> QED BY <1>1, <1>2, <1>3, <1>4, <1>5, <1>6, <1>7, <1>8, <1>9, <1>10, <1>11, <1>13, <1>14, <1>15
        DEF ListNext, MembersWrites

(* The import *)

LEMMA ImportTracked ==
  ASSUME ImportInv, Awaited(ops, calls)
  PROVE  Tracked(ImportOps, ImportAbouts, ImportArgs)
<1>1. None \notin Requests(ImportOps, ImportAbouts, ImportArgs)
  <2> DEFINE N == {{x} : x \in Files \cup Snapshots}
  <2>1. None \notin [op : ImportOps, about : ImportAbouts, args : [names : N, asked : N], live : BOOLEAN]
    BY RequestsAssumption DEF ImportOps, ImportAbouts
  <2> HIDE DEF N
  <2> QED BY <2>1, AskedRequests DEF ImportArgs, N
<1>2. Typed(calls, ImportOps, Requests(ImportOps, ImportAbouts, ImportArgs))
  <2> SUFFICES ASSUME NEW s \in Slots, calls[s] # None
               PROVE  calls[s] \in Requests(ImportOps, ImportAbouts, ImportArgs)
    BY DEF Typed, Pending
  <2>1. {view.picked, OnScreen(view), view.previewed} \subseteq ImportAbouts
    BY OnScreenType DEF ImportInv, ImportFields, ImportAbouts
  <2>2. calls[s] \in ImportCalls(view.picked, OnScreen(view), view.previewed)
    BY DEF ImportInv, Flights
  <2> QED BY <2>1, <2>2 DEF ImportCalls, ImportLive, Writing, Late, Requests, ImportOps
<1>3. DOMAIN calls = Slots /\ ops \in Hooks(ImportOps, ImportArgs)
  BY DEF ImportInv, Flights
<1> QED BY <1>1, <1>2, <1>3 DEF Tracked

LEMMA ImportThrough ==
  ASSUME NEW p, NEW v, NEW o, NEW c,
         Commit(ImportScopes(view, props), ImportScopes(v, p), p, v, o, c)
  PROVE  Through(ImportOps, o, c)
<1> DEFINE before == ImportScopes(view, props)
           after == ImportScopes(v, p)
<1>1. ops' = Rescoped(before, after, o) /\ calls' = Retired(before, after, c)
  BY DEF Commit
<1>2. DOMAIN before = ImportOps
  BY DEF ImportScopes, ImportOps
<1> QED BY <1>1, <1>2 DEF Through

LEMMA ImportAwaits ==
  ASSUME ImportInv, Awaited(ops, calls), ImportNext
  PROVE  Awaited(ops', calls')
<1>l. Tracked(ImportOps, ImportAbouts, ImportArgs)
  BY ImportTracked
<1>t. view \in ImportFields /\ ops \in Hooks(ImportOps, ImportArgs)
  BY DEF ImportInv
<1>a. ASSUME NEW v, ImportCommit(v, ops, calls)
      PROVE  Awaited(ops', calls')
  BY <1>a, <1>l, ImportThrough, SameSelf, LeftAlone DEF ImportCommit
<1>b. ASSUME NEW op \in ImportOps, NEW v, ImportAbout(op, v) \in ImportAbouts,
             NEW args \in ImportArgs, ImportStart(op, v, args)
      PROVE  Awaited(ops', calls')
  <2> DEFINE about == ImportAbout(op, v)
  <2>1. Through(ImportOps, Attempted(op, args), Made(calls, Request(op, about, args))) /\ HasSlot
    BY <1>b, ImportThrough DEF ImportStart, ImportCommit
  <2>2. about \in ImportAbouts
    BY <1>b
  <2> HIDE DEF about
  <2> QED BY <1>b, <1>l, <2>1, <2>2, WriteMade
<1>c. ASSUME NEW s \in Slots, NEW answer \in Answers, calls[s] # None, NEW v,
             \/ ~calls[s].live /\ ImportCommit(v, ops, Taken(s))
             \/ /\ calls[s].live /\ calls[s].op \in ImportOps
                /\ ImportCommit(v, Settled(calls[s].op, answer), Taken(s))
      PROVE  Awaited(ops', calls')
  <2>1. CASE ~calls[s].live
    <3>1. Through(ImportOps, ops, Taken(s))
      BY <1>c, <2>1, ImportThrough DEF ImportCommit
    <3> QED BY <1>c, <1>l, <2>1, <3>1, CallTaken
  <2>2. CASE calls[s].live
    <3>1. Through(ImportOps, Settled(calls[s].op, answer), Taken(s)) /\ calls[s].op \in ImportOps
      BY <1>c, <2>2, ImportThrough DEF ImportCommit
    <3> QED BY <1>c, <1>l, <3>1, SameSelf, WriteSettled
  <2> QED BY <2>1, <2>2
<1>1. CASE parse
  <2> DEFINE v(f) == [view EXCEPT !.parsed = None, !.mapping = Unmapped, !.previewed = None,
                                  !.complete = FALSE, !.picked = f]
             args(f) == [names |-> {f}, asked |-> {f}]
  <2>1. PICK f \in Files : ImportStart("parse", v(f), args(f))
    BY <1>1 DEF parse
  <2>2. v(f).picked = f /\ args(f) \in ImportArgs
    BY <1>t DEF ImportFields, ImportArgs, AskedFor
  <2> HIDE DEF v, args
  <2>3. ImportAbout("parse", v(f)) \in ImportAbouts
    BY <2>2 DEF ImportAbout, ImportAbouts
  <2> QED BY <1>b, <2>1, <2>2, <2>3 DEF ImportOps
<1>2. CASE changeMapping
  BY <1>2, <1>a DEF changeMapping
<1>3. CASE showPreview
  <2> DEFINE x == OnScreen(view)
             args == [names |-> {x}, asked |-> {x}]
  <2>1. x \in Snapshots
    BY <1>3, <1>t, OnScreenType DEF showPreview
  <2>2. args \in ImportArgs /\ ImportAbout("preview", view) \in ImportAbouts
    BY <2>1 DEF ImportArgs, AskedFor, ImportAbout, ImportAbouts
  <2>3. ImportStart("preview", view, args)
    BY <1>3 DEF showPreview
  <2> HIDE DEF args
  <2> QED BY <1>b, <2>2, <2>3 DEF ImportOps
<1>4. CASE commit
  <2> DEFINE x == view.previewed
             v == [view EXCEPT !.retired = @ \cup {x}]
             args == [names |-> {x}, asked |-> {OnScreen(view)}]
  <2>1. x \in Snapshots /\ x = OnScreen(view)
    BY <1>4, <1>t DEF commit, Importable, ImportFields, ImportInv
  <2>2. args \in ImportArgs /\ v.previewed = x
    BY <1>t, <2>1 DEF ImportArgs, AskedFor, ImportFields
  <2>3. ImportStart("commit", v, args)
    BY <1>4 DEF commit
  <2> HIDE DEF args, v
  <2>4. ImportAbout("commit", v) \in ImportAbouts
    BY <2>1, <2>2 DEF ImportAbout, ImportAbouts
  <2> QED BY <1>b, <2>2, <2>3, <2>4 DEF ImportOps
<1>5. CASE ImportRegrant
  BY <1>5, <1>l, ImportThrough, SameSelf, LeftAlone DEF ImportRegrant
<1>6. ASSUME NEW op \in {"parse", "preview"}, ImportRetry(op)
      PROVE  Awaited(ops', calls')
  <2>1. op \in ImportOps /\ ops[op].last \in ImportArgs
    BY <1>6, <1>t DEF ImportRetry, MayRetry, Hooks, ImportOps
  <2>2. ImportAbout(op, view) \in ImportAbouts
    BY <1>6, <1>t, OnScreenType DEF ImportAbout, ImportAbouts, ImportFields
  <2> QED BY <1>6, <1>b, <2>1, <2>2 DEF ImportRetry
<1>7. ASSUME NEW s \in Slots, NEW answer \in Answers, Parsed(s, answer) \/ Previewed(s, answer)
      PROVE  Awaited(ops', calls')
  <2>1. calls[s] # None /\ calls[s].op \in ImportOps
    BY <1>7 DEF Parsed, Previewed, ImportOps
  <2>2. PICK v : \/ ~calls[s].live /\ ImportCommit(v, ops, Taken(s))
                 \/ calls[s].live /\ ImportCommit(v, Settled(calls[s].op, answer), Taken(s))
    BY <1>7 DEF Parsed, Previewed
  <2> QED BY <1>c, <2>1, <2>2
<1>8. ASSUME NEW s \in Slots, NEW answer \in Answers, Committed(s, answer)
      PROVE  Awaited(ops', calls')
  <2>1. calls[s] # None /\ calls[s].op = "commit"
    BY <1>8, Zenon DEF Committed
  <2> QED BY <1>8, <1>c, <2>1, CommittedView DEF ImportOps
<1> QED BY <1>1, <1>2, <1>3, <1>4, <1>5, <1>6, <1>7, <1>8 DEF ImportNext

(* The tables that only load *)

LEMMA BrowseAwaits ==
  ASSUME BrowseInv'
  PROVE  Awaited(ops', calls')
BY DEF BrowseInv, Awaited, Hooks

(* The list of contacts *)

\* A bulk action is pending only while it is offered.
Offered(o, p) ==
  /\ o["tag"].flying => CanTag(p)
  /\ o["delete"].flying => CanDelete(p)

LEMMA ContactsTracked ==
  ASSUME ContactsInv, Awaited(ops, calls)
  PROVE  Tracked(ContactsWrites, SUBSET Contacts, ContactsArgs)
<1>1. None \notin Requests(ContactsWrites, SUBSET Contacts, ContactsArgs)
  <2>1. None \notin [op : ContactsWrites, about : SUBSET Contacts,
                     args : [names : SUBSET Contacts, asked : SUBSET Contacts], live : BOOLEAN]
    BY RequestsAssumption DEF ContactsWrites
  <2> QED BY <2>1, AskedRequests DEF ContactsArgs
<1>2. Typed(calls, ContactsWrites, Requests(ContactsWrites, SUBSET Contacts, ContactsArgs))
  BY DEF ContactsInv, Typed, Pending, Flights, ContactsCalls, Asking, Writing, Late, Requests,
         ContactsWrites, ContactsFields
<1>3. DOMAIN calls = Slots /\ ops \in Hooks(ContactsWrites, ContactsArgs)
  BY DEF ContactsInv, Flights
<1> QED BY <1>1, <1>2, <1>3 DEF Tracked

\* Where the bar stays, no call of it is forgotten; where it goes, no action is
\* offered any more, and none is pending.
LEMMA ContactsThrough ==
  ASSUME NEW p, NEW v, NEW o \in Hooks(ContactsWrites, ContactsArgs), NEW c,
         ContactsCommit(p, v, o, c), Offered(o, props),
         Through(ContactsWrites, o, c) => Awaited(ops', calls')
  PROVE  Awaited(ops', calls') /\ Offered(ops', props')
<1> DEFINE closed == [v EXCEPT !.confirm = ConfirmationKept(v, p)]
           before == BulkScopes(view, props)
           after == BulkScopes(v, p)
           left == IF "bulkActions" \notin p.can
                   THEN Superseded(Superseded(c, "tag"), "delete") ELSE c
<1>1. props' = p /\ ops' = Rescoped(before, after, o) /\ calls' = Retired(before, after, left)
  BY DEF ContactsCommit, Commit
<1>2. DOMAIN before = ContactsWrites
  BY DEF BulkScopes, ContactsWrites
<1>3. /\ before.tag = after.tag => (CanTag(props) <=> CanTag(p))
      /\ before.delete = after.delete => (CanDelete(props) <=> CanDelete(p))
  BY DEF BulkScopes
<1>4. DOMAIN o = ContactsWrites
  BY DEF Hooks
<1> HIDE DEF before, after
<1>5. /\ ops'["tag"].flying => before.tag = after.tag /\ o["tag"].flying
      /\ ops'["delete"].flying => before.delete = after.delete /\ o["delete"].flying
  BY <1>1, <1>4 DEF Rescoped, Idle, ContactsWrites
<1>6. Offered(ops', props')
  BY <1>1, <1>3, <1>5 DEF Offered
<1>7. Awaited(ops', calls')
  <2>1. CASE "bulkActions" \in p.can
    BY <1>1, <1>2, <2>1 DEF Through
  <2>2. CASE "bulkActions" \notin p.can
    <3>1. ~ops'["tag"].flying /\ ~ops'["delete"].flying
      BY <1>1, <1>6, <2>2 DEF Offered, CanTag, CanDelete
    <3>2. DOMAIN ops' = ContactsWrites
      BY <1>1, <1>4 DEF Rescoped
    <3> QED BY <3>1, <3>2 DEF Awaited, ContactsWrites
  <2> QED BY <2>1, <2>2
<1> QED BY <1>6, <1>7

LEMMA ContactsAwaits ==
  ASSUME ContactsInv, Awaited(ops, calls), Offered(ops, props), ContactsNext
  PROVE  Awaited(ops', calls') /\ Offered(ops', props')
<1> DEFINE X == SUBSET Contacts
<1>l. Tracked(ContactsWrites, X, ContactsArgs)
  BY ContactsTracked
<1>t. ops \in Hooks(ContactsWrites, ContactsArgs) /\ "load" \notin ContactsWrites
      /\ view.selected \in X
  BY DEF ContactsInv, ContactsWrites, ContactsFields
<1> HIDE DEF X
<1>a. ASSUME NEW p, NEW v, NEW c, SameWrites(c, calls, ContactsWrites), ContactsCommit(p, v, ops, c)
      PROVE  Awaited(ops', calls') /\ Offered(ops', props')
  <2>1. Through(ContactsWrites, ops, c) => Awaited(ops', calls')
    BY <1>a, <1>l, LeftAlone
  <2> QED BY <1>a, <1>t, <2>1, ContactsThrough
<1>b. ASSUME NEW op \in ContactsWrites, NEW v, NEW args \in ContactsArgs, HasSlot,
             IF op = "tag" THEN CanTag(props) ELSE CanDelete(props),
             ContactsCommit(props, v, Attempted(op, args), Made(calls, Request(op, view.selected, args)))
      PROVE  Awaited(ops', calls') /\ Offered(ops', props')
  <2> DEFINE about == view.selected
             o == Attempted(op, args)
             c == Made(calls, Request(op, about, args))
  <2>1. Through(ContactsWrites, o, c) => Awaited(ops', calls')
    <3>1. about \in X
      BY <1>t
    <3> HIDE DEF about
    <3> QED BY <1>b, <1>l, <3>1, WriteMade
  <2>2. o \in Hooks(ContactsWrites, ContactsArgs)
    BY <1>b, <1>t, AttemptedHooks
  <2>3. \A q \in ContactsWrites \ {op} : o[q] = ops[q]
    BY <1>b, <1>t, AttemptedBesides
  <2> HIDE DEF o
  <2>4. Offered(o, props)
    BY <1>b, <2>3 DEF Offered, ContactsWrites
  <2> QED BY <1>b, <2>1, <2>2, <2>4, ContactsThrough DEF o
<1>s. SameWrites(calls, calls, ContactsWrites)
  BY SameSelf
<1>1. CASE NewQuery
  <2>1. PICK q, v : ContactsCommit(props, v, ops, Loading(calls, "load", q)) /\ MayLoad("load")
    BY <1>1 DEF NewQuery
  <2> QED BY <1>a, <1>t, <2>1, MayLoadSame
<1>2. CASE ContactsRetryLoad
  BY <1>2, <1>a, <1>t, MayLoadSame DEF ContactsRetryLoad
<1>3. CASE ContactsSelect \/ ContactsRegrant \/ AskBulkDelete \/ CancelBulkDelete
  BY <1>3, <1>a, <1>s DEF ContactsSelect, ContactsRegrant, AskBulkDelete, CancelBulkDelete
<1>5. CASE assign
  <2> DEFINE args == [names |-> view.selected, asked |-> view.selected]
  <2>1. args \in ContactsArgs
    BY <1>t DEF ContactsArgs, AskedFor, X
  <2>2. /\ ContactsCommit(props, view, Attempted("tag", args), Made(calls, Request("tag", view.selected, args)))
        /\ CanTag(props) /\ HasSlot
    BY <1>5 DEF assign
  <2> HIDE DEF args
  <2> QED BY <1>b, <2>1, <2>2 DEF ContactsWrites
<1>6. CASE bulkRemove
  <2> DEFINE args == [names |-> view.selected, asked |-> view.confirm]
  <2>1. view.confirm = view.selected
    BY <1>6 DEF bulkRemove, ContactsInv
  <2>2. args \in ContactsArgs
    BY <1>t, <2>1 DEF ContactsArgs, AskedFor, X
  <2>3. /\ ContactsCommit(props, view, Attempted("delete", args),
                          Made(calls, Request("delete", view.selected, args)))
        /\ CanDelete(props) /\ HasSlot
    BY <1>6 DEF bulkRemove
  <2> HIDE DEF args
  <2> QED BY <1>b, <2>2, <2>3 DEF ContactsWrites
<1>7. ASSUME NEW op \in ContactsWrites, BulkRetry(op)
      PROVE  Awaited(ops', calls') /\ Offered(ops', props')
  <2>1. ops[op].last \in ContactsArgs
    BY <1>7, <1>t DEF BulkRetry, MayRetry, Hooks
  <2> QED BY <1>7, <1>b, <2>1 DEF BulkRetry
<1>8. ASSUME NEW s \in Slots, NEW answer \in Answers, ContactsLoaded(s, answer)
      PROVE  Awaited(ops', calls') /\ Offered(ops', props')
  <2>1. PICK v : ContactsCommit(props, v, ops, Taken(s))
    BY <1>8 DEF ContactsLoaded
  <2>2. calls[s] # None /\ calls[s].op \notin ContactsWrites
    BY <1>8, <1>t DEF ContactsLoaded
  <2>3. Through(ContactsWrites, ops, Taken(s)) => Awaited(ops', calls')
    BY <1>l, <2>2, CallTaken
  <2> QED BY <1>t, <2>1, <2>3, ContactsThrough
<1>9. ASSUME NEW s \in Slots, NEW answer \in Answers, BulkAnswered(s, answer)
      PROVE  Awaited(ops', calls') /\ Offered(ops', props')
  <2> DEFINE op == calls[s].op
  <2>1. calls[s] # None /\ op \in ContactsWrites
    BY <1>9 DEF BulkAnswered, ContactsWrites
  <2>2. CASE ~calls[s].live
    <3>1. PICK v : ContactsCommit(props, v, ops, Taken(s))
      BY <1>9, <2>2 DEF BulkAnswered
    <3>2. Through(ContactsWrites, ops, Taken(s)) => Awaited(ops', calls')
      BY <1>l, <2>1, <2>2, CallTaken
    <3> QED BY <1>t, <3>1, <3>2, ContactsThrough
  <2>3. CASE calls[s].live
    <3> DEFINE o == Settled(op, answer)
    <3>1. PICK v, c : /\ ContactsCommit(props, v, o, c)
                      /\ c = Taken(s) \/ c = Loading(Taken(s), "load", view.query)
      BY <1>9, <2>3 DEF BulkAnswered
    <3>2. DOMAIN calls = Slots
      BY <1>l DEF Tracked
    <3>3. SameWrites(c, Taken(s), ContactsWrites)
      BY <1>t, <3>1, <3>2, SameSelf, ReloadSame
    <3>4. Through(ContactsWrites, o, c) => Awaited(ops', calls')
      BY <1>l, <2>1, <3>3, WriteSettled
    <3>5. o \in Hooks(ContactsWrites, ContactsArgs)
      BY <1>t, <2>1, SettledHooks
    <3>6. ~o[op].flying /\ \A q \in ContactsWrites \ {op} : o[q] = ops[q]
      BY <1>t, <2>1, SettledBesides
    <3> HIDE DEF o, op
    <3>7. Offered(o, props)
      BY <2>1, <3>6 DEF Offered, ContactsWrites
    <3> QED BY <3>1, <3>4, <3>5, <3>7, ContactsThrough
  <2> QED BY <2>2, <2>3
<1> QED BY <1>1, <1>2, <1>3, <1>5, <1>6, <1>7, <1>8, <1>9 DEF ContactsNext, ContactsWrites

(* The wizard *)

LEMMA WizardTracked ==
  ASSUME WizardInv, Awaited(ops, calls)
  PROVE  Tracked({"write"}, Owners, WizardArgs)
<1>1. None \notin Requests({"write"}, Owners, WizardArgs)
  <2> DEFINE N == Owners \X Nat
             A == [names : N, asked : N, step : {"save", "audience"},
                   audience : Audiences \cup {None}, created : 0..1]
  <2>1. None \notin [op : {"write"}, about : Owners, args : A, live : BOOLEAN]
    BY RequestsAssumption DEF Owners
  <2>2. WizardArgs \in SUBSET A
    BY DEF WizardArgs
  <2> HIDE DEF A
  <2> QED BY <2>1, <2>2, NarrowRequests DEF Requests
<1>2. Typed(calls, {"write"}, Requests({"write"}, Owners, WizardArgs))
  <2> SUFFICES ASSUME NEW s \in Slots, calls[s] # None, calls[s].op = "write"
               PROVE  calls[s] \in Requests({"write"}, Owners, WizardArgs)
    BY DEF Typed, Pending
  <2>1. calls[s] \in WizardCalls(props.target, Form.audience, props.target) /\ props.target \in Owners
    BY DEF WizardInv, Flights
  <2> QED BY <2>1 DEF WizardCalls, Asking, Writing, Late, Requests
<1>3. DOMAIN calls = Slots /\ ops \in Hooks({"write"}, WizardArgs)
  BY DEF WizardInv, Flights
<1> QED BY <1>1, <1>2, <1>3 DEF Tracked

LEMMA SameThrough ==
  ASSUME NEW O, NEW b, NEW c, NEW d, SameWrites(b, c, O), SameWrites(c, d, O)
  PROVE  SameWrites(b, d, O)
BY DEF SameWrites, Pending

\* Another audience, or another owner, retires the preview and no write.
LEMMA WizardThrough ==
  ASSUME NEW p, NEW v, NEW o, NEW c, WizardCommit(p, v, o, c)
  PROVE  /\ \E d : SameWrites(d, c, {"write"}) /\ Through({"write"}, o, d)
         /\ v.form.audience = Form.audience /\ p.target = props.target => Through({"write"}, o, c)
<1> DEFINE turned == v.form.audience # Form.audience \/ p.target # props.target
           kept == IF turned THEN [v EXCEPT !.form.preview = None] ELSE v
           left == IF turned THEN Superseded(c, "preview") ELSE c
           before == WizardScopes(view, props)
           after == WizardScopes(kept, p)
<1>1. ops' = Rescoped(before, after, o) /\ calls' = Retired(before, after, left)
  BY DEF WizardCommit, Commit
<1>2. DOMAIN before = {"write"}
  BY DEF WizardScopes
<1>3. SameWrites(left, c, {"write"})
  BY SupersededSame, SameSelf
<1>4. v.form.audience = Form.audience /\ p.target = props.target => left = c
  OBVIOUS
<1> HIDE DEF left, before, after
<1>5. Through({"write"}, o, left)
  BY <1>1, <1>2 DEF Through
<1> QED BY <1>3, <1>4, <1>5

LEMMA WizardAwaits ==
  ASSUME WizardInv, Awaited(ops, calls), WizardNext
  PROVE  Awaited(ops', calls')
<1> DEFINE W == {"write"}
<1>l. Tracked(W, Owners, WizardArgs)
  BY WizardTracked
<1>t. /\ ops \in Hooks(W, WizardArgs) /\ props.target \in Owners /\ "load" \notin W /\ "preview" \notin W
      /\ view \in WizardFields /\ Form \in CampaignFormFields /\ view.form = Form
      /\ DOMAIN calls = Slots
  BY <1>l DEF WizardInv, WizardFields, Form, Tracked
<1>a. ASSUME NEW p, NEW v, NEW c, SameWrites(c, calls, W), WizardCommit(p, v, ops, c)
      PROVE  Awaited(ops', calls')
  <2>1. PICK d : SameWrites(d, c, W) /\ Through(W, ops, d)
    BY <1>a, WizardThrough
  <2> HIDE DEF W
  <2>2. SameWrites(d, calls, W)
    BY <1>a, <2>1, SameThrough
  <2> QED BY <1>l, <2>1, <2>2, LeftAlone
<1>s. SameWrites(calls, calls, W)
  BY SameSelf
<1>b. ASSUME NEW args \in WizardArgs, Submit(args)
      PROVE  Awaited(ops', calls')
  <2> DEFINE about == props.target
             v == [view EXCEPT !.holder = FreeSlot(calls)]
             c == Made(calls, Request("write", about, args))
  <2>1. WizardCommit(props, v, Attempted("write", args), c) /\ HasSlot
    BY <1>b DEF Submit
  <2>2. v.form = Form
    BY <1>t DEF WizardFields
  <2> HIDE DEF v
  <2>3. Through(W, Attempted("write", args), c)
    BY <2>1, <2>2, WizardThrough
  <2>4. about \in Owners /\ "write" \in W
    BY <1>t
  <2> HIDE DEF about, W
  <2> QED BY <1>b, <1>l, <2>1, <2>3, <2>4, WriteMade
<1>1. CASE WizardRetarget
  <2>1. PICK p, v, c : /\ WizardCommit(p, v, ops, c)
                       /\ \/ c = Superseded(calls, "load")
                          \/ \E t : MayLoad("load") /\ c = Loading(calls, "load", t)
    BY <1>1 DEF WizardRetarget
  <2>2. SameWrites(c, calls, W)
    BY <1>t, <2>1, SupersededSame, MayLoadSame
  <2> QED BY <1>a, <2>1, <2>2
<1>2. CASE WizardRegrant
  BY <1>2, <1>a, <1>s DEF WizardRegrant
<1>3. CASE WizardRetryLoad
  <2>1. PICK v : WizardCommit(props, v, ops, Loading(calls, "load", props.target)) /\ HasSlot
    BY <1>3 DEF WizardRetryLoad
  <2>2. SameWrites(Loading(calls, "load", props.target), calls, W)
    BY <1>t, <2>1, MayLoadSame
  <2> QED BY <1>a, <2>1, <2>2
<1>4. CASE WizardEdit \/ ChooseAudience \/ ChooseExtension
  BY <1>4, <1>a, <1>s DEF WizardEdit, ChooseAudience, ChooseExtension, Edit
<1>5. CASE previewAudience
  <2>1. PICK v : WizardCommit(props, v, ops, Loading(calls, "preview", Form.audience)) /\ MayLoad("preview")
    BY <1>5 DEF previewAudience
  <2>2. SameWrites(Loading(calls, "preview", Form.audience), calls, W)
    BY <1>t, <2>1, MayLoadSame
  <2> QED BY <1>a, <2>1, <2>2
<1>6. CASE submitCampaign
  BY <1>6, <1>b, SubmittedArgs DEF submitCampaign
<1>7. CASE retrySave
  <2>1. ops["write"].last \in WizardArgs
    BY <1>7, <1>t DEF retrySave, MayRetry, Hooks
  <2> QED BY <1>7, <1>b, <2>1 DEF retrySave
<1>8. ASSUME NEW s \in Slots, NEW answer \in Answers, WizardLoaded(s, answer) \/ AudiencePreviewed(s, answer)
      PROVE  Awaited(ops', calls')
  <2> DEFINE filled(x) == [view EXCEPT !.form.loaded = calls[s].about, !.form.words = "fit",
                                       !.form.shown = toDateTimeLocal(x),
                                       !.form.original = x, !.form.startDirty = FALSE]
             missed(x) == [view EXCEPT !.form.failed = x]
             sized(x) == [view EXCEPT !.form.preview = x]
  <2>1. \/ \E x : WizardCommit(props, filled(x), ops, Taken(s))
        \/ \E x : WizardCommit(props, missed(x), ops, Taken(s))
        \/ \E x : WizardCommit(props, sized(x), ops, Taken(s))
    BY <1>8 DEF WizardLoaded, AudiencePreviewed
  <2>2. /\ \A x : filled(x).form.audience = Form.audience
        /\ \A x : missed(x).form.audience = Form.audience
        /\ \A x : sized(x).form.audience = Form.audience
    <3>1. DOMAIN view = {"form", "holder"} /\ "audience" \in DOMAIN view.form /\ view.form.audience = Form.audience
      BY <1>t DEF WizardFields, CampaignFormFields
    <3> QED BY <3>1
  <2>3. calls[s] # None /\ calls[s].op \notin W
    BY <1>8 DEF WizardLoaded, AudiencePreviewed
  <2> HIDE DEF filled, missed, sized
  <2>4. Through(W, ops, Taken(s))
    BY <2>1, <2>2, WizardThrough
  <2> HIDE DEF W
  <2> QED BY <1>l, <2>3, <2>4, CallTaken
<1>9. ASSUME NEW s \in Slots, NEW answer \in Answers, CampaignSaved(s, answer)
      PROVE  Awaited(ops', calls')
  <2> DEFINE args == calls[s].args
             adv == Advanced(args)
             next == [adv EXCEPT !.step = "audience"]
             o == IF calls[s].live THEN [ops EXCEPT !["write"].last = adv] ELSE ops
             call == [calls[s] EXCEPT !.args = next]
             c == [calls EXCEPT ![s].args = next]
             R == Requests(W, Owners, WizardArgs)
  <2>1. /\ calls[s] # None /\ calls[s].op = "write" /\ args.step = "save"
        /\ WizardCommit(props, view, o, c)
    BY <1>9 DEF CampaignSaved, Continues
  <2>2. calls[s] \in R
    BY <1>l, <2>1 DEF Tracked, Typed, Pending
  <2>3. args \in WizardArgs
    BY <2>2 DEF Requests
  <2> HIDE DEF args
  <2>4. next \in WizardArgs
    BY <2>1, <2>3, AdvancedArgs
  <2> HIDE DEF adv, next
  <2>5. call \in R /\ call.op = "write" /\ call.live = calls[s].live
    BY <2>1, <2>2, <2>4 DEF Requests
  <2>6. call # None
    BY <1>l, <2>5 DEF Tracked
  <2>7. \A r \in Slots : c[r] = IF r = s THEN call ELSE calls[r]
    BY <1>t
  <2>8. DOMAIN o = W /\ (o["write"].flying <=> ops["write"].flying)
    BY <1>t DEF Hooks
  <2>9. Through(W, o, c)
    BY <1>t, <2>1, WizardThrough
  <2> HIDE DEF call, c, o, R
  <2>10. Typed(c, W, R)
    BY <1>l, <2>1, <2>5, <2>7 DEF Typed, Tracked, Pending, R
  <2>11. Awaited(o, c)
    <3> SUFFICES ASSUME ops["write"].flying
                 PROVE  \E r \in Slots : c[r] # None /\ c[r].op = "write" /\ c[r].live
      BY <2>8 DEF Awaited
    <3>1. DOMAIN ops = W
      BY <1>t DEF Hooks
    <3>2. PICK r \in Slots : calls[r] # None /\ calls[r].op = "write" /\ calls[r].live
      BY <1>l, <3>1 DEF Tracked, Awaited
    <3> QED BY <2>1, <2>5, <2>6, <2>7, <3>2
  <2> HIDE DEF W
  <2> QED BY <1>l, <2>8, <2>9, <2>10, <2>11, ThroughCommit DEF Tracked, R
<1>10. ASSUME NEW s \in Slots, NEW answer \in Answers, WizardAnswered(s, answer)
       PROVE  Awaited(ops', calls')
  <2>1. calls[s] # None /\ calls[s].op \in W /\ calls[s].op = "write"
    BY <1>10 DEF WizardAnswered
  <2>2. LockReleased(s).form.audience = Form.audience
    BY <1>t DEF LockReleased, WizardFields
  <2>3. CASE ~calls[s].live
    <3>1. Through(W, ops, Taken(s))
      BY <1>10, <2>2, <2>3, WizardThrough DEF WizardAnswered
    <3> HIDE DEF W
    <3> QED BY <1>l, <2>1, <2>3, <3>1, CallTaken
  <2>4. CASE calls[s].live
    <3>1. Through(W, Settled(calls[s].op, answer), Taken(s))
      BY <1>10, <2>1, <2>2, <2>4, WizardThrough DEF WizardAnswered
    <3>2. SameWrites(Taken(s), Taken(s), W)
      BY SameSelf
    <3> HIDE DEF W
    <3> QED BY <1>l, <2>1, <3>1, <3>2, WriteSettled
  <2> QED BY <2>3, <2>4
<1> QED BY <1>1, <1>2, <1>3, <1>4, <1>5, <1>6, <1>7, <1>8, <1>9, <1>10 DEF WizardNext

(* Whichever screen is mounted *)

HeldInv ==
  /\ Awaited(ops, calls)
  /\ screen = "contacts" => Offered(ops, props)
  /\ screen = "lists" => ListsHeld
  /\ screen = "list" => ListHeld
  /\ screen = "suppression" => SuppressionHeld
  /\ screen = "campaign" => CampaignHeld

\* A load is no write.
LEMMA LoadsOnly ==
  ASSUME NEW c, NEW op, NEW about, NEW W, op \notin W, Pending(c, W) = {}
  PROVE  Pending(Loading(c, op, about), W) = {}
<1> DEFINE left == Superseded(c, op)
           f == FreeSlot(left)
           call == Request(op, about, None)
           d == Loading(c, op, about)
<1>1. \A s \in Slots : left[s] = IF c[s] # None /\ c[s].op = op THEN None ELSE c[s]
  BY DEF Superseded
<1>2. DOMAIN left = Slots /\ d = [left EXCEPT ![f] = call] /\ call.op = op
  BY DEF Superseded, Loading, Made, Request
<1> HIDE DEF left, f, call, d
<1>3. \A s \in Slots : d[s] = call \/ d[s] = left[s]
  BY <1>2
<1> QED BY <1>1, <1>2, <1>3 DEF Pending, d

LEMMA NothingWritten ==
  ASSUME NEW W
  PROVE  Pending(NoCalls, W) = {}
BY DEF Pending, NoCalls

LEMMA NothingHeld ==
  ASSUME NEW c, NEW W, Pending(c, W) = {}
  PROVE  Holds(FALSE, c, W) /\ LocksHeld({}, c, W)
BY DEF Holds, LocksHeld, Pending

LEMMA IdleAwaits ==
  ASSUME NEW O, NEW o, o = [op \in O |-> Idle], NEW c
  PROVE  Awaited(o, c)
BY DEF Awaited, Idle

LEMMA HeldInvInit == Init => HeldInv
<1> SUFFICES ASSUME Init PROVE HeldInv
  OBVIOUS
<1>1. CASE ContactsInit
  <2>1. Awaited(ops, calls)
    BY <1>1, IdleAwaits DEF ContactsInit
  <2>2. Offered(ops, props)
    BY <1>1 DEF ContactsInit, Offered, Idle
  <2> QED BY <1>1, <2>1, <2>2 DEF HeldInv, ContactsInit
<1>2. CASE DetailInit
  BY <1>2, IdleAwaits DEF HeldInv, DetailInit
<1>3. CASE FormInit
  BY <1>3, IdleAwaits DEF HeldInv, FormInit
<1>4. CASE ImportInit
  BY <1>4, IdleAwaits DEF HeldInv, ImportInit
<1>5. CASE ListsInit
  <2>1. PICK q : calls = Loading(NoCalls, "load", q) /\ view.locks = {}
    BY <1>5 DEF ListsInit
  <2>2. Pending(calls, ListsWrites) = {}
    BY <2>1, NothingWritten, LoadsOnly DEF ListsWrites
  <2>3. LocksHeld(view.locks, calls, ListsWrites)
    BY <2>1, <2>2, NothingHeld
  <2>4. Awaited(ops, calls)
    BY <1>5, IdleAwaits DEF ListsInit
  <2> QED BY <1>5, <2>3, <2>4 DEF HeldInv, ListsHeld, ListsInit
<1>6. CASE ListInit
  <2>1. PICK t, u : calls = Loading(Loading(NoCalls, "load", t), "search", u) /\ view.locks = {}
    BY <1>6 DEF ListInit
  <2>2. Pending(Loading(NoCalls, "load", t), MembersWrites) = {}
    BY NothingWritten, LoadsOnly DEF MembersWrites
  <2>3. Pending(calls, MembersWrites) = {}
    BY <2>1, <2>2, LoadsOnly DEF MembersWrites
  <2>4. LocksHeld(view.locks, calls, MembersWrites)
    BY <2>1, <2>3, NothingHeld
  <2>5. LoneSearch(calls)
    BY <2>1, SearchAlone DEF SearchFrom
  <2>6. Awaited(ops, calls)
    BY <1>6, IdleAwaits DEF ListInit
  <2> QED BY <1>6, <2>4, <2>5, <2>6 DEF HeldInv, ListHeld, ListInit
<1>7. CASE SuppressionInit
  <2>1. PICK q : calls = Loading(NoCalls, "load", q) /\ view.locked = FALSE
    BY <1>7 DEF SuppressionInit
  <2>2. Pending(calls, Mutations) = {}
    BY <2>1, NothingWritten, LoadsOnly, RowsAssumption DEF Mutations
  <2>3. Holds(view.locked, calls, Mutations)
    BY <2>1, <2>2 DEF Holds
  <2>4. Awaited(ops, calls)
    BY <1>7, IdleAwaits DEF SuppressionInit
  <2> QED BY <1>7, <2>3, <2>4 DEF HeldInv, SuppressionHeld, SuppressionInit
<1>8. CASE BrowseInit
  BY <1>8, IdleAwaits DEF HeldInv, BrowseInit, Browsers
<1>9. CASE CampaignInit
  <2>1. PICK t : calls = Loading(NoCalls, "load", t) /\ view.locked = FALSE
    BY <1>9 DEF CampaignInit
  <2>2. Pending(calls, {"write"}) = {}
    BY <2>1, NothingWritten, LoadsOnly
  <2>3. Holds(view.locked, calls, {"write"})
    BY <2>1, <2>2 DEF Holds
  <2>4. Awaited(ops, calls)
    BY <1>9, IdleAwaits DEF CampaignInit
  <2> QED BY <1>9, <2>3, <2>4 DEF HeldInv, CampaignHeld, CampaignInit
<1>10. CASE WizardInit
  BY <1>10, IdleAwaits DEF HeldInv, WizardInit
<1> QED BY <1>1, <1>2, <1>3, <1>4, <1>5, <1>6, <1>7, <1>8, <1>9, <1>10 DEF Init

LEMMA HeldInvStep ==
  ASSUME ScreensInv, HeldInv, Next
  PROVE  HeldInv'
<1>1. CASE ContactsNext
  <2>1. screen = "contacts"
    BY <1>1 DEF ContactsNext
  <2>2. ContactsInv
    BY <2>1, ScreensAssumption DEF ScreensInv, Browsers
  <2> QED BY <1>1, <2>1, <2>2, ContactsAwaits, ContactsStay DEF HeldInv
<1>2. CASE DetailNext
  <2>1. screen = "contact"
    BY <1>2 DEF DetailNext
  <2>2. DetailInv
    BY <2>1, ScreensAssumption DEF ScreensInv, Browsers
  <2> QED BY <1>2, <2>2, DetailAwaits, DetailStay DEF HeldInv
<1>3. CASE FormNext
  <2>1. screen = "form"
    BY <1>3 DEF FormNext
  <2>2. FormInv
    BY <2>1, ScreensAssumption DEF ScreensInv, Browsers
  <2> QED BY <1>3, <2>2, FormAwaits, FormStay DEF HeldInv
<1>4. CASE ImportNext
  <2>1. screen = "import"
    BY <1>4 DEF ImportNext
  <2>2. ImportInv
    BY <2>1, ScreensAssumption DEF ScreensInv, Browsers
  <2> QED BY <1>4, <2>2, ImportAwaits, ImportStay DEF HeldInv
<1>5. CASE ListsNext
  <2>1. screen = "lists"
    BY <1>5 DEF ListsNext
  <2>2. ListsInv
    BY <2>1, ScreensAssumption DEF ScreensInv, Browsers
  <2>3. ListsHeld'
    BY <1>5, <2>1, <2>2, ListsHolds DEF HeldInv
  <2> QED BY <1>5, <2>3, ListsStay DEF HeldInv, ListsHeld
<1>6. CASE ListNext
  <2>1. screen = "list"
    BY <1>6 DEF ListNext
  <2>2. ListInv
    BY <2>1, ScreensAssumption DEF ScreensInv, Browsers
  <2>3. ListHeld'
    BY <1>6, <2>1, <2>2, ListHolds DEF HeldInv
  <2> QED BY <1>6, <2>3, ListStay DEF HeldInv, ListHeld
<1>7. CASE SuppressionNext
  <2>1. screen = "suppression"
    BY <1>7 DEF SuppressionNext
  <2>2. SuppressionInv
    BY <2>1, ScreensAssumption DEF ScreensInv, Browsers
  <2>3. SuppressionHeld'
    BY <1>7, <2>1, <2>2, SuppressionHolds DEF HeldInv
  <2> QED BY <1>7, <2>3, SuppressionStay DEF HeldInv, SuppressionHeld
<1>8. CASE BrowseNext
  <2>1. screen \in Browsers
    BY <1>8 DEF BrowseNext
  <2>2. BrowseInv
    BY <2>1, ScreensAssumption DEF ScreensInv, Browsers
  <2>3. Awaited(ops', calls')
    BY <1>8, <2>2, BrowseStep, BrowseAwaits
  <2> QED BY <1>8, <2>3, BrowseStay DEF HeldInv, Browsers
<1>9. CASE CampaignNext
  <2>1. screen = "campaign"
    BY <1>9 DEF CampaignNext
  <2>2. CampaignInv
    BY <2>1, ScreensAssumption DEF ScreensInv, Browsers
  <2>3. CampaignHeld'
    BY <1>9, <2>1, <2>2, CampaignHolds DEF HeldInv
  <2> QED BY <1>9, <2>3, CampaignStay DEF HeldInv, CampaignHeld
<1>10. CASE WizardNext
  <2>1. screen = "wizard"
    BY <1>10 DEF WizardNext
  <2>2. WizardInv
    BY <2>1, ScreensAssumption DEF ScreensInv, Browsers
  <2> QED BY <1>10, <2>2, WizardAwaits, WizardStay DEF HeldInv
<1>11. CASE Unmount
  <2>1. screen' = None /\ ops' = [op \in DOMAIN ops |-> Idle]
    BY <1>11 DEF Unmount
  <2> QED BY <2>1, IdleAwaits, ScreensAssumption DEF HeldInv
<1> QED BY <1>1, <1>2, <1>3, <1>4, <1>5, <1>6, <1>7, <1>8, <1>9, <1>10, <1>11 DEF Next

LEMMA HeldInvStutter ==
  ASSUME HeldInv, UNCHANGED vars
  PROVE  HeldInv'
BY DEF vars, HeldInv, ListsHeld, ListHeld, SuppressionHeld, CampaignHeld, Offered, Awaited,
       Holds, LocksHeld, LoneSearch, Pending

\* A hook is pending only while a call it waits for is in flight, and a lock is
\* held exactly while the one write it stands for is, on every screen that has
\* one (SuppressionScreen.tsx:253, ListsScreen.tsx:127).
THEOREM LocksAndAwaits == Spec => []HeldInv
<1>1. ScreensInv /\ HeldInv /\ [Next]_vars => HeldInv'
  BY HeldInvStep, HeldInvStutter
<1> QED BY <1>1, HeldInvInit, ScreensInvariant, PTL DEF Spec

LEMMA AtMostOne ==
  ASSUME NEW S, S = {} \/ \E s \in S : S = {s}
  PROVE  Cardinality(S) <= 1
<1>1. CASE S = {}
  BY <1>1, FS_EmptySet
<1>2. CASE \E s \in S : S = {s}
  BY <1>2, FS_Singleton
<1> QED BY <1>1, <1>2

LEMMA LockedWhileWriting ==
  ASSUME NEW locks, NEW W, LocksHeld(locks, calls, W), NEW op \in W
  PROVE  /\ Cardinality(InFlight(op)) <= 1
         /\ op \in locks <=> InFlight(op) # {}
<1>1. InFlight(op) = Pending(calls, {op})
  BY DEF InFlight, Pending
<1>2. /\ op \in locks => \E s \in Slots : Pending(calls, {op}) = {s}
      /\ op \notin locks => Pending(calls, {op}) = {}
  BY DEF LocksHeld
<1>3. InFlight(op) = {} \/ \E s \in InFlight(op) : InFlight(op) = {s}
  BY <1>1, <1>2
<1>4. op \in locks <=> InFlight(op) # {}
  BY <1>1, <1>2
<1> QED BY <1>3, <1>4, AtMostOne

LEMMA LockedWhilePending ==
  ASSUME NEW lock \in BOOLEAN, NEW W, Holds(lock, calls, W), "load" \notin W,
         \A s \in Slots : calls[s] # None /\ calls[s].op # "load" => calls[s].op \in W
  PROVE  LET writing == {s \in Slots : calls[s] # None /\ calls[s].op # "load"}
         IN  Cardinality(writing) <= 1 /\ (lock <=> writing # {})
<1> DEFINE writing == {s \in Slots : calls[s] # None /\ calls[s].op # "load"}
<1>1. writing = Pending(calls, W)
  BY DEF Pending
<1>2. IF lock THEN \E s \in Slots : Pending(calls, W) = {s} ELSE Pending(calls, W) = {}
  BY DEF Holds
<1> HIDE DEF writing
<1>3. writing = {} \/ \E s \in writing : writing = {s}
  BY <1>1, <1>2
<1>4. lock <=> writing # {}
  BY <1>1, <1>2
<1> QED BY <1>3, <1>4, AtMostOne DEF writing

\* No control stays shut for good: a hook that is pending waits for a call that
\* is in flight, and of each kind of write at most one call is, with its lock
\* held exactly as long (ListsScreen.tsx:127, ListDetailScreen.tsx:117,
\* SuppressionScreen.tsx:253, CampaignDetailScreen.tsx:83).
THEOREM LocksCover == Spec => []LocksCoverWrites
<1>1. ScreensInv /\ HeldInv => LocksCoverWrites
  <2> SUFFICES ASSUME ScreensInv, HeldInv PROVE LocksCoverWrites
    OBVIOUS
  <2>1. PendingIsAwaited
    BY DEF HeldInv, Awaited, PendingIsAwaited, InFlight
  <2>2. ASSUME screen \in {"lists", "list"}, NEW op \in DOMAIN ops
        PROVE  Cardinality(InFlight(op)) <= 1 /\ (Locked(view, op) <=> InFlight(op) # {})
    <3>1. CASE screen = "lists"
      <4>1. ListsInv
        BY <3>1, ScreensAssumption DEF ScreensInv, Browsers
      <4>2. op \in ListsWrites
        BY <2>2, <4>1 DEF ListsInv, Hooks
      <4> QED BY <3>1, <4>2, LockedWhileWriting DEF HeldInv, ListsHeld, Locked
    <3>2. CASE screen = "list"
      <4>1. ListInv
        BY <3>2, ScreensAssumption DEF ScreensInv, Browsers
      <4>2. op \in MembersWrites
        BY <2>2, <4>1 DEF ListInv, Hooks
      <4> QED BY <3>2, <4>2, LockedWhileWriting DEF HeldInv, ListHeld, Locked
    <3> QED BY <2>2, <3>1, <3>2
  <2>3. ASSUME screen \in {"suppression", "campaign"}
        PROVE  LET writing == {s \in Slots : calls[s] # None /\ calls[s].op # "load"}
               IN  Cardinality(writing) <= 1 /\ (view.locked <=> writing # {})
    <3>1. CASE screen = "suppression"
      <4>1. SuppressionInv
        BY <3>1, ScreensAssumption DEF ScreensInv, Browsers
      <4>2. view.locked \in BOOLEAN
        BY <4>1 DEF SuppressionInv, SuppressionFields
      <4>3. \A s \in Slots : calls[s] # None /\ calls[s].op # "load" => calls[s].op \in Mutations
        BY <4>1 DEF SuppressionInv, Flights, SuppressionCalls, SuppressionLive, Asking, Late
      <4>4. Holds(view.locked, calls, Mutations)
        BY <3>1 DEF HeldInv, SuppressionHeld
      <4>5. "load" \notin Mutations
        BY RowsAssumption DEF Mutations
      <4> QED BY <4>2, <4>3, <4>4, <4>5, LockedWhilePending
    <3>2. CASE screen = "campaign"
      <4>1. CampaignInv
        BY <3>2, ScreensAssumption DEF ScreensInv, Browsers
      <4>2. view.locked \in BOOLEAN
        BY <4>1 DEF CampaignInv, CampaignFields
      <4>3. \A s \in Slots : calls[s] # None /\ calls[s].op # "load" => calls[s].op \in {"write"}
        BY <4>1 DEF CampaignInv, Flights, CampaignCalls, Asking, Writing, Late
      <4>4. Holds(view.locked, calls, {"write"})
        BY <3>2 DEF HeldInv, CampaignHeld
      <4> QED BY <4>2, <4>3, <4>4, LockedWhilePending
    <3> QED BY <2>3, <3>1, <3>2
  <2> QED BY <2>1, <2>2, <2>3 DEF LocksCoverWrites
<1> QED BY <1>1, ScreensInvariant, LocksAndAwaits, PTL
=================================================================================
