----------------------------- MODULE PipelineStores -----------------------------
(***************************************************************************)
(* The stores of domain-pipeline: companies, deal stages, deals, tasks,    *)
(* notes and the log of activities, which link to each other and to the    *)
(* contacts that ContactStores writes.                                     *)
(*                                                                         *)
(* A caller names the records to link to; the stores look up each of them  *)
(* in the caller's tenant before they write, and log afterwards.  Each of  *)
(* these calls to the database is a step of its own; what a statement does *)
(* to the tables that refer to its row is part of it.  Of a record the     *)
(* model keeps its links; names, amounts, dates and a task's status are    *)
(* left out, and so are the definitions of custom fields, which link to    *)
(* nothing.                                                                *)
(***************************************************************************)
EXTENDS ContactStores, FiniteSets, Sequences

CONSTANTS
  Companies, Deals, Tasks, Notes, Stages,   \* bound: the records of each table
  PositionOf,   \* the position each deal stage is created with
  Defaults,     \* the positions that seedDefaults fills
  Elsewhere,    \* records of other tenants
  Given         \* bound: the links that callers give

VARIABLES
  rec,          \* the records' rows
  log           \* activities: of what, and the records it refers to

vars == <<storesVars, rec, log>>

Records == Companies \cup Deals \cup Tasks \cup Notes \cup Stages

LinkNames == {"contact", "company", "deal", "stage"}
NoLinks == [f \in LinkNames |-> None]

(* A link's column takes the records of one table.                         *)
Table(f) ==
  CASE f = "contact" -> Ids
    [] f = "company" -> Companies
    [] f = "deal"    -> Deals
    [] f = "stage"   -> Stages

Links ==
  {links \in [LinkNames -> Ids \cup Records \cup Elsewhere \cup {None}] :
     \A f \in LinkNames : links[f] \in Table(f) \cup Elsewhere \cup {None}}

(* Ids are UUIDs: no two tables share one, and a column refuses one of     *)
(* another table as it does one that is not there.                         *)
ASSUME PipelineAssumption ==
  /\ None \notin Records \cup Elsewhere
  /\ Elsewhere \cap (Ids \cup Records) = {} /\ Ids \cap Records = {}
  /\ Companies \cap (Deals \cup Tasks \cup Notes \cup Stages) = {}
  /\ Deals \cap (Tasks \cup Notes \cup Stages) = {}
  /\ Tasks \cap (Notes \cup Stages) = {} /\ Notes \cap Stages = {}
  /\ Given \subseteq Links

Linked(links) == {links[f] : f \in LinkNames} \ {None}

Linking(links) == [is |-> "row", links |-> links]

IsRow(x) == rec[x].is = "row"

(* In some tenant's table.                                                 *)
Present(x) ==
  \/ x \in Elsewhere
  \/ x \in Ids /\ Exists(x)
  \/ x \in Records /\ IsRow(x)

Init ==
  /\ InitStores
  /\ rec = [x \in Records |-> Unborn]
  /\ log = {}

----------------------------------------------------------------------------
(* The tables: their columns that refer, their checks, and what becomes of *)
(* those who refer to a row that is deleted.                               *)

Columns(table) ==
  CASE table = Deals -> {"contact", "company", "stage"}
    [] table \in {Tasks, Notes} -> {"contact", "company", "deal"}
    [] OTHER -> {}

Parents(links) == {f \in {"contact", "company", "deal"} : links[f] # None}

(* tasks_has_reference, notes_has_reference, and a deal's stage.           *)
HasReference(table, links) ==
  CASE table = Tasks -> Cardinality(Parents(links)) = 1
    [] table = Notes -> Parents(links) # {}
    [] table = Deals -> links.stage # None
    [] OTHER -> TRUE

MayWrite(table, links) ==
  HasReference(table, links) /\ \A y \in Linked(links) : Present(y)

(* deal_stages_tenant_position_unique                                      *)
PositionsAreFree(xs) ==
  \A x \in xs, y \in Stages : IsRow(y) => PositionOf[x] # PositionOf[y]

(* Tasks and notes go with what they refer to, a deal loses the link, and  *)
(* the activities of whatever goes go too.                                 *)
AllGone(gone) ==
  gone \cup {x \in Tasks \cup Notes : IsRow(x) /\ Linked(rec[x].links) \cap gone # {}}

Delete(gone) ==
  LET all == AllGone(gone)
  IN  IF gone = {} THEN UNCHANGED <<rec, log>>
      ELSE /\ rec' = [x \in Records |->
                IF x \in all THEN Gone
                ELSE IF ~IsRow(x) THEN rec[x]
                ELSE Linking([f \in LinkNames |->
                       IF rec[x].links[f] \in gone THEN None ELSE rec[x].links[f]])]
           /\ log' = {e \in log : e.of \cap all = {}}

----------------------------------------------------------------------------
(* Creating and updating.                                                  *)

Begin(s, call) == calls[s] = Idle /\ calls' = [calls EXCEPT ![s] = call]

Done(s) == calls' = [calls EXCEPT ![s] = Idle]

Doing(s, op, at) == calls[s].op = op /\ calls[s].at = at

(* Mutant: a patch is written as it comes.                                 *)
VerifiedOnCreate(op, table, links) ==
  IF op = "update" THEN {} ELSE {f \in Columns(table) : links[f] # None}

(* What is looked up before the write.  A patch of a note is not.          *)
ToVerify(op, table, links) ==
  IF op = "update" /\ table = Notes THEN {}
  ELSE {f \in Columns(table) : links[f] # None}

VerifyOrder(table) ==
  IF table = Deals THEN <<"company", "contact", "stage">>
                   ELSE <<"contact", "company", "deal">>

NextToVerify(s) ==
  Head(SelectSeq(VerifyOrder(calls[s].table), LAMBDA f : f \in calls[s].left))

Request(op, table, id, links, fields) ==
  [op |-> op, at |-> "write", table |-> table, id |-> id, links |-> links,
   fields |-> fields, left |-> ToVerify(op, table, links)]

Fits(table, links) == \A f \in LinkNames \ Columns(table) : links[f] = None

create(s, table, links) ==
  /\ Fits(table, links)
  /\ table \in {Tasks, Notes} => HasReference(table, links)
  /\ Begin(s, Request("create", table, None, links, Columns(table)))
  /\ UNCHANGED <<rec, log>>

(* A patch names all of the links, or only those it sets.                  *)
update(s, table, x, links) ==
  /\ Fits(table, links)
  /\ \E fields \in {Columns(table), {f \in Columns(table) : links[f] # None}} :
       Begin(s, Request("update", table, x, links, fields))
  /\ UNCHANGED <<rec, log>>

Writing(s, op) == Doing(s, op, "write") /\ calls[s].left = {}

(* A record is looked up in the caller's tenant; the call fails when it is *)
(* not there.                                                              *)
assertBelongsToTenant(s) ==
  /\ calls[s].op \in {"create", "update"} /\ calls[s].at = "write"
  /\ calls[s].left # {}
  /\ LET f == NextToVerify(s)
         x == calls[s].links[f]
     IN  IF Present(x) /\ x \notin Elsewhere
           THEN calls' = [calls EXCEPT ![s].left = @ \ {f}]
           ELSE Done(s)
  /\ UNCHANGED <<rec, log>>

LogNext(s, type, of) ==
  calls' = [calls EXCEPT ![s] = [op |-> "log", at |-> "write", type |-> type, of |-> of]]

(* A note is logged with the first of what it was given: contact, company, *)
(* deal.                                                                   *)
FirstParent(links) ==
  IF links.contact # None THEN links.contact
  ELSE IF links.company # None THEN links.company ELSE links.deal

AfterCreate(s, x) ==
  IF x \in Stages THEN Done(s)
  ELSE IF x \in Notes THEN LogNext(s, "note_added", {x, FirstParent(calls[s].links)})
  ELSE LogNext(s, "created", {x})

InsertRecord(s, x) ==
  /\ Writing(s, "create") /\ x \in calls[s].table /\ rec[x] = Unborn
  /\ IF MayWrite(calls[s].table, calls[s].links) /\ (x \in Stages => PositionsAreFree({x}))
       THEN rec' = [rec EXCEPT ![x] = Linking(calls[s].links)] /\ AfterCreate(s, x)
       ELSE rec' = rec /\ Done(s)
  /\ UNCHANGED log

Patched(s) ==
  LET c == calls[s]
  IN  [f \in LinkNames |-> IF f \in c.fields THEN c.links[f] ELSE rec[c.id].links[f]]

(* A patch of a row that is gone fails, as does one that the checks refuse. *)
UpdateRecord(s) ==
  /\ Writing(s, "update")
  /\ LET x == calls[s].id
     IN  IF IsRow(x) /\ MayWrite(calls[s].table, Patched(s))
           THEN /\ rec' = [rec EXCEPT ![x] = Linking(Patched(s))]
                /\ IF x \in Deals \cup Companies THEN LogNext(s, "updated", {x})
                                                 ELSE Done(s)
           ELSE rec' = rec /\ Done(s)
  /\ UNCHANGED log

(* The database refuses an activity of a record that is gone; whatever the *)
(* error, it is passed over.                                               *)
logActivity(s) ==
  /\ calls[s].op = "log"
  /\ \/ /\ \A x \in calls[s].of : Present(x)
        /\ log' = log \cup {[type |-> calls[s].type, of |-> calls[s].of]}
     \/ log' = log
  /\ Done(s)
  /\ UNCHANGED rec

----------------------------------------------------------------------------
(* Removing.                                                               *)

(* A company, a deal or a task is looked up first, for its name in the log. *)
remove(s, x) ==
  /\ x \in Companies \cup Deals \cup Tasks
  /\ Begin(s, [op |-> "remove", at |-> "write", id |-> x, existing |-> IsRow(x)])
  /\ UNCHANGED <<rec, log>>

RemoveRecord(s) ==
  /\ Doing(s, "remove", "write")
  /\ Delete({calls[s].id} \cap {x \in Records : IsRow(x)})
  /\ IF calls[s].existing THEN LogNext(s, "deleted", {calls[s].id}) ELSE Done(s)

(* A note, a stage that no deal is in, or many companies or tasks at once.  *)
RemoveUnlogged(xs) ==
  /\ xs \subseteq Companies \/ xs \subseteq Tasks \/ \E x \in Notes \cup Stages : xs = {x}
  /\ xs # {} /\ \A x \in xs : IsRow(x)
  /\ \A d \in Deals : IsRow(d) => rec[d].links.stage \notin xs
  /\ Delete(xs)
  /\ UNCHANGED calls

----------------------------------------------------------------------------
(* seedDefaults: the stages are listed, and inserted if there are none.    *)

seedDefaults(s) ==
  /\ ~\E x \in Stages : IsRow(x)
  /\ Begin(s, [op |-> "seed", at |-> "write"])
  /\ UNCHANGED <<rec, log>>

InsertDefaults(s, xs) ==
  /\ Doing(s, "seed", "write")
  /\ \A x \in xs : rec[x] = Unborn
  /\ Cardinality(xs) = Cardinality(Defaults) /\ {PositionOf[x] : x \in xs} = Defaults
  /\ rec' = IF PositionsAreFree(xs)
              THEN [x \in Records |-> IF x \in xs THEN Linking(NoLinks) ELSE rec[x]]
              ELSE rec
  /\ Done(s)
  /\ UNCHANGED log

----------------------------------------------------------------------------

Calling(s) ==
  \/ \E table \in {Companies, Deals, Tasks, Notes, Stages}, links \in Given :
       \/ create(s, table, links)
       \/ \E x \in table : IsRow(x) /\ update(s, table, x, links)
  \/ \E x \in Records : remove(s, x)
  \/ \E xs \in SUBSET Records : RemoveUnlogged(xs)
  \/ seedDefaults(s)

Keeping(s) ==
  \/ assertBelongsToTenant(s) \/ UpdateRecord(s) \/ logActivity(s) \/ RemoveRecord(s)
  \/ \E x \in Records : InsertRecord(s, x)
  \/ \E xs \in SUBSET Stages : InsertDefaults(s, xs)

Next ==
  \/ NextStores /\ Delete({c \in Ids : Exists(c) /\ ~Exists(c)'})
  \/ /\ \E s \in Sessions : role[s] = "records" /\
          \/ Calling(s) /\ edits < MaxEdits[role] /\ edits' = edits + 1
          \/ Keeping(s) /\ UNCHANGED edits
     /\ UNCHANGED <<contacts, channels, role>>

Spec == Init /\ [][Next]_vars

----------------------------------------------------------------------------
(* Properties.                                                             *)

(* Whatever is looked up, removed and written meanwhile, a record's links  *)
(* lead to records that are there: a deal is in a stage, a task hangs on   *)
(* one record and a note on some, and those of deals and tasks are the     *)
(* caller's tenant's ("a foreign key only proves the row exists somewhere",*)
(* tenant-guard.ts:5).  The log speaks only of records that are there, so  *)
(* what was removed leaves no trace in it (activity-store.ts:110).         *)
LinksHold ==
  /\ \A table \in {Deals, Tasks, Notes} : \A x \in table :
       IsRow(x) =>
         /\ MayWrite(table, rec[x].links)
         /\ table # Notes => Linked(rec[x].links) \cap Elsewhere = {}
  /\ \A e \in log : \A x \in e.of : Present(x)
=================================================================================
