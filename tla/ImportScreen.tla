------------------------------ MODULE ImportScreen ------------------------------
(***************************************************************************)
(* The import of contacts: a file is parsed, its columns are mapped, the   *)
(* import is previewed and then committed.  The screen must not import the *)
(* same rows under the same mapping twice, whatever became of the first    *)
(* attempt, and must import what it previewed.                             *)
(*                                                                         *)
(* view keeps two histories: picked, the file chosen last, and imported,   *)
(* how often the host really imported each snapshot (counted up to two).   *)
(***************************************************************************)
EXTENDS CrmOperation

CONSTANTS
  Files,      \* rows of a file, whatever the file is called
  Mappings,   \* assignments of its columns to fields
  Unmapped    \* every column ignored: the mapping a parsed file starts with

ASSUME UnmappedAssumption == Unmapped \in Mappings

Snapshots == Files \X Mappings

(* Identity of what is imported, from the data alone: the encoding tags    *)
(* every value with its type and sorts keys, so that two snapshots have    *)
(* one key exactly when rows and mapping are the same.                     *)
snapshotFingerprint(rows, mapping) == <<rows, mapping>>

ImportInit ==
  /\ screen = "import"
  /\ props \in [target : {None}, can : Grants]
  /\ view = [parsed |-> None, mapping |-> Unmapped, previewed |-> None, complete |-> FALSE,
             retired |-> {}, picked |-> None, imported |-> [s \in Snapshots |-> 0]]
  /\ ops = [op \in {"parse", "preview", "commit"} |-> Idle]
  /\ calls = NoCalls
  /\ astray = FALSE

Allows(p) == "import" \in p.can

OnScreen(v) ==
  IF v.parsed = None THEN None ELSE snapshotFingerprint(v.parsed, v.mapping)

(* The parse belongs to the capability, the preview to the rows and the    *)
(* mapping on screen, the commit to the snapshot that was previewed.       *)
ImportScopes(v, p) ==
  [parse |-> Allows(p), preview |-> <<Allows(p), OnScreen(v)>>, commit |-> <<Allows(p), v.previewed>>]

ImportAbout(op, v) ==
  CASE op = "parse" -> v.picked [] op = "preview" -> OnScreen(v) [] op = "commit" -> v.previewed

ImportCommit(v, o, c) == Commit(ImportScopes(view, props), ImportScopes(v, props), props, v, o, c)

ImportStart(op, v, args) ==
  /\ HasSlot
  /\ ImportCommit(v, Attempted(op, args), Made(calls, Request(op, ImportAbout(op, v), args)))
  /\ UNCHANGED astray

Committing == ops["commit"].flying

(* A new file invalidates every later step; what was imported stays known. *)
parse ==
  /\ Allows(props) /\ MayStart("parse") /\ ~Committing
  /\ \E f \in Files :
       ImportStart("parse",
         [view EXCEPT !.parsed = None, !.mapping = Unmapped, !.previewed = None,
                      !.complete = FALSE, !.picked = f],
         [names |-> {f}, asked |-> {f}])

changeMapping ==
  /\ Allows(props) /\ view.parsed # None /\ ~Committing
  /\ \E m \in Mappings :
       ImportCommit([view EXCEPT !.mapping = m, !.previewed = None, !.complete = FALSE],
                    ops, calls)
  /\ UNCHANGED astray

showPreview ==
  /\ Allows(props) /\ view.parsed # None /\ MayStart("preview") /\ ~Committing
  /\ ImportStart("preview", view, [names |-> {OnScreen(view)}, asked |-> {OnScreen(view)}])

(* What is still importable: neither done nor in doubt.                    *)
Importable == view.previewed # None /\ ~view.complete /\ view.previewed \notin view.retired

(* commit reserves the snapshot before it awaits the adapter; its retry is *)
(* the same handler.                                                       *)
commit ==
  /\ Allows(props) /\ Importable /\ MayStart("commit")
  /\ ImportStart("commit", [view EXCEPT !.retired = @ \cup {view.previewed}],
                 [names |-> {view.previewed}, asked |-> {OnScreen(view)}])

ImportRetry(op) ==
  /\ Allows(props) /\ MayRetry(op)
  /\ ImportStart(op, view, ops[op].last)

Parsed(s, answer) ==
  /\ calls[s] # None /\ calls[s].op = "parse"
  /\ IF ~calls[s].live
     THEN ImportCommit(view, ops, Taken(s)) /\ UNCHANGED astray
     ELSE /\ Apply(calls[s], ImportAbout("parse", view))
          /\ ImportCommit(
               IF answer = "ok"
               THEN [view EXCEPT !.parsed = calls[s].about, !.mapping = Unmapped] ELSE view,
               Settled("parse", answer), Taken(s))

Previewed(s, answer) ==
  /\ calls[s] # None /\ calls[s].op = "preview"
  /\ IF ~calls[s].live
     THEN ImportCommit(view, ops, Taken(s)) /\ UNCHANGED astray
     ELSE /\ Apply(calls[s], ImportAbout("preview", view))
          /\ ImportCommit(
               IF answer = "ok" THEN [view EXCEPT !.previewed = calls[s].about] ELSE view,
               Settled("preview", answer), Taken(s))

(* Mutant: every failure releases the snapshot.                            *)
ReleasedOnThrow(answer) == answer # "ok"

(* A typed failure proves that nothing was imported, and releases the      *)
(* snapshot even where the screen has moved on; after a rejection nobody   *)
(* knows, and the snapshot stays reserved.                                 *)
Released(answer) == answer \in {"retryable", "final"}

Committed(s, answer) ==
  /\ calls[s] # None /\ calls[s].op = "commit"
  /\ \E n \in IF answer = "ok" THEN {1} ELSE IF answer = "thrown" THEN {0, 1} ELSE {0} :
       LET snapshot == CHOOSE x \in calls[s].args.names : TRUE
           v == [view EXCEPT
                   !.imported[snapshot] = IF @ + n > 2 THEN 2 ELSE @ + n,
                   !.retired = IF Released(answer) THEN @ \ {snapshot} ELSE @,
                   !.complete = @ \/ (calls[s].live /\ answer = "ok")]
       IN  IF ~calls[s].live
           THEN ImportCommit(v, ops, Taken(s)) /\ UNCHANGED astray
           ELSE /\ Apply(calls[s], ImportAbout("commit", view))
                /\ ImportCommit(v, Settled("commit", answer), Taken(s))

ImportRegrant ==
  /\ \E p \in Regrants :
       Commit(ImportScopes(view, props), ImportScopes(view, p), p, view, ops, calls)
  /\ UNCHANGED astray

ImportNext ==
  /\ screen = "import"
  /\ \/ parse \/ changeMapping \/ showPreview \/ commit \/ ImportRegrant
     \/ \E op \in {"parse", "preview"} : ImportRetry(op)
     \/ \E s \in Slots, answer \in Answers :
          Parsed(s, answer) \/ Previewed(s, answer) \/ Committed(s, answer)

(* The same rows under the same mapping are imported at most once from one *)
(* screen: after a success, a rejection whose outcome is unknown, a        *)
(* capability taken away and given back, the same file chosen again        *)
(* ("the same payload can never be committed twice from this screen",      *)
(* ContactImportScreen.tsx:117).                                           *)
ImportedOnce == screen = "import" => \A s \in Snapshots : view.imported[s] <= 1
=================================================================================
