------------------------------ MODULE CrmOperation ------------------------------
(***************************************************************************)
(* What every screen of ui-crm is built on: the hook useCrmOperation, the  *)
(* call to the host's adapter that it guards, and the commit of a render.  *)
(*                                                                         *)
(* One screen is mounted at a time, with the properties the host gives it: *)
(* what it is about and what its user may do.  A handler of the screen     *)
(* runs to its first await as one step (the browser runs one task at a     *)
(* time); the render it causes, and the layout effects of that render, are *)
(* part of the step, for React commits them in the same task.  What the    *)
(* adapter answers, and when, is open: the calls in flight are answered in *)
(* any order, as a result, a typed failure or a rejection.                 *)
(*                                                                         *)
(* A call keeps two things that only properties read: what the screen was  *)
(* about when it was made, and what its user had asked for.                *)
(***************************************************************************)
EXTENDS Naturals, FiniteSets

CONSTANTS
  None,       \* no value: nothing loaded, chosen, in flight
  Slots,      \* bound: the calls of a screen that are in flight together
  Targets,    \* what a screen may be opened on: contacts, lists, campaigns
  OpNames,    \* the operations of the screens, one hook each
  Grants      \* the sets of capabilities a host may give the user

ASSUME SlotsAssumption == Slots # {} /\ Slots \subseteq Nat

VARIABLES
  screen,     \* the screen that is mounted, None after it is unmounted
  props,      \* what the host gives it: [target, can]
  view,       \* the state of its hooks, a record of each screen's own
  ops,        \* the state of each of its useCrmOperation hooks
  calls,      \* the adapter's calls in flight: [Slots -> call or None]
  astray      \* history: an answer was let in that the screen was not about

vars == <<screen, props, view, ops, calls, astray>>

(***************************************************************************)
(* The hook                                                                *)
(***************************************************************************)
Idle == [flying |-> FALSE, error |-> None, last |-> None]

MayStart(op) == ~ops[op].flying

(* Only a failure that the adapter marked retryable offers a retry, and it *)
(* replays the attempt that failed.                                        *)
MayRetry(op) ==
  ops[op].error = "retryable" /\ ops[op].last # None /\ ~ops[op].flying

Attempted(op, args) ==
  [ops EXCEPT ![op] = [flying |-> TRUE, error |-> None, last |-> args]]

Answers == {"ok", "retryable", "final", "thrown"}

ASSUME AnswersAssumption == None \notin Answers

(* An adapter that throws is reported as a failure that is not retryable.  *)
safeAdapterCall(answer) == IF answer = "thrown" THEN "final" ELSE answer

(* Mutant: a failure leaves the guard of the double submit closed.         *)
SettledOnSuccess(op, answer) ==
  [ops EXCEPT ![op].flying = answer # "ok",
              ![op].error = IF answer = "ok" THEN None ELSE safeAdapterCall(answer)]

(* The attempt is kept for its retry, so only where a retry is offered.    *)
Settled(op, answer) ==
  [ops EXCEPT ![op].flying = FALSE,
              ![op].error = IF answer = "ok" THEN None ELSE safeAdapterCall(answer),
              ![op].last = IF answer = "retryable" THEN @ ELSE None]

(***************************************************************************)
(* Calls in flight.  A write is live until its scope changes; its answer   *)
(* still runs the code after the await.  A load that is superseded, and    *)
(* whatever is in flight when the screen is unmounted, is answered without *)
(* effect: such a call is forgotten.                                       *)
(***************************************************************************)
HasSlot == \E s \in Slots : calls[s] = None
FreeSlot(c) == CHOOSE s \in Slots : c[s] = None

Request(op, about, args) == [op |-> op, about |-> about, args |-> args, live |-> TRUE]

Made(c, call) == [c EXCEPT ![FreeSlot(c)] = call]
Taken(s) == [calls EXCEPT ![s] = None]
InFlight(op) == {s \in Slots : calls[s] # None /\ calls[s].op = op}

Superseded(c, op) ==
  [s \in Slots |-> IF c[s] # None /\ c[s].op = op THEN None ELSE c[s]]

(* A load needs a free slot, or that of the load it supersedes.            *)
MayLoad(op) == HasSlot \/ InFlight(op) # {}

(* ++request.current: a newer load is the only one that is let in.         *)
Loading(c, op, about) == Made(Superseded(c, op), Request(op, about, None))

(***************************************************************************)
(* The commit: before and after give the scope of each operation under the *)
(* render that is replaced and under the new one.  Where a scope changed,  *)
(* the operation starts anew and its calls in flight are retired.          *)
(***************************************************************************)
Rescoped(before, after, o) ==
  [op \in DOMAIN o |-> IF before[op] = after[op] THEN o[op] ELSE Idle]

(* Mutant: the layout effect clears what is shown and bumps no generation. *)
RetiredNothing(before, after, c) == c

Retired(before, after, c) ==
  [s \in Slots |->
     IF c[s] # None /\ c[s].op \in DOMAIN before /\ before[c[s].op] # after[c[s].op]
     THEN [c[s] EXCEPT !.live = FALSE] ELSE c[s]]

Commit(before, after, p, v, o, c) ==
  /\ props' = p
  /\ view' = v
  /\ ops' = Rescoped(before, after, o)
  /\ calls' = Retired(before, after, c)
  /\ UNCHANGED screen

(* An answer is let in: what it was asked about against what the screen is *)
(* about now.                                                              *)
Apply(call, about) == astray' = (astray \/ call.about # about)

NoCalls == [s \in Slots |-> None]

(* After unmount nothing is called back.                                   *)
Unmount ==
  /\ screen # None
  /\ screen' = None
  /\ calls' = NoCalls
  /\ ops' = [op \in DOMAIN ops |-> Idle]
  /\ view' = None
  /\ UNCHANGED <<props, astray>>

(* The host grants and revokes capabilities while the screen is mounted.   *)
Regrants == {[props EXCEPT !.can = can] : can \in Grants \ {props.can}}

(***************************************************************************)
(* Properties                                                              *)
(***************************************************************************)

(* What a screen shows, or leaves for, after an answer is what it was about *)
(* when it asked: "contact A can never mutate, render for, or navigate from *)
(* B" (useCrmOperation.ts:22), whatever the user and the host did meanwhile *)
(* and in whatever order the adapter answered. The page of the lists is     *)
(* held to the query the screen asked for last, which after a create or an  *)
(* edit may be one the user has left (ListsScreen.tsx:136).                 *)
AnswersStayInContext == ~astray

(* A write names what its user asked for: the contacts of the confirmation, *)
(* the list of the dialog, the contact a note was drafted on, the values    *)
(* that were loaded for the contact they are saved to.                      *)
WritesAreAsAsked ==
  \A s \in Slots :
    calls[s] # None /\ calls[s].args # None => calls[s].args.names = calls[s].args.asked

(* What is pending is awaited: a call of that operation, for what the      *)
(* screen is about now, will be answered and settle it, so no control stays *)
(* shut for good, also where the answer is a rejection or the one before it *)
(* came too late (useCrmOperation.ts:25).                                   *)
PendingIsAwaited ==
  \A op \in DOMAIN ops :
    ops[op].flying => \E s \in InFlight(op) : calls[s].live
=================================================================================
