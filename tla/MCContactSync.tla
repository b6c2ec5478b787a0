----------------------------- MODULE MCContactSync -----------------------------
(* Two values of the contact; events that put it on a list as a lead or as    *)
(* quoted, one that takes it off as a customer, and one more about customers.  *)
EXTENDS ContactSync, TLC

CONSTANTS l1, v1, v2, lead, quoted, customer

MCActions ==
  {[stage |-> lead, add |-> {l1}, remove |-> {}],
   [stage |-> quoted, add |-> {l1}, remove |-> {}],
   [stage |-> customer, add |-> {}, remove |-> {l1}],
   [stage |-> customer, add |-> {}, remove |-> {}]}

(* Where two syncs interleave, two events are enough.                         *)
MCOtherActions ==
  {action \in MCActions : action.stage = lead \/ action.remove # {}}

SessionSymmetry == Permutations(Sessions)
================================================================================
