--------------------------- MODULE MCCampaignAudience ---------------------------
(* Two contacts, two addresses; one contact and either address are heard of. *)
(* No symmetry: it is checked for liveness.                                  *)
EXTENDS CampaignAudience
CONSTANTS c1, c2, a1, a2
MCPopulations ==
  {[c \in Contacts |-> IF c = c1 THEN a1 ELSE a2],
   [c \in Contacts |-> IF c = c1 THEN a1 ELSE None]}
MCReported ==
  [kind : {"unsubscribe"}, contact : {c1}, address : {None}] \cup
  [kind : {"unsubscribe", "hardBounce"}, contact : {None}, address : {a1}] \cup
  [kind : {"softBounce"}, contact : {None}, address : {a2}] \cup
  [kind : {"bareBounce"}, contact : {c1}, address : {None}]
================================================================================
