---------------------------- MODULE MCContactStores ----------------------------
(* Two contacts; one number, which the tenant writes in the plain form or not, *)
(* on two channels, and one e-mail address.  One company, deal, task and note, *)
(* and three stages, two of them for one position.                             *)
EXTENDS PipelineStores, TLC
CONSTANTS c1, c2, co, d, t, n, g1, g2, g3, other
Plain(a) == [address |-> a, plain |-> TRUE]
Punctuated(a) == [address |-> a, plain |-> FALSE]
MCTenantRows ==
  [is : {"row"}, phone : {Plain("p1")}, email : {Nothing}, entries : {{"t1"}}] \cup
  [is : {"row"}, phone : {Punctuated("p1")}, email : {Plain("e1")}, entries : {{}}]
MCRoles == {[s \in Sessions |-> r] : r \in {"messages", "merges", "records"}}
MCMaxEdits == [r \in MCRoles |->
  CASE \E s \in Sessions : r[s] = "messages" -> 2
    [] \E s \in Sessions : r[s] = "merges"   -> 2
    [] OTHER -> 4]
MCPositionOf == (g1 :> 0) @@ (g2 :> 1) @@ (g3 :> 0)
MCGiven ==
  {NoLinks, [NoLinks EXCEPT !.company = other], [NoLinks EXCEPT !.deal = d],
   [NoLinks EXCEPT !.company = co, !.stage = g2]} \cup
  {[NoLinks EXCEPT !.contact = c] : c \in Ids} \cup
  {[NoLinks EXCEPT !.contact = c, !.deal = d] : c \in Ids} \cup
  {[NoLinks EXCEPT !.contact = c, !.stage = g2] : c \in Ids}

StoreSymmetry == Permutations(Sessions) \cup Permutations(Ids) \cup Permutations({g1, g3})
================================================================================
