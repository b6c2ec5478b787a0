------------------------------ MODULE MCCrmScreens ------------------------------
(* Every screen of ui-crm, one of them mounted: two contacts, lists or        *)
(* campaigns to be about, two contacts to select, two queries; rows of two    *)
(* channels; two files and two mappings; a host that grants everything, only  *)
(* updates, or nothing.                                                       *)
EXTENDS CrmScreens, TLC

CONSTANTS a, b, c1, c2, q1, q2, email, sms, f1, f2, m1, m2, everyone, some

MCRows == {"row1", "row2"}
MCContactOf == [row1 |-> c1, row2 |-> c1]
MCChannelOf == [row1 |-> email, row2 |-> sms]
MCStarts == {0, 1}

MCGrants == {{"create", "update", "remove", "bulkActions", "import"}, {"update", "bulkActions"}, {}}

MCOpNames ==
  {"note", "delete", "tag", "save", "parse", "preview", "commit", "create", "edit", "add",
   "remove", "bulk", "write"} \cup MCRows

AllScreens ==
  {"contacts", "contact", "form", "import", "lists", "list", "suppression", "campaigns",
   "recipients", "analytics", "campaign", "wizard"}

ScreenSymmetry == Permutations({a, b}) \cup Permutations({q1, q2}) \cup Permutations({f1, f2})
=================================================================================
