---------------------------- MODULE CampaignAudience ----------------------------
(***************************************************************************)
(* Suppression meets campaigns: a campaign's audience is materialized from *)
(* a list of contacts (domain-contacts/campaigns/segment-materializer.ts)  *)
(* for createMarketingCampaign, and sent later by sendCampaignNow          *)
(* (domain-campaigns/campaign-service.ts), while unsubscriptions, bounces  *)
(* and the tenant's edits go on.                                           *)
(***************************************************************************)
EXTENDS ContactSuppression

VARIABLES
  members,    \* contact_group_members of the list
  campaign,   \* the campaign made from it
  outSince    \* the addresses out of bounds since the audience was asked for

audienceVars == <<members, campaign, outSince>>
vars == <<suppressionVars, audienceVars>>

NoCampaign == [at |-> "none", ids |-> {}, audience |-> {}]

Campaign ==
  [at : {"none", "query", "made", "sent"}, ids : SUBSET Contacts,
   audience : SUBSET Addresses]

Init ==
  /\ InitSuppression
  /\ members = {c \in Contacts : Exists(c)}
  /\ campaign = NoCampaign
  /\ outSince = {}

Eligible(c) == ~contact[c].optOut /\ contact[c].valid

OutOfBounds ==
  {contact[c].address : c \in {d \in Contacts : Exists(d) /\ ~Eligible(d)}} \ {None}

AddMembers(cs) ==
  /\ Edit
  /\ cs # {} /\ \A c \in cs : Exists(c) /\ c \notin members
  /\ members' = members \cup cs
  /\ UNCHANGED <<contact, suppression, bus, handler, events, failed, campaign>>

RemoveMembers(cs) ==
  /\ Edit
  /\ cs # {} /\ cs \subseteq members
  /\ members' = members \ cs
  /\ UNCHANGED <<contact, suppression, bus, handler, events, failed, campaign>>

(* The list's members are read first,                                      *)
ReadMembers ==
  /\ campaign.at = "none"
  /\ campaign' = [campaign EXCEPT !.at = "query", !.ids = members]
  /\ UNCHANGED <<suppressionVars, members>>

WithAddress == {c \in campaign.ids : Exists(c) /\ contact[c].address # None}

(* Mutant: invalid addresses are kept.                                     *)
NotOptedOut == {contact[c].address : c \in {d \in WithAddress : ~contact[d].optOut}}

(* then their contacts, flags included, in one query.                      *)
Materialized == {contact[c].address : c \in {d \in WithAddress : Eligible(d)}}

QueryContacts ==
  /\ campaign.at = "query"
  /\ campaign' = [at |-> "made", ids |-> {}, audience |-> Materialized]
  /\ UNCHANGED <<suppressionVars, members>>

(* The provider sends to the list that was materialized.                   *)
SendCampaign ==
  /\ campaign.at = "made"
  /\ campaign' = [campaign EXCEPT !.at = "sent"]
  /\ UNCHANGED <<suppressionVars, members>>

(* The history that a property looks at: who was out of bounds when the    *)
(* members were read, and has been ever since.                             *)
Track ==
  outSince' = IF campaign.at = "none" THEN OutOfBounds'
              ELSE outSince \cap OutOfBounds'

Next ==
  /\ \/ /\ NextSuppression
        /\ members' = {c \in members : Exists(c)'}   \* ON DELETE CASCADE
        /\ UNCHANGED campaign
     \/ \E cs \in SUBSET Contacts : AddMembers(cs) \/ RemoveMembers(cs)
     \/ ReadMembers \/ QueryContacts \/ SendCampaign
  /\ Track

Spec == Init /\ [][Next]_vars /\ HandlersRun

-----------------------------------------------------------------------------
(* Properties.                                                              *)

TypeOK ==
  /\ SuppressionTypeOK
  /\ members \subseteq Contacts
  /\ campaign \in Campaign
  /\ outSince \subseteq Addresses

(* An address that was out of bounds when the audience was asked for, and   *)
(* has stayed so, is not in it, whatever was edited or handled between the  *)
(* two reads ("Excludes contacts where email_opt_out = true or email_valid  *)
(* = false", segment-materializer.ts:14).                                   *)
AudienceLeavesOut == TypeOK /\ campaign.audience \cap outSince = {}
================================================================================
