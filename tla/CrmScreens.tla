------------------------------- MODULE CrmScreens -------------------------------
(***************************************************************************)
(* ui-crm: a host mounts one of the screens, and the adapter answers what  *)
(* the screen asks.                                                        *)
(***************************************************************************)
EXTENDS ContactScreens, ImportScreen, ListScreens, SuppressionScreen, CampaignScreens,
        WizardScreen

CONSTANT Mounted        \* bound: the screens that a host mounts

(* Where no screen is mounted, None is.                                    *)
ASSUME ScreensAssumption ==
  None \notin {"contacts", "contact", "form", "import", "lists", "list", "suppression",
             "campaigns", "recipients", "analytics", "campaign", "wizard"}

(* A free slot, None, is no request: not of any operation O, about any of X *)
(* with any of A to send.                                                  *)
ASSUME RequestsAssumption ==
  LET Asked(N) == [names : N, asked : N]
      Sent(O, X, A) == [op : O, about : X, args : A, live : BOOLEAN]
      Owner == Targets \cup {None}
      Start == Owner \X Nat
      Input == [contacts : SUBSET {ContactOf[r] : r \in Rows}, channel : Channels,
                suppressed : BOOLEAN]
  IN  /\ None \notin Sent({"tag", "delete"}, SUBSET Contacts, Asked(SUBSET Contacts))
      /\ None \notin Sent({"note", "delete", "save"}, Owner, Asked({{t} : t \in Owner}))
      /\ None \notin Sent({"parse", "preview", "commit"}, {None} \cup Files \cup Snapshots,
                             Asked({{x} : x \in Files \cup Snapshots}))
      /\ None \notin Sent({"create", "edit", "delete"},
                             BOOLEAN \cup {None} \cup [id : Lists, changed : BOOLEAN] \cup Lists,
                             [names : {{l} : l \in Lists \cup {None}},
                              asked : {{l} : l \in Lists \cup {None}}, reload : ListQueries])
      /\ None \notin Sent({"add", "remove"}, Targets \X SUBSET Members,
                             Asked(Targets \X SUBSET Members))
      /\ None \notin Sent({"bulk"} \cup Rows, Input, Asked(Input))
      /\ None \notin Sent({"write"}, Targets,
                             Asked(Targets \X {"schedule", "start", "pause", "resume",
                                               "complete", "cancel", "delete"}))
      /\ None \notin Sent({"write"}, Owner,
                             [names : Start, asked : Start, step : {"save", "audience"},
                              audience : Audiences \cup {None}, created : 0..1])

Init ==
  /\ screen \in Mounted
  /\ \/ ContactsInit \/ DetailInit \/ FormInit \/ ImportInit \/ ListsInit \/ ListInit
     \/ SuppressionInit \/ BrowseInit \/ CampaignInit \/ WizardInit

Next ==
  \/ ContactsNext \/ DetailNext \/ FormNext \/ ImportNext \/ ListsNext \/ ListNext
  \/ SuppressionNext \/ BrowseNext \/ CampaignNext \/ WizardNext
  \/ Unmount

Spec == Init /\ [][Next]_vars

(* No control stays shut for good.  Of each kind of write at most one call  *)
(* is in flight, and its lock is held exactly as long: neither a capability *)
(* taken away and given back, nor another list or campaign on the screen,   *)
(* nor an answer that comes too late opens a form to a second write beside  *)
(* the first (the locks of ListsScreen.tsx:127, ListDetailScreen.tsx:117,   *)
(* SuppressionScreen.tsx:253 and CampaignDetailScreen.tsx:83).              *)
LocksCoverWrites ==
  /\ PendingIsAwaited
  /\ screen \in {"lists", "list"} =>
       \A op \in DOMAIN ops :
         /\ Cardinality(InFlight(op)) <= 1
         /\ Locked(view, op) <=> InFlight(op) # {}
  /\ screen \in {"suppression", "campaign"} =>
       LET writing == {s \in Slots : calls[s] # None /\ calls[s].op # "load"}
       IN  Cardinality(writing) <= 1 /\ (view.locked <=> writing # {})

(* What a user submits is done once, however the answers go astray: an      *)
(* import commits a file's rows once from one screen, and the retries of a  *)
(* campaign's form create one campaign (ContactImportScreen.tsx:117,        *)
(* CampaignWizardScreen.tsx:430).                                           *)
SubmittedOnce == ImportedOnce /\ SavedCreatesOnce
================================================================================
