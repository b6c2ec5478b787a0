--------------------------- MODULE SupportDeskProofs ---------------------------
(***************************************************************************)
(* Proofs about who gets to know what is said on a ticket, and about the   *)
(* copies at the specialist desk, for any number of tickets, threads,      *)
(* attachments and calls.                                                  *)
(***************************************************************************)
EXTENDS SupportDesk, TLAPS

Items == Tickets \cup Threads

TicketRow     == [there : BOOLEAN, ref : BOOLEAN, sync : {"clean", "error"}]
ThreadRow     == [on : Tickets, internal : BOOLEAN]
AttachmentRow == [on : Tickets, thread : Threads \cup {None}]

AppendCall == [op : {"append"}, at : {"notify"}, thread : Threads, byRequester : BOOLEAN]
ListCall   == [op : {"list"}, at : {"threads"}, ticket : Tickets, listed : SUBSET Attachments]
CopyCall   == [op : {"copy"}, at : {"read", "resolve", "push", "ref", "mark", "letter"},
               item : Items, ticket : Tickets, ref : BOOLEAN]
Calls == {Idle} \cup AppendCall \cup ListCall \cup CopyCall

RowsTyped ==
  /\ ticket \in [Tickets -> TicketRow]
  /\ thread \in [Threads -> ThreadRow \cup {NoThread}]
  /\ attachment \in [Attachments -> AttachmentRow \cup {Missing}]

DeskTyped == desk \subseteq Items /\ letters \subseteq Items /\ tried \subseteq Items

CallsTyped == call \in [Sessions -> Calls]

\* A file hangs on a thread that is there.
FilesHang ==
  \A a \in Attachments :
    attachment[a] # Missing /\ attachment[a].thread # None =>
      thread[attachment[a].thread] # NoThread

\* What was shown is there, and is not internal.
ShownIsPublic ==
  /\ \A h \in Threads : h \in outside => thread[h] # NoThread /\ ~Internal(h)
  /\ \A a \in Attachments : a \in outside =>
       /\ attachment[a] # Missing
       /\ attachment[a].thread # None => ~Internal(attachment[a].thread)

\* A call that appended or listed something works on what is there.
ServiceFits(c) ==
  /\ c.op = "append" => thread[c.thread] # NoThread
  /\ c.op = "list" => \A a \in c.listed : attachment[a] # Missing

\* A copy is of a row that is there; of a reply only once the ticket has been
\* copied; it is tried once; and its failure is put down before its letter.
CopyFits(c) ==
  c.op = "copy" =>
    /\ c.item \in Threads => thread[c.item] # NoThread
    /\ TicketOf(c.item) = c.ticket /\ ticket[c.ticket].there
    /\ c.item \in Threads /\ c.ref => ticket[c.ticket].ref
    /\ c.at \in {"read", "resolve", "push"} => c.item \notin tried
    /\ c.at = "push" => c.ref
    /\ c.at = "ref" => c.item \in Tickets /\ c.item \in desk
    /\ c.at = "letter" => ticket[c.ticket].sync = "error"

\* Nothing is copied by two calls.
OneCopies ==
  \A r, s \in Sessions :
    call[r].op = "copy" /\ call[s].op = "copy" /\ Item(r) = Item(s) => r = s

\* What was tried or copied is there, and a ticket's reference is the desk's.
CopiesAreOfRows ==
  /\ \A item \in tried \cup desk :
       /\ item \in Threads => thread[item] # NoThread
       /\ ticket[TicketOf(item)].there
  /\ \A t \in Tickets : ticket[t].ref => t \in desk

\* The inductive invariant, of what is shown and of what is copied.
ShownInv ==
  RowsTyped /\ CallsTyped /\ FilesHang /\ ShownIsPublic /\ \A s \in Sessions : ServiceFits(call[s])

DeskInv ==
  /\ ShownInv /\ DeskTyped /\ OneCopies /\ CopiesAreOfRows /\ DeskIsAccountedFor
  /\ \A s \in Sessions : CopyFits(call[s])

-------------------------------------------------------------------------------
(* Rows and calls *)

\* What calls are, by their operation.
LEMMA CallKinds ==
  ASSUME CallsTyped, NEW s \in Sessions
  PROVE  /\ call[s].op = "none" <=> call[s] = Idle
         /\ call[s].op = "append" <=> call[s] \in AppendCall
         /\ call[s].op = "list" <=> call[s] \in ListCall
         /\ call[s].op = "copy" <=> call[s] \in CopyCall
         /\ call[s] # Idle => call[s].op \in {"append", "list", "copy"}
BY DEF CallsTyped, Calls, Idle, AppendCall, ListCall, CopyCall

\* One call goes on as c.
LEMMA CallSet ==
  ASSUME CallsTyped, NEW s \in Sessions, NEW c \in Calls, call' = [call EXCEPT ![s] = c]
  PROVE  CallsTyped' /\ call'[s] = c /\ \A r \in Sessions : r # s => call'[r] = call[r]
BY DEF CallsTyped

\* Rows are only ever added, or marked.
RowsGrow ==
  /\ \A t \in Tickets : /\ ticket[t].there => ticket'[t].there
                        /\ ticket[t].ref => ticket'[t].ref
                        /\ ticket[t].sync = "error" => ticket'[t].sync = "error"
  /\ \A h \in Threads : thread[h] # NoThread => thread'[h] = thread[h]
  /\ \A a \in Attachments : attachment[a] # Missing => attachment'[a] = attachment[a]

\* A call that works on rows that are there keeps doing so.
LEMMA ServiceFitsOn ==
  ASSUME RowsTyped, CallsTyped, RowsGrow, NEW s \in Sessions, ServiceFits(call[s])
  PROVE  \A c \in {call[s]} :
           /\ c.op = "append" => thread'[c.thread] # NoThread
           /\ c.op = "list" => \A a \in c.listed : attachment'[a] # Missing
<1>1. call[s].op = "append" => call[s].thread \in Threads
  BY CallKinds DEF AppendCall
<1>2. call[s].op = "list" => call[s].listed \subseteq Attachments
  BY CallKinds DEF ListCall
<1> QED BY <1>1, <1>2 DEF RowsGrow, ServiceFits

\* Rows that are there stay as they are where something internal is at stake.
LEMMA ShownKept ==
  ASSUME ShownInv, RowsTyped', RowsGrow, FilesHang', CallsTyped',
         \A r \in Sessions : call'[r] = call[r] \/ ServiceFits(call[r])',
         \A h \in Threads : h \in outside' \ outside => thread[h] # NoThread /\ ~Internal(h),
         \A a \in Attachments : a \in outside' \ outside =>
           /\ attachment[a] # Missing
           /\ attachment[a].thread # None => ~Internal(attachment[a].thread)
  PROVE  ShownInv'
<1>1. ASSUME NEW r \in Sessions PROVE ServiceFits(call[r])'
  <2>1. CASE call'[r] = call[r]
    BY <2>1, ServiceFitsOn DEF ShownInv, ServiceFits
  <2> QED BY <2>1
<1>2. \A h \in Threads : h \in outside' => thread'[h] # NoThread /\ ~Internal(h)'
  BY DEF ShownInv, ShownIsPublic, RowsGrow, Internal
<1>3. ASSUME NEW a \in Attachments, a \in outside'
      PROVE  /\ attachment'[a] # Missing
             /\ attachment'[a].thread # None => ~Internal(attachment[a].thread)'
  <2>1. /\ attachment[a] # Missing /\ attachment'[a] = attachment[a]
        /\ attachment[a].thread # None => ~Internal(attachment[a].thread)
    BY <1>3 DEF ShownInv, ShownIsPublic, RowsGrow
  <2>2. attachment[a] \in AttachmentRow
    BY <2>1 DEF ShownInv, RowsTyped
  <2>3. attachment[a].thread # None =>
          /\ attachment[a].thread \in Threads
          /\ thread[attachment[a].thread] # NoThread
    BY <2>1, <2>2 DEF ShownInv, FilesHang, AttachmentRow
  <2> QED BY <2>1, <2>3 DEF RowsGrow, Internal
<1> QED BY <1>1, <1>2, <1>3 DEF ShownInv, ShownIsPublic

\* The same of a step of one call.
LEMMA ShownStep ==
  ASSUME ShownInv, RowsTyped', RowsGrow, FilesHang', NEW s \in Sessions, NEW c \in Calls,
         call' = [call EXCEPT ![s] = c] \/ call' = call,
         call' = call \/ ServiceFits(c)',
         \A h \in Threads : h \in outside' \ outside => thread[h] # NoThread /\ ~Internal(h),
         \A a \in Attachments : a \in outside' \ outside =>
           /\ attachment[a] # Missing
           /\ attachment[a].thread # None => ~Internal(attachment[a].thread)
  PROVE  ShownInv'
<1>1. /\ CallsTyped' /\ (call' # call => call'[s] = c)
      /\ \A r \in Sessions : r # s => call'[r] = call[r]
  BY CallSet DEF ShownInv, CallsTyped
<1>2. ServiceFits(c)' /\ call'[s] = c => ServiceFits(call[s])'
  BY DEF ServiceFits
<1> QED BY <1>1, <1>2, ShownKept

-------------------------------------------------------------------------------
(* What is shown *)

\* A step that adds no rows.
LEMMA RowsStay ==
  ASSUME ShownInv, UNCHANGED storeVars
  PROVE  RowsTyped' /\ RowsGrow /\ FilesHang'
BY DEF ShownInv, storeVars, RowsTyped, RowsGrow, FilesHang

LEMMA CalmStep ==
  ASSUME ShownInv, UNCHANGED storeVars, UNCHANGED outside, NEW s \in Sessions, NEW c \in Calls,
         call' = [call EXCEPT ![s] = c] \/ call' = call,
         call' = call \/ ServiceFits(c)'
  PROVE  ShownInv'
BY RowsStay, ShownStep

\* A thread is added.
LEMMA AppendGrows ==
  ASSUME ShownInv, NEW h \in Threads, NEW t \in Tickets, NEW internal \in BOOLEAN,
         Append(h, t, internal)
  PROVE  RowsTyped' /\ RowsGrow /\ FilesHang' /\ thread'[h] # NoThread
<1> DEFINE row == [on |-> t, internal |-> internal]
<1>1. row \in ThreadRow /\ row # NoThread
  BY DeskAssumption DEF ThreadRow, NoThread
<1>2. /\ thread[h] = NoThread /\ thread' = [thread EXCEPT ![h] = row]
      /\ UNCHANGED <<ticket, attachment>>
  BY DEF Append
<1> HIDE DEF row
<1>3. RowsTyped' /\ RowsGrow /\ thread'[h] # NoThread
  BY <1>1, <1>2 DEF ShownInv, RowsTyped, RowsGrow
<1>4. ASSUME NEW a \in Attachments, attachment'[a] # Missing, attachment'[a].thread # None
      PROVE  thread'[attachment'[a].thread] # NoThread
  <2>1. attachment[a] \in AttachmentRow /\ attachment'[a] = attachment[a]
    BY <1>2, <1>4 DEF ShownInv, RowsTyped
  <2>2. attachment[a].thread \in Threads /\ thread[attachment[a].thread] # NoThread
    BY <1>4, <2>1 DEF ShownInv, FilesHang, AttachmentRow
  <2> QED BY <2>1, <2>2, <1>3 DEF RowsGrow
<1> QED BY <1>3, <1>4 DEF FilesHang

LEMMA ServiceKeepsShown ==
  ASSUME ShownInv, NEW s \in Sessions, Service(s)
  PROVE  ShownInv'
<1>1. ASSUME NEW h \in Threads, NEW t \in Tickets,
             NEW isAgent \in BOOLEAN, NEW internal \in BOOLEAN, NEW byRequester \in BOOLEAN,
             appendThread(s, h, t, isAgent, internal, byRequester)
      PROVE  ShownInv'
  <2> DEFINE c == [op |-> "append", at |-> "notify", thread |-> h, byRequester |-> byRequester]
  <2>1. c \in Calls /\ c.op = "append" /\ c.thread = h
    BY DEF Calls, AppendCall
  <2>2. call' = [call EXCEPT ![s] = c] /\ UNCHANGED outside
    BY <1>1 DEF appendThread
  <2>3. RowsTyped' /\ RowsGrow /\ FilesHang' /\ thread'[h] # NoThread
    BY <1>1, AppendGrows DEF appendThread
  <2> HIDE DEF c
  <2>4. ServiceFits(c)'
    BY <2>1, <2>3 DEF ServiceFits
  <2> QED BY <2>1, <2>2, <2>3, <2>4, ShownStep
<1>2. ASSUME NEW t \in Tickets, listThreads(s, t) PROVE ShownInv'
  <2>1. /\ UNCHANGED <<storeVars, call>>
        /\ outside' = outside \cup {h \in Threads : thread[h].on = t /\ ~Internal(h)}
    BY <1>2 DEF listThreads
  <2>2. \A h \in Threads : h \in outside' \ outside => thread[h] # NoThread /\ ~Internal(h)
    BY <2>1, DeskAssumption DEF NoThread
  <2>3. \A a \in Attachments : a \notin outside' \ outside
    BY <2>1, DeskAssumption
  <2>4. Idle \in Calls
    BY DEF Calls
  <2> QED BY <2>1, <2>2, <2>3, <2>4, RowsStay, ShownStep
<1>3. ASSUME NEW t \in Tickets, listAttachments(s, t) PROVE ShownInv'
  <2> DEFINE listed == {a \in Attachments : attachment[a].on = t}
             c == [op |-> "list", at |-> "threads", ticket |-> t, listed |-> listed]
  <2>1. \A a \in listed : attachment[a] # Missing
    BY DeskAssumption DEF Missing
  <2>2. UNCHANGED storeVars
    BY <1>3 DEF listAttachments
  <2>3. CASE call' = [call EXCEPT ![s] = c] /\ UNCHANGED outside
    <3>1. c \in Calls /\ c.op = "list" /\ c.listed = listed
      BY DEF Calls, ListCall
    <3>2. \A a \in listed : attachment'[a] # Missing
      BY <2>1, <2>2 DEF storeVars
    <3>3. PICK w \in Calls : w = c
      BY <3>1
    <3> HIDE DEF c
    <3>4. ServiceFits(w)'
      BY <3>1, <3>2, <3>3 DEF ServiceFits
    <3> HIDE DEF listed
    <3> QED BY <2>2, <2>3, <3>3, <3>4, CalmStep
  <2>4. CASE ~HangOnThreads(listed) /\ outside' = outside \cup listed /\ UNCHANGED call
    <3>1. \A a \in Attachments : a \in outside' \ outside =>
            attachment[a] # Missing /\ attachment[a].thread = None
      BY <2>1, <2>4 DEF HangOnThreads
    <3>2. \A h \in Threads : h \notin outside' \ outside
      BY <2>4, DeskAssumption
    <3>3. Idle \in Calls
      BY DEF Calls
    <3> QED BY <2>2, <2>4, <3>1, <3>2, <3>3, RowsStay, ShownStep
  <2> QED BY <1>3, <2>3, <2>4 DEF listAttachments
<1>4. ASSUME SendNotifications(s) PROVE ShownInv'
  <2>1. call[s] \in AppendCall /\ call[s].thread \in Threads /\ thread[call[s].thread] # NoThread
    BY <1>4, CallKinds DEF SendNotifications, At, ShownInv, ServiceFits, AppendCall
  <2>2. /\ UNCHANGED storeVars /\ call' = [call EXCEPT ![s] = Idle]
        /\ \A x \in outside' \ outside : x = call[s].thread /\ ~Internal(x)
    BY <1>4 DEF SendNotifications, End, ToCustomer
  <2>3. \A a \in Attachments : a \notin outside' \ outside
    BY <2>1, <2>2, DeskAssumption
  <2>4. Idle \in Calls /\ ServiceFits(Idle)'
    BY DEF Calls, ServiceFits, Idle
  <2> QED BY <2>1, <2>2, <2>3, <2>4, RowsStay, ShownStep
<1>5. ASSUME ListInternal(s) PROVE ShownInv'
  <2>1. /\ call[s] \in ListCall /\ call[s].listed \subseteq Attachments
        /\ \A a \in call[s].listed : attachment[a] # Missing
    BY <1>5, CallKinds DEF ListInternal, At, ShownInv, ServiceFits, ListCall
  <2>2. /\ UNCHANGED storeVars /\ call' = [call EXCEPT ![s] = Idle]
        /\ \A x \in outside' \ outside :
             /\ x \in call[s].listed
             /\ attachment[x].thread = None \/ ~Internal(attachment[x].thread)
    BY <1>5 DEF ListInternal, End
  <2>3. \A h \in Threads : h \notin outside' \ outside
    BY <2>1, <2>2, DeskAssumption
  <2>4. Idle \in Calls /\ ServiceFits(Idle)'
    BY DEF Calls, ServiceFits, Idle
  <2> QED BY <2>1, <2>2, <2>3, <2>4, RowsStay, ShownStep
<1> QED BY <1>1, <1>2, <1>3, <1>4, <1>5 DEF Service

\* No file is attached to a thread that is not there.
LEMMA AttachKeepsShown ==
  ASSUME ShownInv, NEW a \in Attachments, NEW t \in Tickets, NEW h \in Threads \cup {None},
         Attach(a, t, h)
  PROVE  ShownInv' /\ RowsGrow
<1> DEFINE row == [on |-> t, thread |-> h]
<1>1. row \in AttachmentRow /\ row.thread = h
  BY DEF AttachmentRow
<1>2. /\ attachment[a] = Missing /\ attachment' = [attachment EXCEPT ![a] = row]
      /\ UNCHANGED <<ticket, thread, call, outside>>
      /\ h # None => thread[h] # NoThread
  BY DeskAssumption DEF Attach, NoThread
<1> HIDE DEF row
<1>3. RowsTyped' /\ RowsGrow
  BY <1>1, <1>2 DEF ShownInv, RowsTyped, RowsGrow
<1>4. FilesHang'
  BY <1>1, <1>2 DEF ShownInv, RowsTyped, FilesHang
<1>5. CallsTyped'
  BY <1>2 DEF ShownInv, CallsTyped
<1> QED BY <1>2, <1>3, <1>4, <1>5, ShownKept

-------------------------------------------------------------------------------
(* What is copied *)

LEMMA ItemsAreTyped ==
  ASSUME CallsTyped, NEW s \in Sessions, call[s].op = "copy"
  PROVE  /\ Item(s) \in Items /\ call[s].ticket \in Tickets
         /\ call[s] = [op |-> "copy", at |-> call[s].at, item |-> call[s].item,
                       ticket |-> call[s].ticket, ref |-> call[s].ref]
         /\ call[s].at \in {"read", "resolve", "push", "ref", "mark", "letter"}
         /\ call[s].ref \in BOOLEAN
BY CallKinds DEF CopyCall, Item

\* Of what an item is said stays true of it.
LEMMA TicketOfStays ==
  ASSUME RowsTyped, RowsGrow, NEW item \in Items,
         item \in Threads => thread[item] # NoThread
  PROVE  /\ TicketOf(item) \in Tickets
         /\ TicketOf(item)' = TicketOf(item)
         /\ item \in Threads => thread'[item] # NoThread
<1>1. item \in Tickets => item \notin Threads
  BY DeskAssumption
<1>2. item \in Threads => thread[item] \in ThreadRow
  BY DEF RowsTyped
<1> QED BY <1>1, <1>2 DEF TicketOf, RowsGrow, ThreadRow, Items

\* How the item s copies is settled.
Settled(item) ==
  \/ item \in desk /\ ticket[TicketOf(item)].ref
  \/ item \in letters /\ ticket[TicketOf(item)].sync = "error"

\* A step that copies nothing, or goes on with one copy, and settles what it
\* lets go.
LEMMA DeskKept ==
  ASSUME DeskInv, ShownInv', RowsGrow, NEW S \in SUBSET Sessions,
         \A r, s \in S : r = s,
         \A r \in Sessions \ S : call'[r] = call[r],
         desk \subseteq desk', letters \subseteq letters', letters' \subseteq Items,
         \A item \in (tried' \cup desk') \ (tried \cup desk) :
           \E s \in S : call[s].op = "copy" /\ item = Item(s),
         \A item \in tried' \ tried : \E s \in S : call[s].op = "copy" /\ item = Item(s),
         \A item \in desk' \ desk :
           \E s \in S : call[s].op = "copy" /\ call[s].at = "push" /\ item = Item(s),
         \A t \in Tickets : ticket'[t].ref => ticket[t].ref \/ t \in desk',
         \A s \in S :
           /\ CopyFits(call[s])'
           /\ call'[s].op = "copy" =>
                \/ call[s].op = "copy" /\ Item(s)' = Item(s)
                \/ /\ call[s].op # "copy"
                   /\ \A r \in Sessions : call[r].op = "copy" => Item(r) # Item(s)'
           /\ call[s].op = "copy" /\ call'[s].op # "copy" =>
                \A item \in {Item(s)} : item \in tried' => Settled(item)'
  PROVE  DeskInv'
<1> USE DEF DeskInv
<1>1. RowsTyped /\ CallsTyped
  BY DEF ShownInv
<1>2. ASSUME NEW r \in Sessions, call[r].op = "copy"
      PROVE  /\ Item(r) \in Items /\ TicketOf(Item(r)) = call[r].ticket
             /\ Item(r) \in Threads => thread[Item(r)] # NoThread
             /\ ticket[call[r].ticket].there /\ call[r].ticket \in Tickets
             /\ call[r].at = "push" => call[r].ref
             /\ Item(r) \in Threads /\ call[r].ref => ticket[call[r].ticket].ref
  BY <1>1, <1>2, ItemsAreTyped DEF CopyFits, Item
<1>3. ASSUME NEW item \in tried' \cup desk' \cup tried \cup desk
      PROVE  /\ item \in Items /\ TicketOf(item) \in Tickets
             /\ item \in Threads => thread[item] # NoThread
             /\ ticket[TicketOf(item)].there
             /\ TicketOf(item)' = TicketOf(item)
             /\ item \in Threads => thread'[item] # NoThread
             /\ ticket'[TicketOf(item)].there
  <2>1. CASE item \in tried \cup desk
    <3>1. item \in Items /\ (item \in Threads => thread[item] # NoThread)
          /\ ticket[TicketOf(item)].there
      BY <2>1 DEF CopiesAreOfRows, DeskTyped
    <3> QED BY <1>1, <3>1, TicketOfStays DEF RowsGrow
  <2>2. ASSUME NEW s \in Sessions, call[s].op = "copy", item = Item(s)
        PROVE  /\ item \in Items
               /\ item \in Threads => thread[item] # NoThread
               /\ ticket[TicketOf(item)].there
    BY <1>2, <2>2
  <2>3. CASE item \notin tried \cup desk
    <3>1. item \in Items /\ (item \in Threads => thread[item] # NoThread)
          /\ ticket[TicketOf(item)].there
      BY <1>3, <2>2, <2>3
    <3> QED BY <1>1, <3>1, TicketOfStays DEF RowsGrow
  <2> QED BY <2>1, <2>3
<1>4. DeskTyped'
  BY <1>3 DEF DeskTyped
<1>5. CopiesAreOfRows'
  BY <1>3 DEF CopiesAreOfRows
<1>6. OneCopies'
  <2> SUFFICES ASSUME NEW r \in Sessions, NEW s \in Sessions,
                      call'[r].op = "copy", call'[s].op = "copy", Item(r)' = Item(s)',
                      r # s
               PROVE  FALSE
    BY DEF OneCopies
  <2>1. ASSUME NEW p \in Sessions \ S PROVE call'[p] = call[p] /\ Item(p)' = Item(p)
    BY <2>1 DEF Item
  <2>2. CASE r \notin S /\ s \notin S
    BY <2>1, <2>2 DEF OneCopies
  <2>3. CASE r \in S /\ s \notin S
    BY <2>1, <2>3 DEF OneCopies
  <2>4. CASE s \in S /\ r \notin S
    BY <2>1, <2>4 DEF OneCopies
  <2> QED BY <2>2, <2>3, <2>4
<1>7. ASSUME NEW r \in Sessions PROVE CopyFits(call[r])'
  <2>1. CASE r \in S
    BY <2>1
  <2>2. CASE r \notin S
    <3>1. call'[r] = call[r]
      BY <2>2
    <3> SUFFICES ASSUME call[r].op = "copy" PROVE CopyFits(call[r])'
      BY <3>1 DEF CopyFits
    <3>2. TicketOf(Item(r))' = call[r].ticket
      <4>1. TicketOf(Item(r))' = TicketOf(Item(r))
        BY <1>1, <1>2, <3>1, TicketOfStays DEF TicketOf, Item
      <4> QED BY <1>2, <4>1
    <3>3. Item(r) \notin tried => Item(r) \notin tried'
      BY <2>2 DEF OneCopies
    <3>4. /\ Item(r) = call[r].item /\ Item(r)' = call[r].item
          /\ CopyFits(call[r])
      BY <3>1 DEF Item
    <3>5. /\ call[r].item \in Threads => thread'[call[r].item] # NoThread
          /\ ticket'[call[r].ticket].there
          /\ call[r].item \in Threads /\ call[r].ref => ticket'[call[r].ticket].ref
          /\ call[r].at = "letter" => ticket'[call[r].ticket].sync = "error"
      BY <1>2, <3>4 DEF RowsGrow, CopyFits
    <3>6. TicketOf(call[r].item)' = call[r].ticket
      BY <3>1, <3>2, <3>4 DEF TicketOf
    <3> QED BY <3>1, <3>3, <3>4, <3>5, <3>6 DEF CopyFits, TicketOf
  <2> QED BY <2>1, <2>2
<1>8. DeskIsAccountedFor'
  <2>1. ASSUME NEW item \in tried' PROVE Copying(item)' \/ Settled(item)'
    <3>1. ASSUME NEW r \in Sessions, call[r].op = "copy", Item(r) = item
          PROVE  Copying(item)' \/ Settled(item)'
      <4>1. CASE r \notin S
        BY <3>1, <4>1 DEF Copying, Item
      <4>2. CASE r \in S /\ call'[r].op = "copy"
        BY <3>1, <4>2 DEF Copying
      <4>3. CASE r \in S /\ call'[r].op # "copy"
        BY <2>1, <3>1, <4>3
      <4> QED BY <4>1, <4>2, <4>3
    <3>2. CASE Settled(item)
      BY <1>3, <2>1, <3>2 DEF Settled, RowsGrow
    <3>3. Copying(item) \/ Settled(item) \/ item \notin tried
      BY DEF DeskIsAccountedFor, Settled
    <3> QED BY <2>1, <3>1, <3>2, <3>3 DEF Copying
  <2>2. ASSUME NEW item \in desk'
        PROVE  ticket'[TicketOf(item)'].there /\ TicketOf(item)' \in desk'
    <3>1. ticket'[TicketOf(item)'].there /\ TicketOf(item)' = TicketOf(item)
      BY <1>3, <2>2
    <3>2. CASE item \in desk
      BY <3>1, <3>2 DEF DeskIsAccountedFor
    <3>3. ASSUME NEW s \in Sessions, call[s].op = "copy", call[s].at = "push", item = Item(s)
          PROVE  TicketOf(item) \in desk'
      <4>1. CASE item \in Tickets
        BY <2>2, <4>1 DEF TicketOf
      <4>2. CASE item \in Threads
        BY <1>2, <3>3, <4>2 DEF CopiesAreOfRows
      <4> QED BY <1>2, <3>3, <4>1, <4>2 DEF Items
    <3> QED BY <2>2, <3>1, <3>2, <3>3
  <2> QED BY <2>1, <2>2 DEF DeskIsAccountedFor, Settled
<1> QED BY <1>4, <1>5, <1>6, <1>7, <1>8

\* A step of one call that copies, and stays the copy of its item or ends.
LEMMA CopyStep ==
  ASSUME DeskInv, RowsTyped', RowsGrow, UNCHANGED <<thread, attachment, outside>>,
         NEW s \in Sessions, call[s].op = "copy", NEW c \in {Idle} \cup CopyCall,
         call' = [call EXCEPT ![s] = c],
         desk \subseteq desk', desk' \subseteq desk \cup {Item(s)},
         desk' # desk => call[s].at = "push",
         letters \subseteq letters', letters' \subseteq Items,
         tried' \subseteq tried \cup {Item(s)},
         \A t \in Tickets : ticket'[t].ref => ticket[t].ref \/ t \in desk',
         c # Idle => c.item = Item(s) /\ CopyFits(c)',
         c = Idle => \A item \in {Item(s)} : item \in tried' => Settled(item)'
  PROVE  DeskInv'
<1>1. c \in Calls /\ c.op \in {"none", "copy"} /\ (c.op = "copy" <=> c # Idle)
  BY DEF Calls, Idle, CopyCall
<1>2. ServiceFits(c)'
  BY <1>1 DEF ServiceFits
<1>3. ShownInv /\ FilesHang'
  BY DEF DeskInv, ShownInv, FilesHang
<1>4. ShownInv'
  BY <1>1, <1>2, <1>3, ShownStep
<1>5. call'[s] = c /\ \A r \in Sessions : r # s => call'[r] = call[r]
  BY <1>1, <1>3, CallSet DEF ShownInv
<1>6. CopyFits(call[s])'
  BY <1>1, <1>5 DEF CopyFits, TicketOf
<1>7. c # Idle => Item(s)' = Item(s)
  BY <1>5 DEF Item
<1>8. {s} \in SUBSET Sessions
  OBVIOUS
<1> HIDE DEF DeskInv
<1> QED
  <2> DEFINE S == {s}
  <2>1. \A r, p \in S : r = p
    OBVIOUS
  <2>2. \A r \in Sessions \ S : call'[r] = call[r]
    BY <1>5
  <2>3. \A item \in (tried' \cup desk') \ (tried \cup desk) :
          \E p \in S : call[p].op = "copy" /\ item = Item(p)
    OBVIOUS
  <2>4. \A item \in tried' \ tried : \E p \in S : call[p].op = "copy" /\ item = Item(p)
    OBVIOUS
  <2>5. \A item \in desk' \ desk :
          \E p \in S : call[p].op = "copy" /\ call[p].at = "push" /\ item = Item(p)
    OBVIOUS
  <2>6. \A p \in S :
          /\ CopyFits(call[p])'
          /\ call'[p].op = "copy" =>
               \/ call[p].op = "copy" /\ Item(p)' = Item(p)
               \/ /\ call[p].op # "copy"
                  /\ \A r \in Sessions : call[r].op = "copy" => Item(r) # Item(p)'
          /\ call[p].op = "copy" /\ call'[p].op # "copy" =>
               \A item \in {Item(p)} : item \in tried' => Settled(item)'
    BY <1>1, <1>5, <1>6, <1>7
  <2>7. S \in SUBSET Sessions
    OBVIOUS
  <2> HIDE DEF S
  <2> QED BY <1>4, <2>1, <2>2, <2>3, <2>4, <2>5, <2>6, <2>7, DeskKept

\* What a copy knows of its item.
LEMMA CopyKnows ==
  ASSUME DeskInv, NEW s \in Sessions, call[s].op = "copy"
  PROVE  /\ call[s] \in CopyCall /\ Item(s) = call[s].item /\ Item(s) \in Items
         /\ call[s].ticket \in Tickets /\ TicketOf(Item(s)) = call[s].ticket
         /\ CopyFits(call[s])
         /\ RowsTyped
         /\ Item(s) \in Tickets => Item(s) = call[s].ticket /\ Item(s) \notin Threads
BY CallKinds, DeskAssumption DEF DeskInv, ShownInv, CopyFits, Item, CopyCall, TicketOf, Items

\* A copy that moves on in its own call.
LEMMA CopyGoes ==
  ASSUME DeskInv, NEW s \in Sessions, call[s].op = "copy",
         NEW at \in {"read", "resolve", "push", "ref", "mark", "letter"}, GoTo(s, at)
  PROVE  \E c \in CopyCall :
           /\ call' = [call EXCEPT ![s] = c]
           /\ c.op = "copy" /\ c.at = at /\ c.item = Item(s) /\ c.ticket = call[s].ticket
           /\ c.ref = call[s].ref
<1> DEFINE c == [call[s] EXCEPT !.at = at]
<1>1. call' = [call EXCEPT ![s] = c]
  BY DEF GoTo
<1>2. c \in CopyCall /\ c.op = "copy" /\ c.at = at /\ c.item = Item(s)
      /\ c.ticket = call[s].ticket /\ c.ref = call[s].ref
  BY CopyKnows DEF CopyCall
<1> HIDE DEF c
<1> QED BY <1>1, <1>2

\* The ticket's row is read for a reply.
LEMMA ReadTicketStep ==
  ASSUME DeskInv, NEW s \in Sessions, ReadTicket(s)
  PROVE  DeskInv'
<1> DEFINE c == [op |-> "copy", at |-> "resolve", item |-> Item(s), ticket |-> call[s].ticket,
                 ref |-> ticket[call[s].ticket].ref]
<1>1. /\ call[s].op = "copy" /\ call[s].at = "read" /\ call' = [call EXCEPT ![s] = c]
      /\ UNCHANGED <<storeVars, copyVars, outside, tried>>
  BY DEF ReadTicket, Copy, At
<1>2. /\ Item(s) = call[s].item /\ Item(s) \in Items
      /\ call[s].ticket \in Tickets /\ CopyFits(call[s])
      /\ ticket[call[s].ticket].ref \in BOOLEAN
  BY <1>1, CopyKnows DEF RowsTyped, TicketRow
<1>3. PICK w \in CopyCall : w = c
  BY <1>2 DEF CopyCall
<1>4. /\ w.op = "copy" /\ w.at = "resolve" /\ w.item = Item(s) /\ w.ticket = call[s].ticket
      /\ w.ref = ticket[call[s].ticket].ref
  BY <1>3
<1>5. w # Idle /\ CopyFits(w)'
  BY <1>1, <1>2, <1>4 DEF CopyFits, Idle, TicketOf, storeVars
<1>6. RowsTyped' /\ RowsGrow
  BY <1>1, RowsStay DEF DeskInv
<1> HIDE DEF c
<1> QED BY <1>1, <1>2, <1>3, <1>4, <1>5, <1>6, CopyStep DEF storeVars, copyVars, DeskInv, DeskTyped, CopiesAreOfRows

\* A copy that ends before it was tried leaves nothing to settle.
LEMMA ResolveProviderStep ==
  ASSUME DeskInv, NEW s \in Sessions, ResolveProvider(s)
  PROVE  DeskInv'
<1>1. /\ call[s].op = "copy" /\ call[s].at = "resolve"
      /\ UNCHANGED <<storeVars, copyVars, outside, tried>>
  BY DEF ResolveProvider, At
<1>2. /\ Item(s) = call[s].item /\ CopyFits(call[s]) /\ Item(s) \notin tried
  BY <1>1, CopyKnows DEF CopyFits
<1>3. RowsTyped' /\ RowsGrow
  BY <1>1, RowsStay DEF DeskInv
<1>4. PICK c \in {Idle} \cup CopyCall :
        /\ call' = [call EXCEPT ![s] = c]
        /\ c # Idle => c.item = Item(s) /\ CopyFits(c)'
  <2>1. CASE call[s].ref /\ GoTo(s, "push")
    <3>1. PICK c \in CopyCall :
            /\ call' = [call EXCEPT ![s] = c]
            /\ c.op = "copy" /\ c.at = "push" /\ c.item = Item(s) /\ c.ticket = call[s].ticket
            /\ c.ref = call[s].ref
      BY <1>1, <2>1, CopyGoes
    <3>2. CopyFits(c)'
      BY <1>1, <1>2, <2>1, <3>1 DEF CopyFits, TicketOf, storeVars
    <3> QED BY <3>1, <3>2
  <2>2. CASE End(s)
    BY <2>2 DEF End
  <2> QED BY <2>1, <2>2 DEF ResolveProvider
<1> QED BY <1>1, <1>2, <1>3, <1>4, CopyStep DEF storeVars, copyVars, DeskInv, DeskTyped, CopiesAreOfRows

\* A reply that the desk took is settled, since the ticket's reference is there.
LEMMA PushStep ==
  ASSUME DeskInv, NEW s \in Sessions, Push(s)
  PROVE  DeskInv'
<1>1. /\ call[s].op = "copy" /\ call[s].at = "push"
      /\ UNCHANGED <<storeVars, letters, outside>> /\ tried' = tried \cup {Item(s)}
      /\ desk \subseteq desk' /\ desk' \subseteq desk \cup {Item(s)}
  BY DEF Push, At
<1>2. /\ Item(s) = call[s].item /\ Item(s) \in Items /\ CopyFits(call[s])
      /\ call[s].ticket \in Tickets /\ TicketOf(Item(s)) = call[s].ticket
      /\ Item(s) \in Threads => ticket[call[s].ticket].ref
      /\ Item(s) \in Tickets => Item(s) \notin Threads
  BY <1>1, CopyKnows DEF CopyFits
<1>3. RowsTyped' /\ RowsGrow
  BY <1>1, RowsStay DEF DeskInv
<1>4. PICK c \in {Idle} \cup CopyCall :
        /\ call' = [call EXCEPT ![s] = c]
        /\ c # Idle => c.item = Item(s) /\ CopyFits(c)'
        /\ c = Idle => Item(s) \in Threads /\ Item(s) \in desk'
  <2>1. ASSUME NEW at \in {"ref", "mark"}, GoTo(s, at), at = "ref" => Item(s) \in Tickets \cap desk'
        PROVE  \E c \in {Idle} \cup CopyCall :
                 /\ call' = [call EXCEPT ![s] = c]
                 /\ c # Idle => c.item = Item(s) /\ CopyFits(c)'
                 /\ c = Idle => Item(s) \in Threads /\ Item(s) \in desk'
    <3>1. PICK c \in CopyCall :
            /\ call' = [call EXCEPT ![s] = c]
            /\ c.op = "copy" /\ c.at = at /\ c.item = Item(s) /\ c.ticket = call[s].ticket
            /\ c.ref = call[s].ref
      BY <1>1, <2>1, CopyGoes
    <3>2. CopyFits(c)'
      BY <1>1, <1>2, <2>1, <3>1 DEF CopyFits, TicketOf, storeVars
    <3>3. c # Idle
      BY <3>1 DEF Idle
    <3> QED BY <3>1, <3>2, <3>3
  <2>2. CASE Item(s) \notin Tickets /\ End(s) /\ Item(s) \in desk'
    BY <1>2, <2>2 DEF End, Items
  <2>3. \/ Item(s) \in desk' /\ AfterPush(s)
        \/ Caught(s)
    BY DEF Push
  <2> QED BY <2>1, <2>2, <2>3 DEF AfterPush, Caught
<1>5. Item(s) \in Threads /\ Item(s) \in desk' => \A item \in {Item(s)} : Settled(item)'
  BY <1>1, <1>2 DEF Settled, TicketOf, storeVars
<1> QED BY <1>1, <1>2, <1>3, <1>4, <1>5, CopyStep DEF storeVars, DeskInv, DeskTyped, CopiesAreOfRows

\* The reference of a ticket that the desk has.
LEMMA MergeExternalRefsStep ==
  ASSUME DeskInv, NEW s \in Sessions, MergeExternalRefs(s)
  PROVE  DeskInv'
<1>1. /\ call[s].op = "copy" /\ call[s].at = "ref"
      /\ UNCHANGED <<thread, attachment, copyVars, outside>>
  BY DEF MergeExternalRefs, At
<1>2. /\ Item(s) = call[s].item /\ Item(s) \in Tickets /\ Item(s) \in desk /\ CopyFits(call[s])
      /\ Item(s) = call[s].ticket /\ Item(s) \notin Threads /\ RowsTyped
  BY <1>1, CopyKnows DEF CopyFits
<1>3. CASE ticket' = [ticket EXCEPT ![Item(s)].ref = TRUE] /\ End(s) /\ UNCHANGED tried
  <2>1. RowsTyped' /\ RowsGrow /\ ticket'[Item(s)].ref
        /\ \A t \in Tickets : ticket'[t].ref => ticket[t].ref \/ t = Item(s)
    BY <1>1, <1>2, <1>3 DEF RowsTyped, RowsGrow, TicketRow
  <2>2. \A item \in {Item(s)} : Settled(item)'
    BY <1>1, <1>2, <2>1 DEF Settled, TicketOf, copyVars
  <2>3. call' = [call EXCEPT ![s] = Idle]
    BY <1>3 DEF End
  <2> QED BY <1>1, <1>2, <1>3, <2>1, <2>2, <2>3, CopyStep
          DEF copyVars, DeskInv, DeskTyped, CopiesAreOfRows
<1>4. CASE UNCHANGED <<ticket, tried>> /\ Caught(s)
  <2>1. PICK c \in CopyCall :
          /\ call' = [call EXCEPT ![s] = c]
          /\ c.op = "copy" /\ c.at = "mark" /\ c.item = Item(s) /\ c.ticket = call[s].ticket
          /\ c.ref = call[s].ref
    BY <1>1, <1>4, CopyGoes DEF Caught
  <2>2. CopyFits(c)' /\ c # Idle
    BY <1>1, <1>2, <1>4, <2>1 DEF CopyFits, TicketOf, Idle
  <2>3. RowsTyped' /\ RowsGrow
    BY <1>1, <1>4, RowsStay DEF DeskInv, storeVars
  <2> QED BY <1>1, <1>2, <1>4, <2>1, <2>2, <2>3, CopyStep
          DEF copyVars, DeskInv, DeskTyped, CopiesAreOfRows
<1>5. CASE UNCHANGED ticket /\ End(s) /\ tried' = tried \ {Item(s)}
  <2>1. RowsTyped' /\ RowsGrow
    BY <1>1, <1>5, RowsStay DEF DeskInv, storeVars
  <2>2. call' = [call EXCEPT ![s] = Idle] /\ Item(s) \notin tried'
    BY <1>5 DEF End
  <2> QED BY <1>1, <1>2, <1>5, <2>1, <2>2, CopyStep
          DEF copyVars, DeskInv, DeskTyped, CopiesAreOfRows
<1> QED BY <1>3, <1>4, <1>5 DEF MergeExternalRefs

\* The error is put on the row, then the letter is left.
LEMMA SetSyncStateStep ==
  ASSUME DeskInv, NEW s \in Sessions, SetSyncState(s)
  PROVE  DeskInv'
<1>1. /\ call[s].op = "copy" /\ call[s].at = "mark" /\ GoTo(s, "letter")
      /\ ticket' = [ticket EXCEPT ![call[s].ticket].sync = "error"]
      /\ UNCHANGED <<thread, attachment, copyVars, outside, tried>>
  BY DEF SetSyncState, At
<1>2. /\ Item(s) = call[s].item /\ CopyFits(call[s]) /\ Item(s) \in Items
      /\ call[s].ticket \in Tickets /\ RowsTyped
  BY <1>1, CopyKnows
<1>3. RowsTyped' /\ RowsGrow /\ ticket'[call[s].ticket].sync = "error"
      /\ \A t \in Tickets : ticket'[t].ref = ticket[t].ref /\ ticket'[t].there = ticket[t].there
  BY <1>1, <1>2 DEF RowsTyped, RowsGrow, TicketRow
<1>4. PICK c \in CopyCall :
        /\ call' = [call EXCEPT ![s] = c]
        /\ c.op = "copy" /\ c.at = "letter" /\ c.item = Item(s) /\ c.ticket = call[s].ticket
        /\ c.ref = call[s].ref
  BY <1>1, CopyGoes
<1>5. CopyFits(c)' /\ c # Idle
  BY <1>1, <1>2, <1>3, <1>4 DEF CopyFits, TicketOf, Idle
<1> QED BY <1>1, <1>2, <1>3, <1>4, <1>5, CopyStep DEF copyVars, DeskInv, DeskTyped, CopiesAreOfRows

LEMMA DeadLetterStep ==
  ASSUME DeskInv, NEW s \in Sessions, DeadLetter(s)
  PROVE  DeskInv'
<1>1. /\ call[s].op = "copy" /\ call[s].at = "letter" /\ call' = [call EXCEPT ![s] = Idle]
      /\ letters' = letters \cup {Item(s)}
      /\ UNCHANGED <<storeVars, bound, desk, outside, tried>>
  BY DEF DeadLetter, At, End
<1>2. /\ Item(s) = call[s].item /\ CopyFits(call[s]) /\ Item(s) \in Items
      /\ TicketOf(Item(s)) = call[s].ticket /\ ticket[call[s].ticket].sync = "error"
  BY <1>1, CopyKnows DEF CopyFits
<1>3. \A item \in {Item(s)} : Settled(item)'
  BY <1>1, <1>2 DEF Settled, TicketOf, storeVars
<1>4. RowsTyped' /\ RowsGrow
  BY <1>1, RowsStay DEF DeskInv
<1> QED BY <1>1, <1>2, <1>3, <1>4, CopyStep DEF storeVars, DeskInv, DeskTyped, CopiesAreOfRows

\* A copy begins with a row of its own, that no call copies and none tried.
LEMMA NewCopy ==
  ASSUME DeskInv, RowsTyped', RowsGrow, FilesHang', NEW s \in Sessions, call[s] = Idle,
         NEW c \in CopyCall, call' = [call EXCEPT ![s] = c],
         UNCHANGED <<desk, letters, outside, tried>>,
         \A t \in Tickets : ticket'[t].ref = ticket[t].ref,
         CopyFits(c)', \A r \in Sessions : call[r].op = "copy" => Item(r) # c.item
  PROVE  DeskInv'
<1>1. c \in Calls /\ c.op = "copy" /\ c # Idle /\ call[s].op # "copy"
  BY DEF Calls, CopyCall, Idle
<1>2. ServiceFits(c)'
  BY <1>1 DEF ServiceFits
<1>3. ShownInv'
  BY <1>1, <1>2, ShownStep DEF DeskInv
<1>4. call'[s] = c /\ \A r \in Sessions : r # s => call'[r] = call[r]
  BY <1>1, CallSet DEF DeskInv, ShownInv
<1>5. CopyFits(call[s])' /\ Item(s)' = c.item
  BY <1>1, <1>4 DEF CopyFits, TicketOf, Item
<1>6. letters' \subseteq Items
  BY DEF DeskInv, DeskTyped
<1> DEFINE S == {s}
<1>7. /\ S \in SUBSET Sessions /\ \A r, p \in S : r = p
      /\ \A r \in Sessions \ S : call'[r] = call[r]
      /\ \A p \in S : /\ p = s /\ CopyFits(call[p])' /\ call[p].op # "copy"
                      /\ \A r \in Sessions : call[r].op = "copy" => Item(r) # Item(p)'
  BY <1>1, <1>4, <1>5
<1> HIDE DEF S
<1> QED BY <1>3, <1>6, <1>7, DeskKept

LEMMA CreateTicketStep ==
  ASSUME DeskInv, NEW s \in Sessions, NEW t \in Tickets, createTicketGraduated(s, t)
  PROVE  DeskInv'
<1> DEFINE c == [op |-> "copy", at |-> "resolve", item |-> t, ticket |-> t, ref |-> TRUE]
<1>1. /\ call[s] = Idle /\ ~ticket[t].there /\ ticket' = [ticket EXCEPT ![t].there = TRUE]
      /\ call' = [call EXCEPT ![s] = c]
      /\ UNCHANGED <<thread, attachment, copyVars, outside, tried>>
  BY DEF createTicketGraduated, Copy
<1>2. PICK w \in CopyCall : w = c
  BY DEF CopyCall, Items
<1>3. w.op = "copy" /\ w.at = "resolve" /\ w.item = t /\ w.ticket = t
  BY <1>2
<1>4. /\ RowsTyped' /\ RowsGrow /\ FilesHang' /\ ticket'[t].there
      /\ \A u \in Tickets : ticket'[u].ref = ticket[u].ref
  BY <1>1 DEF DeskInv, ShownInv, RowsTyped, RowsGrow, TicketRow, FilesHang
<1>5. t \notin Threads /\ TicketOf(t) = t /\ TicketOf(t)' = t
  BY DeskAssumption DEF TicketOf
<1>6. t \notin tried
  BY <1>1, <1>5 DEF DeskInv, CopiesAreOfRows
<1>7. CopyFits(w)'
  BY <1>1, <1>3, <1>4, <1>5, <1>6 DEF CopyFits
<1>8. ASSUME NEW r \in Sessions, call[r].op = "copy" PROVE Item(r) # t
  BY <1>1, <1>5, <1>8, CopyKnows DEF CopyFits
<1> HIDE DEF c
<1> QED BY <1>1, <1>2, <1>3, <1>4, <1>7, <1>8, NewCopy DEF copyVars

LEMMA AddThreadStep ==
  ASSUME DeskInv, NEW s \in Sessions, NEW h \in Threads, NEW t \in Tickets,
         addThreadGraduated(s, h, t)
  PROVE  DeskInv'
<1> DEFINE c == [op |-> "copy", at |-> "read", item |-> h, ticket |-> t, ref |-> FALSE]
<1>1. /\ call[s] = Idle /\ Append(h, t, FALSE) /\ call' = [call EXCEPT ![s] = c]
      /\ UNCHANGED <<copyVars, outside, tried>>
  BY DEF addThreadGraduated, Copy
<1>2. PICK w \in CopyCall : w = c
  BY DEF CopyCall, Items
<1>3. w.op = "copy" /\ w.at = "read" /\ w.item = h /\ w.ticket = t /\ w.ref = FALSE
  BY <1>2
<1>4. RowsTyped' /\ RowsGrow /\ FilesHang' /\ thread'[h] # NoThread
  BY <1>1, AppendGrows DEF DeskInv
<1>5. /\ ticket[t].there /\ UNCHANGED ticket /\ thread[h] = NoThread
      /\ h \notin Tickets /\ TicketOf(h)' = t
  BY <1>1, DeskAssumption DEF Append, TicketOf, DeskInv, ShownInv, RowsTyped
<1>6. h \notin tried
  BY <1>5 DEF DeskInv, CopiesAreOfRows
<1>7. CopyFits(w)'
  BY <1>1, <1>3, <1>4, <1>5, <1>6 DEF CopyFits
<1>8. ASSUME NEW r \in Sessions, call[r].op = "copy" PROVE Item(r) # h
  BY <1>5, <1>8, CopyKnows DEF CopyFits
<1> HIDE DEF c
<1> QED BY <1>1, <1>2, <1>3, <1>4, <1>5, <1>7, <1>8, NewCopy DEF copyVars

\* Steps that copy nothing.
LEMMA OtherStep ==
  ASSUME DeskInv, ShownInv', RowsGrow, NEW S \in SUBSET Sessions,
         \A r, s \in S : r = s,
         \A r \in Sessions \ S : call'[r] = call[r],
         \A s \in S : /\ call'[s].op # "copy"
                      /\ call[s].op = "copy" => Item(s) \notin tried',
         \A t \in Tickets : ticket'[t].ref => ticket[t].ref,
         UNCHANGED <<desk, letters>>, tried' \subseteq tried
  PROVE  DeskInv'
<1>1. \A s \in S : CopyFits(call[s])'
  BY DEF CopyFits
<1>2. letters' \subseteq Items
  BY DEF DeskInv, DeskTyped
<1> QED BY <1>1, <1>2, DeskKept

LEMMA ServiceStep ==
  ASSUME DeskInv, NEW s \in Sessions, Service(s)
  PROVE  DeskInv'
<1>1. ShownInv' /\ ShownInv
  BY ServiceKeepsShown DEF DeskInv
<1>2. RowsGrow /\ UNCHANGED <<ticket, desk, letters, tried>>
  <2>1. ASSUME NEW h \in Threads, NEW t \in Tickets,
               NEW isAgent \in BOOLEAN, NEW internal \in BOOLEAN, NEW byRequester \in BOOLEAN,
               appendThread(s, h, t, isAgent, internal, byRequester)
        PROVE  RowsGrow /\ UNCHANGED <<ticket, desk, letters, tried>>
    BY <1>1, <2>1, AppendGrows DEF appendThread, Append, copyVars
  <2>2. CASE UNCHANGED <<storeVars, copyVars, tried>>
    BY <1>1, <2>2, RowsStay DEF storeVars, copyVars
  <2> QED BY <2>1, <2>2 DEF Service, listThreads, listAttachments, SendNotifications, ListInternal
<1>3. \E c \in Calls : call' = [call EXCEPT ![s] = c] /\ c.op # "copy" /\ call[s].op # "copy"
  <2>1. CASE UNCHANGED call /\ call[s] = Idle
    <3>1. call' = [call EXCEPT ![s] = Idle] /\ Idle \in Calls /\ Idle.op # "copy"
      BY <1>1, <2>1 DEF ShownInv, CallsTyped, Calls, Idle
    <3> QED BY <2>1, <3>1
  <2>2. CASE call' = [call EXCEPT ![s] = Idle] /\ call[s].op # "copy"
    <3>1. Idle \in Calls /\ Idle.op # "copy"
      BY DEF Calls, Idle
    <3> QED BY <2>2, <3>1
  <2>3. ASSUME NEW h \in Threads, NEW byRequester \in BOOLEAN, call[s] = Idle,
               call' = [call EXCEPT ![s] =
                 [op |-> "append", at |-> "notify", thread |-> h, byRequester |-> byRequester]]
        PROVE  \E c \in Calls : call' = [call EXCEPT ![s] = c] /\ c.op # "copy" /\ call[s].op # "copy"
    <3> DEFINE c == [op |-> "append", at |-> "notify", thread |-> h, byRequester |-> byRequester]
    <3>1. c \in Calls /\ c.op # "copy"
      BY DEF Calls, AppendCall
    <3>2. call[s].op # "copy" /\ call' = [call EXCEPT ![s] = c]
      BY <2>3 DEF Idle
    <3> HIDE DEF c
    <3> QED BY <3>1, <3>2
  <2>4. ASSUME NEW t \in Tickets, NEW listed \in SUBSET Attachments, call[s] = Idle,
               call' = [call EXCEPT ![s] =
                 [op |-> "list", at |-> "threads", ticket |-> t, listed |-> listed]]
        PROVE  \E c \in Calls : call' = [call EXCEPT ![s] = c] /\ c.op # "copy" /\ call[s].op # "copy"
    <3> DEFINE c == [op |-> "list", at |-> "threads", ticket |-> t, listed |-> listed]
    <3>1. c \in Calls /\ c.op # "copy"
      BY DEF Calls, ListCall
    <3>2. call[s].op # "copy" /\ call' = [call EXCEPT ![s] = c]
      BY <2>4 DEF Idle
    <3> HIDE DEF c
    <3> QED BY <3>1, <3>2
  <2>5. ASSUME NEW h \in Threads, NEW t \in Tickets,
               NEW isAgent \in BOOLEAN, NEW internal \in BOOLEAN, NEW byRequester \in BOOLEAN,
               appendThread(s, h, t, isAgent, internal, byRequester)
        PROVE  \E c \in Calls : call' = [call EXCEPT ![s] = c] /\ c.op # "copy" /\ call[s].op # "copy"
    BY <2>3, <2>5 DEF appendThread
  <2>6. ASSUME NEW t \in Tickets, listAttachments(s, t)
        PROVE  \E c \in Calls : call' = [call EXCEPT ![s] = c] /\ c.op # "copy" /\ call[s].op # "copy"
    <3> DEFINE listed == {a \in Attachments : attachment[a].on = t}
    <3>1. PICK l \in SUBSET Attachments : l = listed
      OBVIOUS
    <3> QED BY <2>1, <2>4, <2>6, <3>1 DEF listAttachments
  <2> QED BY <2>1, <2>2, <2>5, <2>6
          DEF Service, listThreads, SendNotifications, ListInternal, At, End
<1>4. /\ call'[s].op # "copy" /\ call[s].op # "copy"
      /\ \A r \in Sessions : r # s => call'[r] = call[r]
  BY <1>1, <1>3, CallSet DEF ShownInv
<1> DEFINE S == {s}
<1>5. /\ S \in SUBSET Sessions /\ \A r, p \in S : r = p
      /\ \A r \in Sessions \ S : call'[r] = call[r]
      /\ \A p \in S : call'[p].op # "copy" /\ call[p].op # "copy"
  BY <1>4
<1> HIDE DEF S
<1> QED BY <1>1, <1>2, <1>5, OtherStep

LEMMA GiveUpStep ==
  ASSUME DeskInv, NEW s \in Sessions, GiveUp(s)
  PROVE  DeskInv'
<1>1. /\ call' = [call EXCEPT ![s] = Idle] /\ UNCHANGED <<storeVars, copyVars, outside>>
      /\ tried' \subseteq tried /\ (call[s].op = "copy" => Item(s) \notin tried')
  BY DEF GiveUp, End
<1>2. Idle \in Calls /\ ServiceFits(Idle)' /\ Idle.op # "copy"
  BY DEF Calls, ServiceFits, Idle
<1>3. ShownInv' /\ RowsGrow
  BY <1>1, <1>2, RowsStay, CalmStep DEF DeskInv
<1>4. call'[s] = Idle /\ \A r \in Sessions : r # s => call'[r] = call[r]
  BY <1>1, <1>2, CallSet DEF DeskInv, ShownInv
<1> DEFINE S == {s}
<1>5. /\ S \in SUBSET Sessions /\ \A r, p \in S : r = p
      /\ \A r \in Sessions \ S : call'[r] = call[r]
      /\ \A p \in S : /\ call'[p].op # "copy"
                      /\ call[p].op = "copy" => Item(p) \notin tried'
  BY <1>1, <1>2, <1>4
<1> HIDE DEF S
<1> QED BY <1>1, <1>3, <1>5, OtherStep DEF storeVars, copyVars

\* Calls all wait while a file is attached or a desk is bound.
LEMMA OutsideStep ==
  ASSUME DeskInv,
         \/ \E a \in Attachments, t \in Tickets, h \in Threads \cup {None} : Attach(a, t, h)
         \/ Bind
         \/ UNCHANGED vars
  PROVE  DeskInv'
<1>1. UNCHANGED <<ticket, desk, letters, call, tried>>
  BY DEF Attach, Bind, storeVars, copyVars, vars
<1>2. ShownInv' /\ RowsGrow
  <2>1. CASE \E a \in Attachments, t \in Tickets, h \in Threads \cup {None} : Attach(a, t, h)
    BY <2>1, AttachKeepsShown DEF DeskInv
  <2>2. CASE UNCHANGED <<storeVars, call, outside>>
    <3>1. CallsTyped'
      BY <2>2 DEF DeskInv, ShownInv, CallsTyped
    <3> QED BY <2>2, <3>1, RowsStay, ShownKept DEF DeskInv
  <2> QED BY <2>1, <2>2 DEF Bind, vars
<1>3. {} \in SUBSET Sessions
  OBVIOUS
<1> QED BY <1>1, <1>2, <1>3, OtherStep

LEMMA DeskInvKept ==
  ASSUME DeskInv, [Next]_vars
  PROVE  DeskInv'
<1>1. ASSUME NEW s \in Sessions, Graduation(s) PROVE DeskInv'
  BY <1>1, CreateTicketStep, AddThreadStep, ReadTicketStep, ResolveProviderStep, PushStep,
     MergeExternalRefsStep, SetSyncStateStep, DeadLetterStep DEF Graduation
<1> QED BY <1>1, ServiceStep, GiveUpStep, OutsideStep DEF Next

LEMMA DeskInvHolds == Spec => []DeskInv
<1>1. Init => DeskInv
  <2> SUFFICES ASSUME Init PROVE DeskInv
    OBVIOUS
  <2>1. NoTicket \in TicketRow
    BY DEF NoTicket, TicketRow
  <2>2. RowsTyped /\ CallsTyped /\ FilesHang /\ ShownIsPublic /\ DeskTyped
    BY <2>1 DEF Init, RowsTyped, CallsTyped, Calls, FilesHang, ShownIsPublic, DeskTyped
  <2>3. \A s \in Sessions : call[s].op = "none"
    BY DEF Init, Idle
  <2>4. OneCopies
    BY <2>3 DEF OneCopies
  <2>6. ASSUME NEW s \in Sessions PROVE ServiceFits(call[s]) /\ CopyFits(call[s])
    BY <2>3 DEF ServiceFits, CopyFits
  <2>5. CopiesAreOfRows /\ DeskIsAccountedFor
    BY DEF Init, CopiesAreOfRows, DeskIsAccountedFor, NoTicket
  <2> QED BY <2>2, <2>4, <2>5, <2>6 DEF DeskInv, ShownInv
<1> QED BY <1>1, DeskInvKept, PTL DEF Spec

-------------------------------------------------------------------------------
\* Nothing internal is ever shown or sent to those who are not agents, whatever
\* is written and attached between the reads (store.ts:13).
THEOREM InternalIsNeverShown == Spec => []InternalStaysInside
<1>1. DeskInv => InternalStaysInside
  BY DEF DeskInv, ShownInv, ShownIsPublic, InternalStaysInside
<1> QED BY <1>1, DeskInvHolds, PTL

\* Whatever was to be copied to the desk is there or has left a dead letter and
\* an error (graduation.ts:5-8), for any number of replies at once.
THEOREM CopiesAreAccountedFor == Spec => []DeskIsAccountedFor
<1>1. DeskInv => DeskIsAccountedFor
  BY DEF DeskInv
<1> QED BY <1>1, DeskInvHolds, PTL
================================================================================
