------------------------ MODULE PgRepositoriesProofs ------------------------
(***************************************************************************)
(* The PostgreSQL repositories implement the in-memory ones for any number *)
(* of overlapping calls, as long as the callers take turns on a row they   *)
(* update: what a transaction loaded is then still there when it commits,  *)
(* and the message it adds is the last of its conversation.                *)
(***************************************************************************)
EXTENDS PgRepositories, TLAPS

-----------------------------------------------------------------------------
(* The inductive invariant.                                                *)

Tables == {"conversations", "messages", "documents", "credentials", "jobs",
           "applications", "events", "profile", "approvals"}

TypeInv ==
  /\ DOMAIN db = Tables /\ db = [t \in Tables |-> db[t]]
  /\ request \in [Calls -> Requests \cup {NoRequest}]
  /\ DOMAIN answer = Calls /\ answer = [c \in Calls |-> answer[c]]
  /\ DOMAIN loaded = Calls /\ loaded = [c \in Calls |-> loaded[c]]
  /\ began \in Seq(Calls)
  /\ \A c \in DOMAIN db.messages : db.messages[c] \in Seq(Calls)
  /\ \A c \in Calls : request[c] = NoRequest => answer[c] = NoAnswer

\* A row is named by the call that inserted it, which has its answer.
RowsInv(c) ==
  answer[c] = NoAnswer =>
    /\ c \notin DOMAIN db.messages /\ c \notin DOMAIN db.documents
    /\ c \notin DOMAIN db.applications /\ c \notin DOMAIN db.approvals

\* Callers take turns on a row they update.
TurnsInv ==
  \A c, d \in Calls :
    /\ Open(c) /\ Open(d) /\ c # d /\ Updates(request[c]) # NoRow
    => Updates(request[c]) # Updates(request[d])

\* What an open call loaded is what the database still has.
LoadedInv(c) ==
  LET x == request[c] IN
  /\ x.op = "set_document_status" =>
       x.row \in DOMAIN db.documents /\ loaded[c] = db.documents[x.row]
  /\ x.op = "set_status" =>
       x.row \in DOMAIN db.applications /\ loaded[c] = db.applications[x.row]
  /\ x.op = "decide" => Get(db.approvals, x.row) = {"None"}

\* An add_message that is open began after those already in its conversation.
LastInv(c) ==
  LET x == request[c] IN
  x.op = "add_message" /\ x.row \in DOMAIN db.messages =>
    \A i \in 1..Len(db.messages[x.row]) :
      Earlier(db.messages[x.row][i], c) /\ ~Earlier(c, db.messages[x.row][i])

\* Calls began once, when they were asked; the messages of a conversation are
\* of calls that began.
BeganInv ==
  /\ \A i \in 1..Len(began) : request[began[i]] # NoRequest
  /\ \A i, j \in 1..Len(began) : began[i] = began[j] => i = j
  /\ \A c \in DOMAIN db.messages : \A i \in 1..Len(db.messages[c]) :
       \E j \in 1..Len(began) : began[j] = db.messages[c][i]
  /\ \A c \in Calls : Open(c) /\ request[c].op = "add_message" =>
       \E j \in 1..Len(began) : began[j] = c

Inv ==
  /\ TypeInv /\ TurnsInv /\ BeganInv
  /\ \A c \in Calls : RowsInv(c) /\ (Open(c) => LoadedInv(c) /\ LastInv(c))

-----------------------------------------------------------------------------
(* What the operations of the store do.                                    *)

\* Every operation answers or raises.
LEMMA PerformAnswers ==
  ASSUME NEW s, NEW c, NEW x, x.op \in Operations
  PROVE  Perform(s, c, x).answer # NoAnswer
<1>1. Raised # NoAnswer
  BY DEF Raised, NoAnswer
<1>2. \A v : Answer(v) # NoAnswer
  BY DEF Answer, NoAnswer
<1> QED
  BY <1>1, <1>2
  DEF Operations, Perform, EnsureConversation, AddMessage, GetMessages, AddCredentials,
      AddDocument, GetBySha256, SetDocumentStatus, AddJob, CreateApplication,
      SetApplicationStatus, AddEvent, SetFact, CreateApproval, Decide, Leaves, Reads, Done

\* What ends with its SELECT leaves the store as it is.
LEMMA ReadingLeaves ==
  ASSUME NEW c, NEW x, EndsReading(x) PROVE Perform(db, c, x).store = db
  BY DEF EndsReading, Perform, EnsureConversation, AddMessage, GetMessages,
         GetBySha256, SetDocumentStatus, SetApplicationStatus, Decide, Leaves, Reads

\* The table of messages after an operation, and which operation changes it.
LEMMA MessagesAfter ==
  ASSUME TypeInv, NEW c, NEW x, x.op \in Operations
  PROVE  LET after == Perform(db, c, x).store.messages IN
         \/ after = db.messages
         \/ x.op = "ensure_conversation" /\ after = Put(db.messages, c, <<>>)
         \/ /\ x.op = "add_message" /\ x.row \in DOMAIN db.messages
            /\ after = [db.messages EXCEPT ![x.row] = Append(@, c)]
  BY DEF TypeInv, Tables, Operations, Perform, EnsureConversation, AddMessage,
         GetMessages, AddCredentials, AddDocument, GetBySha256, SetDocumentStatus,
         AddJob, CreateApplication, SetApplicationStatus, AddEvent, SetFact,
         CreateApproval, Decide, Leaves, Reads

\* Only the row k is new or changed.
KeepsBut(k, old, new) ==
  /\ DOMAIN old \subseteq DOMAIN new /\ DOMAIN new \subseteq DOMAIN old \cup {k}
  /\ \A d \in DOMAIN old : d # k => new[d] = old[d]

LEMMA PutKeeps ==
  ASSUME NEW old, NEW k, NEW v PROVE KeepsBut(k, old, Put(old, k, v))
  BY DEF KeepsBut, Put

LEMMA ExceptKeeps ==
  ASSUME NEW old, NEW k, NEW v
  PROVE  LET new == [old EXCEPT ![k] = v] IN
         DOMAIN new = DOMAIN old /\ KeepsBut(k, old, new)
  BY DEF KeepsBut

\* The tables an update may have loaded its row from.
LEMMA RowsAfter ==
  ASSUME TypeInv, NEW c, NEW x, x.op \in Operations
  PROVE  LET after == Perform(db, c, x).store IN
         /\ \/ after.documents = db.documents
            \/ x.op = "add_document" /\ KeepsBut(c, db.documents, after.documents)
            \/ /\ x.op = "set_document_status" /\ x.row \in DOMAIN db.documents
               /\ KeepsBut(x.row, db.documents, after.documents)
         /\ \/ after.applications = db.applications
            \/ /\ x.op = "create_application"
               /\ KeepsBut(c, db.applications, after.applications)
            \/ /\ x.op = "set_status" /\ x.row \in DOMAIN db.applications
               /\ KeepsBut(x.row, db.applications, after.applications)
         /\ \/ after.approvals = db.approvals
            \/ x.op = "create_approval" /\ KeepsBut(c, db.approvals, after.approvals)
            \/ /\ x.op = "decide" /\ x.row \in DOMAIN db.approvals
               /\ KeepsBut(x.row, db.approvals, after.approvals)
<1> DEFINE after == Perform(db, c, x).store
<1>1. CASE x.op = "add_document"
  <2>1. PICK row : after = [db EXCEPT !.documents = Put(@, c, row)]
    BY <1>1 DEF Perform, AddDocument, Leaves
  <2>2. /\ after.documents = Put(db.documents, c, row)
        /\ after.applications = db.applications /\ after.approvals = db.approvals
    BY <2>1 DEF TypeInv, Tables
  <2> QED
    BY <1>1, <2>2, PutKeeps
<1>2. CASE x.op = "set_document_status" /\ x.row \in DOMAIN db.documents
  <2>1. PICK row : after = [db EXCEPT !.documents = [@ EXCEPT ![x.row] = row]]
    BY <1>2 DEF Perform, SetDocumentStatus, Leaves
  <2>2. /\ after.documents = [db.documents EXCEPT ![x.row] = row]
        /\ after.applications = db.applications /\ after.approvals = db.approvals
    BY <2>1 DEF TypeInv, Tables
  <2> QED
    BY <1>2, <2>2, ExceptKeeps
<1>3. CASE x.op = "create_application"
  <2>1. PICK row, e : after = [db EXCEPT !.applications = Put(@, c, row), !.events = e]
    BY <1>3 DEF Perform, CreateApplication, Leaves
  <2>2. /\ after.applications = Put(db.applications, c, row)
        /\ after.documents = db.documents /\ after.approvals = db.approvals
    BY <2>1 DEF TypeInv, Tables
  <2> QED
    BY <1>3, <2>2, PutKeeps
<1>4. CASE x.op = "set_status" /\ x.row \in DOMAIN db.applications
  <2>1. PICK row : after = [db EXCEPT !.applications = [@ EXCEPT ![x.row] = row]]
    BY <1>4 DEF Perform, SetApplicationStatus, Leaves
  <2>2. /\ after.applications = [db.applications EXCEPT ![x.row] = row]
        /\ after.documents = db.documents /\ after.approvals = db.approvals
    BY <2>1 DEF TypeInv, Tables
  <2> QED
    BY <1>4, <2>2, ExceptKeeps
<1>5. CASE x.op = "create_approval"
  <2>1. after = [db EXCEPT !.approvals = Put(@, c, "None")]
    BY <1>5 DEF Perform, CreateApproval, Leaves
  <2>2. /\ after.approvals = Put(db.approvals, c, "None")
        /\ after.documents = db.documents /\ after.applications = db.applications
    BY <2>1 DEF TypeInv, Tables
  <2> QED
    BY <1>5, <2>2, PutKeeps
<1>6. CASE x.op = "decide" /\ Get(db.approvals, x.row) = {"None"}
  <2>1. after = [db EXCEPT !.approvals = [@ EXCEPT ![x.row] = x.decision]]
    BY <1>6 DEF Perform, Decide, Leaves
  <2>2. /\ after.approvals = [db.approvals EXCEPT ![x.row] = x.decision]
        /\ after.documents = db.documents /\ after.applications = db.applications
    BY <2>1 DEF TypeInv, Tables
  <2> QED
    BY <1>6, <2>2, ExceptKeeps DEF Get
<1>7. CASE /\ x.op \notin {"add_document", "create_application", "create_approval"}
           /\ ~(x.op = "set_document_status" /\ x.row \in DOMAIN db.documents)
           /\ ~(x.op = "set_status" /\ x.row \in DOMAIN db.applications)
           /\ ~(x.op = "decide" /\ Get(db.approvals, x.row) = {"None"})
  <2>1. CASE after = db
    BY <2>1
  <2>2. CASE x.op \in {"ensure_conversation", "add_message"} /\ after # db
    BY <1>7, <2>2
    DEF TypeInv, Tables, Perform, EnsureConversation, AddMessage, Leaves, Reads
  <2>3. CASE x.op \in {"add_many", "add_job", "add_event", "set_fact"} /\ after # db
    BY <1>7, <2>3
    DEF TypeInv, Tables, Perform, AddCredentials, AddJob, AddEvent, SetFact, Leaves
  <2>4. CASE x.op \in {"set_document_status", "set_status", "decide"}
    BY <1>7, <2>1, <2>4
    DEF Perform, SetDocumentStatus, SetApplicationStatus, Decide, Leaves, Reads
  <2>5. CASE x.op \in {"get_messages", "list_credentials", "get_by_sha256", "get_document",
                       "list_jobs", "get_application", "get_all"}
    BY <2>1, <2>5, ReadingLeaves DEF EndsReading
  <2> QED
    BY <1>7, <2>1, <2>2, <2>3, <2>4, <2>5 DEF Operations
<1> QED
  BY <1>1, <1>2, <1>3, <1>4, <1>5, <1>6, <1>7

\* The store stays a record of the same tables.
LEMMA RecordKept ==
  ASSUME NEW f, DOMAIN f = Tables, f = [t \in Tables |-> f[t]], NEW u, NEW v
  PROVE  LET new == [f EXCEPT ![u] = v] IN
         DOMAIN new = Tables /\ new = [t \in Tables |-> new[t]]
  OBVIOUS

LEMMA TablesAfter ==
  ASSUME TypeInv, NEW c, NEW x, x.op \in Operations
  PROVE  LET after == Perform(db, c, x).store IN
         DOMAIN after = Tables /\ after = [t \in Tables |-> after[t]]
<1> DEFINE after == Perform(db, c, x).store
<1>1. CASE after = db
  BY <1>1 DEF TypeInv
<1>2. CASE x.op \in {"ensure_conversation", "create_application"} /\ after # db
  <2>1. PICK t, u, v, w : after = [[db EXCEPT ![t] = v] EXCEPT ![u] = w]
    <3>1. CASE x.op = "ensure_conversation"
      <4>1. after = [[db EXCEPT !.conversations = Put(@, x.session, c)]
                       EXCEPT !.messages = Put(@, c, <<>>)]
        BY <1>2, <3>1 DEF Perform, EnsureConversation, Leaves, Reads, TypeInv, Tables
      <4> QED
        BY <4>1
    <3>2. CASE x.op = "create_application"
      <4>1. PICK row : after = [[db EXCEPT !.applications = Put(@, c, row)]
                       EXCEPT !.events = Put(@, c, {})]
        BY <1>2, <3>2 DEF Perform, CreateApplication, Leaves, TypeInv, Tables
      <4> QED
        BY <4>1
    <3> QED
      BY <1>2, <3>1, <3>2
  <2> QED
    BY <2>1, RecordKept DEF TypeInv
<1>3. CASE x.op \notin {"ensure_conversation", "create_application"} /\ after # db
  <2>1. PICK t, v : after = [db EXCEPT ![t] = v]
    BY <1>3
    DEF Operations, Perform, AddMessage, GetMessages, AddCredentials, AddDocument,
        GetBySha256, SetDocumentStatus, AddJob, SetApplicationStatus, AddEvent, SetFact,
        CreateApproval, Decide, Leaves, Reads
  <2> QED
    BY <2>1, RecordKept DEF TypeInv
<1> QED
  BY <1>1, <1>2, <1>3

-----------------------------------------------------------------------------
(* A commit does what the operation does to the store as it is by then.    *)

\* The last message to begin goes last.
LEMMA OrderedIsAppended ==
  ASSUME NEW messages \in Seq(Calls), NEW c \in Calls,
         \A i \in 1..Len(messages) : Earlier(messages[i], c) /\ ~Earlier(c, messages[i])
  PROVE  InOrder(messages, c) = Append(messages, c)
<1> DEFINE P(k) == \A i \in 1..Len(messages) :
             IF i <= k THEN Earlier(messages[i], c) ELSE Earlier(c, messages[i])
           k0 == CHOOSE k \in 0..Len(messages) : P(k)
<1>1. Len(messages) \in 0..Len(messages) /\ P(Len(messages))
  OBVIOUS
<1>2. k0 \in 0..Len(messages) /\ P(k0)
  <2> HIDE DEF P
  <2> QED
    BY <1>1
<1>3. k0 = Len(messages)
  <2>1. CASE k0 < Len(messages)
    <3>1. k0 + 1 \in 1..Len(messages) /\ ~(k0 + 1 <= k0)
      BY <1>2, <2>1
    <3>2. Earlier(c, messages[k0 + 1])
      BY <1>2, <3>1
    <3> QED
      BY <3>1, <3>2
  <2> QED
    BY <1>2, <2>1
<1>4. InOrder(messages, c) =
        SubSeq(messages, 1, k0) \o <<c>> \o SubSeq(messages, k0 + 1, Len(messages))
  BY DEF InOrder
<1>5. SubSeq(messages, 1, Len(messages)) = messages
  OBVIOUS
<1>6. SubSeq(messages, Len(messages) + 1, Len(messages)) = <<>>
  OBVIOUS
<1>7. messages \o <<c>> \o <<>> = Append(messages, c)
  OBVIOUS
<1> QED
  <2> HIDE DEF k0
  <2> QED
    BY <1>3, <1>4, <1>5, <1>6, <1>7

LEMMA CommitPerforms ==
  ASSUME PgAssumption, Inv, NEW c \in Calls, Open(c), ~Refused(c)
  PROVE  LET result == Perform(db, c, request[c]) IN
         Committed(c) = result.store /\ Result(c) = result.answer
<1> DEFINE x == request[c]
<1>1. x \in Requests /\ x.op \in Operations
  BY DEF Inv, TypeInv, Open, PgAssumption
<1>2. CASE x.op = "ensure_conversation"
  BY <1>2
  DEF Committed, Result, Refused, NotUnique, Perform, EnsureConversation, Leaves
<1>3. CASE x.op = "add_message"
  <2>1. x.row \in DOMAIN db.messages /\ db.messages[x.row] \in Seq(Calls)
    BY <1>3 DEF Refused, NoReferent, Inv, TypeInv
  <2>2. InOrder(db.messages[x.row], c) = Append(db.messages[x.row], c)
    BY <1>3, <2>1, OrderedIsAppended DEF Inv, LastInv
  <2> QED
    BY <1>3, <2>1, <2>2 DEF Committed, Result, Perform, AddMessage, Leaves
<1>4. CASE x.op = "set_document_status"
  <2>1. x.row \in DOMAIN db.documents /\ loaded[c] = db.documents[x.row]
    BY <1>4 DEF Inv, LoadedInv
  <2> DEFINE row == db.documents[x.row]
             method == IF x.method = "None" THEN row.method ELSE x.method
             new == [row EXCEPT !.status = x.status, !.method = method, !.error = x.error]
  <2>2. \A u, v : Column(u, v, u) = v
    BY DEF Column
  <2>3. UpdateDocument(c, row) = new
    <3>1. loaded[c] = row
      BY <2>1
    <3>2. UpdateDocument(c, row) =
            [row EXCEPT !.status = Column(row.status, x.status, row.status),
                        !.method = IF x.method = "None" THEN row.method
                                   ELSE Column(row.method, x.method, row.method),
                        !.error = Column(row.error, x.error, row.error)]
      BY <3>1, Zenon DEF UpdateDocument
    <3> QED
      BY <3>2, <2>2, Zenon
  <2>4. Committed(c) = [db EXCEPT !.documents[x.row] = UpdateDocument(c, row)]
    BY <1>4 DEF Committed
  <2>5. Perform(db, c, x) =
          Leaves([db EXCEPT !.documents[x.row] = new], Done)
    <3>1. Perform(db, c, x) = SetDocumentStatus(db, x.row, x)
      BY <1>4 DEF Perform
    <3>2. SetDocumentStatus(db, x.row, x) =
            Leaves([db EXCEPT !.documents[x.row] = new], Done)
      BY <2>1 DEF SetDocumentStatus
    <3> QED
      BY <3>1, <3>2
  <2>6. Result(c) = Perform(db, c, x).answer
    BY <1>4 DEF Result
  <2> QED
    BY <2>3, <2>4, <2>5, <2>6 DEF Leaves
<1>5. CASE x.op = "set_status"
  <2>1. x.row \in DOMAIN db.applications /\ loaded[c] = db.applications[x.row]
    BY <1>5 DEF Inv, LoadedInv
  <2> QED
    BY <1>5, <2>1
    DEF Committed, Result, Column, Perform, SetApplicationStatus, Leaves
<1>6. CASE x.op = "decide"
  <2>1. Get(db.approvals, x.row) = {"None"}
    BY <1>6 DEF Inv, LoadedInv
  <2> QED
    BY <1>6, <2>1 DEF Committed, Result, Perform, Decide, Leaves
<1>7. CASE x.op \notin {"ensure_conversation", "add_message", "set_document_status",
                         "set_status", "decide"}
  BY <1>7 DEF Committed, Result
<1> QED
  BY <1>2, <1>3, <1>4, <1>5, <1>6, <1>7

-----------------------------------------------------------------------------
(* Every step preserves the invariant.                                     *)

\* A call ends: its transaction takes effect, or not, and it has its answer.
LEMMA EndStep ==
  ASSUME PgAssumption, SerialCallers, Inv, NEW c \in Calls, Open(c),
         \/ db' = db
         \/ ~Refused(c) /\ db' = Perform(db, c, request[c]).store,
         NEW a, a # NoAnswer, answer' = [answer EXCEPT ![c] = a],
         UNCHANGED <<request, loaded, began>>
  PROVE  Inv'
<1> DEFINE x == request[c]
<1>1. x \in Requests /\ x.op \in Operations /\ x # NoRequest
  BY DEF Inv, TypeInv, Open, PgAssumption
<1>2. /\ \A d \in Calls : d # c => answer'[d] = answer[d]
      /\ answer'[c] # NoAnswer
  BY DEF Inv, TypeInv
<1>3. /\ \A d \in Calls : Open(d)' <=> Open(d) /\ d # c
      /\ answer[c] = NoAnswer
  BY <1>2 DEF Open
<1>4. \/ db'.messages = db.messages
      \/ x.op = "ensure_conversation" /\ db'.messages = Put(db.messages, c, <<>>)
      \/ /\ x.op = "add_message" /\ x.row \in DOMAIN db.messages
         /\ db'.messages = [db.messages EXCEPT ![x.row] = Append(@, c)]
  <2>1. CASE db' = db
    BY <2>1
  <2>2. CASE db' = Perform(db, c, x).store
    <3>1. TypeInv
      BY DEF Inv
    <3> QED
      BY <1>1, <2>2, <3>1, MessagesAfter
  <2> QED
    BY <2>1, <2>2
<1>5. /\ \/ db'.documents = db.documents
         \/ x.op = "add_document" /\ KeepsBut(c, db.documents, db'.documents)
         \/ /\ x.op = "set_document_status" /\ x.row \in DOMAIN db.documents
            /\ KeepsBut(x.row, db.documents, db'.documents)
      /\ \/ db'.applications = db.applications
         \/ x.op = "create_application" /\ KeepsBut(c, db.applications, db'.applications)
         \/ /\ x.op = "set_status" /\ x.row \in DOMAIN db.applications
            /\ KeepsBut(x.row, db.applications, db'.applications)
      /\ \/ db'.approvals = db.approvals
         \/ x.op = "create_approval" /\ KeepsBut(c, db.approvals, db'.approvals)
         \/ /\ x.op = "decide" /\ x.row \in DOMAIN db.approvals
            /\ KeepsBut(x.row, db.approvals, db'.approvals)
  BY <1>1, RowsAfter DEF Inv
<1>6. c \notin DOMAIN db.messages /\ c \notin DOMAIN db.documents
      /\ c \notin DOMAIN db.applications /\ c \notin DOMAIN db.approvals
  BY <1>3 DEF Inv, RowsInv
<1>7. TypeInv'
  <2>1. DOMAIN db' = Tables /\ db' = [t \in Tables |-> db'[t]]
    <3>1. CASE db' = db
      BY <3>1 DEF Inv, TypeInv
    <3>2. CASE db' = Perform(db, c, x).store
      <4>1. TypeInv
        BY DEF Inv
      <4> QED
        BY <1>1, <3>2, <4>1, TablesAfter
    <3> QED
      BY <3>1, <3>2
  <2>2. ASSUME NEW m \in DOMAIN db'.messages PROVE db'.messages[m] \in Seq(Calls)
    <3>1. m \in DOMAIN db.messages => db.messages[m] \in Seq(Calls)
      BY DEF Inv, TypeInv
    <3>2. \/ m \in DOMAIN db.messages /\ db'.messages[m] = db.messages[m]
          \/ db'.messages[m] = <<>>
          \/ m \in DOMAIN db.messages /\ db'.messages[m] = Append(db.messages[m], c)
      BY <1>4, <2>2 DEF Put
    <3>3. <<>> \in Seq(Calls)
      OBVIOUS
    <3>4. \A q \in Seq(Calls) : Append(q, c) \in Seq(Calls)
      OBVIOUS
    <3> QED
      BY <3>1, <3>2, <3>3, <3>4
  <2>3. \A d \in Calls : request'[d] = NoRequest => answer'[d] = NoAnswer
    BY <1>1, <1>2 DEF Inv, TypeInv
  <2> QED
    BY <2>1, <2>2, <2>3 DEF Inv, TypeInv
<1>8. TurnsInv'
  BY <1>3 DEF Inv, TurnsInv
<1>9. BeganInv'
  <2>1. ASSUME NEW m \in DOMAIN db'.messages, NEW i \in 1..Len(db'.messages[m])
        PROVE  \E j \in 1..Len(began) : began[j] = db'.messages[m][i]
    <3>1. CASE m \in DOMAIN db.messages /\ db'.messages[m] = db.messages[m]
      BY <2>1, <3>1 DEF Inv, BeganInv
    <3>2. CASE db'.messages[m] = <<>>
      BY <2>1, <3>2
    <3>3. CASE /\ x.op = "add_message" /\ m \in DOMAIN db.messages
               /\ db'.messages[m] = Append(db.messages[m], c)
      <4>1. db.messages[m] \in Seq(Calls)
        BY <3>3 DEF Inv, TypeInv
      <4>2. CASE i \in 1..Len(db.messages[m])
        BY <3>3, <4>1, <4>2 DEF Inv, BeganInv
      <4>3. CASE i = Len(db.messages[m]) + 1
        BY <3>3, <4>1, <4>3 DEF Inv, BeganInv
      <4> QED
        BY <2>1, <3>3, <4>1, <4>2, <4>3
    <3> QED
      BY <1>4, <2>1, <3>1, <3>2, <3>3 DEF Put
  <2>2. \A d \in Calls : Open(d)' => Open(d)
    BY <1>3
  <2> QED
    BY <2>1, <2>2 DEF Inv, BeganInv
<1>10. ASSUME NEW d \in Calls PROVE RowsInv(d)'
  BY <1>2, <1>4, <1>5 DEF Inv, RowsInv, KeepsBut, Put
<1>11. ASSUME NEW d \in Calls, Open(d)' PROVE LoadedInv(d)'
  <2> DEFINE y == request[d]
  <2>1. Open(d) /\ d # c /\ LoadedInv(d)
    BY <1>3, <1>11 DEF Inv
  <2>2. Updates(y) # NoRow => Updates(x) # Updates(y)
    BY <2>1 DEF Inv, TurnsInv
  <2>3. y.op = "set_document_status" =>
          y.row \in DOMAIN db'.documents /\ db'.documents[y.row] = db.documents[y.row]
    BY <1>5, <1>6, <2>1, <2>2 DEF LoadedInv, KeepsBut, Updates, NoRow
  <2>4. y.op = "set_status" =>
          y.row \in DOMAIN db'.applications
          /\ db'.applications[y.row] = db.applications[y.row]
    BY <1>5, <1>6, <2>1, <2>2 DEF LoadedInv, KeepsBut, Updates, NoRow
  <2>5. y.op = "decide" =>
          y.row \in DOMAIN db'.approvals /\ db'.approvals[y.row] = db.approvals[y.row]
    BY <1>5, <1>6, <2>1, <2>2 DEF LoadedInv, KeepsBut, Updates, NoRow, Get
  <2> QED
    BY <2>1, <2>3, <2>4, <2>5 DEF LoadedInv, Get
<1>12. ASSUME NEW d \in Calls, Open(d)' PROVE LastInv(d)'
  <2> DEFINE y == request[d]
  <2>1. Open(d) /\ d # c /\ LastInv(d)
    BY <1>3, <1>12 DEF Inv
  <2>2. Updates(y) # NoRow => Updates(x) # Updates(y)
    BY <2>1 DEF Inv, TurnsInv
  <2>3. y.op = "add_message" /\ y.row \in DOMAIN db'.messages =>
          \/ y.row \in DOMAIN db.messages /\ db'.messages[y.row] = db.messages[y.row]
          \/ db'.messages[y.row] = <<>>
    BY <1>4, <2>1, <2>2 DEF Updates, NoRow, Put
  <2> QED
    BY <2>1, <2>3 DEF LastInv, Earlier
<1> QED
  BY <1>7, <1>8, <1>9, <1>10, <1>11, <1>12 DEF Inv

\* Earlier, of any order of calls.
Precedes(calls, m, n) ==
  \E i, j \in DOMAIN calls : i < j /\ calls[i] = m /\ calls[j] = n

\* A call that begins comes last.
LEMMA AppendPrecedes ==
  ASSUME NEW calls \in Seq(Calls), NEW c \in Calls, \A i \in DOMAIN calls : calls[i] # c
  PROVE  LET after == Append(calls, c) IN
         /\ \A k \in DOMAIN calls :
              Precedes(after, calls[k], c) /\ ~Precedes(after, c, calls[k])
         /\ \A m, n : m # c /\ n # c => (Precedes(after, m, n) <=> Precedes(calls, m, n))
<1> DEFINE after == Append(calls, c)
           last == Len(calls) + 1
<1>1. Len(calls) \in Nat /\ DOMAIN calls = 1..Len(calls) /\ DOMAIN after = 1..last
      /\ after[last] = c /\ \A i \in DOMAIN calls : after[i] = calls[i]
  OBVIOUS
<1> HIDE DEF after
<1>2. \A k \in DOMAIN calls : Precedes(after, calls[k], c)
  <2> TAKE k \in DOMAIN calls
  <2>1. k \in DOMAIN after /\ last \in DOMAIN after /\ k < last
    BY <1>1
  <2> QED
    BY <1>1, <2>1 DEF Precedes
<1>3. \A k \in DOMAIN calls : ~Precedes(after, c, calls[k])
  <2> SUFFICES ASSUME NEW i \in DOMAIN after, NEW j \in DOMAIN after,
                      i < j, after[i] = c, after[j] # c
               PROVE  FALSE
    BY <1>1 DEF Precedes
  <2>1. i = last
    BY <1>1
  <2> QED
    BY <1>1, <2>1
<1>4. ASSUME NEW m, NEW n, m # c, n # c
      PROVE  Precedes(after, m, n) <=> Precedes(calls, m, n)
  <2>1. \A i \in DOMAIN after : after[i] # c => i \in DOMAIN calls /\ after[i] = calls[i]
    BY <1>1
  <2>2. \A i \in DOMAIN calls : i \in DOMAIN after /\ after[i] = calls[i]
    BY <1>1
  <2> QED
    BY <1>4, <2>1, <2>2 DEF Precedes
<1> QED
  BY <1>2, <1>3, <1>4 DEF after

\* A call begins: it has its answer, or keeps what it loaded.
LEMMA BeginStep ==
  ASSUME PgAssumption, SerialCallers, Inv, NEW c \in Calls, NEW x \in Requests, Begin(c, x)
  PROVE  Inv'
<1>1. /\ x.op \in Operations /\ x # NoRequest
      /\ request[c] = NoRequest /\ answer[c] = NoAnswer /\ UNCHANGED db
      /\ request' = [request EXCEPT ![c] = x] /\ request'[c] = x
      /\ \A d \in Calls : d # c => request'[d] = request[d]
      /\ \A i \in 1..Len(began) : began[i] \in Calls /\ began[i] # c
  BY DEF BeganInv, PgAssumption, Inv, TypeInv, Begin, Operations, NoRequest
<1>2. CASE EndsReading(x)
  <2>1. /\ answer' = [answer EXCEPT ![c] = Perform(db, c, x).answer]
        /\ UNCHANGED <<loaded, began>>
    BY <1>2 DEF Begin
  <2>2. /\ answer'[c] # NoAnswer
        /\ \A d \in Calls : d # c => answer'[d] = answer[d]
    BY <1>1, <2>1, PerformAnswers DEF Inv, TypeInv
  <2>3. \A d \in Calls : Open(d)' <=> Open(d)
    BY <1>1, <2>2 DEF Open
  <2>4. \A d \in Calls : Open(d) => d # c
    BY <1>1 DEF Open
  <2>5. TypeInv'
    BY <1>1, <2>1, <2>2 DEF Inv, TypeInv
  <2>6. TurnsInv'
    BY <1>1, <2>3, <2>4 DEF Inv, TurnsInv
  <2>7. BeganInv'
    <3>1. \A i \in 1..Len(began) : request'[began[i]] # NoRequest
      BY <1>1 DEF Inv, BeganInv
    <3>2. \A d \in Calls : Open(d)' /\ request'[d].op = "add_message" =>
            \E j \in 1..Len(began) : began[j] = d
      BY <1>1, <2>3, <2>4 DEF Inv, BeganInv
    <3> QED
      BY <1>1, <2>1, <3>1, <3>2 DEF Inv, BeganInv
  <2>8. ASSUME NEW d \in Calls PROVE RowsInv(d)'
    BY <1>1, <2>2 DEF Inv, RowsInv
  <2>9. ASSUME NEW d \in Calls, Open(d)' PROVE LoadedInv(d)' /\ LastInv(d)'
    <3>1. Open(d) /\ d # c
      BY <2>3, <2>4, <2>9
    <3> QED
      BY <1>1, <2>1, <3>1 DEF Inv, LoadedInv, LastInv, Earlier
  <2> QED
    BY <2>5, <2>6, <2>7, <2>8, <2>9 DEF Inv
<1>3. CASE ~EndsReading(x)
  <2>1. /\ loaded' = [loaded EXCEPT ![c] = Load(x)]
        /\ began' = IF x.op = "add_message" THEN Append(began, c) ELSE began
        /\ UNCHANGED answer
    BY <1>3 DEF Begin
  <2>2. \A d \in Calls : Open(d)' <=> Open(d) \/ d = c
    BY <1>1, <2>1 DEF Open
  <2>3. ~Open(c)
    BY <1>1 DEF Open
  <2>4. began \in Seq(Calls)
    BY DEF Inv, TypeInv
  <2>5. TypeInv'
    <3>1. began' \in Seq(Calls)
      BY <2>1, <2>4
    <3>2. DOMAIN loaded' = Calls /\ loaded' = [d \in Calls |-> loaded'[d]]
      BY <2>1 DEF Inv, TypeInv
    <3>3. \A d \in Calls : request'[d] = NoRequest => answer'[d] = NoAnswer
      BY <1>1, <2>1 DEF Inv, TypeInv
    <3>4. request' \in [Calls -> Requests \cup {NoRequest}]
      BY <1>1 DEF Inv, TypeInv
    <3>5. DOMAIN answer' = Calls /\ answer' = [d \in Calls |-> answer'[d]]
      BY <2>1 DEF Inv, TypeInv
    <3>6. /\ DOMAIN db' = Tables /\ db' = [t \in Tables |-> db'[t]]
          /\ \A m \in DOMAIN db'.messages : db'.messages[m] \in Seq(Calls)
      <4>1. db' = db
        BY <1>1
      <4>2. /\ DOMAIN db = Tables /\ db = [t \in Tables |-> db[t]]
            /\ \A m \in DOMAIN db.messages : db.messages[m] \in Seq(Calls)
        BY DEF Inv, TypeInv
      <4> QED
        BY <4>1, <4>2, Zenon
    <3> QED
      BY <3>1, <3>2, <3>3, <3>4, <3>5, <3>6, Zenon DEF TypeInv
  <2>6. \A d \in Calls : Open(d) /\ Updates(x) # NoRow => Updates(request[d]) # Updates(x)
    BY DEF Begin, MayBegin
  <2>7. TurnsInv'
    BY <1>1, <2>2, <2>3, <2>6 DEF Inv, TurnsInv
  <2>8. \A i \in 1..Len(began) : began[i] # c
    BY <1>1
  <2>9. /\ Len(began') >= Len(began)
        /\ \A i \in 1..Len(began) : began'[i] = began[i]
        /\ \A i \in 1..Len(began') :
             i \in 1..Len(began) \/ (began'[i] = c /\ i = Len(began) + 1)
        /\ x.op = "add_message" =>
             Len(began') = Len(began) + 1 /\ began'[Len(began) + 1] = c
    BY <2>1, <2>4
  <2>10. BeganInv'
    <3>1. \A i \in 1..Len(began') : request'[began'[i]] # NoRequest
      BY <1>1, <2>4, <2>9 DEF Inv, BeganInv
    <3>2. \A i, j \in 1..Len(began') : began'[i] = began'[j] => i = j
      BY <2>8, <2>9 DEF Inv, BeganInv
    <3>3. Len(began) \in Nat /\ Len(began') \in Nat
      BY <2>1, <2>4
    <3>4. \A j \in 1..Len(began) : j \in 1..Len(began') /\ began'[j] = began[j]
      BY <2>9, <3>3
    <3>5. \A m \in DOMAIN db.messages : \A i \in 1..Len(db.messages[m]) :
            \E j \in 1..Len(began') : began'[j] = db.messages[m][i]
      BY <3>4 DEF Inv, BeganInv
    <3>6. ASSUME NEW d \in Calls, Open(d)', request'[d].op = "add_message"
          PROVE  \E j \in 1..Len(began') : began'[j] = d
      <4>1. CASE d = c
        <5>1. Len(began) + 1 \in 1..Len(began') /\ began'[Len(began) + 1] = c
          BY <1>1, <2>9, <3>3, <3>6, <4>1
        <5> QED
          BY <4>1, <5>1
      <4>2. CASE d # c
        BY <1>1, <2>2, <3>4, <3>6, <4>2 DEF Inv, BeganInv
      <4> QED
        BY <4>1, <4>2
    <3> QED
      BY <1>1, <3>1, <3>2, <3>5, <3>6 DEF BeganInv
  <2>11. ASSUME NEW d \in Calls PROVE RowsInv(d)'
    BY <1>1, <2>1 DEF Inv, RowsInv
  <2>12. ASSUME NEW d \in Calls, Open(d)' PROVE LoadedInv(d)'
    <3>1. CASE d = c
      <4>1. loaded'[c] = Load(x)
        BY <2>1 DEF Inv, TypeInv
      <4> QED
        BY <1>1, <1>3, <3>1, <4>1 DEF LoadedInv, EndsReading, Load
    <3>2. CASE d # c
      <4>1. Open(d) /\ request'[d] = request[d] /\ loaded'[d] = loaded[d]
        BY <1>1, <2>1, <2>2, <2>12, <3>2 DEF Inv, TypeInv
      <4> QED
        BY <1>1, <4>1 DEF Inv, LoadedInv
    <3> QED
      BY <3>1, <3>2
  <2>13. ASSUME NEW d \in Calls, Open(d)' PROVE LastInv(d)'
    <3> SUFFICES ASSUME request'[d].op = "add_message",
                        request'[d].row \in DOMAIN db.messages,
                        NEW i \in 1..Len(db.messages[request'[d].row])
                 PROVE  LET m == db.messages[request'[d].row][i] IN
                        Precedes(began', m, d) /\ ~Precedes(began', d, m)
      BY <1>1 DEF LastInv, Earlier, Precedes
    <3> DEFINE m == db.messages[request'[d].row][i]
    <3>1. PICK k \in 1..Len(began) : began[k] = m
      BY DEF Inv, BeganInv
    <3>2. k \in DOMAIN began /\ \A j \in DOMAIN began : began[j] # c
      BY <2>4, <2>8
    <3> HIDE DEF m
    <3>3. CASE d = c
      <4>1. began' = Append(began, c)
        BY <1>1, <2>1, <3>3
      <4> QED
        BY <2>4, <3>1, <3>2, <3>3, <4>1, AppendPrecedes DEF m
    <3>4. CASE d # c
      <4>1. Open(d) /\ request'[d] = request[d]
        BY <1>1, <2>2, <2>13, <3>4
      <4>2. Precedes(began, m, d) /\ ~Precedes(began, d, m)
        BY <4>1 DEF Inv, LastInv, Earlier, Precedes, m
      <4>3. m # c
        BY <3>1, <3>2
      <4>4. CASE began' = began
        BY <4>2, <4>4 DEF m
      <4>5. CASE began' = Append(began, c)
        BY <2>4, <3>2, <3>4, <4>2, <4>3, <4>5, AppendPrecedes DEF m
      <4> QED
        BY <2>1, <4>4, <4>5
    <3> QED
      BY <3>3, <3>4
  <2> QED
    BY <2>5, <2>7, <2>10, <2>11, <2>12, <2>13 DEF Inv
<1> QED
  BY <1>2, <1>3

LEMMA InitInv == Init => Inv
<1> SUFFICES ASSUME Init PROVE Inv
  OBVIOUS
<1>1. TypeInv
  BY DEF Init, EmptyStore, NoRows, TypeInv, Tables
<1>2. \A c \in Calls : ~Open(c)
  BY DEF Init, Open
<1>3. BeganInv
  BY <1>2 DEF Init, EmptyStore, NoRows, BeganInv
<1> QED
  BY <1>1, <1>2, <1>3 DEF Init, EmptyStore, NoRows, Inv, TurnsInv, RowsInv

LEMMA NextInv ==
  ASSUME PgAssumption, SerialCallers, Inv, Next PROVE Inv'
<1>1. PICK c \in Calls : (\E x \in Askable : Begin(c, x)) \/ Commit(c) \/ Raise(c)
  BY DEF Next
<1>2. CASE \E x \in Askable : Begin(c, x)
  <2>1. Askable \subseteq Requests
    BY DEF Askable, Requests
  <2> QED
    BY <1>2, <2>1, BeginStep
<1>3. Open(c) => request[c].op \in Operations
  BY DEF Open, Inv, TypeInv, PgAssumption
<1>4. CASE Commit(c)
  <2>1. Result(c) # NoAnswer
    BY <1>3, <1>4, CommitPerforms, PerformAnswers DEF Commit
  <2> QED
    BY <1>4, <2>1, CommitPerforms, EndStep DEF Commit
<1>5. CASE Raise(c)
  <2>1. Raised # NoAnswer
    BY DEF Raised, NoAnswer
  <2> QED
    BY <1>5, <2>1, CommitPerforms, EndStep DEF Raise
<1> QED
  BY <1>1, <1>2, <1>4, <1>5

\* The invariant holds, if callers take turns on the rows they update: what a
\* transaction loaded is in the database when it commits (postgres.py 158-164).
THEOREM Invariance == ASSUME SerialCallers PROVE Spec => []Inv
<1>1. Inv /\ [Next]_vars => Inv'
  <2> SUFFICES ASSUME Inv, [Next]_vars PROVE Inv'
    OBVIOUS
  <2>1. CASE UNCHANGED vars
    <3>1. /\ db' = db /\ request' = request /\ loaded' = loaded
          /\ answer' = answer /\ began' = began
      BY <2>1 DEF vars
    <3>2. TypeInv'
      BY <3>1, Zenon DEF Inv, TypeInv
    <3>3. TurnsInv' /\ BeganInv' /\ \A c \in Calls : Open(c)' <=> Open(c)
      BY <3>1 DEF Inv, TurnsInv, BeganInv, Open
    <3>4. \A c \in Calls : RowsInv(c)' /\ (Open(c) => LoadedInv(c)' /\ LastInv(c)')
      BY <3>1 DEF Inv, RowsInv, LoadedInv, LastInv, Earlier
    <3> QED
      BY <3>2, <3>3, <3>4 DEF Inv
  <2> QED
    BY <2>1, NextInv, PgAssumption
<1> QED
  BY <1>1, InitInv, PTL DEF Spec

-----------------------------------------------------------------------------
(* The refinement.                                                         *)

\* What the caller of the in-memory repositories has asked: a call that is open
\* has not happened yet.
Asked == [c \in Calls |-> IF Open(c) THEN NoRequest ELSE request[c]]

\* Promise has the operations of the same store.
LEMMA SamePerform ==
  /\ \A s, c, x : Promise!Perform(s, c, x) = Perform(s, c, x)
  /\ Promise!Raised = Raised
  BY DEF Perform, EnsureConversation, AddMessage, GetMessages, AddCredentials,
         AddDocument, GetBySha256, SetDocumentStatus, AddJob, CreateApplication,
         SetApplicationStatus, AddEvent, SetFact, CreateApproval, Decide, Leaves, Reads,
         Answer, Raised, Done, Get, Put,
         Promise!Perform, Promise!EnsureConversation, Promise!AddMessage,
         Promise!GetMessages, Promise!AddCredentials, Promise!AddDocument,
         Promise!GetBySha256, Promise!SetDocumentStatus, Promise!AddJob,
         Promise!CreateApplication, Promise!SetApplicationStatus, Promise!AddEvent,
         Promise!SetFact, Promise!CreateApproval, Promise!Decide, Promise!Leaves,
         Promise!Reads, Promise!Answer, Promise!Raised, Promise!Done, Promise!Get,
         Promise!Put

\* A call that ends is one call of the in-memory repositories.
LEMMA EndImplements ==
  ASSUME NEW c \in Calls, request \in [Calls -> Requests \cup {NoRequest}],
         request'[c] \in Requests, Asked[c] = NoRequest,
         Asked' = [Asked EXCEPT ![c] = request'[c]], Asked'[c] = request'[c],
         LET result == Perform(db, c, request'[c]) IN
           \/ answer' = [answer EXCEPT ![c] = result.answer] /\ db' = result.store
           \/ answer' = [answer EXCEPT ![c] = Raised] /\ db' \in {db, result.store}
  PROVE  Promise!RepositoriesNext
<1> SUFFICES Promise!Call(c)
  BY DEF Promise!RepositoriesNext
<1> QED
  BY SamePerform, Zenon DEF Asked, Promise!Call, Promise!NoRequest, NoRequest

\* Every step is a call of the in-memory repositories or changes nothing their
\* callers see.
LEMMA StepImplements ==
  ASSUME PgAssumption, SerialCallers, Inv, Next
  PROVE  Promise!RepositoriesNext \/ UNCHANGED <<db, Asked, answer>>
<1>1. PICK c \in Calls : (\E x \in Askable : Begin(c, x)) \/ Commit(c) \/ Raise(c)
  BY DEF Next
<1>2. /\ request \in [Calls -> Requests \cup {NoRequest}]
      /\ DOMAIN answer = Calls /\ answer = [d \in Calls |-> answer[d]]
  BY DEF Inv, TypeInv
<1>3. CASE \E x \in Askable : Begin(c, x)
  <2>1. PICK x \in Requests : Begin(c, x)
    BY <1>3 DEF Askable, Requests
  <2>2. /\ x.op \in Operations /\ request[c] = NoRequest /\ answer[c] = NoAnswer
        /\ request' = [request EXCEPT ![c] = x] /\ UNCHANGED db
    BY <2>1 DEF Begin, Inv, TypeInv, PgAssumption
  <2>3. Asked[c] = NoRequest /\ request'[c] = x
    BY <1>2, <2>2 DEF Asked, Open
  <2>4. CASE EndsReading(x)
    <3>1. answer' = [answer EXCEPT ![c] = Perform(db, c, x).answer]
      BY <2>1, <2>4 DEF Begin
    <3>2. answer'[c] # NoAnswer /\ \A d \in Calls : d # c => answer'[d] = answer[d]
      BY <1>2, <2>2, <3>1, PerformAnswers
    <3>3. Asked'[c] = x /\ Asked' = [Asked EXCEPT ![c] = x]
      <4>1. \A d \in Calls : d # c => request'[d] = request[d]
        BY <1>2, <2>2
      <4>2. \A d \in Calls : d # c => Asked'[d] = Asked[d]
        BY <3>2, <4>1 DEF Asked, Open
      <4>3. Asked'[c] = x
        BY <2>3, <3>2 DEF Asked, Open
      <4>4. Asked = [d \in Calls |-> Asked[d]] /\ Asked' = [d \in Calls |-> Asked'[d]]
        BY DEF Asked
      <4> HIDE DEF Asked
      <4> QED
        BY <4>2, <4>3, <4>4
    <3>4. db' = Perform(db, c, x).store
      BY <2>2, <2>4, ReadingLeaves
    <3> QED
      BY <1>2, <2>3, <3>1, <3>3, <3>4, EndImplements
  <2>5. CASE ~EndsReading(x)
    <3>1. UNCHANGED answer
      BY <2>1, <2>5 DEF Begin
    <3>2. Asked' = Asked
      BY <1>2, <2>2, <3>1 DEF Asked, Open
    <3> QED
      BY <2>2, <3>1, <3>2
  <2> QED
    BY <2>4, <2>5
<1>4. CASE Commit(c) \/ Raise(c)
  <2> DEFINE result == Perform(db, c, request[c])
  <2>1. Open(c) /\ request' = request /\ request[c] \in Requests
    BY <1>2, <1>4 DEF Commit, Raise, Open
  <2>2. ~Refused(c) => Committed(c) = result.store /\ Result(c) = result.answer
    BY <2>1, CommitPerforms
  <2>3. \/ answer' = [answer EXCEPT ![c] = result.answer] /\ db' = result.store
        \/ answer' = [answer EXCEPT ![c] = Raised] /\ db' \in {db, result.store}
    BY <1>4, <2>2 DEF Commit, Raise
  <2>4. result.answer # NoAnswer /\ Raised # NoAnswer
    <3>1. Raised # NoAnswer
      BY DEF Raised, NoAnswer
    <3> QED
      BY <2>1, <3>1, PerformAnswers DEF PgAssumption
  <2>5. answer'[c] # NoAnswer /\ \A d \in Calls : d # c => answer'[d] = answer[d]
    BY <1>2, <2>3, <2>4
  <2>6. /\ Asked[c] = NoRequest /\ Asked'[c] = request'[c]
        /\ Asked' = [Asked EXCEPT ![c] = request'[c]]
    BY <1>2, <2>1, <2>5 DEF Asked, Open
  <2> QED
    BY <1>2, <2>1, <2>3, <2>6, EndImplements
<1> QED
  BY <1>1, <1>3, <1>4

\* However many calls overlap and wherever they fail, each appears to its
\* caller as one atomic call of the in-memory repositories, or raises, if the
\* callers take turns on the rows they update (db.py 33-40, memory.py 3-4).
THEOREM TransactionsLookAtomic == ASSUME SerialCallers PROVE Spec => ImplementsRepositories
<1>1. Init => Promise!RepositoriesInit
  <2> SUFFICES ASSUME Init PROVE Promise!RepositoriesInit
    OBVIOUS
  <2>1. Asked = [c \in Calls |-> NoRequest]
    BY DEF Init, Asked, Open
  <2> QED
    BY <2>1, Zenon
    DEF Init, Asked, EmptyStore, NoRows, NoRequest, NoAnswer, Promise!RepositoriesInit,
        Promise!EmptyStore, Promise!NoRows, Promise!NoRequest, Promise!NoAnswer
<1>2. Inv /\ [Next]_vars => [Promise!RepositoriesNext]_Promise!repositoryVars
  <2> SUFFICES ASSUME Inv, [Next]_vars
               PROVE  Promise!RepositoriesNext \/ UNCHANGED <<db, Asked, answer>>
    BY Zenon DEF Promise!repositoryVars, Asked
  <2>1. CASE UNCHANGED vars
    BY <2>1 DEF vars, Asked, Open
  <2> QED
    BY <2>1, StepImplements, PgAssumption
<1> QED
  BY <1>1, <1>2, Invariance, PTL
  DEF Spec, ImplementsRepositories, Promise!RepositoriesSpec
=============================================================================
