--------------------------- MODULE PgRepositories ---------------------------
(***************************************************************************)
(* The PostgreSQL repositories (repositories/postgres.py over db.py and    *)
(* the constraints of models/tables.py): one transaction per call, read    *)
(* committed, callers running beside one another.                          *)
(*                                                                         *)
(* A call begins: what it only reads it answers then.  Otherwise it keeps  *)
(* what it loaded and commits later: the columns it changed against what   *)
(* it loaded are written to the row as it is by then, a constraint may     *)
(* refuse them, and the caller may see an exception either way.            *)
(***************************************************************************)
EXTENDS Store, Naturals

CONSTANTS Calls,
          Groups,        \* sets of requests; a behaviour is of one of them
          SerialCallers  \* whether callers take turns on a row they update

Requests == UNION Groups

ASSUME PgAssumption ==
  /\ SerialCallers \in BOOLEAN
  /\ \A x \in Requests : x.op \in Operations

VARIABLES db,        \* the committed rows
          request,   \* request[c]: what call c asked
          loaded,    \* loaded[c]: the row its transaction read
          answer,    \* answer[c]: what the caller got
          began      \* calls of add_message in the order of now() as they began

vars == <<db, request, loaded, answer, began>>

NoRequest == [op |-> "none"]
NoAnswer == [ok |-> FALSE, value |-> "pending"]
NoRow == <<>>

Open(c) == request[c] # NoRequest /\ answer[c] = NoAnswer

Init ==
  /\ db = EmptyStore
  /\ request = [c \in Calls |-> NoRequest]
  /\ loaded = [c \in Calls |-> NoRow]
  /\ answer = [c \in Calls |-> NoAnswer]
  /\ began = <<>>

\* The row an operation updates, or the conversation it appends to.
Updates(x) ==
  IF x.op \in {"add_message", "set_document_status", "set_status", "decide"}
  THEN <<x.op, x.row>> ELSE NoRow

MayBegin(x) ==
  SerialCallers /\ Updates(x) # NoRow =>
    \A d \in Calls : Open(d) => Updates(request[d]) # Updates(x)

\* Bound: requests of the group of those already made.
Askable ==
  UNION {g \in Groups : \A d \in Calls : request[d] # NoRequest => request[d] \in g}

\* Operations that end with their SELECT: the reads, and the early returns and
\* exceptions of the others.
EndsReading(x) ==
  \/ x.op \in {"get_messages", "list_credentials", "get_by_sha256", "get_document",
               "list_jobs", "get_application", "get_all"}
  \/ x.op = "ensure_conversation" /\ x.session \in DOMAIN db.conversations
  \/ x.op = "set_document_status" /\ x.row \notin DOMAIN db.documents
  \/ x.op = "set_status" /\ x.row \notin DOMAIN db.applications
  \/ x.op = "decide" /\ Get(db.approvals, x.row) # {"None"}

Load(x) ==
  CASE x.op = "set_document_status" -> db.documents[x.row]
    [] x.op = "set_status" -> db.applications[x.row]
    [] OTHER -> NoRow

Begin(c, x) ==
  /\ request[c] = NoRequest
  /\ MayBegin(x)
  /\ request' = [request EXCEPT ![c] = x]
  /\ IF EndsReading(x)
     THEN /\ answer' = [answer EXCEPT ![c] = Perform(db, c, x).answer]
          /\ UNCHANGED <<loaded, began>>
     ELSE /\ loaded' = [loaded EXCEPT ![c] = Load(x)]
          /\ began' = IF x.op = "add_message" THEN Append(began, c) ELSE began
          /\ UNCHANGED answer
  /\ UNCHANGED db

\* Mutant: the session of a conversation is not unique.
UniqueButForSessions(c) ==
  LET x == request[c] IN
  /\ x.op = "add_document"
  /\ \E d \in DOMAIN db.documents : db.documents[d].sha256 = x.sha256

\* conversation.sdk_session_id and document.sha256 are unique.
NotUnique(c) ==
  LET x == request[c] IN
  \/ x.op = "ensure_conversation" /\ x.session \in DOMAIN db.conversations
  \/ /\ x.op = "add_document"
     /\ \E d \in DOMAIN db.documents : db.documents[d].sha256 = x.sha256

\* Foreign keys.
NoReferent(c) ==
  LET x == request[c] IN
  \/ x.op = "add_message" /\ x.row \notin DOMAIN db.messages
  \/ x.op = "create_application" /\ x.row \notin db.jobs
  \/ x.op = "add_event" /\ x.row \notin DOMAIN db.applications

Refused(c) == NotUnique(c) \/ NoReferent(c)

\* A column as it is after the commit: written only if it was changed.
Column(old, new, now) == IF new = old THEN now ELSE new

UpdateDocument(c, row) ==
  LET x == request[c] IN
  [row EXCEPT !.status = Column(loaded[c].status, x.status, @),
              !.method = IF x.method = "None" THEN @ ELSE Column(loaded[c].method, x.method, @),
              !.error = Column(loaded[c].error, x.error, @)]

\* ORDER BY at, which is when the message's transaction began.
Earlier(m, n) == \E i, j \in DOMAIN began : i < j /\ began[i] = m /\ began[j] = n

InOrder(messages, c) ==
  LET k == CHOOSE k \in 0..Len(messages) :
             \A i \in 1..Len(messages) :
               IF i <= k THEN Earlier(messages[i], c) ELSE Earlier(c, messages[i])
  IN  SubSeq(messages, 1, k) \o <<c>> \o SubSeq(messages, k + 1, Len(messages))

Committed(c) ==
  LET x == request[c] IN
  CASE x.op = "ensure_conversation" ->
         [db EXCEPT !.conversations = Put(@, x.session, c), !.messages = Put(@, c, <<>>)]
    [] x.op = "add_message" ->
         [db EXCEPT !.messages[x.row] = InOrder(@, c)]
    [] x.op = "set_document_status" ->
         [db EXCEPT !.documents[x.row] = UpdateDocument(c, @)]
    [] x.op = "set_status" ->
         [db EXCEPT !.applications[x.row].status = Column(loaded[c].status, x.status, @)]
    [] x.op = "decide" ->
         [db EXCEPT !.approvals[x.row] = x.decision]
    [] OTHER -> Perform(db, c, x).store

Result(c) ==
  CASE request[c].op = "ensure_conversation" -> Answer(c)
    [] request[c].op = "decide" -> Answer(TRUE)
    [] OTHER -> Perform(db, c, request[c]).answer

Commit(c) ==
  /\ Open(c) /\ ~Refused(c)
  /\ db' = Committed(c)
  /\ answer' = [answer EXCEPT ![c] = Result(c)]
  /\ UNCHANGED <<request, loaded, began>>

\* A constraint refuses the flush, the connection breaks before or after the
\* commit, or the caller is cancelled: session_scope rolls back what it can.
Raise(c) ==
  /\ Open(c)
  /\ \/ UNCHANGED db
     \/ ~Refused(c) /\ db' = Committed(c)
  /\ answer' = [answer EXCEPT ![c] = Raised]
  /\ UNCHANGED <<request, loaded, began>>

Next == \E c \in Calls : (\E x \in Askable : Begin(c, x)) \/ Commit(c) \/ Raise(c)

Spec == Init /\ [][Next]_vars

-----------------------------------------------------------------------------
(* Properties.                                                             *)

Promise == INSTANCE Repositories WITH
  store <- db,
  request <- [c \in Calls |-> IF Open(c) THEN NoRequest ELSE request[c]]

\* However transactions interleave and fail, every call appears to its caller
\* as one atomic step of the in-memory repositories, or raises (memory.py 3-4:
\* must behave identically): conversations are made once, history keeps its
\* order, no answer is stale.  Callers take turns on the rows they update.
ImplementsRepositories == Promise!RepositoriesSpec
=============================================================================
