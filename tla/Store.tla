-------------------------------- MODULE Store --------------------------------
(***************************************************************************)
(* The repositories as data: what they hold, and what each operation       *)
(* answers and leaves behind when nothing runs beside it.  The operations  *)
(* are those of repositories/base.py, with the behaviour of                *)
(* repositories/memory.py, whose dictionaries are functions here.          *)
(*                                                                         *)
(* A row's id is that of the call that inserted it, as a fresh UUID is.    *)
(* What is not looked at by an operation is left out of its row.  Lists    *)
(* are sets where no caller uses their order: all but a conversation's     *)
(* messages.  A result that may be None is a set of at most one element.   *)
(***************************************************************************)
EXTENDS Sequences

\* dict[k] = v
Put(dict, k, v) == [x \in DOMAIN dict \cup {k} |-> IF x = k THEN v ELSE dict[x]]

NoRows == <<>>

EmptyStore ==
  [conversations |-> NoRows,   \* _by_session: conversation id of a session
   messages      |-> NoRows,   \* messages of a conversation, oldest first
   documents     |-> NoRows,   \* sha256, status, extraction method, error
   credentials   |-> {},
   jobs          |-> {},
   applications  |-> NoRows,   \* job and status
   events        |-> NoRows,   \* events of an application
   profile       |-> NoRows,   \* value of a fact
   approvals     |-> NoRows]   \* decision of an approval

\* An operation's result: an answer, or an exception.
Raised == [ok |-> FALSE]
Answer(v) == [ok |-> TRUE, value |-> v]
Done == Answer("None")

Leaves(s, a) == [store |-> s, answer |-> a]
Reads(s, v) == Leaves(s, Answer(v))

\* The value for a key that may be missing.
Get(dict, k) == IF k \in DOMAIN dict THEN {dict[k]} ELSE {}

-----------------------------------------------------------------------------
EnsureConversation(s, id, session) ==
  IF session \in DOMAIN s.conversations THEN Reads(s, s.conversations[session])
  ELSE Leaves([s EXCEPT !.conversations = Put(@, session, id),
                        !.messages = Put(@, id, <<>>)],
              Answer(id))

AddMessage(s, id, conversation) ==
  IF conversation \notin DOMAIN s.messages THEN Leaves(s, Raised)
  ELSE Leaves([s EXCEPT !.messages[conversation] = Append(@, id)], Done)

GetMessages(s, session) ==
  Reads(s, IF session \in DOMAIN s.conversations
           THEN s.messages[s.conversations[session]] ELSE <<>>)

AddCredentials(s, id) ==
  Leaves([s EXCEPT !.credentials = @ \cup {id}], Answer(id))

AddDocument(s, id, sha) ==
  LET row == [sha256 |-> sha, status |-> "uploaded", method |-> "None", error |-> "None"]
  IN  Leaves([s EXCEPT !.documents = Put(@, id, row)], Answer(row))

GetBySha256(s, sha) ==
  Reads(s, {d \in DOMAIN s.documents : s.documents[d].sha256 = sha})

SetDocumentStatus(s, document, x) ==
  IF document \notin DOMAIN s.documents THEN Leaves(s, Raised)
  ELSE LET row == s.documents[document]
           new == [row EXCEPT !.status = x.status,
                              !.method = IF x.method = "None" THEN row.method ELSE x.method,
                              !.error = x.error]
       IN  Leaves([s EXCEPT !.documents[document] = new], Done)

AddJob(s, id) == Leaves([s EXCEPT !.jobs = @ \cup {id}], Answer(id))

CreateApplication(s, id, job, status) ==
  LET row == [job |-> job, status |-> status]
  IN  Leaves([s EXCEPT !.applications = Put(@, id, row),
                       !.events = Put(@, id, {})],
             Answer(row))

SetApplicationStatus(s, application, status) ==
  IF application \notin DOMAIN s.applications THEN Leaves(s, Raised)
  ELSE Leaves([s EXCEPT !.applications[application].status = status], Done)

AddEvent(s, id, application) ==
  IF application \notin DOMAIN s.events THEN Leaves(s, Raised)
  ELSE Leaves([s EXCEPT !.events[application] = @ \cup {id}], Done)

SetFact(s, key, value) ==
  Leaves([s EXCEPT !.profile = Put(@, key, value)], Answer(value))

CreateApproval(s, id) ==
  Leaves([s EXCEPT !.approvals = Put(@, id, "None")], Answer(id))

Decide(s, approval, decision) ==
  IF Get(s.approvals, approval) # {"None"} THEN Reads(s, FALSE)
  ELSE Leaves([s EXCEPT !.approvals[approval] = decision], Answer(TRUE))

-----------------------------------------------------------------------------
Operations ==
  {"ensure_conversation", "add_message", "get_messages", "add_many", "list_credentials",
   "add_document", "get_by_sha256", "get_document", "set_document_status", "add_job",
   "list_jobs", "create_application", "get_application", "set_status", "add_event",
   "set_fact", "get_all", "create_approval", "decide"}

\* What call `id` with request x does to the store s.
Perform(s, id, x) ==
  CASE x.op = "ensure_conversation" -> EnsureConversation(s, id, x.session)
    [] x.op = "add_message"         -> AddMessage(s, id, x.row)
    [] x.op = "get_messages"        -> GetMessages(s, x.session)
    [] x.op = "add_many"            -> AddCredentials(s, id)
    [] x.op = "list_credentials"    -> Reads(s, s.credentials)
    [] x.op = "add_document"        -> AddDocument(s, id, x.sha256)
    [] x.op = "get_by_sha256"       -> GetBySha256(s, x.sha256)
    [] x.op = "get_document"        -> Reads(s, Get(s.documents, x.row))
    [] x.op = "set_document_status" -> SetDocumentStatus(s, x.row, x)
    [] x.op = "add_job"             -> AddJob(s, id)
    [] x.op = "list_jobs"           -> Reads(s, s.jobs)
    [] x.op = "create_application"  -> CreateApplication(s, id, x.row, x.status)
    [] x.op = "get_application"     -> Reads(s, Get(s.applications, x.row))
    [] x.op = "set_status"          -> SetApplicationStatus(s, x.row, x.status)
    [] x.op = "add_event"           -> AddEvent(s, id, x.row)
    [] x.op = "set_fact"            -> SetFact(s, x.key, id)
    [] x.op = "get_all"             -> Reads(s, s.profile)
    [] x.op = "create_approval"     -> CreateApproval(s, id)
    [] x.op = "decide"              -> Decide(s, x.row, x.decision)
=============================================================================
