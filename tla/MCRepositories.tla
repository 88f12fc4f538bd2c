--------------------------- MODULE MCRepositories ---------------------------
(***************************************************************************)
(* A small instance of PgRepositories: four calls, two sessions, two files *)
(* and two fact keys.  The calls of a behaviour are of one group of tables,*)
(* since no operation touches two groups.                                  *)
(***************************************************************************)
EXTENDS PgRepositories, TLC

CONSTANTS c1, c2, c3, c4, v1, v2, f1, f2, k1, k2

MCCalls == {c1, c2, c3, c4}
MCSymmetry == Permutations(MCCalls)

Chat ==
  [op : {"ensure_conversation", "get_messages"}, session : {v1, v2}]
  \cup [op : {"add_message"}, row : MCCalls]
  \cup [op : {"create_approval"}]
  \cup [op : {"decide"}, row : MCCalls, decision : {"approved", "expired"}]

Files ==
  [op : {"add_document", "get_by_sha256"}, sha256 : {f1, f2}]
  \cup [op : {"get_document"}, row : MCCalls]
  \cup [op : {"set_document_status"}, row : MCCalls, status : {"extracted"},
        method : {"ocr"}, error : {"None"}]
  \cup [op : {"set_document_status"}, row : MCCalls, status : {"failed"},
        method : {"None"}, error : {"reason"}]
  \cup [op : {"set_document_status"}, row : MCCalls, status : {"stored"},
        method : {"None"}, error : {"None"}]

Work ==
  [op : {"add_job", "list_jobs"}]
  \cup [op : {"create_application", "set_status"}, row : MCCalls,
        status : {"applied", "offer"}]
  \cup [op : {"get_application", "add_event"}, row : MCCalls]

Person ==
  [op : {"add_many", "list_credentials", "get_all"}]
  \cup [op : {"set_fact"}, key : {k1, k2}]

MCGroups == {Chat, Files, Work, Person}
=============================================================================
