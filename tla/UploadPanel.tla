----------------------------- MODULE UploadPanel -----------------------------
(***************************************************************************)
(* The page's upload panel (components/UploadPanel.tsx) and the requests   *)
(* it makes, composed with Ingestion, whose uploads are its POSTs.         *)
(*                                                                         *)
(* The panel shows one document, polls it while its status is not one the  *)
(* panel takes for final, and shows whatever a response brings, when it    *)
(* arrives, whatever it shows by then.  A poll is a process: it is sent,   *)
(* the server reads the document, then the credentials, in a transaction   *)
(* each, and the response arrives or does not.                             *)
(*                                                                         *)
(* The panel makes one POST at a time, but gives one up as soon as its     *)
(* connection is lost, while the server goes on with it: POSTs of a file   *)
(* can meet in the route, and pipelines on a document.                     *)
(***************************************************************************)
EXTENDS Naturals

CONSTANTS Uploads, FileOf, NoDocument,
          Earlier,      \* uploads that failed before the page was opened
          Choices,      \* bound: Choices[S] may be made after those of S
          Polls,        \* bound: polls that may be under way at once
          Reliable      \* those of them that are not lost

VARIABLES pc, found, status, blobs, creds,   \* of Ingestion
          sent,         \* uploads whose POST was made
          posting,      \* the one whose response the panel awaits ("busy")
          reply,        \* that response: the document and status it will bring
          shown,        \* the document shown, and its status
          listed,       \* whether credentials are listed below it
          deduplicated, \* whether the panel says "Already saved"
          poll          \* poll[i]: the state of a GET

docVars == <<pc, found, status, blobs, creds>>
panelVars == <<sent, posting, reply, shown, listed, deduplicated>>
vars == <<docVars, panelVars, poll>>

\* Uploads may meet, and nothing fails but the pipeline and connections.
Docs == INSTANCE Ingestion WITH Overlapping <- TRUE, Faulty <- FALSE, Crashing <- FALSE

ASSUME PanelAssumption ==
  /\ NoDocument \notin Uploads /\ Reliable \subseteq Polls
  /\ Earlier \subseteq Uploads
  /\ \A d, e \in Earlier : FileOf[d] = FileOf[e] => d = e

Nothing == [doc |-> NoDocument, status |-> "none"]
Document(d, s) == [doc |-> d, status |-> s]
Idle == [at |-> "idle", doc |-> NoDocument, status |-> "none", creds |-> FALSE]

\* TERMINAL, where polling stops.
Terminal == {"stored", "needs_ocr", "failed"}

\* The page is opened; the documents of earlier uploads are there, failed.
Init ==
  /\ pc = [u \in Uploads |-> IF u \in Earlier THEN "finished" ELSE "idle"]
  /\ found = [u \in Uploads |-> NoDocument]
  /\ status = [d \in Uploads |-> IF d \in Earlier THEN "failed" ELSE "none"]
  /\ blobs = Earlier /\ creds = [d \in Uploads |-> 0]
  /\ sent = {} /\ posting = NoDocument /\ reply = Nothing
  /\ shown = Nothing /\ listed = FALSE /\ deduplicated = FALSE
  /\ poll = [i \in Polls |-> Idle]

-----------------------------------------------------------------------------
(* onFileChosen.                                                           *)

\* The input is disabled while a POST is under way; choosing a file clears the panel.
Choose(u) ==
  /\ posting = NoDocument /\ u \in Choices[sent]
  /\ sent' = sent \cup {u} /\ posting' = u
  /\ shown' = Nothing /\ listed' = FALSE /\ deduplicated' = FALSE
  /\ UNCHANGED <<docVars, reply, poll>>

\* The response of u is r, if the panel still awaits it.
Answer(u, r) == reply' = IF u = posting THEN r ELSE reply

\* The route's steps for a POST that was made, awaited or not.  422 and 500
\* bring no document; the step after which the route returns one fixes what
\* the response says.
Route(u) ==
  /\ u \in sent
  /\ \/ (Docs!Reject(u) \/ Docs!AddConflicts(u)) /\ Answer(u, Nothing)
     \/ /\ Docs!LookupDuplicate(u)
        /\ \E d \in Docs!SameFile(u) : Answer(u, Document(d, status[d]))
     \/ /\ Docs!Reopen(u) \/ Docs!AddDocument(u)
        /\ Answer(u, Document(Docs!Doc(u), "uploaded"))
     \/ /\ Docs!LookupRetry(u) \/ Docs!LookupNew(u) \/ Docs!PutBlob(u)
        /\ UNCHANGED reply
  /\ UNCHANGED <<sent, posting, shown, listed, deduplicated, poll>>

\* The response arrives: its document is shown, or an error without one.
Respond ==
  /\ posting # NoDocument
  /\ pc[posting] \notin {"idle", "reopening", "putting", "adding"}
  /\ posting' = NoDocument /\ reply' = Nothing
  /\ IF reply = Nothing THEN UNCHANGED <<shown, deduplicated>>
     ELSE shown' = reply /\ deduplicated' = (pc[posting] = "duplicate")
  /\ UNCHANGED <<docVars, sent, listed, poll>>

\* The connection is lost, before the request arrived, while the route works
\* on it or with the response: the panel shows an error and takes another file.
LosePost ==
  /\ posting # NoDocument
  /\ posting' = NoDocument /\ reply' = Nothing
  /\ UNCHANGED <<docVars, sent, shown, listed, deduplicated, poll>>

-----------------------------------------------------------------------------
(* The polling effect and GET /api/documents/{id}.                         *)

Tick(i) ==
  /\ shown # Nothing /\ shown.status \notin Terminal
  /\ poll[i] = Idle
  /\ poll' = [poll EXCEPT ![i].at = "sent", ![i].doc = shown.doc]
  /\ UNCHANGED <<docVars, panelVars>>

\* Mutant: the credentials are read before the document.
CredentialsFirst == <<"credentials", "document">>

\* What the route reads, in two transactions.
ReadOrder == <<"document", "credentials">>

Read(i, part) ==
  LET d == poll[i].doc IN
  CASE part = "document" -> [poll[i] EXCEPT !.status = status[d]]
    [] part = "credentials" -> [poll[i] EXCEPT !.creds = creds[d] > 0]

ReadOne(i) ==
  /\ poll[i].at = "sent"
  /\ poll' = [poll EXCEPT ![i] = [Read(i, ReadOrder[1]) EXCEPT !.at = "read"]]
  /\ UNCHANGED <<docVars, panelVars>>

ReadOther(i) ==
  /\ poll[i].at = "read"
  /\ poll' = [poll EXCEPT ![i] = [Read(i, ReadOrder[2]) EXCEPT !.at = "answered"]]
  /\ UNCHANGED <<docVars, panelVars>>

\* A response that is not OK is ignored, as a connection that fails is.
Lose(i) ==
  /\ i \notin Reliable /\ poll[i] # Idle
  /\ poll' = [poll EXCEPT ![i] = Idle]
  /\ UNCHANGED <<docVars, panelVars>>

\* Mutant: the interval is not set up again after a response.
DeliverKeepingStatus(i) ==
  /\ poll[i].at = "answered"
  /\ shown' = Document(poll[i].doc, IF poll[i].status \in Terminal THEN shown.status ELSE poll[i].status)
  /\ listed' = poll[i].creds
  /\ poll' = [poll EXCEPT ![i] = Idle]
  /\ UNCHANGED <<docVars, sent, posting, reply, deduplicated>>

Deliver(i) ==
  /\ poll[i].at = "answered"
  /\ shown' = Document(poll[i].doc, poll[i].status)
  /\ listed' = poll[i].creds
  /\ poll' = [poll EXCEPT ![i] = Idle]
  /\ UNCHANGED <<docVars, sent, posting, reply, deduplicated>>

Answered(i) == ReadOne(i) \/ ReadOther(i) \/ Deliver(i)

\* The background task of a POST that was accepted.
Pipeline(u) ==
  /\ pc[u] \in {"accepted"} \cup Docs!Stages
  /\ Docs!BoundedStep(u) \/ Docs!Ocr(u)
  /\ UNCHANGED <<panelVars, poll>>

Next ==
  \/ \E u \in Uploads : Choose(u) \/ Route(u) \/ Pipeline(u)
  \/ Respond \/ LosePost
  \/ \E i \in Polls : Tick(i) \/ Answered(i) \/ Lose(i)

\* The pipeline's steps are bounded, OCR included here; the interval keeps
\* firing and some of its polls are answered.
Spec ==
  /\ Init /\ [][Next]_vars
  /\ WF_vars(\E u \in Uploads : Pipeline(u))
  /\ \A i \in Reliable : WF_vars(Tick(i) \/ Answered(i))

-----------------------------------------------------------------------------
(* Properties.                                                             *)

\* "Done - credentials saved" (UploadPanel.tsx 22) is said only of a document
\* whose credentials are committed, and lists them unless it was a duplicate's
\* answer that said so: although a poll is read in two transactions while the
\* pipeline writes (routes/documents.py 70-73), arrives late, and a POST the
\* panel gave up may be at work on the same document (tsx 73-77).
DoneMeansSaved ==
  shown.status = "stored" => creds[shown.doc] > 0 /\ (listed \/ deduplicated)

\* What is shown as stored still is.  Not so once a retry of the document was
\* given up and made again: two pipelines may then be at work on it.
StoredShownIsStored == shown.status = "stored" => status[shown.doc] = "stored"

\* Polling ends, and the panel ends on what its document ended on, though polls
\* are slow, lost and out of order - unless it took needs_ocr for the end, or
\* what it shows is of before a retry of the document (UploadPanel.tsx 35-50).
Retried(d) == \E u \in Uploads : found[u] = d

PanelSettles ==
  <>[](shown = Nothing
         \/ /\ shown.status \in Terminal
            /\ \/ shown.status \in {status[shown.doc], "needs_ocr"}
               \/ Retried(shown.doc))
=============================================================================
