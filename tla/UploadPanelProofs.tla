-------------------------- MODULE UploadPanelProofs --------------------------
(***************************************************************************)
(* Where the upload panel says that credentials are saved, they are, and   *)
(* listed, for any files, uploads and polls, however slow, lost or out of  *)
(* order, and whatever POSTs the panel has given up are still at work.     *)
(* IngestionProofs says that a stored document has credentials, uploads    *)
(* overlapping or not; that it keeps them is shown here.                   *)
(***************************************************************************)
EXTENDS UploadPanel, TLAPS

DocsProofs == INSTANCE IngestionProofs WITH
                Overlapping <- TRUE, Faulty <- FALSE, Crashing <- FALSE

\* The panel gives ingestion what it assumes.
LEMMA DocsAssumed == DocsProofs!IngestionAssumption
  BY PanelAssumption DEF DocsProofs!IngestionAssumption

\* What ingestion knows of its uploads and documents.
DocsInv == DocsProofs!TypeOK /\ DocsProofs!IngestInv

\* Docs and DocsProofs instantiate the same module: the steps of the route
LEMMA SameRoute ==
  ASSUME NEW u
  PROVE  /\ Docs!Reject(u) <=> DocsProofs!Reject(u)
         /\ Docs!LookupDuplicate(u) <=> DocsProofs!LookupDuplicate(u)
         /\ Docs!LookupRetry(u) <=> DocsProofs!LookupRetry(u)
         /\ Docs!LookupNew(u) <=> DocsProofs!LookupNew(u)
         /\ Docs!Reopen(u) <=> DocsProofs!Reopen(u)
         /\ Docs!PutBlob(u) <=> DocsProofs!PutBlob(u)
         /\ Docs!AddDocument(u) <=> DocsProofs!AddDocument(u)
         /\ Docs!AddConflicts(u) <=> DocsProofs!AddConflicts(u)
  BY DEF Docs!Reject, Docs!LookupDuplicate, Docs!LookupRetry, Docs!LookupNew,
         Docs!Reopen, Docs!PutBlob, Docs!AddDocument, Docs!AddConflicts, Docs!MayStart, Docs!SameFile,
         Docs!SetStatus, Docs!Doc, Docs!Awaits, Docs!Goto,
         DocsProofs!Reject, DocsProofs!LookupDuplicate, DocsProofs!LookupRetry,
         DocsProofs!LookupNew, DocsProofs!Reopen, DocsProofs!PutBlob,
         DocsProofs!AddDocument, DocsProofs!AddConflicts, DocsProofs!MayStart, DocsProofs!SameFile,
         DocsProofs!SetStatus, DocsProofs!Doc, DocsProofs!Awaits, DocsProofs!Goto

\* and those of the pipeline.
LEMMA SamePipeline ==
  ASSUME NEW u
  PROVE  Docs!BoundedStep(u) \/ Docs!Ocr(u) <=> DocsProofs!BoundedStep(u) \/ DocsProofs!Ocr(u)
  BY DEF Docs!BoundedStep, Docs!StartPipeline, Docs!Fetch, Docs!MarkNeedsOcr,
         Docs!MarkOcrFailed, Docs!MarkExtracted, Docs!Decompose, Docs!MarkDecomposed,
         Docs!StoreCredentials, Docs!MarkStored, Docs!MarkFailed, Docs!Ocr, Docs!Stage,
         Docs!SetStatus, Docs!Doc, Docs!Awaits, Docs!Goto,
         DocsProofs!BoundedStep, DocsProofs!StartPipeline, DocsProofs!Fetch,
         DocsProofs!MarkNeedsOcr, DocsProofs!MarkOcrFailed, DocsProofs!MarkExtracted,
         DocsProofs!Decompose, DocsProofs!MarkDecomposed, DocsProofs!StoreCredentials,
         DocsProofs!MarkStored, DocsProofs!MarkFailed, DocsProofs!Ocr, DocsProofs!Stage,
         DocsProofs!SetStatus, DocsProofs!Doc, DocsProofs!Awaits, DocsProofs!Goto

-----------------------------------------------------------------------------
(* The inductive invariant.                                                *)

Known == {"none", "uploaded", "needs_ocr", "extracted", "decomposed", "stored", "failed"}
Documents == {Nothing} \cup [doc : Uploads, status : Known]

PanelTypes ==
  /\ sent \subseteq Uploads /\ posting \in Uploads \cup {NoDocument}
  /\ reply \in Documents /\ shown \in Documents
  /\ listed \in BOOLEAN /\ deduplicated \in BOOLEAN
  /\ poll \in [Polls -> [at : {"idle", "sent", "read", "answered"},
                         doc : Uploads \cup {NoDocument},
                         status : Known, creds : BOOLEAN]]

\* A response that will say stored is a duplicate's.
PostInv ==
  /\ posting = NoDocument => reply = Nothing
  /\ reply.status = "stored" =>
       posting \in Uploads /\ pc[posting] = "duplicate" /\ creds[reply.doc] > 0

\* A poll that read stored read the credentials after they were there.
PollInv(i) ==
  /\ poll[i].at # "idle" => poll[i].doc \in Uploads
  /\ poll[i].at \in {"read", "answered"} /\ poll[i].status = "stored" =>
       creds[poll[i].doc] > 0
  /\ poll[i].at = "answered" /\ poll[i].status = "stored" => poll[i].creds = TRUE

PanelInv == PanelTypes /\ PostInv /\ DoneMeansSaved /\ \A i \in Polls : PollInv(i)

Inv == DocsInv /\ PanelInv

-----------------------------------------------------------------------------
(* The documents.                                                          *)

\* Credentials stored stay stored.
CredsStay == \A d \in Uploads : creds[d] > 0 => creds'[d] > 0

\* A step of the route or of a pipeline keeps what ingestion knows.
LEMMA DocsStep ==
  ASSUME Inv, NEW u \in Uploads, Route(u) \/ Pipeline(u)
  PROVE  DocsInv' /\ CredsStay
<1> USE DocsAssumed
<1>1. CASE Pipeline(u)
  <2>1. DocsProofs!BoundedStep(u) \/ DocsProofs!Ocr(u)
    BY <1>1, SamePipeline DEF Pipeline
  <2>2. DocsInv'
    BY <2>1, DocsProofs!PipelineStepInv DEF Inv, DocsInv
  <2>3. creds' \in {creds, [creds EXCEPT ![Docs!Doc(u)] = @ + 1]}
    BY <1>1
    DEF Pipeline, Docs!BoundedStep, Docs!StartPipeline, Docs!Fetch, Docs!MarkNeedsOcr,
        Docs!MarkOcrFailed, Docs!MarkExtracted, Docs!Decompose, Docs!MarkDecomposed,
        Docs!StoreCredentials, Docs!MarkStored, Docs!MarkFailed, Docs!Ocr, Docs!Stage,
        Docs!Awaits
  <2> QED
    BY <2>2, <2>3 DEF Inv, DocsInv, DocsProofs!TypeOK, CredsStay
<1>2. CASE Route(u)
  <2>1. \/ Docs!Reject(u) \/ Docs!LookupDuplicate(u)
        \/ Docs!LookupRetry(u) \/ Docs!LookupNew(u)
        \/ Docs!Reopen(u) \/ Docs!AddDocument(u) \/ Docs!PutBlob(u) \/ Docs!AddConflicts(u)
    BY <1>2 DEF Route
  <2>2. DocsInv'
    BY <2>1, SameRoute, DocsProofs!UploadStepInv DEF DocsProofs!UploadStep, Inv, DocsInv
  <2>3. UNCHANGED creds
    BY <2>1
    DEF Docs!Reject, Docs!LookupDuplicate, Docs!LookupRetry, Docs!LookupNew, Docs!Reopen,
        Docs!AddDocument, Docs!PutBlob, Docs!AddConflicts
  <2> QED
    BY <2>2, <2>3 DEF CredsStay
<1> QED
  BY <1>1, <1>2

-----------------------------------------------------------------------------
(* The panel.                                                              *)

\* What is shown, or was read, as saved stays so while documents move on.
LEMMA SavedStays ==
  ASSUME Inv, CredsStay, UNCHANGED <<shown, listed, deduplicated>>
  PROVE  DoneMeansSaved'
  BY DEF Inv, PanelInv, PanelTypes, DoneMeansSaved, CredsStay, Documents, Nothing

\* Polls under way are not disturbed by the documents' steps.
LEMMA PollsStay ==
  ASSUME Inv, CredsStay, UNCHANGED poll
  PROVE  \A i \in Polls : PollInv(i)'
  BY DEF Inv, PanelInv, PanelTypes, PollInv, CredsStay

\* Choosing a file clears the panel.
LEMMA ChooseStep ==
  ASSUME Inv, NEW u \in Uploads, Choose(u) PROVE Inv'
<1>1. DocsInv'
  BY DEF Inv, DocsInv, Choose, docVars, DocsProofs!TypeOK, DocsProofs!IngestInv,
         DocsProofs!OneDocumentPerFile, DocsProofs!DocumentHasBlob,
         DocsProofs!StoredHasCredentials, DocsProofs!UploadInv,
         DocsProofs!SameFile, DocsProofs!Doc
<1>2. PanelInv'
  BY PanelAssumption
  DEF Inv, Choose, docVars, PanelInv, PanelTypes, PostInv, PollInv, Documents,
      DoneMeansSaved, Nothing
<1> QED
  BY <1>1, <1>2 DEF Inv

\* A step of the route, for the POST that is awaited or for another.
LEMMA RouteStep ==
  ASSUME Inv, NEW u \in Uploads, Route(u) PROVE Inv'
<1>1. UNCHANGED <<sent, posting, shown, listed, deduplicated, poll>>
  BY DEF Route
<1>2. DocsInv' /\ CredsStay
  BY DocsStep
<1>3. DoneMeansSaved' /\ \A i \in Polls : PollInv(i)'
  BY <1>1, <1>2, SavedStays, PollsStay
<1>4. pc \in [Uploads -> DocsProofs!InFlight \cup DocsProofs!Ended \cup {"idle"}]
  BY DEF Inv, DocsInv, DocsProofs!TypeOK
<1>5. /\ \A w \in Uploads \ {u} : pc'[w] = pc[w]
      /\ pc[u] # "duplicate"
      /\ \/ UNCHANGED reply
         \/ posting = u /\ reply' \in Documents /\ reply'.status # "stored"
         \/ /\ posting = u /\ pc'[u] = "duplicate"
            /\ reply' \in Documents
            /\ reply'.status = "stored" => creds[reply'.doc] > 0
  <2>1. CASE (Docs!Reject(u) \/ Docs!AddConflicts(u)) /\ Answer(u, Nothing)
    BY <1>4, <2>1 DEF Docs!Reject, Docs!AddConflicts, Docs!Goto, Answer, Documents, Nothing
  <2>2. ASSUME Docs!LookupDuplicate(u), NEW d \in Docs!SameFile(u),
               Answer(u, Document(d, status[d]))
        PROVE  /\ \A w \in Uploads \ {u} : pc'[w] = pc[w]
               /\ pc[u] # "duplicate" /\ pc'[u] = "duplicate"
               /\ \/ UNCHANGED reply
                  \/ /\ posting = u /\ reply' \in Documents
                     /\ reply'.status = "stored" => creds[reply'.doc] > 0
    <3>1. d \in Uploads /\ status[d] \in Known
      BY <2>2
      DEF Inv, DocsInv, DocsProofs!TypeOK, DocsProofs!Statuses, Known, Docs!SameFile
    <3>2. status[d] = "stored" => creds[d] > 0
      BY <3>1
      DEF Inv, DocsInv, DocsProofs!IngestInv, DocsProofs!StoredHasCredentials
    <3> QED
      BY <1>4, <2>2, <3>1, <3>2
      DEF Docs!LookupDuplicate, Docs!Goto, Answer, Documents, Document
  <2>3. CASE (Docs!Reopen(u) \/ Docs!AddDocument(u))
             /\ Answer(u, Document(Docs!Doc(u), "uploaded"))
    <3>1. Docs!Doc(u) \in Uploads
      BY DEF Inv, DocsInv, DocsProofs!TypeOK, Docs!Doc
    <3> QED
      BY <1>4, <2>3, <3>1
      DEF Docs!Reopen, Docs!AddDocument, Docs!Awaits, Docs!Goto, Answer, Documents,
          Document, Known
  <2>4. CASE (Docs!LookupRetry(u) \/ Docs!LookupNew(u) \/ Docs!PutBlob(u))
             /\ UNCHANGED reply
    BY <1>4, <2>4
    DEF Docs!LookupRetry, Docs!LookupNew, Docs!PutBlob, Docs!Awaits, Docs!Goto
  <2> QED
    BY <2>1, <2>2, <2>3, <2>4 DEF Route
<1>6. PanelTypes'
  BY <1>1, <1>5 DEF Inv, PanelInv, PanelTypes
<1>7. PostInv'
  <2>1. reply' \in Documents /\ reply \in Documents /\ posting \in Uploads \cup {NoDocument}
    BY <1>6 DEF Inv, PanelInv, PanelTypes
  <2>2. posting = u => posting # NoDocument
    BY PanelAssumption
  <2>3. \A d \in Documents : d.status = "stored" => d.doc \in Uploads
    BY DEF Documents, Nothing
  <2>4. creds' = creds
    BY DEF Route, Docs!Reject, Docs!AddConflicts, Docs!LookupDuplicate, Docs!LookupRetry,
           Docs!LookupNew, Docs!Reopen, Docs!AddDocument, Docs!PutBlob
  <2>5. CASE UNCHANGED reply
    BY <1>1, <1>5, <2>4, <2>5 DEF Inv, PanelInv, PostInv
  <2>6. CASE posting = u /\ reply'.status # "stored"
    BY <1>1, <2>2, <2>6 DEF PostInv
  <2>7. CASE /\ posting = u /\ pc'[u] = "duplicate"
             /\ reply'.status = "stored" => creds[reply'.doc] > 0
    BY <1>1, <2>2, <2>4, <2>7 DEF PostInv
  <2> QED
    BY <1>5, <2>5, <2>6, <2>7
<1> QED
  BY <1>2, <1>3, <1>6, <1>7 DEF Inv, PanelInv

\* A step of a pipeline.
LEMMA PipelineStep ==
  ASSUME Inv, NEW u \in Uploads, Pipeline(u) PROVE Inv'
<1>1. DocsInv' /\ CredsStay /\ UNCHANGED <<panelVars, poll>>
  BY DocsStep DEF Pipeline
<1>2. DoneMeansSaved' /\ \A i \in Polls : PollInv(i)'
  BY <1>1, SavedStays, PollsStay DEF panelVars
<1>3. /\ pc[u] \notin {"reopening", "putting", "adding", "duplicate"}
      /\ \E to \in {"fetching", "marking_ocr", "ocr", "ocr_failing", "extracting",
                    "decomposing", "marking", "storing", "finishing", "failing",
                    "finished"} :
           pc' = [pc EXCEPT ![u] = to]
  BY DEF Pipeline, Docs!BoundedStep, Docs!StartPipeline, Docs!Fetch, Docs!MarkNeedsOcr,
         Docs!MarkOcrFailed, Docs!MarkExtracted, Docs!Decompose, Docs!MarkDecomposed,
         Docs!StoreCredentials, Docs!MarkStored, Docs!MarkFailed, Docs!Ocr, Docs!Stage,
         Docs!Awaits, Docs!Goto
<1>4. PostInv'
  BY <1>1, <1>3
  DEF Inv, DocsInv, DocsProofs!TypeOK, PanelInv, PanelTypes, PostInv, CredsStay,
      panelVars, Documents, Nothing
<1>5. PanelTypes'
  BY <1>1 DEF Inv, PanelInv, PanelTypes, panelVars
<1> QED
  BY <1>1, <1>2, <1>4, <1>5 DEF Inv, PanelInv

\* Steps that leave the documents alone.
LEMMA DocsUnchanged ==
  ASSUME DocsInv, UNCHANGED docVars PROVE DocsInv' /\ CredsStay
  BY DEF DocsInv, docVars, CredsStay, DocsProofs!TypeOK, DocsProofs!IngestInv,
         DocsProofs!OneDocumentPerFile, DocsProofs!DocumentHasBlob,
         DocsProofs!StoredHasCredentials, DocsProofs!UploadInv,
         DocsProofs!SameFile, DocsProofs!Doc

\* The response arrives, stored being said only of a duplicate, or does not.
LEMMA RespondStep ==
  ASSUME Inv, Respond \/ LosePost PROVE Inv'
<1>1. DocsInv' /\ CredsStay /\ UNCHANGED <<docVars, sent, listed, poll>>
  BY DocsUnchanged DEF Respond, LosePost, Inv
<1>2. \A i \in Polls : PollInv(i)'
  BY <1>1, PollsStay
<1>3. posting' = NoDocument /\ reply' = Nothing
  BY DEF Respond, LosePost
<1>4. \/ UNCHANGED <<shown, deduplicated>>
      \/ shown' = reply /\ deduplicated' = (pc[posting] = "duplicate")
  BY DEF Respond, LosePost
<1>5. PanelTypes'
  BY <1>1, <1>3, <1>4 DEF Inv, PanelInv, PanelTypes, Documents
<1>6. PostInv'
  BY <1>3 DEF PostInv, Nothing
<1>7. DoneMeansSaved'
  <2>1. CASE shown' = reply /\ deduplicated' = (pc[posting] = "duplicate")
    <3>1. reply.status = "stored" => pc[posting] = "duplicate" /\ creds[reply.doc] > 0
      BY DEF Inv, PanelInv, PostInv
    <3> QED
      BY <1>1, <2>1, <3>1 DEF docVars, DoneMeansSaved
  <2>2. CASE UNCHANGED <<shown, deduplicated>>
    BY <1>1, <2>2, SavedStays
  <2> QED
    BY <1>4, <2>1, <2>2
<1> QED
  BY <1>1, <1>2, <1>5, <1>6, <1>7 DEF Inv, PanelInv

\* A poll is sent, read, answered, delivered or lost.
LEMMA PollStep ==
  ASSUME Inv, NEW i \in Polls, Tick(i) \/ Answered(i) \/ Lose(i) PROVE Inv'
<1>1. UNCHANGED <<docVars, sent, posting, reply, deduplicated>>
  BY DEF Tick, Answered, ReadOne, ReadOther, Deliver, Lose, panelVars
<1>2. DocsInv' /\ CredsStay
  BY <1>1, DocsUnchanged DEF Inv
<1>3. PostInv'
  BY <1>1 DEF Inv, PanelInv, PostInv, docVars
<1>4. CASE Tick(i)
  <2>1. shown.doc \in Uploads
    BY <1>4 DEF Tick, Inv, PanelInv, PanelTypes, Documents
  <2>2. UNCHANGED panelVars /\ poll' = [poll EXCEPT ![i].at = "sent", ![i].doc = shown.doc]
    BY <1>4 DEF Tick
  <2>3. \A j \in Polls : PollInv(j)'
    BY <1>1, <2>1, <2>2 DEF Inv, PanelInv, PanelTypes, PollInv, docVars
  <2>4. poll' \in [Polls -> [at : {"idle", "sent", "read", "answered"},
                            doc : Uploads \cup {NoDocument},
                            status : Known, creds : BOOLEAN]]
    <3>1. poll \in [Polls -> [at : {"idle", "sent", "read", "answered"},
                              doc : Uploads \cup {NoDocument},
                              status : Known, creds : BOOLEAN]]
      BY DEF Inv, PanelInv, PanelTypes
    <3>2. poll'[i] = [poll[i] EXCEPT !.at = "sent", !.doc = shown.doc]
      BY <2>2, <3>1
    <3>3. poll' = [poll EXCEPT ![i] = poll'[i]]
      BY <2>2, <3>1
    <3>4. poll'[i] \in [at : {"idle", "sent", "read", "answered"},
                       doc : Uploads \cup {NoDocument},
                       status : Known, creds : BOOLEAN]
      BY <2>1, <3>1, <3>2
    <3> QED
      BY <3>1, <3>3, <3>4
  <2>5. PanelTypes'
    BY <2>2, <2>4 DEF Inv, PanelInv, PanelTypes, panelVars
  <2> QED
    BY <1>2, <1>3, <2>2, <2>3, <2>5, SavedStays DEF Inv, PanelInv, panelVars
<1>5. CASE ReadOne(i)
  <2> DEFINE d == poll[i].doc
  <2>1. poll[i].at = "sent" /\ d \in Uploads /\ UNCHANGED panelVars
    BY <1>5 DEF ReadOne, Inv, PanelInv, PollInv
  <2>2. poll' = [poll EXCEPT ![i] = [poll[i] EXCEPT !.status = status[d], !.at = "read"]]
    BY <1>5 DEF ReadOne, Read, ReadOrder, Inv, PanelInv, PanelTypes
  <2>3. status[d] \in Known
    BY <2>1 DEF Inv, DocsInv, DocsProofs!TypeOK, DocsProofs!Statuses, Known
  <2>4. status[d] = "stored" => creds[d] > 0
    BY <2>1
    DEF Inv, DocsInv, DocsProofs!IngestInv, DocsProofs!StoredHasCredentials
  <2>5. poll' \in [Polls -> [at : {"idle", "sent", "read", "answered"},
                            doc : Uploads \cup {NoDocument},
                            status : Known, creds : BOOLEAN]]
    BY <2>2, <2>3 DEF Inv, PanelInv, PanelTypes
  <2>6. PanelTypes'
    BY <2>1, <2>5 DEF Inv, PanelInv, PanelTypes, panelVars
  <2>7. \A j \in Polls : PollInv(j)'
    BY <1>1, <2>1, <2>2, <2>4 DEF Inv, PanelInv, PanelTypes, PollInv, docVars
  <2> QED
    BY <1>2, <1>3, <2>1, <2>6, <2>7, SavedStays DEF Inv, PanelInv, panelVars
<1>6. CASE ReadOther(i)
  <2> DEFINE d == poll[i].doc
  <2>1. poll[i].at = "read" /\ d \in Uploads /\ UNCHANGED panelVars
    BY <1>6 DEF ReadOther, Inv, PanelInv, PollInv
  <2>2. poll' = [poll EXCEPT ![i] = [poll[i] EXCEPT !.creds = (creds[d] > 0), !.at = "answered"]]
    BY <1>6 DEF ReadOther, Read, ReadOrder, Inv, PanelInv, PanelTypes
  <2>3. poll[i].status = "stored" => creds[d] > 0
    BY <2>1 DEF Inv, PanelInv, PollInv
  <2>4. PanelTypes'
    <3>1. (creds[d] > 0) \in BOOLEAN
      OBVIOUS
    <3>2. poll'[i] \in [at : {"idle", "sent", "read", "answered"},
                       doc : Uploads \cup {NoDocument},
                       status : Known, creds : BOOLEAN]
      BY <2>2, <3>1 DEF Inv, PanelInv, PanelTypes
    <3> QED
      BY <2>1, <2>2, <3>2 DEF Inv, PanelInv, PanelTypes, panelVars
  <2>5. ASSUME NEW j \in Polls PROVE PollInv(j)'
    <3>1. CASE j = i
      <4>1. /\ poll'[i].doc = d /\ poll'[i].status = poll[i].status
            /\ poll'[i].creds = (creds[d] > 0)
        BY <2>2 DEF Inv, PanelInv, PanelTypes
      <4> QED
        BY <1>1, <2>1, <2>3, <3>1, <4>1 DEF Inv, PanelInv, PollInv, docVars
    <3>2. CASE j # i
      BY <1>1, <2>2, <3>2 DEF Inv, PanelInv, PanelTypes, PollInv, docVars
    <3> QED
      BY <3>1, <3>2
  <2> QED
    BY <1>2, <1>3, <2>1, <2>4, <2>5, SavedStays DEF Inv, PanelInv, panelVars
<1>7. CASE Deliver(i)
  <2>1. /\ poll[i].at = "answered" /\ poll[i].doc \in Uploads
        /\ shown' = Document(poll[i].doc, poll[i].status) /\ listed' = poll[i].creds
        /\ poll' = [poll EXCEPT ![i] = Idle]
    BY <1>7 DEF Deliver, Inv, PanelInv, PollInv
  <2>2. PanelTypes'
    BY <1>1, <2>1 DEF Inv, PanelInv, PanelTypes, Documents, Document, Idle, Known
  <2>3. \A j \in Polls : PollInv(j)'
    BY <1>1, <2>1 DEF Inv, PanelInv, PanelTypes, PollInv, Idle, docVars
  <2>4. DoneMeansSaved'
    BY <1>1, <2>1 DEF Inv, PanelInv, PollInv, DoneMeansSaved, Document, docVars
  <2> QED
    BY <1>2, <1>3, <2>2, <2>3, <2>4 DEF Inv, PanelInv
<1>8. CASE Lose(i)
  <2>1. UNCHANGED panelVars /\ poll' = [poll EXCEPT ![i] = Idle]
    BY <1>8 DEF Lose
  <2>2. PanelTypes' /\ \A j \in Polls : PollInv(j)'
    BY <1>1, <2>1, PanelAssumption
    DEF Inv, PanelInv, PanelTypes, PollInv, Idle, Known, panelVars, docVars
  <2> QED
    BY <1>2, <1>3, <2>1, <2>2, SavedStays DEF Inv, PanelInv, panelVars
<1> QED
  BY <1>4, <1>5, <1>6, <1>7, <1>8 DEF Answered

\* At first nothing is shown, and the documents there are failed.
LEMMA InitInv == Init => Inv
<1> SUFFICES ASSUME Init PROVE Inv
  OBVIOUS
<1>1. DocsInv
  <2>1. DocsProofs!TypeOK
    BY PanelAssumption
    DEF Init, DocsProofs!TypeOK, DocsProofs!Ended, DocsProofs!Statuses
  <2>2. DocsProofs!OneDocumentPerFile
    BY PanelAssumption DEF Init, DocsProofs!OneDocumentPerFile
  <2>3. DocsProofs!DocumentHasBlob /\ DocsProofs!StoredHasCredentials
    BY DEF Init, DocsProofs!DocumentHasBlob, DocsProofs!StoredHasCredentials
  <2>4. \A u \in Uploads : DocsProofs!UploadInv(u)
    BY DEF Init, DocsProofs!UploadInv, DocsProofs!Stages
  <2> QED
    BY <2>1, <2>2, <2>3, <2>4 DEF DocsInv, DocsProofs!IngestInv
<1>2. PanelInv
  BY DEF Init, PanelInv, PanelTypes, PostInv, PollInv, DoneMeansSaved,
         Documents, Nothing, Idle, Known
<1> QED
  BY <1>1, <1>2 DEF Inv

\* Whatever POSTs and pipelines are at work besides the one awaited: only a
\* duplicate's answer says stored, a poll that read stored finds credentials
\* (routes/documents.py 70-73), and what is shown as stored has them.
THEOREM Invariance == Spec => []Inv
<1>1. Inv /\ [Next]_vars => Inv'
  <2> SUFFICES ASSUME Inv, [Next]_vars PROVE Inv'
    OBVIOUS
  <2>1. CASE UNCHANGED vars
    <3>1. DocsInv' /\ CredsStay
      BY <2>1, DocsUnchanged DEF Inv, vars
    <3>2. DoneMeansSaved' /\ \A i \in Polls : PollInv(i)'
      BY <2>1, <3>1, SavedStays, PollsStay DEF vars, panelVars
    <3>3. PanelTypes' /\ PostInv'
      BY <2>1 DEF Inv, PanelInv, PanelTypes, PostInv, vars, docVars, panelVars
    <3> QED
      BY <3>1, <3>2, <3>3 DEF Inv, PanelInv
  <2> QED
    BY <2>1, ChooseStep, RouteStep, PipelineStep, RespondStep, PollStep DEF Next
<1> QED
  BY <1>1, InitInv, PTL DEF Spec

\* When the panel says that credentials are saved (UploadPanel.tsx 22) they are
\* committed, and listed unless it is a duplicate's answer that says so.
THEOREM SavedIsShownTruly == Spec => []DoneMeansSaved
<1>1. Inv => DoneMeansSaved
  BY DEF Inv, PanelInv
<1> QED
  BY <1>1, Invariance, PTL
=============================================================================
