--------------------------- MODULE IngestionProofs ---------------------------
(***************************************************************************)
(* Safety of Ingestion for every set of uploads and every content they     *)
(* may have, with overlapping uploads, faults and restarts.  TypeOK and    *)
(* IngestInv together are inductive.  The later sections are about a       *)
(* database that does not fail: what an upload that takes turns with the   *)
(* others of its file knows of its document, that no document is left in   *)
(* between however they overlap, and that every file is ingested as        *)
(* IngestOnce promises if they take turns.                                 *)
(***************************************************************************)
EXTENDS Ingestion, TLAPS

\* Ingestion starts well typed, with no document.
LEMMA InitInv == Init => TypeOK /\ IngestInv
  BY IngestionAssumption
  DEF Init, TypeOK, IngestInv, UploadInv, OneDocumentPerFile, DocumentHasBlob,
      StoredHasCredentials, Stages, Doc

\* The document of an upload is an upload.
LEMMA DocType == ASSUME TypeOK, NEW u \in Uploads PROVE Doc(u) \in Uploads
  BY DEF TypeOK, Doc

\* A step that only moves an upload on, and at most writes a status other than
\* "stored" to its document, keeps the invariant when the upload's document
\* exists already and the upload is not about to mark it stored.
LEMMA StageInv ==
  ASSUME TypeOK, IngestInv, NEW u \in Uploads,
         NEW to \in Stages \cup {"accepted", "error", "finished"}, NEW s \in Statuses,
         pc[u] \in {"reopening", "accepted"} \cup Stages,
         pc' = [pc EXCEPT ![u] = to],
         SetStatus(u, s) \/ UNCHANGED status,
         to = "finishing" => creds[Doc(u)] > 0,
         s = "stored" => creds[Doc(u)] > 0,
         UNCHANGED <<found, blobs, creds>>
  PROVE  TypeOK' /\ IngestInv'
<1> USE DocType DEF TypeOK, SetStatus
<1>1. TypeOK'
  BY DEF Stages, InFlight, Ended, Statuses
<1>2. status[Doc(u)] # "none"
  BY DEF IngestInv, UploadInv
<1>3. \A d \in Uploads : status'[d] = "none" <=> status[d] = "none"
  BY <1>2 DEF Statuses
<1>4. OneDocumentPerFile' /\ DocumentHasBlob'
  BY <1>3 DEF IngestInv, OneDocumentPerFile, DocumentHasBlob
<1>5. StoredHasCredentials'
  BY DEF IngestInv, StoredHasCredentials
<1>6. ASSUME NEW w \in Uploads PROVE UploadInv(w)'
  <2>1. Doc(w)' = Doc(w) /\ Doc(w) \in Uploads
    BY DEF Doc
  <2>2. CASE w = u
    BY <1>2, <1>3, <2>1, <2>2 DEF UploadInv, Stages
  <2>3. CASE w # u
    BY <1>3, <2>1, <2>3 DEF IngestInv, UploadInv
  <2> QED
    BY <2>2, <2>3
<1> QED
  BY <1>1, <1>4, <1>5, <1>6 DEF IngestInv

\* A step of the route or of ingest_upload keeps the invariant.
LEMMA UploadStepInv ==
  ASSUME TypeOK, IngestInv, NEW u \in Uploads, UploadStep(u)
  PROVE  TypeOK' /\ IngestInv'
<1> USE IngestionAssumption, DocType
<1>1. CASE Reject(u) \/ LookupFails(u) \/ LookupDuplicate(u) \/ LookupNew(u)
           \/ AddConflicts(u)
  <2>1. PICK to \in {"rejected", "error", "duplicate", "putting"} :
          /\ pc' = [pc EXCEPT ![u] = to]
          /\ pc[u] \in {"idle", "adding"}
          /\ UNCHANGED <<found, status, blobs, creds>>
    BY <1>1 DEF Reject, LookupFails, LookupDuplicate, LookupNew, AddConflicts, Goto
  <2>2. TypeOK'
    BY <2>1 DEF TypeOK, InFlight, Ended
  <2>3. ASSUME NEW w \in Uploads PROVE UploadInv(w)'
    BY <2>1 DEF TypeOK, IngestInv, UploadInv, Stages, Doc
  <2> QED
    BY <2>1, <2>2, <2>3
    DEF IngestInv, OneDocumentPerFile, DocumentHasBlob, StoredHasCredentials
<1>2. CASE LookupRetry(u)
  <2>1. PICK d \in Uploads : /\ status[d] = "failed"
                             /\ found' = [found EXCEPT ![u] = d]
    BY <1>2 DEF LookupRetry, SameFile
  <2>2. /\ pc' = [pc EXCEPT ![u] = "reopening"]
        /\ UNCHANGED <<status, blobs, creds>>
    BY <1>2 DEF LookupRetry, Goto
  <2>3. TypeOK'
    BY <2>1, <2>2 DEF TypeOK, InFlight
  <2>4. ASSUME NEW w \in Uploads PROVE UploadInv(w)'
    <3>1. CASE w = u
      BY <2>1, <2>2, <3>1 DEF TypeOK, UploadInv, Stages, Doc
    <3>2. CASE w # u
      BY <2>1, <2>2, <3>2 DEF TypeOK, IngestInv, UploadInv, Doc
    <3> QED
      BY <3>1, <3>2
  <2> QED
    BY <2>2, <2>3, <2>4
    DEF IngestInv, OneDocumentPerFile, DocumentHasBlob, StoredHasCredentials
<1>3. CASE Reopen(u)
  BY <1>3, StageInv DEF Reopen, Awaits, Goto, Statuses
<1>4. CASE PutBlob(u)
  <2>1. /\ pc[u] = "putting" /\ found[u] = NoDocument
        /\ UNCHANGED <<found, status, creds>>
        /\ \/ pc' = [pc EXCEPT ![u] = "adding"] /\ blobs' = blobs \cup {u}
           \/ pc' = [pc EXCEPT ![u] = "error"] /\ blobs' \in {blobs, blobs \cup {u}}
    BY <1>4 DEF PutBlob, Awaits, Goto, IngestInv, UploadInv
  <2>2. TypeOK'
    BY <2>1 DEF TypeOK, InFlight, Ended
  <2>3. ASSUME NEW w \in Uploads PROVE UploadInv(w)'
    BY <2>1 DEF TypeOK, IngestInv, UploadInv, Stages, Doc
  <2> QED
    BY <2>1, <2>2, <2>3
    DEF IngestInv, OneDocumentPerFile, DocumentHasBlob, StoredHasCredentials
<1>5. CASE AddDocument(u)
  <2>1. /\ pc[u] = "adding" /\ found[u] = NoDocument /\ u \in blobs
        /\ SameFile(u) = {} /\ Doc(u) = u
        /\ UNCHANGED <<found, blobs, creds>>
        /\ \/ /\ pc' = [pc EXCEPT ![u] = "accepted"]
              /\ status' = [status EXCEPT ![u] = "uploaded"]
           \/ /\ pc' = [pc EXCEPT ![u] = "error"]
              /\ status' \in {status, [status EXCEPT ![u] = "uploaded"]}
    BY <1>5 DEF AddDocument, Awaits, Goto, SetStatus, IngestInv, UploadInv, Doc
  <2>2. TypeOK'
    BY <2>1 DEF TypeOK, InFlight, Ended, Statuses
  <2>3. OneDocumentPerFile'
    BY <2>1 DEF TypeOK, IngestInv, OneDocumentPerFile, SameFile
  <2>4. DocumentHasBlob' /\ StoredHasCredentials'
    BY <2>1 DEF TypeOK, IngestInv, DocumentHasBlob, StoredHasCredentials
  <2>5. ASSUME NEW w \in Uploads PROVE UploadInv(w)'
    <3>1. CASE w = u
      BY <2>1, <3>1 DEF TypeOK, UploadInv, Stages, Doc
    <3>2. CASE w # u
      BY <2>1, <3>2 DEF TypeOK, IngestInv, UploadInv, Doc
    <3> QED
      BY <3>1, <3>2
  <2> QED
    BY <2>2, <2>3, <2>4, <2>5 DEF IngestInv
<1> QED
  BY <1>1, <1>2, <1>3, <1>4, <1>5 DEF UploadStep

\* A step of the pipeline keeps the invariant.
LEMMA PipelineStepInv ==
  ASSUME TypeOK, IngestInv, NEW u \in Uploads, BoundedStep(u) \/ Ocr(u)
  PROVE  TypeOK' /\ IngestInv'
<1> USE DEF Goto
<1>1. CASE StartPipeline(u)
  BY <1>1, StageInv DEF StartPipeline, Stages, Statuses
<1>2. CASE Fetch(u)
  BY <1>2, StageInv DEF Fetch, Stages, Statuses
<1>3. CASE Ocr(u)
  BY <1>3, StageInv DEF Ocr, Stages, Statuses
<1>4. CASE Decompose(u)
  BY <1>4, StageInv DEF Decompose, Stages, Statuses
<1>5. CASE MarkNeedsOcr(u) \/ MarkOcrFailed(u) \/ MarkExtracted(u) \/ MarkDecomposed(u)
  BY <1>5, StageInv
  DEF MarkNeedsOcr, MarkOcrFailed, MarkExtracted, MarkDecomposed, Stage, Awaits,
      Stages, Statuses
<1>6. CASE MarkStored(u)
  <2>1. creds[Doc(u)] > 0
    BY <1>6 DEF MarkStored, Stage, Awaits, IngestInv, UploadInv
  <2> QED
    BY <1>6, <2>1, StageInv DEF MarkStored, Stage, Awaits, Stages, Statuses
<1>7. CASE MarkFailed(u)
  BY <1>7, StageInv DEF MarkFailed, Awaits, Stages, Statuses
<1>8. CASE StoreCredentials(u)
  <2> DEFINE added == [creds EXCEPT ![Doc(u)] = @ + 1]
  <2>1. /\ pc[u] = "storing"
        /\ UNCHANGED <<found, status, blobs>>
        /\ \/ pc' = [pc EXCEPT ![u] = "finishing"] /\ creds' = added
           \/ pc' = [pc EXCEPT ![u] = "failing"] /\ creds' \in {creds, added}
    BY <1>8 DEF StoreCredentials, Awaits
  <2>2. Doc(u) \in Uploads
    BY DocType
  <2>3. TypeOK'
    BY <2>1, <2>2 DEF TypeOK, InFlight, Stages
  <2>4. \A d \in Uploads : creds'[d] >= creds[d]
    BY <2>1, <2>2 DEF TypeOK
  <2>5. pc'[u] = "finishing" => creds'[Doc(u)] > 0
    BY <2>1, <2>2 DEF TypeOK
  <2>6. ASSUME NEW w \in Uploads PROVE UploadInv(w)'
    <3>1. Doc(w)' = Doc(w) /\ Doc(w) \in Uploads
      BY <2>1, DocType DEF Doc
    <3>2. CASE w = u
      BY <2>1, <2>5, <3>1, <3>2 DEF TypeOK, IngestInv, UploadInv, Stages
    <3>3. CASE w # u
      <4>1. creds[Doc(w)] \in Nat /\ creds'[Doc(w)] \in Nat
        BY <2>3, <3>1 DEF TypeOK
      <4> QED
        BY <2>1, <2>4, <3>1, <3>3, <4>1 DEF TypeOK, IngestInv, UploadInv
    <3> QED
      BY <3>2, <3>3
  <2>7. StoredHasCredentials'
    BY <2>1, <2>3, <2>4 DEF TypeOK, IngestInv, StoredHasCredentials
  <2> QED
    BY <2>1, <2>3, <2>6, <2>7 DEF IngestInv, OneDocumentPerFile, DocumentHasBlob
<1> QED
  BY <1>1, <1>2, <1>3, <1>4, <1>5, <1>6, <1>7, <1>8 DEF BoundedStep

\* Typing and the inductive invariant hold however uploads, pipelines, faults
\* and restarts interleave.
THEOREM Invariance == Spec => [](TypeOK /\ IngestInv)
<1>1. TypeOK /\ IngestInv /\ [Next]_vars => TypeOK' /\ IngestInv'
  <2> SUFFICES ASSUME TypeOK, IngestInv, [Next]_vars PROVE TypeOK' /\ IngestInv'
    OBVIOUS
  <2>1. CASE UNCHANGED vars
    BY <2>1
    DEF vars, TypeOK, IngestInv, UploadInv, OneDocumentPerFile, DocumentHasBlob,
        StoredHasCredentials, Doc
  <2>2. ASSUME NEW u \in Uploads, UploadStep(u) \/ BoundedStep(u) \/ Ocr(u)
        PROVE  TypeOK' /\ IngestInv'
    BY <2>2, UploadStepInv, PipelineStepInv
  <2>3. CASE Restart
    <3>1. TypeOK'
      BY <2>3 DEF Restart, TypeOK, InFlight, Ended
    <3>2. ASSUME NEW w \in Uploads PROVE UploadInv(w)'
      BY <2>3 DEF Restart, TypeOK, IngestInv, UploadInv, InFlight, Stages, Doc
    <3> QED
      BY <2>3, <3>1, <3>2
      DEF Restart, IngestInv, OneDocumentPerFile, DocumentHasBlob, StoredHasCredentials
  <2> QED
    BY <2>1, <2>2, <2>3 DEF Next
<1> QED
  BY <1>1, InitInv, PTL DEF Spec

\* Types: every variable of the ingestion stays in its domain.
THEOREM TypesKept == Spec => []TypeOK
BY Invariance, PTL

\* However many uploads of a file race each other, it has one document.
THEOREM OneDocument == Spec => []OneDocumentPerFile
<1>1. IngestInv => OneDocumentPerFile
  BY DEF IngestInv
<1> QED
  BY <1>1, Invariance, PTL

\* A document's bytes are always there for its pipeline or a retry.
THEOREM BytesAreThere == Spec => []DocumentHasBlob
<1>1. IngestInv => DocumentHasBlob
  BY DEF IngestInv
<1> QED
  BY <1>1, Invariance, PTL

\* "stored" is never said of a document without credentials.
THEOREM StoredIsTruthful == Spec => []StoredHasCredentials
<1>1. IngestInv => StoredHasCredentials
  BY DEF IngestInv
<1> QED
  BY <1>1, Invariance, PTL
-----------------------------------------------------------------------------
(* Uploads of a file that take turns, on a database that does not fail.    *)

\* No two uploads of a file are under way.
Alone ==
  \A u, w \in Uploads :
    u # w /\ FileOf[u] = FileOf[w] /\ pc[u] \in InFlight => pc[w] \notin InFlight

\* What an upload that is alone knows of its document at each control point.
KnowsInv(u) ==
  /\ FileOf[Doc(u)] = FileOf[u]
  /\ pc[u] \in {"putting", "adding"} => SameFile(u) = {}
  /\ pc[u] = "reopening" => status[Doc(u)] = "failed"
  /\ pc[u] \in {"accepted", "fetching", "marking_ocr"} => status[Doc(u)] = "uploaded"
  /\ pc[u] \in {"ocr", "ocr_failing"} => status[Doc(u)] = "needs_ocr"
  /\ pc[u] = "extracting" => status[Doc(u)] \in {"uploaded", "needs_ocr"}
  /\ pc[u] \in {"decomposing", "marking"} => status[Doc(u)] = "extracted"
  /\ pc[u] \in {"storing", "finishing"} => status[Doc(u)] = "decomposed"
  /\ pc[u] = "failing" => status[Doc(u)] \in {"uploaded", "needs_ocr", "extracted"}
  /\ pc[u] \in {"accepted"} \cup (Stages \ {"finishing"}) => creds[Doc(u)] = 0
  /\ pc[u] = "finishing" => creds[Doc(u)] = 1

\* What a document says of its credentials.
CountInv(d) ==
  /\ status[d] \in {"none", "failed"} => creds[d] = 0
  /\ status[d] = "stored" => creds[d] = 1

SerialInv ==
  /\ Alone
  /\ \A u \in Uploads : KnowsInv(u)
  /\ \A d \in Uploads : CountInv(d)

\* Without uploads there are no documents and nothing is known.
LEMMA SerialInit == Init => SerialInv
  BY IngestionAssumption
  DEF Init, SerialInv, Alone, KnowsInv, CountInv, InFlight, Stages, Doc

\* No other upload of the file is under way.
NoOther(u) ==
  \A w \in Uploads \ {u} : FileOf[w] = FileOf[u] => pc[w] \notin InFlight

\* A step of an upload that is alone disturbs its own document only, so that
\* the invariant is kept if it is kept for that upload and that document.
LEMMA OwnStep ==
  ASSUME TypeOK, SerialInv, NEW u \in Uploads,
         NEW to \in InFlight \cup Ended,
         pc' = [pc EXCEPT ![u] = to],
         to \in InFlight => NoOther(u),
         \A w \in Uploads \ {u} : found'[w] = found[w],
         \A d \in Uploads :
           d # Doc(u)' \/ pc[u] \notin InFlight => UNCHANGED <<status[d], creds[d]>>,
         KnowsInv(u)', CountInv(Doc(u))', Doc(u)' \in Uploads
  PROVE  SerialInv'
<1> USE DEF TypeOK
<1>1. Alone'
  BY DEF SerialInv, Alone, NoOther
<1>2. ASSUME NEW d \in Uploads PROVE CountInv(d)'
  BY DEF SerialInv, CountInv
<1>3. ASSUME NEW w \in Uploads PROVE KnowsInv(w)'
  <2>1. CASE w = u
    BY <2>1
  <2>2. CASE w # u
    <3>1. pc'[w] = pc[w] /\ Doc(w)' = Doc(w) /\ Doc(w) \in Uploads
      BY <2>2 DEF Doc
    <3>2. FileOf[Doc(w)] = FileOf[w] /\ FileOf[Doc(u)'] = FileOf[u]
      BY DEF SerialInv, KnowsInv
    <3>3. CASE pc[w] \in InFlight /\ pc[u] \in InFlight
      <4>1. FileOf[w] # FileOf[u]
        BY <2>2, <3>3 DEF SerialInv, Alone
      <4>2. UNCHANGED <<status[Doc(w)], creds[Doc(w)]>>
        BY <3>1, <3>2, <4>1
      <4>3. SameFile(w) = {} => SameFile(w)' = {}
        BY <3>2, <4>1 DEF SameFile
      <4> QED
        BY <3>1, <3>2, <4>2, <4>3 DEF SerialInv, KnowsInv
    <3>4. CASE pc[u] \notin InFlight
      <4>1. SameFile(w)' = SameFile(w)
        BY <3>4 DEF SameFile
      <4> QED
        BY <3>1, <3>2, <3>4, <4>1 DEF SerialInv, KnowsInv
    <3>5. CASE pc[w] \notin InFlight
      BY <3>1, <3>2, <3>5 DEF KnowsInv, InFlight, Stages
    <3> QED
      BY <3>3, <3>4, <3>5
  <2> QED
    BY <2>1, <2>2
<1> QED
  BY <1>1, <1>2, <1>3 DEF SerialInv

\* What a step may do to the documents: move one along the flow of the
\* pipeline, or store its credentials.
Moves(d, s) ==
  /\ s \in Flow[status[d]]
  /\ status[d] = "none" => SameFile(d) = {}
  /\ status' = [status EXCEPT ![d] = s] /\ UNCHANGED creds

Stores(d) ==
  /\ status[d] = "decomposed" /\ creds[d] = 0
  /\ creds' = [creds EXCEPT ![d] = 1] /\ UNCHANGED status

DocumentStep ==
  \/ UNCHANGED <<status, creds>>
  \/ \E d \in Uploads : Stores(d) \/ \E s \in Statuses : Moves(d, s)

\* The steps of an upload that starts, alone, or ends where it started.
LEMMA StartStep ==
  ASSUME TypeOK, IngestInv, SerialInv, NEW u \in Uploads,
         Reject(u) \/ LookupDuplicate(u) \/ LookupRetry(u) \/ LookupNew(u),
         LookupRetry(u) \/ LookupNew(u) => NoOther(u)
  PROVE  SerialInv' /\ DocumentStep
<1> USE DEF TypeOK
<1>1. /\ pc[u] = "idle" /\ Doc(u) = u /\ found[u] = NoDocument
      /\ UNCHANGED <<status, blobs, creds>>
  BY DEF Reject, LookupDuplicate, LookupRetry, LookupNew, Goto, IngestInv, UploadInv, Doc
<1>2. CASE Reject(u) \/ LookupDuplicate(u)
  <2>1. PICK to \in Ended : pc' = [pc EXCEPT ![u] = to] /\ UNCHANGED found
    BY <1>2 DEF Reject, LookupDuplicate, Goto, Ended
  <2>2. KnowsInv(u)' /\ CountInv(Doc(u))'
    BY <1>1, <2>1 DEF SerialInv, KnowsInv, CountInv, Ended, Stages, Doc
  <2> QED
    BY <1>1, <2>1, <2>2, OwnStep DEF Ended, InFlight, Stages, Doc, DocumentStep
<1>3. CASE LookupNew(u)
  <2>1. /\ pc' = [pc EXCEPT ![u] = "putting"] /\ UNCHANGED found
        /\ SameFile(u) = {} /\ SameFile(u)' = {}
    BY <1>1, <1>3 DEF LookupNew, Goto, SameFile
  <2>2. KnowsInv(u)' /\ CountInv(Doc(u))'
    BY <1>1, <2>1 DEF SerialInv, KnowsInv, CountInv, Stages, Doc
  <2> QED
    BY <1>1, <1>3, <2>1, <2>2, OwnStep DEF InFlight, Stages, Doc, DocumentStep
<1>4. CASE LookupRetry(u)
  <2>1. PICK d \in Uploads :
          /\ status[d] = "failed" /\ FileOf[d] = FileOf[u]
          /\ found' = [found EXCEPT ![u] = d]
          /\ pc' = [pc EXCEPT ![u] = "reopening"]
    BY <1>4 DEF LookupRetry, Goto, SameFile
  <2>2. Doc(u)' = d
    BY <2>1, IngestionAssumption DEF Doc
  <2>3. KnowsInv(u)' /\ CountInv(d)'
    BY <1>1, <2>1, <2>2 DEF SerialInv, KnowsInv, CountInv, Stages
  <2> QED
    BY <1>1, <1>4, <2>1, <2>2, <2>3, OwnStep DEF InFlight, DocumentStep
<1> QED
  BY <1>2, <1>3, <1>4

\* The steps that put the bytes and add or reopen the row.
LEMMA AcceptStep ==
  ASSUME ~Faulty, TypeOK, IngestInv, SerialInv, NEW u \in Uploads,
         PutBlob(u) \/ AddDocument(u) \/ AddConflicts(u) \/ Reopen(u)
  PROVE  SerialInv' /\ DocumentStep
<1> USE DocType DEF TypeOK
<1>1. CASE PutBlob(u)
  <2>1. /\ pc[u] = "putting" /\ pc' = [pc EXCEPT ![u] = "adding"]
        /\ UNCHANGED <<found, status, creds>>
    BY <1>1 DEF PutBlob, Awaits, Goto
  <2>2. KnowsInv(u)' /\ CountInv(Doc(u))' /\ Doc(u)' = Doc(u)
    BY <2>1 DEF SerialInv, KnowsInv, CountInv, SameFile, Stages, Doc
  <2> QED
    BY <2>1, <2>2, OwnStep DEF SerialInv, Alone, NoOther, InFlight, DocumentStep
<1>2. CASE AddDocument(u)
  <2>1. /\ pc[u] = "adding" /\ pc' = [pc EXCEPT ![u] = "accepted"]
        /\ Doc(u) = u /\ Doc(u)' = u /\ SameFile(u) = {}
        /\ status' = [status EXCEPT ![u] = "uploaded"]
        /\ UNCHANGED <<found, creds>>
    BY <1>2 DEF AddDocument, Awaits, Goto, SetStatus, IngestInv, UploadInv, Doc
  <2>2. status[u] = "none" /\ creds[u] = 0
    BY <2>1 DEF SameFile, SerialInv, CountInv
  <2>3. KnowsInv(u)' /\ CountInv(u)'
    BY <2>1, <2>2 DEF SerialInv, KnowsInv, CountInv, Stages
  <2>4. Moves(u, "uploaded")
    BY <2>1, <2>2 DEF Moves, Flow
  <2> QED
    BY <2>1, <2>3, <2>4, OwnStep DEF SerialInv, Alone, NoOther, InFlight, DocumentStep, Statuses
<1>3. CASE AddConflicts(u)
  BY <1>3 DEF AddConflicts, Goto, SerialInv, KnowsInv
<1>4. CASE Reopen(u)
  <2>1. /\ pc[u] = "reopening" /\ pc' = [pc EXCEPT ![u] = "accepted"]
        /\ status[Doc(u)] = "failed" /\ creds[Doc(u)] = 0
        /\ status' = [status EXCEPT ![Doc(u)] = "uploaded"]
        /\ UNCHANGED <<found, creds>>
    BY <1>4 DEF Reopen, Awaits, Goto, SetStatus, SerialInv, KnowsInv, CountInv
  <2>2. Doc(u)' = Doc(u) /\ FileOf[Doc(u)] = FileOf[u]
    BY <2>1 DEF Doc, SerialInv, KnowsInv
  <2>3. KnowsInv(u)' /\ CountInv(Doc(u))'
    BY <2>1, <2>2 DEF KnowsInv, CountInv, Stages
  <2>4. Moves(Doc(u), "uploaded")
    BY <2>1 DEF Moves, Flow
  <2> QED
    BY <2>1, <2>2, <2>3, <2>4, OwnStep DEF SerialInv, Alone, NoOther, InFlight, DocumentStep, Statuses
<1> QED
  BY <1>1, <1>2, <1>3, <1>4

\* A step of the pipeline that writes no status.
LEMMA QuietStep ==
  ASSUME TypeOK, SerialInv, NEW u \in Uploads,
         StartPipeline(u) \/ Fetch(u) \/ Ocr(u) \/ Decompose(u)
  PROVE  SerialInv' /\ DocumentStep
<1>1. PICK to \in Stages :
        /\ pc[u] \in InFlight /\ pc' = [pc EXCEPT ![u] = to]
        /\ \/ pc[u] = "accepted" /\ to = "fetching"
           \/ pc[u] = "fetching" /\ to \in {"extracting", "marking_ocr", "failing"}
           \/ pc[u] = "ocr" /\ to \in {"extracting", "ocr_failing", "failing"}
           \/ pc[u] = "decomposing" /\ to \in {"marking", "failing"}
        /\ UNCHANGED <<found, status, creds>>
  BY DEF StartPipeline, Fetch, Ocr, Decompose, Goto, InFlight, Stages
<1>2. Doc(u)' = Doc(u) /\ Doc(u) \in Uploads
  BY <1>1, DocType DEF Doc
<1>3. KnowsInv(u)' /\ CountInv(Doc(u))'
  BY <1>1, <1>2 DEF TypeOK, SerialInv, KnowsInv, CountInv, Stages
<1> QED
  BY <1>1, <1>2, <1>3, OwnStep DEF SerialInv, Alone, NoOther, InFlight, DocumentStep

\* A step of the pipeline that writes the status of its document.
LEMMA StatusStep ==
  ASSUME ~Faulty, TypeOK, SerialInv, NEW u \in Uploads,
         \/ MarkNeedsOcr(u) \/ MarkOcrFailed(u) \/ MarkExtracted(u)
         \/ MarkDecomposed(u) \/ MarkStored(u) \/ MarkFailed(u)
  PROVE  SerialInv' /\ DocumentStep
<1>1. PICK to \in InFlight \cup Ended, s \in Statuses :
        /\ pc[u] \in InFlight /\ pc' = [pc EXCEPT ![u] = to]
        /\ \/ pc[u] = "marking_ocr" /\ to = "ocr" /\ s = "needs_ocr"
           \/ pc[u] = "ocr_failing" /\ to = "finished" /\ s = "failed"
           \/ pc[u] = "extracting" /\ to = "decomposing" /\ s = "extracted"
           \/ pc[u] = "marking" /\ to = "storing" /\ s = "decomposed"
           \/ pc[u] = "finishing" /\ to = "finished" /\ s = "stored"
           \/ pc[u] = "failing" /\ to = "finished" /\ s = "failed"
        /\ status' = [status EXCEPT ![Doc(u)] = s]
        /\ UNCHANGED <<found, creds>>
  BY DEF MarkNeedsOcr, MarkOcrFailed, MarkExtracted, MarkDecomposed, MarkStored,
         MarkFailed, Stage, Awaits, SetStatus, Goto, InFlight, Stages, Ended, Statuses
<1>2. Doc(u)' = Doc(u) /\ Doc(u) \in Uploads
  BY <1>1, DocType DEF Doc
<1>3. /\ status'[Doc(u)] = s
      /\ creds[Doc(u)] = (IF s = "stored" THEN 1 ELSE 0)
  BY <1>1, <1>2 DEF TypeOK, SerialInv, KnowsInv, Stages
<1>4. KnowsInv(u)' /\ CountInv(Doc(u))'
  BY <1>1, <1>2, <1>3 DEF TypeOK, SerialInv, KnowsInv, CountInv, Stages
<1>5. Moves(Doc(u), s)
  BY <1>1 DEF SerialInv, KnowsInv, Moves, Flow
<1> QED
  BY <1>1, <1>2, <1>4, <1>5, OwnStep DEF TypeOK, SerialInv, Alone, NoOther, DocumentStep

\* add_many.
LEMMA StoreStep ==
  ASSUME ~Faulty, TypeOK, SerialInv, NEW u \in Uploads, StoreCredentials(u)
  PROVE  SerialInv' /\ DocumentStep
<1>1. /\ pc[u] = "storing" /\ pc' = [pc EXCEPT ![u] = "finishing"]
      /\ status[Doc(u)] = "decomposed" /\ creds[Doc(u)] = 0
      /\ creds' = [creds EXCEPT ![Doc(u)] = 1]
      /\ UNCHANGED <<found, status>>
  BY DEF StoreCredentials, Awaits, Goto, SerialInv, KnowsInv, Stages
<1>2. Doc(u)' = Doc(u) /\ Doc(u) \in Uploads
  BY <1>1, DocType DEF Doc
<1>3. KnowsInv(u)' /\ CountInv(Doc(u))' /\ Stores(Doc(u))
  BY <1>1, <1>2 DEF TypeOK, SerialInv, KnowsInv, CountInv, Stages, Stores
<1> QED
  BY <1>1, <1>2, <1>3, OwnStep DEF TypeOK, SerialInv, Alone, NoOther, InFlight, Stages, DocumentStep

\* Every step, a restart included.
LEMMA SerialStep ==
  ASSUME ~Overlapping, ~Faulty, TypeOK, IngestInv, SerialInv, [Next]_vars
  PROVE  SerialInv' /\ DocumentStep
<1>1. ASSUME NEW u \in Uploads, UploadStep(u) \/ BoundedStep(u) \/ Ocr(u)
      PROVE  SerialInv' /\ DocumentStep
  <2>1. ~LookupFails(u) /\ (LookupRetry(u) \/ LookupNew(u) => NoOther(u))
    BY DEF LookupFails, LookupRetry, LookupNew, MayStart, NoOther
  <2> QED
    BY <1>1, <2>1, StartStep, AcceptStep, QuietStep, StatusStep, StoreStep
    DEF UploadStep, BoundedStep
<1>2. CASE Restart
  BY <1>2
  DEF Restart, TypeOK, SerialInv, Alone, KnowsInv, CountInv, InFlight, Stages, Doc,
      DocumentStep
<1>3. CASE UNCHANGED vars
  BY <1>3 DEF vars, SerialInv, Alone, KnowsInv, CountInv, SameFile, Doc, DocumentStep
<1> QED
  BY <1>1, <1>2, <1>3 DEF Next

\* Uploads that take turns on a file know their document at every await, and
\* no document has credentials but those of its one success.
THEOREM SerialInvariance ==
  ASSUME ~Overlapping, ~Faulty
  PROVE  Spec => [](TypeOK /\ IngestInv /\ SerialInv)
<1>1. TypeOK /\ IngestInv /\ SerialInv /\ [Next]_vars => SerialInv'
  BY SerialStep
<1> QED
  BY <1>1, SerialInit, Invariance, PTL DEF Spec

\* A document that failed has no credentials, wherever the pipeline failed and
\* whenever the process was restarted (pipeline.py 4-5).
THEOREM FailureStoresNothing ==
  ASSUME ~Overlapping, ~Faulty
  PROVE  Spec => []FailedHasNoCredentials
<1>1. SerialInv => FailedHasNoCredentials
  BY DEF SerialInv, CountInv, FailedHasNoCredentials
<1> QED
  BY <1>1, SerialInvariance, PTL

\* A document's status moves only along the documented flow (pipeline.py 7-9).
THEOREM StatusFollowsFlow ==
  ASSUME ~Overlapping, ~Faulty
  PROVE  Spec => StatusFlow
<1>1. TypeOK /\ IngestInv /\ SerialInv /\ [Next]_vars =>
        [\A d \in Uploads : status'[d] = status[d] \/ status'[d] \in Flow[status[d]]]_vars
  <2> SUFFICES ASSUME TypeOK, IngestInv, SerialInv, [Next]_vars, NEW d \in Uploads
               PROVE  status'[d] = status[d] \/ status'[d] \in Flow[status[d]]
    OBVIOUS
  <2>1. DocumentStep
    BY SerialStep
  <2> QED
    BY <2>1 DEF TypeOK, DocumentStep, Moves, Stores
<1> QED
  BY <1>1, SerialInvariance, PTL DEF Spec, StatusFlow

-----------------------------------------------------------------------------
(* No document is left in between, while the process lives, however the    *)
(* uploads of a file overlap.                                              *)

\* An upload that has not added its row yet has none: a row is added by its own
\* upload only, and every other step writes the status of a row that is there.
NewInv == \A u \in Uploads : pc[u] \in {"idle", "putting", "adding"} => status[u] = "none"

\* A step adds a row only by leaving "adding", for the upload's own document.
LEMMA OwnRow ==
  ASSUME TypeOK, IngestInv, NEW u \in Uploads, UploadStep(u) \/ BoundedStep(u) \/ Ocr(u)
  PROVE  /\ \A w \in Uploads \ {u} : pc'[w] = pc[w]
         /\ pc'[u] \in {"idle", "putting", "adding"}
              => pc[u] \in {"idle", "putting", "adding"} /\ UNCHANGED status
         /\ \A d \in Uploads \ {u} : status[d] = "none" => status'[d] = "none"
<1> USE DocType DEF TypeOK
<1>1. CASE \/ Reject(u) \/ LookupFails(u) \/ LookupDuplicate(u) \/ LookupRetry(u)
           \/ LookupNew(u) \/ PutBlob(u) \/ AddConflicts(u)
  BY <1>1
  DEF Reject, LookupFails, LookupDuplicate, LookupRetry, LookupNew, PutBlob,
      AddConflicts, Awaits, Goto
<1>2. CASE AddDocument(u)
  BY <1>2 DEF AddDocument, Awaits, Goto, SetStatus, Doc, IngestInv, UploadInv
<1>3. CASE StartPipeline(u) \/ Fetch(u) \/ Ocr(u) \/ Decompose(u) \/ StoreCredentials(u)
  BY <1>3 DEF StartPipeline, Fetch, Ocr, Decompose, StoreCredentials, Awaits, Goto
<1>4. CASE \/ Reopen(u) \/ MarkNeedsOcr(u) \/ MarkOcrFailed(u) \/ MarkExtracted(u)
           \/ MarkDecomposed(u) \/ MarkStored(u) \/ MarkFailed(u)
  <2>1. /\ pc[u] \in {"reopening", "accepted"} \cup Stages
        /\ \E to \in {"accepted", "error", "finished"} \cup Stages :
             pc' = [pc EXCEPT ![u] = to]
        /\ UNCHANGED status \/ \E s \in Statuses : SetStatus(u, s)
    BY <1>4
    DEF Reopen, MarkNeedsOcr, MarkOcrFailed, MarkExtracted, MarkDecomposed, MarkStored,
        MarkFailed, Stage, Awaits, Goto, Stages, Statuses
  <2>2. status[Doc(u)] # "none"
    BY <2>1 DEF IngestInv, UploadInv
  <2> QED
    BY <2>1, <2>2 DEF SetStatus, Stages
<1> QED
  BY <1>1, <1>2, <1>3, <1>4 DEF UploadStep, BoundedStep

LEMMA NewStep ==
  ASSUME TypeOK, IngestInv, NewInv, [Next]_vars
  PROVE  NewInv'
<1>1. CASE UNCHANGED vars
  BY <1>1 DEF vars, NewInv
<1>2. CASE Restart
  BY <1>2 DEF Restart, NewInv, InFlight, TypeOK
<1>3. ASSUME NEW u \in Uploads, UploadStep(u) \/ BoundedStep(u) \/ Ocr(u)
      PROVE  NewInv'
  BY <1>3, OwnRow DEF NewInv
<1> QED
  BY <1>1, <1>2, <1>3 DEF Next

\* A step of an upload leaves its document to nobody only if it is stored or
\* failed.
LEMMA NotAbandoned ==
  ASSUME ~Faulty, TypeOK, IngestInv, NewInv, NoOrphanedStatus,
         NEW u \in Uploads, UploadStep(u) \/ BoundedStep(u) \/ Ocr(u)
  PROVE  NoOrphanedStatus'
<1> USE DEF TypeOK
<1>1. CASE LookupRetry(u)
  <2>1. /\ pc[u] = "idle" /\ pc' = [pc EXCEPT ![u] = "reopening"]
        /\ \A w \in Uploads \ {u} : found'[w] = found[w]
        /\ UNCHANGED status
    BY <1>1 DEF LookupRetry, Goto
  <2> QED
    BY <2>1 DEF NoOrphanedStatus, InFlight, Stages, Doc
<1>2. CASE ~LookupRetry(u)
  <2>1. PICK to \in InFlight \cup Ended :
          /\ pc' = [pc EXCEPT ![u] = to]
          /\ \/ to \in InFlight
             \/ pc[u] = "idle" /\ UNCHANGED status
             \/ status'[Doc(u)] \in {"none", "stored", "failed"}
          /\ status' = status \/ \E s \in Statuses : SetStatus(u, s)
          /\ UNCHANGED found
    <3>1. Doc(u) \in Uploads /\ ~LookupFails(u)
      BY DocType DEF LookupFails
    <3>2. CASE AddConflicts(u)
      BY <3>2 DEF AddConflicts, Goto, Ended, NewInv, IngestInv, UploadInv, Doc
    <3>3. CASE Reject(u) \/ LookupDuplicate(u) \/ LookupNew(u)
      BY <3>3 DEF Reject, LookupDuplicate, LookupNew, Goto, InFlight, Ended
    <3>4. CASE PutBlob(u) \/ AddDocument(u) \/ Reopen(u)
      BY <3>4 DEF PutBlob, AddDocument, Reopen, Awaits, Goto, InFlight, Statuses
    <3>5. CASE StartPipeline(u) \/ Fetch(u) \/ Ocr(u) \/ Decompose(u) \/ StoreCredentials(u)
      BY <3>5
      DEF StartPipeline, Fetch, Ocr, Decompose, StoreCredentials, Awaits, Goto,
          InFlight, Stages
    <3>6. CASE MarkNeedsOcr(u) \/ MarkExtracted(u) \/ MarkDecomposed(u)
      BY <3>6
      DEF MarkNeedsOcr, MarkExtracted, MarkDecomposed, Stage, Awaits, Goto, InFlight,
          Stages, Statuses
    <3>7. CASE MarkOcrFailed(u) \/ MarkStored(u) \/ MarkFailed(u)
      BY <3>1, <3>7
      DEF MarkOcrFailed, MarkStored, MarkFailed, Stage, SetStatus, Awaits, Goto, Ended,
          Statuses
    <3> QED
      BY <1>2, <3>1, <3>2, <3>3, <3>4, <3>5, <3>6, <3>7 DEF UploadStep, BoundedStep
  <2>2. \A w \in Uploads : Doc(w)' = Doc(w)
    BY <2>1 DEF Doc
  <2>3. \A d \in Uploads : d # Doc(u) => status'[d] = status[d]
    BY <2>1 DEF SetStatus
  <2>4. ASSUME NEW d \in Uploads, \A w \in Uploads : pc'[w] \in InFlight => Doc(w) # d
        PROVE  status'[d] \in {"none", "stored", "failed"}
    <3>1. CASE d = Doc(u)
      <4>1. to \notin InFlight
        BY <2>1, <2>4, <3>1
      <4>2. CASE pc[u] = "idle" /\ UNCHANGED status
        BY <2>1, <2>4, <4>2 DEF NoOrphanedStatus, InFlight, Stages
      <4> QED
        BY <2>1, <3>1, <4>1, <4>2
    <3>2. CASE d # Doc(u)
      BY <2>1, <2>3, <2>4, <3>2 DEF NoOrphanedStatus
    <3> QED
      BY <3>1, <3>2
  <2> QED
    BY <2>2, <2>4 DEF NoOrphanedStatus
<1> QED
  BY <1>1, <1>2

\* With a database that does not fail and no restarts, a document nobody works
\* on is stored or failed, whether or not uploads of a file take turns.
THEOREM NothingOrphaned ==
  ASSUME ~Faulty, ~Crashing
  PROVE  Spec => []NoOrphanedStatus
<1>1. Init => NewInv /\ NoOrphanedStatus
  BY DEF Init, NewInv, NoOrphanedStatus
<1>2. TypeOK /\ IngestInv /\ NewInv /\ NoOrphanedStatus /\ [Next]_vars
        => NewInv' /\ NoOrphanedStatus'
  <2> SUFFICES ASSUME TypeOK, IngestInv, NewInv, NoOrphanedStatus, [Next]_vars
               PROVE  NewInv' /\ NoOrphanedStatus'
    OBVIOUS
  <2>1. NewInv'
    BY NewStep
  <2>2. CASE UNCHANGED vars
    BY <2>1, <2>2 DEF vars, NoOrphanedStatus, Doc
  <2>3. ~Restart
    BY DEF Restart
  <2> QED
    BY <2>1, <2>2, <2>3, NotAbandoned DEF Next
<1> QED
  BY <1>1, <1>2, Invariance, PTL DEF Spec

-----------------------------------------------------------------------------
(* Ingestion implements IngestOnce.                                        *)

\* The life of a file is told by its document, if it has one.
LifeOf(s) == IF s \in {"stored", "failed"} THEN s ELSE "working"

LEMMA LifeAbsent ==
  ASSUME NEW f, DocumentsOf(f) = {}
  PROVE  Life(f) = "absent" /\ Batches(f) = 0
  BY DEF Life, Batches

LEMMA LifePresent ==
  ASSUME NEW f, NEW d, DocumentsOf(f) = {d}
  PROVE  Life(f) = LifeOf(status[d]) /\ Batches(f) = creds[d]
<1>1. {status[e] : e \in DocumentsOf(f)} = {status[d]}
  OBVIOUS
<1>2. (CHOOSE e \in DocumentsOf(f) : TRUE) = d
  OBVIOUS
<1> QED
  BY <1>1, <1>2 DEF Life, Batches, LifeOf

\* The document of a file is its only one.
LEMMA OnlyDocument ==
  ASSUME OneDocumentPerFile, NEW d \in Uploads, status[d] # "none"
  PROVE  DocumentsOf(FileOf[d]) = {d}
  BY DEF OneDocumentPerFile, DocumentsOf

\* What moves one document leaves the life of the other files alone.
LEMMA OtherFiles ==
  ASSUME NEW d \in Uploads, NEW f \in Files, f # FileOf[d],
         \A e \in Uploads \ {d} : UNCHANGED <<status[e], creds[e]>>
  PROVE  Life(f)' = Life(f) /\ Batches(f)' = Batches(f)
<1>1. DocumentsOf(f)' = DocumentsOf(f)
  BY DEF DocumentsOf
<1>2. \A e \in DocumentsOf(f) : status'[e] = status[e] /\ creds'[e] = creds[e]
  BY DEF DocumentsOf
<1>3. {status'[e] : e \in DocumentsOf(f)'} = {status[e] : e \in DocumentsOf(f)}
  BY <1>1, <1>2
<1>4. Life(f)' = Life(f)
  BY <1>1, <1>3 DEF Life
<1>5. DocumentsOf(f) # {} => (CHOOSE e \in DocumentsOf(f) : TRUE) \in DocumentsOf(f)
  OBVIOUS
<1>6. Batches(f)' = Batches(f)
  BY <1>1, <1>2, <1>5 DEF Batches
<1> QED
  BY <1>4, <1>6

\* A step along the flow begins, ends or continues the work on a file.
LEMMA MoveImplements ==
  ASSUME TypeOK, TypeOK', OneDocumentPerFile, OneDocumentPerFile',
         NEW d \in Uploads, NEW s \in Statuses, Moves(d, s), CountInv(d), CountInv(d)'
  PROVE  [Once!LifeNext]_Once!lifeVars
<1> DEFINE f == FileOf[d]
<1>1. /\ f \in Files /\ s # "none"
      /\ status'[d] = s /\ creds'[d] = creds[d]
      /\ \A e \in Uploads \ {d} : UNCHANGED <<status[e], creds[e]>>
  BY DEF TypeOK, Moves, Files, Statuses
<1>2. Life(f)' = LifeOf(s) /\ Batches(f)' = creds[d]
  <2>1. DocumentsOf(f)' = {d}
    BY <1>1 DEF OneDocumentPerFile, DocumentsOf
  <2>2. Life(f)' = LifeOf(status[d])' /\ Batches(f)' = creds'[d]
    <3>1. {status'[e] : e \in DocumentsOf(f)'} = {status'[d]}
      BY <2>1
    <3>2. (CHOOSE e \in DocumentsOf(f)' : TRUE) = d
      BY <2>1
    <3> QED
      BY <2>1, <3>1, <3>2 DEF Life, Batches, LifeOf
  <2> QED
    BY <1>1, <2>2 DEF LifeOf
<1>3. \A g \in Files \ {f} : Life(g)' = Life(g) /\ Batches(g)' = Batches(g)
  BY <1>1, OtherFiles
<1>4. CASE status[d] \in {"none", "failed"}
  <2>1. s = "uploaded" /\ creds[d] = 0
    BY <1>4 DEF Moves, Flow, CountInv
  <2>2. Life(f) \in {"absent", "failed"} /\ Batches(f) = 0
    <3>1. CASE status[d] = "none"
      <4>1. DocumentsOf(f) = {}
        BY <3>1 DEF Moves, SameFile, DocumentsOf
      <4> QED
        BY <4>1, LifeAbsent
    <3>2. CASE status[d] = "failed"
      BY <2>1, <3>2, OnlyDocument, LifePresent DEF LifeOf
    <3> QED
      BY <1>4, <3>1, <3>2
  <2>3. Once!Begin(f)
    BY <1>1, <1>2, <1>3, <2>1, <2>2 DEF Once!Begin, LifeOf
  <2> QED
    BY <1>1, <2>3 DEF Once!LifeNext
<1>5. CASE status[d] \notin {"none", "failed"}
  <2>1. Life(f) = LifeOf(status[d]) /\ Batches(f) = creds[d]
    BY <1>5, OnlyDocument, LifePresent
  <2>2. status[d] # "stored" /\ LifeOf(status[d]) = "working"
    BY <1>5 DEF TypeOK, Moves, Flow, Statuses, LifeOf
  <2>3. CASE s = "stored"
    <3>1. Once!Succeed(f)
      BY <1>1, <1>2, <1>3, <2>1, <2>2, <2>3 DEF Once!Succeed, LifeOf, CountInv
    <3> QED
      BY <1>1, <3>1 DEF Once!LifeNext
  <2>4. CASE s = "failed"
    <3>1. Once!Fail(f)
      BY <1>1, <1>2, <1>3, <2>1, <2>2, <2>4 DEF Once!Fail, LifeOf, CountInv
    <3> QED
      BY <1>1, <3>1 DEF Once!LifeNext
  <2>5. CASE s \notin {"stored", "failed"}
    BY <1>2, <1>3, <2>1, <2>2, <2>5 DEF Once!lifeVars, LifeOf
  <2> QED
    BY <2>3, <2>4, <2>5
<1> QED
  BY <1>4, <1>5

\* Storing the credentials of a document is storing those of its file.
LEMMA StoreImplements ==
  ASSUME TypeOK, OneDocumentPerFile, NEW d \in Uploads, Stores(d)
  PROVE  Once!LifeNext
<1> DEFINE f == FileOf[d]
<1>1. /\ f \in Files /\ creds'[d] = 1 /\ UNCHANGED status
      /\ \A e \in Uploads \ {d} : UNCHANGED <<status[e], creds[e]>>
  BY DEF TypeOK, Stores, Files
<1>2. DocumentsOf(f) = {d} /\ DocumentsOf(f)' = {d}
  BY OnlyDocument, <1>1 DEF Stores, DocumentsOf
<1>3. Life(f) = "working" /\ Batches(f) = 0
  BY <1>2, LifePresent DEF Stores, LifeOf
<1>4. Life(f)' = Life(f) /\ Batches(f)' = 1
  BY <1>1, <1>2 DEF Life, Batches
<1>5. \A g \in Files \ {f} : Life(g)' = Life(g) /\ Batches(g)' = Batches(g)
  BY <1>1, OtherFiles
<1>6. Once!StoreBatch(f)
  BY <1>1, <1>3, <1>4, <1>5 DEF Once!StoreBatch
<1> QED
  BY <1>1, <1>6 DEF Once!LifeNext

\* Whatever uploads, awaits, retries and restarts it takes, every file is
\* ingested as IngestOnce promises: begun when absent or failed, its
\* credentials stored once, ended accordingly.
THEOREM IngestionImplementsOnce ==
  ASSUME ~Overlapping, ~Faulty
  PROVE  Spec => ImplementsOnce
<1>1. Init => Once!LifeInit
  <2> SUFFICES ASSUME Init PROVE Once!LifeInit
    OBVIOUS
  <2>1. \A f \in Files : DocumentsOf(f) = {}
    BY DEF Init, DocumentsOf
  <2> QED
    BY <2>1, LifeAbsent DEF Once!LifeInit
<1>2. /\ TypeOK /\ IngestInv /\ SerialInv /\ [Next]_vars
      /\ TypeOK' /\ IngestInv' /\ SerialInv'
      => [Once!LifeNext]_Once!lifeVars
  <2> SUFFICES ASSUME TypeOK, IngestInv, SerialInv, [Next]_vars,
                      TypeOK', IngestInv', SerialInv'
               PROVE  [Once!LifeNext]_Once!lifeVars
    OBVIOUS
  <2>1. DocumentStep
    BY SerialStep
  <2>2. OneDocumentPerFile /\ OneDocumentPerFile'
    BY DEF IngestInv
  <2>3. CASE UNCHANGED <<status, creds>>
    BY <2>3 DEF Once!lifeVars, Life, Batches, DocumentsOf
  <2>4. ASSUME NEW d \in Uploads, NEW s \in Statuses, Moves(d, s)
        PROVE  [Once!LifeNext]_Once!lifeVars
    BY <2>2, <2>4, MoveImplements DEF SerialInv
  <2>5. ASSUME NEW d \in Uploads, Stores(d)
        PROVE  [Once!LifeNext]_Once!lifeVars
    BY <2>2, <2>5, StoreImplements
  <2> QED
    BY <2>1, <2>3, <2>4, <2>5 DEF DocumentStep
<1> QED
  BY <1>1, <1>2, SerialInvariance, PTL DEF Spec, ImplementsOnce, Once!LifeSpec
=============================================================================
