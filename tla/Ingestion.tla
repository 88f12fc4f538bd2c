------------------------------ MODULE Ingestion ------------------------------
(***************************************************************************)
(* Document ingestion: POST /api/documents (routes/documents.py), the      *)
(* dedupe policy (ingestion/service.py), the background pipeline           *)
(* (ingestion/pipeline.py) with its extraction, OCR and decomposition, the *)
(* document and credential repositories and the blob store.                *)
(*                                                                         *)
(* One process per upload; every await is a control point:                 *)
(*                                                                         *)
(*   idle -> rejected | duplicate | error                                  *)
(*   idle -> reopening -> accepted          (a failed document, retried)   *)
(*   idle -> putting -> adding -> accepted  (a new document)               *)
(*   accepted -> fetching -> [marking_ocr -> ocr ->] extracting ->         *)
(*     decomposing -> marking -> storing -> finishing -> finished          *)
(*   any stage -> failing -> finished                                      *)
(*                                                                         *)
(* A document is named by the upload that added its row.                   *)
(***************************************************************************)
EXTENDS Naturals, FiniteSets

CONSTANTS Uploads,
          FileOf,        \* the content of each upload (its sha256)
          NoDocument,
          Overlapping,   \* whether uploads of one file may overlap
          Faulty,        \* whether database and disk operations may fail
          Crashing       \* whether the process may be restarted

ASSUME IngestionAssumption ==
  /\ NoDocument \notin Uploads
  /\ {Overlapping, Faulty, Crashing} \subseteq BOOLEAN

VARIABLES pc,        \* pc[u]: where the upload, then its pipeline, is
          found,     \* found[u]: the failed document that u retries
          status,    \* status[d]: document.status; "none" without a row
          blobs,     \* uploads whose bytes are in the blob store
          creds      \* creds[d]: batches of credentials stored for d

vars == <<pc, found, status, blobs, creds>>

Stages == {"fetching", "marking_ocr", "ocr", "ocr_failing", "extracting",
           "decomposing", "marking", "storing", "finishing", "failing"}
InFlight == {"reopening", "putting", "adding", "accepted"} \cup Stages
Ended == {"rejected", "duplicate", "error", "finished", "killed"}
Statuses == {"uploaded", "needs_ocr", "extracted", "decomposed", "stored", "failed"}

\* The row with this upload's sha256, which the table keeps unique.
SameFile(u) == {d \in Uploads : status[d] # "none" /\ FileOf[d] = FileOf[u]}

\* The document upload u works on.
Doc(u) == IF found[u] = NoDocument THEN u ELSE found[u]

Init ==
  /\ pc = [u \in Uploads |-> "idle"]
  /\ found = [u \in Uploads |-> NoDocument]
  /\ status = [d \in Uploads |-> "none"]
  /\ blobs = {}
  /\ creds = [d \in Uploads |-> 0]

Goto(u, from, to) ==
  /\ pc[u] = from
  /\ pc' = [pc EXCEPT ![u] = to]

\* An awaited operation, of an upload at `from`, with the given effect: it
\* returns; or, with faults, raises before or after taking effect.
Awaits(u, from, to, onError, effect, noEffect) ==
  \/ Goto(u, from, to) /\ effect
  \/ Faulty /\ Goto(u, from, onError) /\ (effect \/ noEffect)

-----------------------------------------------------------------------------
(* routes/documents.py and ingest_upload.                                  *)

MayStart(u) ==
  ~Overlapping => \A w \in Uploads \ {u} :
                    FileOf[w] = FileOf[u] => pc[w] \notin InFlight

\* validate_upload refuses the bytes: 422.
Reject(u) ==
  /\ Goto(u, "idle", "rejected")
  /\ UNCHANGED <<found, status, blobs, creds>>

\* get_by_sha256 fails: 500.
LookupFails(u) ==
  /\ Faulty /\ MayStart(u)
  /\ Goto(u, "idle", "error")
  /\ UNCHANGED <<found, status, blobs, creds>>

LookupDuplicate(u) ==
  /\ MayStart(u)
  /\ \E d \in SameFile(u) : status[d] # "failed"
  /\ Goto(u, "idle", "duplicate")
  /\ UNCHANGED <<found, status, blobs, creds>>

\* Mutant: a document in any unfinished state is taken for a failed one.
LookupRetryUnfinished(u) ==
  /\ MayStart(u)
  /\ Goto(u, "idle", "reopening")
  /\ \E d \in SameFile(u) : /\ status[d] # "uploaded"
                            /\ found' = [found EXCEPT ![u] = d]
  /\ UNCHANGED <<status, blobs, creds>>

LookupRetry(u) ==
  /\ MayStart(u)
  /\ Goto(u, "idle", "reopening")
  /\ \E d \in SameFile(u) : /\ status[d] = "failed"
                            /\ found' = [found EXCEPT ![u] = d]
  /\ UNCHANGED <<status, blobs, creds>>

LookupNew(u) ==
  /\ MayStart(u)
  /\ SameFile(u) = {}
  /\ Goto(u, "idle", "putting")
  /\ UNCHANGED <<found, status, blobs, creds>>

SetStatus(u, s) == status' = [status EXCEPT ![Doc(u)] = s]

Reopen(u) ==
  /\ Awaits(u, "reopening", "accepted", "error",
            SetStatus(u, "uploaded"), UNCHANGED status)
  /\ UNCHANGED <<found, blobs, creds>>

\* Mutant: the row is added although the bytes may not be stored.
PutBlobInBackground(u) ==
  /\ Goto(u, "putting", "adding")
  /\ blobs' \in {blobs, blobs \cup {u}}
  /\ UNCHANGED <<found, status, creds>>

PutBlob(u) ==
  /\ Awaits(u, "putting", "adding", "error",
            blobs' = blobs \cup {u}, UNCHANGED blobs)
  /\ UNCHANGED <<found, status, creds>>

\* Mutant: the table has no unique constraint on sha256.
AddDuplicateDocument(u) ==
  /\ Awaits(u, "adding", "accepted", "error",
            SetStatus(u, "uploaded"), UNCHANGED status)
  /\ UNCHANGED <<found, blobs, creds>>

AddDocument(u) ==
  /\ SameFile(u) = {}
  /\ Awaits(u, "adding", "accepted", "error",
            SetStatus(u, "uploaded"), UNCHANGED status)
  /\ UNCHANGED <<found, blobs, creds>>

\* Another upload of the file won the race: IntegrityError, 500.
AddConflicts(u) ==
  /\ SameFile(u) # {}
  /\ Goto(u, "adding", "error")
  /\ UNCHANGED <<found, status, blobs, creds>>

-----------------------------------------------------------------------------
(* run_pipeline.                                                           *)

\* The response is sent and the background task starts.
StartPipeline(u) ==
  /\ Goto(u, "accepted", "fetching")
  /\ UNCHANGED <<found, status, blobs, creds>>

\* blobs.get and extract_text: a text layer, a scan, or an exception.
Fetch(u) ==
  /\ \/ Doc(u) \in blobs /\ Goto(u, "fetching", "extracting")
     \/ Doc(u) \in blobs /\ Goto(u, "fetching", "marking_ocr")
     \/ Goto(u, "fetching", "failing")
  /\ UNCHANGED <<found, status, blobs, creds>>

Stage(u, from, to, s) ==
  /\ Awaits(u, from, to, "failing", SetStatus(u, s), UNCHANGED status)
  /\ UNCHANGED <<found, blobs, creds>>

MarkNeedsOcr(u) == Stage(u, "marking_ocr", "ocr", "needs_ocr")

\* run_ocr: text, OcrUnavailableError, or another exception.  It runs in a
\* thread and has no timeout.
Ocr(u) ==
  /\ \E to \in {"extracting", "ocr_failing", "failing"} : Goto(u, "ocr", to)
  /\ UNCHANGED <<found, status, blobs, creds>>

\* Mutant: the early return for a missing Tesseract records nothing.
MarkOcrFailedNowhere(u) ==
  /\ Goto(u, "ocr_failing", "finished")
  /\ UNCHANGED <<found, status, blobs, creds>>

\* The handler of OcrUnavailableError is inside the outer try.
MarkOcrFailed(u) == Stage(u, "ocr_failing", "finished", "failed")

\* Mutant: the extraction method is written to the status column.
MarkMethod(u) == Stage(u, "extracting", "decomposing", "text_layer")

MarkExtracted(u) == Stage(u, "extracting", "decomposing", "extracted")

\* Mutant: credentials are stored while the model's output is being parsed.
DecomposeStoring(u) ==
  /\ \E to \in {"marking", "failing"} : Goto(u, "decomposing", to)
  /\ creds' = [creds EXCEPT ![Doc(u)] = @ + 1]
  /\ UNCHANGED <<found, status, blobs>>

\* decompose: credentials, or DecompositionError, or the model call fails.
Decompose(u) ==
  /\ \E to \in {"marking", "failing"} : Goto(u, "decomposing", to)
  /\ UNCHANGED <<found, status, blobs, creds>>

\* Mutant: the final status is written before the credentials.
MarkStoredFirst(u) == Stage(u, "marking", "storing", "stored")

MarkDecomposed(u) == Stage(u, "marking", "storing", "decomposed")

\* Mutant: an error of add_many is swallowed.
StoreCredentialsOrNot(u) ==
  /\ Goto(u, "storing", "finishing")
  /\ creds' \in {creds, [creds EXCEPT ![Doc(u)] = @ + 1]}
  /\ UNCHANGED <<found, status, blobs>>

\* add_many is one transaction.
StoreCredentials(u) ==
  /\ Awaits(u, "storing", "finishing", "failing",
            creds' = [creds EXCEPT ![Doc(u)] = @ + 1], UNCHANGED creds)
  /\ UNCHANGED <<found, status, blobs>>

MarkStored(u) == Stage(u, "finishing", "finished", "stored")

\* Mutant: a failure is logged but not recorded.
MarkFailedNowhere(u) ==
  /\ Goto(u, "failing", "finished")
  /\ UNCHANGED <<found, status, blobs, creds>>

\* Either handler; when recording the failure fails, nothing else is done.
MarkFailed(u) ==
  /\ Awaits(u, "failing", "finished", "finished",
            SetStatus(u, "failed"), UNCHANGED status)
  /\ UNCHANGED <<found, blobs, creds>>

-----------------------------------------------------------------------------
\* The process is restarted: background tasks are gone, rows and blobs stay.
Restart ==
  /\ Crashing
  /\ \E u \in Uploads : pc[u] \in InFlight
  /\ pc' = [u \in Uploads |-> IF pc[u] \in InFlight THEN "killed" ELSE pc[u]]
  /\ UNCHANGED <<found, status, blobs, creds>>

UploadStep(u) ==
  \/ Reject(u) \/ LookupFails(u)
  \/ LookupDuplicate(u) \/ LookupRetry(u) \/ LookupNew(u)
  \/ Reopen(u) \/ PutBlob(u) \/ AddDocument(u) \/ AddConflicts(u)

\* The pipeline's steps that something bounds: database and model timeouts,
\* and the extraction of a file of at most 10 MB.
BoundedStep(u) ==
  \/ StartPipeline(u) \/ Fetch(u) \/ MarkNeedsOcr(u) \/ MarkOcrFailed(u)
  \/ MarkExtracted(u) \/ Decompose(u) \/ MarkDecomposed(u)
  \/ StoreCredentials(u) \/ MarkStored(u) \/ MarkFailed(u)

Next ==
  \/ \E u \in Uploads : UploadStep(u) \/ BoundedStep(u) \/ Ocr(u)
  \/ Restart

Fairness == \A u \in Uploads : WF_vars(BoundedStep(u))
OcrReturns == \A u \in Uploads : WF_vars(Ocr(u))

Spec == Init /\ [][Next]_vars /\ Fairness
SpecOcrReturns == Spec /\ OcrReturns

-----------------------------------------------------------------------------
(* Properties.                                                             *)

\* Every variable stays in its domain.
TypeOK ==
  /\ pc \in [Uploads -> {"idle"} \cup InFlight \cup Ended]
  /\ found \in [Uploads -> Uploads \cup {NoDocument}]
  /\ status \in [Uploads -> {"none"} \cup Statuses]
  /\ blobs \subseteq Uploads
  /\ creds \in [Uploads -> Nat]

\* However uploads of a file race, fail or die, the file has one document
\* (tables.py 70, the check-then-insert of service.py 38-48).
OneDocumentPerFile ==
  \A d, e \in Uploads :
    status[d] # "none" /\ status[e] # "none" /\ FileOf[d] = FileOf[e] => d = e

\* The uri of a document always leads to its bytes, so a failed document can
\* be retried from its stored blob (service.py 42-48).
DocumentHasBlob == \A d \in Uploads : status[d] # "none" => d \in blobs

\* A document that says stored has credentials, even while a second pipeline
\* works on it or after a restart (pipeline.py 66-67).
StoredHasCredentials == \A d \in Uploads : status[d] = "stored" => creds[d] > 0

\* The inductive invariant behind the three properties above: what each control
\* point knows about its document (service.py 36-49, pipeline.py 35-67).  An
\* upload retries only a document that exists; before it adds a row its bytes
\* are stored; before it marks the document stored its credentials are.
UploadInv(u) ==
  /\ pc[u] \in {"idle", "putting", "adding"} => found[u] = NoDocument
  /\ pc[u] = "adding" => u \in blobs
  /\ pc[u] \in {"reopening", "accepted"} \cup Stages => status[Doc(u)] # "none"
  /\ pc[u] = "finishing" => creds[Doc(u)] > 0

IngestInv ==
  /\ OneDocumentPerFile
  /\ DocumentHasBlob
  /\ StoredHasCredentials
  /\ \A u \in Uploads : UploadInv(u)

\* A document's credentials are stored once at most (SPEC.md 375: the same
\* file never double-ingests).
IngestedOnce == \A d \in Uploads : creds[d] <= 1

\* A document nobody works on is stored or failed (SPEC.md 376: no orphaned
\* state, document.status = failed with reason).
NoOrphanedStatus ==
  \A d \in Uploads :
    (\A u \in Uploads : pc[u] \in InFlight => Doc(u) # d)
      => status[d] \in {"none", "stored", "failed"}

\* A failed document has no credentials (pipeline.py 4-5: failures land as
\* status=failed with zero partial credential writes).
FailedHasNoCredentials == \A d \in Uploads : status[d] = "failed" => creds[d] = 0

\* The status moves only along the flow of pipeline.py 7-9.
Flow == [none |-> {"uploaded"},
         uploaded |-> {"needs_ocr", "extracted", "failed"},
         needs_ocr |-> {"extracted", "failed"},
         extracted |-> {"decomposed", "failed"},
         decomposed |-> {"stored", "failed"},
         stored |-> {},
         failed |-> {"uploaded"}]

StatusFlow ==
  [][\A d \in Uploads : status'[d] = status[d] \/ status'[d] \in Flow[status[d]]]_vars

\* An accepted upload ends with its document stored or failed (SPEC.md 376 and
\* 377: nothing waits forever).
UploadsSettle ==
  \A u \in Uploads : pc[u] = "accepted" ~> status[Doc(u)] \in {"stored", "failed"}

\* How far the ingestion of a file is, and how often it stored credentials.
Files == {FileOf[u] : u \in Uploads}
DocumentsOf(f) == {d \in Uploads : FileOf[d] = f /\ status[d] # "none"}

Life(f) ==
  LET reached == {status[d] : d \in DocumentsOf(f)} IN
  CASE reached = {} -> "absent"
    [] "stored" \in reached -> "stored"
    [] "failed" \in reached -> "failed"
    [] OTHER -> "working"

Batches(f) ==
  IF DocumentsOf(f) = {} THEN 0 ELSE creds[CHOOSE d \in DocumentsOf(f) : TRUE]

Once == INSTANCE IngestOnce WITH life <- [f \in Files |-> Life(f)],
                                 batches <- [f \in Files |-> Batches(f)]

\* Every file is ingested as IngestOnce says: begun when absent or failed, its
\* credentials stored once, and stored or failed at the end accordingly.
ImplementsOnce == Once!LifeSpec
=============================================================================
