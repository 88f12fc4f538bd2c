# Amadeus Micro Agent: TLA+ models, checks and proofs

Amadeus is a single-user career assistant: a FastAPI backend that streams the
turns of a Claude SDK agent to a React page, asks the user's approval before the
agent writes anything, and ingests uploaded resumes in the background. This
directory models the parts of it whose difficulty is the *order* in which things
happen, checks them with TLC and proves the most important results with TLAPS.
Paths below are relative to the repository; `backend/app/` is written `app/`.

## 1. The system

| Component | State it keeps | Operations | Modelled in |
|---|---|---|---|
| `ApprovalGate` (`app/agent/approvals.py`, `app/routes/approvals.py`) | `_pending` futures, `_queues` bound per conversation, the `approval` table | `bind`, `unbind`, `check`, `resolve` | `ApprovalGate`, `ConsentLedger` |
| `AgentService` (`app/agent/service.py`, `app/routes/chat.py`) | `_clients`, `_restarted`; per turn a queue and a pump task | `chat`, `_get_client`, `_drop_client`, `shutdown`; POST `/api/chat` | `AgentTurns` |
| Turn timers (`app/config.py`, `app/agent/llm.py`) | the gap, approval and tool timeouts | | `TurnClock` |
| Document ingestion (`app/ingestion/`, `app/routes/documents.py`) | `document` and `credential` rows, the blob store | upload, dedupe and retry, `run_pipeline` | `Ingestion`, `IngestOnce` |
| Claude SDK client | a CLI process per conversation, its message stream | `connect`, `query`, `receive_response`, `disconnect`; calls `can_use_tool` and the tools | external, inside `AgentTurns` |
| Capabilities and their registry (`app/capabilities/`) | jobs, applications with their events, profile facts, credentials | eight tools, four of them writes; the tools that are asked about | `Capabilities` (in `AgentTurns` a body is one step, `RunTool`) |
| Repositories (`app/repositories/`, `app/db.py`, `app/models/tables.py`) | the tables; the dictionaries of the in-memory ones | every operation, one transaction each | `PgRepositories`, `Repositories`, `Store` |
| Conversation history (`app/routes/conversations.py`) | `conversation`, `message` rows | `ensure_conversation`, `add_message`, `get_messages`; GET messages | `PgRepositories`, `ChatPage` |
| Upload panel (`UploadPanel.tsx`, GET `/api/documents/{id}`) | the document shown, the interval | choose, upload, poll | `UploadPanel` with `Ingestion` |
| Chat window and SSE client (`ChatWindow.tsx`, `MessageList.tsx`, `sse.ts`) | messages, cards, a stream buffer | send, read, decide, rehydrate, reload | `ChatPage` with `ConsentLedger`, `SseReader` |
| Startup and health, prompts and configuration, migrations | | | not modelled, section 6 |

How they interact. A chat request stores the user's message and starts a stream.
`AgentService.chat` binds the turn's queue in the gate, takes or connects the
conversation's SDK client, and starts a *pump* task that sends the message and
copies the client's messages to the queue, from which `chat` streams them. When
the SDK wants a write tool it calls `can_use_tool`, hence `ApprovalGate.check`,
in a coroutine of its own: `check` opens an audit row, puts an
`approval_request` on the queue it finds bound, and waits for a future that
either the approval route (another request) resolves or a timer cancels. Uploads
are separate requests whose pipelines outlive them as in-process tasks.

Everything runs in one asyncio event loop: code between two awaits is atomic,
and everything may happen at an await. The hard behaviours are therefore
interleavings at awaits (two tabs, a double click, two uploads of a file), the
three timeouts of a turn against each other, a browser that goes away at any
await or yield, an SDK process that dies, operations of the database that fail
before or after taking effect, responses that are late, lost or out of order,
and restarts, of which only rows and blobs survive. `PROJECT.json` lists each such hazard at its line.

What makes each component correct:

- Gate: no write without the user's accepted, recorded approval; at most one
  answer per approval; the audit row never contradicts the answer; an "ok"
  always reaches a check that is waiting; every check ends.
- Service: the reply a turn streams answers that turn's message; a turn always
  ends and leaves no binding, task or broken client behind; a lost session is
  announced; one session per conversation; the gate is never bypassed.
- Ingestion: one document per file; a row's bytes exist; a document says
  `stored` only with its credentials, which are stored once; no document is
  left in between.
- Capabilities: whatever a call writes was approved, and approved as that
  write; a report of success or of nothing saved is true; no status without a
  history.
- Repositories: a call is atomic or raises, as the in-memory ones are; a
  session has one conversation, whose messages keep their order.
- Upload panel: what it says is saved is saved; it ends on what the document
  ended on.
- Chat: a stream is read whole however it is cut; the page shows what a reload
  would show; a card never contradicts the answer that was accepted.

## 2. Modules and the code

Each module carries the correspondence in its comments, and `PROJECT.json`
("map") gives the lines of every definition.

**`ConsentLedger`** is what the gate promises, without futures or timers: a row
is opened, answered at most once, closed once; a write is performed once at most,
against a row closed as approved, which takes the user's yes.

**`ApprovalGate`** has one process per tool call. `pc` is the await `check` is
suspended in; `row` the decision column; `pending`, `future`, `decision`,
`queues` the Python state of the same names; `acked` the answers the route said
"ok" to. Each database operation is two steps, its commit and the coroutine's
resumption, so that failure or cancellation can come before or after the
effect. `wait_for` is `Expire` (the timer) and `Wake` (the resumption): in the
pass of the loop in which both the timer and the route ran, the timer wins.
`Cancel` is the SDK cancelling its callback, `Restart` a new process on the old table.

**`AgentTurns`** has one process per turn (`turn`), one per pump (`pump`), the
SDK clients (`link`, `work`, `inbox`, external), and the gate's own variables
through `Gate == INSTANCE ApprovalGate`, whose queues are the turns. Every
action that moves the gate does so through one of its actions, and `check`'s
`Ask` also appends the request to the turn's queue. The external client answers
its queries in order and calls tools for the query at the head of `work`;
`receive_response` yields whatever message is next, to whichever pump asks.
`Abandon` is the cancellation or closing of the stream at any await or yield.
`owesNotice` is a history variable: conversations whose session was dropped
and whose user has not been told.

**`TurnClock`** counts time in a turn with one tool call at a time: `spent` in
the phase, `gap` on the timer of `queue.get`. It is apart from `AgentTurns`
because the question is arithmetic; its result is what justifies the guard of
`AgentTurns!GapTimeout` that the gap timer does not fire on a turn with an
approval it announced still waiting.

**`IngestOnce`** is what ingestion promises per file: work begins on an absent
or failed document and ends in failure with nothing stored or in success with
the credentials stored once.

**`Ingestion`** has one process per upload through the route, `ingest_upload`
and `run_pipeline`, `pc` again naming the await. A document is named by the
upload that added its row. `Awaits` is the shape of every awaited operation: it
returns, or (with `Faulty`) raises before or after its effect. What
extraction, OCR and the model return is a choice.

**`Capabilities`** has one process per tool call, from the SDK's request over
the gate's answer (allowed or not, as `ConsentLedger` has it) through every
await of the tool's body. `Awaits` is again the shape of an awaited operation.
A row is named by the call that wrote it, and `events`, `profile` remember the
order of writes. The agent may name any application id a result echoed to it,
none, or one that is no application's (`Unknown`). `overlapped` is a history
variable: applications on which two updates met.

**`Store`** is the data of the repositories and, per operation, its answer and
effect alone: the behaviour of `memory.py`, so that **`Repositories`**, in which
a call takes effect at once or raises, is at the same time the promise of
`base.py` and the in-memory implementation. **`PgRepositories`** is the
PostgreSQL one: `Begin` is a call's `SELECT` (and, for what only reads, all of
it), `Commit` its flush and commit some time later, against the rows as they
are by then, `Raise` a failure on either side of the commit. `Column` is
SQLAlchemy's rule of writing only the columns that differ from what was
loaded; `NotUnique` and `NoReferent` are the constraints of the tables;
`began` is the order of `now()`, by which history is sorted.

**`UploadPanel`** composes the panel with `Ingestion`
(`Docs == INSTANCE Ingestion`): `Route(u)` is a POST's handler, made of
`Ingestion`'s actions, `Respond` the arrival of the response. `LosePost` is the
connection lost at any moment: the panel takes another file at once, while the
server goes on with the request, if it arrived (`sent`), and with its pipeline. So
POSTs of a file meet in the route, and pipelines on a document. A poll is a process: sent by
`Tick` for the document shown then, reading the document and its credentials in
two transactions (`ReadOrder`), and delivered to whatever the panel shows by then.

**`SseReader`** is what `sse.ts` makes of the bytes so far, with a line for a
symbol and CR LF as two, so that a chunk may end anywhere in a separator. `Only` is
the elements of a sequence that are in a set, in their order: the frames that have
a data line, the events that are texts, the turns that are a page's.
**`ChatPage`** composes the page with the chat, history and decision routes and
with `ConsentLedger`, which `ApprovalGate` implements, in the place of the
gate. An event carries its turn and its place, so that what pages show can be
compared with what was sent and with what is stored.

`MC*` modules give the constants values; `ApprovalGateProofs`,
`AgentTurnsProofs`, `TurnClockProofs`, `IngestionProofs`, `CapabilitiesProofs`,
`PgRepositoriesProofs`, `UploadPanelProofs` and `ChatPageProofs` hold the theorems.

## 3. The runs

Instances, bounds and why they are enough. Each passing run fires every action
its constants enable, and together they fire all of them.

| Run | Instance | Shows |
|---|---|---|
| `gate` | two writes and a read in one conversation, one queue | all safety of the gate, its inductive invariant, that every check ends, refinement of `ConsentLedger` |
| `turns_overlap` | two overlapping turns of a conversation, both abandonable, two clients, both mortal, no tool calls | nothing outlives a turn, a failed client is dropped, every turn ends |
| `turns_consent` | two overlapping turns, the first abandonable and calling a write, a client that may die | consent from the browser to the tool; a request that is waited for reached the stream of its turn, lies on its queue, or the stream is over; the inductive invariant of turns |
| `turns_one_tab` | two successive turns, never abandoned, a write and a read, one mortal client | replies belong to their turn, notices are given, one session, no unasked refusal |
| `clock` | 120 s and 90 s in units of 10 s | an approval expires before the gap timer can fire |
| `ingest_concurrent` | three uploads of one file, racing, with faults and restarts | one document, its bytes, `stored` only with credentials; the inductive invariant behind them |
| `capabilities` | three calls of any of the eight tools, two statuses, two fact keys, any fact batch, failures at every await | writes are approved as what they are, reports are true, no status without its event |
| `repositories` | four calls on two sessions, two files, two keys and each other's rows, failures at every commit; callers take turns on a row | refinement of `Repositories`: transactions look atomic and answer as the in-memory ones |
| `panel` | a document that failed before; two uploads, retries of it or of a new file, their connections lost or not; two polls under way, one of which may be slow or lost | what the panel says is saved is committed, and listed unless a duplicate's answer said it; the panel ends on what its document ended on |
| `chat` | one page, two turns, one reload, requests lost, any chunking | nothing is lost in the stream, an answer is stored whole or not at all, the page shows what is stored, cards show the accepted answer |
| `ingest_sequential` | three uploads of a file that do not overlap and one of another file that may, no faults | no document left in between, no credentials on failure, the documented status flow, uploads settle, refinement of `IngestOnce` |

Calls of different conversations share nothing in the gate but its dictionaries,
which are keyed by call and by conversation, so one conversation with two writes
has all the interference there is. Two turns suffice for every interference
*between* turns of a conversation (leftovers of one reach the next, one ends or
drops while another streams). Two clients are one per turn, and no turn ever
connects more. Three uploads of a file are the first, which fails, and two that
race to retry it. The only bounds on behaviour are the sizes of these sets: a
turn, call or upload is made once, a turn's reply has at most one text besides
its result (`Talkative`), and a client dies at most once. `Abandonable`,
`Mortal`, `Overlapping`, `Faulty` and `Crashing` say which environment a run
has; where a run switches one off, another has it on, or the tables below
show that the property needs it off. `TurnClock` needs no bound: its timers stop.

Three tool calls are an application and two updates of it, which is all that
can meet in one. Four repository calls are two that make a row and
two that race on it; `Askable` keeps a behaviour within one group of tables
(`Groups`), as no operation touches two groups.
The panel makes two POSTs, which is what can meet in the route or on the screen. `Earlier` is
a document that failed before the page was opened, so that two retries of it can have two
pipelines; `Choices` makes the two POSTs retries of it, a retry and an upload of a new file, or
uploads of a new file. Two `Polls` are the least that can be out of order. `MaxTurns` = 2 and
`MaxReloads` = 1 give a turn whose page is gone and the next one; `Streams`
lists the kinds of events a turn may send, with a ping, a text broken by a tool
and an approval; a chunk ends with a frame or `Cuts` = {1, 5} symbols before
the end of one: inside the separator and inside the data. A second tab is
beyond the size TLC finishes in minutes; to the model it is a page that was
reloaded while its turn goes on, except that both then show their own turns.

`CHECK_DEADLOCK FALSE` stands in every configuration whose system stops because
its finitely many turns, uploads or calls are over, and in `TurnClock`'s, which
stops when the turn is cut. The gate never stops: `Restart` is always enabled.

**Disagreements.** One run is expected to find a violation. It checks a property
that the documents of the repository state and the code does not keep
("findings" in `PROJECT.json` quotes them): in `ingest_double`, two simultaneous
retries of a failed document run its pipeline twice and store its credentials twice.

Other properties need a restriction that a passing run has, or are stated
somewhere and not kept. Changing a configuration as follows, with the property
named as the only one, shows it:

| Configuration | Change | Then violated |
|---|---|---|
| `MCApprovalGate` | none | `OnlyUnansweredExpire` (ADR-0002 line 29): the timer fires in the loop pass of the user's answer, which is acknowledged as approved, recorded as expired, refused |
| `MCTurnClock` | none | `SilenceMeansHang` (`service.py` 143-144): a late answer plus the tool's model call exceed the gap, and a healthy turn is cut |
| `MCAgentTurns_one_tab` | `Abandonable <- MCFirstTurn` | `AnswersBelongToTurn`: after an abandoned turn the next one streams, and stores, the previous reply; `OneSessionPerConversation`: a turn abandoned while it disconnects its failed client leaves that one connected, and the next turn connects another |
| `MCAgentTurns_one_tab` | `Overlapping = TRUE` | `OneSessionPerConversation` (two first turns connect two sessions, one is never closed); `RefusedOnlyWithoutStream` (one turn's end unbinds the other's queue, whose write is refused unasked); `AnswersBelongToTurn` (two turns read one client's stream) |
| `MCAgentTurns_one_tab` | `Abandonable <- MCTwoTurns` | `NoticeNotLost` (the restart flag is consumed before the notice is sent) |
| `MCIngestion_sequential` | `Crashing = TRUE`, `SPECIFICATION Spec` | `NoOrphanedStatus` (SPEC.md 376): a restart leaves a document half way, and the dedupe policy refuses to resume it |
| `MCIngestion_sequential` | `Faulty = TRUE`, `SPECIFICATION Spec` | `FailedHasNoCredentials`, and with it `StatusFlow` and `ImplementsOnce` (the credentials' commit is not undone when the last status update fails; the retry runs from there); `NoOrphanedStatus` (recording a failure fails too) |
| `MCIngestion_sequential` | `Overlapping = TRUE`, `SPECIFICATION Spec` | `FailedHasNoCredentials`, `StatusFlow`, `ImplementsOnce`: two retries of a failed document run its pipeline side by side |
| `MCIngestion_sequential` | `SPECIFICATION Spec` | `UploadsSettle` (OCR has no timeout) |
| `MCUploadPanel` | none | `StoredShownIsStored`: a retry's POST is lost between the route's lookup and its update, the file is chosen again, that retry stores and is shown, and then the first one's update puts the row back to `uploaded` for a pipeline of its own |
| `MCRepositories` | `SerialCallers = FALSE` | `ImplementsRepositories`: of overlapping `add_message`s the later to commit may come first in history; a status update clears nothing it did not load; both of two `decide`s say they won |

The callers of the code take turns on a row as `SerialCallers` says, except for
the messages of two tabs, two `application_track` updates of one application in
one reply, and the pipelines of a document retried twice at once. `decide` is
called by the one check that opened the approval, once.

Some properties name the exceptions they found, each a behaviour of the code:

- `WritesAsApproved`: an update of an id that is no application's is carried out
  as a new application, though the prompt said that one is updated.
- `StatusIsLastEvent`: an update that breaks off between its two transactions,
  or meets another, leaves a status that is not that of the last event.
- `DoneMeansSaved`: a duplicate shows its document without credentials, as
  the POST does not return them; and `deduplicated` ("Already saved") is shown
  too of a document whose pipeline is still running. That the document is still
  `stored` is more than the code keeps (`StoredShownIsStored` above).
- `PanelSettles`: the panel takes `needs_ocr` for final although the pipeline
  goes on to OCR, and a poll sent before a retry may bring `failed`, and stop the
  polling, while the retry runs (or `stored`, of the first of two pipelines). Hence
  `needs_ocr` and documents that were retried are left out; without either exception
  TLC finds a violation in the instance of `panel`. It does not say *which* document is
  shown: a poll of an earlier document that arrives late replaces the one chosen since.
- `ShownIsStored` is about turns read to their end and stored; the rest of an
  abandoned turn may be stored after the next turn's question, or never.
- `AckedIsShown` is about answers the gate accepted. A card says "approved" also
  when the route answered 404 or 409, whose status the page does not read.

Two further differences lie outside these properties: the memory repositories
accept a second document of the same bytes, which the unique constraint
refuses, and list facts in the order they were first set, not by key, although
the two "must behave identically" (`memory.py` 3-4). `Store` has the former (the
refusal is one of the exceptions a promised call may raise); the lists are sets.

None of this breaks consent: `ConsentBeforeWrite`, `ConsentEndToEnd` and
`WritesAsApproved` hold through all of these behaviours.

## 4. Fairness

Only weak fairness, and only of steps the code itself drives.

- Gate: `CheckStep`, what `check` does next. The event loop runs ready
  coroutines, `db.py` line 25 bounds every database operation (5 s to connect,
  15 s per command), and `wait_for` bounds the wait. The user, the SDK and
  restarts are under no fairness.
- Turns: `ChatStep`, what `chat` does next, and `CheckStep`. Every wait of
  `chat` is bounded by `wait_for` (line 145) except `connect` and `disconnect`,
  which the code does not time and which the model assumes return, as the SDK's own
  control requests time out. The pump and the SDK are under *no* fairness: a
  silent client, or a pump that stops early, must not hang a turn, and does not.
- Ingestion: `BoundedStep`, everything but OCR. Database and model calls have
  timeouts and the extraction of a file of 10 MB ends; OCR has no timeout, so
  only `SpecOcrReturns`, used by `ingest_sequential`, assumes that it returns.
- Panel: the pipeline's steps, OCR included, and the polls in `Reliable`, as
  `setInterval` keeps firing and the status route is bounded by the database's
  timeouts. The other polls may be slow for ever or lost; the user and the POST
  are under no fairness.
- Capabilities, repositories and chat are checked for safety only.

## 5. What is proved

For every value of the constants. Every invariant, action property and refinement
of the passing runs has its theorem; what has none is liveness. The assumptions
are those the modules state:
`GateAssumption` (a write is a call, every call has a conversation, `NoQueue` is
no queue), `TurnsAssumption` (the same of turns, clients and their conversations),
`TimeoutAssumption` (config.py's rule that the approval timeout is below the
agent timeout), `IngestionAssumption` (`NoDocument` is no upload, the
environment's switches are Boolean), `CapabilitiesAssumption` (no id is no
call's, "none" is no status), `PgAssumption` (every request is of an operation there is),
`PanelAssumption` ("no document" is no upload, and the failed documents the page finds are
of different files), `SyntaxAssumption` (CR is not LF, and
neither is a line) and `ChatAssumption` (no event is a symbol of the
syntax, a stream is a sequence of kinds the service sends). Theorems without a hypothesis assume nothing else of the
environment: turns and uploads overlap or not, fail or not.

Some properties are true only of a restricted use, as section 3 shows, and their
theorems name it: `~Overlapping` (the turns of a conversation, the uploads of a
file, take turns), `Abandonable = {}` (browsers stay to the end of their turns),
`~Faulty` (database operations do not fail), `~Crashing`, `SerialCallers`. The
code enforces none of these; they describe one tab, one upload of a file at a
time, or the callers the code has. Every theorem needs all of its own: the table of section 3
has, for each, a counterexample to the property without it.
(`UploadPanel` composes the panel with an `Ingestion` whose uploads may overlap, without
database faults and restarts, so its theorems are of that.)

**The gate** (`ApprovalGateProofs`)

- `Invariance`: `Spec => [](TypeOK /\ GateInv)`. None of the gate's safety
  properties is inductive: that an approval in the row is the user's needs to
  know, while `check` waits, that what the future holds is what the route
  acknowledged, and, while it records, that its local decision is
  `EXPIRED` or acknowledged. `GateInv` is that knowledge per control point
  (`CallInv`); the proof has one step per action and uses typing for the
  function updates. Typing in turn needs `CallInv` at `Wake`, where `decision`
  takes the future's value.
- `TypesKept`, `WritesHaveConsent`, `AuditIsTruthful`, `PendingIsWaiting`: the properties of
  the `gate` run, consequences of `GateInv`.
- `GateImplementsLedger`: every step of the gate is a step of `ConsentLedger`
  or leaves its variables alone, under the mapping row to `ledger`, `acked` to
  `answers`, writes that ran to `performed`.

**The service** (`AgentTurnsProofs`)

- The lemma `Simulation`: a step of the service is a step of the gate or leaves it
  alone, as the module composes it from the gate's actions. With it the gate's invariant
  carries over: the module instantiates `ApprovalGateProofs` with turns as queues and
  uses its lemmas instead of proving them again.
- `Invariance`: `Spec => [](TypeOK /\ Gate!GateInv /\ TurnsInv)`. Typing needs
  `TurnsInv` (a pump that runs has a client to read from) and `TurnsInv` needs
  typing. Its core is ownership of clients: while a turn connects a client,
  no other turn and no conversation has it; a registered client belongs to one
  conversation, and every turn that has it is of that conversation. Only with that
  does dropping *the conversation's* client drop the one the turn failed on.
- `ConsentReachesUser`, `TurnsCleanUp`, `FailureDropsClient`: the safety properties
  of `turns_consent` and `turns_overlap`, and `TypesKept` and
  `TurnsStayConsistent` for typing and `TurnsInv` themselves.
- `RequestsReachStreams`: an approval that is waited for is known to the browser of the
  turn it was asked on, or on that turn's queue, or that turn's stream is over. It relies on the
  queue being made once, before the pump starts, on `chat` taking events off it only to yield
  them, and on `check` putting its request there in the pass it begins to wait in.
- `NoticeStaysDue` (`Abandonable = {}`; turns may overlap): `NoticeInv` says
  where a notice that is owed is remembered: in `restarted`, or by a turn that has
  taken the flag and is connecting or starting. A turn of another tab may take the flag;
  it then says it.
- `RefusalsHaveNoStream` (`~Overlapping`; browsers may go away): with one turn
  in progress per conversation, the binding of the conversation is that turn's
  for as long as it streams (`BoundInv`), so `check` finds it.
- `SerialInvariance` (both), and from it `SessionsAreSingle` and `AnswersAreTheTurns`.
  That a reply answers its own turn is far from inductive: the stream of a client
  is shared by all turns of a conversation. `SerialInv` is the argument for
  why leftovers cannot be there: one turn in progress at a time (`OneAtATime`); the
  conversation has the turn's client from starting to closing, unless the turn
  failed (`KeepsInv`); a live client belongs to one conversation, or is being
  dropped (`SessionInv`); while a turn is under way its client is silent, or holds
  the work and the replies of that turn alone, the result last (`StreamInv`); between
  turns a conversation's client has nothing left to say (`IdleInv`); and a turn's
  queue holds only its own events, the end marker after the pump's last (`ShownInv`).
  The pump stops at the result, which is why nothing is left when a turn ends
  well; a turn that ends badly drops the client with whatever it had.

**The timers** (`TurnClockProofs`): `ClockInvariance` and `ApprovalExpiresFirst`.
The gap timer never counts more than the time since the ask (`gap <= spent`), so
an approval with the smaller timeout expires first, however slow the browser is
to take the request.

**Ingestion** (`IngestionProofs`): `Invariance` of typing and `IngestInv`, and from it
`OneDocument`, `BytesAreThere` and `StoredIsTruthful`. `IngestInv` says what an
upload knows at each await: it retries only a document that exists, its
bytes are stored before its row is added, its credentials before the document
is marked stored. A fault or a restart only loses control points, never
one of these facts. `TypesKept` is its typing.

For uploads that take turns on a file, without database faults
(`~Overlapping`, `~Faulty`; restarts included), `SerialInvariance` adds `SerialInv`:
no two uploads of a file are under way (`Alone`), an upload knows the
status and the number of credentials of its document at each await (`KnowsInv`), and a
document's status says what credentials it has (`CountInv`). One upload disturbs
no other (`OwnStep`), and each step changes one document's status along the
flow, or its credentials from none to one batch, or nothing (`DocumentStep`). From these:

- `FailureStoresNothing` and `StatusFollowsFlow` (an action property).
- `IngestionImplementsOnce`: each of the three kinds of `DocumentStep` is a
  step of `IngestOnce` on the file of the document, or changes nothing it sees.
  The mapping (`Life`, `Batches`) is over the documents of a file, of which
  there is one (`OneDocumentPerFile`, from `IngestInv`).

`NothingOrphaned` (`~Faulty`, `~Crashing`) does not need the uploads to take turns. It is
inductive beside `IngestInv` and `NewInv`: an upload that has not added its row has
none, so that the one which loses the race for the file (`AddConflicts`), and ends without
recording anything, leaves nothing behind.

**The upload panel** (`UploadPanelProofs`): `Invariance` and `SavedIsShownTruly`. The
module instantiates `IngestionProofs` and uses its lemmas, those that hold although uploads
overlap: the panel does not make its uploads of a file take turns. Three facts carry the proof. A
stored document has credentials (`StoredHasCredentials`), so whoever reads `stored`, a poll or
the route on its lookup, reads it of a document that has them. Credentials are never
taken back (`CredsStay`), so that stays true however late the response is (`PollInv`,
`PostInv`), whatever another pipeline does to the status. And a poll reads them second, so it
brings them with it.

**The tools** (`CapabilitiesProofs`): `Invariance` of typing and `CapsInv`, and
from it `TypesKept`, `WritesAreApproved`, `ReportsAreTrue` and `HistoryKept`,
the first three safety properties of the `capabilities` run. `CapsInv` is, per
call, what its control point says of its arguments (`StageInv`: which tool can
be at which await, and that a write past `asked` was approved), of the
application it updates (`TargetInv`: it exists, and belongs to a call that has
ended), and of the rows it has written so far (`RowsInv`: none before its await,
the facts the loop has done), and of what a call that got so far must have
written (`DoneInv`: an update setting the status has its event already).
`HistoryInv` is `StatusHasHistory`, which is inductive only with these. Events and facts are
seen as the sets of what was appended, so that the only facts about sequences
are those of `Append`. Typing needs `CapsInv` (an event's status is a status only
if the call that logs it was given one) and conversely; one lemma per action
proves both.

`StatusFollowsEvents` proves `StatusIsLastEvent` with one more invariant: for an
application none of whose updates overlapped or broke off, at most one update has
logged its event and not yet set the status; the last event has the status of that
update or, when there is none, of the application (`LastInv`).

**The repositories** (`PgRepositoriesProofs`, `SerialCallers`): `Invariance` and
`TransactionsLookAtomic`, that `PgRepositories` implements `Repositories`: a
call that is open is, to the mapping, not made yet; it is made, answered and has its
effect on the rows when it ends. The proof needs that the answer and the columns computed from what a
transaction *loaded* are those of an atomic call on the rows as they are at its *commit*.
`LoadedInv` is that: the row a status update loaded, or an approval a `decide` found
undecided, has not changed. Every operation is shown to disturb only the row it
names (`RowsAfter`), and no two open calls update the same (`TurnsInv`). For
messages, `LastInv` and `BeganInv` say that an open `add_message` began after
all messages of its conversation, so that history sorted by the time of the
transaction's start is history in the order of commits.

**The chat page** (`ChatPageProofs`), for any number of tabs, turns, events, pings, reloads
and lost connections, in steps:

- *The reader.* `Only` and `Split` are recursive functions over a sequence, and the
  theorems are about streams of any length. The library's induction takes the property as
  an operator, which the provers cannot instantiate; here it is a *set*: `Least` is the least element
  of a set of naturals (`WFMin` on `NatLessThanWellFounded`), and from it `Induct`,
  `SeqInduct` and `SplitInduct` say that a set of numbers, of sequences or of byte strings
  that is closed under a step has all of them. With these `Only` is what its recursion builds
  (`OnlyExists`) and distributes over concatenation, and `Split` takes off one frame and goes on
  with the rest.
- `EventsLaw`: cut bytes in two anywhere, and the events of the first part, and then of what
  it leaves (`Incomplete`) followed by the second, are those of the whole. The hard case is a cut inside a
  separator or a CR LF: what looked like text, or like a shorter line end, becomes part of a frame's end,
  but no frame's end that was complete moves.
- `NothingIsLost`: `NothingLostInStream` is inductive beside typing (`TypeInv`, `PageInv`) and
  one more fact, that the bytes on their way, after what the reader kept, end with a frame
  (`StreamInv`); the next frame then adds its own event and no other. `Read` is `EventsLaw`.
- `AnswersAreStoredWhole`: per state of the route, what of the turn is in the history
  (`StoredInv`); only `Close`, and only with nothing left to send, adds the answer.
- `PageShowsWhatIsStored`: `ShownIsStored` needs to know of the turn a page *reads* that it comes after all
  the turns the page has read to their end, on the page and in the history
  (`OrderInv`); then, when it is read to its end too, what it appended in both places is the
  same (`StreamInv` with nothing left, `StoredInv`). A history that arrives late
  is shown only on a page that has sent nothing yet; turns of other tabs may be in between, and
  `Only` leaves them out.
- `Invariance` of `DecisionInv` and `AcceptedAnswerIsShown`. A card that says
  something is never decided again, so a request under way and an answer the gate took both
  say what the card says.

Only model-checked:

- Liveness (`CheckEnds`, `TurnEnds`, `UploadsSettle`, `PanelSettles`): TLAPS does not
  reach liveness under fairness.
- `IngestedOnce`, which is the property the code does not keep (`ingest_double`).

The largest of the invariants that no run checks (`SerialInv` and `NoticeInv` of
the turns, `LastInv` of the tools, `StreamInv` and `OrderInv` of the chat) were
model-checked on the instances of the runs before they were proved.

## 6. What the models leave out

- Payloads: intents, texts, credentials, costs and log lines. A reply is at
  most one text and its result; what a turn streams is the set of events.
- Time, outside `TurnClock`: elsewhere a timer may fire whenever it is running.
- A response that does not reach the user is not told apart from one that does:
  `acked` is what the route answered.
- The SDK is modelled from how the service uses it (in-order answers, callbacks
  cancelled by `disconnect`, leftovers stay in the stream). A CLI that exits
  cleanly in the middle of a reply ends the turn with neither result nor
  error; the model has it (`ReceiveStops`), no property forbids it.
- A refusal whose audit write fails leaves its entry in `_pending`
  (`approvals.py` 64-65). Nobody was shown its id, so nothing can reach it:
  `PendingIffWaiting` speaks of the approvals the user was asked about.
- In the page, a turn has one approval, and a commit that took effect while its reply
  failed is not told apart from one that failed.
- Which application a prompt names: `WritesAsApproved` compares the kind of write the
  prompt names with the kind that is carried out, not the company and title in the prompt
  with those of the application that is then updated.
- The database connection pool's limit and the engine; `MemoryBlobStore`, whose
  operations never meet; `ensure_default_candidate`, which runs once at startup.
- In the tools: texts, prompts, parsing and excerpts. A model's answer parses,
  does not, or does not come.
- In the page: which bubble a text is added to, how a message is rendered,
  React's double effects in development, the wording of errors.
- In the repositories: columns that no operation tests; the order of lists
  whose callers do not use it.

**Not modelled**, with the reason: `CapabilityContext` (a holder set once before
any request), startup and health (wiring and a probe; `shutdown` is in
`AgentTurns`), prompts and configuration (text and settings; the timeouts are
constants of `TurnClock`), migrations, scripts and styles (no protocol; the
constraints are in `PgRepositories`). Partly modelled: the turn timers (one tool
call at a time; the engine's and the SDK's own timeouts are not timed) and the
database plumbing (sessions and constraints, not the engine and its pool).

## 7. Plan

Done: `ApprovalGate` with `ConsentLedger`, `AgentTurns`, `TurnClock`,
`Ingestion` with `IngestOnce`, `Capabilities`, `PgRepositories` with
`Repositories`, `UploadPanel` with `Ingestion`, `ChatPage` with `ConsentLedger`
and `SseReader`; their runs, and the proofs of section 5.

What could come next:

1. Proofs: what is left of `SerialInv` of the turns with browsers that go away while
   they do not disconnect a client, and of ingestion's with faults; the liveness properties,
   once the prover reaches them.
2. A run of the chat with two tabs, once its state is small enough; its theorems
   are of any number.
3. `validate_upload` over the kinds of bytes and names it tells apart.

## 8. Running

    tlc -workers 2 -config MCApprovalGate.cfg MCApprovalGate
    tlapm AgentTurnsProofs.tla
    tlapm PgRepositoriesProofs.tla

The longest runs (`panel` and `turns_one_tab`) take some two minutes.
The proofs of the chat take some five minutes, the others less.
