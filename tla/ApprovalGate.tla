---------------------------- MODULE ApprovalGate ----------------------------
(***************************************************************************)
(* backend/app/agent/approvals.py with the two repository operations it    *)
(* awaits (repositories/postgres.py, PgApprovalRepository) and the route   *)
(* that resolves an approval (routes/approvals.py).                        *)
(*                                                                         *)
(* One process per tool call: ApprovalGate.check is a coroutine, and every *)
(* await of it is a control point of pc, so that other coroutines, the     *)
(* timer of asyncio.wait_for and the database come in between.             *)
(*                                                                         *)
(*   idle -> creating -> created -> waiting -> recording -> recorded ->    *)
(*                          |        allowed | denied                      *)
(*                          +-> refusing -> refused -> denied              *)
(*                                                                         *)
(* "creating", "refusing" and "recording" await a transaction not yet      *)
(* committed; "created", "refused" and "recorded" await the coroutine's    *)
(* resumption after the commit.  raised: a database error left check.      *)
(* cancelled: the coroutine was cancelled, or its process is gone.  ran:   *)
(* the SDK ran the tool after the gate allowed it.                         *)
(***************************************************************************)
CONSTANTS Calls,            \* tool calls the agent makes
          Writes,           \* those for which write_intent returns an intent
          Conversations,
          Queues,           \* event queues, one per chat turn
          ConversationOf,   \* the conversation of each call
          NoQueue

ASSUME GateAssumption ==
  /\ Writes \subseteq Calls
  /\ ConversationOf \in [Calls -> Conversations]
  /\ NoQueue \notin Queues

VARIABLES pc,        \* pc[c]: where check(c) is
          row,       \* row[c]: the decision column of c's audit row
          pending,   \* the keys of ApprovalGate._pending
          future,    \* future[c]: state of the asyncio future of c
          timedOut,  \* calls whose wait_for timer fired before they woke up
          decision,  \* decision[c]: the local variable of check
          asked,     \* asked[c]: the queue that got c's approval_request
          queues,    \* ApprovalGate._queues
          acked      \* acked[c]: decisions the route answered "ok" to

vars == <<pc, row, pending, future, timedOut, decision, asked, queues, acked>>

APPROVED == "approved"
DENIED == "denied"
EXPIRED == "expired"
UserDecisions == {APPROVED, DENIED}
Decisions == UserDecisions \cup {EXPIRED}

\* Control points at which check is suspended in an await.
InFlight == {"creating", "created", "refusing", "refused",
             "waiting", "recording", "recorded"}
\* Control points after check has returned, raised or been cancelled.
Ended == {"allowed", "denied", "raised", "cancelled", "ran"}

QueueOf(c) == queues[ConversationOf[c]]

Goto(c, from, to) ==
  /\ pc[c] = from
  /\ pc' = [pc EXCEPT ![c] = to]

Init ==
  /\ pc = [c \in Calls |-> "idle"]
  /\ row = [c \in Calls |-> "none"]
  /\ pending = {}
  /\ future = [c \in Calls |-> "none"]
  /\ timedOut = {}
  /\ decision = [c \in Calls |-> "none"]
  /\ asked = [c \in Calls |-> NoQueue]
  /\ queues = [v \in Conversations |-> NoQueue]
  /\ acked = [c \in Calls |-> {}]

-----------------------------------------------------------------------------
(* The chat turn's side: bind and unbind.                                  *)

Bind(v, q) ==
  /\ queues' = [queues EXCEPT ![v] = q]
  /\ UNCHANGED <<pc, row, pending, future, timedOut, decision, asked, acked>>

Unbind(v) ==
  /\ queues' = [queues EXCEPT ![v] = NoQueue]
  /\ UNCHANGED <<pc, row, pending, future, timedOut, decision, asked, acked>>

-----------------------------------------------------------------------------
(* check: the first step, and the audit row.                               *)

StartRead(c) ==
  /\ c \notin Writes
  /\ Goto(c, "idle", "allowed")
  /\ UNCHANGED <<row, pending, future, timedOut, decision, asked, queues, acked>>

StartWrite(c) ==
  /\ c \in Writes
  /\ Goto(c, "idle", "creating")
  /\ UNCHANGED <<row, pending, future, timedOut, decision, asked, queues, acked>>

CreateCommits(c) ==
  /\ Goto(c, "creating", "created")
  /\ row' = [row EXCEPT ![c] = "open"]
  /\ UNCHANGED <<pending, future, timedOut, decision, asked, queues, acked>>

\* PgApprovalRepository.decide writes only a row that has no decision yet.
DecideRow(c, d) ==
  row' = [row EXCEPT ![c] = IF @ = "open" THEN d ELSE @]

\* A database call that fails, or whose commit was acknowledged too late,
\* leaves check as an exception; only wait_for is inside a try.
DatabaseFails(c) ==
  /\ pc[c] \in InFlight \ {"waiting"}
  /\ pc' = [pc EXCEPT ![c] = "raised"]
  /\ UNCHANGED <<row, pending, future, timedOut, decision, asked, queues, acked>>

-----------------------------------------------------------------------------
(* check: asking the user.  From the resumption after create to the next   *)
(* await there is no suspension point (put on an unbounded queue does not  *)
(* suspend), so registering the future and asking is one step.             *)

Register(c) ==
  /\ pending' = pending \cup {c}
  /\ future' = [future EXCEPT ![c] = "waiting"]

Ask(c) ==
  /\ QueueOf(c) # NoQueue
  /\ Goto(c, "created", "waiting")
  /\ Register(c)
  /\ asked' = [asked EXCEPT ![c] = QueueOf(c)]
  /\ UNCHANGED <<row, timedOut, decision, queues, acked>>

AskNobody(c) ==
  /\ QueueOf(c) = NoQueue
  /\ Goto(c, "created", "refusing")
  /\ Register(c)
  /\ UNCHANGED <<row, timedOut, decision, asked, queues, acked>>

RefusalCommits(c) ==
  /\ Goto(c, "refusing", "refused")
  /\ DecideRow(c, DENIED)
  /\ UNCHANGED <<pending, future, timedOut, decision, asked, queues, acked>>

\* Mutant: the early return after the refusal is forgotten.
RefusalFallsThrough(c) ==
  /\ Goto(c, "refused", "waiting")
  /\ UNCHANGED <<row, pending, future, timedOut, decision, asked, queues, acked>>

RefusalReturns(c) ==
  /\ Goto(c, "refused", "denied")
  /\ pending' = pending \ {c}
  /\ UNCHANGED <<row, future, timedOut, decision, asked, queues, acked>>

-----------------------------------------------------------------------------
(* resolve, called by POST /api/approvals/{id}.  The user learns the id    *)
(* from the approval_request event, and may post again (a second tab, a    *)
(* double click, a retry).                                                 *)

\* Mutant: resolve does not look at future.done().
OutcomeNoDoneCheck(c) == IF c \in pending THEN "ok" ELSE "unknown"

Outcome(c) ==
  IF c \notin pending THEN "unknown"                  \* 404
  ELSE IF future[c] = "waiting" THEN "ok"
  ELSE "already_decided"                              \* 409

\* Mutant: the first answer wins in the reply but the last in the future.
ResolveLastWins(c, d) ==
  /\ asked[c] # NoQueue /\ c \in pending
  /\ future' = [future EXCEPT ![c] = d]
  /\ acked' = [acked EXCEPT ![c] = IF @ = {} THEN {d} ELSE @]
  /\ UNCHANGED <<pc, row, pending, timedOut, decision, asked, queues>>

\* Mutant: resolve also runs for an id that was never pending, and leaves
\* nothing in the future.
ResolveAnything(c, d) ==
  /\ asked[c] # NoQueue
  /\ future' = [future EXCEPT ![c] = Outcome(c)]
  /\ acked' = [acked EXCEPT ![c] = @ \cup {d}]
  /\ UNCHANGED <<pc, row, pending, timedOut, decision, asked, queues>>

Resolve(c, d) ==
  /\ asked[c] # NoQueue
  /\ Outcome(c) = "ok"
  /\ future' = [future EXCEPT ![c] = d]
  /\ acked' = [acked EXCEPT ![c] = @ \cup {d}]
  /\ UNCHANGED <<pc, row, pending, timedOut, decision, asked, queues>>

-----------------------------------------------------------------------------
(* check: the wait.  wait_for's timer cancels the task: a future that is   *)
(* still waiting becomes cancelled, while for one that already has its     *)
(* result the cancellation is delivered when the task runs, and wait_for   *)
(* turns either into TimeoutError.                                         *)

\* Mutant: the timer only counts while a stream is bound.
ExpireWhileBound(c) ==
  /\ pc[c] = "waiting" /\ c \notin timedOut /\ QueueOf(c) # NoQueue
  /\ timedOut' = timedOut \cup {c}
  /\ future' = [future EXCEPT ![c] = IF @ = "waiting" THEN "cancelled" ELSE @]
  /\ UNCHANGED <<pc, row, pending, decision, asked, queues, acked>>

Expire(c) ==
  /\ pc[c] = "waiting" /\ c \notin timedOut
  /\ timedOut' = timedOut \cup {c}
  /\ future' = [future EXCEPT ![c] = IF @ = "waiting" THEN "cancelled" ELSE @]
  /\ UNCHANGED <<pc, row, pending, decision, asked, queues, acked>>

\* Mutant: the finally clause that forgets the pending entry is missing.
WakeKeepsPending(c) ==
  /\ future[c] # "waiting"
  /\ Goto(c, "waiting", "recording")
  /\ decision' = [decision EXCEPT ![c] = IF c \in timedOut THEN EXPIRED ELSE future[c]]
  /\ UNCHANGED <<row, pending, future, timedOut, asked, queues, acked>>

Wake(c) ==
  /\ future[c] # "waiting"
  /\ Goto(c, "waiting", "recording")
  /\ decision' = [decision EXCEPT ![c] = IF c \in timedOut THEN EXPIRED ELSE future[c]]
  /\ pending' = pending \ {c}
  /\ UNCHANGED <<row, future, timedOut, asked, queues, acked>>

-----------------------------------------------------------------------------
(* check: recording the decision, and the result the SDK gets.             *)

RecordCommits(c) ==
  /\ Goto(c, "recording", "recorded")
  /\ DecideRow(c, decision[c])
  /\ UNCHANGED <<pending, future, timedOut, decision, asked, queues, acked>>

\* Mutant: only an explicit denial is treated as one.
ReturnsExpiredAllowed(c) ==
  /\ Goto(c, "recorded", IF decision[c] = DENIED THEN "denied" ELSE "allowed")
  /\ UNCHANGED <<row, pending, future, timedOut, decision, asked, queues, acked>>

Returns(c) ==
  /\ Goto(c, "recorded", IF decision[c] = APPROVED THEN "allowed" ELSE "denied")
  /\ UNCHANGED <<row, pending, future, timedOut, decision, asked, queues, acked>>

\* The SDK runs an allowed tool (for a write: the capability's body).
RunTool(c) ==
  /\ Goto(c, "allowed", "ran")
  /\ UNCHANGED <<row, pending, future, timedOut, decision, asked, queues, acked>>

-----------------------------------------------------------------------------
(* Failure.  The SDK client cancels its callbacks when it is disconnected: *)
(* the cancellation surfaces at whatever await check is in, and only the   *)
(* wait has a finally.  Restart: the process dies, the table survives.     *)

Cancel(c) ==
  /\ pc[c] \in InFlight \cup {"allowed"}
  /\ pc' = [pc EXCEPT ![c] = "cancelled"]
  /\ pending' = IF pc[c] = "waiting" THEN pending \ {c} ELSE pending
  /\ future' = [future EXCEPT ![c] =
                  IF pc[c] = "waiting" /\ @ = "waiting" THEN "cancelled" ELSE @]
  /\ UNCHANGED <<row, timedOut, decision, asked, queues, acked>>

Restart ==
  /\ pc' = [c \in Calls |->
              IF pc[c] \in InFlight \cup {"allowed"} THEN "cancelled" ELSE pc[c]]
  /\ pending' = {}
  /\ future' = [c \in Calls |-> "none"]
  /\ timedOut' = {}
  /\ queues' = [v \in Conversations |-> NoQueue]
  /\ UNCHANGED <<row, decision, asked, acked>>

-----------------------------------------------------------------------------
\* The steps of check itself and of what it awaits: the event loop runs
\* them, and the database engine's timeouts bound every one of them.
CheckStep(c) ==
  \/ CreateCommits(c) \/ DatabaseFails(c)
  \/ Ask(c) \/ AskNobody(c)
  \/ RefusalCommits(c) \/ RefusalReturns(c)
  \/ Expire(c) \/ Wake(c)
  \/ RecordCommits(c) \/ Returns(c)

CallNext(c) ==
  \/ StartRead(c) \/ StartWrite(c)
  \/ CheckStep(c)
  \/ \E d \in UserDecisions : Resolve(c, d)
  \/ RunTool(c)
  \/ Cancel(c)

Next ==
  \/ \E c \in Calls : CallNext(c)
  \/ \E v \in Conversations : Unbind(v) \/ \E q \in Queues : Bind(v, q)
  \/ Restart

Fairness == \A c \in Calls : WF_vars(CheckStep(c))

SafetySpec == Init /\ [][Next]_vars
Spec == SafetySpec /\ Fairness

-----------------------------------------------------------------------------
(* Properties.                                                             *)

\* Every variable stays in its domain.
TypeOK ==
  /\ pc \in [Calls -> {"idle"} \cup InFlight \cup Ended]
  /\ row \in [Calls -> {"none", "open"} \cup Decisions]
  /\ pending \subseteq Calls
  /\ future \in [Calls -> {"none", "waiting", "cancelled"} \cup UserDecisions]
  /\ timedOut \subseteq Calls
  /\ decision \in [Calls -> {"none"} \cup Decisions]
  /\ asked \in [Calls -> Queues \cup {NoQueue}]
  /\ queues \in [Conversations -> Queues \cup {NoQueue}]
  /\ acked \in [Calls -> SUBSET UserDecisions]

\* A write the agent performed was approved by the user, who got exactly one
\* "ok" for it, and the audit row already said so when it ran (approvals.py
\* 52-99; SPEC section 11: ask before any write).
ConsentBeforeWrite ==
  \A c \in Writes : pc[c] = "ran" => acked[c] = {APPROVED} /\ row[c] = APPROVED

\* What the route answered "ok" to and what the audit row says never
\* contradict each other: one answer at most is accepted, a recorded
\* approval is the user's, and a denial is not recorded over a yes
\* (approvals.py 80-87 against 101-109).
AuditAgreesWithAnswer ==
  \A c \in Calls :
    /\ acked[c] \in {{}, {APPROVED}, {DENIED}}
    /\ row[c] = APPROVED => acked[c] = {APPROVED}
    /\ row[c] = DENIED => APPROVED \notin acked[c]

\* An approval the user was asked about is pending exactly while its check is
\* waiting, so an "ok" always reaches a check that will act on it (approvals.py
\* 59, 65 and 85 against the lookup at 103).
PendingIffWaiting ==
  \A c \in Calls : asked[c] # NoQueue => (c \in pending <=> pc[c] = "waiting")

\* Every check that starts comes to an end, whatever the user does and
\* whether or not anyone is listening (approvals.py 81 and the database
\* engine's timeouts, db.py 25).
CheckEnds ==
  \A c \in Calls : pc[c] = "creating" ~> pc[c] \in Ended

\* The inductive invariant: what each control point of check knows about its
\* row, its pending entry, its future and the user's answer (approvals.py
\* 52-99 with 101-109); the properties above follow from it.
CallInv(c) ==
  /\ c \notin Writes => pc[c] \in {"idle", "allowed", "cancelled", "ran"}
  /\ pc[c] \in {"idle", "creating"} => row[c] = "none"
  /\ pc[c] \in {"created", "refusing", "waiting", "recording"} => row[c] = "open"
  /\ pc[c] \in {"idle", "creating", "created", "refusing", "refused"} => asked[c] = NoQueue
  /\ asked[c] = NoQueue => acked[c] = {}
  /\ pc[c] = "waiting" =>
       /\ asked[c] # NoQueue /\ c \in pending
       /\ future[c] # "none" /\ acked[c] = {future[c]} \cap UserDecisions
       /\ future[c] = "cancelled" => c \in timedOut
  /\ pc[c] # "waiting" => asked[c] = NoQueue \/ c \notin pending
  /\ pc[c] \in {"recording", "recorded"} =>
       decision[c] = EXPIRED \/ decision[c] \in acked[c]
  /\ pc[c] = "recorded" => row[c] = decision[c]
  /\ pc[c] \in {"allowed", "ran"} /\ c \in Writes => row[c] = APPROVED
  /\ row[c] = APPROVED => acked[c] = {APPROVED}
  /\ row[c] = DENIED => APPROVED \notin acked[c]
  /\ acked[c] \in {{}, {APPROVED}, {DENIED}}

GateInv == \A c \in Calls : CallInv(c)

\* The gate implements the consent ledger.
Ledger == INSTANCE ConsentLedger WITH
            ledger <- row, answers <- acked,
            performed <- {c \in Writes : pc[c] = "ran"}
ImplementsLedger == Ledger!LedgerSpec

\* An approval that the user answered in time is not recorded as expired
\* (ADR-0002, decision 5: "Unanswered approvals resolve to expired").
OnlyUnansweredExpire ==
  \A c \in Calls : row[c] = EXPIRED => acked[c] = {}
=============================================================================
