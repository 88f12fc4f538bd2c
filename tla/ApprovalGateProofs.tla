------------------------- MODULE ApprovalGateProofs -------------------------
(***************************************************************************)
(* Proofs about ApprovalGate, for every set of calls, conversations and    *)
(* queues.  TypeOK and GateInv together are inductive (Wake stays in the   *)
(* domain of decision only because a woken future has a result unless its  *)
(* timer fired); the safety properties the runs check, and the             *)
(* implementation of ConsentLedger, follow from them.                      *)
(***************************************************************************)
EXTENDS ApprovalGate, TLAPS

\* The gate starts well typed and with every call's invariant true.
LEMMA InitInv == Init => TypeOK /\ GateInv
  BY GateAssumption
  DEF Init, TypeOK, GateInv, CallInv, InFlight, Ended, Decisions, UserDecisions,
      APPROVED, DENIED, EXPIRED

\* A step of the gate keeps every variable in its domain.
LEMMA TypeStep == TypeOK /\ GateInv /\ [Next]_vars => TypeOK'
<1> SUFFICES ASSUME TypeOK, GateInv, [Next]_vars PROVE TypeOK'
  OBVIOUS
<1> USE DEF TypeOK, InFlight, Ended, Decisions, UserDecisions,
            APPROVED, DENIED, EXPIRED, Goto
<1>1. CASE UNCHANGED vars
  BY <1>1 DEF vars
<1>2. ASSUME NEW c \in Calls, CallNext(c) PROVE TypeOK'
  <2>1. CASE StartRead(c) \/ StartWrite(c)
    BY <2>1 DEF StartRead, StartWrite
  <2>2. CASE CreateCommits(c) \/ DatabaseFails(c)
    BY <2>2 DEF CreateCommits, DatabaseFails
  <2>3. CASE Ask(c)
    BY <2>3, GateAssumption DEF Ask, Register, QueueOf
  <2>4. CASE AskNobody(c)
    BY <2>4 DEF AskNobody, Register
  <2>5. CASE RefusalCommits(c) \/ RefusalReturns(c)
    BY <2>5 DEF RefusalCommits, RefusalReturns, DecideRow
  <2>6. ASSUME NEW d \in UserDecisions, Resolve(c, d) PROVE TypeOK'
    BY <2>6 DEF Resolve
  <2>7. CASE Expire(c)
    BY <2>7 DEF Expire
  <2>8. CASE Wake(c)
    <3>1. c \in timedOut \/ future[c] \in UserDecisions
      BY <2>8 DEF Wake, GateInv, CallInv
    <3> QED
      BY <2>8, <3>1 DEF Wake
  <2>9. CASE RecordCommits(c) \/ Returns(c)
    <3>1. pc[c] = "recording" => decision[c] \in Decisions
      BY DEF GateInv, CallInv
    <3> QED
      BY <2>9, <3>1 DEF RecordCommits, Returns, DecideRow
  <2>10. CASE RunTool(c) \/ Cancel(c)
    BY <2>10 DEF RunTool, Cancel
  <2> QED
    BY <1>2, <2>1, <2>2, <2>3, <2>4, <2>5, <2>6, <2>7, <2>8, <2>9, <2>10
    DEF CallNext, CheckStep
<1>3. ASSUME NEW v \in Conversations, Unbind(v) \/ \E q \in Queues : Bind(v, q)
      PROVE  TypeOK'
  BY <1>3 DEF Bind, Unbind
<1>4. CASE Restart
  BY <1>4 DEF Restart
<1> QED
  BY <1>1, <1>2, <1>3, <1>4 DEF Next

\* A step of the gate keeps the invariant of every call: that of the call
\* that steps, and trivially that of the others.
LEMMA GateStep == TypeOK /\ GateInv /\ [Next]_vars => GateInv'
<1> SUFFICES ASSUME TypeOK, GateInv, [Next]_vars, NEW b \in Calls
             PROVE  CallInv(b)'
  BY DEF GateInv
<1>0. CallInv(b)
  BY DEF GateInv
<1> USE DEF TypeOK, CallInv, InFlight, Decisions, UserDecisions,
            APPROVED, DENIED, EXPIRED, Goto
<1>1. CASE UNCHANGED vars
  BY <1>0, <1>1 DEF vars
<1>2. ASSUME NEW c \in Calls, CallNext(c) PROVE CallInv(b)'
  <2>1. CASE StartRead(c) \/ StartWrite(c)
    BY <1>0, <2>1 DEF StartRead, StartWrite
  <2>2. CASE CreateCommits(c)
    BY <1>0, <2>2 DEF CreateCommits
  <2>3. CASE DatabaseFails(c)
    BY <1>0, <2>3 DEF DatabaseFails
  <2>4. CASE Ask(c)
    BY <1>0, <2>4, GateAssumption DEF Ask, Register, QueueOf
  <2>5. CASE AskNobody(c)
    BY <1>0, <2>5 DEF AskNobody, Register
  <2>6. CASE RefusalCommits(c)
    BY <1>0, <2>6 DEF RefusalCommits, DecideRow
  <2>7. CASE RefusalReturns(c)
    BY <1>0, <2>7 DEF RefusalReturns
  <2>8. ASSUME NEW d \in UserDecisions, Resolve(c, d) PROVE CallInv(b)'
    <3>0. asked[c] # NoQueue /\ c \in pending /\ future[c] = "waiting"
      BY <2>8 DEF Resolve, Outcome
    <3>1. pc[c] = "waiting" /\ future[c] = "waiting" /\ acked[c] = {}
      BY <3>0 DEF GateInv
    <3>2. acked' = [acked EXCEPT ![c] = {d}]
      BY <2>8, <3>1 DEF Resolve
    <3>3. future' = [future EXCEPT ![c] = d]
      BY <2>8 DEF Resolve
    <3>4. UNCHANGED <<pc, row, pending, timedOut, decision, asked>>
      BY <2>8 DEF Resolve
    <3>5. CASE b = c
      BY <1>0, <3>1, <3>2, <3>3, <3>4, <3>5
    <3>6. CASE b # c
      BY <1>0, <3>2, <3>3, <3>4, <3>6
    <3> QED
      BY <3>5, <3>6
  <2>9. CASE Expire(c)
    BY <1>0, <2>9 DEF Expire
  <2>10. CASE Wake(c)
    BY <1>0, <2>10 DEF Wake
  <2>11. CASE RecordCommits(c)
    BY <1>0, <2>11 DEF RecordCommits, DecideRow
  <2>12. CASE Returns(c)
    BY <1>0, <2>12 DEF Returns
  <2>13. CASE RunTool(c)
    BY <1>0, <2>13 DEF RunTool
  <2>14. CASE Cancel(c)
    BY <1>0, <2>14 DEF Cancel
  <2> QED
    BY <1>2, <2>1, <2>2, <2>3, <2>4, <2>5, <2>6, <2>7, <2>8, <2>9, <2>10,
       <2>11, <2>12, <2>13, <2>14
    DEF CallNext, CheckStep
<1>3. ASSUME NEW v \in Conversations, Unbind(v) \/ \E q \in Queues : Bind(v, q)
      PROVE  CallInv(b)'
  BY <1>0, <1>3 DEF Bind, Unbind
<1>4. CASE Restart
  BY <1>0, <1>4 DEF Restart
<1> QED
  BY <1>1, <1>2, <1>3, <1>4 DEF Next

\* The typing and the invariant of every call hold in every reachable state.
THEOREM Invariance == Spec => [](TypeOK /\ GateInv)
<1>1. Init => TypeOK /\ GateInv
  BY InitInv
<1>2. TypeOK /\ GateInv /\ [Next]_vars => (TypeOK /\ GateInv)'
  BY TypeStep, GateStep
<1> QED
  BY <1>1, <1>2, PTL DEF Spec, SafetySpec

\* Types: every variable of the gate stays in its domain.
THEOREM TypesKept == Spec => []TypeOK
BY Invariance, PTL

-----------------------------------------------------------------------------
\* A write the agent performed was approved by the user, in an answer the
\* route accepted, and its audit row said so before it ran.
THEOREM WritesHaveConsent == Spec => []ConsentBeforeWrite
<1>1. TypeOK /\ GateInv => ConsentBeforeWrite
  BY GateAssumption DEF GateInv, CallInv, ConsentBeforeWrite
<1> QED
  BY <1>1, Invariance, PTL

\* The audit table and the replies of the route never contradict each other.
THEOREM AuditIsTruthful == Spec => []AuditAgreesWithAnswer
<1>1. TypeOK /\ GateInv => AuditAgreesWithAnswer
  BY DEF GateInv, CallInv, AuditAgreesWithAnswer
<1> QED
  BY <1>1, Invariance, PTL

\* An approval shown to the user is pending exactly while its check waits.
THEOREM PendingIsWaiting == Spec => []PendingIffWaiting
<1>1. TypeOK /\ GateInv => PendingIffWaiting
  BY DEF GateInv, CallInv, PendingIffWaiting
<1> QED
  BY <1>1, Invariance, PTL

-----------------------------------------------------------------------------
(* The gate implements the consent ledger: a simulation, step by step.     *)

\* The initial states of the gate are initial states of the ledger.
LEMMA LedgerInit == Init => Ledger!LedgerInit
<1> SUFFICES ASSUME Init PROVE Ledger!LedgerInit
  OBVIOUS
<1>1. {c \in Writes : pc[c] = "ran"} = {}
  BY GateAssumption DEF Init
<1> QED
  BY <1>1 DEF Init, Ledger!LedgerInit

\* A step that leaves the rows, the answers and the set of tools that ran
\* alone is a stutter of the ledger.
LEMMA LedgerStutter ==
  ASSUME row' = row, acked' = acked,
         \A b \in Writes : pc'[b] = "ran" <=> pc[b] = "ran"
  PROVE  UNCHANGED Ledger!ledgerVars
  BY DEF Ledger!ledgerVars

\* A step of one call is a step of the ledger on that call, or a stutter.
LEMMA CallSimulation ==
  ASSUME TypeOK, GateInv, NEW c \in Calls, CallNext(c)
  PROVE  [Ledger!LedgerNext]_(Ledger!ledgerVars)
<1>0. CallInv(c)
  BY DEF GateInv
<1> USE GateAssumption DEF TypeOK, Goto
<1>1. CASE CreateCommits(c)
  <2>1. Ledger!Open(c)
    BY <1>0, <1>1 DEF CreateCommits, CallInv, Ledger!Open
  <2> QED
    BY <2>1 DEF Ledger!LedgerNext
<1>2. CASE RefusalCommits(c)
  <2>1. Ledger!Close(c, DENIED)
    BY <1>0, <1>2 DEF RefusalCommits, DecideRow, CallInv, Ledger!Close, APPROVED, DENIED
  <2> QED
    BY <2>1 DEF Ledger!LedgerNext, Ledger!Answers, DENIED
<1>3. CASE RecordCommits(c)
  <2>1. decision[c] \in Decisions
    BY <1>0, <1>3 DEF RecordCommits, CallInv, Decisions, UserDecisions
  <2>2. Ledger!Close(c, decision[c])
    BY <1>0, <1>3 DEF RecordCommits, DecideRow, CallInv, Ledger!Close,
                     APPROVED, DENIED, EXPIRED
  <2> QED
    BY <2>1, <2>2 DEF Ledger!LedgerNext, Ledger!Answers, Decisions, UserDecisions,
                     APPROVED, DENIED, EXPIRED
<1>4. ASSUME NEW d \in UserDecisions, Resolve(c, d)
      PROVE  Ledger!LedgerNext
  <2>1. asked[c] # NoQueue /\ c \in pending /\ future[c] = "waiting"
    BY <1>4 DEF Resolve, Outcome
  <2>2. pc[c] = "waiting" /\ row[c] = "open" /\ acked[c] = {}
    BY <1>0, <2>1 DEF CallInv, UserDecisions, APPROVED, DENIED
  <2>3. Ledger!Answer(c, d)
    BY <1>4, <2>2 DEF Resolve, Ledger!Answer
  <2> QED
    BY <2>3 DEF Ledger!LedgerNext, Ledger!Answers, UserDecisions, APPROVED, DENIED
<1>5. CASE RunTool(c) /\ c \in Writes
  <2>1. row[c] = "approved" /\ pc[c] = "allowed"
    BY <1>0, <1>5 DEF RunTool, CallInv, APPROVED
  <2>2. Ledger!Perform(c)
    BY <1>5, <2>1 DEF RunTool, Ledger!Perform
  <2> QED
    BY <2>2 DEF Ledger!LedgerNext
<1>6. CASE RunTool(c) /\ c \notin Writes
  BY <1>6, LedgerStutter DEF RunTool
<1>7. CASE StartRead(c) \/ StartWrite(c)
  BY <1>7, LedgerStutter DEF StartRead, StartWrite
<1>8. CASE DatabaseFails(c) \/ Cancel(c)
  BY <1>8, LedgerStutter DEF DatabaseFails, Cancel, InFlight
<1>9. CASE Ask(c) \/ AskNobody(c) \/ RefusalReturns(c)
  BY <1>9, LedgerStutter DEF Ask, AskNobody, RefusalReturns
<1>10. CASE Expire(c) \/ Wake(c) \/ Returns(c)
  BY <1>10, LedgerStutter DEF Expire, Wake, Returns
<1> QED
  BY <1>1, <1>2, <1>3, <1>4, <1>5, <1>6, <1>7, <1>8, <1>9, <1>10
  DEF CallNext, CheckStep

\* The detailed gate, with its futures, timers, database faults and restarts,
\* implements the consent ledger: rows open once, are answered at most once,
\* close once, and only an approved row lets a write happen, once.
THEOREM GateImplementsLedger == Spec => ImplementsLedger
<1>1. TypeOK /\ GateInv /\ [Next]_vars => [Ledger!LedgerNext]_(Ledger!ledgerVars)
  <2> SUFFICES ASSUME TypeOK, GateInv, [Next]_vars
               PROVE  [Ledger!LedgerNext]_(Ledger!ledgerVars)
    OBVIOUS
  <2>1. CASE UNCHANGED vars
    BY <2>1, LedgerStutter DEF vars
  <2>2. ASSUME NEW v \in Conversations, Unbind(v) \/ \E q \in Queues : Bind(v, q)
        PROVE  UNCHANGED Ledger!ledgerVars
    BY <2>2, LedgerStutter DEF Bind, Unbind
  <2>3. CASE Restart
    BY <2>3, GateAssumption, LedgerStutter DEF Restart, TypeOK, InFlight
  <2> QED
    BY <2>1, <2>2, <2>3, CallSimulation DEF Next
<1> QED
  BY <1>1, LedgerInit, Invariance, PTL
  DEF Spec, SafetySpec, ImplementsLedger, Ledger!LedgerSpec
=============================================================================
