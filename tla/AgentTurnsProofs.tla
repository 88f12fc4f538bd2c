-------------------------- MODULE AgentTurnsProofs --------------------------
(***************************************************************************)
(* Proofs about AgentTurns for any number of turns, tool calls, clients    *)
(* and conversations, any of which may overlap, be abandoned or die.  The  *)
(* service's steps are steps of the gate, so that the gate's invariant     *)
(* carries over from ApprovalGateProofs; TurnsInv is proved beside it,     *)
(* from the typing, and the properties the runs check follow from both.    *)
(* The sections after that are about turns that do not overlap, or whose   *)
(* browsers stay: the notice of a restart, the replies, the sessions, and  *)
(* the queue a turn is bound to.                                           *)
(***************************************************************************)
EXTENDS AgentTurns, SequenceTheorems, TLAPS

GateProofs == INSTANCE ApprovalGateProofs WITH
                Queues <- Turns, NoQueue <- NoTurn,
                ConversationOf <- [c \in Calls |-> ConvOf[TurnOf[c]]]

\* The service gives the gate what it assumes.
LEMMA GateAssumed == GateProofs!GateAssumption
  BY TurnsAssumption DEF GateProofs!GateAssumption

\* GateProofs and AgentTurns!Gate instantiate the same module: what one says
\* of its initial states, the other does.
LEMMA SameInit == Gate!Init <=> GateProofs!Init
  BY DEF Gate!Init, GateProofs!Init

\* The same of its typing and of its inductive invariant.
LEMMA SameInv ==
  Gate!TypeOK /\ Gate!GateInv <=> GateProofs!TypeOK /\ GateProofs!GateInv
<1>1. Gate!TypeOK <=> GateProofs!TypeOK
  BY DEF Gate!TypeOK, Gate!InFlight, Gate!Ended, Gate!Decisions, Gate!UserDecisions,
         Gate!APPROVED, Gate!DENIED, Gate!EXPIRED,
         GateProofs!TypeOK, GateProofs!InFlight, GateProofs!Ended,
         GateProofs!Decisions, GateProofs!UserDecisions,
         GateProofs!APPROVED, GateProofs!DENIED, GateProofs!EXPIRED
<1>2. Gate!GateInv <=> GateProofs!GateInv
  BY DEF Gate!GateInv, Gate!CallInv, Gate!UserDecisions,
         Gate!APPROVED, Gate!DENIED, Gate!EXPIRED,
         GateProofs!GateInv, GateProofs!CallInv, GateProofs!UserDecisions,
         GateProofs!APPROVED, GateProofs!DENIED, GateProofs!EXPIRED
<1> QED
  BY <1>1, <1>2

\* The same of its steps.
LEMMA SameStep == [Gate!Next]_(Gate!vars) <=> [GateProofs!Next]_(GateProofs!vars)
  BY Zenon
  DEF Gate!vars, Gate!Next, Gate!Restart, Gate!Bind, Gate!Unbind, Gate!CallNext,
      Gate!StartRead, Gate!StartWrite, Gate!CheckStep, Gate!CreateCommits,
      Gate!DatabaseFails, Gate!Ask, Gate!AskNobody, Gate!Register,
      Gate!RefusalCommits, Gate!RefusalReturns, Gate!DecideRow, Gate!Resolve,
      Gate!Outcome, Gate!Expire, Gate!Wake, Gate!RecordCommits, Gate!Returns,
      Gate!RunTool, Gate!Cancel, Gate!QueueOf, Gate!Goto, Gate!InFlight,
      Gate!UserDecisions, Gate!APPROVED, Gate!DENIED, Gate!EXPIRED,
      GateProofs!vars, GateProofs!Next, GateProofs!Restart, GateProofs!Bind,
      GateProofs!Unbind, GateProofs!CallNext, GateProofs!StartRead,
      GateProofs!StartWrite, GateProofs!CheckStep, GateProofs!CreateCommits,
      GateProofs!DatabaseFails, GateProofs!Ask, GateProofs!AskNobody,
      GateProofs!Register, GateProofs!RefusalCommits, GateProofs!RefusalReturns,
      GateProofs!DecideRow, GateProofs!Resolve, GateProofs!Outcome,
      GateProofs!Expire, GateProofs!Wake, GateProofs!RecordCommits,
      GateProofs!Returns, GateProofs!RunTool, GateProofs!Cancel,
      GateProofs!QueueOf, GateProofs!Goto, GateProofs!InFlight,
      GateProofs!UserDecisions, GateProofs!APPROVED, GateProofs!DENIED,
      GateProofs!EXPIRED

\* The gate's part of the state starts with the gate's invariant.
LEMMA GateInitInv == Gate!Init => Gate!TypeOK /\ Gate!GateInv
  BY GateAssumed, SameInit, SameInv, GateProofs!InitInv

\* A step of the gate keeps it.
LEMMA GateStepInv ==
  Gate!TypeOK /\ Gate!GateInv /\ [Gate!Next]_(Gate!vars)
    => (Gate!TypeOK /\ Gate!GateInv)'
<1>1. (Gate!TypeOK /\ Gate!GateInv <=> GateProofs!TypeOK /\ GateProofs!GateInv)'
  BY SameInv, PTL
<1> QED
  BY <1>1, SameInv, SameStep, GateAssumed, GateProofs!TypeStep, GateProofs!GateStep

-----------------------------------------------------------------------------
(* The service drives the gate as the gate's specification allows.         *)

\* Every step of the service is a step of the gate, or leaves it alone.
LEMMA Simulation == [Next]_vars => [Gate!Next]_(Gate!vars)
<1> SUFFICES ASSUME [Next]_vars PROVE [Gate!Next]_(Gate!vars)
  OBVIOUS
<1> USE DEF gateVars, Gate!vars
<1>1. CASE UNCHANGED vars
  BY <1>1 DEF vars
<1>2. ASSUME NEW t \in Turns, TurnNext(t) PROVE [Gate!Next]_(Gate!vars)
  <2>0. ConvOf[t] \in Conversations
    BY TurnsAssumption
  <2>1. CASE StartTurn(t)
    BY <2>0, <2>1 DEF StartTurn, Gate!Next
  <2>2. CASE Close(t) \/ Abandon(t)
    BY <2>0, <2>2 DEF Close, Abandon, Gate!Next
  <2>3. CASE Submit(t) \/ Reject(t) \/ Persist(t)
    BY <2>3 DEF Submit, Reject, Persist
  <2>4. CASE Connected(t) \/ ConnectFails(t) \/ Disconnected(t)
    BY <2>4 DEF Connected, ConnectFails, Disconnected
  <2>5. CASE LaunchPump(t) \/ Deliver(t) \/ EndTurn(t) \/ EndFailedTurn(t) \/ GapTimeout(t)
    BY <2>5 DEF LaunchPump, Deliver, EndTurn, EndFailedTurn, GapTimeout
  <2>6. CASE Query(t) \/ Receive(t) \/ ReceiveStops(t)
    BY <2>6 DEF Query, Receive, ReceiveStops
  <2> QED
    BY <1>2, <2>1, <2>2, <2>3, <2>4, <2>5, <2>6 DEF TurnNext, ChatStep
<1>3. CASE SdkNext
  <2>1. ASSUME NEW k \in Clients, SdkDies(k) \/ \E t \in Turns : SdkText(k, t) \/ SdkResult(k, t)
        PROVE  UNCHANGED Gate!vars
    BY <2>1 DEF SdkDies, SdkText, SdkResult
  <2>2. ASSUME NEW c \in Calls, SdkCallsTool(c) \/ SdkRunsTool(c) \/ SdkCancelsCheck(c)
        PROVE  Gate!Next
    BY <2>2 DEF SdkCallsTool, SdkRunsTool, SdkCancelsCheck, Gate!Next, Gate!CallNext
  <2> QED
    BY <1>3, <2>1, <2>2 DEF SdkNext
<1>4. ASSUME NEW c \in Calls, CheckStep(c) \/ \E d \in Gate!UserDecisions : UserAnswers(c, d)
      PROVE  Gate!Next
  BY <1>4 DEF CheckStep, UserAnswers, Gate!Next, Gate!CallNext
<1>5. CASE Shutdown
  BY <1>5 DEF Shutdown
<1> QED
  BY <1>1, <1>2, <1>3, <1>4, <1>5 DEF Next

-----------------------------------------------------------------------------
(* Typing.                                                                 *)

\* What is put on queues and delivered to browsers is an event.
LEMMA EventFacts ==
  /\ Notice \in Events \ {End} /\ Error \in Events \ {End} /\ End \in Events
  /\ \A c \in Calls : Request(c) \in Events
  /\ \A t \in Turns : Text(t) \in Replies /\ Done(t) \in Replies
  /\ Replies \subseteq Events
<1>1. Notice # End /\ Error # End
  BY DEF Notice, Error, End
<1>2. Notice \in Events /\ Error \in Events /\ End \in Events
  BY DEF Events
<1> QED
  BY <1>1, <1>2 DEF Events, Replies

\* A queue of events with the end of a pump's stream is a queue of events.
LEMMA EndsAreEvents ==
  ASSUME NEW q \in Seq(Events)
  PROVE  q \o <<End>> \in Seq(Events) /\ q \o <<Error, End>> \in Seq(Events)
  BY EventFacts

\* A turn whose pump is running has a client.
LEMMA PumpingHasClient ==
  ASSUME TurnTypeOK, TurnsInv, NEW t \in Turns, pump[t] \in Pumping
  PROVE  client[t] \in Clients
  BY DEF TurnsInv, TurnInv, TurnTypeOK, ChatTypeOK

\* The service starts well typed.
LEMMA TurnTypeInit == Init => TurnTypeOK
  BY DEF Init, TurnTypeOK, ChatTypeOK, PumpTypeOK, SdkTypeOK

\* A step keeps the variables of AgentService and its turns in their domains.
LEMMA ChatTypeStep == TurnTypeOK /\ [Next]_vars => ChatTypeOK'
<1> SUFFICES ASSUME ChatTypeOK, [Next]_vars PROVE ChatTypeOK'
  BY DEF TurnTypeOK
<1> USE TurnsAssumption DEF ChatTypeOK, Active, Over, turnVars
<1>1. CASE UNCHANGED vars
  BY <1>1 DEF vars
<1>2. ASSUME NEW t \in Turns, TurnNext(t) PROVE ChatTypeOK'
  <2> USE DEF Goto
  <2>1. CASE StartTurn(t)
    <3>1. client' \in [Turns -> Clients \cup {NoClient}]
      <4>1. NewClients # {} => (CHOOSE n \in NewClients : TRUE) \in Clients
        BY DEF NewClients
      <4>2. ConvOf[t] \in Conversations
        OBVIOUS
      <4>3. PICK k \in Clients \cup {NoClient} : client' = [client EXCEPT ![t] = k]
        BY <2>1, <4>1, <4>2 DEF StartTurn, GetClient
      <4> QED
        BY <4>3
    <3>2. turn' \in [Turns -> {"idle", "submitted", "rejected"} \cup Active \cup Over]
      BY <2>1 DEF StartTurn, GetClient
    <3> QED
      BY <2>1, <3>1, <3>2 DEF StartTurn, TakeRestart
  <2>2. CASE Close(t) \/ Abandon(t)
    BY <2>2 DEF Close, Abandon
  <2>3. CASE Submit(t) \/ Reject(t) \/ Persist(t)
    BY <2>3 DEF Submit, Reject, Persist
  <2>4. CASE Connected(t) \/ ConnectFails(t) \/ Disconnected(t)
    BY <2>4 DEF Connected, ConnectFails, Disconnected, Drop
  <2>5. CASE LaunchPump(t) \/ Deliver(t)
    BY <2>5 DEF LaunchPump, Deliver
  <2>6. CASE EndTurn(t) \/ EndFailedTurn(t) \/ GapTimeout(t)
    BY <2>6 DEF EndTurn, EndFailedTurn, GapTimeout, Drop
  <2>7. CASE Query(t) \/ Receive(t) \/ ReceiveStops(t)
    BY <2>7 DEF Query, Receive, ReceiveStops
  <2> QED
    BY <1>2, <2>1, <2>2, <2>3, <2>4, <2>5, <2>6, <2>7 DEF TurnNext, ChatStep
<1>3. CASE SdkNext
  BY <1>3 DEF SdkNext, SdkDies, SdkText, SdkResult,
              SdkCallsTool, SdkRunsTool, SdkCancelsCheck
<1>4. ASSUME NEW c \in Calls, CheckStep(c) \/ \E d \in Gate!UserDecisions : UserAnswers(c, d)
      PROVE  ChatTypeOK'
  BY <1>4 DEF CheckStep, UserAnswers
<1>5. CASE Shutdown
  BY <1>5 DEF Shutdown
<1> QED
  BY <1>1, <1>2, <1>3, <1>4, <1>5 DEF Next

\* A step keeps the pumps, the queues and what was delivered in their domains.
LEMMA PumpTypeStep == TurnTypeOK /\ TurnsInv /\ [Next]_vars => PumpTypeOK'
<1> SUFFICES ASSUME TurnTypeOK, TurnsInv, [Next]_vars PROVE PumpTypeOK'
  OBVIOUS
<1>0. PumpTypeOK
  BY DEF TurnTypeOK
<1> USE <1>0 DEF PumpTypeOK, Pumping, pumpVars
<1>1. CASE UNCHANGED vars
  BY <1>1 DEF vars
<1>2. ASSUME NEW t \in Turns, TurnNext(t) PROVE PumpTypeOK'
  <2>1. CASE StartTurn(t)
    BY <2>1 DEF StartTurn
  <2>2. CASE Close(t)
    <3>1. delivered' \in [Turns -> SUBSET (Events \ {End})]
      BY <2>2, EventFacts DEF Close
    <3> QED
      BY <2>2, <3>1 DEF Close, CancelPump
  <2>3. CASE Submit(t) \/ Reject(t) \/ Persist(t)
    BY <2>3 DEF Submit, Reject, Persist
  <2>4. CASE Connected(t) \/ ConnectFails(t) \/ Disconnected(t)
    BY <2>4 DEF Connected, ConnectFails, Disconnected
  <2>5. CASE LaunchPump(t)
    BY <2>5, EventFacts DEF LaunchPump
  <2>6. CASE Deliver(t)
    <3>1. Head(queue[t]) \in Events \ {End} /\ Tail(queue[t]) \in Seq(Events)
      BY <2>6 DEF Deliver
    <3> QED
      BY <2>6, <3>1 DEF Deliver
  <2>7. CASE EndTurn(t) \/ EndFailedTurn(t) \/ GapTimeout(t)
    BY <2>7 DEF EndTurn, EndFailedTurn, GapTimeout
  <2>8. CASE Query(t)
    <3>1. CASE PumpEnds(t, <<Error, End>>)
      BY <2>8, <3>1, EndsAreEvents DEF Query, PumpEnds
    <3>2. CASE UNCHANGED queue /\ pump' = [pump EXCEPT ![t] = "receiving"]
      BY <2>8, <3>2 DEF Query
    <3> QED
      BY <2>8, <3>1, <3>2 DEF Query
  <2>9. CASE Receive(t)
    <3>1. inbox[client[t]] \in Seq(Replies)
      BY <2>9, PumpingHasClient DEF Receive, Pumping, TurnTypeOK, SdkTypeOK
    <3>2. PICK m \in Events : m = Head(inbox[client[t]])
      BY <2>9, <3>1, EventFacts DEF Receive
    <3>3. /\ Append(queue[t], m) \in Seq(Events)
          /\ queue[t] \o <<m, End>> \in Seq(Events)
      BY EventFacts
    <3> QED
      BY <2>9, <3>2, <3>3 DEF Receive, PumpEnds
  <2>10. CASE ReceiveStops(t)
    <3>1. CASE PumpEnds(t, <<End>>)
      BY <2>10, <3>1, EndsAreEvents DEF ReceiveStops, PumpEnds
    <3>2. CASE PumpEnds(t, <<Error, End>>)
      BY <2>10, <3>2, EndsAreEvents DEF ReceiveStops, PumpEnds
    <3> QED
      BY <2>10, <3>1, <3>2 DEF ReceiveStops
  <2>11. CASE Abandon(t)
    BY <2>11 DEF Abandon, CancelPump
  <2> QED
    BY <1>2, <2>1, <2>2, <2>3, <2>4, <2>5, <2>6, <2>7, <2>8, <2>9, <2>10, <2>11
    DEF TurnNext, ChatStep
<1>3. CASE SdkNext
  BY <1>3 DEF SdkNext, SdkDies, SdkText, SdkResult,
              SdkCallsTool, SdkRunsTool, SdkCancelsCheck
<1>4. ASSUME NEW c \in Calls, CheckStep(c) PROVE PumpTypeOK'
  <2>1. \A t \in Turns : Append(queue[t], Request(c)) \in Seq(Events)
    BY EventFacts
  <2> QED
    BY <1>4, <2>1 DEF CheckStep
<1>5. ASSUME NEW c \in Calls, NEW d \in Gate!UserDecisions, UserAnswers(c, d)
      PROVE  PumpTypeOK'
  BY <1>5 DEF UserAnswers
<1>6. CASE Shutdown
  BY <1>6 DEF Shutdown
<1> QED
  BY <1>1, <1>2, <1>3, <1>4, <1>5, <1>6 DEF Next

\* A step keeps the clients' connections, work and messages in their domains.
LEMMA SdkTypeStep == TurnTypeOK /\ TurnsInv /\ [Next]_vars => SdkTypeOK'
<1> SUFFICES ASSUME TurnTypeOK, TurnsInv, [Next]_vars PROVE SdkTypeOK'
  OBVIOUS
<1>0. SdkTypeOK
  BY DEF TurnTypeOK
<1> USE <1>0 DEF SdkTypeOK, sdkVars
<1>1. CASE UNCHANGED vars
  BY <1>1 DEF vars
<1>2. ASSUME NEW t \in Turns, TurnNext(t) PROVE SdkTypeOK'
  <2>1. CASE StartTurn(t)
    BY <2>1 DEF StartTurn, GetClient
  <2>2. CASE Close(t) \/ Abandon(t)
    BY <2>2 DEF Close, Abandon
  <2>3. CASE Submit(t) \/ Reject(t) \/ Persist(t)
    BY <2>3 DEF Submit, Reject, Persist
  <2>4. CASE Connected(t) \/ ConnectFails(t) \/ Disconnected(t)
    BY <2>4 DEF Connected, ConnectFails, Disconnected
  <2>5. CASE LaunchPump(t) \/ Deliver(t) \/ EndTurn(t) \/ EndFailedTurn(t) \/ GapTimeout(t)
    BY <2>5 DEF LaunchPump, Deliver, EndTurn, EndFailedTurn, GapTimeout
  <2>6. CASE Query(t)
    <3>1. client[t] \in Clients
      BY <2>6, PumpingHasClient DEF Query, Pumping
    <3>2. Append(work[client[t]], t) \in Seq(Turns)
      BY <3>1
    <3> QED
      BY <2>6, <3>1, <3>2 DEF Query
  <2>7. CASE Receive(t)
    <3>1. client[t] \in Clients
      BY <2>7, PumpingHasClient DEF Receive, Pumping
    <3>2. Tail(inbox[client[t]]) \in Seq(Replies)
      BY <2>7, <3>1 DEF Receive
    <3> QED
      BY <2>7, <3>1, <3>2 DEF Receive
  <2>8. CASE ReceiveStops(t)
    BY <2>8 DEF ReceiveStops
  <2> QED
    BY <1>2, <2>1, <2>2, <2>3, <2>4, <2>5, <2>6, <2>7, <2>8 DEF TurnNext, ChatStep
<1>3. CASE SdkNext
  <2>1. ASSUME NEW k \in Clients, NEW t \in Turns, SdkText(k, t) PROVE SdkTypeOK'
    BY <2>1, EventFacts DEF SdkText
  <2>2. ASSUME NEW k \in Clients, NEW t \in Turns, SdkResult(k, t) PROVE SdkTypeOK'
    BY <2>2, EventFacts DEF SdkResult, Answering
  <2>3. ASSUME NEW k \in Clients, SdkDies(k) PROVE SdkTypeOK'
    BY <2>3 DEF SdkDies
  <2>4. ASSUME NEW c \in Calls, SdkCallsTool(c) \/ SdkRunsTool(c) \/ SdkCancelsCheck(c)
        PROVE  SdkTypeOK'
    BY <2>4 DEF SdkCallsTool, SdkRunsTool, SdkCancelsCheck
  <2> QED
    BY <1>3, <2>1, <2>2, <2>3, <2>4 DEF SdkNext
<1>4. ASSUME NEW c \in Calls, CheckStep(c) \/ \E d \in Gate!UserDecisions : UserAnswers(c, d)
      PROVE  SdkTypeOK'
  BY <1>4 DEF CheckStep, UserAnswers
<1>5. CASE Shutdown
  BY <1>5 DEF Shutdown
<1> QED
  BY <1>1, <1>2, <1>3, <1>4, <1>5 DEF Next

-----------------------------------------------------------------------------
(* The invariant of turns and conversations.                               *)

\* The service starts with no turn under way and no client registered.
LEMMA TurnsInit == Init => TurnsInv
<1> SUFFICES ASSUME Init PROVE TurnsInv
  OBVIOUS
<1> USE TurnsAssumption DEF Init, Gate!Init
<1>1. \A t \in Turns : TurnInv(t)
  BY DEF TurnInv, Active, Over, Pumping
<1>2. \A v \in Conversations : ConversationInv(v)
  BY DEF ConversationInv
<1>3. AnsweredWasShown
  BY DEF AnsweredWasShown
<1> QED
  BY <1>1, <1>2, <1>3 DEF TurnsInv

\* What the steps read of the typing.
ChatLinkOK ==
  /\ ChatTypeOK
  /\ link \in [Clients -> {"new", "connecting", "up", "dead", "closed"}]
  /\ pump \in [Turns -> {"none", "done", "cancelled"} \cup Pumping]

\* Taking a client: the registered one, or one that is nobody else's.
LEMMA StartKeepsTurnInv ==
  ASSUME ChatLinkOK, TurnsInv, NEW t \in Turns, StartTurn(t), NEW u \in Turns
  PROVE  TurnInv(u)'
<1> DEFINE v == ConvOf[t]
<1>0. v \in Conversations /\ NoClient \notin Clients
  BY TurnsAssumption
<1>1. turn[t] = "submitted" /\ client[t] = NoClient /\ t \notin failed /\ pump[t] \notin Pumping
  BY DEF StartTurn, GetClient, Goto, TurnsInv, TurnInv, Active, Over
<1>2. UNCHANGED <<doomed, clients, failed, pump>>
  BY DEF StartTurn, pumpVars
<1> USE DEF ChatLinkOK, ChatTypeOK
<1>3. CASE /\ clients[v] # NoClient
           /\ client' = [client EXCEPT ![t] = clients[v]]
           /\ turn' = [turn EXCEPT ![t] = "starting"]
           /\ UNCHANGED link
  <2>1. CASE u = t
    BY <1>0, <1>1, <1>2, <1>3, <2>1
    DEF TurnsInv, TurnInv, ConversationInv, Active, Over
  <2>2. CASE u # t
    BY <1>0, <1>1, <1>2, <1>3, <2>2 DEF TurnsInv, TurnInv, Connecting
  <2> QED
    BY <2>1, <2>2
<1>4. ASSUME NEW k \in Clients, link[k] = "new",
             client' = [client EXCEPT ![t] = k],
             link' = [link EXCEPT ![k] = "connecting"],
             turn' = [turn EXCEPT ![t] = "connecting"]
      PROVE  TurnInv(u)'
  <2>1. /\ \A w \in Turns : client[w] # k /\ doomed[w] # k
        /\ \A w \in Conversations : clients[w] # k
    BY <1>0, <1>4 DEF TurnsInv, TurnInv, ConversationInv
  <2>2. CASE u = t
    BY <1>0, <1>1, <1>2, <1>4, <2>1, <2>2 DEF TurnsInv, TurnInv, Connecting, Active
  <2>3. CASE u # t
    BY <1>0, <1>1, <1>2, <1>4, <2>1, <2>3 DEF TurnsInv, TurnInv, Connecting
  <2> QED
    BY <2>2, <2>3
<1>5. NewClients # {} => \E k \in Clients : link[k] = "new" /\ k = CHOOSE n \in NewClients : TRUE
  BY DEF NewClients
<1> QED
  BY <1>3, <1>4, <1>5 DEF StartTurn, GetClient, Goto

\* Dropping a client: it is registered for the turn's conversation or for none.
LEMMA DropKeepsTurnInv ==
  ASSUME ChatLinkOK, TurnsInv, NEW t \in Turns, NEW u \in Turns,
         ConnectFails(t) \/ EndFailedTurn(t) \/ GapTimeout(t)
  PROVE  TurnInv(u)'
<1> DEFINE v == ConvOf[t]
<1>0. v \in Conversations /\ NoClient \notin Clients
  BY TurnsAssumption
<1>1. turn[t] \in {"connecting", "running"} /\ client[t] \in Clients
  BY DEF ConnectFails, EndFailedTurn, GapTimeout, GapTimeoutGuard, AtEnd, Drop, Goto,
         TurnsInv, TurnInv, Active, ChatLinkOK, ChatTypeOK
<1>2. /\ turn' = [turn EXCEPT ![t] = "dropping"]
      /\ doomed' = [doomed EXCEPT ![t] = clients[v]]
      /\ clients' = [clients EXCEPT ![v] = NoClient]
      /\ failed' = failed \cup {t}
      /\ UNCHANGED <<client, pump>>
  BY DEF ConnectFails, EndFailedTurn, GapTimeout, Drop, Goto, pumpVars
<1>3. \/ UNCHANGED link
      \/ turn[t] = "connecting" /\ link' = [link EXCEPT ![client[t]] = "closed"]
  BY DEF ConnectFails, EndFailedTurn, GapTimeout, Drop, Goto, sdkVars
<1>4. \A w \in Conversations : clients'[w] # client[t]
  BY <1>0, <1>1, <1>2 DEF TurnsInv, TurnInv, ChatLinkOK, ChatTypeOK
<1>5. clients[v] # NoClient => link[clients[v]] \notin {"new", "connecting"}
  BY <1>0 DEF TurnsInv, ConversationInv
<1>6. CASE u = t
  BY <1>0, <1>1, <1>2, <1>3, <1>4, <1>5, <1>6
  DEF TurnsInv, TurnInv, ChatLinkOK, ChatTypeOK, Active
<1>7. CASE u # t
  BY <1>0, <1>1, <1>2, <1>3, <1>7
  DEF TurnsInv, TurnInv, Connecting, ChatLinkOK, ChatTypeOK
<1> QED
  BY <1>6, <1>7

\* A step keeps the invariant of every turn.
LEMMA TurnInvStep ==
  ASSUME ChatLinkOK, TurnsInv, [Next]_vars, NEW u \in Turns
  PROVE  TurnInv(u)'
<1>0. TurnInv(u) /\ NoClient \notin Clients
  BY TurnsAssumption DEF TurnsInv
<1>1. ASSUME UNCHANGED <<turnVars, link, pump>> PROVE TurnInv(u)'
  BY <1>0, <1>1 DEF TurnInv, Connecting, turnVars
<1>2. ASSUME NEW t \in Turns, TurnNext(t) PROVE TurnInv(u)'
  <2>0. ConvOf[t] \in Conversations /\ TurnInv(t)
    BY TurnsAssumption DEF TurnsInv
  <2> USE DEF ChatLinkOK, ChatTypeOK, Goto, Active, Over, Pumping
  <2>1. CASE Submit(t) \/ Reject(t) \/ Persist(t)
    BY <1>0, <2>0, <2>1 DEF Submit, Reject, Persist, pumpVars, sdkVars, TurnInv, Connecting
  <2>2. CASE Connected(t)
    <3>1. /\ turn[t] = "connecting" /\ client[t] \in Clients
          /\ \A w \in Turns \ {t} : client[w] # client[t]
          /\ \A w \in Conversations : clients[w] # client[t]
      BY <2>0, <2>2 DEF Connected, TurnInv, Connecting
    <3>2. /\ turn' = [turn EXCEPT ![t] = "starting"]
          /\ link' = [link EXCEPT ![client[t]] = "up"]
          /\ clients' = [clients EXCEPT ![ConvOf[t]] = client[t]]
          /\ UNCHANGED <<client, doomed, failed, pump>>
      BY <2>2 DEF Connected, pumpVars
    <3>3. CASE u = t
      BY <1>0, <2>0, <3>1, <3>2, <3>3 DEF TurnInv
    <3>4. CASE u # t
      BY <1>0, <2>0, <3>1, <3>2, <3>4 DEF TurnInv, Connecting
    <3> QED
      BY <3>3, <3>4
  <2>3. CASE Disconnected(t)
    BY <1>0, <2>0, <2>3 DEF Disconnected, pumpVars, TurnInv, Connecting
  <2>4. CASE LaunchPump(t)
    BY <1>0, <2>0, <2>4 DEF LaunchPump, sdkVars, TurnInv, Connecting
  <2>5. CASE Deliver(t)
    BY <1>0, <2>0, <2>5 DEF Deliver, sdkVars, TurnInv, Connecting
  <2>6. CASE EndTurn(t)
    BY <1>0, <2>0, <2>6 DEF EndTurn, pumpVars, sdkVars, TurnInv, Connecting
  <2>7. CASE Close(t)
    BY <1>0, <2>0, <2>7 DEF Close, CancelPump, sdkVars, TurnInv, Connecting
  <2>8. CASE Abandon(t)
    BY <1>0, <2>0, <2>8 DEF Abandon, CancelPump, sdkVars, TurnInv, Connecting
  <2>9. CASE Query(t) \/ Receive(t) \/ ReceiveStops(t)
    <3>1. pump[t] \in Pumping /\ pump' \in {pump, [pump EXCEPT ![t] = "receiving"],
                                                  [pump EXCEPT ![t] = "done"]}
      BY <2>9 DEF Query, Receive, ReceiveStops, PumpEnds
    <3>2. UNCHANGED <<turnVars, link>>
      BY <2>9 DEF Query, Receive, ReceiveStops, sdkVars
    <3> QED
      BY <1>0, <2>0, <3>1, <3>2 DEF TurnInv, Connecting, turnVars
  <2> QED
    BY <1>2, <2>1, <2>2, <2>3, <2>4, <2>5, <2>6, <2>7, <2>8, <2>9,
       StartKeepsTurnInv, DropKeepsTurnInv
    DEF TurnNext, ChatStep
<1>3. CASE SdkNext
  <2>1. ASSUME NEW k \in Clients, SdkDies(k) PROVE TurnInv(u)'
    BY <1>0, <2>1 DEF SdkDies, turnVars, pumpVars, TurnInv, Connecting, ChatLinkOK, ChatTypeOK
  <2>2. ASSUME NEW k \in Clients, NEW t \in Turns, SdkText(k, t) \/ SdkResult(k, t)
        PROVE  TurnInv(u)'
    BY <1>1, <2>2 DEF SdkText, SdkResult, pumpVars
  <2>3. ASSUME NEW c \in Calls, SdkCallsTool(c) \/ SdkRunsTool(c) \/ SdkCancelsCheck(c)
        PROVE  TurnInv(u)'
    BY <1>1, <2>3 DEF SdkCallsTool, SdkRunsTool, SdkCancelsCheck, pumpVars, sdkVars
  <2> QED
    BY <1>3, <2>1, <2>2, <2>3 DEF SdkNext
<1>4. ASSUME NEW c \in Calls, CheckStep(c) \/ \E d \in Gate!UserDecisions : UserAnswers(c, d)
      PROVE  TurnInv(u)'
  BY <1>1, <1>4 DEF CheckStep, UserAnswers, pumpVars, sdkVars
<1>5. CASE Shutdown
  BY <1>0, <1>5 DEF Shutdown, pumpVars, TurnInv, Connecting, ChatLinkOK, ChatTypeOK, Active
<1>6. CASE UNCHANGED vars
  BY <1>1, <1>6 DEF vars, pumpVars, sdkVars
<1> QED
  BY <1>2, <1>3, <1>4, <1>5, <1>6 DEF Next

\* Only bind and unbind change the bound queues.
LEMMA ChecksKeepQueues ==
  ASSUME NEW c \in Calls,
         \/ Gate!CheckStep(c) \/ Gate!StartRead(c) \/ Gate!StartWrite(c)
         \/ Gate!RunTool(c) \/ Gate!Cancel(c)
         \/ \E d \in Gate!UserDecisions : Gate!Resolve(c, d)
  PROVE  UNCHANGED queues
  BY DEF Gate!CheckStep, Gate!CreateCommits, Gate!DatabaseFails, Gate!Ask,
         Gate!AskNobody, Gate!RefusalCommits, Gate!RefusalReturns, Gate!Expire,
         Gate!Wake, Gate!RecordCommits, Gate!Returns, Gate!StartRead,
         Gate!StartWrite, Gate!RunTool, Gate!Cancel, Gate!Resolve

\* A step keeps the invariant of every conversation.
LEMMA ConversationInvStep ==
  ASSUME ChatLinkOK, queues \in [Conversations -> Turns \cup {NoTurn}],
         TurnsInv, [Next]_vars, NEW v \in Conversations
  PROVE  ConversationInv(v)'
<1>0. /\ NoClient \notin Clients /\ NoTurn \notin Turns
      /\ \A w \in Conversations : ConversationInv(w)
  BY TurnsAssumption DEF TurnsInv
<1>1. ASSUME UNCHANGED <<turn, clients, link, queues>> PROVE ConversationInv(v)'
  BY <1>0, <1>1 DEF ConversationInv
<1>2. ASSUME NEW t \in Turns, TurnNext(t) PROVE ConversationInv(v)'
  <2>0. ConvOf[t] \in Conversations /\ TurnInv(t)
    BY TurnsAssumption DEF TurnsInv
  <2> USE DEF ChatLinkOK, ChatTypeOK, Goto, Active, gateVars
  <2>1. CASE StartTurn(t)
    <3>1. queues' = [queues EXCEPT ![ConvOf[t]] = t] /\ UNCHANGED clients
      BY <2>1 DEF StartTurn, Gate!Bind
    <3>2. \E to \in {"starting", "connecting"} : turn' = [turn EXCEPT ![t] = to]
      BY <2>1 DEF StartTurn, GetClient
    <3>3. UNCHANGED link \/ \E k \in Clients : link[k] = "new" /\ link' = [link EXCEPT ![k] = "connecting"]
      BY <2>1 DEF StartTurn, GetClient, NewClients
    <3> QED
      BY <1>0, <2>0, <3>1, <3>2, <3>3 DEF ConversationInv
  <2>2. CASE Close(t) \/ Abandon(t)
    <3>1. queues' = [queues EXCEPT ![ConvOf[t]] = NoTurn] /\ UNCHANGED <<clients, link>>
      BY <2>2 DEF Close, Abandon, Gate!Unbind, sdkVars
    <3>2. \E to \in {"done", "abandoned"} : turn' = [turn EXCEPT ![t] = to]
      BY <2>2 DEF Close, Abandon
    <3> QED
      BY <1>0, <2>0, <3>1, <3>2 DEF ConversationInv
  <2>3. CASE Submit(t) \/ Reject(t) \/ Persist(t)
    BY <1>0, <2>3 DEF Submit, Reject, Persist, sdkVars, ConversationInv
  <2>4. CASE Connected(t)
    <3>1. /\ client[t] \in Clients
          /\ \A w \in Conversations : clients[w] # client[t]
      BY <2>0, <2>4 DEF Connected, TurnInv, Connecting
    <3> QED
      BY <1>0, <2>0, <2>4, <3>1 DEF Connected, ConversationInv
  <2>5. CASE ConnectFails(t)
    BY <1>0, <2>0, <2>5 DEF ConnectFails, Drop, ConversationInv
  <2>6. CASE EndFailedTurn(t) \/ GapTimeout(t)
    BY <1>0, <2>0, <2>6 DEF EndFailedTurn, GapTimeout, Drop, sdkVars, ConversationInv
  <2>7. CASE Disconnected(t)
    BY <1>0, <2>7 DEF Disconnected, ConversationInv
  <2>8. CASE LaunchPump(t) \/ EndTurn(t)
    BY <1>0, <2>8 DEF LaunchPump, EndTurn, sdkVars, ConversationInv
  <2>9. CASE Deliver(t)
    BY <1>1, <2>9 DEF Deliver, sdkVars
  <2>10. CASE Query(t) \/ Receive(t) \/ ReceiveStops(t)
    BY <1>1, <2>10 DEF Query, Receive, ReceiveStops, turnVars, sdkVars
  <2> QED
    BY <1>2, <2>1, <2>2, <2>3, <2>4, <2>5, <2>6, <2>7, <2>8, <2>9, <2>10
    DEF TurnNext, ChatStep
<1>3. CASE SdkNext
  <2>1. ASSUME NEW k \in Clients, SdkDies(k) PROVE ConversationInv(v)'
    BY <1>0, <2>1 DEF SdkDies, turnVars, gateVars, ConversationInv, ChatLinkOK, ChatTypeOK
  <2>2. ASSUME NEW k \in Clients, NEW t \in Turns, SdkText(k, t) \/ SdkResult(k, t)
        PROVE  ConversationInv(v)'
    BY <1>1, <2>2 DEF SdkText, SdkResult, turnVars, gateVars
  <2>3. ASSUME NEW c \in Calls, SdkCallsTool(c) \/ SdkRunsTool(c) \/ SdkCancelsCheck(c)
        PROVE  ConversationInv(v)'
    BY <1>1, <2>3, ChecksKeepQueues
    DEF SdkCallsTool, SdkRunsTool, SdkCancelsCheck, turnVars, sdkVars
  <2> QED
    BY <1>3, <2>1, <2>2, <2>3 DEF SdkNext
<1>4. ASSUME NEW c \in Calls, CheckStep(c) \/ \E d \in Gate!UserDecisions : UserAnswers(c, d)
      PROVE  ConversationInv(v)'
  BY <1>1, <1>4, ChecksKeepQueues DEF CheckStep, UserAnswers, turnVars, sdkVars
<1>5. CASE Shutdown
  BY <1>0, <1>5 DEF Shutdown, gateVars, ConversationInv, ChatLinkOK, ChatTypeOK
<1>6. CASE UNCHANGED vars
  BY <1>1, <1>6 DEF vars, gateVars, turnVars, sdkVars
<1> QED
  BY <1>2, <1>3, <1>4, <1>5, <1>6 DEF Next

\* Only resolve accepts an answer.
LEMMA ChecksKeepAnswers ==
  ASSUME NEW c \in Calls,
         \/ Gate!CheckStep(c) \/ Gate!StartRead(c) \/ Gate!StartWrite(c)
         \/ Gate!RunTool(c) \/ Gate!Cancel(c)
  PROVE  UNCHANGED acked
  BY DEF Gate!CheckStep, Gate!CreateCommits, Gate!DatabaseFails, Gate!Ask,
         Gate!AskNobody, Gate!RefusalCommits, Gate!RefusalReturns, Gate!Expire,
         Gate!Wake, Gate!RecordCommits, Gate!Returns, Gate!StartRead,
         Gate!StartWrite, Gate!RunTool, Gate!Cancel

\* What was delivered to a browser stays delivered, and an answer is only
\* accepted for a request that was.
LEMMA AnsweredStep ==
  ASSUME delivered \in [Turns -> SUBSET (Events \ {End})],
         acked \in [Calls -> SUBSET Gate!UserDecisions],
         AnsweredWasShown, [Next]_vars
  PROVE  AnsweredWasShown'
<1>1. ASSUME UNCHANGED acked, \A t \in Turns : delivered[t] \subseteq delivered'[t]
      PROVE  AnsweredWasShown'
  BY <1>1 DEF AnsweredWasShown, Request
<1>2. ASSUME NEW t \in Turns, TurnNext(t) PROVE AnsweredWasShown'
  <2> USE DEF gateVars, pumpVars
  <2>1. CASE Submit(t) \/ Reject(t) \/ Persist(t) \/ StartTurn(t) \/ Abandon(t)
    BY <1>1, <2>1 DEF Submit, Reject, Persist, StartTurn, Abandon, Gate!Bind, Gate!Unbind
  <2>2. CASE Connected(t) \/ ConnectFails(t) \/ Disconnected(t) \/ EndTurn(t)
              \/ EndFailedTurn(t) \/ GapTimeout(t)
    BY <1>1, <2>2 DEF Connected, ConnectFails, Disconnected, EndTurn, EndFailedTurn, GapTimeout
  <2>3. CASE LaunchPump(t) \/ Deliver(t)
    BY <1>1, <2>3 DEF LaunchPump, Deliver
  <2>4. CASE Close(t)
    BY <1>1, <2>4 DEF Close, Gate!Unbind
  <2>5. CASE Query(t) \/ Receive(t) \/ ReceiveStops(t)
    BY <1>1, <2>5 DEF Query, Receive, ReceiveStops
  <2> QED
    BY <1>2, <2>1, <2>2, <2>3, <2>4, <2>5 DEF TurnNext, ChatStep
<1>3. CASE SdkNext
  <2>1. ASSUME NEW k \in Clients, SdkDies(k) \/ \E t \in Turns : SdkText(k, t) \/ SdkResult(k, t)
        PROVE  AnsweredWasShown'
    BY <1>1, <2>1 DEF SdkDies, SdkText, SdkResult, gateVars, pumpVars
  <2>2. ASSUME NEW c \in Calls, SdkCallsTool(c) \/ SdkRunsTool(c) \/ SdkCancelsCheck(c)
        PROVE  AnsweredWasShown'
    BY <1>1, <2>2, ChecksKeepAnswers DEF SdkCallsTool, SdkRunsTool, SdkCancelsCheck, pumpVars
  <2> QED
    BY <1>3, <2>1, <2>2 DEF SdkNext
<1>4. ASSUME NEW c \in Calls, CheckStep(c) PROVE AnsweredWasShown'
  BY <1>1, <1>4, ChecksKeepAnswers DEF CheckStep
<1>5. ASSUME NEW c \in Calls, NEW d \in Gate!UserDecisions, UserAnswers(c, d)
      PROVE  AnsweredWasShown'
  BY <1>5 DEF UserAnswers, Gate!Resolve, AnsweredWasShown, Request, pumpVars
<1>6. CASE Shutdown
  BY <1>1, <1>6 DEF Shutdown, gateVars, pumpVars
<1>7. CASE UNCHANGED vars
  BY <1>1, <1>7 DEF vars, gateVars, pumpVars
<1> QED
  BY <1>2, <1>3, <1>4, <1>5, <1>6, <1>7 DEF Next

-----------------------------------------------------------------------------
(* The theorems.                                                           *)

\* Typing, the gate's invariant and that of the turns, inductive together.
ServiceInv == TypeOK /\ Gate!GateInv /\ TurnsInv

\* A step of the service keeps them: the gate's part by the simulation.
LEMMA ServiceStep == ServiceInv /\ [Next]_vars => ServiceInv'
<1> SUFFICES ASSUME ServiceInv, [Next]_vars PROVE ServiceInv'
  OBVIOUS
<1> USE DEF ServiceInv, TypeOK
<1>1. Gate!TypeOK' /\ Gate!GateInv'
  BY Simulation, GateStepInv
<1>2. TurnTypeOK'
  BY ChatTypeStep, PumpTypeStep, SdkTypeStep DEF TurnTypeOK
<1>3. ChatLinkOK
  BY DEF ChatLinkOK, TurnTypeOK, PumpTypeOK, SdkTypeOK
<1>4. queues \in [Conversations -> Turns \cup {NoTurn}]
  BY DEF Gate!TypeOK
<1>5. \A t \in Turns : TurnInv(t)'
  BY <1>3, TurnInvStep
<1>6. \A v \in Conversations : ConversationInv(v)'
  BY <1>3, <1>4, ConversationInvStep
<1>7. AnsweredWasShown'
  BY AnsweredStep DEF Gate!TypeOK, TurnTypeOK, PumpTypeOK, TurnsInv
<1> QED
  BY <1>1, <1>2, <1>5, <1>6, <1>7 DEF TurnsInv

\* They hold in every reachable state.
THEOREM Invariance == Spec => []ServiceInv
<1>1. Init => ServiceInv
  BY GateInitInv, TurnTypeInit, TurnsInit DEF Init, ServiceInv, TypeOK
<1> QED
  BY <1>1, ServiceStep, PTL DEF Spec

\* The invariant of turns the runs check holds in every reachable state.
THEOREM TurnsStayConsistent == Spec => []TurnsInv
<1>1. ServiceInv => TurnsInv
  BY DEF ServiceInv
<1> QED
  BY <1>1, Invariance, PTL

\* A write that ran was shown to the user on some stream and approved there.
THEOREM ConsentReachesUser == Spec => []ConsentEndToEnd
<1>1. ServiceInv => ConsentEndToEnd
  <2> SUFFICES ASSUME ServiceInv, NEW c \in Writes, pc[c] = "ran"
               PROVE  /\ \E t \in Turns : Request(c) \in delivered[t]
                      /\ acked[c] = {"approved"} /\ row[c] = "approved"
    BY DEF ConsentEndToEnd
  <2>1. c \in Calls
    BY TurnsAssumption
  <2>2. acked[c] = {"approved"} /\ row[c] = "approved"
    BY <2>1 DEF ServiceInv, Gate!GateInv, Gate!CallInv, Gate!APPROVED
  <2> QED
    BY <2>1, <2>2 DEF ServiceInv, TurnsInv, AnsweredWasShown
<1> QED
  BY <1>1, Invariance, PTL

\* However a turn ends, neither its queue's binding nor its pump survives it.
THEOREM TurnsCleanUp == Spec => []NothingOutlivesTurn
<1>1. ServiceInv => NothingOutlivesTurn
  BY DEF ServiceInv, TurnsInv, TurnInv, ConversationInv, NothingOutlivesTurn
<1> QED
  BY <1>1, Invariance, PTL

\* No conversation keeps the client a completed turn of it failed on.
THEOREM FailureDropsClient == Spec => []FailedClientDropped
<1>1. ServiceInv => FailedClientDropped
  BY DEF ServiceInv, TypeOK, TurnTypeOK, ChatTypeOK, TurnsInv, TurnInv, FailedClientDropped
<1> QED
  BY <1>1, Invariance, PTL

-----------------------------------------------------------------------------
(* The requests on the queues.                                             *)

\* Event x was shown by t's stream, or will be, or the stream is over.
Reaches(t, x) ==
  \/ x \in delivered[t]
  \/ \E i \in DOMAIN queue[t] : queue[t][i] = x
  \/ turn[t] \in Over

\* What the elements of a longer sequence are.
LEMMA AppendedAt ==
  ASSUME NEW S, NEW s \in Seq(S), NEW x \in S
  PROVE  /\ Append(s, x) \in Seq(S) /\ Len(Append(s, x)) = Len(s) + 1
         /\ DOMAIN Append(s, x) = 1..(Len(s) + 1) /\ DOMAIN s = 1..Len(s) /\ Len(s) \in Nat
         /\ \A i \in DOMAIN s : Append(s, x)[i] = s[i]
         /\ Append(s, x)[Len(s) + 1] = x
  OBVIOUS

\* What is queued stays queued when the pump or a check adds to the queue.
LEMMA QueuedStays ==
  ASSUME NEW q \in Seq(Events), NEW x \in Events, NEW y \in Events, NEW i \in DOMAIN q
  PROVE  /\ i \in DOMAIN Append(q, x) /\ Append(q, x)[i] = q[i]
         /\ i \in DOMAIN (q \o <<x>>) /\ (q \o <<x>>)[i] = q[i]
         /\ i \in DOMAIN (q \o <<x, y>>) /\ (q \o <<x, y>>)[i] = q[i]
<1>1. Append(q, x) = q \o <<x>>
  OBVIOUS
<1>2. DOMAIN q = 1..Len(q) /\ Len(q) \in Nat /\ i \in 1..Len(q)
  OBVIOUS
<1> QED
  BY <1>1, <1>2

\* The next event is shown, the others stay queued.
LEMMA TakenIsShown ==
  ASSUME NEW q \in Seq(Events), q # <<>>, NEW i \in DOMAIN q, q[i] # Head(q)
  PROVE  \E j \in DOMAIN Tail(q) : Tail(q)[j] = q[i]
<1>1. i \in 1..Len(q) /\ Len(q) \in Nat /\ i # 1
  OBVIOUS
<1>2. DOMAIN Tail(q) = 1..(Len(q) - 1) /\ Tail(q)[i - 1] = q[i]
  BY <1>1
<1> QED
  BY <1>1, <1>2

\* No step but the end of a stream loses an event of it.
LEMMA ReachesStep ==
  ASSUME TurnTypeOK, TurnsInv, [Next]_vars, NEW t \in Turns, NEW x, Reaches(t, x)
  PROVE  Reaches(t, x)'
<1>0. /\ turn \in [Turns -> {"idle", "submitted", "rejected"} \cup Active \cup Over]
      /\ queue \in [Turns -> Seq(Events)]
      /\ delivered \in [Turns -> SUBSET (Events \ {End})]
  BY DEF TurnTypeOK, ChatTypeOK, PumpTypeOK
<1>1. ASSUME turn[t] \in Over => turn'[t] \in Over,
             delivered[t] \subseteq delivered'[t], queue'[t] = queue[t]
      PROVE  Reaches(t, x)'
  BY <1>1 DEF Reaches
<1>2. ASSUME turn' = turn, delivered' = delivered, NEW y \in Events, NEW z \in Events,
             queue'[t] \in {queue[t], Append(queue[t], y), queue[t] \o <<y>>,
                            queue[t] \o <<y, z>>}
      PROVE  Reaches(t, x)'
  <2>1. queue[t] \in Seq(Events)
    BY <1>0
  <2>2. \A i \in DOMAIN queue[t] : i \in DOMAIN queue'[t] /\ queue'[t][i] = queue[t][i]
    <3> SUFFICES ASSUME NEW i \in DOMAIN queue[t]
                 PROVE  i \in DOMAIN queue'[t] /\ queue'[t][i] = queue[t][i]
      OBVIOUS
    <3>1. /\ i \in DOMAIN Append(queue[t], y) /\ Append(queue[t], y)[i] = queue[t][i]
          /\ i \in DOMAIN (queue[t] \o <<y>>) /\ (queue[t] \o <<y>>)[i] = queue[t][i]
          /\ i \in DOMAIN (queue[t] \o <<y, z>>)
          /\ (queue[t] \o <<y, z>>)[i] = queue[t][i]
      BY <1>2, <2>1, QueuedStays
    <3> QED
      BY <1>2, <3>1
  <2> QED
    BY <1>2, <2>2 DEF Reaches
<1>3. ASSUME turn'[t] \in Over PROVE Reaches(t, x)'
  BY <1>3 DEF Reaches
<1>4. ASSUME NEW u \in Turns, TurnNext(u) PROVE Reaches(t, x)'
  <2> USE DEF pumpVars, Goto
  <2>1. CASE \/ Submit(u) \/ Reject(u) \/ StartTurn(u) \/ Connected(u) \/ ConnectFails(u)
             \/ Disconnected(u) \/ EndTurn(u) \/ EndFailedTurn(u) \/ GapTimeout(u)
    <3>1. /\ turn[u] \notin Over /\ \A v \in Turns \ {u} : turn'[v] = turn[v]
          /\ queue' = queue /\ delivered' = delivered
      BY <1>0, <2>1
      DEF Submit, Reject, StartTurn, GetClient, Connected, ConnectFails, Disconnected,
          EndTurn, EndFailedTurn, GapTimeout, GapTimeoutGuard, AtEnd, Drop, Over
    <3> QED
      BY <1>1, <3>1
  <2>2. CASE Persist(u)
    BY <1>0, <1>1, <2>2 DEF Persist, Over
  <2>3. CASE LaunchPump(u)
    BY <1>0, <1>1, <2>3 DEF LaunchPump, Over
  <2>4. CASE Deliver(u)
    <3>1. /\ turn' = turn /\ queue[u] # <<>>
          /\ queue' = [queue EXCEPT ![u] = Tail(@)]
          /\ delivered' = [delivered EXCEPT ![u] = @ \cup {Head(queue[u])}]
      BY <2>4 DEF Deliver
    <3>2. CASE u = t /\ x # Head(queue[t])
      BY <1>0, <3>1, <3>2, TakenIsShown DEF Reaches
    <3>3. CASE u = t /\ x = Head(queue[t])
      BY <1>0, <3>1, <3>3 DEF Reaches
    <3>4. CASE u # t
      BY <1>0, <1>1, <3>1, <3>4
    <3> QED
      BY <3>2, <3>3, <3>4
  <2>5. CASE Close(u) \/ Abandon(u)
    <3>1. CASE u = t
      BY <1>0, <1>3, <2>5, <3>1 DEF Close, Abandon, Over
    <3>2. CASE u # t
      BY <1>0, <1>1, <2>5, <3>2 DEF Close, Abandon
    <3> QED
      BY <3>1, <3>2
  <2>6. CASE Query(u) \/ Receive(u) \/ ReceiveStops(u)
    <3>1. turn' = turn /\ delivered' = delivered
      BY <2>6 DEF Query, Receive, ReceiveStops, turnVars
    <3>2. \E y, z \in Events :
            queue'[t] \in {queue[t], Append(queue[t], y), queue[t] \o <<y>>,
                           queue[t] \o <<y, z>>}
      <4>1. CASE Query(u)
        BY <1>0, <4>1, EventFacts, ZenonT(30) DEF Query, PumpEnds
      <4>2. CASE ReceiveStops(u)
        <5>1. PICK events \in {<<End>>, <<Error, End>>} : PumpEnds(u, events)
          BY <4>2 DEF ReceiveStops
        <5>2. queue'[t] \in {queue[t], queue[t] \o <<End>>, queue[t] \o <<Error, End>>}
          BY <1>0, <5>1 DEF PumpEnds
        <5> QED
          BY <5>2, EventFacts
      <4>3. CASE Receive(u)
        <5>1. PICK m \in Events : m = Head(inbox[client[u]])
          <6>1. inbox[client[u]] \in Seq(Replies)
            BY <4>3, PumpingHasClient DEF Receive, Pumping, TurnTypeOK, SdkTypeOK
          <6> QED
            BY <4>3, <6>1, EventFacts DEF Receive
        <5> QED
          BY <1>0, <4>3, <5>1, EventFacts, ZenonT(30) DEF Receive, PumpEnds
      <4> QED
        BY <2>6, <4>1, <4>2, <4>3
    <3> QED
      BY <1>2, <3>1, <3>2
  <2> QED
    BY <1>4, <2>1, <2>2, <2>3, <2>4, <2>5, <2>6 DEF TurnNext, ChatStep
<1>5. CASE SdkNext
  BY <1>1, <1>5
  DEF SdkNext, SdkText, SdkResult, SdkDies, SdkCallsTool, SdkRunsTool, SdkCancelsCheck,
      turnVars, pumpVars
<1>6. ASSUME NEW c \in Calls, CheckStep(c) PROVE Reaches(t, x)'
  <2>1. /\ turn' = turn /\ delivered' = delivered
        /\ queue'[t] \in {queue[t], Append(queue[t], Request(c))}
    BY <1>0, <1>6 DEF CheckStep, turnVars
  <2> QED
    BY <1>2, <2>1, EventFacts
<1>7. ASSUME NEW c \in Calls, NEW d \in Gate!UserDecisions, UserAnswers(c, d)
      PROVE  Reaches(t, x)'
  BY <1>1, <1>7 DEF UserAnswers, turnVars, pumpVars
<1>8. CASE Shutdown
  BY <1>1, <1>8 DEF Shutdown, pumpVars
<1>9. CASE UNCHANGED vars
  BY <1>1, <1>9 DEF vars, turnVars, pumpVars
<1> QED
  BY <1>4, <1>5, <1>6, <1>7, <1>8, <1>9 DEF Next

\* Only asking makes a check wait.
LEMMA OnlyAskWaits ==
  ASSUME pc \in [Calls -> {"idle"} \cup Gate!InFlight \cup Gate!Ended],
         asked \in [Calls -> Turns \cup {NoTurn}],
         NEW c \in Calls, [Next]_vars, pc'[c] = "waiting"
  PROVE  \/ pc[c] = "waiting" /\ asked'[c] = asked[c]
         \/ CheckStep(c) /\ Gate!Ask(c)
<1>1. ASSUME UNCHANGED <<pc, asked>> PROVE pc[c] = "waiting" /\ asked'[c] = asked[c]
  BY <1>1
<1>2. ASSUME NEW t \in Turns, TurnNext(t) PROVE UNCHANGED <<pc, asked>>
  BY <1>2
  DEF TurnNext, ChatStep, Submit, Reject, Persist, StartTurn, Connected, ConnectFails,
      Disconnected, LaunchPump, Deliver, EndTurn, EndFailedTurn, GapTimeout, Close, Abandon,
      Query, Receive, ReceiveStops, Gate!Bind, Gate!Unbind, gateVars
<1>3. ASSUME NEW k \in Clients, SdkDies(k) \/ \E t \in Turns : SdkText(k, t) \/ SdkResult(k, t)
      PROVE  UNCHANGED <<pc, asked>>
  BY <1>3 DEF SdkDies, SdkText, SdkResult, gateVars
<1>4. ASSUME NEW e \in Calls, SdkCallsTool(e) \/ SdkRunsTool(e) \/ SdkCancelsCheck(e)
      PROVE  pc[c] = "waiting" /\ asked'[c] = asked[c]
  BY <1>4
  DEF SdkCallsTool, SdkRunsTool, SdkCancelsCheck, Gate!StartRead, Gate!StartWrite,
      Gate!RunTool, Gate!Cancel, Gate!Goto
<1>5. ASSUME NEW e \in Calls, CheckStep(e)
      PROVE  \/ pc[c] = "waiting" /\ asked'[c] = asked[c]
             \/ e = c /\ Gate!Ask(c)
  <2>1. CASE Gate!Ask(e)
    BY <2>1 DEF Gate!Ask, Gate!Goto
  <2>2. CASE Gate!Expire(e)
    BY <2>2 DEF Gate!Expire
  <2>3. CASE \/ Gate!CreateCommits(e) \/ Gate!DatabaseFails(e) \/ Gate!AskNobody(e)
             \/ Gate!RefusalCommits(e) \/ Gate!RefusalReturns(e) \/ Gate!Wake(e)
             \/ Gate!RecordCommits(e) \/ Gate!Returns(e)
    BY <2>3
    DEF Gate!CreateCommits, Gate!DatabaseFails, Gate!AskNobody, Gate!RefusalCommits,
        Gate!RefusalReturns, Gate!Wake, Gate!RecordCommits, Gate!Returns, Gate!Goto
  <2> QED
    BY <1>5, <2>1, <2>2, <2>3 DEF CheckStep, Gate!CheckStep
<1>6. ASSUME NEW e \in Calls, NEW d \in Gate!UserDecisions, UserAnswers(e, d)
      PROVE  UNCHANGED <<pc, asked>>
  BY <1>6 DEF UserAnswers, Gate!Resolve
<1>7. CASE Shutdown \/ UNCHANGED vars
  BY <1>1, <1>7 DEF Shutdown, vars, gateVars
<1> QED
  BY <1>1, <1>2, <1>3, <1>4, <1>5, <1>6, <1>7 DEF Next, SdkNext

\* A step keeps the requests of the waiting checks on their way.
LEMMA RequestStep ==
  ASSUME ServiceInv, RequestReachesStream, [Next]_vars PROVE RequestReachesStream'
<1> SUFFICES ASSUME NEW c \in Calls, pc'[c] = "waiting"
             PROVE  Reaches(asked[c], Request(c))'
  BY DEF RequestReachesStream, Reaches, Request
<1>1. /\ pc \in [Calls -> {"idle"} \cup Gate!InFlight \cup Gate!Ended]
      /\ asked \in [Calls -> Turns \cup {NoTurn}]
      /\ queues \in [Conversations -> Turns \cup {NoTurn}]
      /\ queue \in [Turns -> Seq(Events)]
  BY DEF ServiceInv, TypeOK, Gate!TypeOK, TurnTypeOK, PumpTypeOK
<1>2. CASE pc[c] = "waiting" /\ asked'[c] = asked[c]
  <2>1. asked[c] \in Turns
    BY <1>1, <1>2 DEF ServiceInv, Gate!GateInv, Gate!CallInv
  <2>2. Reaches(asked[c], Request(c))
    BY <1>2 DEF RequestReachesStream, Reaches
  <2>3. PICK t \in Turns : t = asked[c]
    BY <2>1
  <2>4. Reaches(t, Request(c))'
    BY <2>2, <2>3, ReachesStep DEF ServiceInv, TypeOK
  <2> QED
    BY <1>2, <2>3, <2>4 DEF Reaches, Request
<1>3. CASE CheckStep(c) /\ Gate!Ask(c)
  <2>1. /\ pc[c] = "created" /\ asked'[c] = queues[ConvOf[TurnOf[c]]]
        /\ asked'[c] # NoTurn
    BY <1>1, <1>3 DEF Gate!Ask, Gate!Goto, Gate!QueueOf
  <2>2. asked'[c] \in Turns /\ asked[c] = NoTurn
    BY <1>1, <2>1, TurnsAssumption DEF ServiceInv, Gate!GateInv, Gate!CallInv
  <2>3. PICK t \in Turns : t = asked'[c]
    BY <2>2
  <2>4. queue'[t] = Append(queue[t], Request(c))
    BY <1>1, <1>3, <2>1, <2>2, <2>3 DEF CheckStep
  <2>5. Len(queue[t]) + 1 \in DOMAIN queue'[t] /\ queue'[t][Len(queue[t]) + 1] = Request(c)
    BY <1>1, <2>4, EventFacts, AppendedAt
  <2> QED
    BY <2>3, <2>5 DEF Reaches, Request
<1> QED
  BY <1>1, <1>2, <1>3, OnlyAskWaits

\* Nothing but the end of the stream that took it leaves a request unseen.
THEOREM RequestsReachStreams == Spec => []RequestReachesStream
<1>1. Init => RequestReachesStream
  BY DEF Init, Gate!Init, RequestReachesStream
<1>2. ServiceInv /\ RequestReachesStream /\ [Next]_vars => RequestReachesStream'
  BY RequestStep
<1> QED
  BY <1>1, <1>2, Invariance, PTL DEF Spec

-----------------------------------------------------------------------------
(* The notice of a restart, when no browser goes away.                     *)

\* A notice that is owed is remembered by the service, or by a turn that has
\* taken the flag and not yet got to saying it.
NoticeInv ==
  \A v \in owesNotice :
    \/ v \in restarted
    \/ \E t \in noticeDue : ConvOf[t] = v /\ turn[t] \in {"connecting", "starting"}

\* A step keeps that: only going away while connecting would lose the notice.
LEMMA NoticeStep ==
  ASSUME Abandonable = {}, ChatTypeOK, NoticeInv, [Next]_vars
  PROVE  NoticeInv'
<1>1. ASSUME UNCHANGED <<turn, restarted, noticeDue, owesNotice>> PROVE NoticeInv'
  BY <1>1 DEF NoticeInv
<1>2. ASSUME NEW t \in Turns, TurnNext(t) PROVE NoticeInv'
  <2>0. ConvOf[t] \in Conversations
    BY TurnsAssumption
  <2> USE DEF ChatTypeOK, Goto
  <2>1. CASE Submit(t) \/ Reject(t) \/ Persist(t)
    BY <2>1 DEF Submit, Reject, Persist, NoticeInv
  <2>2. CASE StartTurn(t)
    <3>1. /\ turn[t] = "submitted"
          /\ \E to \in {"starting", "connecting"} : turn' = [turn EXCEPT ![t] = to]
          /\ UNCHANGED owesNotice
      BY <2>2 DEF StartTurn, GetClient
    <3> QED
      BY <2>0, <2>2, <3>1 DEF StartTurn, TakeRestart, NoticeInv
  <2>3. CASE Connected(t)
    BY <2>3 DEF Connected, NoticeInv
  <2>4. CASE ConnectFails(t) \/ EndFailedTurn(t) \/ GapTimeout(t)
    <3>1. /\ turn' = [turn EXCEPT ![t] = "dropping"]
          /\ restarted' = restarted \cup {ConvOf[t]}
          /\ owesNotice' = owesNotice \cup {ConvOf[t]}
          /\ UNCHANGED noticeDue
      BY <2>4 DEF ConnectFails, EndFailedTurn, GapTimeout, Drop
    <3> QED
      BY <2>0, <3>1 DEF NoticeInv
  <2>5. CASE LaunchPump(t)
    BY <2>0, <2>5 DEF LaunchPump, NoticeInv
  <2>6. CASE Disconnected(t) \/ EndTurn(t) \/ Close(t)
    BY <2>6 DEF Disconnected, EndTurn, Close, NoticeInv
  <2>7. CASE Deliver(t) \/ Query(t) \/ Receive(t) \/ ReceiveStops(t)
    BY <1>1, <2>7 DEF Deliver, Query, Receive, ReceiveStops, turnVars
  <2>8. ~ Abandon(t)
    BY DEF Abandon
  <2> QED
    BY <1>2, <2>1, <2>2, <2>3, <2>4, <2>5, <2>6, <2>7, <2>8 DEF TurnNext, ChatStep
<1>3. CASE SdkNext
  BY <1>1, <1>3 DEF SdkNext, SdkDies, SdkText, SdkResult, SdkCallsTool, SdkRunsTool,
                    SdkCancelsCheck, turnVars
<1>4. ASSUME NEW c \in Calls, CheckStep(c) \/ \E d \in Gate!UserDecisions : UserAnswers(c, d)
      PROVE  NoticeInv'
  BY <1>1, <1>4 DEF CheckStep, UserAnswers, turnVars
<1>5. CASE Shutdown
  BY <1>5 DEF Shutdown, NoticeInv
<1>6. CASE UNCHANGED vars
  BY <1>1, <1>6 DEF vars, turnVars
<1> QED
  BY <1>2, <1>3, <1>4, <1>5, <1>6 DEF Next

\* Where browsers stay, however the turns overlap, a conversation whose session
\* was restarted is told so: the notice stays due until it is delivered
\* (service.py 5-6).
THEOREM NoticeStaysDue ==
  ASSUME Abandonable = {}
  PROVE  Spec => []NoticeNotLost
<1>1. Init => NoticeInv
  BY DEF Init, NoticeInv
<1>2. ServiceInv => ChatTypeOK
  BY DEF ServiceInv, TypeOK, TurnTypeOK
<1>3. NoticeInv => NoticeNotLost
  BY DEF NoticeInv, NoticeNotLost, Active
<1> QED
  BY <1>1, <1>2, <1>3, NoticeStep, Invariance, PTL DEF Spec

-----------------------------------------------------------------------------
(* One tab per conversation: turns that do not overlap, and no browser goes *)
(* away.                                                                   *)

InProgress == {"submitted"} \cup Active

OneAtATime == \A t, u \in Turns :
  /\ ConvOf[t] = ConvOf[u]
  /\ turn[t] \in InProgress /\ turn[u] \in InProgress
  => t = u

\* Whether the conversation of a turn still has the turn's client.
Keeps(t) ==
  \/ turn[t] \in {"starting", "running"}
  \/ turn[t] = "closing" /\ t \notin failed
Lacks(t) ==
  \/ turn[t] \in {"connecting", "dropping"}
  \/ turn[t] = "closing" /\ t \in failed

KeepsInv(t) ==
  /\ Keeps(t) => clients[ConvOf[t]] = client[t]
  /\ Lacks(t) => clients[ConvOf[t]] = NoClient
  /\ turn[t] = "dropping" => t \in failed
  /\ turn[t] \in {"idle", "submitted", "connecting", "starting"} => pump[t] = "none"
  /\ turn[t] = "closing" /\ t \notin failed => pump[t] \notin Pumping

\* A live session is its conversation's, or is being disconnected.
BeingDropped(k, v) ==
  \E u \in Turns : turn[u] = "dropping" /\ ConvOf[u] = v /\ doomed[u] = k

SessionInv(t) ==
  client[t] # NoClient =>
    /\ link[client[t]] = "up" =>
         \/ clients[ConvOf[t]] = client[t]
         \/ BeingDropped(client[t], ConvOf[t])
    /\ \A u \in Turns : client[u] = client[t] => ConvOf[u] = ConvOf[t]

\* The end marker is the pump's last event.
EndsWithPump(t) == \A i \in DOMAIN queue[t] : queue[t][i] = End => pump[t] = "done"

\* A step keeps the turns of a conversation apart.
LEMMA OneAtATimeStep ==
  ASSUME ~Overlapping, ChatTypeOK, OneAtATime, [Next]_vars
  PROVE  OneAtATime'
<1>1. ASSUME UNCHANGED turn PROVE OneAtATime'
  BY <1>1 DEF OneAtATime
<1>2. ASSUME NEW t \in Turns, TurnNext(t) PROVE OneAtATime'
  <2> USE DEF ChatTypeOK, Goto, InProgress, Active, Over
  <2>1. CASE Submit(t)
    <3>1. /\ turn' = [turn EXCEPT ![t] = "submitted"]
          /\ \A u \in Turns : ConvOf[u] = ConvOf[t] => turn[u] \notin InProgress
      BY <2>1 DEF Submit
    <3> QED
      BY <3>1 DEF OneAtATime
  <2>2. CASE UNCHANGED turn
    BY <1>1, <2>2
  <2>3. CASE \E to : turn' = [turn EXCEPT ![t] = to] /\ turn[t] \in InProgress
    BY <2>3 DEF OneAtATime
  <2>4. CASE Persist(t)
    BY <2>4 DEF Persist, OneAtATime
  <2>5. \/ Submit(t) \/ Persist(t) \/ UNCHANGED turn
        \/ \E to : turn' = [turn EXCEPT ![t] = to] /\ turn[t] \in InProgress
    BY <1>2 DEF TurnNext, ChatStep, Reject, StartTurn, GetClient, Connected, ConnectFails,
         Disconnected, LaunchPump, Deliver, EndTurn, EndFailedTurn, GapTimeout, Drop, AtEnd,
         GapTimeoutGuard, Close, Abandon, Query, Receive, ReceiveStops, turnVars
  <2> QED
    BY <2>1, <2>2, <2>3, <2>4, <2>5
<1>3. CASE SdkNext
  BY <1>1, <1>3 DEF SdkNext, SdkDies, SdkText, SdkResult, SdkCallsTool, SdkRunsTool,
                    SdkCancelsCheck, turnVars
<1>4. ASSUME NEW c \in Calls, CheckStep(c) \/ \E d \in Gate!UserDecisions : UserAnswers(c, d)
      PROVE  OneAtATime'
  BY <1>1, <1>4 DEF CheckStep, UserAnswers, turnVars
<1>5. CASE Shutdown
  BY <1>1, <1>5 DEF Shutdown
<1>6. CASE UNCHANGED vars
  BY <1>1, <1>6 DEF vars, turnVars
<1> QED
  BY <1>2, <1>3, <1>4, <1>5, <1>6 DEF Next

\* The head of a sequence is its first element.
LEMMA HeadIsFirst ==
  ASSUME NEW S, NEW s \in Seq(S), s # <<>>
  PROVE  1 \in DOMAIN s /\ Head(s) = s[1]
<1>1. Len(s) \in Nat /\ Len(s) # 0
  OBVIOUS
<1> QED
  BY <1>1

\* A step keeps what a turn says of its conversation's client.
LEMMA KeepsStep ==
  ASSUME Abandonable = {}, ChatLinkOK, queue \in [Turns -> Seq(Events)],
         TurnsInv, OneAtATime, \A t \in Turns : KeepsInv(t) /\ EndsWithPump(t),
         [Next]_vars, NEW u \in Turns
  PROVE  KeepsInv(u)'
<1>0. KeepsInv(u) /\ TurnInv(u) /\ NoClient \notin Clients
  BY TurnsAssumption DEF TurnsInv
<1>1. ASSUME UNCHANGED <<turn, client, clients, failed, pump>> PROVE KeepsInv(u)'
  BY <1>0, <1>1 DEF KeepsInv, Keeps, Lacks
<1>2. ASSUME NEW t \in Turns, TurnNext(t) PROVE KeepsInv(u)'
  <2>0. ConvOf[t] \in Conversations /\ TurnInv(t) /\ KeepsInv(t)
    BY TurnsAssumption DEF TurnsInv
  <2> USE DEF ChatLinkOK, ChatTypeOK, Goto, Active, Over, Pumping, KeepsInv, Keeps, Lacks
  <2>1. CASE Submit(t) \/ Reject(t) \/ Persist(t)
    BY <1>0, <2>1 DEF Submit, Reject, Persist, pumpVars
  <2>2. CASE StartTurn(t)
    <3>1. /\ turn[t] = "submitted" /\ UNCHANGED <<clients, failed, pump>>
          /\ \/ /\ turn' = [turn EXCEPT ![t] = "starting"]
                /\ client' = [client EXCEPT ![t] = clients[ConvOf[t]]]
             \/ /\ turn' = [turn EXCEPT ![t] = "connecting"]
                /\ clients[ConvOf[t]] = NoClient
                /\ \E k : client' = [client EXCEPT ![t] = k]
      BY <2>2 DEF StartTurn, GetClient, pumpVars
    <3> QED
      BY <1>0, <2>0, <3>1 DEF TurnInv
  <2>3. ASSUME turn[t] \in Active, ConvOf[u] = ConvOf[t], u # t PROVE ~Keeps(u) /\ ~Lacks(u)
    BY <2>3 DEF OneAtATime, InProgress
  <2>4. CASE Connected(t)
    <3>1. /\ turn[t] = "connecting" /\ turn' = [turn EXCEPT ![t] = "starting"]
          /\ clients' = [clients EXCEPT ![ConvOf[t]] = client[t]]
          /\ UNCHANGED <<client, failed, pump>>
      BY <2>4 DEF Connected, pumpVars
    <3> QED
      BY <1>0, <2>0, <2>3, <3>1
  <2>5. CASE ConnectFails(t) \/ EndFailedTurn(t) \/ GapTimeout(t)
    <3>1. /\ turn[t] \in {"connecting", "running"} /\ turn' = [turn EXCEPT ![t] = "dropping"]
          /\ clients' = [clients EXCEPT ![ConvOf[t]] = NoClient]
          /\ failed' = failed \cup {t} /\ UNCHANGED <<client, pump>>
      BY <2>5 DEF ConnectFails, EndFailedTurn, GapTimeout, Drop, pumpVars
    <3> QED
      BY <1>0, <2>0, <2>3, <3>1
  <2>6. CASE Disconnected(t) \/ LaunchPump(t) \/ Deliver(t)
    BY <1>0, <2>0, <2>6 DEF Disconnected, LaunchPump, Deliver, pumpVars
  <2>7. CASE EndTurn(t)
    <3>1. pump[t] = "done"
      <4>1. queue[t] # <<>> /\ Head(queue[t]) = End
        BY <2>7 DEF EndTurn, AtEnd
      <4>2. queue[t] \in Seq(Events)
        OBVIOUS
      <4> QED
        BY <4>1, <4>2, HeadIsFirst DEF EndsWithPump
    <3> QED
      BY <1>0, <2>0, <2>7, <3>1 DEF EndTurn, pumpVars
  <2>8. CASE Close(t)
    BY <1>0, <2>0, <2>8 DEF Close, CancelPump
  <2>9. CASE Query(t) \/ Receive(t) \/ ReceiveStops(t)
    <3>1. /\ pump[t] \in Pumping /\ UNCHANGED <<turn, client, clients, failed>>
          /\ \E to : pump' = [pump EXCEPT ![t] = to] \/ UNCHANGED pump
      BY <2>9 DEF Query, Receive, ReceiveStops, PumpEnds, turnVars
    <3> QED
      BY <1>0, <2>0, <3>1
  <2>10. ~ Abandon(t)
    BY DEF Abandon
  <2> QED
    BY <1>2, <2>1, <2>2, <2>4, <2>5, <2>6, <2>7, <2>8, <2>9, <2>10 DEF TurnNext, ChatStep
<1>3. CASE SdkNext
  BY <1>1, <1>3 DEF SdkNext, SdkDies, SdkText, SdkResult, SdkCallsTool, SdkRunsTool,
                    SdkCancelsCheck, turnVars, pumpVars
<1>4. ASSUME NEW c \in Calls, CheckStep(c) \/ \E d \in Gate!UserDecisions : UserAnswers(c, d)
      PROVE  KeepsInv(u)'
  BY <1>1, <1>4 DEF CheckStep, UserAnswers, turnVars, pumpVars
<1>5. CASE Shutdown
  BY <1>0, <1>5 DEF Shutdown, pumpVars, KeepsInv, Keeps, Lacks, Active
<1>6. CASE UNCHANGED vars
  BY <1>1, <1>6 DEF vars, turnVars, pumpVars
<1> QED
  BY <1>2, <1>3, <1>4, <1>5, <1>6 DEF Next

\* A step keeps where the live sessions are.
LEMMA SessionStep ==
  ASSUME Abandonable = {}, ChatLinkOK, TurnsInv, OneAtATime,
         \A t \in Turns : KeepsInv(t) /\ SessionInv(t),
         [Next]_vars, NEW u \in Turns
  PROVE  SessionInv(u)'
<1>0. SessionInv(u) /\ TurnInv(u) /\ NoClient \notin Clients /\ ConvOf[u] \in Conversations
  BY TurnsAssumption DEF TurnsInv
<1>1. ASSUME UNCHANGED <<turn, client, doomed, clients, link>> PROVE SessionInv(u)'
  BY <1>0, <1>1 DEF SessionInv, BeingDropped
<1>2. ASSUME NEW t \in Turns, TurnNext(t) PROVE SessionInv(u)'
  <2>0. ConvOf[t] \in Conversations /\ TurnInv(t) /\ KeepsInv(t)
    BY TurnsAssumption DEF TurnsInv
  <2> USE DEF ChatLinkOK, ChatTypeOK, Goto
  <2>1. ASSUME UNCHANGED <<client, doomed, clients, link>>,
               \A w \in Turns : turn[w] = "dropping" => turn'[w] = "dropping"
        PROVE  SessionInv(u)'
    BY <1>0, <2>1 DEF SessionInv, BeingDropped
  <2>2. CASE Submit(t) \/ Reject(t) \/ Persist(t) \/ LaunchPump(t) \/ EndTurn(t) \/ Close(t)
    BY <2>1, <2>2 DEF Submit, Reject, Persist, LaunchPump, EndTurn, Close, sdkVars
  <2>3. CASE StartTurn(t)
    <3>0. /\ turn[t] = "submitted" /\ UNCHANGED <<clients, doomed>>
          /\ \E to : to # "dropping" /\ turn' = [turn EXCEPT ![t] = to]
      BY <2>3 DEF StartTurn, GetClient
    <3>1. CASE /\ clients[ConvOf[t]] # NoClient /\ UNCHANGED link
               /\ client' = [client EXCEPT ![t] = clients[ConvOf[t]]]
      <4>1. \A w \in Turns : client[w] = clients[ConvOf[t]] => ConvOf[w] = ConvOf[t]
        BY <2>0, <3>1 DEF TurnsInv, TurnInv
      <4>2. BeingDropped(client[u], ConvOf[u]) => BeingDropped(client[u], ConvOf[u])'
                                                    \/ u = t
        BY <3>0, <3>1 DEF BeingDropped
      <4> QED
        BY <1>0, <3>0, <3>1, <4>1, <4>2 DEF SessionInv
    <3>2. ASSUME NEW k \in Clients, link[k] = "new",
                 client' = [client EXCEPT ![t] = k],
                 link' = [link EXCEPT ![k] = "connecting"]
          PROVE  SessionInv(u)'
      <4>1. \A w \in Turns : client[w] # k
        BY <1>0, <3>2 DEF TurnsInv, TurnInv
      <4>2. BeingDropped(client[u], ConvOf[u]) => BeingDropped(client[u], ConvOf[u])'
                                                    \/ u = t
        BY <3>0, <3>2 DEF BeingDropped
      <4> QED
        BY <1>0, <3>0, <3>2, <4>1, <4>2 DEF SessionInv
    <3>3. NewClients # {} => \E k \in Clients : link[k] = "new" /\ k = CHOOSE n \in NewClients : TRUE
      BY DEF NewClients
    <3> QED
      BY <2>3, <3>1, <3>2, <3>3 DEF StartTurn, GetClient
  <2>4. CASE Connected(t)
    <3>1. /\ turn[t] = "connecting" /\ client[t] \in Clients
          /\ turn' = [turn EXCEPT ![t] = "starting"]
          /\ clients' = [clients EXCEPT ![ConvOf[t]] = client[t]]
          /\ link' = [link EXCEPT ![client[t]] = "up"]
          /\ UNCHANGED <<client, doomed>>
          /\ \A w \in Turns \ {t} : client[w] # client[t]
          /\ clients[ConvOf[t]] = NoClient
      BY <2>0, <2>4 DEF Connected, TurnInv, Connecting, KeepsInv, Lacks, Active, Over
    <3>2. CASE u = t
      BY <1>0, <2>0, <3>1, <3>2 DEF SessionInv
    <3>3. CASE u # t
      <4>1. BeingDropped(client[u], ConvOf[u]) => BeingDropped(client[u], ConvOf[u])'
        BY <3>1 DEF BeingDropped
      <4>2. ASSUME client[u] # NoClient, ConvOf[u] = ConvOf[t] PROVE link[client[u]] # "up"
        <5>1. ~ BeingDropped(client[u], ConvOf[u])
          BY <3>1, <4>2 DEF BeingDropped, OneAtATime, InProgress, Active
        <5> QED
          BY <1>0, <3>1, <4>2, <5>1 DEF SessionInv
      <4> QED
        BY <1>0, <3>1, <3>3, <4>1, <4>2 DEF SessionInv
    <3> QED
      BY <3>2, <3>3
  <2>5. CASE ConnectFails(t) \/ EndFailedTurn(t) \/ GapTimeout(t)
    <3>1. /\ turn[t] \in {"connecting", "running"}
          /\ turn' = [turn EXCEPT ![t] = "dropping"]
          /\ doomed' = [doomed EXCEPT ![t] = clients[ConvOf[t]]]
          /\ clients' = [clients EXCEPT ![ConvOf[t]] = NoClient]
          /\ UNCHANGED client
          /\ UNCHANGED link \/ link' = [link EXCEPT ![client[t]] = "closed"]
      BY <2>5 DEF ConnectFails, EndFailedTurn, GapTimeout, Drop, sdkVars
    <3>2. BeingDropped(client[u], ConvOf[u]) => BeingDropped(client[u], ConvOf[u])'
      BY <3>1 DEF BeingDropped
    <3>3. clients[ConvOf[t]] = client[u] /\ ConvOf[u] = ConvOf[t]
            => BeingDropped(client[u], ConvOf[u])'
      BY <3>1 DEF BeingDropped
    <3>4. client[u] # NoClient /\ link'[client[u]] = "up" => link[client[u]] = "up"
      BY <1>0, <3>1
    <3>5. \A w \in Turns : client'[w] = client[w]
      BY <3>1
    <3> QED
      BY <1>0, <2>0, <3>1, <3>2, <3>3, <3>4, <3>5 DEF SessionInv
  <2>6. CASE Disconnected(t)
    <3>1. /\ turn[t] = "dropping" /\ turn' = [turn EXCEPT ![t] = "closing"]
          /\ doomed' = [doomed EXCEPT ![t] = NoClient]
          /\ link' = IF doomed[t] = NoClient THEN link
                     ELSE [link EXCEPT ![doomed[t]] = "closed"]
          /\ UNCHANGED <<client, clients>>
      BY <2>6 DEF Disconnected
    <3>2. client[u] # NoClient /\ link'[client[u]] = "up" =>
            link[client[u]] = "up" /\ doomed[t] # client[u]
      BY <1>0, <3>1
    <3>3. BeingDropped(client[u], ConvOf[u]) /\ doomed[t] # client[u]
            => BeingDropped(client[u], ConvOf[u])'
      BY <3>1 DEF BeingDropped
    <3> QED
      BY <1>0, <3>1, <3>2, <3>3 DEF SessionInv
  <2>7. CASE Deliver(t) \/ Query(t) \/ Receive(t) \/ ReceiveStops(t)
    BY <1>1, <2>7 DEF Deliver, Query, Receive, ReceiveStops, turnVars, sdkVars
  <2>8. ~ Abandon(t)
    BY DEF Abandon
  <2> QED
    BY <1>2, <2>2, <2>3, <2>4, <2>5, <2>6, <2>7, <2>8 DEF TurnNext, ChatStep
<1>3. CASE SdkNext
  <2>1. ASSUME NEW k \in Clients, SdkDies(k) PROVE SessionInv(u)'
    <3>1. /\ UNCHANGED <<turn, client, doomed, clients>>
          /\ link' = [link EXCEPT ![k] = "dead"]
      BY <2>1 DEF SdkDies, turnVars
    <3>2. client[u] # NoClient /\ link'[client[u]] = "up" => link[client[u]] = "up"
      BY <1>0, <3>1 DEF ChatLinkOK, ChatTypeOK
    <3> QED
      BY <1>0, <3>1, <3>2 DEF SessionInv, BeingDropped
  <2>2. ASSUME NEW k \in Clients, NEW t \in Turns, SdkText(k, t) \/ SdkResult(k, t)
        PROVE  SessionInv(u)'
    BY <1>1, <2>2 DEF SdkText, SdkResult, turnVars
  <2>3. ASSUME NEW c \in Calls, SdkCallsTool(c) \/ SdkRunsTool(c) \/ SdkCancelsCheck(c)
        PROVE  SessionInv(u)'
    BY <1>1, <2>3 DEF SdkCallsTool, SdkRunsTool, SdkCancelsCheck, turnVars, sdkVars
  <2> QED
    BY <1>3, <2>1, <2>2, <2>3 DEF SdkNext
<1>4. ASSUME NEW c \in Calls, CheckStep(c) \/ \E d \in Gate!UserDecisions : UserAnswers(c, d)
      PROVE  SessionInv(u)'
  BY <1>1, <1>4 DEF CheckStep, UserAnswers, turnVars, sdkVars
<1>5. CASE Shutdown
  <2>1. /\ \A t \in Turns : turn[t] # "dropping"
        /\ link' = [k \in Clients |->
              IF \E v \in Conversations : clients[v] = k THEN "closed" ELSE link[k]]
        /\ UNCHANGED client
    BY <1>5 DEF Shutdown, Active
  <2>2. ~ BeingDropped(client[u], ConvOf[u])
    BY <2>1 DEF BeingDropped
  <2>3. client[u] # NoClient => link'[client[u]] # "up"
    BY <1>0, <2>1, <2>2 DEF SessionInv, ChatLinkOK, ChatTypeOK
  <2> QED
    BY <1>0, <2>1, <2>3 DEF SessionInv
<1>6. CASE UNCHANGED vars
  BY <1>1, <1>6 DEF vars, turnVars, sdkVars
<1> QED
  BY <1>2, <1>3, <1>4, <1>5, <1>6 DEF Next

\* What one turn does not answer to.
Foreign(t) == {Text(u) : u \in Turns \ {t}} \cup {Done(u) : u \in Turns \ {t}}

\* The client answers turn t and nobody else; its result comes last.
AnswersOnly(t, todo, messages) ==
  /\ todo \in {<<>>, <<t>>}
  /\ \A i \in DOMAIN messages :
       /\ messages[i] \in {Text(t), Done(t)}
       /\ messages[i] = Done(t) => i = Len(messages) /\ todo = <<>>

OwnQueue(t, events) == \A i \in DOMAIN events : events[i] \notin Foreign(t)

Clear(k) == work[k] = <<>> /\ inbox[k] = <<>>

StreamInv(t) ==
  /\ pump[t] = "receiving" => AnswersOnly(t, work[client[t]], inbox[client[t]])
  /\ turn[t] \in Active /\ link[client[t]] = "up" =>
       Clear(client[t]) \/ pump[t] = "receiving"

\* Between turns, a conversation's live client has nothing left to say; nor
\* has one that is not connected yet.
IdleInv ==
  /\ \A v \in Conversations :
       /\ clients[v] # NoClient /\ link[clients[v]] = "up"
       /\ \A t \in Turns : ConvOf[t] = v => turn[t] \notin Active
       => Clear(clients[v])
  /\ \A k \in Clients : link[k] \in {"new", "connecting"} => Clear(k)

ShownInv(t) == OwnQueue(t, queue[t]) /\ EndsWithPump(t) /\ delivered[t] \cap Foreign(t) = {}

\* Replies and other events are told apart by their kind and their turn.
LEMMA Kinds ==
  /\ \A t \in Turns : /\ Text(t) \notin Foreign(t) /\ Done(t) \notin Foreign(t)
                      /\ Text(t) # End /\ Done(t) # End /\ Text(t) # Done(t)
                      /\ Text(t).kind # "done" /\ Done(t).kind = "done"
                      /\ Notice \notin Foreign(t) /\ Error \notin Foreign(t)
                      /\ End \notin Foreign(t)
  /\ \A c \in Calls : Request(c) # End /\ \A t \in Turns : Request(c) \notin Foreign(t)
  /\ Notice # End /\ Error # End
<1>1. /\ \A t \in Turns : Text(t).kind = "text" /\ Done(t).kind = "done"
                          /\ Text(t).of = t /\ Done(t).of = t
      /\ \A c \in Calls : Request(c).kind = "approval_request"
      /\ Notice.kind = "notice" /\ Error.kind = "error" /\ End.kind = "end"
  BY DEF Text, Done, Request, Notice, Error, End
<1>2. \A t \in Turns : \A x \in Foreign(t) : x.kind \in {"text", "done"} /\ x.of # t
  BY <1>1 DEF Foreign
<1> HIDE DEF Text, Done, Request, Notice, Error, End
<1>3. \A t \in Turns : Text(t) \notin Foreign(t) /\ Done(t) \notin Foreign(t)
  BY <1>1, <1>2
<1>4. \A t \in Turns : Notice \notin Foreign(t) /\ Error \notin Foreign(t) /\ End \notin Foreign(t)
  BY <1>1, <1>2
<1>5. \A c \in Calls : Request(c) # End /\ \A t \in Turns : Request(c) \notin Foreign(t)
  BY <1>1, <1>2
<1>6. \A t \in Turns : Text(t) # End /\ Done(t) # End /\ Text(t) # Done(t)
  BY <1>1
<1> QED
  BY <1>1, <1>3, <1>4, <1>5, <1>6

\* What the elements of a shorter sequence are.
LEMMA TailAt ==
  ASSUME NEW S, NEW s \in Seq(S), s # <<>>
  PROVE  /\ Tail(s) \in Seq(S) /\ Len(s) \in Nat \ {0} /\ DOMAIN s = 1..Len(s)
         /\ Len(Tail(s)) = Len(s) - 1
         /\ DOMAIN Tail(s) = 1..(Len(s) - 1)
         /\ \A i \in DOMAIN Tail(s) : Tail(s)[i] = s[i + 1]
<1>1. Len(s) \in Nat /\ Len(s) # 0 /\ DOMAIN s = 1..Len(s)
  OBVIOUS
<1> QED
  BY <1>1

\* A client at work that adds text still answers that turn only.
LEMMA AnswersText ==
  ASSUME NEW t \in Turns, NEW todo, NEW messages \in Seq(Replies),
         AnswersOnly(t, todo, messages), todo # <<>>
  PROVE  AnswersOnly(t, todo, Append(messages, Text(t)))
<1>1. Text(t) \in Replies
  BY EventFacts
<1> QED
  BY <1>1, AppendedAt, Kinds DEF AnswersOnly

\* So does one that adds the result, which is its last message.
LEMMA AnswersDone ==
  ASSUME NEW t \in Turns, NEW todo, NEW messages \in Seq(Replies),
         AnswersOnly(t, todo, messages), todo # <<>>
  PROVE  AnswersOnly(t, Tail(todo), Append(messages, Done(t)))
<1>1. Done(t) \in Replies
  BY EventFacts
<1>2. Tail(todo) = <<>>
  <2>1. todo = <<t>>
    BY DEF AnswersOnly
  <2>2. <<t>> \in Seq(Turns) /\ Len(<<t>>) = 1 /\ <<t>> # <<>>
    OBVIOUS
  <2>3. Len(Tail(<<t>>)) = 0 /\ Tail(<<t>>) \in Seq(Turns)
    BY <2>2, TailAt
  <2> QED
    BY <2>1, <2>3, EmptySeq
<1>3. \A i \in DOMAIN messages : messages[i] = Text(t)
  BY DEF AnswersOnly
<1>4. ASSUME NEW i \in DOMAIN Append(messages, Done(t))
      PROVE  \/ i = Len(Append(messages, Done(t))) /\ Append(messages, Done(t))[i] = Done(t)
             \/ Append(messages, Done(t))[i] = Text(t)
  BY <1>1, <1>3, AppendedAt
<1> QED
  BY <1>2, <1>4, Kinds DEF AnswersOnly

\* What a pump takes is its own turn's; after the result nothing is left.
LEMMA AnswersTaken ==
  ASSUME NEW t \in Turns, NEW todo, NEW messages \in Seq(Replies),
         AnswersOnly(t, todo, messages), messages # <<>>
  PROVE  /\ Head(messages) \in {Text(t), Done(t)}
         /\ AnswersOnly(t, todo, Tail(messages))
         /\ Head(messages).kind = "done" => todo = <<>> /\ Tail(messages) = <<>>
<1>1. 1 \in DOMAIN messages /\ Head(messages) = messages[1]
  BY HeadIsFirst
<1>2. Head(messages) \in {Text(t), Done(t)}
  BY <1>1 DEF AnswersOnly
<1>3. AnswersOnly(t, todo, Tail(messages))
  BY TailAt DEF AnswersOnly
<1>4. ASSUME Head(messages).kind = "done" PROVE todo = <<>> /\ Tail(messages) = <<>>
  <2>1. Head(messages) = Done(t)
    BY <1>2, <1>4, Kinds
  <2>2. 1 = Len(messages) /\ todo = <<>>
    BY <1>1, <2>1 DEF AnswersOnly
  <2>3. Len(Tail(messages)) = 0 /\ Tail(messages) \in Seq(Replies)
    BY <2>2, TailAt
  <2> QED
    BY <2>2, <2>3, EmptySeq
<1> QED
  BY <1>2, <1>3, <1>4

\* What is assumed of a state in the proofs below, and holds in every one.
SerialInv ==
  /\ OneAtATime /\ IdleInv
  /\ \A t \in Turns : KeepsInv(t) /\ SessionInv(t) /\ StreamInv(t) /\ ShownInv(t)

SerialState == ChatLinkOK /\ PumpTypeOK /\ SdkTypeOK /\ TurnsInv /\ SerialInv

\* Two turns in progress have different clients.
LEMMA OwnClient ==
  ASSUME SerialState, NEW t \in Turns, NEW u \in Turns,
         turn[t] \in Active, turn[u] \in Active, client[t] = client[u]
  PROVE  t = u
<1>1. client[t] # NoClient
  BY DEF SerialState, TurnsInv, TurnInv
<1> QED
  BY <1>1 DEF SerialState, SerialInv, SessionInv, OneAtATime, InProgress

\* A turn that is answered is being pumped, and is the only work of its client.
LEMMA AnsweredIsPumped ==
  ASSUME SerialState, NEW k \in Clients, NEW t \in Turns, Answering(k, t),
         NEW u \in Turns, client[u] = k, pump[u] = "receiving" \/ turn[u] \in Active
  PROVE  /\ pump[u] = "receiving" /\ u = t
         /\ AnswersOnly(u, work[k], inbox[k]) /\ work[k] # <<>>
<1>1. StreamInv(u) /\ link[k] = "up" /\ work[k] # <<>> /\ Head(work[k]) = t
  BY DEF SerialState, SerialInv, Answering
<1>2. pump[u] = "receiving"
  BY <1>1 DEF StreamInv, Clear
<1>3. AnswersOnly(u, work[k], inbox[k])
  BY <1>1, <1>2 DEF StreamInv
<1>4. work[k] = <<u>>
  BY <1>1, <1>3 DEF AnswersOnly
<1> QED
  BY <1>1, <1>2, <1>3, <1>4

\* A step of a turn on its own client leaves the other turns' streams alone.
LEMMA OtherStreams ==
  ASSUME SerialState, NEW t \in Turns, NEW u \in Turns, u # t, turn[t] \in Active,
         UNCHANGED <<turn, client, link>>, pump'[u] = pump[u],
         \A k \in Clients : k # client[t] => work'[k] = work[k] /\ inbox'[k] = inbox[k]
  PROVE  StreamInv(u)'
<1>1. StreamInv(u) /\ TurnInv(u)
  BY DEF SerialState, SerialInv, TurnsInv
<1>2. CASE turn[u] \in Active
  <2>1. client[u] # client[t] /\ client[u] \in Clients
    BY <1>1, <1>2, OwnClient DEF TurnInv, SerialState, ChatLinkOK, ChatTypeOK
  <2> QED
    BY <1>1, <2>1 DEF StreamInv, Clear
<1>3. CASE turn[u] \notin Active
  BY <1>1, <1>3 DEF StreamInv, TurnInv, Pumping
<1> QED
  BY <1>2, <1>3

\* A query finds the client with nothing to do, and gives it its turn.
LEMMA QueryStream ==
  ASSUME SerialState, NEW t \in Turns, Query(t), NEW u \in Turns
  PROVE  StreamInv(u)'
<1>0. StreamInv(t) /\ TurnInv(t) /\ NoClient \notin Clients
  BY TurnsAssumption DEF SerialState, SerialInv, TurnsInv
<1>1. pump[t] = "querying" /\ turn[t] \in Active /\ client[t] \in Clients
  BY <1>0 DEF Query, TurnInv, Pumping, SerialState, ChatLinkOK, ChatTypeOK
<1>2. UNCHANGED <<turn, client, link, inbox>>
  BY DEF Query, turnVars
<1> USE DEF SerialState, ChatLinkOK, SdkTypeOK
<1>3. CASE link[client[t]] = "up"
  <2>1. /\ work' = [work EXCEPT ![client[t]] = Append(@, t)]
        /\ pump' = [pump EXCEPT ![t] = "receiving"]
    BY <1>3 DEF Query
  <2>2. CASE u = t
    <3>1. Clear(client[t])
      BY <1>0, <1>1, <1>3 DEF StreamInv
    <3>2. work'[client[t]] = <<t>> /\ inbox'[client[t]] = <<>>
      BY <1>1, <1>2, <2>1, <3>1 DEF Clear
    <3>3. AnswersOnly(t, <<t>>, <<>>)
      BY DEF AnswersOnly
    <3> QED
      BY <1>1, <1>2, <2>1, <2>2, <3>2, <3>3 DEF StreamInv
  <2>3. CASE u # t
    BY <1>1, <1>2, <2>1, <2>3, OtherStreams
  <2> QED
    BY <2>2, <2>3
<1>4. CASE link[client[t]] # "up"
  <2>1. UNCHANGED work /\ pump' = [pump EXCEPT ![t] = "done"]
    BY <1>4 DEF Query, PumpEnds
  <2>2. CASE u = t
    BY <1>1, <1>2, <1>4, <2>1, <2>2 DEF StreamInv
  <2>3. CASE u # t
    BY <1>1, <1>2, <2>1, <2>3, OtherStreams
  <2> QED
    BY <2>2, <2>3
<1> QED
  BY <1>3, <1>4

\* A pump that has taken the result leaves its client with nothing to do.
LEMMA ReceiveStream ==
  ASSUME SerialState, NEW t \in Turns, Receive(t), NEW u \in Turns
  PROVE  StreamInv(u)'
<1>0. StreamInv(t) /\ TurnInv(t) /\ NoClient \notin Clients
  BY TurnsAssumption DEF SerialState, SerialInv, TurnsInv
<1>1. /\ pump[t] = "receiving" /\ turn[t] \in Active /\ client[t] \in Clients
      /\ inbox[client[t]] # <<>>
  BY <1>0 DEF Receive, TurnInv, Pumping, SerialState, ChatLinkOK, ChatTypeOK
<1>2. /\ UNCHANGED <<turn, client, link, work>>
      /\ inbox' = [inbox EXCEPT ![client[t]] = Tail(@)]
      /\ IF Head(inbox[client[t]]).kind = "done"
         THEN pump' = [pump EXCEPT ![t] = "done"] ELSE UNCHANGED pump
  BY DEF Receive, PumpEnds, turnVars
<1> USE DEF SerialState, ChatLinkOK, SdkTypeOK
<1>3. CASE u = t
  <2>1. AnswersOnly(t, work[client[t]], inbox[client[t]]) /\ inbox[client[t]] \in Seq(Replies)
    BY <1>0, <1>1 DEF StreamInv
  <2>2. /\ AnswersOnly(t, work[client[t]], Tail(inbox[client[t]]))
        /\ Head(inbox[client[t]]).kind = "done" =>
             work[client[t]] = <<>> /\ Tail(inbox[client[t]]) = <<>>
    BY <1>1, <2>1, AnswersTaken
  <2>3. inbox'[client[t]] = Tail(inbox[client[t]])
    BY <1>1, <1>2
  <2> QED
    BY <1>1, <1>2, <1>3, <2>2, <2>3 DEF StreamInv, Clear
<1>4. CASE u # t
  BY <1>1, <1>2, <1>4, OtherStreams
<1> QED
  BY <1>3, <1>4

\* The SDK only adds to the stream of the turn it is answering.
LEMMA SdkStream ==
  ASSUME SerialState, NEW k \in Clients, NEW t \in Turns, SdkText(k, t) \/ SdkResult(k, t),
         NEW u \in Turns
  PROVE  StreamInv(u)'
<1>0. StreamInv(u) /\ TurnInv(u) /\ NoClient \notin Clients
  BY TurnsAssumption DEF SerialState, SerialInv, TurnsInv
<1>1. /\ Answering(k, t) /\ UNCHANGED <<turn, client, link, pump>>
      /\ \/ UNCHANGED work /\ inbox' = [inbox EXCEPT ![k] = Append(@, Text(t))]
         \/ /\ work' = [work EXCEPT ![k] = Tail(@)]
            /\ inbox' = [inbox EXCEPT ![k] = Append(@, Done(t))]
  BY DEF SdkText, SdkResult, turnVars, pumpVars
<1> USE DEF SerialState, ChatLinkOK, SdkTypeOK
<1>2. CASE client[u] = k /\ (pump[u] = "receiving" \/ turn[u] \in Active)
  <2>1. /\ pump[u] = "receiving" /\ u = t
        /\ AnswersOnly(t, work[k], inbox[k]) /\ work[k] # <<>> /\ inbox[k] \in Seq(Replies)
    BY <1>1, <1>2, AnsweredIsPumped
  <2>2. /\ AnswersOnly(t, work[k], Append(inbox[k], Text(t)))
        /\ AnswersOnly(t, Tail(work[k]), Append(inbox[k], Done(t)))
    BY <2>1, AnswersText, AnswersDone
  <2>3. AnswersOnly(t, work'[k], inbox'[k])
    BY <1>1, <2>2
  <2> QED
    BY <1>1, <1>2, <2>1, <2>3 DEF StreamInv
<1>3. CASE client[u] # k /\ (pump[u] = "receiving" \/ turn[u] \in Active)
  <2>1. client[u] \in Clients
    BY <1>0, <1>3 DEF TurnInv, Pumping, ChatTypeOK
  <2> QED
    BY <1>0, <1>1, <1>3, <2>1 DEF StreamInv, Clear
<1>4. CASE pump[u] # "receiving" /\ turn[u] \notin Active
  BY <1>1, <1>4 DEF StreamInv
<1> QED
  BY <1>2, <1>3, <1>4

\* A step keeps what the clients of the turns in progress have left to say.
LEMMA StreamStep ==
  ASSUME Abandonable = {}, SerialState, [Next]_vars, NEW u \in Turns
  PROVE  StreamInv(u)'
<1>0. StreamInv(u) /\ TurnInv(u) /\ NoClient \notin Clients /\ IdleInv
  BY TurnsAssumption DEF SerialState, SerialInv, TurnsInv
<1>1. ASSUME UNCHANGED <<turn, client, link, pump, work, inbox>> PROVE StreamInv(u)'
  BY <1>0, <1>1 DEF StreamInv, Clear
<1>2. ASSUME NEW t \in Turns, TurnNext(t) PROVE StreamInv(u)'
  <2>0. ConvOf[t] \in Conversations /\ TurnInv(t) /\ KeepsInv(t)
    BY TurnsAssumption DEF SerialState, SerialInv, TurnsInv
  <2> USE DEF SerialState, ChatLinkOK, ChatTypeOK, Goto, Over
  <2>1. CASE Submit(t) \/ Reject(t) \/ Persist(t)
    <3>1. UNCHANGED <<client, link, pump, work, inbox>>
      BY <2>1 DEF Submit, Reject, Persist, pumpVars, sdkVars
    <3>2. turn'[u] \in Active => turn[u] \in Active
      BY <2>1 DEF Submit, Reject, Persist, Active
    <3> QED
      BY <1>0, <3>1, <3>2 DEF StreamInv, Clear
  <2>2. CASE StartTurn(t)
    <3>0. /\ turn[t] = "submitted" /\ UNCHANGED <<pump, work, inbox>>
          /\ \E to : turn' = [turn EXCEPT ![t] = to]
      BY <2>2 DEF StartTurn, GetClient, pumpVars
    <3>1. pump[t] # "receiving" /\ turn[t] \notin Active
      BY <2>0, <3>0 DEF TurnInv, Active, Pumping
    <3>2. CASE /\ clients[ConvOf[t]] # NoClient /\ UNCHANGED link
               /\ client' = [client EXCEPT ![t] = clients[ConvOf[t]]]
      <4>1. \A w \in Turns : ConvOf[w] = ConvOf[t] => turn[w] \notin Active
        BY <3>0, <3>1 DEF SerialInv, OneAtATime, InProgress
      <4>2. link[clients[ConvOf[t]]] = "up" => Clear(clients[ConvOf[t]])
        BY <1>0, <2>0, <3>2, <4>1 DEF IdleInv
      <4>3. CASE u = t
        BY <3>0, <3>1, <3>2, <4>2, <4>3 DEF StreamInv, Clear
      <4>4. CASE u # t
        BY <1>0, <3>0, <3>2, <4>4 DEF StreamInv, Clear
      <4> QED
        BY <4>3, <4>4
    <3>3. ASSUME NEW k \in Clients, link[k] = "new",
                 client' = [client EXCEPT ![t] = k],
                 link' = [link EXCEPT ![k] = "connecting"]
          PROVE  StreamInv(u)'
      <4>1. CASE u = t
        BY <3>0, <3>1, <3>3, <4>1 DEF StreamInv
      <4>2. CASE u # t
        BY <1>0, <3>0, <3>3, <4>2 DEF StreamInv, Clear, TurnInv
      <4> QED
        BY <4>1, <4>2
    <3>4. NewClients # {} => \E k \in Clients : link[k] = "new" /\ k = CHOOSE n \in NewClients : TRUE
      BY DEF NewClients
    <3> QED
      BY <2>2, <3>2, <3>3, <3>4 DEF StartTurn, GetClient
  <2>3. CASE Connected(t)
    <3>1. /\ turn[t] = "connecting" /\ client[t] \in Clients /\ link[client[t]] = "connecting"
          /\ \A w \in Turns \ {t} : client[w] # client[t]
          /\ turn' = [turn EXCEPT ![t] = "starting"]
          /\ link' = [link EXCEPT ![client[t]] = "up"]
          /\ UNCHANGED <<client, pump, work, inbox>>
      BY <2>0, <2>3 DEF Connected, TurnInv, Connecting, Active, pumpVars
    <3>2. Clear(client[t])
      BY <1>0, <3>1 DEF IdleInv
    <3>3. CASE u = t
      BY <1>0, <3>1, <3>2, <3>3 DEF StreamInv, Clear
    <3>4. CASE u # t
      BY <1>0, <3>1, <3>4 DEF StreamInv, Clear
    <3> QED
      BY <3>3, <3>4
  <2>4. CASE ConnectFails(t) \/ EndFailedTurn(t) \/ GapTimeout(t) \/ Disconnected(t)
             \/ LaunchPump(t) \/ EndTurn(t)
    <3>1. /\ turn[t] \in Active /\ \E to : turn' = [turn EXCEPT ![t] = to]
          /\ UNCHANGED <<client, work, inbox>>
          /\ \/ UNCHANGED pump
             \/ pump' = [pump EXCEPT ![t] = "querying"] /\ turn[t] = "starting"
          /\ UNCHANGED link \/ \E k : link' = [link EXCEPT ![k] = "closed"]
      BY <2>4 DEF ConnectFails, EndFailedTurn, GapTimeout, GapTimeoutGuard, AtEnd, Disconnected,
           LaunchPump, EndTurn, Drop, pumpVars, sdkVars, Active
    <3>2. turn[t] = "starting" => pump[t] # "receiving"
      BY <2>0 DEF KeepsInv, Pumping
    <3>3. turn[u] \in Active => client[u] \in Clients
      BY <1>0 DEF TurnInv
    <3> QED
      BY <1>0, <3>1, <3>2, <3>3 DEF StreamInv, Clear
  <2>5. CASE Close(t)
    <3>1. /\ turn' = [turn EXCEPT ![t] = "done"]
          /\ \E to : to # "receiving" /\ (pump' = [pump EXCEPT ![t] = to] \/ UNCHANGED pump)
          /\ UNCHANGED <<client, link, work, inbox>>
      BY <2>5 DEF Close, CancelPump, sdkVars, Pumping
    <3>2. CASE u = t
      BY <1>0, <3>1, <3>2 DEF StreamInv, Active
    <3>3. CASE u # t
      BY <1>0, <3>1, <3>3 DEF StreamInv, Clear
    <3> QED
      BY <3>2, <3>3
  <2>6. CASE Deliver(t)
    BY <1>1, <2>6 DEF Deliver, sdkVars
  <2>7. CASE ReceiveStops(t)
    <3>1. /\ UNCHANGED <<turn, client, link, work, inbox>>
          /\ pump' = [pump EXCEPT ![t] = "done"] /\ link[client[t]] # "up"
      BY <2>7 DEF ReceiveStops, PumpEnds, turnVars, sdkVars
    <3> QED
      BY <1>0, <3>1 DEF StreamInv, Clear
  <2>8. ~ Abandon(t)
    BY DEF Abandon
  <2> QED
    BY <1>2, <2>1, <2>2, <2>3, <2>4, <2>5, <2>6, <2>7, <2>8, QueryStream, ReceiveStream
    DEF TurnNext, ChatStep
<1>3. CASE SdkNext
  <2>1. ASSUME NEW k \in Clients, SdkDies(k) PROVE StreamInv(u)'
    <3>1. /\ UNCHANGED <<turn, client, pump, work, inbox>>
          /\ link' = [link EXCEPT ![k] = "dead"]
      BY <2>1 DEF SdkDies, turnVars, pumpVars
    <3>2. turn[u] \in Active => client[u] \in Clients
      BY <1>0 DEF TurnInv, SerialState, ChatLinkOK, ChatTypeOK
    <3> QED
      BY <1>0, <3>1, <3>2 DEF StreamInv, Clear, SerialState, ChatLinkOK
  <2>2. ASSUME NEW c \in Calls, SdkCallsTool(c) \/ SdkRunsTool(c) \/ SdkCancelsCheck(c)
        PROVE  StreamInv(u)'
    BY <1>1, <2>2 DEF SdkCallsTool, SdkRunsTool, SdkCancelsCheck, turnVars, pumpVars, sdkVars
  <2> QED
    BY <1>3, <2>1, <2>2, SdkStream DEF SdkNext
<1>4. ASSUME NEW c \in Calls, CheckStep(c) \/ \E d \in Gate!UserDecisions : UserAnswers(c, d)
      PROVE  StreamInv(u)'
  BY <1>1, <1>4 DEF CheckStep, UserAnswers, turnVars, pumpVars, sdkVars
<1>5. CASE Shutdown
  <2>1. /\ turn[u] \notin Active /\ UNCHANGED <<turn, client, pump, work, inbox>>
    BY <1>5 DEF Shutdown, pumpVars
  <2> QED
    BY <1>0, <2>1 DEF StreamInv
<1>6. CASE UNCHANGED vars
  BY <1>1, <1>6 DEF vars, turnVars, pumpVars, sdkVars
<1> QED
  BY <1>2, <1>3, <1>4, <1>5, <1>6 DEF Next

\* A step keeps the clients between turns with nothing left to say.
LEMMA IdleStep ==
  ASSUME Abandonable = {}, SerialState, [Next]_vars
  PROVE  IdleInv'
<1>0. NoClient \notin Clients /\ IdleInv
  BY TurnsAssumption DEF SerialState, SerialInv
<1> DEFINE Free(v) == \A t \in Turns : ConvOf[t] = v => turn[t] \notin Active
           IdleOf(v) == clients[v] # NoClient /\ link[clients[v]] = "up" /\ Free(v)
                          => Clear(clients[v])
           NewOf(k) == link[k] \in {"new", "connecting"} => Clear(k)
<1> SUFFICES /\ \A v \in Conversations : IdleOf(v)'
             /\ \A k \in Clients : NewOf(k)'
  BY DEF IdleInv
<1>1. \A v \in Conversations : IdleOf(v)
  BY <1>0 DEF IdleInv
<1>2. \A k \in Clients : NewOf(k)
  BY <1>0 DEF IdleInv
<1>3. \A v \in Conversations : clients[v] # NoClient => clients[v] \in Clients
  BY DEF SerialState, ChatLinkOK, ChatTypeOK
<1>4. ASSUME UNCHANGED <<turn, clients, link, work, inbox>>
      PROVE  /\ \A v \in Conversations : IdleOf(v)'
             /\ \A k \in Clients : NewOf(k)'
  BY <1>1, <1>2, <1>4 DEF Clear
<1>5. ASSUME NEW t \in Turns, TurnNext(t)
      PROVE  /\ \A v \in Conversations : IdleOf(v)'
             /\ \A k \in Clients : NewOf(k)'
  <2>0. ConvOf[t] \in Conversations /\ TurnInv(t) /\ KeepsInv(t) /\ StreamInv(t)
    BY TurnsAssumption DEF SerialState, SerialInv, TurnsInv
  <2> USE DEF SerialState, ChatLinkOK, ChatTypeOK, Goto, Over
  <2>1. CASE Submit(t) \/ Reject(t) \/ Persist(t)
    <3>1. UNCHANGED <<clients, link, work, inbox>>
      BY <2>1 DEF Submit, Reject, Persist, sdkVars
    <3>2. \A w \in Turns : turn[w] \in Active => turn'[w] \in Active
      BY <2>1 DEF Submit, Reject, Persist, Active
    <3> QED
      BY <1>1, <1>2, <3>1, <3>2 DEF Clear
  <2>2. CASE StartTurn(t)
    <3>1. /\ turn[t] = "submitted" /\ UNCHANGED <<clients, work, inbox>>
          /\ \E to \in {"starting", "connecting"} : turn' = [turn EXCEPT ![t] = to]
          /\ \/ UNCHANGED link
             \/ \E k \in Clients : link[k] = "new" /\ link' = [link EXCEPT ![k] = "connecting"]
      BY <2>2 DEF StartTurn, GetClient, NewClients
    <3>2. \A v \in Conversations : Free(v)' => Free(v)
      BY <3>1 DEF Active
    <3> QED
      BY <1>1, <1>2, <1>3, <3>1, <3>2 DEF Clear
  <2>3. CASE Connected(t)
    <3>1. /\ turn[t] = "connecting" /\ client[t] \in Clients
          /\ \A v \in Conversations : clients[v] # client[t]
          /\ turn' = [turn EXCEPT ![t] = "starting"]
          /\ link' = [link EXCEPT ![client[t]] = "up"]
          /\ clients' = [clients EXCEPT ![ConvOf[t]] = client[t]]
          /\ UNCHANGED <<work, inbox>>
      BY <2>0, <2>3 DEF Connected, TurnInv, Connecting, Active
    <3>2. ~ Free(ConvOf[t])' /\ \A v \in Conversations : Free(v)' => Free(v)
      BY <3>1 DEF Active
    <3>3. ASSUME NEW v \in Conversations PROVE IdleOf(v)'
      <4>1. CASE v = ConvOf[t]
        BY <3>2, <4>1
      <4>2. CASE v # ConvOf[t]
        <5>1. clients'[v] = clients[v] /\ clients[v] # client[t]
          BY <3>1, <4>2
        <5>2. clients[v] # NoClient => link'[clients[v]] = link[clients[v]]
          BY <1>3, <3>1, <5>1
        <5> QED
          BY <1>1, <3>1, <3>2, <5>1, <5>2 DEF Clear
      <4> QED
        BY <4>1, <4>2
    <3>4. \A k \in Clients : NewOf(k)'
      BY <1>2, <3>1 DEF Clear
    <3> QED
      BY <3>3, <3>4
  <2>4. CASE ConnectFails(t) \/ EndFailedTurn(t) \/ GapTimeout(t) \/ Disconnected(t)
             \/ LaunchPump(t) \/ EndTurn(t)
    <3>1. /\ UNCHANGED <<work, inbox>>
          /\ turn[t] \in Active /\ \E to \in Active : turn' = [turn EXCEPT ![t] = to]
          /\ UNCHANGED clients \/ clients' = [clients EXCEPT ![ConvOf[t]] = NoClient]
          /\ UNCHANGED link \/ \E k : link' = [link EXCEPT ![k] = "closed"]
      BY <2>4 DEF ConnectFails, EndFailedTurn, GapTimeout, GapTimeoutGuard, AtEnd, Disconnected,
           LaunchPump, EndTurn, Drop, sdkVars, Active
    <3>2. \A v \in Conversations : Free(v)' => Free(v)
      BY <3>1
    <3> QED
      BY <1>1, <1>2, <1>3, <3>1, <3>2 DEF Clear
  <2>5. CASE Close(t)
    <3>1. /\ turn[t] = "closing" /\ turn' = [turn EXCEPT ![t] = "done"]
          /\ UNCHANGED <<clients, link, work, inbox>>
      BY <2>5 DEF Close, sdkVars
    <3>2. IdleOf(ConvOf[t])'
      <4>1. CASE t \in failed
        BY <2>0, <3>1, <4>1 DEF KeepsInv, Lacks
      <4>2. CASE t \notin failed
        BY <2>0, <3>1, <4>2 DEF KeepsInv, Keeps, StreamInv, Clear, Active, Pumping
      <4> QED
        BY <4>1, <4>2
    <3>3. \A v \in Conversations : v # ConvOf[t] /\ Free(v)' => Free(v)
      BY <3>1
    <3> QED
      BY <1>1, <1>2, <3>1, <3>2, <3>3 DEF Clear
  <2>6. CASE Deliver(t) \/ ReceiveStops(t)
    BY <1>4, <2>6 DEF Deliver, ReceiveStops, turnVars, sdkVars
  <2>7. CASE Query(t) \/ Receive(t)
    <3>1. /\ turn[t] \in Active /\ UNCHANGED <<turn, clients, link>> /\ client[t] \in Clients
      BY <2>0, <2>7 DEF Query, Receive, TurnInv, Pumping, turnVars
    <3>2. \A k \in Clients \ {client[t]} : UNCHANGED <<work[k], inbox[k]>>
      BY <2>7 DEF Query, Receive, SdkTypeOK
    <3>3. link[client[t]] \in {"new", "connecting"} => UNCHANGED <<work, inbox>>
      <4>1. link[client[t]] \in {"new", "connecting"} => inbox[client[t]] = <<>>
        BY <1>2, <3>1 DEF Clear
      <4> QED
        BY <2>7, <4>1 DEF Query, Receive
    <3>4. \A v \in Conversations : Free(v)' => Free(v) /\ clients[v] # client[t]
      BY <2>0, <3>1 DEF TurnInv
    <3>5. \A k \in Clients : NewOf(k)'
      BY <1>2, <3>1, <3>2, <3>3 DEF Clear
    <3> QED
      BY <1>1, <1>3, <3>1, <3>2, <3>4, <3>5 DEF Clear
  <2>8. ~ Abandon(t)
    BY DEF Abandon
  <2> QED
    BY <1>5, <2>1, <2>2, <2>3, <2>4, <2>5, <2>6, <2>7, <2>8 DEF TurnNext, ChatStep
<1>6. CASE SdkNext
  <2>1. ASSUME NEW k \in Clients, SdkDies(k)
        PROVE  /\ \A v \in Conversations : IdleOf(v)'
               /\ \A h \in Clients : NewOf(h)'
    <3>1. /\ UNCHANGED <<turn, clients, work, inbox>>
          /\ link' = [link EXCEPT ![k] = "dead"]
      BY <2>1 DEF SdkDies, turnVars
    <3> QED
      BY <1>1, <1>2, <1>3, <3>1 DEF Clear, SerialState, ChatLinkOK
  <2>2. ASSUME NEW k \in Clients, NEW t \in Turns, SdkText(k, t) \/ SdkResult(k, t)
        PROVE  /\ \A v \in Conversations : IdleOf(v)'
               /\ \A h \in Clients : NewOf(h)'
    <3>1. /\ UNCHANGED <<turn, clients, link>> /\ link[k] = "up" /\ work[k] # <<>>
          /\ \A h \in Clients \ {k} : work'[h] = work[h] /\ inbox'[h] = inbox[h]
      BY <2>2 DEF SdkText, SdkResult, Answering, turnVars, SerialState, SdkTypeOK
    <3>2. \A v \in Conversations : clients[v] = k => ~ Free(v)
      BY <1>0, <1>1, <3>1 DEF Clear
    <3> QED
      BY <1>1, <1>2, <1>3, <3>1, <3>2 DEF Clear
  <2>3. ASSUME NEW c \in Calls, SdkCallsTool(c) \/ SdkRunsTool(c) \/ SdkCancelsCheck(c)
        PROVE  /\ \A v \in Conversations : IdleOf(v)'
               /\ \A h \in Clients : NewOf(h)'
    BY <1>4, <2>3 DEF SdkCallsTool, SdkRunsTool, SdkCancelsCheck, turnVars, sdkVars
  <2> QED
    BY <1>6, <2>1, <2>2, <2>3 DEF SdkNext
<1>7. ASSUME NEW c \in Calls, CheckStep(c) \/ \E d \in Gate!UserDecisions : UserAnswers(c, d)
      PROVE  /\ \A v \in Conversations : IdleOf(v)'
             /\ \A k \in Clients : NewOf(k)'
  BY <1>4, <1>7 DEF CheckStep, UserAnswers, turnVars, sdkVars
<1>8. CASE Shutdown
  BY <1>2, <1>8 DEF Shutdown, Clear
<1>9. CASE UNCHANGED vars
  BY <1>4, <1>9 DEF vars, turnVars, sdkVars
<1> QED
  BY <1>5, <1>6, <1>7, <1>8, <1>9 DEF Next

\* What is put at the end of a queue does not make it another turn's.
LEMMA OwnQueueGrows ==
  ASSUME NEW t \in Turns, NEW q \in Seq(Events), OwnQueue(t, q),
         NEW x \in Events, x \notin Foreign(t)
  PROVE  /\ OwnQueue(t, Append(q, x)) /\ OwnQueue(t, q \o <<End>>)
         /\ OwnQueue(t, q \o <<x, End>>)
<1>1. End \in Events /\ End \notin Foreign(t)
  BY EventFacts, Kinds
<1>2. OwnQueue(t, Append(q, x))
  BY AppendedAt DEF OwnQueue
<1>3. \A i \in DOMAIN (q \o <<End>>) : (q \o <<End>>)[i] \in {q[j] : j \in DOMAIN q} \cup {End}
  BY <1>1
<1>4. \A i \in DOMAIN (q \o <<x, End>>) :
        (q \o <<x, End>>)[i] \in {q[j] : j \in DOMAIN q} \cup {x, End}
  BY <1>1
<1> QED
  BY <1>1, <1>2, <1>3, <1>4 DEF OwnQueue

\* A step keeps the queue and the stream of a turn its own.
LEMMA ShownStep ==
  ASSUME Abandonable = {}, SerialState, [Next]_vars, NEW u \in Turns
  PROVE  ShownInv(u)'
<1>0. ShownInv(u) /\ queue \in [Turns -> Seq(Events)]
      /\ delivered \in [Turns -> SUBSET (Events \ {End})]
  BY DEF SerialState, SerialInv, PumpTypeOK
<1>1. ASSUME UNCHANGED <<pump, queue, delivered>> PROVE ShownInv(u)'
  BY <1>0, <1>1 DEF ShownInv, EndsWithPump
<1>2. ASSUME NEW t \in Turns, TurnNext(t) PROVE ShownInv(u)'
  <2>0. KeepsInv(t) /\ StreamInv(t) /\ TurnInv(t) /\ pump \in [Turns -> {"none", "done", "cancelled"} \cup Pumping]
    BY DEF SerialState, SerialInv, TurnsInv, PumpTypeOK
  <2>1. CASE Submit(t) \/ Reject(t) \/ Persist(t) \/ StartTurn(t) \/ Connected(t)
             \/ ConnectFails(t) \/ EndFailedTurn(t) \/ GapTimeout(t) \/ Disconnected(t) \/ EndTurn(t)
    BY <1>1, <2>1 DEF Submit, Reject, Persist, StartTurn, Connected, ConnectFails, EndFailedTurn,
         GapTimeout, Disconnected, EndTurn, pumpVars
  <2>2. CASE LaunchPump(t)
    <3>1. /\ pump[t] = "none" /\ pump' = [pump EXCEPT ![t] = "querying"] /\ UNCHANGED queue
          /\ delivered' \in {delivered, [delivered EXCEPT ![t] = @ \cup {Notice}]}
      BY <2>0, <2>2 DEF LaunchPump, Goto, KeepsInv
    <3>2. EndsWithPump(u)'
      BY <1>0, <2>0, <3>1 DEF ShownInv, EndsWithPump
    <3>3. delivered'[u] \cap Foreign(u) = {}
      BY <1>0, <3>1, Kinds DEF ShownInv
    <3> QED
      BY <1>0, <3>1, <3>2, <3>3 DEF ShownInv
  <2>3. CASE Deliver(t)
    <3>1. /\ queue[t] # <<>> /\ UNCHANGED pump
          /\ queue' = [queue EXCEPT ![t] = Tail(@)]
          /\ delivered' = [delivered EXCEPT ![t] = @ \cup {Head(queue[t])}]
      BY <2>3 DEF Deliver
    <3>2. CASE u = t
      <4>1. 1 \in DOMAIN queue[u] /\ Head(queue[u]) = queue[u][1]
        BY <1>0, <3>1, <3>2, HeadIsFirst
      <4>2. \A i \in DOMAIN Tail(queue[u]) :
              i + 1 \in DOMAIN queue[u] /\ Tail(queue[u])[i] = queue[u][i + 1]
        BY <1>0, <3>1, <3>2, TailAt
      <4>3. queue'[u] = Tail(queue[u]) /\ delivered'[u] = delivered[u] \cup {Head(queue[u])}
        BY <1>0, <3>1, <3>2
      <4>4. OwnQueue(u, queue'[u])
        BY <1>0, <4>2, <4>3 DEF ShownInv, OwnQueue
      <4>5. EndsWithPump(u)'
        BY <1>0, <3>1, <4>2, <4>3 DEF ShownInv, EndsWithPump
      <4>6. Head(queue[u]) \notin Foreign(u)
        BY <1>0, <4>1 DEF ShownInv, OwnQueue
      <4> QED
        BY <1>0, <4>3, <4>4, <4>5, <4>6 DEF ShownInv
    <3>3. CASE u # t
      BY <1>0, <3>1, <3>3 DEF ShownInv, EndsWithPump
    <3> QED
      BY <3>2, <3>3
  <2>4. CASE Close(t)
    <3>1. /\ queue' = [queue EXCEPT ![t] = <<>>]
          /\ pump' = [pump EXCEPT ![t] = IF @ \in Pumping THEN "cancelled" ELSE @]
          /\ delivered' \in {delivered, [delivered EXCEPT ![t] = @ \cup {Error}]}
      BY <1>0, <2>4 DEF Close, CancelPump
    <3>2. delivered'[u] \cap Foreign(u) = {}
      BY <1>0, <3>1, Kinds DEF ShownInv
    <3>3. CASE u = t
      BY <1>0, <3>1, <3>2, <3>3 DEF ShownInv, OwnQueue, EndsWithPump
    <3>4. CASE u # t
      BY <1>0, <2>0, <3>1, <3>2, <3>4 DEF ShownInv, EndsWithPump
    <3> QED
      BY <3>3, <3>4
  <2>5. ASSUME NEW x \in Events, x \notin Foreign(t), UNCHANGED delivered,
               \/ PumpEnds(t, <<End>>) \/ PumpEnds(t, <<x, End>>)
               \/ /\ x # End /\ queue' = [queue EXCEPT ![t] = Append(@, x)]
                  /\ UNCHANGED pump
        PROVE  ShownInv(u)'
    <3>1. CASE u = t
      <4>1. \/ pump'[u] = "done" /\ queue'[u] \in {queue[u] \o <<End>>, queue[u] \o <<x, End>>}
            \/ pump'[u] = pump[u] /\ queue'[u] = Append(queue[u], x) /\ x # End
        BY <1>0, <2>0, <2>5, <3>1 DEF PumpEnds
      <4>2. OwnQueue(u, queue'[u])
        <5>1. queue[u] \in Seq(Events) /\ OwnQueue(u, queue[u]) /\ x \notin Foreign(u)
          BY <1>0, <2>5, <3>1 DEF ShownInv
        <5>2. /\ OwnQueue(u, Append(queue[u], x)) /\ OwnQueue(u, queue[u] \o <<End>>)
              /\ OwnQueue(u, queue[u] \o <<x, End>>)
          BY <2>5, <5>1, OwnQueueGrows
        <5> QED
          BY <4>1, <5>2
      <4>3. EndsWithPump(u)'
        <5>1. queue[u] \in Seq(Events)
          BY <1>0, <2>5
        <5>2. \A i \in DOMAIN Append(queue[u], x) :
                \/ i \in DOMAIN queue[u] /\ Append(queue[u], x)[i] = queue[u][i]
                \/ Append(queue[u], x)[i] = x
          BY <2>5, <5>1, AppendedAt
        <5> QED
          BY <1>0, <4>1, <5>2 DEF ShownInv, EndsWithPump
      <4> QED
        BY <1>0, <2>5, <4>2, <4>3 DEF ShownInv
    <3>2. CASE u # t
      BY <1>0, <2>0, <2>5, <3>2 DEF ShownInv, EndsWithPump, PumpEnds
    <3> QED
      BY <3>1, <3>2
  <2>6. Error \in Events /\ Error \notin Foreign(t) /\ Error # End
    BY EventFacts, Kinds
  <2>7. CASE Query(t)
    <3>1. CASE link[client[t]] = "up"
      <4>1. /\ pump[t] = "querying" /\ pump' = [pump EXCEPT ![t] = "receiving"]
            /\ UNCHANGED <<queue, delivered>>
        BY <2>7, <3>1 DEF Query
      <4>2. EndsWithPump(u)'
        BY <1>0, <2>0, <4>1 DEF ShownInv, EndsWithPump
      <4> QED
        BY <1>0, <4>1, <4>2 DEF ShownInv
    <3>2. CASE link[client[t]] # "up"
      BY <2>5, <2>6, <2>7, <3>2 DEF Query
    <3> QED
      BY <3>1, <3>2
  <2>8. CASE Receive(t)
    <3>1. Head(inbox[client[t]]) \in {Text(t), Done(t)}
      <4>1. /\ AnswersOnly(t, work[client[t]], inbox[client[t]]) /\ inbox[client[t]] # <<>>
            /\ client[t] \in Clients
        BY <2>0, <2>8 DEF Receive, StreamInv, TurnInv, Pumping, SerialState, ChatLinkOK, ChatTypeOK
      <4>2. inbox[client[t]] \in Seq(Replies)
        BY <4>1 DEF SerialState, SdkTypeOK
      <4> QED
        BY <4>1, <4>2, AnswersTaken
    <3>2. /\ Head(inbox[client[t]]) \in Events /\ Head(inbox[client[t]]) \notin Foreign(t)
          /\ Head(inbox[client[t]]) # End
      BY <3>1, EventFacts, Kinds
    <3>3. \/ PumpEnds(t, <<Head(inbox[client[t]]), End>>)
          \/ /\ queue' = [queue EXCEPT ![t] = Append(@, Head(inbox[client[t]]))]
             /\ UNCHANGED pump
      BY <2>8 DEF Receive
    <3> QED
      BY <2>5, <2>8, <3>2, <3>3 DEF Receive
  <2>9. CASE ReceiveStops(t)
    BY <2>5, <2>6, <2>9 DEF ReceiveStops
  <2>10. ~ Abandon(t)
    BY DEF Abandon
  <2> QED
    BY <1>2, <2>1, <2>2, <2>3, <2>4, <2>7, <2>8, <2>9, <2>10 DEF TurnNext, ChatStep
<1>3. CASE SdkNext
  BY <1>1, <1>3 DEF SdkNext, SdkDies, SdkText, SdkResult, SdkCallsTool, SdkRunsTool,
                    SdkCancelsCheck, pumpVars
<1>4. ASSUME NEW c \in Calls, CheckStep(c) PROVE ShownInv(u)'
  <2>1. /\ UNCHANGED <<pump, delivered>>
        /\ queue'[u] \in {queue[u], Append(queue[u], Request(c))}
    BY <1>0, <1>4 DEF CheckStep
  <2>2. Request(c) \in Events /\ Request(c) \notin Foreign(u) /\ Request(c) # End
    BY EventFacts, Kinds
  <2>3. queue[u] \in Seq(Events)
    BY <1>0
  <2>4. OwnQueue(u, queue'[u])
    BY <1>0, <2>1, <2>2, <2>3, OwnQueueGrows, ZenonT(30) DEF ShownInv
  <2>5. \A i \in DOMAIN Append(queue[u], Request(c)) :
          \/ i \in DOMAIN queue[u] /\ Append(queue[u], Request(c))[i] = queue[u][i]
          \/ Append(queue[u], Request(c))[i] = Request(c)
    BY <2>2, <2>3, AppendedAt
  <2> QED
    BY <1>0, <2>1, <2>2, <2>4, <2>5 DEF ShownInv, EndsWithPump
<1>5. ASSUME NEW c \in Calls, \E d \in Gate!UserDecisions : UserAnswers(c, d)
      PROVE  ShownInv(u)'
  BY <1>1, <1>5 DEF UserAnswers, pumpVars
<1>6. CASE Shutdown
  BY <1>1, <1>6 DEF Shutdown, pumpVars
<1>7. CASE UNCHANGED vars
  BY <1>1, <1>7 DEF vars, pumpVars
<1> QED
  BY <1>2, <1>3, <1>4, <1>5, <1>6, <1>7 DEF Next

\* No turn has begun, so all of it holds.
LEMMA SerialInit == Init => SerialInv
<1> SUFFICES ASSUME Init PROVE SerialInv
  OBVIOUS
<1> USE TurnsAssumption DEF Init
<1>1. OneAtATime
  BY DEF OneAtATime, InProgress, Active
<1>2. IdleInv
  BY DEF IdleInv, Clear
<1>3. ASSUME NEW t \in Turns PROVE KeepsInv(t) /\ SessionInv(t) /\ StreamInv(t)
  BY <1>3 DEF KeepsInv, Keeps, Lacks, Pumping, SessionInv, StreamInv, Active
<1>4. ASSUME NEW t \in Turns PROVE ShownInv(t)
  BY <1>4 DEF ShownInv, OwnQueue, EndsWithPump
<1> QED
  BY <1>1, <1>2, <1>3, <1>4 DEF SerialInv

\* With the service's invariant it is inductive.
THEOREM SerialInvariance ==
  ASSUME ~Overlapping, Abandonable = {}
  PROVE  Spec => []SerialInv
<1>1. ASSUME ServiceInv, SerialInv, [Next]_vars PROVE SerialInv'
  <2>1. SerialState
    BY <1>1 DEF SerialState, ServiceInv, TypeOK, TurnTypeOK, ChatLinkOK, PumpTypeOK, SdkTypeOK
  <2>2. OneAtATime'
    BY <1>1, <2>1, OneAtATimeStep DEF SerialState, SerialInv, ChatLinkOK
  <2>3. \A t \in Turns : KeepsInv(t)'
    <3>1. /\ ChatLinkOK /\ queue \in [Turns -> Seq(Events)] /\ TurnsInv /\ OneAtATime
          /\ \A t \in Turns : KeepsInv(t) /\ EndsWithPump(t)
      BY <2>1 DEF SerialState, SerialInv, ShownInv, PumpTypeOK
    <3> QED
      BY <1>1, <3>1, KeepsStep
  <2>4. \A t \in Turns : SessionInv(t)'
    BY <1>1, <2>1, SessionStep DEF SerialState, SerialInv
  <2>5. \A t \in Turns : StreamInv(t)' /\ ShownInv(t)'
    BY <1>1, <2>1, StreamStep, ShownStep
  <2>6. IdleInv'
    BY <1>1, <2>1, IdleStep
  <2> QED
    BY <2>2, <2>3, <2>4, <2>5, <2>6 DEF SerialInv
<1> QED
  BY <1>1, SerialInit, Invariance, PTL DEF Spec

\* A conversation whose turns follow each other has at most one live SDK
\* session (service.py 1).
THEOREM SessionsAreSingle ==
  ASSUME ~Overlapping, Abandonable = {}
  PROVE  Spec => []OneSessionPerConversation
<1>1. ASSUME ServiceInv, SerialInv, NEW t \in Turns, NEW u \in Turns,
             ConvOf[t] = ConvOf[u], client[t] # NoClient, client[u] # NoClient,
             link[client[t]] = "up", link[client[u]] = "up"
      PROVE  client[t] = client[u]
  <2>1. /\ clients[ConvOf[t]] = client[t] \/ BeingDropped(client[t], ConvOf[t])
        /\ clients[ConvOf[t]] = client[u] \/ BeingDropped(client[u], ConvOf[t])
    BY <1>1 DEF SerialInv, SessionInv
  <2>2. ASSUME NEW w \in Turns, turn[w] = "dropping", ConvOf[w] = ConvOf[t]
        PROVE  clients[ConvOf[t]] = NoClient
    BY <1>1, <2>2 DEF SerialInv, KeepsInv, Lacks
  <2>3. \A w, x \in Turns :
          /\ turn[w] = "dropping" /\ turn[x] = "dropping"
          /\ ConvOf[w] = ConvOf[t] /\ ConvOf[x] = ConvOf[t]
          => w = x
    BY <1>1 DEF SerialInv, OneAtATime, InProgress, Active
  <2>4. CASE clients[ConvOf[t]] = client[t]
    <3>1. ~ BeingDropped(client[u], ConvOf[t])
      BY <1>1, <2>2, <2>4 DEF BeingDropped
    <3> QED
      BY <2>1, <2>4, <3>1
  <2>5. CASE BeingDropped(client[t], ConvOf[t])
    <3>1. PICK w \in Turns : turn[w] = "dropping" /\ ConvOf[w] = ConvOf[t] /\ doomed[w] = client[t]
      BY <2>5 DEF BeingDropped
    <3>2. BeingDropped(client[u], ConvOf[t])
      BY <1>1, <2>1, <2>2, <3>1
    <3>3. PICK x \in Turns : turn[x] = "dropping" /\ ConvOf[x] = ConvOf[t] /\ doomed[x] = client[u]
      BY <3>2 DEF BeingDropped
    <3> QED
      BY <2>3, <3>1, <3>3
  <2> QED
    BY <2>1, <2>4, <2>5
<1>2. ServiceInv /\ SerialInv => OneSessionPerConversation
  BY <1>1 DEF OneSessionPerConversation
<1> QED
  BY <1>2, SerialInvariance, Invariance, PTL

\* The stream of a turn shows replies to that turn's own message and to no
\* other, whatever failed before it (SPEC.md 32).
THEOREM AnswersAreTheTurns ==
  ASSUME ~Overlapping, Abandonable = {}
  PROVE  Spec => []AnswersBelongToTurn
<1>1. SerialInv => AnswersBelongToTurn
  BY DEF SerialInv, ShownInv, Foreign, AnswersBelongToTurn
<1> QED
  BY <1>1, SerialInvariance, PTL

-----------------------------------------------------------------------------
(* Where a conversation's turns do not overlap, each is bound while it is  *)
(* under way, whoever goes away.                                           *)

BoundInv == OneAtATime /\ \A t \in Turns : turn[t] \in Active => queues[ConvOf[t]] = t

\* A step keeps the turns in progress bound.
LEMMA BoundStep ==
  ASSUME ~Overlapping, ServiceInv, BoundInv, [Next]_vars
  PROVE  BoundInv'
<1>0. ChatTypeOK /\ queues \in [Conversations -> Turns \cup {NoTurn}]
  BY DEF ServiceInv, TypeOK, TurnTypeOK, Gate!TypeOK
<1>1. OneAtATime'
  BY <1>0, OneAtATimeStep DEF BoundInv
<1> SUFFICES ASSUME NEW u \in Turns, turn'[u] \in Active PROVE queues'[ConvOf[u]] = u
  BY <1>1 DEF BoundInv
<1>2. ASSUME UNCHANGED <<turn, queues>> PROVE queues'[ConvOf[u]] = u
  BY <1>2 DEF BoundInv
<1>3. ASSUME NEW t \in Turns, TurnNext(t) PROVE queues'[ConvOf[u]] = u
  <2>0. ConvOf[t] \in Conversations /\ ConvOf[u] \in Conversations
    BY TurnsAssumption
  <2> USE DEF ChatTypeOK, Goto
  <2>1. CASE StartTurn(t)
    <3>1. /\ turn[t] = "submitted" /\ queues' = [queues EXCEPT ![ConvOf[t]] = t]
          /\ \E to : turn' = [turn EXCEPT ![t] = to]
      BY <2>1 DEF StartTurn, GetClient, Gate!Bind
    <3>2. u # t => ConvOf[u] # ConvOf[t]
      BY <1>0, <3>1 DEF BoundInv, OneAtATime, InProgress
    <3> QED
      BY <1>0, <2>0, <3>1, <3>2 DEF BoundInv
  <2>2. CASE Close(t) \/ Abandon(t)
    <3>1. /\ turn[t] \in Active /\ queues' = [queues EXCEPT ![ConvOf[t]] = NoTurn]
          /\ \E to : to \notin Active /\ turn' = [turn EXCEPT ![t] = to]
      BY <2>2 DEF Close, Abandon, Gate!Unbind, Active
    <3>2. u # t /\ turn[u] \in Active
      BY <1>0, <3>1
    <3>3. ConvOf[u] # ConvOf[t]
      BY <3>1, <3>2 DEF BoundInv, OneAtATime, InProgress
    <3> QED
      BY <1>0, <2>0, <3>1, <3>2, <3>3 DEF BoundInv
  <2>3. ASSUME UNCHANGED queues, turn'[u] \in Active => turn[u] \in Active
        PROVE  queues'[ConvOf[u]] = u
    BY <2>3 DEF BoundInv
  <2>4. CASE Submit(t) \/ Reject(t) \/ Persist(t)
    BY <1>0, <2>3, <2>4 DEF Submit, Reject, Persist, gateVars, Active
  <2>5. CASE Connected(t) \/ ConnectFails(t) \/ Disconnected(t) \/ LaunchPump(t) \/ EndTurn(t)
             \/ EndFailedTurn(t) \/ GapTimeout(t)
    BY <1>0, <2>3, <2>5 DEF Connected, ConnectFails, Disconnected, LaunchPump, EndTurn,
         EndFailedTurn, GapTimeout, GapTimeoutGuard, AtEnd, Drop, gateVars, Active
  <2>6. CASE Deliver(t) \/ Query(t) \/ Receive(t) \/ ReceiveStops(t)
    BY <1>2, <2>6 DEF Deliver, Query, Receive, ReceiveStops, gateVars, turnVars
  <2> QED
    BY <1>3, <2>1, <2>2, <2>4, <2>5, <2>6 DEF TurnNext, ChatStep
<1>4. CASE SdkNext
  BY <1>2, <1>4, ChecksKeepQueues
  DEF SdkNext, SdkDies, SdkText, SdkResult, SdkCallsTool, SdkRunsTool, SdkCancelsCheck,
      gateVars, turnVars
<1>5. ASSUME NEW c \in Calls, CheckStep(c) \/ \E d \in Gate!UserDecisions : UserAnswers(c, d)
      PROVE  queues'[ConvOf[u]] = u
  BY <1>2, <1>5, ChecksKeepQueues DEF CheckStep, UserAnswers, turnVars
<1>6. CASE Shutdown
  BY <1>2, <1>6 DEF Shutdown, gateVars
<1>7. CASE UNCHANGED vars
  BY <1>2, <1>7 DEF vars, gateVars, turnVars
<1> QED
  BY <1>3, <1>4, <1>5, <1>6, <1>7 DEF Next

\* Only a check that finds no queue bound for its conversation starts refusing.
LEMMA RefusingFindsNoQueue ==
  ASSUME ServiceInv, [Next]_vars, NEW c \in Calls, pc[c] = "created", pc'[c] = "refusing"
  PROVE  UNCHANGED turn /\ queues[ConvOf[TurnOf[c]]] = NoTurn
<1>0. pc \in [Calls -> {"idle"} \cup Gate!InFlight \cup Gate!Ended]
  BY DEF ServiceInv, TypeOK, Gate!TypeOK
<1> USE DEF Gate!Goto
<1>1. ASSUME NEW d \in Calls, Gate!CheckStep(d)
      PROVE  queues[ConvOf[TurnOf[c]]] = NoTurn
  BY <1>0, <1>1 DEF Gate!CheckStep, Gate!CreateCommits, Gate!DatabaseFails, Gate!Ask,
         Gate!AskNobody, Gate!QueueOf, Gate!RefusalCommits, Gate!RefusalReturns,
         Gate!Expire, Gate!Wake, Gate!RecordCommits, Gate!Returns
<1>2. ASSUME NEW d \in Calls, \/ Gate!StartRead(d) \/ Gate!StartWrite(d) \/ Gate!RunTool(d)
                              \/ Gate!Cancel(d) \/ \E a \in Gate!UserDecisions : Gate!Resolve(d, a)
      PROVE  FALSE
  BY <1>0, <1>2 DEF Gate!StartRead, Gate!StartWrite, Gate!RunTool, Gate!Cancel, Gate!Resolve
<1>3. ASSUME NEW t \in Turns, TurnNext(t) PROVE FALSE
  <2>1. UNCHANGED pc
    BY <1>3 DEF TurnNext, ChatStep, Submit, Reject, Persist, StartTurn, Gate!Bind, Connected,
         ConnectFails, Disconnected, LaunchPump, Deliver, EndTurn, EndFailedTurn, GapTimeout,
         Close, Abandon, Gate!Unbind, Query, Receive, ReceiveStops, gateVars
  <2> QED
    BY <2>1
<1>4. CASE SdkNext
  BY <1>2, <1>4 DEF SdkNext, SdkDies, SdkText, SdkResult, SdkCallsTool, SdkRunsTool,
                    SdkCancelsCheck, gateVars
<1>5. ASSUME NEW d \in Calls, CheckStep(d)
      PROVE  UNCHANGED turn /\ queues[ConvOf[TurnOf[c]]] = NoTurn
  BY <1>1, <1>5 DEF CheckStep, turnVars
<1>6. ASSUME NEW d \in Calls, NEW a \in Gate!UserDecisions, UserAnswers(d, a) PROVE FALSE
  BY <1>2, <1>6 DEF UserAnswers
<1>7. CASE Shutdown \/ UNCHANGED vars
  BY <1>7 DEF Shutdown, vars, gateVars
<1> QED
  BY <1>3, <1>4, <1>5, <1>6, <1>7 DEF Next

\* A write is refused without asking only when its own turn's stream is not
\* open to ask on (approvals.py 63).
THEOREM RefusalsHaveNoStream ==
  ASSUME ~Overlapping
  PROVE  Spec => RefusedOnlyWithoutStream
<1>1. Init => BoundInv
  BY DEF Init, BoundInv, OneAtATime, InProgress, Active
<1>2. ServiceInv /\ BoundInv /\ [Next]_vars => BoundInv'
  BY BoundStep
<1>3. ServiceInv /\ BoundInv /\ [Next]_vars =>
        [\A c \in Calls : pc[c] = "created" /\ pc'[c] = "refusing" =>
            turn[TurnOf[c]] \notin {"starting", "running"}]_vars
  <2> SUFFICES ASSUME ServiceInv, BoundInv, [Next]_vars, NEW c \in Calls,
                      pc[c] = "created", pc'[c] = "refusing"
               PROVE  turn[TurnOf[c]] \notin {"starting", "running"}
    OBVIOUS
  <2>1. TurnOf[c] \in Turns /\ NoTurn \notin Turns
    BY TurnsAssumption
  <2> QED
    BY <2>1, RefusingFindsNoQueue DEF BoundInv, Active
<1> QED
  BY <1>1, <1>2, <1>3, Invariance, PTL DEF Spec, RefusedOnlyWithoutStream

\* Typing: every variable, the gate's included, stays in its domain.
THEOREM TypesKept == Spec => []TypeOK
<1>1. ServiceInv => TypeOK
  BY DEF ServiceInv
<1> QED
  BY <1>1, Invariance, PTL
=============================================================================
