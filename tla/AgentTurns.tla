----------------------------- MODULE AgentTurns -----------------------------
(***************************************************************************)
(* backend/app/agent/service.py (AgentService) under routes/chat.py, over  *)
(* the ApprovalGate module and an external Claude SDK client.              *)
(*                                                                         *)
(* A turn is one POST /api/chat.  Its stream runs AgentService.chat, which *)
(* binds the turn's queue in the gate, gets the conversation's client,     *)
(* starts a pump task that copies the client's messages to the queue, and  *)
(* delivers the queue to the browser until the pump's end marker:          *)
(*                                                                         *)
(*   idle -> submitted -> [connecting ->] starting -> running ->           *)
(*        [dropping ->] closing -> done [-> saved]                         *)
(*                                                                         *)
(* "dropping" awaits client.disconnect, "closing" is the way through the   *)
(* finally clause.  rejected: 503 before the stream.  abandoned: the       *)
(* browser went away and the stream was cancelled or closed at an await or *)
(* a yield.                                                                *)
(***************************************************************************)
EXTENDS Naturals, Sequences

CONSTANTS Conversations, Turns, ConvOf, Calls, Writes, TurnOf,
          Clients, NoClient, NoTurn,
          Abandonable,      \* turns whose browser may go away
          Mortal,           \* clients whose CLI process may die
          Talkative,        \* turns whose reply has text besides its result
          Overlapping       \* whether a conversation's turns may overlap

ASSUME TurnsAssumption ==
  /\ Writes \subseteq Calls
  /\ ConvOf \in [Turns -> Conversations]
  /\ TurnOf \in [Calls -> Turns]
  /\ NoTurn \notin Turns /\ NoClient \notin Clients
  /\ Abandonable \subseteq Turns /\ Mortal \subseteq Clients
  /\ Talkative \subseteq Turns
  /\ Overlapping \in BOOLEAN

\* The gate's state: the queue of a turn is named by the turn.
VARIABLES pc, row, pending, future, timedOut, decision, asked, queues, acked

VARIABLES turn,        \* turn[t]: where the turn is
          client,      \* client[t]: the client chat(t) works with
          doomed,      \* doomed[t]: the client chat(t) is disconnecting
          clients,     \* AgentService._clients
          restarted,   \* AgentService._restarted
          noticeDue,   \* turns whose local `restarted` is true and unsaid
          failed,      \* turns that met an error
          pump,        \* pump[t]: the task run_turn of t
          queue,       \* queue[t]: the turn's event queue
          delivered,   \* delivered[t]: events yielded to the browser
          link,        \* link[k]: state of client k's connection
          work,        \* work[k]: turns queried on k and not yet answered
          said,        \* turns whose text the SDK has produced
          inbox,       \* inbox[k]: messages of k that no pump has taken
          owesNotice   \* history: conversations restarted without notice

gateVars == <<pc, row, pending, future, timedOut, decision, asked, queues, acked>>
turnVars == <<turn, client, doomed, clients, restarted, noticeDue, failed>>
pumpVars == <<pump, queue, delivered>>
sdkVars == <<link, work, said, inbox>>
vars == <<gateVars, turnVars, pumpVars, sdkVars, owesNotice>>

Gate == INSTANCE ApprovalGate WITH
          Queues <- Turns, NoQueue <- NoTurn,
          ConversationOf <- [c \in Calls |-> ConvOf[TurnOf[c]]]

Text(t) == [kind |-> "text", of |-> t]
Done(t) == [kind |-> "done", of |-> t]
Request(c) == [kind |-> "approval_request", of |-> c]
Notice == [kind |-> "notice"]
Error == [kind |-> "error"]
End == [kind |-> "end"]

\* Control points from bind to the end of the finally clause.
Active == {"connecting", "starting", "running", "dropping", "closing"}
Over == {"done", "saved", "abandoned"}
Pumping == {"querying", "receiving"}

Init ==
  /\ Gate!Init
  /\ turn = [t \in Turns |-> "idle"]
  /\ client = [t \in Turns |-> NoClient]
  /\ doomed = [t \in Turns |-> NoClient]
  /\ clients = [v \in Conversations |-> NoClient]
  /\ restarted = {} /\ noticeDue = {} /\ failed = {}
  /\ pump = [t \in Turns |-> "none"]
  /\ queue = [t \in Turns |-> <<>>]
  /\ delivered = [t \in Turns |-> {}]
  /\ link = [k \in Clients |-> "new"]
  /\ work = [k \in Clients |-> <<>>]
  /\ said = {}
  /\ inbox = [k \in Clients |-> <<>>]
  /\ owesNotice = {}

Goto(t, from, to) ==
  /\ turn[t] = from
  /\ turn' = [turn EXCEPT ![t] = to]

-----------------------------------------------------------------------------
(* routes/chat.py: the user message is saved before the stream starts.     *)

Submit(t) ==
  /\ ~Overlapping =>
       \A u \in Turns : ConvOf[u] = ConvOf[t] =>
                          turn[u] \in {"idle", "rejected"} \cup Over
  /\ Goto(t, "idle", "submitted")
  /\ UNCHANGED <<gateVars, client, doomed, clients, restarted, noticeDue, failed,
                 pumpVars, sdkVars, owesNotice>>

Reject(t) ==
  /\ Goto(t, "submitted", "rejected")
  /\ UNCHANGED <<gateVars, client, doomed, clients, restarted, noticeDue, failed,
                 pumpVars, sdkVars, owesNotice>>

\* The text the stream collected is stored as the assistant message; when the
\* database fails that is logged, and the turn stays "done".
Persist(t) ==
  /\ Goto(t, "done", "saved")
  /\ UNCHANGED <<gateVars, client, doomed, clients, restarted, noticeDue, failed,
                 pumpVars, sdkVars, owesNotice>>

-----------------------------------------------------------------------------
(* AgentService.chat: getting a client.                                    *)

\* The factory makes a new client every time; which one is immaterial.
NewClients == {k \in Clients : link[k] = "new"}

\* _get_client up to its first await.
GetClient(t) ==
  LET v == ConvOf[t] IN
  \/ /\ clients[v] # NoClient
     /\ client' = [client EXCEPT ![t] = clients[v]]
     /\ Goto(t, "submitted", "starting")
     /\ UNCHANGED link
  \/ /\ clients[v] = NoClient
     /\ NewClients # {}
     /\ LET k == CHOOSE n \in NewClients : TRUE IN
          /\ client' = [client EXCEPT ![t] = k]
          /\ link' = [link EXCEPT ![k] = "connecting"]
     /\ Goto(t, "submitted", "connecting")

\* The restart flag becomes the turn's own.
TakeRestart(t) ==
  /\ noticeDue' = IF ConvOf[t] \in restarted THEN noticeDue \cup {t} ELSE noticeDue
  /\ restarted' = restarted \ {ConvOf[t]}

\* Mutant: chat forgets to bind its queue.
StartTurnUnbound(t) ==
  /\ TakeRestart(t)
  /\ GetClient(t)
  /\ UNCHANGED <<gateVars, doomed, clients, failed, pumpVars, work, said, inbox, owesNotice>>

\* chat up to its first await.
StartTurn(t) ==
  /\ TakeRestart(t)
  /\ Gate!Bind(ConvOf[t], t)
  /\ GetClient(t)
  /\ UNCHANGED <<doomed, clients, failed, pumpVars, work, said, inbox, owesNotice>>

Connected(t) ==
  /\ Goto(t, "connecting", "starting")
  /\ link' = [link EXCEPT ![client[t]] = "up"]
  /\ clients' = [clients EXCEPT ![ConvOf[t]] = client[t]]
  /\ UNCHANGED <<gateVars, client, doomed, restarted, noticeDue, failed,
                 pumpVars, work, said, inbox, owesNotice>>

\* Mutant: the restart is not remembered.
DropSilently(t, from) ==
  LET v == ConvOf[t] IN
  /\ Goto(t, from, "dropping")
  /\ doomed' = [doomed EXCEPT ![t] = clients[v]]
  /\ clients' = [clients EXCEPT ![v] = NoClient]
  /\ owesNotice' = owesNotice \cup {v}
  /\ failed' = failed \cup {t}
  /\ UNCHANGED restarted

\* _drop_client up to the await of disconnect.
Drop(t, from) ==
  LET v == ConvOf[t] IN
  /\ Goto(t, from, "dropping")
  /\ doomed' = [doomed EXCEPT ![t] = clients[v]]
  /\ clients' = [clients EXCEPT ![v] = NoClient]
  /\ restarted' = restarted \cup {v}
  /\ owesNotice' = owesNotice \cup {v}
  /\ failed' = failed \cup {t}

ConnectFails(t) ==
  /\ Drop(t, "connecting")
  /\ link' = [link EXCEPT ![client[t]] = "closed"]
  /\ UNCHANGED <<gateVars, client, noticeDue, pumpVars, work, said, inbox>>

\* Mutant: the client is forgotten but never disconnected.
DisconnectForgotten(t) ==
  /\ Goto(t, "dropping", "closing")
  /\ doomed' = [doomed EXCEPT ![t] = NoClient]
  /\ UNCHANGED <<gateVars, client, clients, restarted, noticeDue, failed,
                 pumpVars, sdkVars, owesNotice>>

\* disconnect closes the connection, whether or not it raises.
Disconnected(t) ==
  /\ Goto(t, "dropping", "closing")
  /\ link' = IF doomed[t] = NoClient THEN link
             ELSE [link EXCEPT ![doomed[t]] = "closed"]
  /\ doomed' = [doomed EXCEPT ![t] = NoClient]
  /\ UNCHANGED <<gateVars, client, clients, restarted, noticeDue, failed,
                 pumpVars, work, said, inbox, owesNotice>>

-----------------------------------------------------------------------------
(* AgentService.chat: the notice, the pump and the delivery loop.          *)

\* Mutant: the queue is made where the pump is, after the client was awaited.
LaunchPumpNewQueue(t) ==
  /\ Goto(t, "starting", "running")
  /\ pump' = [pump EXCEPT ![t] = "querying"]
  /\ queue' = [queue EXCEPT ![t] = <<>>]
  /\ IF t \in noticeDue
     THEN /\ delivered' = [delivered EXCEPT ![t] = @ \cup {Notice}]
          /\ owesNotice' = owesNotice \ {ConvOf[t]}
     ELSE UNCHANGED <<delivered, owesNotice>>
  /\ noticeDue' = noticeDue \ {t}
  /\ UNCHANGED <<gateVars, client, doomed, clients, restarted, failed, sdkVars>>

LaunchPump(t) ==
  /\ Goto(t, "starting", "running")
  /\ pump' = [pump EXCEPT ![t] = "querying"]
  /\ IF t \in noticeDue
     THEN /\ delivered' = [delivered EXCEPT ![t] = @ \cup {Notice}]
          /\ owesNotice' = owesNotice \ {ConvOf[t]}
     ELSE UNCHANGED <<delivered, owesNotice>>
  /\ noticeDue' = noticeDue \ {t}
  /\ UNCHANGED <<gateVars, client, doomed, clients, restarted, failed, queue, sdkVars>>

\* Mutant: the end marker is sent to the browser like any event.
DeliverAnything(t) ==
  /\ turn[t] = "running" /\ queue[t] # <<>>
  /\ queue' = [queue EXCEPT ![t] = Tail(@)]
  /\ delivered' = [delivered EXCEPT ![t] = @ \cup {Head(queue[t])}]
  /\ UNCHANGED <<gateVars, turnVars, pump, sdkVars, owesNotice>>

Deliver(t) ==
  /\ turn[t] = "running" /\ queue[t] # <<>>
  /\ Head(queue[t]) # End
  /\ queue' = [queue EXCEPT ![t] = Tail(@)]
  /\ delivered' = [delivered EXCEPT ![t] = @ \cup {Head(queue[t])}]
  /\ failed' = IF Head(queue[t]) = Error THEN failed \cup {t} ELSE failed
  /\ UNCHANGED <<gateVars, turn, client, doomed, clients, restarted, noticeDue,
                 pump, sdkVars, owesNotice>>

AtEnd(t) == turn[t] = "running" /\ queue[t] # <<>> /\ Head(queue[t]) = End

EndTurn(t) ==
  /\ AtEnd(t) /\ t \notin failed
  /\ Goto(t, "running", "closing")
  /\ UNCHANGED <<gateVars, client, doomed, clients, restarted, noticeDue, failed,
                 pumpVars, sdkVars, owesNotice>>

\* Mutant: the client of a failed turn is kept.
EndFailedTurnKeeps(t) ==
  /\ AtEnd(t) /\ t \in failed
  /\ Goto(t, "running", "closing")
  /\ UNCHANGED <<gateVars, client, doomed, clients, restarted, noticeDue, failed,
                 pumpVars, sdkVars, owesNotice>>

EndFailedTurn(t) ==
  /\ AtEnd(t) /\ t \in failed
  /\ Drop(t, "running")
  /\ UNCHANGED <<gateVars, client, noticeDue, pumpVars, sdkVars>>

\* The timer starts anew with every event.  An event put in the very pass of
\* the event loop in which the timer fires stays in the queue.  An approval
\* that was delivered expires before the timer does (TurnClock checks this from
\* the two timeouts).
GapTimeoutGuard(t) ==
  /\ turn[t] = "running" /\ Len(queue[t]) <= 1
  /\ \A c \in Calls : pc[c] = "waiting" /\ asked[c] = t => Request(c) \notin delivered[t]

\* Mutant: only the first event has a timeout.
GapTimeoutFirstEvent(t) ==
  /\ GapTimeoutGuard(t) /\ delivered[t] = {}
  /\ Drop(t, "running")
  /\ UNCHANGED <<gateVars, client, noticeDue, pumpVars, sdkVars>>

GapTimeout(t) ==
  /\ GapTimeoutGuard(t)
  /\ Drop(t, "running")
  /\ UNCHANGED <<gateVars, client, noticeDue, pumpVars, sdkVars>>

CancelPump(t) ==
  pump' = [pump EXCEPT ![t] = IF @ \in Pumping THEN "cancelled" ELSE @]

\* Mutant: the finally clause does not cancel the pump.
CloseLeavesPump(t) ==
  /\ Goto(t, "closing", "done")
  /\ Gate!Unbind(ConvOf[t])
  /\ queue' = [queue EXCEPT ![t] = <<>>]
  /\ delivered' = [delivered EXCEPT ![t] = IF t \in failed THEN @ \cup {Error} ELSE @]
  /\ UNCHANGED <<client, doomed, clients, restarted, noticeDue, failed,
                 pump, sdkVars, owesNotice>>

\* The error event of an exception or a timeout, then the finally clause.
Close(t) ==
  /\ Goto(t, "closing", "done")
  /\ CancelPump(t)
  /\ Gate!Unbind(ConvOf[t])
  /\ queue' = [queue EXCEPT ![t] = <<>>]
  /\ delivered' = [delivered EXCEPT ![t] = IF t \in failed THEN @ \cup {Error} ELSE @]
  /\ UNCHANGED <<client, doomed, clients, restarted, noticeDue, failed,
                 sdkVars, owesNotice>>

\* Mutant: unbind stands after the loop instead of in the finally clause.
AbandonLeavesBinding(t) ==
  /\ t \in Abandonable /\ turn[t] \in Active
  /\ turn' = [turn EXCEPT ![t] = "abandoned"]
  /\ CancelPump(t)
  /\ queue' = [queue EXCEPT ![t] = <<>>]
  /\ UNCHANGED <<gateVars, client, doomed, clients, restarted, noticeDue, failed,
                 delivered, sdkVars, owesNotice>>

\* CancelledError and GeneratorExit are no Exceptions: only the finally runs.
Abandon(t) ==
  /\ t \in Abandonable /\ turn[t] \in Active
  /\ turn' = [turn EXCEPT ![t] = "abandoned"]
  /\ CancelPump(t)
  /\ Gate!Unbind(ConvOf[t])
  /\ queue' = [queue EXCEPT ![t] = <<>>]
  /\ UNCHANGED <<client, doomed, clients, restarted, noticeDue, failed,
                 delivered, sdkVars, owesNotice>>

-----------------------------------------------------------------------------
(* run_turn, the pump task of a turn.                                      *)

PumpEnds(t, events) ==
  /\ pump' = [pump EXCEPT ![t] = "done"]
  /\ queue' = [queue EXCEPT ![t] = @ \o events]

Query(t) ==
  LET k == client[t] IN
  /\ pump[t] = "querying"
  /\ IF link[k] = "up"
     THEN /\ work' = [work EXCEPT ![k] = Append(@, t)]
          /\ pump' = [pump EXCEPT ![t] = "receiving"]
          /\ UNCHANGED queue
     ELSE PumpEnds(t, <<Error, End>>) /\ UNCHANGED work
  /\ UNCHANGED <<gateVars, turnVars, delivered, link, said, inbox, owesNotice>>

\* Mutant: the pump stops at the first message instead of the result.
ReceiveOne(t) ==
  LET k == client[t] IN
  /\ pump[t] = "receiving" /\ inbox[k] # <<>>
  /\ inbox' = [inbox EXCEPT ![k] = Tail(@)]
  /\ PumpEnds(t, <<Head(inbox[k]), End>>)
  /\ UNCHANGED <<gateVars, turnVars, delivered, link, work, said, owesNotice>>

\* receive_response takes the client's next message, whichever turn it
\* answers, and ends with a result message.
Receive(t) ==
  LET k == client[t] IN
  /\ pump[t] = "receiving" /\ inbox[k] # <<>>
  /\ inbox' = [inbox EXCEPT ![k] = Tail(@)]
  /\ IF Head(inbox[k]).kind = "done"
     THEN PumpEnds(t, <<Head(inbox[k]), End>>)
     ELSE /\ queue' = [queue EXCEPT ![t] = Append(@, Head(inbox[k]))]
          /\ UNCHANGED pump
  /\ UNCHANGED <<gateVars, turnVars, delivered, link, work, said, owesNotice>>

\* A connection that is gone ends the iteration, or makes it raise.
ReceiveStops(t) ==
  /\ pump[t] = "receiving"
  /\ inbox[client[t]] = <<>> /\ link[client[t]] \in {"dead", "closed"}
  /\ \E events \in {<<End>>, <<Error, End>>} : PumpEnds(t, events)
  /\ UNCHANGED <<gateVars, turnVars, delivered, sdkVars, owesNotice>>

-----------------------------------------------------------------------------
(* The SDK client, external: it answers queries in order, calls tools on   *)
(* behalf of the query it is answering, and may die at any moment.         *)

Answering(k, t) == k # NoClient /\ link[k] = "up" /\ work[k] # <<>> /\ Head(work[k]) = t

SdkText(k, t) ==
  /\ Answering(k, t) /\ t \in Talkative \ said
  /\ said' = said \cup {t}
  /\ inbox' = [inbox EXCEPT ![k] = Append(@, Text(t))]
  /\ UNCHANGED <<gateVars, turnVars, pumpVars, link, work, owesNotice>>

\* Mutant: a write tool is listed in allowed_tools, so the SDK runs it
\* without consulting can_use_tool.
SdkCallsAllowedTool(c) ==
  /\ Answering(client[TurnOf[c]], TurnOf[c])
  /\ pc[c] = "idle" /\ pc' = [pc EXCEPT ![c] = "allowed"]
  /\ UNCHANGED <<row, pending, future, timedOut, decision, asked, queues, acked,
                 turnVars, pumpVars, sdkVars, owesNotice>>

SdkCallsTool(c) ==
  /\ Answering(client[TurnOf[c]], TurnOf[c])
  /\ Gate!StartRead(c) \/ Gate!StartWrite(c)
  /\ UNCHANGED <<turnVars, pumpVars, sdkVars, owesNotice>>

SdkResult(k, t) ==
  /\ Answering(k, t)
  /\ \A c \in Calls : TurnOf[c] = t => pc[c] \notin Gate!InFlight \cup {"allowed"}
  /\ work' = [work EXCEPT ![k] = Tail(@)]
  /\ inbox' = [inbox EXCEPT ![k] = Append(@, Done(t))]
  /\ UNCHANGED <<gateVars, turnVars, pumpVars, link, said, owesNotice>>

SdkDies(k) ==
  /\ k \in Mortal /\ link[k] = "up"
  /\ link' = [link EXCEPT ![k] = "dead"]
  /\ UNCHANGED <<gateVars, turnVars, pumpVars, work, said, inbox, owesNotice>>

SdkRunsTool(c) ==
  /\ pc[c] = "allowed" /\ link[client[TurnOf[c]]] = "up"
  /\ Gate!RunTool(c)
  /\ UNCHANGED <<turnVars, pumpVars, sdkVars, owesNotice>>

SdkCancelsCheck(c) ==
  /\ pc[c] # "idle" /\ link[client[TurnOf[c]]] = "closed"
  /\ Gate!Cancel(c)
  /\ UNCHANGED <<turnVars, pumpVars, sdkVars, owesNotice>>

-----------------------------------------------------------------------------
(* The gate's own steps, and the user's.                                   *)

\* A check that asks puts its request on the queue it found bound.
CheckStep(c) ==
  /\ Gate!CheckStep(c)
  /\ queue' = IF asked'[c] = asked[c] THEN queue
              ELSE [queue EXCEPT ![asked'[c]] = Append(@, Request(c))]
  /\ UNCHANGED <<turnVars, pump, delivered, sdkVars, owesNotice>>

UserAnswers(c, d) ==
  /\ \E t \in Turns : Request(c) \in delivered[t]
  /\ Gate!Resolve(c, d)
  /\ UNCHANGED <<turnVars, pumpVars, sdkVars, owesNotice>>

\* main.py's lifespan ends once no stream is open: every client is dropped.
Shutdown ==
  /\ \A t \in Turns : turn[t] \notin Active \cup {"submitted"}
  /\ \E v \in Conversations : clients[v] # NoClient
  /\ link' = [k \in Clients |->
                IF \E v \in Conversations : clients[v] = k THEN "closed" ELSE link[k]]
  /\ clients' = [v \in Conversations |-> NoClient]
  /\ restarted' = {} /\ owesNotice' = {}
  /\ UNCHANGED <<gateVars, turn, client, doomed, noticeDue, failed, pumpVars,
                 work, said, inbox>>

-----------------------------------------------------------------------------
\* The steps of chat that the event loop and the SDK's own timeouts bound.
ChatStep(t) ==
  \/ Connected(t) \/ ConnectFails(t) \/ Disconnected(t)
  \/ LaunchPump(t) \/ Deliver(t) \/ EndTurn(t) \/ EndFailedTurn(t)
  \/ GapTimeout(t) \/ Close(t)

TurnNext(t) ==
  \/ Submit(t) \/ Reject(t) \/ Persist(t) \/ StartTurn(t)
  \/ ChatStep(t) \/ Abandon(t)
  \/ Query(t) \/ Receive(t) \/ ReceiveStops(t)

SdkNext ==
  \/ \E k \in Clients : SdkDies(k) \/ \E t \in Turns : SdkText(k, t) \/ SdkResult(k, t)
  \/ \E c \in Calls : SdkCallsTool(c) \/ SdkRunsTool(c) \/ SdkCancelsCheck(c)

Next ==
  \/ \E t \in Turns : TurnNext(t)
  \/ SdkNext
  \/ \E c \in Calls : CheckStep(c) \/ \E d \in Gate!UserDecisions : UserAnswers(c, d)
  \/ Shutdown

Fairness ==
  /\ \A t \in Turns : WF_vars(ChatStep(t))
  /\ \A c \in Calls : WF_vars(CheckStep(c))

Spec == Init /\ [][Next]_vars /\ Fairness

-----------------------------------------------------------------------------
(* Properties.                                                             *)

Replies == {Text(t) : t \in Turns} \cup {Done(t) : t \in Turns}
Events == {Notice, Error, End}
            \cup Replies \cup {Request(c) : c \in Calls}

ChatTypeOK ==
  /\ turn \in [Turns -> {"idle", "submitted", "rejected"} \cup Active \cup Over]
  /\ client \in [Turns -> Clients \cup {NoClient}]
  /\ doomed \in [Turns -> Clients \cup {NoClient}]
  /\ clients \in [Conversations -> Clients \cup {NoClient}]
  /\ restarted \subseteq Conversations /\ owesNotice \subseteq Conversations
  /\ noticeDue \subseteq Turns /\ failed \subseteq Turns

PumpTypeOK ==
  /\ pump \in [Turns -> {"none", "done", "cancelled"} \cup Pumping]
  /\ queue \in [Turns -> Seq(Events)]
  /\ delivered \in [Turns -> SUBSET (Events \ {End})]

SdkTypeOK ==
  /\ link \in [Clients -> {"new", "connecting", "up", "dead", "closed"}]
  /\ work \in [Clients -> Seq(Turns)]
  /\ said \subseteq Turns
  /\ inbox \in [Clients -> Seq(Replies)]

TurnTypeOK == ChatTypeOK /\ PumpTypeOK /\ SdkTypeOK

\* Every variable, the gate's included, stays in its domain.
TypeOK == Gate!TypeOK /\ TurnTypeOK

\* A write ran only if the browser was shown its request on some stream and
\* the user's approval of it was accepted: the composition has no way round
\* the gate (service.py 68-97, the allowed_tools trap of ADR-0002).
ConsentEndToEnd ==
  \A c \in Writes : pc[c] = "ran" =>
    /\ \E t \in Turns : Request(c) \in delivered[t]
    /\ acked[c] = {"approved"} /\ row[c] = "approved"

\* However a turn ends, nothing of it stays behind: a bound queue belongs to
\* a turn that is still in progress, and so does a running pump (service.py
\* 171-175).
NothingOutlivesTurn ==
  /\ \A v \in Conversations : queues[v] # NoTurn => turn[queues[v]] \in Active
  /\ \A t \in Turns : pump[t] \in Pumping => turn[t] \in Active

\* A turn that failed and was not abandoned leaves no conversation with the
\* client it failed on, so the next turn gets a fresh session (service.py
\* 153-164 and its docstring).
FailedClientDropped ==
  \A t \in failed : turn[t] \in {"done", "saved"} =>
    \A v \in Conversations : clients[v] # client[t]

\* With the gate's, the inductive invariant behind the three properties above
\* and what typing needs of the pumps: a client is its turn's alone until it is connected, a
\* connected one is registered for one conversation at most, and what has been
\* bound, pumped or answered belongs where it should (service.py 102-175,
\* 201-216).
Connecting(t) ==
  /\ link[client[t]] = "connecting"
  /\ \A u \in Turns \ {t} : client[u] # client[t]
  /\ \A v \in Conversations : clients[v] # client[t]

TurnInv(t) ==
  /\ turn[t] \in Active \cup Over <=> client[t] # NoClient
  /\ client[t] # NoClient => link[client[t]] # "new"
  /\ t \in failed => client[t] # NoClient
  /\ doomed[t] # NoClient => link[doomed[t]] \notin {"new", "connecting"}
  /\ turn[t] = "connecting" => Connecting(t)
  /\ pump[t] \in Pumping => turn[t] \in Active
  /\ t \in failed /\ turn[t] \in {"dropping", "closing", "done", "saved"} =>
       \A v \in Conversations : clients[v] # client[t]
  /\ \A v \in Conversations :
       clients[v] = client[t] /\ client[t] # NoClient => v = ConvOf[t]

ConversationInv(v) ==
  /\ queues[v] # NoTurn => turn[queues[v]] \in Active /\ ConvOf[queues[v]] = v
  /\ clients[v] # NoClient => link[clients[v]] \notin {"new", "connecting"}
  /\ \A w \in Conversations : clients[w] = clients[v] /\ clients[v] # NoClient => w = v

AnsweredWasShown ==
  \A c \in Calls : acked[c] # {} => \E t \in Turns : Request(c) \in delivered[t]

TurnsInv ==
  /\ \A t \in Turns : TurnInv(t)
  /\ \A v \in Conversations : ConversationInv(v)
  /\ AnsweredWasShown

\* Every turn that begins comes to an end, whatever the SDK, the user and the
\* other turns do: never a hung stream (service.py 145-147, 155-170).
TurnEnds == \A t \in Turns : turn[t] \in Active ~> turn[t] \in Over

\* A write that waits for its approval was shown on the stream whose queue took
\* the request, or is still in that queue, until the stream is over: nothing
\* but a stream's end leaves a request to expire unseen, whichever turn of the
\* conversation took it and whatever that turn was doing (approvals.py 60-80,
\* service.py 107-175).
RequestReachesStream ==
  \A c \in Calls : pc[c] = "waiting" =>
    \/ Request(c) \in delivered[asked[c]]
    \/ \E i \in DOMAIN queue[asked[c]] : queue[asked[c]][i] = Request(c)
    \/ turn[asked[c]] \in Over

\* The stream of a turn shows replies to that turn's own message (SPEC.md 32:
\* the user types a message and gets a streamed reply).
AnswersBelongToTurn ==
  \A t, u \in Turns : {Text(u), Done(u)} \cap delivered[t] # {} => u = t

\* A conversation whose session was restarted is told so by the next turn: the
\* notice stays due until it is delivered (service.py 5-6).
NoticeNotLost ==
  \A v \in owesNotice :
    v \in restarted \/ \E t \in noticeDue : ConvOf[t] = v /\ turn[t] \in Active

\* A conversation has at most one live SDK session (service.py 1).
OneSessionPerConversation ==
  \A t, u \in Turns :
    /\ ConvOf[t] = ConvOf[u] /\ client[t] # NoClient /\ client[u] # NoClient
    /\ link[client[t]] = "up" /\ link[client[u]] = "up"
    => client[t] = client[u]

\* A write is refused without asking only when its own turn's stream is not
\* open to ask on (approvals.py 63: "No live stream to ask on").
RefusedOnlyWithoutStream ==
  [][\A c \in Calls : pc[c] = "created" /\ pc'[c] = "refusing" =>
       turn[TurnOf[c]] \notin {"starting", "running"}]_vars
=============================================================================
