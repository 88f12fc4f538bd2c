------------------------------ MODULE ChatPage ------------------------------
(***************************************************************************)
(* The chat: the page (ChatWindow.tsx, MessageList.tsx), its reader of the *)
(* stream (SseReader), the routes it calls (routes/chat.py and             *)
(* routes/conversations.py) and the stored history.  The gate behind the   *)
(* decision route is what ApprovalGate implements, ConsentLedger; a turn's *)
(* events are any that AgentService may send.                              *)
(*                                                                         *)
(* The pages are tabs: they share the conversation, whose id is in local   *)
(* storage, and nothing else.  A turn is one message the user sends.       *)
(***************************************************************************)
EXTENDS SseReader, FiniteSets

CONSTANTS Pages, Nobody,
          MaxTurns,     \* bound: messages sent in a behaviour
          Streams,      \* bound: Streams[t], the kinds of events turn t may send
          MaxReloads,   \* bound: reloads in a behaviour
          Cuts          \* bound: where a chunk may end inside a frame, from its end

VARIABLES shown,        \* shown[p]: what page p shows, event by event
          busy,         \* busy[p]: the turn p is streaming, or 0
          fetch,        \* fetch[p]: p's request for the history
          buffer,       \* buffer[p]: what the reader keeps for the next chunk
          sender,       \* sender[t]: the page that sent turn t
          result,       \* result[t]: how the turn ended for that page
          server,       \* server[t]: how far the chat route is
          sends,        \* sends[t]: the events it is going to send
          sent,         \* sent[t]: those it has sent
          wire,         \* wire[t]: what of them has not reached the page
          history,      \* what the conversation's stored messages are made of
          decision,     \* decision[t]: what the card of turn t says was decided
          posts,        \* decisions on their way to the server
          reloads,
          ledger, answers   \* of ConsentLedger

page == <<shown, busy, fetch, buffer, decision>>
turns == <<sender, result, server, sends, sent, wire>>
gate == <<ledger, answers>>
vars == <<page, turns, history, posts, reloads, gate>>

Turns == 1..MaxTurns
Gate == INSTANCE ConsentLedger WITH Calls <- Turns, performed <- {}

Kinds == {"user", "note", "text", "tool_use", "approval_request", "error", "done", "ping"}
Sendable == Kinds \ {"user", "note"}

OfKind(K) == [turn : Turns, kind : K, n : Nat]

ASSUME ChatAssumption ==
  /\ MaxTurns \in Nat /\ Nobody \notin Pages
  /\ Syntax \cap OfKind(Kinds) = {}
  /\ \A t \in Turns : \A kinds \in Streams[t] : kinds \in Seq(Sendable)

Event(t, kind, n) == [turn |-> t, kind |-> kind, n |-> n]
Asked(t) == Event(t, "user", 0)

\* A message of the page's own: an error of the connection.
Note(t) == Event(t, "note", 0)
Settled == [at |-> "settled", rows |-> <<>>]

Init ==
  /\ shown = [p \in Pages |-> <<>>]
  /\ busy = [p \in Pages |-> 0]
  /\ fetch = [p \in Pages |-> [at |-> "sent", rows |-> <<>>]]
  /\ buffer = [p \in Pages |-> <<>>]
  /\ sender = [t \in Turns |-> Nobody]
  /\ result = [t \in Turns |-> "none"]
  /\ server = [t \in Turns |-> "none"]
  /\ sends = [t \in Turns |-> <<>>]
  /\ sent = [t \in Turns |-> <<>>]
  /\ wire = [t \in Turns |-> <<>>]
  /\ decision = [t \in Turns |-> "none"]
  /\ history = <<>> /\ posts = {} /\ reloads = 0
  /\ Gate!LedgerInit

-----------------------------------------------------------------------------
(* The chat route.                                                         *)

Abandoned(t) == result[t] \in {"lost", "reloaded"}

TextsOf(events) == Only(events, OfKind({"text"}))

\* The message is stored before the stream opens; without the database the
\* route answers 503.
Open(t) ==
  /\ server[t] = "called"
  /\ \/ /\ server' = [server EXCEPT ![t] = "streaming"]
        /\ history' = Append(history, Asked(t))
        /\ \E kinds \in Streams[t] :
             sends' = [sends EXCEPT ![t] =
                         [n \in 1..Len(kinds) |-> Event(t, kinds[n], n)]]
     \/ /\ server' = [server EXCEPT ![t] = "refused"] /\ UNCHANGED <<history, sends>>
  /\ UNCHANGED <<page, sender, result, sent, wire, posts, reloads, gate>>

Bytes(e) == IF e.kind = "ping" THEN Ping ELSE Frame(e)

\* An event of AgentService.chat is sent, or a ping.
Emit(t) ==
  /\ server[t] = "streaming" /\ sends[t] # <<>>
  /\ LET e == Head(sends[t]) IN
     /\ sends' = [sends EXCEPT ![t] = Tail(@)]
     /\ sent' = [sent EXCEPT ![t] = Append(@, e)]
     /\ \/ ~Abandoned(t) /\ wire' = [wire EXCEPT ![t] = @ \o Bytes(e)]
        \/ Abandoned(t) /\ UNCHANGED wire
     /\ \/ e.kind = "approval_request" /\ Gate!Open(t)
        \/ e.kind # "approval_request" /\ UNCHANGED gate
  /\ UNCHANGED <<page, sender, result, server, history, posts, reloads>>

\* The texts are stored as one message, if there is one and the database can;
\* only then does the response end.
Close(t) ==
  /\ server[t] = "streaming" /\ sends[t] = <<>>
  /\ LET texts == TextsOf(sent[t]) IN
     \/ /\ server' = [server EXCEPT ![t] = "closed"]
        /\ history' = history \o texts
     \/ /\ texts # <<>>
        /\ server' = [server EXCEPT ![t] = "unsaved"] /\ UNCHANGED history
  /\ UNCHANGED <<page, sender, result, sends, sent, wire, posts, reloads, gate>>

\* Mutant: a response that is cut stores what was sent of it.
DisconnectSaving(t) ==
  /\ server[t] = "streaming" /\ Abandoned(t)
  /\ server' = [server EXCEPT ![t] = "cut"]
  /\ history' = history \o TextsOf(sent[t])
  /\ UNCHANGED <<page, sender, result, sends, sent, wire, posts, reloads, gate>>

\* The server notices, sooner or later or never, that the page has gone.
Disconnect(t) ==
  /\ server[t] = "streaming" /\ Abandoned(t)
  /\ server' = [server EXCEPT ![t] = "cut"]
  /\ UNCHANGED <<page, sender, result, sends, sent, wire, history, posts, reloads, gate>>

-----------------------------------------------------------------------------
(* The page: send, and the stream it reads.                                *)

Send(p) ==
  \E t \in Turns :
    /\ busy[p] = 0
    /\ sender[t] = Nobody /\ \A u \in 1..(t - 1) : sender[u] # Nobody
    /\ shown' = [shown EXCEPT ![p] = Append(@, Asked(t))]
    /\ busy' = [busy EXCEPT ![p] = t]
    /\ sender' = [sender EXCEPT ![t] = p]
    /\ server' = [server EXCEPT ![t] = "called"]
    /\ UNCHANGED <<fetch, buffer, decision, result, sends, sent, wire, history, posts, reloads, gate>>

\* A text is added to the message it belongs to or starts one; a tool, a card or
\* an error is a message; "done" shows nothing.
Visible(events) == Only(events, OfKind(Kinds \ {"done", "ping"}))

\* The lengths of the next chunk: it ends with a frame, or Cuts short of it.
Chunks(bytes) ==
  {i - c : i \in FrameStops(bytes), c \in Cuts \cup {0}} \cap 1..Len(bytes)

\* Mutant: a chunk is parsed by itself.
ReadWithoutBuffer(p) ==
  LET t == busy[p] IN
  /\ t # 0
  /\ \E n \in Chunks(wire[t]) :
       LET bytes == SubSeq(wire[t], 1, n) IN
       /\ wire' = [wire EXCEPT ![t] = SubSeq(@, n + 1, Len(@))]
       /\ shown' = [shown EXCEPT ![p] = @ \o Visible(Events(bytes))]
       /\ UNCHANGED buffer
  /\ UNCHANGED <<busy, fetch, decision, sender, result, server, sends, sent, history, posts, reloads, gate>>

\* A chunk of any length arrives; the frames it completes are shown at once.
Read(p) ==
  LET t == busy[p] IN
  /\ t # 0
  /\ \E n \in Chunks(wire[t]) :
       LET bytes == buffer[p] \o SubSeq(wire[t], 1, n) IN
       /\ wire' = [wire EXCEPT ![t] = SubSeq(@, n + 1, Len(@))]
       /\ shown' = [shown EXCEPT ![p] = @ \o Visible(Events(bytes))]
       /\ buffer' = [buffer EXCEPT ![p] = Incomplete(bytes)]
  /\ UNCHANGED <<busy, fetch, decision, sender, result, server, sends, sent, history, posts, reloads, gate>>

\* The finally block, after a note if something went wrong.
Stop(p, how, note) ==
  /\ result' = [result EXCEPT ![busy[p]] = how]
  /\ shown' = [shown EXCEPT ![p] = @ \o note]
  /\ busy' = [busy EXCEPT ![p] = 0]
  /\ buffer' = [buffer EXCEPT ![p] = <<>>]
  /\ wire' = [wire EXCEPT ![busy[p]] = <<>>]
  /\ UNCHANGED <<fetch, decision, sender, server, sends, sent, history, posts, reloads, gate>>

\* The response has ended; it is a 503; or the connection is lost.
End(p) ==
  /\ busy[p] # 0 /\ server[busy[p]] \in {"closed", "unsaved"} /\ wire[busy[p]] = <<>>
  /\ Stop(p, "read", <<>>)

Refused(p) ==
  /\ busy[p] # 0 /\ server[busy[p]] = "refused"
  /\ Stop(p, "refused", <<Note(busy[p])>>)

Drop(p) ==
  /\ busy[p] # 0
  /\ Stop(p, "lost", <<Note(busy[p])>>)

-----------------------------------------------------------------------------
(* The page: the history.                                                  *)

\* GET /api/conversations/{id}/messages.
ReadHistory(p) ==
  /\ fetch[p].at = "sent"
  /\ fetch' = [fetch EXCEPT ![p] = [at |-> "read", rows |-> history]]
  /\ UNCHANGED <<shown, busy, buffer, decision, turns, history, posts, reloads, gate>>

\* Mutant: the history is shown whatever the page shows.
ShowHistoryAnyway(p) ==
  /\ fetch[p].at = "read"
  /\ shown' = [shown EXCEPT ![p] = IF fetch[p].rows = <<>> THEN @ ELSE fetch[p].rows]
  /\ fetch' = [fetch EXCEPT ![p] = Settled]
  /\ UNCHANGED <<busy, buffer, decision, turns, history, posts, reloads, gate>>

\* It does not clobber a message the user already sent.
ShowHistory(p) ==
  /\ fetch[p].at = "read"
  /\ shown' = [shown EXCEPT ![p] = IF @ = <<>> THEN fetch[p].rows ELSE @]
  /\ fetch' = [fetch EXCEPT ![p] = Settled]
  /\ UNCHANGED <<busy, buffer, decision, turns, history, posts, reloads, gate>>

LoseHistory(p) ==
  /\ fetch[p].at \in {"sent", "read"}
  /\ fetch' = [fetch EXCEPT ![p] = Settled]
  /\ UNCHANGED <<shown, busy, buffer, decision, turns, history, posts, reloads, gate>>

\* A reload forgets the page; the requests it made go on without it.
Reload(p) ==
  /\ reloads < MaxReloads /\ reloads' = reloads + 1
  /\ shown' = [shown EXCEPT ![p] = <<>>]
  /\ busy' = [busy EXCEPT ![p] = 0]
  /\ buffer' = [buffer EXCEPT ![p] = <<>>]
  /\ fetch' = [fetch EXCEPT ![p] = [at |-> "sent", rows |-> <<>>]]
  /\ result' = [t \in Turns |-> IF sender[t] = p THEN "reloaded" ELSE result[t]]
  /\ wire' = [t \in Turns |-> IF t = busy[p] THEN <<>> ELSE wire[t]]
  /\ UNCHANGED <<decision, sender, server, sends, sent, history, posts, gate>>

-----------------------------------------------------------------------------
(* The page: decisions.                                                    *)

Shows(p, t) == \E k \in 1..Len(shown[p]) :
  shown[p][k].turn = t /\ shown[p][k].kind = "approval_request"

\* Mutant: the buttons stay after a decision.
DecideAgain(p) ==
  \E t \in Turns, a \in Gate!Answers :
    /\ Shows(p, t)
    /\ decision' = [decision EXCEPT ![t] = IF @ = "none" THEN a ELSE @]
    /\ posts' = posts \cup {[turn |-> t, answer |-> a]}
    /\ UNCHANGED <<shown, busy, fetch, buffer, turns, history, reloads, gate>>

\* A card has buttons until it is decided; it says so before the server is asked.
Decide(p) ==
  \E t \in Turns, a \in Gate!Answers :
    /\ Shows(p, t) /\ decision[t] = "none"
    /\ decision' = [decision EXCEPT ![t] = a]
    /\ posts' = posts \cup {[turn |-> t, answer |-> a]}
    /\ UNCHANGED <<shown, busy, fetch, buffer, turns, history, reloads, gate>>

\* The route answers 200, or 404 or 409, which the page does not look at.
Resolve ==
  \E x \in posts :
    /\ posts' = posts \ {x}
    /\ \/ Gate!Answer(x.turn, x.answer)
       \/ (ledger[x.turn] # "open" \/ answers[x.turn] # {}) /\ UNCHANGED gate
    /\ UNCHANGED <<page, turns, history, reloads>>

\* The request or its response is lost, and the page says so.
Undelivered ==
  \E x \in posts :
    /\ posts' = posts \ {x}
    /\ shown' = [p \in Pages |-> IF p = sender[x.turn] /\ result[x.turn] # "reloaded"
                                 THEN Append(shown[p], Note(x.turn)) ELSE shown[p]]
    /\ Gate!Answer(x.turn, x.answer) \/ UNCHANGED gate
    /\ UNCHANGED <<busy, fetch, buffer, decision, turns, history, reloads>>

\* The gate stops waiting: the time is up, the turn is over or cancelled.
Expire(t) ==
  /\ answers[t] = {} /\ Gate!Close(t, "expired")
  /\ UNCHANGED <<page, turns, history, posts, reloads>>

Next ==
  \/ \E t \in Turns : Open(t) \/ Emit(t) \/ Close(t) \/ Disconnect(t) \/ Expire(t)
  \/ \E p \in Pages :
       \/ Send(p) \/ Read(p) \/ End(p) \/ Refused(p) \/ Drop(p)
       \/ ReadHistory(p) \/ ShowHistory(p) \/ LoseHistory(p) \/ Reload(p)
       \/ Decide(p)
  \/ Resolve \/ Undelivered

Spec == Init /\ [][Next]_vars

-----------------------------------------------------------------------------
(* Properties.                                                             *)

Texts(T, events) == Only(events, [turn : T, kind : {"user", "text"}, n : Nat])
Own(p) == {t \in Turns : sender[t] = p /\ result[t] # "reloaded"}
Whole(t) == result[t] = "read" /\ server[t] = "closed"

\* What a page shows of its turn, with what it will still make of the bytes it
\* has not read, is what the server sent, however the bytes are cut into chunks
\* (sse.ts 49-68).
NothingLostInStream ==
  \A p \in Pages : LET t == busy[p] IN t # 0 =>
    Only(shown[p], [turn : {t}, kind : Sendable, n : Nat])
      \o Visible(Events(buffer[p] \o wire[t])) = Visible(sent[t])

\* The history has of a turn nothing, the user's message, or that and the whole
\* answer: a stream that ends early, at the server or at the page, stores no part
\* of one (chat.py 57-69).
StoredIsWhole ==
  \A t \in Turns :
    Texts({t}, history)
      \in {<<>>, <<Asked(t)>>, <<Asked(t)>> \o TextsOf(sent[t] \o sends[t])}

\* A page keeps showing what the user sent from it, and of a turn it read to
\* its end, unless the database failed, it shows what a reload would show, in
\* the same order: the history that arrives late, the turns of other tabs and
\* of pages that are gone change nothing of it (ChatWindow.tsx 24-31, chat.py 4).
ShownIsStored ==
  \A p \in Pages :
    LET whole == {t \in Own(p) : Whole(t)}
    IN  /\ \A t \in Own(p) : Contains(shown[p], Asked(t))
        /\ Texts(whole, shown[p]) = Texts(whole, history)

\* An answer the gate accepted is the one the user's card shows, though the
\* page marks the card before it asks and ignores what the route answers
\* (ChatWindow.tsx 95-109, approvals.py 24-29).
AckedIsShown ==
  \A t \in Turns, p \in Pages :
    sender[t] = p /\ Shows(p, t) /\ answers[t] # {} => answers[t] = {decision[t]}
=============================================================================
