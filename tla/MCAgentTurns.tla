---------------------------- MODULE MCAgentTurns ----------------------------
(***************************************************************************)
(* Small instances of AgentTurns: two turns of one conversation, at most a *)
(* write called in t1 and a read-only call in t2, one client per turn.     *)
(***************************************************************************)
EXTENDS AgentTurns

CONSTANTS t1, t2, c1, c2, k1, k2, v1

MCConversations == {v1}
MCTwoTurns == {t1, t2}
MCConvOf == [t \in Turns |-> v1]
MCCalls == {c1, c2}
MCOneCall == {c1}
MCWrites == Calls \cap {c1}
MCTurnOf == [c \in Calls |-> IF c = c1 THEN t1 ELSE t2]
MCTwoClients == {k1, k2}
MCNone == {}
MCFirstTurn == {t1}
MCFirstClient == {k1}
=============================================================================
