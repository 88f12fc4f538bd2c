--------------------------- MODULE MCApprovalGate ---------------------------
(***************************************************************************)
(* A small instance of ApprovalGate: two writes and a read-only call in    *)
(* one conversation, which a turn's queue is bound to or not.              *)
(***************************************************************************)
EXTENDS ApprovalGate

CONSTANTS w1, w2, r1, v1, q1

MCWrites == {w1, w2}
MCCalls == MCWrites \cup {r1}
MCConversations == {v1}
MCQueues == {q1}
MCConversationOf == [c \in MCCalls |-> v1]
=============================================================================
