------------------------------ MODULE TurnClock ------------------------------
(***************************************************************************)
(* The three timers of one chat turn: the per-gap timeout of               *)
(* AgentService.chat, the approval timeout of ApprovalGate.check and the   *)
(* timeout of the one-shot model call a write capability makes             *)
(* (agent/llm.py, raw_llm).  Time is counted in units of the instance's    *)
(* choice; Tick does not pass a timer that is due.                         *)
(*                                                                         *)
(* A turn is silent from the approval_request to the next assistant        *)
(* message: a tool's result reaches the pump as a UserMessage, which       *)
(* _to_events turns into no event.                                         *)
(***************************************************************************)
EXTENDS Naturals

CONSTANTS AgentTimeout,      \* Settings.agent_timeout_seconds
          ApprovalTimeout    \* Settings.approval_timeout_seconds

\* config.py 23: the approval timeout must stay below the agent timeout.
ASSUME TimeoutAssumption ==
  /\ AgentTimeout \in Nat /\ ApprovalTimeout \in Nat
  /\ ApprovalTimeout < AgentTimeout

VARIABLES phase,    \* what the agent is doing; "cut" once the gap timer fired
          spent,    \* time spent in this phase (while asking: since the ask)
          gap,      \* what the gap timer of queue.get has counted
          stream    \* "listening", or "behind": an event is queued untaken

vars == <<phase, spent, gap, stream>>

Phases == {"model", "asking", "tool"}

Init ==
  /\ phase = "model" /\ spent = 0
  /\ gap = 0 /\ stream = "listening"

Move(from, to) ==
  /\ phase = from /\ phase' = to /\ spent' = 0

\* While an event is queued, or the browser is slow to take it, no queue.get
\* is waiting and the gap timer does not run.
Tick ==
  /\ phase \in Phases
  /\ stream = "listening" => gap < AgentTimeout
  /\ phase = "asking" => spent < ApprovalTimeout
  /\ phase = "tool" => spent < AgentTimeout
  /\ spent' = IF spent < AgentTimeout THEN spent + 1 ELSE spent
  /\ gap' = IF stream = "behind" THEN gap ELSE gap + 1
  /\ UNCHANGED <<phase, stream>>

\* chat takes the queued event; the next queue.get starts a new timer.
TakeEvent ==
  /\ phase \in Phases /\ stream = "behind"
  /\ stream' = "listening" /\ gap' = 0
  /\ UNCHANGED <<phase, spent>>

\* An assistant message: text, or the announcement of a tool call.
ModelSpeaks ==
  /\ Move("model", "model")
  /\ stream' = "behind"
  /\ UNCHANGED gap

\* Mutant: the wait starts and no event announces it.
AskUnannounced ==
  /\ Move("model", "asking")
  /\ UNCHANGED <<gap, stream>>

\* check puts the approval_request on the queue and starts to wait.
Ask ==
  /\ Move("model", "asking")
  /\ stream' = "behind"
  /\ UNCHANGED gap

\* The user approves and the tool runs, or denies and the model goes on.
Answer ==
  /\ Move("asking", "tool") \/ Move("asking", "model")
  /\ UNCHANGED <<gap, stream>>

Expire ==
  /\ spent = ApprovalTimeout
  /\ Move("asking", "model")
  /\ UNCHANGED <<gap, stream>>

\* The capability returns, its model call within its own timeout.
ToolReturns ==
  /\ Move("tool", "model")
  /\ UNCHANGED <<gap, stream>>

GapTimeout ==
  /\ phase \in Phases /\ stream = "listening" /\ gap = AgentTimeout
  /\ phase' = "cut"
  /\ UNCHANGED <<spent, gap, stream>>

Next ==
  \/ Tick \/ TakeEvent
  \/ ModelSpeaks \/ Ask \/ Answer \/ Expire \/ ToolReturns
  \/ GapTimeout

Spec == Init /\ [][Next]_vars

-----------------------------------------------------------------------------
(* Properties.                                                             *)

\* An approval the user was asked about expires before the gap timer of the
\* turn takes the silence for a hang, however slow the browser is to take the
\* request (config.py 23-25, service.py 143-147).
ExpiresBeforeGapTimeout ==
  phase = "asking" /\ stream = "listening" => gap < AgentTimeout

\* Typing, and what makes the above inductive: the gap timer never counts more
\* than the time since the ask (service.py 143-147, approvals.py 81).
ClockInv ==
  /\ phase \in Phases \cup {"cut"}
  /\ spent \in Nat /\ gap \in Nat /\ stream \in {"listening", "behind"}
  /\ phase = "asking" => spent <= ApprovalTimeout
  /\ phase = "asking" /\ stream = "listening" => gap <= spent

\* A turn is cut only when a single activity has been silent for the whole
\* timeout (service.py 143-144: "a silent gap this long means a real hang").
SilenceMeansHang == phase = "cut" => spent >= AgentTimeout
=============================================================================
