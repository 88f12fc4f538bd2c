--------------------------- MODULE ConsentLedger ---------------------------
(***************************************************************************)
(* What the approval gate promises, with no event loop, future, queue or   *)
(* timer in sight: an audit row is opened, the user may answer it once,    *)
(* the row is closed once, and a write is performed at most once and only  *)
(* against a row closed as "approved", which takes the user's own "yes".   *)
(*                                                                         *)
(* ApprovalGate implements this specification (see ApprovalGate!Ledger).   *)
(***************************************************************************)
CONSTANT Calls              \* tool calls the agent may make

VARIABLES ledger,           \* ledger[c]: decision column of c's audit row
          answers,          \* answers[c]: the answers the user got an "ok" for
          performed         \* calls whose write was performed

ledgerVars == <<ledger, answers, performed>>

Answers == {"approved", "denied"}

LedgerInit ==
  /\ ledger = [c \in Calls |-> "none"]
  /\ answers = [c \in Calls |-> {}]
  /\ performed = {}

Open(c) ==
  /\ ledger[c] = "none"
  /\ ledger' = [ledger EXCEPT ![c] = "open"]
  /\ UNCHANGED <<answers, performed>>

Answer(c, a) ==
  /\ ledger[c] = "open" /\ answers[c] = {}
  /\ answers' = [answers EXCEPT ![c] = {a}]
  /\ UNCHANGED <<ledger, performed>>

\* Approval takes the user's yes; a denial is never recorded over a yes;
\* expiry may always win.
Close(c, d) ==
  /\ ledger[c] = "open"
  /\ d = "approved" => answers[c] = {"approved"}
  /\ d = "denied" => "approved" \notin answers[c]
  /\ ledger' = [ledger EXCEPT ![c] = d]
  /\ UNCHANGED <<answers, performed>>

Perform(c) ==
  /\ ledger[c] = "approved" /\ c \notin performed
  /\ performed' = performed \cup {c}
  /\ UNCHANGED <<ledger, answers>>

LedgerNext ==
  \E c \in Calls :
    \/ Open(c)
    \/ \E a \in Answers : Answer(c, a)
    \/ \E d \in Answers \cup {"expired"} : Close(c, d)
    \/ Perform(c)

LedgerSpec == LedgerInit /\ [][LedgerNext]_ledgerVars
=============================================================================
