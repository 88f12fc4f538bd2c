--------------------------- MODULE TurnClockProofs ---------------------------
(***************************************************************************)
(* TurnClock for every pair of timeouts with ApprovalTimeout below         *)
(* AgentTimeout.                                                           *)
(***************************************************************************)
EXTENDS TurnClock, TLAPS

\* The gap timer never overtakes the wait for an approval.
THEOREM ClockInvariance == Spec => []ClockInv
<1>1. Init => ClockInv
  BY DEF Init, ClockInv, Phases
<1>2. ClockInv /\ [Next]_vars => ClockInv'
  <2> SUFFICES ASSUME ClockInv, [Next]_vars PROVE ClockInv'
    OBVIOUS
  <2> USE TimeoutAssumption DEF ClockInv, Phases
  <2>1. CASE UNCHANGED vars
    BY <2>1 DEF vars
  <2>2. CASE Tick
    BY <2>2 DEF Tick
  <2>3. CASE TakeEvent
    BY <2>3 DEF TakeEvent
  <2>4. CASE ModelSpeaks \/ Ask \/ Answer \/ Expire \/ ToolReturns
    BY <2>4 DEF ModelSpeaks, Ask, Answer, Expire, ToolReturns, Move
  <2>5. CASE GapTimeout
    BY <2>5 DEF GapTimeout
  <2> QED
    BY <2>1, <2>2, <2>3, <2>4, <2>5 DEF Next
<1> QED
  BY <1>1, <1>2, PTL DEF Spec

\* For every two timeouts that config.py's rule allows, an approval expires
\* before the turn it belongs to is taken for hung.
THEOREM ApprovalExpiresFirst == Spec => []ExpiresBeforeGapTimeout
<1>1. ClockInv => ExpiresBeforeGapTimeout
  BY TimeoutAssumption DEF ClockInv, ExpiresBeforeGapTimeout
<1> QED
  BY <1>1, ClockInvariance, PTL
=============================================================================
