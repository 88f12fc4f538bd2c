---------------------------- MODULE Repositories ----------------------------
(***************************************************************************)
(* What the repositories promise their callers (repositories/base.py):     *)
(* every call takes effect at once, as the in-memory ones do it, or raises,*)
(* and then either took effect or did not.                                 *)
(***************************************************************************)
EXTENDS Store

CONSTANTS Calls,       \* calls to be made, which name the rows they insert
          Requests     \* what may be asked

VARIABLES store, request, answer

repositoryVars == <<store, request, answer>>

NoRequest == [op |-> "none"]
NoAnswer == [ok |-> FALSE, value |-> "pending"]

RepositoriesInit ==
  /\ store = EmptyStore
  /\ request = [c \in Calls |-> NoRequest]
  /\ answer = [c \in Calls |-> NoAnswer]

Call(c) ==
  /\ request[c] = NoRequest
  /\ request' = [request EXCEPT ![c] = request'[c]]
  /\ request'[c] \in Requests
  /\ LET result == Perform(store, c, request'[c]) IN
     \/ /\ answer' = [answer EXCEPT ![c] = result.answer]
        /\ store' = result.store
     \/ /\ answer' = [answer EXCEPT ![c] = Raised]
        /\ store' \in {store, result.store}

RepositoriesNext == \E c \in Calls : Call(c)

RepositoriesSpec == RepositoriesInit /\ [][RepositoriesNext]_repositoryVars
=============================================================================
