----------------------------- MODULE FlowLedger -----------------------------
(***************************************************************************)
(* What an operator's outbound flow comes to, whatever threads, browsers    *)
(* and restarts do to it (docs/live-sandbox.md, docs/openid-aiim-2026.md):  *)
(* its request is attempted downstream without a token, once; its state is  *)
(* shown to a browser, once; the code that brings back is spent at the      *)
(* token endpoint, once; and if it was worth a token the request is retried *)
(* with one, once.  It may end early at any point.                          *)
(***************************************************************************)
EXTENDS Naturals

CONSTANT States

VARIABLES
  attempts,    \* how often each state's request went downstream without a token
  opened,      \* states shown to a browser
  exchanges,   \* how often each state's code went to the token endpoint
  granted,     \* states whose code was worth a token
  retried      \* how often it went downstream with one

vars == <<attempts, opened, exchanges, granted, retried>>

Init ==
  /\ attempts = [s \in States |-> 0]
  /\ opened = {}
  /\ exchanges = [s \in States |-> 0]
  /\ granted = {}
  /\ retried = [s \in States |-> 0]

Attempt(s) ==
  /\ attempts[s] = 0
  /\ attempts' = [attempts EXCEPT ![s] = 1]
  /\ UNCHANGED <<opened, exchanges, granted, retried>>

Open(s) ==
  /\ attempts[s] = 1
  /\ s \notin opened
  /\ opened' = opened \union {s}
  /\ UNCHANGED <<attempts, exchanges, granted, retried>>

(* The code is spent, for a token or for nothing.                           *)
Exchange(s) ==
  /\ s \in opened
  /\ exchanges[s] = 0
  /\ exchanges' = [exchanges EXCEPT ![s] = 1]
  /\ granted' \in {granted, granted \union {s}}
  /\ UNCHANGED <<attempts, opened, retried>>

Retry(s) ==
  /\ s \in granted
  /\ retried[s] = 0
  /\ retried' = [retried EXCEPT ![s] = 1]
  /\ UNCHANGED <<attempts, opened, exchanges, granted>>

Next == \E s \in States : Attempt(s) \/ Open(s) \/ Exchange(s) \/ Retry(s)

Spec == Init /\ [][Next]_vars
=============================================================================
