----------------------------- MODULE EchoLedger -----------------------------
(***************************************************************************)
(* What the live sandbox promises of its only effect, whatever the threads, *)
(* processes, retries and crashes below it do: one ledger of effects and    *)
(* the answers given for them.  SQLiteEchoRuntime writes the echo result    *)
(* and its idempotency record in one transaction, so an effect IS a ledger  *)
(* entry (border/live_sandbox.py:273-279).                                  *)
(***************************************************************************)

CONSTANTS
  Bindings,   \* what an effect may be bound to: records with the fields
              \* client_id, request_id, grant_id, identity and payload
  SingleUse   \* MP_SINGLE_USE_GRANTS

VARIABLES
  ledger,     \* the bindings whose effect has happened
  answers     \* the successful answers given, each for one binding

vars == <<ledger, answers>>

Init ==
  /\ ledger = {}
  /\ answers = {}

(* Two bindings compete for one retry namespace: issuer, client, request.   *)
SameNamespace(a, b) ==
  /\ a.client_id = b.client_id
  /\ a.request_id = b.request_id

(* The effect of b happens: never twice in one namespace and, with single-  *)
(* use grants, never twice under one access-token grant.                    *)
Perform(b) ==
  /\ \A e \in ledger : ~SameNamespace(e, b)
  /\ SingleUse => \A e \in ledger : e.grant_id # b.grant_id
  /\ ledger' = ledger \union {b}
  /\ UNCHANGED answers

(* A caller is told of the effect of b, once or many times: always of b's   *)
(* own payload, and only after the effect.                                  *)
Answer(b) ==
  /\ b \in ledger
  /\ answers' = answers \union {[binding |-> b, result |-> b.payload]}
  /\ UNCHANGED ledger

Next == \E b \in Bindings : Perform(b) \/ Answer(b)

Spec == Init /\ [][Next]_vars
=============================================================================
