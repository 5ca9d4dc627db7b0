-------------------------- MODULE CrossingRegister --------------------------
(***************************************************************************)
(* What a durable, shared replay store promises an A2A-to-MCP crossing      *)
(* (conformance/a2a-mcp-crossing-v2/PROFILE.md): an identity is accepted    *)
(* once, by one verifier, and buys one effect at most.                      *)
(***************************************************************************)

CONSTANT Identities   \* replay identities

VARIABLES
  spent,   \* accepted identities
  owed,    \* accepted, and the effect may still happen
  done     \* the effect has happened

vars == <<spent, owed, done>>

Init ==
  /\ spent = {}
  /\ owed = {}
  /\ done = {}

Accept(k) ==
  /\ k \notin spent
  /\ spent' = spent \union {k}
  /\ owed' \in {owed, owed \union {k}}
  /\ UNCHANGED done

Dispatch(k) ==
  /\ k \in owed
  /\ owed' = owed \ {k}
  /\ done' = done \union {k}
  /\ UNCHANGED spent

(* The acceptance is lost with whoever held it, for good.                   *)
Lose(k) ==
  /\ k \in owed
  /\ owed' = owed \ {k}
  /\ UNCHANGED <<spent, done>>

Next == \E k \in Identities : Accept(k) \/ Dispatch(k) \/ Lose(k)

Spec == Init /\ [][Next]_vars
=============================================================================
