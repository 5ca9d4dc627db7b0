--------------------------- MODULE MandateLedger ---------------------------
(***************************************************************************)
(* What the owner of a mandate is promised, whatever agents pass it on,     *)
(* over whatever protocols: authority survives "without amplification or    *)
(* substitution" (schema/intent_continuity_v0.1.md, README.md).  Of         *)
(* delegations, proofs, receipts and Gates nothing is left: an effect       *)
(* happens under a mandate, or it does not.                                 *)
(***************************************************************************)
EXTENDS Naturals

CONSTANTS
  Mandates, Effects,
  Permitted    \* pairs [mandate, effect]: the effect is inside the mandate

VARIABLES
  performed,   \* the effects that happened, each with its mandate
  revoked,     \* mandates their owners have revoked
  clock

vars == <<performed, revoked, clock>>

Init ==
  /\ performed = {}
  /\ revoked = {}
  /\ clock = 0

(* The effect happens: inside a mandate that is live, not revoked, and not  *)
(* used up.                                                                 *)
Perform(m, e) ==
  LET x == [mandate |-> m, effect |-> e] IN
  /\ x \in Permitted
  /\ m.starts <= clock /\ clock < m.expires
  /\ m \notin revoked
  /\ \A y \in performed : y.mandate.nonce # m.nonce
  /\ performed' = performed \union {x}
  /\ UNCHANGED <<revoked, clock>>

Revoke(m) ==
  /\ revoked' = revoked \union {m}
  /\ UNCHANGED <<performed, clock>>

Tick ==
  /\ clock' = clock + 1
  /\ UNCHANGED <<performed, revoked>>

Next ==
  \/ \E m \in Mandates : Revoke(m) \/ \E e \in Effects : Perform(m, e)
  \/ Tick

Spec == Init /\ [][Next]_vars
=============================================================================
