---------------------------- MODULE PermitLedger ----------------------------
(***************************************************************************)
(* What a destination is promised of whatever reaches it through Border     *)
(* (schema/admission.md): permits are issued once per nonce and life of the *)
(* controller, and every passage of the Gate is under one of them, still    *)
(* effective at that moment and not revoked.  Of receipts, digests, stamps  *)
(* and registries nothing is left.                                          *)
(***************************************************************************)
EXTENDS Naturals

CONSTANTS
  Attempts, Authorities,
  Effective(_, _)    \* an attempt and a moment: a permit in effect then

VARIABLES
  issued,      \* permits, each with the life of the controller it is of
  passes,      \* what the Gate let through, and when
  revoked,     \* authorities their issuers have revoked
  clock,
  epoch        \* which life of the controller this is

vars == <<issued, passes, revoked, clock, epoch>>

Init ==
  /\ issued = {}
  /\ passes = {}
  /\ revoked = {}
  /\ clock = 0
  /\ epoch = 0

Issue(att) ==
  /\ \A x \in issued :
       x.epoch = epoch => x.attempt.declaration.nonce # att.declaration.nonce
  /\ Effective(att, clock)
  /\ issued' = issued \union {[attempt |-> att, epoch |-> epoch]}
  /\ UNCHANGED <<passes, revoked, clock, epoch>>

(* A permit may be used again and again, and in a later life.               *)
Pass(att) ==
  /\ Effective(att, clock)
  /\ att.authority \notin revoked
  /\ passes' = passes \union {[attempt |-> att, at |-> clock]}
  /\ UNCHANGED <<issued, revoked, clock, epoch>>

Revoke(a) ==
  /\ revoked' = revoked \union {a}
  /\ UNCHANGED <<issued, passes, clock, epoch>>

Tick ==
  /\ clock' = clock + 1
  /\ UNCHANGED <<issued, passes, revoked, epoch>>

Restart ==
  /\ epoch' = epoch + 1
  /\ UNCHANGED <<issued, passes, revoked, clock>>

Next ==
  \/ \E att \in Attempts : Issue(att)
  \/ \E x \in issued : Pass(x.attempt)
  \/ \E a \in Authorities : Revoke(a)
  \/ Tick
  \/ Restart

Spec == Init /\ [][Next]_vars
=============================================================================
