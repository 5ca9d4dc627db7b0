----------------------------- MODULE Admission -----------------------------
(***************************************************************************)
(* Border admission and the Gate behind it (border/admission.py): a trip    *)
(* declaration, an authority receipt, a runtime policy and an optional      *)
(* human control event are bound into one admission receipt, which a Gate   *)
(* checks again before anything acts.                                       *)
(*                                                                          *)
(* The four documents come from different parties, so admit and             *)
(* verify_gate_context are offered every combination of the documents in    *)
(* existence.  A digest stands for the document itself.  A receipt or stamp *)
(* reaches the Gate only if Border signed it (external: the signature       *)
(* scheme); authority_is_current is a look into the issuer's revocation     *)
(* list (external).  "delegation" is principal_id and delegation_id taken   *)
(* together; a human control event has neither.                             *)
(***************************************************************************)
EXTENDS Naturals, FiniteSets

CONSTANTS
  Declarations, Authorities, Policies, Controls,  \* the documents in existence
  Nonces, Requests, Subjects, Delegations, Actions, Audiences, Versions, Purposes,
  None,          \* no control event, no registry entry, no outcome yet
  MaxClock,      \* bound: the clock stops here
  MaxRestarts    \* bound: how often the controller's process is restarted

Modes == {"approval", "override", "manual_control"}

ASSUME DocumentsAssumption ==
  /\ Declarations \subseteq
       [nonce : Nonces, request : Requests, subject : Subjects,
        delegation : Delegations, action : Actions, audience : Audiences,
        purpose : Purposes, created : Nat, starts : Nat, expires : Nat]
  /\ Authorities \subseteq
       [request : Requests, subject : Subjects, delegation : Delegations,
        action : Actions, genuine : BOOLEAN, allows : BOOLEAN,
        starts : Nat, expires : Nat]
  /\ Policies \subseteq
       [version : Versions, audience : Audiences, routes : SUBSET Actions,
        requires_human_approval : BOOLEAN, override_permitted : BOOLEAN,
        sealed : BOOLEAN]
  /\ Controls \subseteq
       [mode : Modes, request : Requests, subject : Subjects, action : Actions,
        version : Versions, genuine : BOOLEAN, empowered : BOOLEAN,
        starts : Nat, expires : Nat]
  /\ None \notin Controls

ASSUME BoundsAssumption == MaxClock \in Nat /\ MaxRestarts \in Nat

Attempts == [declaration : Declarations, authority : Authorities,
             policy : Policies, control : Controls \union {None}]

Receipts == [attempt : Attempts, issued_at : Nat, expires_at : Nat, epoch : Nat]

ASSUME NoneAssumption == None \notin Receipts \union Nat

Within(x, now) == x.starts <= now /\ now < x.expires

Earlier(a, b) == IF a <= b THEN a ELSE b

-----------------------------------------------------------------------------
(* The decision of admit, for material whose nonce is new.                  *)

(* _validate_declaration: created by now, and in its window.                *)
DeclarationValid(d, now) == d.created <= now /\ Within(d, now)

(* The authority names the very trip of the declaration.                    *)
SameTrip(a, d) ==
  a.request = d.request /\ a.subject = d.subject /\ a.delegation = d.delegation

AuthorityValid(a, d, now) ==
  /\ a.genuine
  /\ SameTrip(a, d)
  /\ a.action = d.action
  /\ a.allows
  /\ Within(a, now)

RouteAllowed(p, d) == p.audience = d.audience /\ d.action \in p.routes

(* Mutation: the human spoke of another request of the same subject.        *)
ControlBoundAnyRequest(c, d, p) ==
  c.subject = d.subject /\ c.action = d.action /\ c.version = p.version

(* The four bindings of a human control: a request of a subject, under      *)
(* whatever delegation it is made, an action and a version of the policy.   *)
ControlBound(c, d, p) ==
  /\ c.request = d.request
  /\ c.subject = d.subject
  /\ c.action = d.action
  /\ c.version = p.version

(* _validate_control: a signed and bound event of an empowered human; an    *)
(* override only where policy permits.                                      *)
ControlValid(c, d, p, now) ==
  /\ c.genuine
  /\ c.empowered
  /\ ControlBound(c, d, p)
  /\ Within(c, now)
  /\ ~RouteAllowed(p, d) => c.mode = "override" /\ p.override_permitted
  /\ p.requires_human_approval /\ c.mode = "override" => p.override_permitted

NeedsHuman(p, d) == ~RouteAllowed(p, d) \/ p.requires_human_approval

Decide(att, now) ==
  LET d == att.declaration
      p == att.policy
      sound == /\ DeclarationValid(d, now)
               /\ AuthorityValid(att.authority, d, now)
               /\ p.sealed
  IN CASE ~sound -> "error"
       [] sound /\ att.control = None ->
            IF NeedsHuman(p, d) THEN "secondary" ELSE "admit"
       [] sound /\ att.control # None ->
            IF ControlValid(att.control, d, p, now) THEN "admit" ELSE "error"

VARIABLES
  admissions,  \* the controller's registry: nonce -> receipt or None
  receipts,    \* every receipt handed out, over all lives of the controller
  outcome,     \* what the last call of admit returned, or None
  passes,      \* history: the calls verify_gate_context let through
  revoked,     \* the issuer's list: when each authority was revoked, or None
  clock,
  epoch        \* which life of the controller this is

vars == <<admissions, receipts, outcome, passes, revoked, clock, epoch>>

Results == {"admit", "secondary", "error"}

TypeOK ==
  /\ admissions \in [Nonces -> Receipts \union {None}]
  /\ receipts \subseteq Receipts
  /\ outcome \in Results \union {None}
  /\ passes \subseteq [attempt : Attempts, at : Nat]
  /\ revoked \in [Authorities -> Nat \union {None}]
  /\ clock \in Nat
  /\ epoch \in Nat

Init ==
  /\ admissions = [n \in Nonces |-> None]
  /\ receipts = {}
  /\ outcome = None
  /\ passes = {}
  /\ revoked = [a \in Authorities |-> None]
  /\ clock = 0
  /\ epoch = 0

Live(att, now) ==
  DeclarationValid(att.declaration, now) /\ Within(att.authority, now)

Return(result) == outcome' = result

(* _admissions is keyed by nonce: a nonce in it has been admitted once.     *)
NonceUnspentAlways(n) == TRUE
NonceUnspent(n) == admissions[n] = None

(* admit of a nonce already in the registry: the previous receipt for the   *)
(* same material, an error for any other; neither looks at the clock again. *)
SameMaterial(att, receipt) == att = receipt.attempt

Replay(att) ==
  LET previous == admissions[att.declaration.nonce] IN
  /\ ~NonceUnspent(att.declaration.nonce)
  /\ Return(IF SameMaterial(att, previous) THEN "admit" ELSE "error")
  /\ UNCHANGED <<admissions, receipts, passes, revoked, clock, epoch>>

(* expires_at of the receipt: declaration and authority, not the control.   *)
ReceiptExpiryOfDeclaration(att) == att.declaration.expires
ReceiptExpiry(att) == Earlier(att.declaration.expires, att.authority.expires)

(* admit of a new nonce; only "admit" issues a receipt and spends the nonce. *)
Admit(att) ==
  LET n == att.declaration.nonce
      result == Decide(att, clock)
      receipt == [attempt |-> att, issued_at |-> clock,
                  expires_at |-> ReceiptExpiry(att), epoch |-> epoch]
  IN
  /\ NonceUnspent(n)
  /\ Return(result)
  /\ IF result = "admit"
     THEN /\ admissions' = [admissions EXCEPT ![n] = receipt]
          /\ receipts' = receipts \union {receipt}
     ELSE UNCHANGED <<admissions, receipts>>
  /\ UNCHANGED <<passes, revoked, clock, epoch>>

(* authority_is_current, as the Gate's host implements it.                  *)
AlwaysCurrent(a) == TRUE
AuthorityIsCurrent(a) == revoked[a] = None

(* verify_gate_context over a signed stamp of a receipt: live, current, and *)
(* the same declaration, authority, policy, action and control.             *)
GateAccepts(receipt, att, candidate) ==
  /\ clock < receipt.expires_at
  /\ AuthorityIsCurrent(att.authority)
  /\ att = receipt.attempt
  /\ candidate = att.declaration.action

VerifyGateContext(receipt, att, candidate) ==
  /\ GateAccepts(receipt, att, candidate)
  /\ passes' = passes \union {[attempt |-> att, at |-> clock]}
  /\ UNCHANGED <<admissions, receipts, outcome, revoked, clock, epoch>>

(* The environment: the issuer revokes, time passes, the process restarts   *)
(* and loses the in-memory registry.                                        *)
Revoke(a) ==
  /\ revoked[a] = None
  /\ revoked' = [revoked EXCEPT ![a] = clock]
  /\ UNCHANGED <<admissions, receipts, outcome, passes, clock, epoch>>

Tick ==
  /\ clock < MaxClock
  /\ clock' = clock + 1
  /\ UNCHANGED <<admissions, receipts, outcome, passes, revoked, epoch>>

Restart ==
  /\ epoch < MaxRestarts
  /\ epoch' = epoch + 1
  /\ admissions' = [n \in Nonces |-> None]
  /\ outcome' = None
  /\ UNCHANGED <<receipts, passes, revoked, clock>>

Next ==
  \/ \E att \in Attempts : Replay(att) \/ Admit(att)
  \/ \E receipt \in receipts, att \in Attempts, candidate \in Actions :
       VerifyGateContext(receipt, att, candidate)
  \/ \E a \in Authorities : Revoke(a)
  \/ Tick
  \/ Restart

Spec == Init /\ [][Next]_vars

-----------------------------------------------------------------------------
(* Properties.                                                              *)

(* The effective permit: the intersection of what the declaration asks, the *)
(* authority grants and the destination offers, with a human only where the *)
(* policy lets a human in, and who spoke of this request of this subject    *)
(* (schema/admission.md).                                                   *)
Permitted(att, now) ==
  LET d == att.declaration
      a == att.authority
      p == att.policy
      c == att.control
  IN /\ Live(att, now)
     /\ a.genuine /\ a.allows /\ SameTrip(a, d) /\ a.action = d.action
     /\ p.sealed
     /\ c # None => /\ c.genuine /\ c.empowered
                    /\ c.request = d.request /\ c.subject = d.subject
                    /\ c.action = d.action
                    /\ c.version = p.version
     /\ p.requires_human_approval => c # None
     /\ \/ RouteAllowed(p, d)
        \/ c # None /\ c.mode = "override" /\ p.override_permitted
     /\ c # None /\ c.mode = "override" =>
          p.override_permitted \/ ~p.requires_human_approval

(* Whatever documents the Gate is shown, and however much later than the    *)
(* admission, it lets through only a permitted action, inside the windows   *)
(* of the declaration AND of the authority, and not once the authority is   *)
(* revoked, though admit looks at not_before alone, the Gate at the         *)
(* receipt's expiry alone, and the revocation may fall between the two.     *)
GatePassesPermitted ==
  \A pass \in passes :
    LET at == revoked[pass.attempt.authority] IN
    /\ Permitted(pass.attempt, pass.at)
    /\ at # None => pass.at <= at

(* In one life of a controller a nonce stands for one declaration,          *)
(* authority, policy and control, whatever is retried or substituted in     *)
(* whatever order; a later life starts with an empty registry.              *)
NonceNamesOneAttempt ==
  \A r, q \in receipts :
    /\ r.epoch = q.epoch
    /\ r.attempt.declaration.nonce = q.attempt.declaration.nonce
    => r = q

(* What a destination relies on, in terms of permits alone: each is issued  *)
(* once per nonce and life, and whatever passes a Gate does so under one    *)
(* that was issued, is in effect and is not revoked at that very moment.    *)
(* Neither a retry nor a substituted document makes a step of it.           *)
Issued == {[attempt |-> r.attempt, epoch |-> r.epoch] : r \in receipts}
Revoked == {a \in Authorities : revoked[a] # None}

Ledger == INSTANCE PermitLedger
            WITH Effective <- Permitted, issued <- Issued, revoked <- Revoked
LedgerSpec == Ledger!Spec

-----------------------------------------------------------------------------
(* The inductive invariant.                                                 *)

(* A receipt is what Decide said at its moment of issue, and lives no       *)
(* longer than the declaration and the authority do.                        *)
ReceiptsWarranted ==
  \A r \in receipts :
    /\ Decide(r.attempt, r.issued_at) = "admit"
    /\ r.expires_at = ReceiptExpiry(r.attempt)
    /\ r.issued_at <= clock
    /\ r.epoch <= epoch

(* The registry holds exactly this life's receipts, each under its nonce.   *)
RegistryComplete ==
  /\ \A n \in Nonces :
       admissions[n] # None =>
         /\ admissions[n] \in receipts
         /\ admissions[n].epoch = epoch
         /\ admissions[n].attempt.declaration.nonce = n
  /\ \A r \in receipts :
       r.epoch = epoch => admissions[r.attempt.declaration.nonce] = r

PassesInThePast == \A pass \in passes : pass.at <= clock

IInv ==
  /\ TypeOK
  /\ PassesInThePast
  /\ ReceiptsWarranted
  /\ RegistryComplete
  /\ NonceNamesOneAttempt
  /\ GatePassesPermitted
=============================================================================
