-------------------------- MODULE IntentContinuity --------------------------
(***************************************************************************)
(* Mandate -> delegations -> final effect (border/intent_continuity.py).    *)
(* prove_intent_continuity walks a chain of signed delegations hop by hop,  *)
(* narrowing scope and expiry, and binds the chain to one exact effect; the *)
(* Gate consumes the receipt's nonce and lets the effect happen (external). *)
(*                                                                          *)
(* The loop over the hops is one action per hop, so a chain may have any    *)
(* length, and the hop offered next may be any hop in existence.  "digest"  *)
(* stands for document_digest of the document, and is unique to it.  An     *)
(* actor is an identifier together with its key thumbprint.  The set-valued *)
(* scope fields are all treated alike: one set of values per field.         *)
(***************************************************************************)
EXTENDS Naturals, Sequences, FiniteSets

CONSTANTS
  Mandates, Hops, Effects,   \* the documents in existence
  Fields, Values,            \* scope fields, and the values they list
  Amounts,                   \* payment amounts, in minor units
  Digests, Actors, Machines, Tasks, Audiences, TxNonces,
  None,                      \* no proof under way
  MaxClock,                  \* bound: the clock stops here
  MaxHops,                   \* bound: length of a chain (the code has none)
  MaxReceipts                \* bound: receipts ever stamped

Scopes == [values : [Fields -> SUBSET Values], amount : Amounts]

ASSUME DocumentsAssumption ==
  /\ Mandates \subseteq
       [digest : Digests, genuine : BOOLEAN, actor : Actors, machine : Machines,
        task : Tasks, audience : Audiences, scope : Scopes, nonce : TxNonces,
        issued : Nat, starts : Nat, expires : Nat]
  /\ Hops \subseteq
       [digest : Digests, parent : Digests, genuine : BOOLEAN, from : Actors,
        to : Actors, machine : Machines, task : Tasks, audience : Audiences,
        scope : Scopes, nonce : TxNonces, issued : Nat, starts : Nat, expires : Nat]
  /\ Effects \subseteq
       [task : Tasks, actor : Actors, machine : Machines,
        values : [Fields -> Values], amount : Amounts]

ASSUME BoundsAssumption ==
  /\ Amounts \subseteq Nat
  /\ MaxClock \in Nat
  /\ MaxHops \in Nat
  /\ MaxReceipts \in Nat

(* _validate_scope: no scope field lists nothing.                           *)
ValidScope(s) == \A f \in Fields : s.values[f] # {}

(* Mutation: the ceiling is forgotten.                                      *)
NarrowerValues(parent, child) ==
  \A f \in Fields : child.values[f] \subseteq parent.values[f]

(* _assert_narrower: each field lists no more, the ceiling is no higher.    *)
Narrower(parent, child) ==
  /\ \A f \in Fields : child.values[f] \subseteq parent.values[f]
  /\ child.amount <= parent.amount

(* _effect_within: every projected field is listed, the payment is covered. *)
EffectWithin(s, e) ==
  /\ \A f \in Fields : e.values[f] \in s.values[f]
  /\ e.amount <= s.amount

VARIABLES
  proof,     \* locals of the prove_intent_continuity call under way, or None
  receipts,  \* the continuity receipts Border has stamped
  consumed,  \* nonces the Gate has consumed
  done,      \* history: the effects the Gate let happen
  revoked,   \* mandates their owners have revoked
  clock

vars == <<proof, receipts, consumed, done, revoked, clock>>

Proofs == [mandate : Mandates, now : Nat, chain : Seq(Hops), scope : Scopes,
           parent : Digests, actor : Actors, machine : Machines,
           expiry : Nat, seen : SUBSET TxNonces]

Receipts == [mandate : Mandates, chain : Seq(Hops), effect : Effects,
             nonce : TxNonces, issued_at : Nat, expires_at : Nat]

ASSUME NoneAssumption == None \notin Proofs

TypeOK ==
  /\ proof \in Proofs \union {None}
  /\ receipts \subseteq Receipts
  /\ consumed \subseteq TxNonces
  /\ done \subseteq [receipt : Receipts, at : Nat]
  /\ revoked \subseteq Mandates
  /\ clock \in Nat

Init ==
  /\ proof = None
  /\ receipts = {}
  /\ consumed = {}
  /\ done = {}
  /\ revoked = {}
  /\ clock = 0

-----------------------------------------------------------------------------
(* prove_intent_continuity.                                                 *)

(* The checks of the mandate; the clock is read once, here.                 *)
Start(m) ==
  /\ proof = None
  /\ m.genuine
  /\ m \notin revoked
  /\ m.issued <= m.starts /\ m.starts <= clock /\ clock < m.expires
  /\ ValidScope(m.scope)
  /\ proof' = [mandate |-> m, now |-> clock, chain |-> <<>>, scope |-> m.scope,
               parent |-> m.digest, actor |-> m.actor, machine |-> m.machine,
               expiry |-> m.expires, seen |-> {m.nonce}]
  /\ UNCHANGED <<receipts, consumed, done, revoked, clock>>

(* Mutation: the hop may outlive its parent.                                *)
HopWindowUncapped(p, h) ==
  /\ p.mandate.starts <= h.issued
  /\ h.issued <= h.starts
  /\ h.starts <= p.now
  /\ p.now < h.expires

(* The time check of one hop: inside the mandate's start and the parent's   *)
(* expiry, around the proof's moment.                                       *)
HopWindow(p, h) ==
  /\ p.mandate.starts <= h.issued
  /\ h.issued <= h.starts
  /\ h.starts <= p.now
  /\ p.now < h.expires
  /\ h.expires <= p.expiry

(* Linked to its predecessor: by digest, and by who was given the authority. *)
LinkedByDigestOnly(p, h) == h.parent = p.parent
Linked(p, h) == h.parent = p.parent /\ h.from = p.actor

(* One turn of the loop over the delegations.                               *)
Extend(h) ==
  /\ proof # None
  /\ Len(proof.chain) < MaxHops
  /\ h.genuine
  /\ Linked(proof, h)
  /\ h.task = proof.mandate.task
  /\ h.audience = proof.mandate.audience
  /\ HopWindow(proof, h)
  /\ h.nonce \notin proof.seen
  /\ ValidScope(h.scope)
  /\ Narrower(proof.scope, h.scope)
  /\ proof' = [proof EXCEPT !.chain = Append(@, h), !.scope = h.scope,
                            !.parent = h.digest, !.actor = h.to,
                            !.machine = h.machine, !.expiry = h.expires,
                            !.seen = @ \union {h.nonce}]
  /\ UNCHANGED <<receipts, consumed, done, revoked, clock>>

(* Mutation: the receipt carries the nonce of the last document looked at.  *)
StampedHopNonce(p, e) ==
  [mandate |-> p.mandate, chain |-> p.chain, effect |-> e,
   nonce |-> p.chain[Len(p.chain)].nonce,
   issued_at |-> p.now, expires_at |-> p.expiry]

(* The receipt: the mandate's nonce (root_nonce), the proof's moment, and   *)
(* the narrowest expiry of the chain.                                       *)
Stamped(p, e) ==
  [mandate |-> p.mandate, chain |-> p.chain, effect |-> e,
   nonce |-> p.mandate.nonce, issued_at |-> p.now, expires_at |-> p.expiry]

(* The final effect is bound, and the receipt stamped.                      *)
Conclude(e) ==
  /\ proof # None
  /\ proof.chain # <<>>
  /\ Cardinality(receipts) < MaxReceipts
  /\ e.task = proof.mandate.task
  /\ e.actor = proof.actor
  /\ e.machine = proof.machine
  /\ EffectWithin(proof.scope, e)
  /\ receipts' = receipts \union {Stamped(proof, e)}
  /\ proof' = None
  /\ UNCHANGED <<consumed, done, revoked, clock>>

(* The next hop, or the effect, fails a check: the call raises.             *)
Refuse ==
  /\ proof # None
  /\ proof' = None
  /\ UNCHANGED <<receipts, consumed, done, revoked, clock>>

-----------------------------------------------------------------------------
(* The Gate, as authorize_continuous_effect is used: stamp verified, live,  *)
(* mandate current, exact effect, the receipt's nonce looked up and spent   *)
(* in one step.  It is external: that it does so is assumed.                *)

NonceFresh(n) == n \notin consumed

GateAccepts(r, e) ==
  /\ r.effect = e
  /\ clock < r.expires_at
  /\ r.mandate \notin revoked
  /\ NonceFresh(r.nonce)

AuthorizeEffect(r, e) ==
  /\ GateAccepts(r, e)
  /\ consumed' = consumed \union {r.nonce}
  /\ done' = done \union {[receipt |-> r, at |-> clock]}
  /\ UNCHANGED <<proof, receipts, revoked, clock>>

Revoke(m) ==
  /\ m \notin revoked
  /\ revoked' = revoked \union {m}
  /\ UNCHANGED <<proof, receipts, consumed, done, clock>>

Tick ==
  /\ clock < MaxClock
  /\ clock' = clock + 1
  /\ UNCHANGED <<proof, receipts, consumed, done, revoked>>

Next ==
  \/ \E m \in Mandates : Start(m) \/ Revoke(m)
  \/ \E h \in Hops : Extend(h)
  \/ \E e \in Effects : Conclude(e)
  \/ Refuse
  \/ \E r \in receipts, e \in Effects : AuthorizeEffect(r, e)
  \/ Tick

Spec == Init /\ [][Next]_vars

-----------------------------------------------------------------------------
(* Properties.                                                              *)

(* The falsifiable claim of the profile, for chains of any length: the      *)
(* effect is inside the mandate's scope AND inside the scope of every hop   *)
(* between, although each hop is compared with its predecessor only.        *)
EffectInEveryScope ==
  \A r \in receipts :
    /\ EffectWithin(r.mandate.scope, r.effect)
    /\ \A i \in DOMAIN r.chain : EffectWithin(r.chain[i].scope, r.effect)

(* A receipt expires no later than the mandate and every hop of its chain,  *)
(* and was issued inside all of their windows.                              *)
WindowInEveryLink ==
  \A r \in receipts :
    /\ r.mandate.starts <= r.issued_at /\ r.issued_at < r.expires_at
    /\ r.expires_at <= r.mandate.expires
    /\ \A i \in DOMAIN r.chain :
         r.chain[i].starts <= r.issued_at /\ r.expires_at <= r.chain[i].expires

(* Each hop was signed by the actor the one before it empowered, and the    *)
(* effect is the last delegate's own: nobody joins the chain from outside.  *)
Connected(m, c) ==
  /\ c[1].from = m.actor /\ c[1].parent = m.digest
  /\ \A i \in 1..(Len(c) - 1) :
       c[i + 1].from = c[i].to /\ c[i + 1].parent = c[i].digest

ChainConnected ==
  \A r \in receipts :
    LET last == r.chain[Len(r.chain)] IN
    /\ r.chain # <<>>
    /\ Connected(r.mandate, r.chain)
    /\ r.effect.actor = last.to /\ r.effect.machine = last.machine

(* The promise to the owner, all of it at the moment of the effect: inside  *)
(* the mandate's scope, task and window, before any revocation, and once,   *)
(* over every chain and effect proved under it.  The Gate, which lets it    *)
(* happen, sees a receipt only, and spends the nonce it finds there.        *)
Permitted ==
  {x \in [mandate : Mandates, effect : Effects] :
     x.effect.task = x.mandate.task /\ EffectWithin(x.mandate.scope, x.effect)}

Performed == {[mandate |-> x.receipt.mandate, effect |-> x.receipt.effect] : x \in done}

Ledger == INSTANCE MandateLedger WITH performed <- Performed

LedgerSpec == Ledger!Spec

-----------------------------------------------------------------------------
(* The inductive strengthening: what the loop has established of the part   *)
(* of the chain it has walked.                                              *)

(* The documents a proof, or a receipt, rests on: the mandate, then hops.   *)
ScopeUnderAll(s, m, chain) ==
  /\ Narrower(m.scope, s)
  /\ \A i \in DOMAIN chain : Narrower(chain[i].scope, s)

WindowUnderAll(now, expiry, m, chain) ==
  /\ m.starts <= now /\ now < expiry /\ expiry <= m.expires
  /\ \A i \in DOMAIN chain : chain[i].starts <= now /\ expiry <= chain[i].expires

(* What the next hop is compared with is what the last document handed on.  *)
HandedOn(p) ==
  IF p.chain = <<>>
  THEN p.parent = p.mandate.digest /\ p.actor = p.mandate.actor
  ELSE LET last == p.chain[Len(p.chain)] IN
       /\ Connected(p.mandate, p.chain)
       /\ p.parent = last.digest /\ p.actor = last.to /\ p.machine = last.machine

ProofSound ==
  proof # None =>
    /\ HandedOn(proof)
    /\ ScopeUnderAll(proof.scope, proof.mandate, proof.chain)
    /\ WindowUnderAll(proof.now, proof.expiry, proof.mandate, proof.chain)
    /\ proof.now <= clock

(* What a receipt takes from its mandate: the task, and the nonce the Gate  *)
(* is to spend.                                                             *)
ReceiptsOfMandate ==
  \A r \in receipts : r.effect.task = r.mandate.task /\ r.nonce = r.mandate.nonce

ReceiptsIssuedInThePast == \A r \in receipts : r.issued_at <= clock

SpentNonces == \A x \in done : x.receipt.mandate.nonce \in consumed

(* The proof under way is inside every document it has walked, receipts are *)
(* of the past and inside all their documents, and every effect that        *)
(* happened has spent its mandate's nonce.                                  *)
IInv ==
  /\ TypeOK
  /\ ProofSound
  /\ EffectInEveryScope
  /\ WindowInEveryLink
  /\ ChainConnected
  /\ ReceiptsOfMandate
  /\ ReceiptsIssuedInThePast
  /\ SpentNonces
=============================================================================
