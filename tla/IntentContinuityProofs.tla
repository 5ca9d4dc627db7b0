----------------------- MODULE IntentContinuityProofs -----------------------
(* Proofs about IntentContinuity: the loop compares each delegation with    *)
(* its predecessor only, yet the effect is inside every document of the     *)
(* chain, for chains of any length, over any documents; and proofs about    *)
(* ProtocolContinuity, that the carriers are the ones the signers meant.    *)
EXTENDS ProtocolContinuity, SequenceTheorems, TLAPS

-----------------------------------------------------------------------------
(* The order on scopes.                                                     *)

(* A scope is inside itself.                                                *)
LEMMA NarrowerReflexive ==
  ASSUME NEW s \in Scopes
  PROVE  Narrower(s, s)
<1>1. s.amount \in Nat
  BY BoundsAssumption DEF Scopes
<1> QED
  BY <1>1 DEF Narrower

(* Narrowing is transitive: comparing neighbours is enough.                 *)
LEMMA NarrowerTransitive ==
  ASSUME NEW r \in Scopes, NEW s \in Scopes, NEW t \in Scopes,
         Narrower(r, s), Narrower(s, t)
  PROVE  Narrower(r, t)
<1>1. r.amount \in Nat /\ s.amount \in Nat /\ t.amount \in Nat
  BY BoundsAssumption DEF Scopes
<1>2. t.amount <= r.amount
  BY <1>1 DEF Narrower
<1>3. \A f \in Fields : t.values[f] \subseteq r.values[f]
  BY DEF Narrower
<1> QED
  BY <1>2, <1>3 DEF Narrower

(* An effect inside a scope is inside every scope that one narrows.         *)
LEMMA EffectWithinWider ==
  ASSUME NEW r \in Scopes, NEW s \in Scopes, NEW e \in Effects,
         Narrower(r, s), EffectWithin(s, e)
  PROVE  EffectWithin(r, e)
<1>1. r.amount \in Nat /\ s.amount \in Nat
  BY BoundsAssumption DEF Scopes
<1>2. e.amount \in Nat
  BY DocumentsAssumption, BoundsAssumption
<1>3. e.amount <= r.amount
  BY <1>1, <1>2 DEF Narrower, EffectWithin
<1>4. \A f \in Fields : e.values[f] \in r.values[f]
  BY DEF Narrower, EffectWithin
<1> QED
  BY <1>3, <1>4 DEF EffectWithin

(* The documents of a mandate and of a hop have the types declared.         *)
LEMMA MandateType ==
  ASSUME NEW m \in Mandates
  PROVE  /\ m.digest \in Digests /\ m.actor \in Actors /\ m.machine \in Machines
         /\ m.scope \in Scopes /\ m.nonce \in TxNonces
         /\ m.issued \in Nat /\ m.starts \in Nat /\ m.expires \in Nat
BY DocumentsAssumption

(* What a hop carries.                                                      *)
LEMMA HopType ==
  ASSUME NEW h \in Hops
  PROVE  /\ h.digest \in Digests /\ h.to \in Actors /\ h.machine \in Machines
         /\ h.scope \in Scopes /\ h.nonce \in TxNonces
         /\ h.issued \in Nat /\ h.starts \in Nat /\ h.expires \in Nat
BY DocumentsAssumption

-----------------------------------------------------------------------------
(* The inductive invariant, action by action.                               *)

(* Nothing has been proved, so nothing has gone wrong.                      *)
LEMMA Initially == Init => IInv
BY DEF Init, IInv, TypeOK, ProofSound, EffectInEveryScope, WindowInEveryLink, ChainConnected,
       ReceiptsOfMandate, ReceiptsIssuedInThePast, SpentNonces

(* The mandate's checks establish the invariant of the loop.                *)
LEMMA StartStep ==
  ASSUME IInv, NEW m \in Mandates, Start(m)
  PROVE  IInv'
<1> USE DEF IInv
<1>1. proof' = [mandate |-> m, now |-> clock, chain |-> <<>>, scope |-> m.scope,
                parent |-> m.digest, actor |-> m.actor, machine |-> m.machine,
                expiry |-> m.expires, seen |-> {m.nonce}]
  BY DEF Start
<1>2. UNCHANGED <<receipts, consumed, done, revoked, clock>>
  BY DEF Start
<1>3. clock \in Nat
  BY DEF TypeOK
<1>4. proof' \in Proofs
  BY <1>1, <1>3, MandateType DEF Proofs
<1>5. TypeOK'
  BY <1>2, <1>4 DEF TypeOK
<1>6. ScopeUnderAll(m.scope, m, <<>>)
  BY NarrowerReflexive, MandateType DEF ScopeUnderAll
<1>7. WindowUnderAll(clock, m.expires, m, <<>>)
  BY MandateType DEF Start, WindowUnderAll
<1>8. ProofSound'
  BY <1>1, <1>2, <1>3, <1>6, <1>7 DEF HandedOn, ProofSound, ScopeUnderAll, WindowUnderAll, Narrower
<1> QED
  BY <1>2, <1>5, <1>8
     DEF EffectInEveryScope, WindowInEveryLink, ChainConnected,
         ReceiptsOfMandate, ReceiptsIssuedInThePast, SpentNonces

(* One turn of the loop: the hop is inside its predecessor, hence inside    *)
(* every document before it.                                                *)
LEMMA ExtendStep ==
  ASSUME IInv, NEW h \in Hops, Extend(h)
  PROVE  IInv'
<1>1. /\ proof # None
      /\ proof' = [proof EXCEPT !.chain = Append(@, h), !.scope = h.scope,
                                !.parent = h.digest, !.actor = h.to,
                                !.machine = h.machine, !.expiry = h.expires,
                                !.seen = @ \union {h.nonce}]
      /\ UNCHANGED <<receipts, consumed, done, revoked, clock>>
  BY DEF Extend
<1>2. proof \in Proofs
  BY <1>1 DEF IInv, TypeOK
<1> DEFINE c == proof.chain
           m == proof.mandate
<1>3. /\ c \in Seq(Hops) /\ m \in Mandates /\ proof.now \in Nat
      /\ proof.scope \in Scopes /\ proof.expiry \in Nat /\ Len(c) \in Nat
      /\ DOMAIN c = 1..Len(c)
  BY <1>2 DEF Proofs
<1>4. /\ proof'.mandate = m /\ proof'.now = proof.now /\ proof'.scope = h.scope
      /\ proof'.chain = Append(c, h) /\ proof'.parent = h.digest
      /\ proof'.actor = h.to /\ proof'.machine = h.machine
      /\ proof'.expiry = h.expires
  BY <1>1, <1>2 DEF Proofs
<1>5. proof' \in Proofs
  <2>1. /\ h.digest \in Digests /\ h.to \in Actors /\ h.machine \in Machines
        /\ h.scope \in Scopes /\ h.nonce \in TxNonces /\ h.expires \in Nat
    BY HopType
  <2>2. Append(c, h) \in Seq(Hops)
    BY <1>3, AppendProperties
  <2>3. proof' = [mandate |-> m, now |-> proof.now, chain |-> Append(c, h),
                  scope |-> h.scope, parent |-> h.digest, actor |-> h.to,
                  machine |-> h.machine, expiry |-> h.expires,
                  seen |-> proof.seen \union {h.nonce}]
    BY <1>1, <1>2 DEF Proofs
  <2>4. proof.seen \subseteq TxNonces
    BY <1>2 DEF Proofs
  <2>5. QED
    BY <1>3, <2>1, <2>2, <2>3, <2>4 DEF Proofs
<1>6. /\ Append(c, h) # <<>>
      /\ Len(Append(c, h)) = Len(c) + 1
      /\ DOMAIN Append(c, h) = 1..(Len(c) + 1)
      /\ \A i \in 1..Len(c) : Append(c, h)[i] = c[i]
      /\ Append(c, h)[Len(c) + 1] = h
  BY <1>3, AppendProperties
<1>7. ProofSound
  BY DEF IInv
<1>8. TypeOK'
  BY <1>1, <1>5 DEF IInv, TypeOK
<1>9. ScopeUnderAll(h.scope, m, Append(c, h))
  <2>1. h.scope \in Scopes /\ m.scope \in Scopes
    BY <1>3, HopType, MandateType
  <2>2. Narrower(proof.scope, h.scope)
    BY DEF Extend
  <2>3. Narrower(m.scope, h.scope)
    BY <1>1, <1>3, <1>7, <2>1, <2>2, NarrowerTransitive DEF ProofSound, ScopeUnderAll
  <2>4. ASSUME NEW i \in 1..(Len(c) + 1)
        PROVE  Narrower(Append(c, h)[i].scope, h.scope)
    <3>1. CASE i = Len(c) + 1
      BY <1>6, <2>1, <3>1, NarrowerReflexive
    <3>2. CASE i # Len(c) + 1
      <4>1. i \in 1..Len(c)
        BY <1>3, <3>2
      <4>2. c[i] \in Hops
        BY <1>3, <4>1
      <4>3. Narrower(c[i].scope, proof.scope)
        BY <1>1, <1>3, <1>7, <4>1 DEF ProofSound, ScopeUnderAll
      <4>4. Narrower(c[i].scope, h.scope)
        BY <1>3, <2>1, <2>2, <4>2, <4>3, HopType, NarrowerTransitive
      <4> QED
        BY <1>6, <4>1, <4>4
    <3> QED
      BY <3>1, <3>2
  <2> QED
    BY <1>6, <2>3, <2>4 DEF ScopeUnderAll
<1>10. WindowUnderAll(proof.now, h.expires, m, Append(c, h))
  <2>1. /\ h.expires \in Nat /\ h.starts \in Nat
        /\ m.starts \in Nat /\ m.expires \in Nat
    BY <1>3, HopType, MandateType
  <2>2. h.starts <= proof.now /\ proof.now < h.expires /\ h.expires <= proof.expiry
    BY DEF Extend, HopWindow
  <2>3. m.starts <= proof.now /\ h.expires <= m.expires
    BY <1>1, <1>3, <1>7, <2>1, <2>2 DEF ProofSound, WindowUnderAll
  <2>4. ASSUME NEW i \in 1..(Len(c) + 1)
        PROVE  /\ Append(c, h)[i].starts <= proof.now
               /\ h.expires <= Append(c, h)[i].expires
    <3>1. CASE i = Len(c) + 1
      BY <1>6, <2>1, <2>2, <3>1
    <3>2. CASE i # Len(c) + 1
      <4>1. i \in 1..Len(c)
        BY <1>3, <3>2
      <4>2. c[i].starts \in Nat /\ c[i].expires \in Nat
        BY <1>3, <4>1, HopType
      <4>3. c[i].starts <= proof.now /\ proof.expiry <= c[i].expires
        BY <1>1, <1>3, <1>7, <4>1 DEF ProofSound, WindowUnderAll
      <4> QED
        BY <1>3, <1>6, <2>1, <2>2, <4>1, <4>2, <4>3
    <3> QED
      BY <3>1, <3>2
  <2> QED
    BY <1>6, <2>2, <2>3, <2>4 DEF WindowUnderAll
<1>11. HandedOn(proof')
  <2>1. h.parent = proof.parent /\ h.from = proof.actor
    BY DEF Extend, Linked
  <2>2. HandedOn(proof)
    BY <1>1, <1>7 DEF ProofSound
  <2>3. Connected(m, Append(c, h))
    <3>1. CASE c = <<>>
      <4>1. Len(c) = 0
        BY <3>1
      <4>2. Append(c, h)[1] = h
        BY <1>6, <4>1
      <4>3. h.from = m.actor /\ h.parent = m.digest
        BY <2>1, <2>2, <3>1 DEF HandedOn
      <4> QED
        BY <1>6, <4>1, <4>2, <4>3 DEF Connected
    <3>2. CASE c # <<>>
      <4>1. Len(c) > 0
        BY <1>3, <3>2
      <4>2. /\ Connected(m, c)
            /\ h.parent = c[Len(c)].digest /\ h.from = c[Len(c)].to
        BY <2>1, <2>2, <3>2 DEF HandedOn
      <4>3. Append(c, h)[1].from = m.actor /\ Append(c, h)[1].parent = m.digest
        BY <1>3, <1>6, <4>1, <4>2 DEF Connected
      <4>4. ASSUME NEW i \in 1..Len(c)
            PROVE  /\ Append(c, h)[i + 1].from = Append(c, h)[i].to
                   /\ Append(c, h)[i + 1].parent = Append(c, h)[i].digest
        <5>1. CASE i = Len(c)
          BY <1>3, <1>6, <4>1, <4>2, <5>1
        <5>2. CASE i # Len(c)
          <6>1. i \in 1..(Len(c) - 1) /\ i + 1 \in 1..Len(c)
            BY <1>3, <5>2
          <6> QED
            BY <1>6, <4>2, <6>1 DEF Connected
        <5> QED
          BY <5>1, <5>2
      <4>5. Len(Append(c, h)) - 1 = Len(c)
        BY <1>3, <1>6
      <4> QED
        BY <4>3, <4>4, <4>5 DEF Connected
    <3> QED
      BY <3>1, <3>2
  <2> QED
    BY <1>4, <1>6, <2>3 DEF HandedOn
<1>12. ProofSound'
  BY <1>1, <1>4, <1>7, <1>9, <1>10, <1>11 DEF ProofSound
<1> QED
  BY <1>1, <1>8, <1>12
     DEF IInv, EffectInEveryScope, WindowInEveryLink, ChainConnected,
         ReceiptsOfMandate, ReceiptsIssuedInThePast, SpentNonces

(* The receipt inherits what the loop established, and the effect, being in *)
(* the last scope, is in all of them.                                       *)
LEMMA ConcludeStep ==
  ASSUME IInv, NEW e \in Effects, Conclude(e)
  PROVE  IInv'
<1> DEFINE r == Stamped(proof, e)
<1>1. /\ proof # None /\ proof' = None
      /\ receipts' = receipts \union {r}
      /\ UNCHANGED <<consumed, done, revoked, clock>>
      /\ proof.chain # <<>>
      /\ e.task = proof.mandate.task
      /\ e.actor = proof.actor /\ e.machine = proof.machine
      /\ EffectWithin(proof.scope, e)
  BY DEF Conclude
<1>2. proof \in Proofs
  BY <1>1 DEF IInv, TypeOK
<1>3. /\ proof.chain \in Seq(Hops) /\ proof.mandate \in Mandates
      /\ proof.scope \in Scopes
      /\ proof.now \in Nat /\ proof.expiry \in Nat
      /\ DOMAIN proof.chain = 1..Len(proof.chain)
  BY <1>2 DEF Proofs
<1>4. /\ r \in Receipts
      /\ r.mandate = proof.mandate /\ r.chain = proof.chain /\ r.effect = e
      /\ r.nonce = proof.mandate.nonce
      /\ r.issued_at = proof.now /\ r.expires_at = proof.expiry
  BY <1>3, MandateType DEF Stamped, Receipts
<1>5. /\ HandedOn(proof)
      /\ ScopeUnderAll(proof.scope, proof.mandate, proof.chain)
      /\ WindowUnderAll(proof.now, proof.expiry, proof.mandate, proof.chain)
      /\ proof.now <= clock
  BY <1>1 DEF IInv, ProofSound
<1>6. TypeOK'
  BY <1>1, <1>4 DEF IInv, TypeOK
<1>7. ProofSound'
  BY <1>1 DEF ProofSound
<1>8. EffectInEveryScope'
  <2>1. EffectWithin(r.mandate.scope, e)
    BY <1>1, <1>3, <1>4, <1>5, MandateType, EffectWithinWider DEF ScopeUnderAll
  <2>2. ASSUME NEW i \in DOMAIN r.chain
        PROVE  EffectWithin(r.chain[i].scope, e)
    <3>1. proof.chain[i] \in Hops
      BY <1>3, <1>4
    <3>2. Narrower(proof.chain[i].scope, proof.scope)
      BY <1>4, <1>5 DEF ScopeUnderAll
    <3> QED
      BY <1>1, <1>3, <1>4, <3>1, <3>2, HopType, EffectWithinWider
  <2>3. EffectInEveryScope
    BY DEF IInv
  <2> QED
    BY <1>1, <1>4, <2>1, <2>2, <2>3 DEF EffectInEveryScope
<1>9. WindowInEveryLink'
  <2>1. WindowInEveryLink
    BY DEF IInv
  <2> QED
    BY <1>1, <1>4, <1>5, <2>1 DEF WindowInEveryLink, WindowUnderAll
<1>10. ChainConnected'
  <2>1. ChainConnected
    BY DEF IInv
  <2> QED
    BY <1>1, <1>4, <1>5, <2>1 DEF ChainConnected, HandedOn
<1>11. ReceiptsIssuedInThePast'
  BY <1>1, <1>4, <1>5 DEF IInv, ReceiptsIssuedInThePast
<1>12. ReceiptsOfMandate'
  BY <1>1, <1>4 DEF IInv, ReceiptsOfMandate
<1> QED
  BY <1>1, <1>6, <1>7, <1>8, <1>9, <1>10, <1>11, <1>12
     DEF IInv, SpentNonces

(* The nonce the Gate spends is the mandate's, whatever the chain.          *)
LEMMA AuthorizeStep ==
  ASSUME IInv, NEW r \in receipts, NEW e \in Effects, AuthorizeEffect(r, e)
  PROVE  IInv'
<1>1. /\ consumed' = consumed \union {r.nonce}
      /\ done' = done \union {[receipt |-> r, at |-> clock]}
      /\ UNCHANGED <<proof, receipts, revoked, clock>>
  BY DEF AuthorizeEffect
<1>2. r \in Receipts /\ r.nonce = r.mandate.nonce
  BY DEF IInv, TypeOK, ReceiptsOfMandate
<1>3. TypeOK'
  BY <1>1, <1>2 DEF IInv, TypeOK, Receipts
<1>4. SpentNonces'
  BY <1>1, <1>2 DEF IInv, SpentNonces
<1> QED
  BY <1>1, <1>3, <1>4
     DEF IInv, ProofSound, EffectInEveryScope, WindowInEveryLink,
         ChainConnected, ReceiptsOfMandate, ReceiptsIssuedInThePast

(* The rest: the loop gives up, a mandate is revoked, time passes.          *)
LEMMA QuietSteps ==
  ASSUME IInv,
         \/ Refuse
         \/ \E m \in Mandates : Revoke(m)
         \/ Tick
         \/ UNCHANGED vars
  PROVE  IInv'
<1>1. UNCHANGED <<receipts, consumed, done>>
  BY DEF Refuse, Revoke, Tick, vars
<1>2. clock \in Nat /\ clock' \in Nat /\ clock <= clock'
  BY DEF IInv, TypeOK, Refuse, Revoke, Tick, vars
<1>3. proof' = None \/ proof' = proof
  BY DEF Refuse, Revoke, Tick, vars
<1>4. TypeOK'
  BY <1>1, <1>2, <1>3 DEF IInv, TypeOK, Refuse, Revoke, Tick, vars
<1>5. ProofSound'
  <2>1. ASSUME proof' # None  PROVE proof'.now \in Nat /\ proof' = proof
    BY <1>3, <2>1 DEF IInv, TypeOK, Proofs
  <2> QED
    BY <1>2, <2>1 DEF IInv, ProofSound
<1>6. ReceiptsIssuedInThePast'
  <2>1. \A r \in receipts : r.issued_at \in Nat /\ r.issued_at <= clock
    BY DEF IInv, TypeOK, Receipts, ReceiptsIssuedInThePast
  <2> QED
    BY <1>1, <1>2, <2>1 DEF ReceiptsIssuedInThePast
<1> QED
  BY <1>1, <1>4, <1>5, <1>6
     DEF IInv, EffectInEveryScope, WindowInEveryLink, ChainConnected,
         ReceiptsOfMandate, SpentNonces

(* Every step keeps the inductive invariant.                                *)
LEMMA Inductive == IInv /\ [Next]_vars => IInv'
BY StartStep, ExtendStep, ConcludeStep, AuthorizeStep, QuietSteps DEF Next

-----------------------------------------------------------------------------
(* The theorems.                                                            *)

(* The inductive invariant holds of every run, for any documents.           *)
THEOREM Invariance == Spec => []IInv
<1>1. Init => IInv
  BY Initially
<1>2. IInv /\ [Next]_vars => IInv'
  BY Inductive
<1> QED
  BY <1>1, <1>2, PTL DEF Spec

(* Every reachable state is well typed.                                     *)
THEOREM TypeCorrectness == Spec => []TypeOK
<1>1. IInv => TypeOK
  BY DEF IInv
<1> QED
  BY <1>1, Invariance, PTL

(* The profile's claim: a proved effect is inside every document's scope.   *)
THEOREM NoAmplification == Spec => []EffectInEveryScope
<1>1. IInv => EffectInEveryScope
  BY DEF IInv
<1> QED
  BY <1>1, Invariance, PTL

(* A continuity receipt lives only inside the windows of its documents.     *)
THEOREM WindowsContained == Spec => []WindowInEveryLink
<1>1. IInv => WindowInEveryLink
  BY DEF IInv
<1> QED
  BY <1>1, Invariance, PTL

(* Every proved chain runs from the owner's agent to the effect's actor.    *)
THEOREM NoOutsider == Spec => []ChainConnected
<1>1. IInv => ChainConnected
  BY DEF IInv
<1> QED
  BY <1>1, Invariance, PTL

-----------------------------------------------------------------------------
(* The promise to the owner.                                                *)

(* Nothing has happened under any mandate.                                  *)
LEMMA InitRefines == Init => Ledger!Init
BY DEF Init, Performed, Ledger!Init

(* The Gate sees only a receipt, and the effect is the mandate's first, in  *)
(* its scope and its window.                                                *)
LEMMA AuthorizeRefines ==
  ASSUME IInv, NEW r \in receipts, NEW e \in Effects, AuthorizeEffect(r, e)
  PROVE  Ledger!Perform(r.mandate, r.effect)
<1> DEFINE m == r.mandate
<1>1. /\ r \in Receipts /\ clock \in Nat
      /\ r.effect.task = m.task /\ r.nonce = m.nonce
      /\ EffectWithin(m.scope, r.effect)
      /\ m.starts <= r.issued_at /\ r.expires_at <= m.expires
      /\ r.issued_at <= clock
  BY DEF IInv, TypeOK, ReceiptsOfMandate, EffectInEveryScope, WindowInEveryLink,
         ReceiptsIssuedInThePast
<1>2. /\ clock < r.expires_at /\ m \notin revoked
      /\ m.nonce \notin consumed
      /\ done' = done \union {[receipt |-> r, at |-> clock]}
      /\ UNCHANGED <<revoked, clock>>
  BY <1>1 DEF AuthorizeEffect, GateAccepts, NonceFresh
<1>3. /\ m \in Mandates /\ r.effect \in Effects
      /\ r.issued_at \in Nat /\ r.expires_at \in Nat
  BY <1>1 DEF Receipts
<1>4. m.starts \in Nat /\ m.expires \in Nat
  BY <1>3, MandateType
<1>5. m.starts <= clock /\ clock < m.expires
  BY <1>1, <1>2, <1>3, <1>4
<1>6. [mandate |-> m, effect |-> r.effect] \in Permitted
  BY <1>1, <1>3 DEF Permitted
<1>7. \A y \in Performed : y.mandate.nonce # m.nonce
  BY <1>2 DEF Performed, IInv, SpentNonces
<1>8. Performed' = Performed \union {[mandate |-> m, effect |-> r.effect]}
  <2> DEFINE x == [receipt |-> r, at |-> clock]
             P(y) == [mandate |-> y.receipt.mandate, effect |-> y.receipt.effect]
  <2>1. done' = done \union {x} /\ P(x) = [mandate |-> m, effect |-> r.effect]
    BY <1>2
  <2>2. Performed = {P(y) : y \in done} /\ Performed' = {P(y) : y \in done'}
    BY DEF Performed
  <2> HIDE DEF x, P
  <2> QED
    BY <2>1, <2>2
<1> QED
  BY <1>2, <1>5, <1>6, <1>7, <1>8 DEF Ledger!Perform

(* Every other step is the owner's, the clock's or nobody's business.       *)
LEMMA NextRefines == IInv /\ [Next]_vars => [Ledger!Next]_(Ledger!vars)
<1> SUFFICES ASSUME IInv, [Next]_vars PROVE [Ledger!Next]_(Ledger!vars)
  OBVIOUS
<1>1. ASSUME NEW r \in receipts, NEW e \in Effects, AuthorizeEffect(r, e)
      PROVE  Ledger!Next
  <2>1. r.mandate \in Mandates /\ r.effect \in Effects
    BY DEF IInv, TypeOK, Receipts
  <2> QED
    BY <1>1, <2>1, AuthorizeRefines DEF Ledger!Next
<1>2. ASSUME NEW m \in Mandates, Revoke(m) PROVE Ledger!Next
  BY <1>2 DEF Revoke, Performed, Ledger!Revoke, Ledger!Next
<1>3. CASE Tick
  BY <1>3 DEF Tick, Performed, Ledger!Tick, Ledger!Next
<1>4. ASSUME \/ \E m \in Mandates : Start(m)
             \/ \E h \in Hops : Extend(h)
             \/ \E e \in Effects : Conclude(e)
             \/ Refuse
             \/ UNCHANGED vars
      PROVE  UNCHANGED Ledger!vars
  <2>1. UNCHANGED <<done, revoked, clock>>
    BY <1>4 DEF Start, Extend, Conclude, Refuse, vars
  <2> QED
    BY <2>1 DEF Performed, Ledger!vars
<1> QED
  BY <1>1, <1>2, <1>3, <1>4 DEF Next

(* prove_intent_continuity, with the Gate that consumes its receipts,       *)
(* implements the ledger of effects, for any documents and any chains.      *)
THEOREM Refinement == Spec => LedgerSpec
BY InitRefines, Invariance, NextRefines, PTL DEF Spec, LedgerSpec, Ledger!Spec

-----------------------------------------------------------------------------
(* Continuity over protocols: what is extracted from carriers is proved by  *)
(* the very steps of a direct call.                                         *)

(* A step of the path is a step of the proof.                               *)
LEMMA PathStepIsStep == PathTypeOK /\ [PathNext]_pathVars => [Next]_vars
<1> SUFFICES ASSUME PathTypeOK, [PathNext]_pathVars PROVE [Next]_vars
  OBVIOUS
<1>1. CASE \E m \in Mandates, p \in Paths : PathStart(m, p)
  BY <1>1 DEF PathStart, Next
<1>2. CASE PathExtend
  <2>1. path.a2a.hop \in Hops /\ path.mcp.hop \in Hops
    BY <1>2, CarriersAssumption DEF PathExtend, PathTypeOK, Paths
  <2> QED
    BY <1>2, <2>1 DEF PathExtend, Next
<1>3. CASE PathConclude
  BY <1>3 DEF PathConclude, Next
<1>4. CASE PathRefuse
  BY <1>4 DEF PathRefuse, Next
<1>5. CASE Aside
  BY <1>5 DEF Aside
<1>6. CASE UNCHANGED pathVars
  BY <1>6 DEF pathVars
<1> QED
  BY <1>1, <1>2, <1>3, <1>4, <1>5, <1>6 DEF PathNext

(* One turn of the loop adds the hop and leaves a proof.                    *)
LEMMA ExtendedProof ==
  ASSUME proof \in Proofs, NEW h \in Hops, Extend(h)
  PROVE  /\ proof' \in Proofs /\ proof' # None
         /\ proof'.chain = Append(proof.chain, h)
<1>1. proof' = [proof EXCEPT !.chain = Append(@, h), !.scope = h.scope,
                             !.parent = h.digest, !.actor = h.to,
                             !.machine = h.machine, !.expiry = h.expires,
                             !.seen = @ \union {h.nonce}]
  BY DEF Extend
<1>2. Append(proof.chain, h) \in Seq(Hops)
  BY AppendProperties DEF Proofs
<1>3. proof' \in Proofs /\ proof'.chain = Append(proof.chain, h)
  BY <1>1, <1>2, HopType DEF Proofs
<1> QED
  BY <1>3, NoneAssumption

(* Two hops, one after the other.                                           *)
LEMMA AppendToOne ==
  ASSUME NEW a \in Hops, NEW b \in Hops
  PROVE  Append(<<a>>, b) = <<a, b>>
<1>1. <<a>> \in Seq(Hops) /\ Len(<<a>>) = 1 /\ <<a>>[1] = a
  OBVIOUS
<1>2. /\ Append(<<a>>, b) \in Seq(Hops) /\ Len(Append(<<a>>, b)) = 2
      /\ \A i \in 1..2 : Append(<<a>>, b)[i] = <<a, b>>[i]
  BY <1>1, AppendProperties
<1>3. <<a, b>> \in Seq(Hops) /\ Len(<<a, b>>) = 2
  OBVIOUS
<1> QED
  BY <1>2, <1>3, SeqEqual

(* The chain of a path under way is as long as the carriers it has used.    *)
LEMMA CarriersUsed ==
  ASSUME PathUnderWay, path # None
  PROVE  /\ Len(proof.chain) = 1 => proof.chain = <<path.a2a.hop>>
         /\ Len(proof.chain) = 2 => proof.chain = <<path.a2a.hop, path.mcp.hop>>
<1> DEFINE a == path.a2a.hop
           b == path.mcp.hop
<1>1. proof.chain = <<>> \/ proof.chain = <<a>> \/ proof.chain = <<a, b>>
  BY DEF PathUnderWay
<1>2. Len(<<>>) = 0 /\ Len(<<a>>) = 1 /\ Len(<<a, b>>) = 2
  OBVIOUS
<1> QED
  BY <1>1, <1>2

(* What the end of a path records: the carried delegations are the chain,   *)
(* the payer the last delegate.                                             *)
LEMMA PathConcluded ==
  ASSUME PathIInv, PathConclude
  PROVE  LET e == FinalEffect(path.request, path.payment)
             r == Stamped(proof, e)
         IN /\ r \in receipts' /\ r \in Receipts /\ receipts \subseteq receipts'
            /\ path \in Paths /\ path' = None
            /\ proven' = proven \union {[path |-> path, receipt |-> r]}
            /\ r.chain = <<path.a2a.hop, path.mcp.hop>>
            /\ path.a2a.hop.from = r.mandate.actor
            /\ path.mcp.hop.from = path.a2a.hop.to
            /\ path.payment.actor = path.mcp.hop.to
<1> DEFINE e == FinalEffect(path.request, path.payment)
           r == Stamped(proof, e)
<1>1. /\ path \in Paths /\ proof \in Proofs
      /\ e \in Effects /\ Conclude(e) /\ Len(proof.chain) = 2
      /\ path' = None
      /\ proven' = proven \union {[path |-> path, receipt |-> r]}
  BY DEF PathConclude, PathIInv, PathTypeOK, IInv, TypeOK, Conclude
<1>2. /\ receipts' = receipts \union {r} /\ e.actor = proof.actor
  BY <1>1 DEF Conclude
<1>3. proof.chain = <<path.a2a.hop, path.mcp.hop>>
  BY <1>1, CarriersUsed DEF PathConclude, PathIInv
<1>4. r \in Receipts /\ r.chain = proof.chain /\ r.mandate = proof.mandate
  <2>1. proof.mandate.nonce \in TxNonces
    BY <1>1, MandateType DEF Proofs
  <2> QED
    BY <1>1, <2>1 DEF Stamped, Receipts, Proofs
<1>5. HandedOn(proof) /\ proof.chain # <<>>
  BY <1>1, <1>3 DEF PathIInv, IInv, ProofSound, Conclude
<1>6. /\ Connected(proof.mandate, proof.chain)
      /\ proof.actor = proof.chain[2].to
  BY <1>1, <1>5 DEF HandedOn
<1>7. /\ path.a2a.hop.from = proof.mandate.actor
      /\ path.mcp.hop.from = path.a2a.hop.to
  BY <1>1, <1>3, <1>6 DEF Connected
<1>8. path.payment.actor = path.mcp.hop.to
  BY <1>2, <1>3, <1>6 DEF FinalEffect
<1> QED
  BY <1>1, <1>2, <1>3, <1>4, <1>7, <1>8

(* Every step keeps the path in line with the proof.                        *)
LEMMA PathInductive == PathIInv /\ [PathNext]_pathVars => PathIInv'
<1> SUFFICES ASSUME PathIInv, [PathNext]_pathVars PROVE PathIInv'
  OBVIOUS
<1>1. IInv'
  BY PathStepIsStep, Inductive DEF PathIInv
<1>2. ASSUME UNCHANGED proven, receipts \subseteq receipts' PROVE PathBound'
  BY <1>2 DEF PathIInv, PathBound
<1>3. ASSUME NEW m \in Mandates, NEW p \in Paths, PathStart(m, p) PROVE PathIInv'
  <2>1. /\ path' = p /\ UNCHANGED <<proven, receipts>>
        /\ BoundDelegation(p.a2a, "a2a") /\ BoundDelegation(p.mcp, "mcp")
        /\ p.payment.genuine /\ PaymentBound(p.payment, p.request)
    BY <1>3 DEF PathStart, Start
  <2>2. proof' = [mandate |-> m, now |-> clock, chain |-> <<>>, scope |-> m.scope,
                  parent |-> m.digest, actor |-> m.actor, machine |-> m.machine,
                  expiry |-> m.expires, seen |-> {m.nonce}]
    BY <1>3 DEF PathStart, Start
  <2>3. clock \in Nat
    BY DEF PathIInv, IInv, TypeOK
  <2>4. proof' \in Proofs
    BY <2>2, <2>3, MandateType DEF Proofs
  <2>5. proof' # None /\ proof'.chain = <<>>
    BY <2>2, <2>4, NoneAssumption
  <2>6. PathTypeOK' /\ PathUnderWay'
    BY <2>1, <2>5 DEF PathIInv, PathTypeOK, PathUnderWay
  <2> QED
    BY <1>1, <1>2, <2>1, <2>6 DEF PathIInv
<1>4. CASE PathExtend
  <2>1. UNCHANGED <<path, proven, receipts>> /\ path # None /\ proof # None
    BY <1>4 DEF PathExtend, Extend
  <2>2. path \in Paths /\ proof \in Proofs
    BY <2>1 DEF PathIInv, PathTypeOK, IInv, TypeOK
  <2>3. path.a2a.hop \in Hops /\ path.mcp.hop \in Hops
    BY <2>2, CarriersAssumption DEF Paths
  <2>4. /\ proof' # None
        /\ proof'.chain \in {<<path.a2a.hop>>, <<path.a2a.hop, path.mcp.hop>>}
    <3>1. CASE proof.chain = <<>> /\ Extend(path.a2a.hop)
      <4>1. proof' # None /\ proof'.chain = Append(<<>>, path.a2a.hop)
        BY <2>2, <2>3, <3>1, ExtendedProof
      <4> QED
        BY <4>1
    <3>2. CASE Len(proof.chain) = 1 /\ Extend(path.mcp.hop)
      <4>1. proof.chain = <<path.a2a.hop>>
        BY <2>1, <3>2, CarriersUsed DEF PathIInv
      <4>2. proof' # None /\ proof'.chain = Append(<<path.a2a.hop>>, path.mcp.hop)
        BY <2>2, <2>3, <3>2, <4>1, ExtendedProof
      <4> QED
        BY <2>3, <4>2, AppendToOne
    <3> QED
      BY <1>4, <3>1, <3>2 DEF PathExtend
  <2>5. PathTypeOK' /\ PathUnderWay'
    BY <2>1, <2>4 DEF PathIInv, PathTypeOK, PathUnderWay
  <2> QED
    BY <1>1, <1>2, <2>1, <2>5 DEF PathIInv
<1>5. CASE PathConclude
  <2>1. PathTypeOK' /\ PathUnderWay'
    BY <1>5, PathConcluded DEF PathIInv, PathTypeOK, PathUnderWay
  <2>2. /\ BoundDelegation(path.a2a, "a2a") /\ BoundDelegation(path.mcp, "mcp")
        /\ path.payment.genuine /\ path.payment.binding = path.request
    BY <1>5 DEF PathIInv, PathUnderWay, PathConclude, PaymentBound
  <2>3. PathBound'
    <3> DEFINE r == Stamped(proof, FinalEffect(path.request, path.payment))
    <3>1. r.effect = FinalEffect(path.payment.binding, path.payment)
      BY <2>2 DEF Stamped
    <3> SUFFICES ASSUME NEW x \in proven'
                 PROVE  PathBound!(x)'
      BY DEF PathBound
    <3>2. CASE x \in proven
      BY <1>5, <3>2, PathConcluded DEF PathIInv, PathBound
    <3>3. CASE x = [path |-> path, receipt |-> r]
      BY <1>5, <2>2, <3>1, <3>3, PathConcluded DEF BoundDelegation
    <3> QED
      BY <1>5, <3>2, <3>3, PathConcluded
  <2> QED
    BY <1>1, <2>1, <2>3 DEF PathIInv
<1>6. CASE PathRefuse
  <2>1. path' = None /\ UNCHANGED <<proven, receipts>>
    BY <1>6 DEF PathRefuse, Refuse
  <2> QED
    BY <1>1, <1>2, <2>1 DEF PathIInv, PathTypeOK, PathUnderWay
<1>7. CASE Aside \/ UNCHANGED pathVars
  <2>1. UNCHANGED <<path, proven>> /\ (path # None => UNCHANGED proof)
    BY <1>7 DEF Aside, pathVars, vars
  <2>2. receipts \subseteq receipts'
    BY <1>7 DEF Aside, Next, Start, Extend, Conclude, Refuse, AuthorizeEffect,
                Revoke, Tick, pathVars, vars
  <2>3. PathTypeOK' /\ PathUnderWay'
    BY <2>1 DEF PathIInv, PathTypeOK, PathUnderWay
  <2> QED
    BY <1>1, <1>2, <2>1, <2>2, <2>3 DEF PathIInv
<1> QED
  BY <1>3, <1>4, <1>5, <1>6, <1>7 DEF PathNext

(* The proof under way is that of the path under way, and what was proved   *)
(* is bound to its carriers.                                                *)
THEOREM PathInvariance == PathSpec => []PathIInv
<1>1. PathInit => PathIInv
  BY Initially DEF PathInit, PathIInv, PathTypeOK, PathUnderWay, PathBound
<1> QED
  BY <1>1, PathInductive, PTL DEF PathSpec

(* Carriers add nothing: whatever is proved over protocols is proved by a   *)
(* behaviour of prove_intent_continuity, so every theorem above holds of it. *)
THEOREM PathRefines == PathSpec => Spec
<1>1. PathInit => Init
  BY DEF PathInit
<1>2. PathIInv /\ [PathNext]_pathVars => [Next]_vars
  BY PathStepIsStep DEF PathIInv
<1> QED
  BY <1>1, <1>2, PathInvariance, PTL DEF PathSpec, Spec

(* No carrier, request or payment can be exchanged for one nobody signed.   *)
THEOREM CarriersBound == PathSpec => []PathBound
<1>1. PathIInv => PathBound
  BY DEF PathIInv
<1> QED
  BY <1>1, PathInvariance, PTL

(* The owner is promised no less when delegations come over protocols.      *)
THEOREM PathKeepsPromise == PathSpec => LedgerSpec
BY PathRefines, Refinement, PTL
=============================================================================
