----------------------- MODULE MandateRelationProofs -----------------------
(* Theorems about MandateRelation, for every set of records and callers.    *)
EXTENDS MandateRelation, TLAPS

(* What a material carries.                                                 *)
LEMMA MaterialTyped ==
  ASSUME NEW t \in Materials
  PROVE  /\ t.mandate.nonce \in Nonces
         /\ \A r \in Paths(t) \union {t.mandate} : r \in Records /\ Windowed(r)
         /\ \A i \in 1 .. 4 : Asked(t, i) \in Records
<1>1. /\ t.mandate \in Mandates /\ t.request \in RequestAuthorities
      /\ t.executor \in ExecutorAuthorities /\ t.credential \in Credentials
  BY DEF Materials
<1>2. t.mandate.nonce \in Nonces
  BY <1>1, RecordsAssumption
<1>3. \A r \in Paths(t) \union {t.mandate} : r \in Records
  BY <1>1 DEF Paths, Records
<1>4. \A i \in 1 .. 4 : Asked(t, i) \in Records
  BY <1>1 DEF Asked, Records
<1>5. QED
  BY <1>2, <1>3, <1>4, RecordsAssumption

LEMMA InitIInv == Init => IInv
BY DEF Init, IInv, TypeOK, RelationsVerified, RegistryComplete, GatesSound,
   PassInThePast, OneRelationPerNonce, PassWarranted

-----------------------------------------------------------------------------
(* Time and the paths.                                                      *)

(* The four windows of a verified relation stay open as long as its own     *)
(* does: the mandate is contained in every path.                            *)
LEMMA WindowsLast ==
  ASSUME NEW rel \in Relations, NEW now \in Nat,
         Verified(rel.material, rel.issued_at), RelationActive(rel, now)
  PROVE  \A r \in Paths(rel.material) \union {rel.material.mandate} : Active(r, now)
<1> DEFINE t == rel.material
<1>1. t \in Materials /\ rel.issued_at \in Nat
  BY DEF Relations
<1>2. \A r \in Paths(t) \union {t.mandate} : Windowed(r)
  BY <1>1, MaterialTyped
<1>3. /\ t.mandate.issued <= t.mandate.starts
      /\ \A p \in Paths(t) : p.starts <= t.mandate.issued /\ t.mandate.expires <= p.expires
  BY DEF Verified, MandateWindow
<1>4. t.mandate.starts <= now /\ now < t.mandate.expires
  BY <1>1, <1>2 DEF RelationActive, Windowed
<1>5. \A p \in Paths(t) : p.issued <= p.starts
  BY DEF Verified, RequestPath, ExecutorPath, Active, Paths
<1>6. QED
  BY <1>2, <1>3, <1>4, <1>5 DEF Active, Windowed

(* What a verified relation says about its two paths.                       *)
LEMMA PathsIndependent ==
  ASSUME NEW rel \in Relations, Verified(rel.material, rel.issued_at)
  PROVE  LET t == rel.material IN
         /\ t.action \in t.request.allows \intersect t.executor.allows
         /\ t.request.subject = t.mandate.requester
         /\ t.executor.subject = t.mandate.executor
         /\ t.credential.key = t.mandate.executor_key
BY DEF Verified, RequestPath, ExecutorPath

-----------------------------------------------------------------------------
(* One lemma per action that touches relations, checks or revocations.      *)

LEMMA NormalizeStep ==
  ASSUME IInv, NEW t \in Materials, Normalize(t) PROVE IInv'
<1> USE DEF IInv
<1> DEFINE n == t.mandate.nonce
           relation == [material |-> t, issued_at |-> clock, epoch |-> epoch]
<1>1. n \in Nonces /\ relation \in Relations
  BY MaterialTyped DEF TypeOK, Relations
<1>2. /\ registry' = [registry EXCEPT ![n] = relation]
      /\ relations' = relations \union {relation}
      /\ UNCHANGED <<gates, passed, revoked, clock, epoch>>
      /\ registry[n] = None
      /\ Verified(t, clock)
  BY DEF Normalize, NonceFree
<1>3. TypeOK'
  BY <1>1, <1>2 DEF TypeOK
<1>4. RelationsVerified'
  BY <1>2 DEF RelationsVerified, TypeOK
<1>5. \A r \in relations : r.epoch = epoch => r.material.mandate.nonce # n
  BY <1>2, NoneAssumption DEF RegistryComplete, TypeOK
<1>6. RegistryComplete'
  <2>1. \A r \in relations : r.material.mandate.nonce \in Nonces
    BY MaterialTyped DEF TypeOK, Relations
  <2>2. registry'[n] = relation /\ \A k \in Nonces : k # n => registry'[k] = registry[k]
    BY <1>1, <1>2 DEF TypeOK
  <2>3. \A k \in Nonces :
          registry'[k] # None =>
            /\ registry'[k] \in relations'
            /\ registry'[k].epoch = epoch
            /\ registry'[k].material.mandate.nonce = k
    BY <1>2, <2>2 DEF RegistryComplete
  <2>4. \A r \in relations' :
          r.epoch = epoch => registry'[r.material.mandate.nonce] = r
    BY <1>2, <1>5, <2>1, <2>2 DEF RegistryComplete
  <2>5. QED
    BY <1>2, <2>3, <2>4 DEF RegistryComplete
<1>7. OneRelationPerNonce'
  BY <1>2, <1>5 DEF OneRelationPerNonce
<1>8. GatesSound'
  BY <1>2 DEF GatesSound
<1>9. PassInThePast' /\ PassWarranted'
  BY <1>2 DEF PassInThePast, PassWarranted
<1>10. QED
  BY <1>3, <1>4, <1>6, <1>7, <1>8, <1>9

LEMMA GateBeginStep ==
  ASSUME IInv, NEW g \in Gates, NEW rel \in relations, NEW t \in Materials,
         GateBegin(g, rel, t)
  PROVE  IInv'
<1> USE DEF IInv
<1> DEFINE check == [relation |-> rel, at |-> clock, answered |-> 0]
<1>1. /\ gates' = [gates EXCEPT ![g] = check]
      /\ UNCHANGED <<registry, relations, passed, revoked, clock, epoch>>
      /\ RelationActive(rel, clock)
  BY DEF GateBegin
<1>2. check \in Checks
  BY DEF TypeOK, Checks
<1>3. TypeOK'
  BY <1>1, <1>2 DEF TypeOK
<1>4. GatesSound'
  <2> SUFFICES ASSUME NEW h \in Gates, gates'[h] # None
               PROVE  /\ gates'[h].relation \in relations
                      /\ RelationActive(gates'[h].relation, gates'[h].at)
                      /\ gates'[h].at <= clock
                      /\ \A i \in 1 .. gates'[h].answered :
                           LET r == Asked(gates'[h].relation.material, i) IN
                           revoked[r] # None => gates'[h].at <= revoked[r]
    BY <1>1 DEF GatesSound
  <2>1. CASE h = g
    BY <1>1, <2>1 DEF TypeOK
  <2>2. CASE h # g
    <3>1. gates'[h] = gates[h]
      BY <1>1, <2>2 DEF TypeOK
    <3>2. QED
      BY <3>1 DEF GatesSound
  <2>3. QED
    BY <2>1, <2>2
<1>5. /\ RelationsVerified' /\ RegistryComplete' /\ OneRelationPerNonce'
      /\ PassInThePast' /\ PassWarranted'
  BY <1>1 DEF RelationsVerified, RegistryComplete, OneRelationPerNonce,
     PassInThePast, PassWarranted
<1>6. QED
  BY <1>3, <1>4, <1>5

(* The record just asked for is not revoked now, hence was not when the     *)
(* check began; the fourth answer makes it all four.                        *)
LEMMA GateAskStep ==
  ASSUME IInv, NEW g \in Gates, GateAsk(g) PROVE IInv'
<1> USE DEF IInv
<1> DEFINE check == gates[g]
           rel == check.relation
           t == rel.material
           asked == Asked(t, check.answered + 1)
           current == revoked[asked] = None
           last == check.answered = 3
           next == IF current /\ ~last THEN [check EXCEPT !.answered = @ + 1] ELSE None
<1>1. /\ check # None /\ check \in Checks
      /\ gates' = [gates EXCEPT ![g] = next]
      /\ passed' = IF current /\ last
                   THEN [relation |-> rel, at |-> check.at] ELSE passed
      /\ UNCHANGED <<registry, relations, revoked, clock, epoch>>
  BY DEF GateAsk, IsCurrent, TypeOK
<1>2. /\ rel \in relations /\ rel \in Relations /\ t \in Materials
      /\ check.at \in Nat /\ check.answered \in 0 .. 3
      /\ RelationActive(rel, check.at) /\ check.at <= clock
      /\ \A i \in 1 .. check.answered :
           revoked[Asked(t, i)] # None => check.at <= revoked[Asked(t, i)]
  BY <1>1 DEF GatesSound, Checks, Relations
<1>3. next \in Checks \union {None}
  BY <1>1, <1>2 DEF Checks
<1>4. TypeOK'
  BY <1>1, <1>2, <1>3 DEF TypeOK
<1>5. GatesSound'
  <2> SUFFICES ASSUME NEW h \in Gates, gates'[h] # None
               PROVE  /\ gates'[h].relation \in relations
                      /\ RelationActive(gates'[h].relation, gates'[h].at)
                      /\ gates'[h].at <= clock
                      /\ \A i \in 1 .. gates'[h].answered :
                           LET r == Asked(gates'[h].relation.material, i) IN
                           revoked[r] # None => gates'[h].at <= revoked[r]
    BY <1>1 DEF GatesSound
  <2>1. CASE h = g
    <3>1. gates'[h] = [check EXCEPT !.answered = @ + 1] /\ current
      BY <1>1, <2>1 DEF TypeOK
    <3>2. /\ gates'[h].relation = rel /\ gates'[h].at = check.at
          /\ gates'[h].answered = check.answered + 1
      BY <1>1, <3>1 DEF Checks
    <3>3. \A i \in 1 .. (check.answered + 1) :
            i \in 1 .. check.answered \/ i = check.answered + 1
      BY <1>2
    <3>4. QED
      BY <1>2, <3>1, <3>2, <3>3
  <2>2. CASE h # g
    <3>1. gates'[h] = gates[h]
      BY <1>1, <2>2 DEF TypeOK
    <3>2. QED
      BY <3>1 DEF GatesSound
  <2>3. QED
    BY <2>1, <2>2
<1>6. PassInThePast' /\ PassWarranted'
  <2>1. CASE current /\ last
    <3>1. passed' = [relation |-> rel, at |-> check.at]
      BY <1>1, <2>1
    <3>2. \A i \in 1 .. 4 :
            revoked[Asked(t, i)] # None => check.at <= revoked[Asked(t, i)]
      BY <1>2, <2>1
    <3>3. /\ Asked(t, 1) = t.mandate /\ Asked(t, 2) = t.request
          /\ Asked(t, 3) = t.executor /\ Asked(t, 4) = t.credential
      BY DEF Asked
    <3>4. \A r \in Paths(t) \union {t.mandate} :
            revoked[r] # None => check.at <= revoked[r]
      BY <3>2, <3>3 DEF Paths
    <3>5. Verified(t, rel.issued_at)
      BY <1>2 DEF RelationsVerified
    <3>6. \A r \in Paths(t) \union {t.mandate} : Active(r, check.at)
      BY <1>2, <3>5, WindowsLast
    <3>7. /\ t.action \in t.request.allows \intersect t.executor.allows
          /\ t.request.subject = t.mandate.requester
          /\ t.executor.subject = t.mandate.executor
          /\ t.credential.key = t.mandate.executor_key
      BY <1>2, <3>5, PathsIndependent
    <3>8. passed'.relation.material = t /\ passed'.at = check.at
      BY <3>1
    <3>9. PassInThePast'
      BY <1>1, <1>2, <3>8 DEF PassInThePast
    <3>10. PassWarranted'
      BY <1>1, <3>4, <3>6, <3>7, <3>8 DEF PassWarranted
    <3>11. QED
      BY <3>9, <3>10
  <2>2. CASE ~(current /\ last)
    BY <1>1, <2>2 DEF PassInThePast, PassWarranted
  <2>3. QED
    BY <2>1, <2>2
<1>7. RelationsVerified' /\ RegistryComplete' /\ OneRelationPerNonce'
  BY <1>1 DEF RelationsVerified, RegistryComplete, OneRelationPerNonce
<1>8. QED
  BY <1>4, <1>5, <1>6, <1>7

(* A revocation now is not before any moment a check has looked at.         *)
LEMMA RevokeStep ==
  ASSUME IInv, NEW r \in Records, Revoke(r) PROVE IInv'
<1> USE DEF IInv
<1>1. /\ revoked' = [revoked EXCEPT ![r] = clock]
      /\ UNCHANGED <<registry, relations, gates, passed, clock, epoch>>
  BY DEF Revoke
<1>2. TypeOK'
  BY <1>1 DEF TypeOK
<1>3. \A q \in Records : revoked'[q] = IF q = r THEN clock ELSE revoked[q]
  BY <1>1 DEF TypeOK
<1>4. GatesSound'
  <2> SUFFICES ASSUME NEW g \in Gates, gates[g] # None
               PROVE  /\ gates[g].relation \in relations
                      /\ RelationActive(gates[g].relation, gates[g].at)
                      /\ gates[g].at <= clock
                      /\ \A i \in 1 .. gates[g].answered :
                           LET q == Asked(gates[g].relation.material, i) IN
                           revoked'[q] # None => gates[g].at <= revoked'[q]
    BY <1>1 DEF GatesSound
  <2>1. gates[g].relation.material \in Materials /\ gates[g].answered \in 0 .. 3
    BY DEF TypeOK, Checks, Relations
  <2>2. \A i \in 1 .. gates[g].answered : Asked(gates[g].relation.material, i) \in Records
    BY <2>1, MaterialTyped
  <2>3. QED
    BY <1>3, <2>2 DEF GatesSound
<1>5. PassWarranted'
  <2> SUFFICES ASSUME passed # None,
                      NEW q \in Paths(passed.relation.material)
                                  \union {passed.relation.material.mandate}
               PROVE  revoked'[q] # None => passed.at <= revoked'[q]
    BY <1>1 DEF PassWarranted
  <2>1. passed.relation.material \in Materials
    BY DEF TypeOK, Relations
  <2>2. q \in Records
    BY <2>1, MaterialTyped
  <2>3. QED
    BY <1>3, <2>2 DEF PassWarranted, PassInThePast
<1>6. /\ RelationsVerified' /\ RegistryComplete' /\ OneRelationPerNonce'
      /\ PassInThePast'
  BY <1>1 DEF RelationsVerified, RegistryComplete, OneRelationPerNonce, PassInThePast
<1>7. QED
  BY <1>2, <1>4, <1>5, <1>6

LEMMA TickStep == ASSUME IInv, Tick PROVE IInv'
<1> USE DEF IInv
<1>1. /\ clock' = clock + 1 /\ clock \in Nat
      /\ UNCHANGED <<registry, relations, gates, passed, revoked, epoch>>
  BY DEF Tick, TypeOK
<1>2. TypeOK'
  BY <1>1 DEF TypeOK
<1>3. RelationsVerified'
  BY <1>1 DEF RelationsVerified, TypeOK, Relations
<1>4. GatesSound'
  <2>1. \A g \in Gates : gates[g] # None => gates[g].at \in Nat
    BY DEF TypeOK, Checks
  <2>2. QED
    BY <1>1, <2>1 DEF GatesSound
<1>5. PassInThePast'
  BY <1>1 DEF PassInThePast, TypeOK
<1>6. RegistryComplete' /\ OneRelationPerNonce' /\ PassWarranted'
  BY <1>1 DEF RegistryComplete, OneRelationPerNonce, PassWarranted
<1>7. QED
  BY <1>2, <1>3, <1>4, <1>5, <1>6

(* The new life's registry is empty, and no relation is of the new life.    *)
LEMMA RestartStep == ASSUME IInv, Restart PROVE IInv'
<1> USE DEF IInv
<1>1. /\ epoch' = epoch + 1 /\ epoch \in Nat
      /\ registry' = [n \in Nonces |-> None]
      /\ UNCHANGED <<relations, gates, passed, revoked, clock>>
  BY DEF Restart, TypeOK
<1>2. TypeOK'
  BY <1>1 DEF TypeOK
<1>3. \A r \in relations : r.epoch \in Nat /\ r.epoch <= epoch
  BY DEF TypeOK, Relations, RelationsVerified
<1>4. RelationsVerified' /\ RegistryComplete'
  BY <1>1, <1>3 DEF RelationsVerified, RegistryComplete
<1>5. GatesSound' /\ PassInThePast' /\ OneRelationPerNonce' /\ PassWarranted'
  BY <1>1 DEF GatesSound, PassInThePast, OneRelationPerNonce, PassWarranted
<1>6. QED
  BY <1>2, <1>4, <1>5

LEMMA NextIInv == IInv /\ [Next]_vars => IInv'
<1> SUFFICES ASSUME IInv, [Next]_vars PROVE IInv'
  OBVIOUS
<1>1. CASE \E t \in Materials : Normalize(t)
  BY <1>1, NormalizeStep
<1>2. CASE \E g \in Gates, rel \in relations, t \in Materials : GateBegin(g, rel, t)
  BY <1>2, GateBeginStep
<1>3. CASE \E g \in Gates : GateAsk(g)
  BY <1>3, GateAskStep
<1>4. CASE \E r \in Records : Revoke(r)
  BY <1>4, RevokeStep
<1>5. CASE Tick
  BY <1>5, TickStep
<1>6. CASE Restart
  BY <1>6, RestartStep
<1>7. CASE UNCHANGED vars
  BY <1>7 DEF vars, IInv, TypeOK, RelationsVerified, RegistryComplete, GatesSound,
     PassInThePast, OneRelationPerNonce, PassWarranted
<1>8. QED
  BY <1>1, <1>2, <1>3, <1>4, <1>5, <1>6, <1>7 DEF Next

-----------------------------------------------------------------------------
(* The inductive invariant holds in every reachable state.                  *)
THEOREM Invariance == Spec => []IInv
BY InitIInv, NextIInv, PTL DEF Spec

(* A passing Gate has seen both authority paths, the credential and the     *)
(* mandate stand together at one moment (verify_mandate_gate_context), for  *)
(* any records, windows, revocations and callers.                           *)
THEOREM GatePass == Spec => []PassWarranted
<1>1. IInv => PassWarranted
  BY DEF IInv
<1>2. QED
  BY <1>1, Invariance, PTL

(* One life of the adapter binds a nonce once (normalize).                  *)
THEOREM NonceBoundOnce == Spec => []OneRelationPerNonce
<1>1. IInv => OneRelationPerNonce
  BY DEF IInv
<1>2. QED
  BY <1>1, Invariance, PTL
=============================================================================
