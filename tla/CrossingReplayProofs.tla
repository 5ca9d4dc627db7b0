------------------------ MODULE CrossingReplayProofs ------------------------
(* Theorems about CrossingReplay, for any artifacts, any number of          *)
(* verifiers, and status documents carried in any order.                    *)
EXTENDS CrossingReplay, FiniteSetTheorems, TLAPS

-----------------------------------------------------------------------------
(* Types.                                                                   *)

(* What is spent for a crossing is a replay identity.                       *)
LEMMA ReplayKeyType ==
  ASSUME NEW c \in Crossings
  PROVE  ReplayKey(c) \in Keys
<1>1. /\ c.nonce \in Nonces
      /\ c.authority \in Authorities
  BY DocumentsAssumption
<1>2. /\ c.authority.issuer \in Issuers
      /\ c.authority.id \in Ids
      /\ c.authority.nonce \in Nonces
  BY <1>1, DocumentsAssumption
<1> QED
  BY <1>1, <1>2 DEF ReplayKey, ReplayKeyV1, ReplayKeyV2, Keys

(* Nothing has happened, so nothing has gone wrong.                         *)
LEMMA Initially == Init => IInv
<1> SUFFICES ASSUME Init PROVE IInv
  OBVIOUS
<1>1. TypeOK
  BY FS_EmptySet DEF Init, TypeOK, Steps
<1> QED
  BY <1>1, NoneAssumption
     DEF Init, IInv, CallHeld, WriterInTransaction, AcceptancesExclusive,
         EffectsSpent, StatusesTruthful, CallsChecked, OneEffectPerKey

-----------------------------------------------------------------------------
(* The inductive invariant, action by action.                               *)

(* A call that passes every check holds what it checked.                    *)
LEMMA VerifyStep ==
  ASSUME IInv, NEW v \in Verifiers, NEW c \in Crossings, NEW st \in statuses,
         Verify(v, c, st)
  PROVE  IInv'
<1> USE DEF IInv
<1> DEFINE new == [crossing |-> c, status |-> st, now |-> clock]
<1>1. UNCHANGED <<consumed, writer, statuses, revoked, effects, clock, crashes>>
  BY DEF Verify
<1>2. new \in Calls
  BY DEF TypeOK, Calls
<1>3. CASE Checks(c, st, clock)
  <2>1. /\ pc[v] = "idle"
        /\ pc' = [pc EXCEPT ![v] = "checked"]
        /\ call' = [call EXCEPT ![v] = new]
    BY <1>3 DEF Verify, Goto
  <2>2. TypeOK'
    BY <1>1, <1>2, <2>1 DEF TypeOK, Steps
  <2>3. CallHeld'
    BY <1>2, <2>1 DEF CallHeld, TypeOK
  <2>4. WriterInTransaction'
    BY <1>1, <2>1 DEF WriterInTransaction, TypeOK
  <2>5. AcceptancesExclusive'
    BY <1>1, <2>1 DEF AcceptancesExclusive, TypeOK, EffectKey
  <2>6. CallsChecked'
    BY <1>1, <1>3, <2>1 DEF CallsChecked, TypeOK
  <2> QED
    BY <1>1, <2>2, <2>3, <2>4, <2>5, <2>6
       DEF EffectsSpent, StatusesTruthful, OneEffectPerKey, EffectKey
<1>4. CASE ~Checks(c, st, clock)
  BY <1>1, <1>4
     DEF Verify, TypeOK, CallHeld, WriterInTransaction, AcceptancesExclusive,
         EffectsSpent, StatusesTruthful, CallsChecked, OneEffectPerKey, EffectKey
<1> QED
  BY <1>3, <1>4

(* One verifier at a time is inside the transaction.                        *)
LEMMA BeginStep ==
  ASSUME IInv, NEW v \in Verifiers, Begin(v)
  PROVE  IInv'
<1> USE DEF IInv
<1>1. /\ pc[v] = "checked" /\ writer = None /\ writer' = v
      /\ pc' = [pc EXCEPT ![v] = "inserting"]
      /\ UNCHANGED <<consumed, call, statuses, revoked, effects, clock, crashes>>
  BY DEF Begin, Goto
<1>2. TypeOK'
  BY <1>1 DEF TypeOK, Steps
<1>3. WriterInTransaction'
  BY <1>1, NoneAssumption DEF WriterInTransaction, TypeOK
<1>4. AcceptancesExclusive'
  BY <1>1 DEF AcceptancesExclusive, TypeOK, EffectKey
<1>5. CallHeld' /\ CallsChecked'
  BY <1>1 DEF CallHeld, CallsChecked, TypeOK
<1> QED
  BY <1>1, <1>2, <1>3, <1>4, <1>5
     DEF EffectsSpent, StatusesTruthful, OneEffectPerKey, EffectKey

(* A verifier that gives up, is refused or dies takes its acceptance along. *)
LEMMA ReturnStep ==
  ASSUME IInv, NEW v \in Verifiers, Return(v), crashes' \in Nat,
         writer' = IF writer = v THEN None ELSE writer,
         UNCHANGED <<consumed, statuses, revoked, effects, clock>>
  PROVE  IInv'
<1> USE DEF IInv
<1>1. /\ pc' = [pc EXCEPT ![v] = "idle"]
      /\ call' = [call EXCEPT ![v] = None]
  BY DEF Return, Goto
<1>2. TypeOK'
  BY <1>1 DEF TypeOK, Steps
<1>3. WriterInTransaction'
  BY <1>1, NoneAssumption DEF WriterInTransaction, TypeOK
<1>4. AcceptancesExclusive'
  BY <1>1 DEF AcceptancesExclusive, TypeOK, EffectKey
<1>5. CallHeld' /\ CallsChecked'
  BY <1>1 DEF CallHeld, CallsChecked, TypeOK
<1> QED
  BY <1>1, <1>2, <1>3, <1>4, <1>5
     DEF EffectsSpent, StatusesTruthful, OneEffectPerKey, EffectKey

(* The one that spends a fresh identity is the only one to hold it.         *)
LEMMA AcceptStep ==
  ASSUME IInv, NEW v \in Verifiers, Insert(v), KeyFree(ReplayKey(call[v].crossing))
  PROVE  IInv'
<1> USE DEF IInv
<1> DEFINE k == ReplayKey(call[v].crossing)
<1>1. /\ pc[v] = "inserting" /\ writer' = None
      /\ consumed' = consumed \union {k} /\ k \notin consumed
      /\ pc' = [pc EXCEPT ![v] = "accepted"]
      /\ UNCHANGED <<call, statuses, revoked, effects, clock, crashes>>
  BY DEF Insert, Goto, KeyFree
<1>2. k \in Keys
  BY <1>1, ReplayKeyType DEF CallHeld, Calls
<1>3. TypeOK'
  BY <1>1, <1>2 DEF TypeOK, Steps
<1>4. WriterInTransaction'
  BY <1>1, NoneAssumption DEF WriterInTransaction, TypeOK
<1>5. AcceptancesExclusive'
  <2>1. \A x \in effects : EffectKey(x) # k
    BY <1>1 DEF EffectsSpent
  <2>2. \A u \in Verifiers :
          pc[u] = "accepted" => ReplayKey(call[u].crossing) # k
    BY <1>1 DEF AcceptancesExclusive
  <2>3. \A u \in Verifiers : pc'[u] = "accepted" => u = v \/ pc[u] = "accepted"
    BY <1>1 DEF TypeOK
  <2> QED
    BY <1>1, <2>1, <2>2, <2>3 DEF AcceptancesExclusive, EffectKey
<1>6. CallHeld' /\ CallsChecked'
  BY <1>1 DEF CallHeld, CallsChecked, TypeOK
<1> QED
  BY <1>1, <1>3, <1>4, <1>5, <1>6
     DEF EffectsSpent, StatusesTruthful, OneEffectPerKey, EffectKey

(* An effect uses its acceptance up.                                        *)
LEMMA DispatchStep ==
  ASSUME IInv, NEW v \in Verifiers, Dispatch(v)
  PROVE  IInv'
<1> USE DEF IInv
<1> DEFINE x == [number |-> Cardinality(effects), call |-> call[v]]
           k == ReplayKey(call[v].crossing)
<1>1. /\ pc[v] = "accepted"
      /\ effects' = effects \union {x}
      /\ pc' = [pc EXCEPT ![v] = "idle"]
      /\ call' = [call EXCEPT ![v] = None]
      /\ UNCHANGED <<consumed, writer, statuses, revoked, clock, crashes>>
  BY DEF Dispatch, Return, Goto
<1>2. call[v] \in Calls
  BY <1>1 DEF CallHeld
<1>3. x \in [number : Nat, call : Calls] /\ IsFiniteSet(effects')
  BY <1>1, <1>2, FS_CardinalityType, FS_AddElement DEF TypeOK
<1>4. TypeOK'
  BY <1>1, <1>3 DEF TypeOK, Steps
<1>5. WriterInTransaction'
  BY <1>1 DEF WriterInTransaction, TypeOK
<1>6. /\ k \in consumed
      /\ \A y \in effects : EffectKey(y) # k
      /\ \A u \in Verifiers :
           pc[u] = "accepted" /\ u # v => ReplayKey(call[u].crossing) # k
  BY <1>1 DEF AcceptancesExclusive
<1>7. EffectKey(x) = k
  BY DEF EffectKey
<1>8. AcceptancesExclusive'
  BY <1>1, <1>6, <1>7 DEF AcceptancesExclusive, TypeOK, EffectKey
<1>9. EffectsSpent'
  BY <1>1, <1>6, <1>7 DEF EffectsSpent, EffectKey, CallsChecked
<1>10. OneEffectPerKey'
  BY <1>1, <1>6, <1>7 DEF OneEffectPerKey, EffectKey
<1>11. CallHeld' /\ CallsChecked'
  BY <1>1 DEF CallHeld, CallsChecked, TypeOK
<1> QED
  BY <1>1, <1>4, <1>5, <1>8, <1>9, <1>10, <1>11 DEF StatusesTruthful

(* The issuer tells the truth as of the moment it publishes.                *)
LEMMA IssuerStep ==
  ASSUME IInv,
         \/ \E i \in Ids : Revoke(i) \/ PublishStatus(i)
         \/ Tick
         \/ UNCHANGED vars
  PROVE  IInv'
<1> USE DEF IInv
<1>1. UNCHANGED <<consumed, writer, pc, call, effects>> /\ crashes' = crashes
  BY DEF Revoke, PublishStatus, Tick, vars
<1>2. clock \in Nat /\ clock' \in Nat /\ clock <= clock' /\ statuses \subseteq statuses'
  BY DEF Revoke, PublishStatus, Tick, vars, TypeOK
<1>3. TypeOK' /\ StatusesTruthful'
  <2>1. CASE \E i \in Ids : Revoke(i)
    BY <1>1, <1>2, <2>1, NoneAssumption
       DEF Revoke, TypeOK, StatusesTruthful, Statuses
  <2>2. CASE \E i \in Ids : PublishStatus(i)
    <3>1. PICK i \in Ids : PublishStatus(i)
      BY <2>2
    <3> DEFINE says == revoked[i] = None
               new == [id |-> i, observed_at |-> clock, current |-> says]
    <3>2. statuses' = statuses \union {new} /\ UNCHANGED <<revoked, clock>>
      BY <3>1 DEF PublishStatus
    <3>3. says \in BOOLEAN /\ (says => revoked[i] = None)
      OBVIOUS
    <3>4. new.id = i /\ new.observed_at = clock /\ new.current = says
      OBVIOUS
    <3> HIDE DEF says
    <3>5. new \in Statuses
      BY <1>2, <3>3 DEF Statuses
    <3> HIDE DEF new
    <3>6. TypeOK'
      BY <1>1, <3>2, <3>5 DEF TypeOK
    <3>7. /\ new.observed_at <= clock
          /\ new.current /\ revoked[new.id] # None => new.observed_at <= revoked[new.id]
      BY <1>2, <3>3, <3>4
    <3>8. StatusesTruthful'
      BY <3>2, <3>7 DEF StatusesTruthful
    <3> QED
      BY <3>6, <3>8
  <2>3. CASE Tick
    <3>1. \A st \in statuses : st.observed_at \in Nat
      BY DEF TypeOK, Statuses
    <3>2. \A i \in Ids : revoked[i] # None => revoked[i] \in Nat
      BY DEF TypeOK
    <3> QED
      BY <1>1, <1>2, <2>3, <3>1, <3>2 DEF Tick, TypeOK, StatusesTruthful
  <2>4. CASE UNCHANGED vars
    BY <2>4 DEF vars, TypeOK, StatusesTruthful
  <2> QED
    BY <2>1, <2>2, <2>3, <2>4
<1>4. CallHeld' /\ CallsChecked' /\ WriterInTransaction'
  BY <1>1, <1>2 DEF CallHeld, CallsChecked, WriterInTransaction
<1> QED
  BY <1>1, <1>3, <1>4
     DEF AcceptancesExclusive, EffectsSpent, OneEffectPerKey, EffectKey

(* Every step keeps the invariant.                                          *)
LEMMA Inductive == IInv /\ [Next]_vars => IInv'
<1> SUFFICES ASSUME IInv, [Next]_vars PROVE IInv'
  OBVIOUS
<1>1. ASSUME NEW v \in Verifiers, Busy(v) PROVE IInv'
  BY <1>1, ReturnStep DEF Busy, IInv, TypeOK, WriterInTransaction
<1>2. ASSUME NEW v \in Verifiers, Crash(v) PROVE IInv'
  BY <1>2, ReturnStep DEF Crash, IInv, TypeOK
<1>3. ASSUME NEW v \in Verifiers, Insert(v) PROVE IInv'
  <2>1. CASE KeyFree(ReplayKey(call[v].crossing))
    BY <1>3, <2>1, AcceptStep
  <2>2. CASE ~KeyFree(ReplayKey(call[v].crossing))
    BY <1>3, <2>2, ReturnStep DEF Insert, IInv, TypeOK, WriterInTransaction
  <2> QED
    BY <2>1, <2>2
<1> QED
  BY <1>1, <1>2, <1>3, VerifyStep, BeginStep, DispatchStep, IssuerStep
     DEF Next, Step

-----------------------------------------------------------------------------
(* The theorems.                                                            *)

(* The inductive invariant holds of every run.                              *)
THEOREM Invariance == Spec => []IInv
<1>1. Init => IInv
  BY Initially
<1>2. IInv /\ [Next]_vars => IInv'
  BY Inductive
<1> QED
  BY <1>1, <1>2, PTL DEF Spec

(* One replay identity buys one effect, in either profile.                  *)
THEOREM AtMostOnce == Spec => []OneEffectPerKey
<1>1. IInv => OneEffectPerKey
  BY DEF IInv
<1> QED
  BY <1>1, Invariance, PTL

(* In profile v2 an authority artifact buys one effect: the nonce spent is  *)
(* the artifact's own.  (In profile v1 it is the reference's.)              *)
THEOREM ArtifactSpentOnce ==
  ASSUME SecondProfile
  PROVE  Spec => []OneEffectPerAuthority
<1>1. IInv => OneEffectPerAuthority
  BY SecondProfile
     DEF IInv, OneEffectPerKey, OneEffectPerAuthority, EffectKey, ReplayKey,
         ReplayKeyV2
<1> QED
  BY <1>1, Invariance, PTL

(* In profile v2 all reissues of one initial artifact share one effect.     *)
THEOREM ReissuesShareOneEffect ==
  ASSUME SecondProfile
  PROVE  Spec => []OneEffectPerInitial
<1>1. ASSUME IInv PROVE OneEffectPerInitial
  <2>1. ASSUME NEW x \in effects, x.call.crossing.initial # None
        PROVE  LET i == x.call.crossing.initial IN
               EffectKey(x) = [issuer |-> i.issuer, id |-> i.id, nonce |-> i.nonce]
    <3>1. StagesLinked(x.call.crossing)
      BY <1>1, SecondProfile DEF IInv, EffectsSpent, Checks, ChecksV2
    <3>2. Immutable(x.call.crossing.authority) = Immutable(x.call.crossing.initial)
      BY <2>1, <3>1 DEF StagesLinked
    <3> QED
      BY <3>2, SecondProfile DEF Immutable, EffectKey, ReplayKey, ReplayKeyV2
  <2> QED
    BY <1>1, <2>1 DEF IInv, OneEffectPerKey, OneEffectPerInitial
<1> QED
  BY <1>1, Invariance, PTL

(* In profile v2 a revocation is in force everywhere after MaxStatusAge,    *)
(* whatever status documents verifiers were shown.                          *)
THEOREM RevocationBounded ==
  ASSUME SecondProfile
  PROVE  Spec => []RevocationReachesAll
<1>1. ASSUME IInv PROVE RevocationReachesAll
  <2> SUFFICES ASSUME NEW v \in Verifiers, pc[v] # "idle",
                      revoked[call[v].crossing.authority.id] # None
               PROVE  call[v].now <=
                        revoked[call[v].crossing.authority.id] + MaxStatusAge
    BY DEF RevocationReachesAll
  <2> DEFINE c == call[v].crossing
             st == call[v].status
             id == c.authority.id
  <2>1. call[v] \in Calls
    BY <1>1 DEF IInv, CallHeld
  <2>2. c \in Crossings /\ call[v].now \in Nat /\ st.observed_at \in Nat
    BY <2>1 DEF Calls, Statuses
  <2>3. id \in Ids
    BY <2>2, DocumentsAssumption
  <2>4. st \in statuses /\ Checks(c, st, call[v].now)
    BY <1>1 DEF IInv, CallsChecked
  <2>5. st.id = id /\ st.current /\ call[v].now - st.observed_at <= MaxStatusAge
    BY <2>4, SecondProfile DEF Checks, ChecksV2, ChecksV1, StatusFresh
  <2>6. st.observed_at <= revoked[id]
    BY <1>1, <2>4, <2>5 DEF IInv, StatusesTruthful
  <2>7. revoked[id] \in Nat
    BY <1>1, <2>3 DEF IInv, TypeOK
  <2> QED
    BY <2>2, <2>5, <2>6, <2>7, BoundsAssumption
<1> QED
  BY <1>1, Invariance, PTL

(* Verifiers, store, crashes and time-outs implement CrossingRegister.      *)
THEOREM Refinement == Spec => RegisterSpec
<1>1. Init => Register!Init
  BY DEF Init, Register!Init, Spent, Owed, Done
<1>2. ASSUME IInv, [Next]_vars
      PROVE  [Register!Next]_(Register!vars)
  <2> USE <1>2 DEF IInv
  <2> DEFINE Key(v) == ReplayKey(call[v].crossing)
  <2>1. ASSUME NEW v \in Verifiers, pc[v] # "accepted", pc'[v] # "accepted",
               \A u \in Verifiers : u # v => pc'[u] = pc[u] /\ call'[u] = call[u],
               UNCHANGED <<consumed, effects>>
        PROVE  UNCHANGED Register!vars
    BY <2>1 DEF Register!vars, Spent, Owed, Done, EffectKey
  <2>2. ASSUME NEW v \in Verifiers, NEW c \in Crossings, NEW st \in statuses,
               Verify(v, c, st)
        PROVE  UNCHANGED Register!vars
    BY <2>1, <2>2 DEF Verify, Goto, TypeOK
  <2>3. ASSUME NEW v \in Verifiers, Begin(v)
        PROVE  UNCHANGED Register!vars
    BY <2>1, <2>3 DEF Begin, Goto, TypeOK
  <2>4. ASSUME NEW v \in Verifiers, Busy(v)
        PROVE  UNCHANGED Register!vars
    BY <2>1, <2>4 DEF Busy, Return, Goto, TypeOK
  <2>5. ASSUME NEW v \in Verifiers, Insert(v)
        PROVE  [Register!Next]_(Register!vars)
    <3>1. CASE KeyFree(Key(v))
      <4>1. /\ pc[v] = "inserting" /\ Key(v) \notin consumed
            /\ consumed' = consumed \union {Key(v)}
            /\ pc' = [pc EXCEPT ![v] = "accepted"]
            /\ UNCHANGED <<call, effects>>
        BY <2>5, <3>1 DEF Insert, Goto, KeyFree
      <4>2. Key(v) \in Keys
        BY <4>1, ReplayKeyType DEF CallHeld, Calls
      <4>3. Owed' = Owed \union {Key(v)}
        BY <4>1 DEF Owed, TypeOK
      <4>4. Spent' = Spent \union {Key(v)} /\ Key(v) \notin Spent /\ Done' = Done
        BY <4>1 DEF Spent, Done, EffectKey
      <4> QED
        BY <4>2, <4>3, <4>4 DEF Register!Next, Register!Accept
    <3>2. CASE ~KeyFree(Key(v))
      BY <2>1, <2>5, <3>2 DEF Insert, Return, Goto, TypeOK
    <3> QED
      BY <3>1, <3>2
  <2>6. ASSUME NEW v \in Verifiers, pc[v] = "accepted", Return(v)
        PROVE  Key(v) \in Keys /\ Key(v) \in Owed /\ Owed' = Owed \ {Key(v)}
    <3>1. /\ pc' = [pc EXCEPT ![v] = "idle"]
          /\ call' = [call EXCEPT ![v] = None]
      BY <2>6 DEF Return, Goto
    <3>2. Key(v) \in Keys
      BY <2>6, ReplayKeyType DEF CallHeld, Calls
    <3>3. \A u \in Verifiers : pc[u] = "accepted" /\ u # v => Key(u) # Key(v)
      BY <2>6 DEF AcceptancesExclusive
    <3>4. \A u \in Verifiers :
            pc'[u] = "accepted" <=> pc[u] = "accepted" /\ u # v
      BY <3>1 DEF TypeOK
    <3>5. \A u \in Verifiers : u # v => call'[u] = call[u]
      BY <3>1 DEF TypeOK
    <3>6. Owed' = {Key(u) : u \in {w \in Verifiers : pc[w] = "accepted" /\ w # v}}
      BY <3>4, <3>5 DEF Owed
    <3> QED
      BY <2>6, <3>2, <3>3, <3>6 DEF Owed
  <2>7. ASSUME NEW v \in Verifiers, Dispatch(v)
        PROVE  [Register!Next]_(Register!vars)
    <3> DEFINE x == [number |-> Cardinality(effects), call |-> call[v]]
    <3>1. /\ pc[v] = "accepted" /\ Return(v) /\ consumed' = consumed
          /\ effects' = effects \union {x}
      BY <2>7 DEF Dispatch
    <3>2. EffectKey(x) = Key(v)
      BY DEF EffectKey
    <3>3. Done' = Done \union {Key(v)} /\ Spent' = Spent
      BY <3>1, <3>2 DEF Done, Spent, EffectKey
    <3> QED
      BY <2>6, <3>1, <3>3 DEF Register!Next, Register!Dispatch
  <2>8. ASSUME NEW v \in Verifiers, Crash(v)
        PROVE  [Register!Next]_(Register!vars)
    <3>1. Return(v) /\ UNCHANGED <<consumed, effects>>
      BY <2>8 DEF Crash
    <3>2. CASE pc[v] = "accepted"
      <4>1. Done' = Done /\ Spent' = Spent
        BY <3>1 DEF Done, Spent, EffectKey
      <4> QED
        BY <2>6, <3>1, <3>2, <4>1 DEF Register!Next, Register!Lose
    <3>3. CASE pc[v] # "accepted"
      BY <2>1, <3>1, <3>3 DEF Return, Goto, TypeOK
    <3> QED
      BY <3>2, <3>3
  <2>9. ASSUME \/ \E i \in Ids : Revoke(i) \/ PublishStatus(i)
               \/ Tick
               \/ UNCHANGED vars
        PROVE  UNCHANGED Register!vars
    BY <2>9 DEF Revoke, PublishStatus, Tick, vars, Register!vars, Spent, Owed,
                Done, EffectKey
  <2> QED
    BY <2>2, <2>3, <2>4, <2>5, <2>7, <2>8, <2>9 DEF Next, Step
<1> QED
  BY <1>1, <1>2, Invariance, PTL DEF Spec, RegisterSpec, Register!Spec
=============================================================================
