-------------------------- MODULE AdmissionProofs --------------------------
(* Theorems about Admission, for every set of documents.                    *)
EXTENDS Underwriting, TLAPS

(* What the documents of an attempt, and a receipt for it, carry.           *)
LEMMA DocumentsTyped ==
  ASSUME NEW att \in Attempts
  PROVE  /\ att.declaration \in Declarations
         /\ att.declaration.nonce \in Nonces
         /\ att.declaration.created \in Nat
         /\ att.declaration.starts \in Nat
         /\ att.declaration.expires \in Nat
         /\ att.authority \in Authorities
         /\ att.authority.starts \in Nat
         /\ att.authority.expires \in Nat
         /\ ReceiptExpiry(att) \in Nat
         /\ ReceiptExpiry(att) <= att.declaration.expires
         /\ ReceiptExpiry(att) <= att.authority.expires
<1>1. att.declaration \in Declarations /\ att.authority \in Authorities
  BY DEF Attempts
<1>2. /\ att.declaration.nonce \in Nonces
      /\ att.declaration.created \in Nat
      /\ att.declaration.starts \in Nat
      /\ att.declaration.expires \in Nat
  BY <1>1, DocumentsAssumption
<1>3. att.authority.starts \in Nat /\ att.authority.expires \in Nat
  BY <1>1, DocumentsAssumption
<1>4. QED
  BY <1>1, <1>2, <1>3 DEF ReceiptExpiry, Earlier

(* A decision is one of the three results.                                  *)
LEMMA DecideTyped ==
  ASSUME NEW att, NEW now PROVE Decide(att, now) \in Results
BY DEF Decide, Results

(* Nothing has been admitted, so nothing has gone wrong.                    *)
LEMMA InitIInv == Init => IInv
BY DEF Init, IInv, TypeOK, PassesInThePast, ReceiptsWarranted, RegistryComplete,
   NonceNamesOneAttempt, GatePassesPermitted

-----------------------------------------------------------------------------
(* The three guarantees of one call.                                        *)

(* What admit decides is what the property calls the effective permit.      *)
LEMMA AdmitIsPermitted ==
  ASSUME NEW att \in Attempts, NEW now \in Nat, Decide(att, now) = "admit"
  PROVE  Permitted(att, now)
BY DEF Decide, Permitted, Live, AuthorityValid, ControlValid, ControlBound,
   NeedsHuman

(* A permit stays good as long as both windows do: nothing else in it can   *)
(* change after admission.                                                  *)
LEMMA PermitLasts ==
  ASSUME NEW att \in Attempts, NEW t \in Nat, NEW now \in Nat,
         Permitted(att, t), t <= now, now < ReceiptExpiry(att)
  PROVE  Permitted(att, now)
<1>1. Live(att, now)
  BY DocumentsTyped DEF Permitted, Live, DeclarationValid, Within
<1>2. QED
  BY <1>1 DEF Permitted

(* A step that leaves receipts, registry, passes and revocations alone, and *)
(* does not turn the clock back, keeps the invariant.                       *)
LEMMA QuietStep ==
  ASSUME IInv, TypeOK', UNCHANGED <<admissions, receipts, passes, revoked, epoch>>,
         clock' >= clock
  PROVE  IInv'
<1>1. ReceiptsWarranted'
  BY DEF IInv, TypeOK, Receipts, ReceiptsWarranted
<1>2. RegistryComplete' /\ NonceNamesOneAttempt' /\ GatePassesPermitted'
  BY DEF IInv, RegistryComplete, NonceNamesOneAttempt, GatePassesPermitted
<1>3. PassesInThePast'
  BY DEF IInv, TypeOK, PassesInThePast
<1>4. QED
  BY <1>1, <1>2, <1>3 DEF IInv

(* A receipt issued for a new nonce is warranted, and alone under it.       *)
LEMMA AdmitStep ==
  ASSUME IInv, NEW att \in Attempts, Admit(att) PROVE IInv'
<1> USE DEF IInv
<1> DEFINE n == att.declaration.nonce
           receipt == [attempt |-> att, issued_at |-> clock,
                       expires_at |-> ReceiptExpiry(att), epoch |-> epoch]
<1>1. n \in Nonces /\ receipt \in Receipts
  BY DocumentsTyped DEF TypeOK, Receipts
<1>2. outcome' \in Results \union {None}
  BY DecideTyped DEF Admit, Return
<1>3. TypeOK'
  BY <1>1, <1>2 DEF Admit, TypeOK
<1>4. CASE Decide(att, clock) # "admit"
  BY <1>3, <1>4, QuietStep DEF Admit, TypeOK
<1>5. CASE Decide(att, clock) = "admit"
  <2>1. /\ admissions' = [admissions EXCEPT ![n] = receipt]
        /\ receipts' = receipts \union {receipt}
        /\ UNCHANGED <<passes, revoked, clock, epoch>>
        /\ admissions[n] = None
    BY <1>5 DEF Admit, NonceUnspent
  <2>2. ReceiptsWarranted'
    BY <1>5, <2>1 DEF ReceiptsWarranted, TypeOK
  <2>3. \A r \in receipts :
          r.epoch = epoch => r.attempt.declaration.nonce # n
    BY <2>1, NoneAssumption DEF RegistryComplete, TypeOK
  <2>4. RegistryComplete'
    <3>1. \A r \in receipts : r.attempt.declaration.nonce \in Nonces
      BY DocumentsTyped DEF TypeOK, Receipts
    <3>2. admissions'[n] = receipt
      BY <1>1, <2>1 DEF TypeOK
    <3>3. \A m \in Nonces : m # n => admissions'[m] = admissions[m]
      BY <2>1 DEF TypeOK
    <3>4. \A m \in Nonces :
            admissions'[m] # None =>
              /\ admissions'[m] \in receipts'
              /\ admissions'[m].epoch = epoch
              /\ admissions'[m].attempt.declaration.nonce = m
      BY <2>1, <3>2, <3>3 DEF RegistryComplete
    <3>5. \A r \in receipts' :
            r.epoch = epoch => admissions'[r.attempt.declaration.nonce] = r
      BY <2>1, <2>3, <3>1, <3>2, <3>3 DEF RegistryComplete
    <3>6. QED
      BY <2>1, <3>4, <3>5 DEF RegistryComplete
  <2>5. NonceNamesOneAttempt'
    BY <2>1, <2>3 DEF NonceNamesOneAttempt
  <2>6. GatePassesPermitted' /\ PassesInThePast'
    BY <2>1 DEF GatePassesPermitted, PassesInThePast
  <2>7. QED
    BY <1>3, <2>2, <2>4, <2>5, <2>6
<1>6. QED
  BY <1>4, <1>5

(* What the Gate lets through is still permitted: the receipt says what was *)
(* decided, and has not expired.                                            *)
LEMMA GatePermitted ==
  ASSUME IInv, NEW receipt \in receipts, NEW att \in Attempts,
         NEW candidate \in Actions, VerifyGateContext(receipt, att, candidate)
  PROVE  Permitted(att, clock)
<1>1. /\ receipt.attempt = att
      /\ clock < ReceiptExpiry(att)
      /\ receipt.issued_at <= clock
      /\ Decide(att, receipt.issued_at) = "admit"
  BY DEF VerifyGateContext, GateAccepts, IInv, ReceiptsWarranted
<1>2. receipt.issued_at \in Nat /\ clock \in Nat
  BY DEF IInv, TypeOK, Receipts
<1>3. QED
  BY <1>1, <1>2, AdmitIsPermitted, PermitLasts

(* Nor is it revoked yet, so a later revocation leaves the pass in order.   *)
LEMMA GateStep ==
  ASSUME IInv, NEW receipt \in receipts, NEW att \in Attempts,
         NEW candidate \in Actions, VerifyGateContext(receipt, att, candidate)
  PROVE  IInv'
<1> DEFINE pass == [attempt |-> att, at |-> clock]
<1>1. /\ passes' = passes \union {pass}
      /\ UNCHANGED <<admissions, receipts, outcome, revoked, clock, epoch>>
      /\ revoked[att.authority] = None
  BY DEF VerifyGateContext, GateAccepts, AuthorityIsCurrent
<1>2. Permitted(att, clock)
  BY GatePermitted
<1> USE DEF IInv
<1>3. TypeOK'
  BY <1>1 DEF TypeOK
<1>4. GatePassesPermitted' /\ PassesInThePast'
  BY <1>1, <1>2 DEF GatePassesPermitted, PassesInThePast, TypeOK
<1>5. ReceiptsWarranted' /\ RegistryComplete' /\ NonceNamesOneAttempt'
  BY <1>1 DEF ReceiptsWarranted, RegistryComplete, NonceNamesOneAttempt
<1>6. QED
  BY <1>3, <1>4, <1>5

(* A restart forgets the registry; the receipts of the old life stay good.  *)
LEMMA RestartStep == ASSUME IInv, Restart PROVE IInv'
<1> USE DEF IInv
<1>1. TypeOK'
  BY DEF Restart, TypeOK
<1>2. ReceiptsWarranted'
  BY DEF Restart, ReceiptsWarranted, TypeOK, Receipts
<1>3. RegistryComplete'
  BY DEF Restart, RegistryComplete, ReceiptsWarranted, TypeOK, Receipts
<1>4. NonceNamesOneAttempt' /\ GatePassesPermitted' /\ PassesInThePast'
  BY DEF Restart, NonceNamesOneAttempt, GatePassesPermitted, PassesInThePast
<1>5. QED
  BY <1>1, <1>2, <1>3, <1>4

(* A revocation comes after everything that was let through so far.         *)
LEMMA RevokeStep ==
  ASSUME IInv, NEW a \in Authorities, Revoke(a) PROVE IInv'
<1> USE DEF IInv
<1>1. /\ revoked' = [revoked EXCEPT ![a] = clock]
      /\ UNCHANGED <<admissions, receipts, outcome, passes, clock, epoch>>
  BY DEF Revoke
<1>2. TypeOK'
  BY <1>1 DEF TypeOK
<1>3. GatePassesPermitted'
  <2> SUFFICES ASSUME NEW pass \in passes, revoked'[pass.attempt.authority] # None
               PROVE  pass.at <= revoked'[pass.attempt.authority]
    BY <1>1 DEF GatePassesPermitted
  <2>1. pass.attempt.authority \in Authorities
    BY DocumentsTyped DEF TypeOK
  <2>2. QED
    BY <1>1, <2>1 DEF GatePassesPermitted, PassesInThePast, TypeOK
<1>4. PassesInThePast' /\ ReceiptsWarranted' /\ RegistryComplete'
      /\ NonceNamesOneAttempt'
  BY <1>1 DEF PassesInThePast, ReceiptsWarranted, RegistryComplete,
              NonceNamesOneAttempt
<1>5. QED
  BY <1>2, <1>3, <1>4

(* Every step keeps the inductive invariant.                                *)
LEMMA InvariantStep == IInv /\ [Next]_vars => IInv'
<1> SUFFICES ASSUME IInv, [Next]_vars PROVE IInv'
  OBVIOUS
<1>1. ASSUME NEW att \in Attempts, Replay(att) PROVE IInv'
  <2>1. TypeOK'
    BY <1>1 DEF Replay, Return, IInv, TypeOK, Results
  <2>2. QED
    BY <1>1, <2>1, QuietStep DEF Replay, IInv, TypeOK
<1>2. ASSUME NEW att \in Attempts, Admit(att) PROVE IInv'
  BY <1>2, AdmitStep
<1>3. ASSUME NEW receipt \in receipts, NEW att \in Attempts,
             NEW candidate \in Actions, VerifyGateContext(receipt, att, candidate)
      PROVE  IInv'
  BY <1>3, GateStep
<1>4. ASSUME NEW a \in Authorities, Revoke(a) PROVE IInv'
  BY <1>4, RevokeStep
<1>5. CASE Tick
  <2>1. TypeOK'
    BY <1>5 DEF Tick, IInv, TypeOK
  <2>2. QED
    BY <1>5, <2>1, QuietStep DEF Tick, IInv, TypeOK
<1>6. CASE Restart
  BY <1>6, RestartStep
<1>7. CASE UNCHANGED vars
  <2>1. TypeOK'
    BY <1>7 DEF vars, IInv, TypeOK
  <2>2. QED
    BY <1>7, <2>1, QuietStep DEF vars, IInv, TypeOK
<1>8. QED
  BY <1>1, <1>2, <1>3, <1>4, <1>5, <1>6, <1>7 DEF Next

(* The permit a Gate relies on was decided earlier, by another component:   *)
(* IInv carries it there in the receipts (ReceiptsWarranted), and the       *)
(* registry's completeness is what makes a nonce single (RegistryComplete). *)
THEOREM Invariance == Spec => []IInv
BY InitIInv, InvariantStep, PTL DEF Spec

(* No Gate lets through an action outside the effective permit, for any     *)
(* documents, at any later time.                                            *)
THEOREM GateSafety == Spec => []GatePassesPermitted
<1>1. IInv => GatePassesPermitted
  BY DEF IInv
<1>2. QED
  BY Invariance, <1>1, PTL

(* One nonce, one receipt in one life of the controller.                    *)
THEOREM NonceUniqueness == Spec => []NonceNamesOneAttempt
<1>1. IInv => NonceNamesOneAttempt
  BY DEF IInv
<1>2. QED
  BY Invariance, <1>1, PTL

-----------------------------------------------------------------------------
(* Admission implements the ledger of permits.                              *)

LEMMA InitRefines == Init => Ledger!Init
BY DEF Init, Ledger!Init, Issued, Revoked

(* A receipt adds exactly one permit, with a nonce new to this life.        *)
LEMMA AdmitRefines ==
  ASSUME IInv, NEW att \in Attempts, Admit(att)
  PROVE  Ledger!Issue(att) \/ UNCHANGED Ledger!vars
<1> DEFINE receipt == [attempt |-> att, issued_at |-> clock,
                       expires_at |-> ReceiptExpiry(att), epoch |-> epoch]
           P(r) == [attempt |-> r.attempt, epoch |-> r.epoch]
<1>1. CASE Decide(att, clock) # "admit"
  BY <1>1 DEF Admit, Ledger!vars, Issued, Revoked
<1>2. CASE Decide(att, clock) = "admit"
  <2>1. /\ receipts' = receipts \union {receipt}
        /\ admissions[att.declaration.nonce] = None
        /\ UNCHANGED <<passes, revoked, clock, epoch>>
    BY <1>2 DEF Admit, NonceUnspent
  <2>2. \A r \in receipts :
          r.epoch = epoch => r.attempt.declaration.nonce # att.declaration.nonce
    BY <2>1, NoneAssumption DEF IInv, RegistryComplete, TypeOK
  <2>3. \A x \in Issued :
          x.epoch = epoch => x.attempt.declaration.nonce # att.declaration.nonce
    BY <2>2 DEF Issued
  <2>4. Issued' = Issued \union {[attempt |-> att, epoch |-> epoch]}
    <3>1. P(receipt) = [attempt |-> att, epoch |-> epoch]
      OBVIOUS
    <3>2. Issued = {P(r) : r \in receipts} /\ Issued' = {P(r) : r \in receipts'}
      BY DEF Issued
    <3> HIDE DEF P, receipt
    <3>3. QED
      BY <2>1, <3>1, <3>2
  <2>5. Permitted(att, clock)
    BY <1>2, AdmitIsPermitted DEF IInv, TypeOK
  <2>6. QED
    BY <2>1, <2>3, <2>4, <2>5 DEF Ledger!Issue, Revoked
<1>3. QED
  BY <1>1, <1>2

(* The Gate passes what was issued, on documents equal to the receipt's,    *)
(* while the permit is still effective.                                     *)
LEMMA PassRefines ==
  ASSUME IInv, NEW receipt \in receipts, NEW att \in Attempts,
         NEW candidate \in Actions, VerifyGateContext(receipt, att, candidate)
  PROVE  \E x \in Issued : Ledger!Pass(x.attempt)
<1>1. /\ att = receipt.attempt
      /\ revoked[att.authority] = None
      /\ passes' = passes \union {[attempt |-> att, at |-> clock]}
      /\ UNCHANGED <<receipts, revoked, clock, epoch>>
  BY DEF VerifyGateContext, GateAccepts, AuthorityIsCurrent
<1>2. Permitted(att, clock)
  BY GatePermitted
<1>3. Ledger!Pass(att)
  BY <1>1, <1>2 DEF Ledger!Pass, Issued, Revoked
<1>4. [attempt |-> att, epoch |-> receipt.epoch] \in Issued
  BY <1>1 DEF Issued
<1>5. QED
  BY <1>3, <1>4

LEMMA RevokeRefines ==
  ASSUME IInv, NEW a \in Authorities, Revoke(a)
  PROVE  Ledger!Revoke(a)
<1>1. Revoked' = Revoked \union {a}
  BY NoneAssumption DEF Revoke, Revoked, IInv, TypeOK
<1>2. QED
  BY <1>1 DEF Revoke, Ledger!Revoke, Issued

(* A replay, and an admission that issues nothing, is a stutter.            *)
LEMMA NextRefines == IInv /\ [Next]_vars => [Ledger!Next]_(Ledger!vars)
<1> SUFFICES ASSUME IInv, [Next]_vars PROVE [Ledger!Next]_(Ledger!vars)
  OBVIOUS
<1>1. ASSUME NEW att \in Attempts, Replay(att) PROVE UNCHANGED Ledger!vars
  BY <1>1 DEF Replay, Ledger!vars, Issued, Revoked
<1>2. ASSUME NEW att \in Attempts, Admit(att)
      PROVE  Ledger!Next \/ UNCHANGED Ledger!vars
  BY <1>2, AdmitRefines DEF Ledger!Next
<1>3. ASSUME NEW receipt \in receipts, NEW att \in Attempts,
             NEW candidate \in Actions, VerifyGateContext(receipt, att, candidate)
      PROVE  Ledger!Next
  BY <1>3, PassRefines DEF Ledger!Next
<1>4. ASSUME NEW a \in Authorities, Revoke(a) PROVE Ledger!Next
  BY <1>4, RevokeRefines DEF Ledger!Next
<1>5. CASE Tick
  BY <1>5 DEF Tick, Ledger!Tick, Ledger!Next, Issued, Revoked
<1>6. CASE Restart
  BY <1>6 DEF Restart, Ledger!Restart, Ledger!Next, Issued, Revoked
<1>7. CASE UNCHANGED vars
  BY <1>7 DEF vars, Ledger!vars, Issued, Revoked
<1>8. QED
  BY <1>1, <1>2, <1>3, <1>4, <1>5, <1>6, <1>7 DEF Next

(* Border and its Gate implement the ledger of permits, for any documents:  *)
(* the registry keeps an issue fresh, and the receipt's expiry keeps the    *)
(* decision taken at admission good until the moment the Gate relies on it. *)
THEOREM Refinement == Spec => LedgerSpec
BY InitRefines, Invariance, NextRefines, PTL DEF Spec, LedgerSpec, Ledger!Spec

-----------------------------------------------------------------------------
(* What a broker reads off an admission holds of it, for every set of       *)
(* documents and whatever was kept, lost or edited afterwards.              *)

(* Every receipt that was ever issued rests on an effective permit.         *)
LEMMA ReceiptPermitted ==
  ASSUME IInv, NEW r \in receipts
  PROVE  /\ r.attempt \in Attempts
         /\ Permitted(r.attempt, r.issued_at)
<1>1. r.attempt \in Attempts /\ r.issued_at \in Nat
  BY DEF IInv, TypeOK, Receipts
<1>2. Decide(r.attempt, r.issued_at) = "admit"
  BY DEF IInv, ReceiptsWarranted
<1>3. QED
  BY <1>1, <1>2, AdmitIsPermitted

(* UW-06 answered: the documents supplied are the ones admit decided on.    *)
LEMMA PermitAnswer ==
  ASSUME IInv, NEW r \in receipts, NEW d \in Declarations, NEW a \in Authorities,
         NEW p \in SuppliedPolicies, Assess(Bundle(r, d, a, p, None))["UW-06"]
  PROVE  Permitted([declaration |-> d, authority |-> a, policy |-> p.policy,
                    control |-> r.attempt.control], r.issued_at)
<1>1. Answered("UW-06", Bundle(r, d, a, p, None))
  BY DEF Assess, Direct
<1>2. /\ d = r.attempt.declaration
      /\ a = r.attempt.authority
      /\ p.policy = r.attempt.policy
  BY <1>1 DEF Answered, ControlsAnswered, Bundle, Bound, PolicyBound
<1>3. r.attempt = [declaration |-> d, authority |-> a, policy |-> p.policy,
                   control |-> r.attempt.control]
  BY <1>2, ReceiptPermitted DEF Attempts
<1>4. QED
  BY <1>3, ReceiptPermitted

(* UW-02 answered: where the admitted policy asks for a human there was one. *)
LEMMA ApprovalAnswer ==
  ASSUME IInv, NEW r \in receipts, NEW p \in SuppliedPolicies,
         Assess(Bundle(r, None, None, p, None))["UW-02"],
         p.policy.requires_human_approval
  PROVE  ControlMode(r) # "autonomous"
<1>1. Answered("UW-02", Bundle(r, None, None, p, None))
  BY DEF Assess, Direct
<1>2. p.policy = r.attempt.policy
  BY <1>1 DEF Answered, Bundle, Bound, PolicyBound
<1>3. r.attempt.control # None
  BY <1>2, ReceiptPermitted DEF Permitted
<1>4. QED
  BY <1>3 DEF ControlMode

(* UW-10 answered: the human event supplied is the one admit validated.     *)
LEMMA ControlAnswer ==
  ASSUME IInv, NEW r \in receipts, NEW c \in Controls,
         Assess(Bundle(r, None, None, None, c))["UW-10"]
  PROVE  /\ c.genuine /\ c.empowered
         /\ c.request = r.attempt.declaration.request
         /\ c.subject = r.attempt.declaration.subject
         /\ c.action = r.attempt.declaration.action
<1>1. Answered("UW-10", Bundle(r, None, None, None, c)) /\ c # None
  BY DocumentsAssumption DEF Assess, Direct
<1>2. c = r.attempt.control
  BY <1>1 DEF Answered, AccountabilityAnswered, Bundle, Bound
<1>3. QED
  BY <1>1, <1>2, ReceiptPermitted DEF Permitted

(* A direct answer about an admission is a fact about it: IInv keeps with   *)
(* every receipt the decision it came from, and a digest that matches makes *)
(* the document supplied the one decided on.                                *)
THEOREM AnswersSound == Spec => []AnswersTrueOfAdmission
<1>1. IInv => AnswersTrueOfAdmission
  BY PermitAnswer, ApprovalAnswer, ControlAnswer DEF AnswersTrueOfAdmission
<1>2. QED
  BY Invariance, <1>1, PTL

(* Complete evidence, question by question: nothing that rests on the       *)
(* policy is answered, the identifiers agree since admit compared them, and *)
(* a human event is bound while "autonomous" is never "none".               *)
LEMMA CompleteAnswers ==
  ASSUME IInv, NEW r \in receipts
  PROVE  LET b == CompleteEvidence(r)
         IN /\ ~Answered("UW-02", b) /\ ~Answered("UW-03", b) /\ ~Answered("UW-06", b)
            /\ Answered("UW-07", b)
            /\ Answered("UW-10", b) <=> r.attempt.control # None
<1> DEFINE b == CompleteEvidence(r)
           att == r.attempt
<1>1. /\ b.receipt = r /\ b.declaration = att.declaration
      /\ b.authority = att.authority /\ b.control = att.control
      /\ b.policy = [policy |-> att.policy, bare |-> FALSE]
  BY DEF CompleteEvidence, Bundle
<1>2. ~PolicyBound(r, b.policy)
  BY <1>1 DEF PolicyBound, Bound
<1>3. ChainConsistent(b)
  <2>1. SameTrip(att.authority, att.declaration)
    BY ReceiptPermitted DEF Permitted
  <2> QED
    BY <1>1, <2>1 DEF ChainConsistent, SameTrip
<1>4. AccountabilityAnswered(b) <=> att.control # None
  BY <1>1 DEF AccountabilityAnswered, ControlMode, Bound
<1> HIDE DEF b
<1> QED
  BY <1>1, <1>2, <1>3, <1>4 DEF b, Answered, ControlsAnswered

(* The very documents of an admission answer at most two of the five direct *)
(* questions, for any documents: the run's counterexample is no accident.   *)
THEOREM CompleteEvidenceFallsShort == Spec => []CompleteEvidenceAnswersOnly
<1>1. IInv => CompleteEvidenceAnswersOnly
  <2> SUFFICES ASSUME IInv, NEW r \in receipts
               PROVE  {q \in Direct : Assess(CompleteEvidence(r))[q]} =
                        {"UW-07"} \union IF r.attempt.control = None THEN {} ELSE {"UW-10"}
    BY DEF CompleteEvidenceAnswersOnly
  <2>1. \A q \in Direct : Assess(CompleteEvidence(r))[q] = Answered(q, CompleteEvidence(r))
    BY DEF Assess
  <2> QED
    BY <2>1, CompleteAnswers DEF Direct
<1> QED
  BY Invariance, <1>1, PTL
=============================================================================
