---------------------------- MODULE ToolsProofs ----------------------------
(* Theorems about the three tools, for every corpus, recorder, receipt,     *)
(* link and requirement.                                                    *)
EXTENDS Tools, FiniteSetTheorems, SequenceTheorems, TLAPS

(* What a far side has accepted stays spent.                                *)
AcceptedAreSpent ==
  /\ IsFiniteSet(accepted)
  /\ \A a \in accepted : a.receipt.content.nonce \in seen_nonces

ReceiptIInv == ReceiptSound /\ AcceptedAreSpent

(* Evidence was normalized, and an evaluation was of evidence.              *)
EvidenceNormalized ==
  \A e \in evidence : e.genuine /\ e.active /\ e.issued_at < e.expires_at

EvaluatedEvidence ==
  result # None =>
    /\ result.items \in Seq(evidence)
    /\ result.requirement \in Requirements
    /\ result.action = Subject!Action(result.items, result.requirement)

SubjectIInv == Subject!TypeOK /\ EvidenceNormalized /\ EvaluatedEvidence

(* A summary is of the result as it stands, and that result is valid.       *)
SummaryCurrent ==
  summary # None =>
    /\ Grading!ValidResult
    /\ summary.green = Grading!Green(summary.confirmed)
    /\ summary.confirmed # None =>
         Grading!GradeOrder(summary.confirmed) <= Grading!GradeOrder(grade)

GradingIInv == Grading!TypeOK /\ SummaryCurrent

-----------------------------------------------------------------------------
(* Crossing receipts.                                                       *)

(* The instances count the way this module does.                            *)
LEMMA SameCardinality ==
  \A S : /\ Receipt!Cardinality(S) = Cardinality(S)
         /\ Subject!Cardinality(S) = Cardinality(S)
         /\ Grading!Cardinality(S) = Cardinality(S)
BY DEF Receipt!Cardinality, Subject!Cardinality, Grading!Cardinality, Cardinality

LEMMA ReceiptInit == Init => ReceiptIInv
BY FS_EmptySet, BoundsAssumption
   DEF Init, Receipt!Init, ReceiptIInv, ReceiptSound, AcceptedAreSpent,
       Receipt!TypeOK, Receipt!AcceptedOnceAsMinted

(* A nonce that is accepted was not spent before, hence never accepted.     *)
LEMMA VerifyStep ==
  ASSUME ReceiptIInv,
         NEW receipt \in Receipt!Presentable, NEW observed \in Receipt!Observations,
         NEW keyed \in BOOLEAN, NEW now \in Stamps,
         Receipt!Verify(receipt, observed, keyed, now)
  PROVE  ReceiptIInv'
<1> USE DEF ReceiptIInv, ReceiptSound
<1> DEFINE c == receipt.content
           new == [receipt |-> receipt, observed |-> observed, keyed |-> keyed,
                   at |-> now, call |-> Cardinality(accepted)]
           ok == Receipt!Accepts(receipt, observed, keyed, now)
<1>1. /\ seen_nonces' = seen_nonces \union {c.nonce}
      /\ accepted' = IF ok THEN accepted \union {new} ELSE accepted
      /\ minted' = minted /\ clock' = clock
  BY SameCardinality DEF Receipt!Verify
<1>2. /\ minted \subseteq Contents /\ clock \in Nat /\ clock \in 0 .. MaxClock
      /\ seen_nonces \subseteq Nonces /\ IsFiniteSet(accepted)
  BY BoundsAssumption DEF Receipt!TypeOK, AcceptedAreSpent
<1>3. receipt \in Receipt!Receipts /\ c \in Contents
  BY <1>2 DEF Receipt!Presentable, Receipt!Receipts
<1>4. c.nonce \in Nonces
  BY <1>3, ContentsAssumption
<1>5. new \in [receipt : Receipt!Receipts, observed : Receipt!Observations,
               keyed : BOOLEAN, at : Stamps, call : Nat]
  BY <1>2, <1>3, FS_CardinalityType
<1>6. Receipt!TypeOK'
  BY <1>1, <1>2, <1>4, <1>5 DEF Receipt!TypeOK
<1>7. AcceptedAreSpent'
  <2>1. IsFiniteSet(accepted')
    BY <1>1, <1>2, FS_AddElement
  <2>2. new.receipt.content.nonce = c.nonce
    OBVIOUS
  <2>3. QED
    BY <1>1, <2>1, <2>2 DEF AcceptedAreSpent
<1>8. ASSUME ok
      PROVE  /\ keyed => c \in minted
             /\ \A f \in Fields : observed[f] # None => observed[f] = c.crossing[f]
             /\ ~c.revoked
             /\ Receipt!OneForm({now, c.issued_at, c.expires_at}) =>
                  /\ c.issued_at.instant <= now.instant
                  /\ now.instant < c.expires_at.instant
             /\ c.nonce \notin seen_nonces
  <2>1. receipt.signature \in minted \union {None}
    BY DEF Receipt!Presentable
  <2>2. keyed => c \in minted
    BY <1>3, <1>8, <2>1, ContentsAssumption
       DEF Receipt!Accepts, Receipt!SignatureVerifies
  <2>3. /\ c.issued_at.place <= now.place /\ now.place < c.expires_at.place
        /\ c.issued_at \in Stamps /\ c.expires_at \in Stamps
    BY <1>3, <1>8, ContentsAssumption DEF Receipt!Accepts, Receipt!Fresh
  <2>4. ASSUME Receipt!OneForm({now, c.issued_at, c.expires_at})
        PROVE  /\ c.issued_at.instant <= now.instant
               /\ now.instant < c.expires_at.instant
    <3>1. c.issued_at.form = now.form /\ c.expires_at.form = now.form
      BY <2>4 DEF Receipt!OneForm
    <3>2. ~(c.expires_at.place <= now.place)
      BY <2>3, StampsAssumption
    <3>3. ~(c.expires_at.instant <= now.instant)
      BY <2>3, <3>1, <3>2, StampsAssumption
    <3> QED
      BY <2>3, <3>1, <3>3, StampsAssumption
  <2>5. QED
    BY <1>8, <2>2, <2>4 DEF Receipt!Accepts, Receipt!ObservedAsBound, Receipt!Fresh
<1>9. Receipt!AcceptedOnceAsMinted'
  <2>1. CASE ~ok
    BY <1>1, <2>1 DEF Receipt!AcceptedOnceAsMinted
  <2>2. CASE ok
    <3>1. /\ new.receipt.content = c /\ new.keyed = keyed
          /\ new.observed = observed /\ new.at = now
      OBVIOUS
    <3>2. accepted' = accepted \union {new}
      BY <1>1, <2>2
    <3>3. \A a \in accepted : a.receipt.content.nonce # c.nonce
      BY <1>8, <2>2 DEF AcceptedAreSpent
    <3> HIDE DEF c, new, ok
    <3>4. \A a, b \in accepted' :
            a.receipt.content.nonce = b.receipt.content.nonce => a = b
      BY <3>1, <3>2, <3>3 DEF Receipt!AcceptedOnceAsMinted
    <3>5. QED
      BY <1>1, <1>8, <2>2, <3>1, <3>2, <3>4 DEF Receipt!AcceptedOnceAsMinted
  <2>3. QED
    BY <2>1, <2>2
<1>10. QED
  BY <1>6, <1>7, <1>9

LEMMA ReceiptStep == ReceiptIInv /\ [Next]_vars => ReceiptIInv'
<1> SUFFICES ASSUME ReceiptIInv, [Next]_vars PROVE ReceiptIInv'
  OBVIOUS
<1> USE DEF ReceiptIInv, ReceiptSound
<1>1. ASSUME NEW content \in Contents, Receipt!Create(content) PROVE ReceiptIInv'
  BY <1>1 DEF Receipt!Create, Receipt!TypeOK, Receipt!AcceptedOnceAsMinted,
     AcceptedAreSpent
<1>2. ASSUME NEW receipt \in Receipt!Presentable, NEW observed \in Receipt!Observations,
             NEW keyed \in BOOLEAN, NEW now \in Stamps,
             Receipt!Verify(receipt, observed, keyed, now)
      PROVE  ReceiptIInv'
  BY <1>2, VerifyStep
<1>3. ASSUME Receipt!Tick \/ Subject!Tick, UNCHANGED <<minted, seen_nonces, accepted>>
      PROVE  ReceiptIInv'
  <2>1. clock' \in 0..MaxClock
    BY <1>3, BoundsAssumption DEF Receipt!Tick, Subject!Tick, Receipt!TypeOK
  <2>2. Receipt!TypeOK'
    BY <1>3, <2>1 DEF Receipt!TypeOK
  <2>3. Receipt!AcceptedOnceAsMinted' /\ AcceptedAreSpent'
    BY <1>3 DEF Receipt!AcceptedOnceAsMinted, AcceptedAreSpent
  <2>4. QED
    BY <2>2, <2>3
<1>4. ASSUME UNCHANGED <<minted, seen_nonces, accepted, clock>> PROVE ReceiptIInv'
  BY <1>4 DEF Receipt!TypeOK, Receipt!AcceptedOnceAsMinted, AcceptedAreSpent
<1>5. CASE running = "grading" /\ UNCHANGED <<minted, seen_nonces, accepted, clock>>
  BY <1>4, <1>5
<1>6. CASE Receipt!Next
  BY <1>1, <1>2, <1>3, <1>6 DEF Receipt!Next, Receipt!Tick
<1>7. CASE Subject!Next /\ UNCHANGED <<minted, seen_nonces, accepted>>
  BY <1>3, <1>4, <1>7 DEF Subject!Next, Subject!Normalize, Subject!Evaluate
<1>8. QED
  BY <1>4, <1>5, <1>6, <1>7 DEF Next, vars

(* However receipts are altered, mixed, resent or minted again under a used *)
(* nonce, a nonce is accepted once, as minted, by crossing_receipt.verify,  *)
(* and in its window if all the times are written in one form.              *)
THEOREM ReceiptsAcceptedOnce == Spec => []ReceiptSound
<1>1. ReceiptIInv => ReceiptSound
  BY DEF ReceiptIInv
<1>2. QED
  BY ReceiptInit, ReceiptStep, <1>1, PTL DEF Spec

-----------------------------------------------------------------------------
(* Subject links.                                                           *)

(* Of a sequence of links one of each provider can be chosen.               *)
LEMMA OneOfEachProvider ==
  ASSUME NEW S, NEW items \in Seq(S)
  PROVE  \E chosen \in SUBSET (DOMAIN items) :
           /\ {items[i].provider : i \in chosen} = Subject!ProvidersOf(items)
           /\ Cardinality(chosen) = Cardinality(Subject!ProvidersOf(items))
<1> DEFINE D == DOMAIN items
           P == Subject!ProvidersOf(items)
           provider == [i \in D |-> items[i].provider]
           first == [p \in P |-> CHOOSE i \in D : items[i].provider = p]
           chosen == {first[p] : p \in P}
<1>1. IsFiniteSet(D)
  BY FS_Interval, 0 \in Int, 1 \in Int, Len(items) \in Int, D = 1 .. Len(items)
<1>2. P = {items[i].provider : i \in D}
  BY DEF Subject!ProvidersOf
<1>3. IsFiniteSet(P)
  <2>1. provider \in Surjection(D, P)
    BY <1>2 DEF Surjection
  <2>2. QED
    BY <1>1, <2>1, FS_Surjection
<1>4. \A p \in P : first[p] \in D /\ items[first[p]].provider = p
  BY <1>2
<1>5. first \in Bijection(P, chosen)
  BY <1>4 DEF Bijection, Injection, IsInjective, Surjection
<1>6. Cardinality(chosen) = Cardinality(P)
  BY <1>3, <1>5, FS_Bijection DEF ExistsBijection
<1>7. chosen \in SUBSET D
  BY <1>4
<1>8. {items[i].provider : i \in chosen} = P
  <2>1. \A i \in chosen : items[i].provider \in P
    BY <1>4
  <2>2. \A p \in P : first[p] \in chosen
    OBVIOUS
  <2> HIDE DEF first, chosen, P
  <2>3. QED
    BY <1>4, <2>1, <2>2
<1>9. QED
  BY <1>6, <1>7, <1>8

(* Whoever counts providers counts receipts to be chosen.                   *)
LEMMA SubjectLinked == SubjectIInv => Subject!AcceptedSubjectLinked
<1> SUFFICES ASSUME SubjectIInv, result # None, result.action = "accept"
             PROVE  Subject!AcceptedSubjectLinked
  BY DEF Subject!AcceptedSubjectLinked
<1> DEFINE items == result.items
           q == result.requirement
           D == DOMAIN items
<1>1. /\ items \in Seq(evidence)
      /\ Subject!Action(items, q) = "accept"
  BY DEF SubjectIInv, EvaluatedEvidence
<1>2. \A i \in D : items[i] \in evidence
  BY <1>1
<1>3. /\ \A i \in D : items[i].audience = q.audience
      /\ Cardinality(Subject!SubjectsOf(items)) = 1
      /\ Subject!NoncesDiffer(items)
      /\ q.required_types \subseteq Subject!TypesOf(items)
      /\ Cardinality(Subject!ProvidersOf(items)) >= q.minimum_providers
  BY <1>1, SameCardinality DEF Subject!Action, Subject!Satisfied
<1>4. \A i, j \in D : items[i].subject = items[j].subject
  <2>1. IsFiniteSet(Subject!SubjectsOf(items))
    <3> DEFINE subject == [i \in D |-> items[i].subject]
    <3>1. IsFiniteSet(D)
      BY <1>1, FS_Interval, 1 \in Int, Len(items) \in Int, D = 1 .. Len(items)
    <3>2. subject \in Surjection(D, Subject!SubjectsOf(items))
      BY DEF Surjection, Subject!SubjectsOf
    <3>3. QED
      BY <3>1, <3>2, FS_Surjection
  <2>2. PICK s : Subject!SubjectsOf(items) = {s}
    BY <1>3, <2>1, FS_Singleton
  <2>3. QED
    BY <2>2 DEF Subject!SubjectsOf
<1>5. PICK chosen \in SUBSET D :
        /\ {items[i].provider : i \in chosen} = Subject!ProvidersOf(items)
        /\ Cardinality(chosen) = Cardinality(Subject!ProvidersOf(items))
  BY <1>1, OneOfEachProvider
<1>6. /\ Subject!Cardinality(chosen)
           = Subject!Cardinality({items[i].provider : i \in chosen})
      /\ Subject!Cardinality(chosen) >= q.minimum_providers
  BY <1>3, <1>5, SameCardinality
<1>7. \A i \in chosen : /\ items[i].genuine /\ items[i].active
                        /\ items[i].issued_at < items[i].expires_at
                        /\ items[i].audience = q.audience
  BY <1>2, <1>3 DEF SubjectIInv, EvidenceNormalized
<1>8. \A i, j \in chosen : /\ items[i].subject = items[j].subject
                           /\ items[i].nonce = items[j].nonce => i = j
  BY <1>3, <1>4 DEF Subject!NoncesDiffer
<1> HIDE DEF items, q
<1>9. QED
  BY <1>3, <1>6, <1>7, <1>8 DEF Subject!AcceptedSubjectLinked, items, q

LEMMA SubjectInit == Init => SubjectIInv
BY BoundsAssumption
   DEF Init, Subject!Init, SubjectIInv, Subject!TypeOK, EvidenceNormalized,
       EvaluatedEvidence

(* More evidence is collected; what was evaluated stays evidence.           *)
LEMMA NormalizeStep ==
  ASSUME SubjectIInv, NEW link \in Links, Subject!Normalize(link)
  PROVE  SubjectIInv'
<1>1. /\ evidence' = evidence \union {link} /\ result' = result /\ clock' = clock
      /\ link.genuine /\ link.active /\ link.issued_at < link.expires_at
  BY DEF Subject!Normalize
<1>2. Seq(evidence) \subseteq Seq(evidence')
  BY <1>1
<1>3. EvaluatedEvidence'
  BY <1>1, <1>2 DEF SubjectIInv, EvaluatedEvidence
<1>4. QED
  BY <1>1, <1>3 DEF SubjectIInv, Subject!TypeOK, EvidenceNormalized

LEMMA EvaluateStep ==
  ASSUME SubjectIInv,
         NEW items \in Subject!BoundedSeq(evidence, MaxItems), NEW q \in Requirements,
         Subject!Evaluate(items, q)
  PROVE  SubjectIInv'
<1>1. items \in Seq(evidence)
  BY BoundsAssumption DEF Subject!BoundedSeq, Subject!SeqOf
<1>2. /\ result' = [items |-> items, requirement |-> q,
                    action |-> Subject!Action(items, q)]
      /\ evidence' = evidence /\ clock' = clock
  BY DEF Subject!Evaluate
<1>3. Subject!Action(items, q) \in Subject!Actions
  BY DEF Subject!Action, Subject!Actions
<1>4. EvaluatedEvidence'
  BY <1>1, <1>2 DEF EvaluatedEvidence
<1>5. QED
  BY <1>2, <1>3, <1>4 DEF SubjectIInv, Subject!TypeOK, EvidenceNormalized

LEMMA SubjectStep == SubjectIInv /\ [Next]_vars => SubjectIInv'
<1> SUFFICES ASSUME SubjectIInv, [Next]_vars PROVE SubjectIInv'
  OBVIOUS
<1>1. ASSUME Receipt!Tick \/ Subject!Tick, UNCHANGED <<evidence, result>>
      PROVE  SubjectIInv'
  BY <1>1, BoundsAssumption DEF SubjectIInv, Receipt!Tick, Subject!Tick, Subject!TypeOK,
     EvidenceNormalized, EvaluatedEvidence
<1>2. ASSUME UNCHANGED <<evidence, result, clock>> PROVE SubjectIInv'
  BY <1>2 DEF SubjectIInv, Subject!TypeOK, EvidenceNormalized, EvaluatedEvidence
<1>3. CASE Subject!Next
  BY <1>1, <1>3, NormalizeStep, EvaluateStep DEF Subject!Next, Subject!Tick
<1>4. CASE Receipt!Next /\ UNCHANGED <<evidence, result>>
  BY <1>1, <1>2, <1>4 DEF Receipt!Next, Receipt!Create, Receipt!Verify
<1>5. QED
  BY <1>2, <1>3, <1>4 DEF Next, vars

(* However links are mixed, copied and evaluated later, what                *)
(* evaluate_subject_requirement accepts has its providers.                  *)
THEOREM SubjectsLinked == Spec => []SubjectSound
<1>1. SubjectIInv => SubjectSound
  BY SubjectLinked DEF SubjectIInv, SubjectSound
<1>2. QED
  BY SubjectInit, SubjectStep, <1>1, PTL DEF Spec

-----------------------------------------------------------------------------
(* Grading.                                                                 *)

(* The order of the grades.                                                 *)
LEMMA GradesOrdered ==
  /\ Grading!ToSet(Grading!Grades) =
       {"reference_fixture", "transport_real", "implementation_independent",
        "operator_independent"}
  /\ Grading!GradeOrder("reference_fixture") = 1
  /\ Grading!GradeOrder("transport_real") = 2
  /\ Grading!GradeOrder("implementation_independent") = 3
  /\ Grading!GradeOrder("operator_independent") = 4
<1>1. /\ DOMAIN Grading!Grades = {1, 2, 3, 4}
      /\ Grading!Grades[1] = "reference_fixture"
      /\ Grading!Grades[2] = "transport_real"
      /\ Grading!Grades[3] = "implementation_independent"
      /\ Grading!Grades[4] = "operator_independent"
  BY DEF Grading!Grades
<1>2. QED
  BY <1>1 DEF Grading!GradeOrder, Grading!ToSet

(* An outcome and a reason.                                                 *)
Decisions == [outcome : {"succeed", "reject", "non_comparable"},
              reason : {"accepted", "mismatch", "nonce_replay", "adapter_non_comparable"}]

(* Rows are attempts; a lone success counts from nought to one, and what is *)
(* refused after it counts no further.                                      *)
LEMMA RowsTyped ==
  ASSUME NEW n \in Nat, NEW decisions \in [1 .. n -> Decisions]
  PROVE  /\ Grading!Rows(decisions) \in Seq(Grading!Attempts)
         /\ Grading!Rows(decisions) \in [1 .. n -> Grading!Attempts]
<1> DEFINE Effects(k) == Cardinality({i \in 1 .. k : decisions[i].outcome = "succeed"})
<1>1. \A k \in Int : Effects(k) \in Int
  <2> SUFFICES ASSUME NEW k \in Int PROVE Effects(k) \in Int
    OBVIOUS
  <2>1. IsFiniteSet(1 .. k)
    BY FS_Interval, 1 \in Int
  <2>2. {i \in 1 .. k : decisions[i].outcome = "succeed"} \in SUBSET (1 .. k)
    OBVIOUS
  <2>3. QED
    BY <2>1, <2>2, FS_Subset, FS_CardinalityType
<1>2. Grading!Rows(decisions) =
        [i \in 1 .. n |-> [outcome |-> decisions[i].outcome,
                           reason |-> decisions[i].reason,
                           before |-> Effects(i - 1), after |-> Effects(i)]]
  BY SameCardinality DEF Grading!Rows
<1>3. \A i \in 1 .. n : Effects(i - 1) \in Int /\ Effects(i) \in Int
  BY <1>1
<1> HIDE DEF Effects
<1>4. QED
  BY <1>2, <1>3 DEF Decisions, Grading!Attempts

LEMMA FirstSuccessCounts ==
  ASSUME NEW n \in Nat \ {0}, NEW decisions \in [1 .. n -> Decisions],
         decisions[1].outcome = "succeed",
         \A i \in 2 .. n : decisions[i].outcome # "succeed"
  PROVE  \A i \in 1 .. n : Grading!Rows(decisions)[i].after = 1
<1> SUFFICES ASSUME NEW i \in 1 .. n
             PROVE  Grading!Rows(decisions)[i].after = 1
  OBVIOUS
<1>1. Grading!Rows(decisions)[i].after
        = Cardinality({j \in 1 .. i : decisions[j].outcome = "succeed"})
  BY SameCardinality DEF Grading!Rows
<1>2. {j \in 1 .. i : decisions[j].outcome = "succeed"} = {1}
  OBVIOUS
<1>3. QED
  BY <1>1, <1>2, FS_Singleton

LEMMA ExpectedDecisions ==
  /\ \A c \in Grading!Cases : Grading!Expected(c) \in Decisions
  /\ \A c \in Controls :
       Grading!Expected(c) = [outcome |-> "succeed", reason |-> "accepted"]
  /\ \A c \in Mutations :
       Grading!Expected(c) = [outcome |-> "reject", reason |-> "mismatch"]
  /\ Grading!Expected(Replay) = [outcome |-> "reject", reason |-> "nonce_replay"]
  /\ Grading!Accepted = [outcome |-> "succeed", reason |-> "accepted"]
BY CorpusAssumption DEF Grading!Cases, Grading!Expected, Grading!Accepted, Decisions

LEMMA LanesTyped ==
  ASSUME NEW c \in Grading!Cases
  PROVE  /\ Grading!BoundRows(c) \in Seq(Grading!Attempts)
         /\ Grading!NativeRows(c) \in Seq(Grading!Attempts)
<1> DEFINE n == Grading!AttemptsOf(c)
           bound == [i \in 1 .. n |-> IF i = n THEN Grading!Expected(c) ELSE Grading!Accepted]
           native == [i \in 1 .. n |-> Grading!Accepted]
<1>1. n \in Nat
  BY DEF Grading!AttemptsOf
<1>2. Grading!Accepted \in Decisions /\ Grading!Expected(c) \in Decisions
  BY ExpectedDecisions DEF Decisions
<1>3. bound \in [1 .. n -> Decisions] /\ native \in [1 .. n -> Decisions]
  BY <1>2
<1> HIDE DEF n, bound, native
<1>4. /\ Grading!Rows(bound) \in Seq(Grading!Attempts)
      /\ Grading!Rows(native) \in Seq(Grading!Attempts)
  BY <1>1, <1>3, RowsTyped
<1>5. QED
  BY <1>4 DEF Grading!BoundRows, Grading!NativeRows, n, bound, native

(* What the fixtures pin: the counter after a control and after the replay. *)
LEMMA FixtureCounters ==
  /\ \A c \in Controls : Grading!NativeRows(c)[1].after = 1
  /\ Grading!BoundRows(Replay)[2].after = 1
<1>1. ASSUME NEW c \in Controls PROVE Grading!NativeRows(c)[1].after = 1
  <2> DEFINE native == [i \in 1 .. 1 |-> Grading!Accepted]
  <2>1. Grading!AttemptsOf(c) = 1
    BY CorpusAssumption DEF Grading!AttemptsOf
  <2>2. native \in [1 .. 1 -> Decisions] /\ native[1].outcome = "succeed"
    BY ExpectedDecisions DEF Decisions
  <2>3. Grading!NativeRows(c) = Grading!Rows(native)
    BY <2>1 DEF Grading!NativeRows
  <2> HIDE DEF native
  <2>4. 1 \in Nat \ {0} /\ \A i \in 2 .. 1 : native[i].outcome # "succeed"
    OBVIOUS
  <2>5. \A i \in 1 .. 1 : Grading!Rows(native)[i].after = 1
    BY <2>2, <2>4, FirstSuccessCounts
  <2>6. QED
    BY <2>3, <2>5
<1>2. Grading!BoundRows(Replay)[2].after = 1
  <2> DEFINE bound == [i \in 1 .. 2 |-> IF i = 2 THEN Grading!Expected(Replay)
                                                 ELSE Grading!Accepted]
  <2>1. Grading!AttemptsOf(Replay) = 2
    BY DEF Grading!AttemptsOf
  <2>2. /\ bound \in [1 .. 2 -> Decisions]
        /\ bound[1].outcome = "succeed" /\ bound[2].outcome = "reject"
    BY ExpectedDecisions DEF Decisions
  <2>3. Grading!BoundRows(Replay) = Grading!Rows(bound)
    BY <2>1 DEF Grading!BoundRows
  <2> HIDE DEF bound
  <2>4. 2 \in Nat \ {0} /\ \A i \in 2 .. 2 : bound[i].outcome # "succeed"
    BY <2>2
  <2>5. \A i \in 1 .. 2 : Grading!Rows(bound)[i].after = 1
    BY <2>2, <2>4, FirstSuccessCounts
  <2>6. QED
    BY <2>3, <2>5
<1>3. QED
  BY <1>1, <1>2

(* What validation leaves of a lane that was executed.                      *)
LEMMA ExternalLane ==
  ASSUME Grading!TypeOK, Grading!ValidResult,
         NEW c \in Grading!Cases, NEW l \in Grading!Lanes, Grading!External(c, l)
  PROVE  LET attempts == rows[c][l].attempts
             n == Grading!AttemptsOf(c)
         IN /\ attempts \in Seq(Grading!Attempts) /\ Len(attempts) = n /\ n \in {1, 2}
            /\ Grading!LastOf(c, l) = attempts[n]
            /\ attempts[1].before = 0
            /\ n = 2 => attempts[2].before = attempts[1].after
            /\ \A i \in 1 .. n : /\ Grading!Consistent(attempts[i])
                                 /\ attempts[i] \in Grading!Attempts
            /\ l = "bound" /\ c = Replay => attempts = Grading!BoundRows(Replay)
            /\ c \in Controls => attempts[1] = Grading!NativeRows(c)[1]
<1> DEFINE attempts == rows[c][l].attempts
           n == Grading!AttemptsOf(c)
<1>1. attempts \in Seq(Grading!Attempts)
  BY DEF Grading!TypeOK
<1>2. /\ Len(attempts) = n
      /\ Grading!Continuous(attempts)
      /\ \A i \in DOMAIN attempts : Grading!Consistent(attempts[i])
      /\ l = "bound" /\ c = Replay => attempts = Grading!BoundRows(Replay)
      /\ c \in Controls => attempts[1] = Grading!NativeRows(c)[1]
  BY DEF Grading!ValidResult, Grading!ValidLane, Grading!External
<1>3. n \in {1, 2}
  BY DEF Grading!AttemptsOf
<1>4. DOMAIN attempts = 1 .. n
  BY <1>1, <1>2
<1>5. Grading!LastOf(c, l) = attempts[n]
  BY <1>2 DEF Grading!LastOf
<1>6. attempts[1].before = 0 /\ (n = 2 => attempts[2].before = attempts[1].after)
  BY <1>2, <1>3, <1>4 DEF Grading!Continuous
<1>7. \A i \in 1 .. n : attempts[i] \in Grading!Attempts
  <2>1. 1 .. n = 1 .. Len(attempts)
    BY <1>2
  <2> HIDE DEF attempts, n
  <2>2. QED
    BY <1>1, <2>1, ElementOfSeq
<1>8. QED
  BY <1>1, <1>2, <1>3, <1>4, <1>5, <1>6, <1>7

(* The counters of a green result are what the decisions say.               *)
LEMMA GreenContained == GradingIInv => Grading!GreenMeansContained
<1> SUFFICES ASSUME GradingIInv, summary # None, summary.green
             PROVE  Grading!GreenMeansContained
  BY DEF Grading!GreenMeansContained
<1>1. /\ Grading!TypeOK /\ Grading!ValidResult /\ Grading!Green(summary.confirmed)
      /\ summary.confirmed # None =>
           Grading!GradeOrder(summary.confirmed) <= Grading!GradeOrder(grade)
  BY DEF GradingIInv, SummaryCurrent
<1>2. \A c \in Grading!Cases, l \in Grading!Lanes : Grading!External(c, l)
  BY <1>1 DEF Grading!Green, Grading!CompleteExternalExecution
<1>3. \A c \in Grading!Cases :
        Grading!Decision(Grading!LastOf(c, "bound")) = Grading!Expected(c)
  BY <1>1 DEF Grading!Green, Grading!ExpectationsMatch
<1>4. {"native", "bound"} = Grading!Lanes
  BY DEF Grading!Lanes
<1>5. ASSUME NEW c \in Grading!Cases
      PROVE  /\ rows[c]["bound"].measurement = "externally_observed"
             /\ Grading!LastOf(c, "bound").after = IF c \in Mutations THEN 0 ELSE 1
  <2>1. rows[c]["bound"].measurement = "externally_observed"
    BY <1>2, <1>4 DEF Grading!External
  <2>2. CASE c = Replay
    <3>1. Grading!LastOf(c, "bound") = Grading!BoundRows(Replay)[2]
      BY <1>1, <1>2, <1>4, <2>2, ExternalLane DEF Grading!AttemptsOf
    <3>2. QED
      BY <2>1, <2>2, <3>1, FixtureCounters, CorpusAssumption
  <2>3. CASE c # Replay
    <3> DEFINE a == rows[c]["bound"].attempts[1]
    <3>1. Grading!AttemptsOf(c) = 1
      BY <2>3 DEF Grading!AttemptsOf
    <3>2. /\ Grading!LastOf(c, "bound") = a /\ a.before = 0
          /\ Grading!Consistent(a) /\ a \in Grading!Attempts
      BY <1>1, <1>2, <1>4, <3>1, ExternalLane
    <3>3. a.outcome = Grading!Expected(c).outcome
      BY <1>3, <3>2 DEF Grading!Decision
    <3>4. a.outcome = IF c \in Mutations THEN "reject" ELSE "succeed"
      BY <2>3, <3>3, ExpectedDecisions, CorpusAssumption DEF Grading!Cases
    <3>5. a.after = IF c \in Mutations THEN 0 ELSE 1
      <4>1. a.before = 0 /\ a.after \in Int
        BY <3>2 DEF Grading!Attempts
      <4>2. /\ a.outcome = "succeed" => a.after - a.before = 1
            /\ a.outcome = "reject" => a.after - a.before = 0
        BY <3>2, Zenon DEF Grading!Consistent
      <4> HIDE DEF a
      <4>3. QED
        BY <3>4, <4>1, <4>2
    <3>6. QED
      BY <2>1, <3>2, <3>5
  <2>4. QED
    BY <2>2, <2>3
<1>6. ASSUME NEW c \in Controls
      PROVE  /\ rows[c]["native"].measurement = "externally_observed"
             /\ Grading!LastOf(c, "native").after = 1
  <2>1. c \in Grading!Cases /\ Grading!AttemptsOf(c) = 1
    BY CorpusAssumption DEF Grading!Cases, Grading!AttemptsOf
  <2>2. Grading!LastOf(c, "native") = Grading!NativeRows(c)[1]
    BY <1>1, <1>2, <1>4, <2>1, ExternalLane
  <2>3. QED
    BY <1>2, <1>4, <2>1, <2>2, FixtureCounters DEF Grading!External
<1>7. \E c \in Grading!Cases \ Controls : Grading!LastOf(c, "native").after > 0
  <2>1. PICK c \in Grading!Cases \ Controls :
          Grading!LastOf(c, "native").outcome = "succeed"
    BY <1>1 DEF Grading!Green, Grading!Discriminating
  <2> DEFINE attempts == rows[c]["native"].attempts
             n == Grading!AttemptsOf(c)
  <2>2. /\ n \in {1, 2} /\ Grading!LastOf(c, "native") = attempts[n]
        /\ attempts[1].before = 0
        /\ n = 2 => attempts[2].before = attempts[1].after
        /\ \A i \in 1 .. n : /\ Grading!Consistent(attempts[i])
                             /\ attempts[i] \in Grading!Attempts
    BY <1>1, <1>2, <1>4, ExternalLane
  <2> HIDE DEF attempts, n
  <2>3. attempts[1].after \in Int /\ attempts[1].after >= 0
    BY <2>2 DEF Grading!Consistent, Grading!Attempts
  <2>4. attempts[n].before \in Int /\ attempts[n].before >= 0
    BY <2>2, <2>3
  <2>5. attempts[n].after = attempts[n].before + 1
    BY <2>1, <2>2 DEF Grading!Consistent, Grading!Attempts
  <2>6. QED
    BY <2>1, <2>2, <2>4, <2>5
<1>8. summary.confirmed \in Grading!IndependentGrades /\ grade \in Grading!IndependentGrades
  <2>1. summary.confirmed \in Grading!IndependentGrades
    BY <1>1 DEF Grading!Green
  <2>2. Grading!GradeOrder(grade) >= 3
    BY <1>1, <2>1, GradesOrdered, CorpusAssumption
       DEF Grading!IndependentGrades, Grading!TypeOK
  <2>3. QED
    BY <1>1, <2>1, <2>2, GradesOrdered DEF Grading!IndependentGrades, Grading!TypeOK
<1>9. QED
  BY <1>5, <1>6, <1>7, <1>8 DEF Grading!GreenMeansContained

-----------------------------------------------------------------------------
(* One lemma per action of the grading.                                     *)

LEMMA GradingInit == Init => GradingIInv
<1> SUFFICES ASSUME Init PROVE GradingIInv
  OBVIOUS
<1>1. Grading!Init
  BY DEF Init
<1>2. <<>> \in Seq(Grading!Attempts)
  OBVIOUS
<1>3. \A c \in Grading!Cases : Grading!BoundRows(c) \in Seq(Grading!Attempts)
  BY LanesTyped
<1>4. Grading!TypeOK
  BY <1>1, <1>2, <1>3, GradesOrdered, BoundsAssumption
     DEF Grading!Init, Grading!TypeOK, Grading!Lane, Grading!Unmeasured,
         Grading!Measurements
<1>5. QED
  BY <1>1, <1>4 DEF GradingIInv, SummaryCurrent, Grading!Init

(* Whatever is written of a lane, right or wrong, discards the summary.     *)
LEMMA WriteLane ==
  ASSUME GradingIInv, NEW c \in Grading!Cases, NEW l \in Grading!Lanes,
         NEW measurement \in Grading!Measurements,
         NEW attempts \in Seq(Grading!Attempts),
         rows' = [rows EXCEPT ![c][l] = Grading!Lane(measurement, attempts)],
         summary' = None, grade' = grade, faults' \in 0 .. MaxFaults
  PROVE  GradingIInv'
<1>1. rows' \in [Grading!Cases -> [Grading!Lanes ->
                   [measurement : Grading!Measurements, attempts : Seq(Grading!Attempts)]]]
  BY DEF GradingIInv, Grading!TypeOK, Grading!Lane
<1>2. QED
  BY <1>1 DEF GradingIInv, Grading!TypeOK, SummaryCurrent

LEMMA ExecuteStep ==
  ASSUME GradingIInv, NEW c \in Grading!Cases, NEW l \in Grading!Lanes,
         Grading!Execute(c, l)
  PROVE  GradingIInv'
<1> DEFINE attempts == IF l = "bound" THEN Grading!BoundRows(c) ELSE Grading!NativeRows(c)
<1>1. attempts \in Seq(Grading!Attempts)
  BY LanesTyped
<1>2. "externally_observed" \in Grading!Measurements
  BY DEF Grading!Measurements
<1>3. /\ rows' = [rows EXCEPT ![c][l] = Grading!Lane("externally_observed", attempts)]
      /\ summary' = None /\ grade' = grade /\ faults' = faults
  BY DEF Grading!Execute
<1>4. faults' \in 0 .. MaxFaults
  BY <1>3 DEF GradingIInv, Grading!TypeOK
<1> HIDE DEF attempts
<1>5. QED
  BY <1>1, <1>2, <1>3, <1>4, WriteLane

LEMMA MisrecordStep ==
  ASSUME GradingIInv, NEW c \in Grading!Cases, NEW l \in Grading!Lanes,
         NEW measurement \in Grading!Measurements,
         NEW attempts \in UNION {[1 .. n -> Misreports] : n \in 0 .. 2},
         Grading!Misrecord(c, l, Grading!Lane(measurement, attempts))
  PROVE  GradingIInv'
<1>1. attempts \in Seq(Grading!Attempts)
  <2>1. PICK n \in 0 .. 2 : attempts \in [1 .. n -> Misreports]
    OBVIOUS
  <2>2. n \in Nat /\ attempts \in [1 .. n -> Grading!Attempts]
    BY <2>1, CorpusAssumption
  <2>3. QED
    BY <2>2
<1>2. /\ rows' = [rows EXCEPT ![c][l] = Grading!Lane(measurement, attempts)]
      /\ summary' = None /\ grade' = grade
      /\ faults < MaxFaults /\ faults' = faults + 1
  BY DEF Grading!Misrecord
<1>3. faults' \in 0 .. MaxFaults
  BY <1>2, BoundsAssumption DEF GradingIInv, Grading!TypeOK
<1>4. QED
  BY <1>1, <1>2, <1>3, WriteLane

(* Validation and summary look at the result only.                          *)
LEMMA SameResult ==
  ASSUME rows' = rows
  PROVE  /\ Grading!ValidResult' = Grading!ValidResult
         /\ \A g : (Grading!Green(g))' = Grading!Green(g)
BY DEF Grading!ValidResult, Grading!ValidLane, Grading!Green,
   Grading!CompleteExternalExecution, Grading!External, Grading!Discriminating,
   Grading!ExpectationsMatch, Grading!LastOf, Grading!Decision

LEMMA SubmissionStep ==
  ASSUME GradingIInv, NEW confirmed, Grading!VerifySubmission(confirmed)
  PROVE  GradingIInv'
<1>1. /\ Grading!ValidResult
      /\ confirmed # None => Grading!GradeOrder(confirmed) <= Grading!GradeOrder(grade)
      /\ summary' = [confirmed |-> confirmed, green |-> Grading!Green(confirmed),
                     discriminating |-> Grading!Discriminating]
      /\ rows' = rows /\ grade' = grade /\ faults' = faults
  BY DEF Grading!VerifySubmission
<1>2. summary'.confirmed = confirmed /\ summary'.green = Grading!Green(confirmed)
  BY <1>1
<1>3. Grading!TypeOK'
  BY <1>1 DEF GradingIInv, Grading!TypeOK
<1>4. SummaryCurrent'
  BY <1>1, <1>2, SameResult DEF SummaryCurrent
<1>5. QED
  BY <1>3, <1>4 DEF GradingIInv

LEMMA GradingStep == GradingIInv /\ [Next]_vars => GradingIInv'
<1> SUFFICES ASSUME GradingIInv, [Next]_vars PROVE GradingIInv'
  OBVIOUS
<1>1. ASSUME NEW g \in Grading!ToSet(Grading!Grades), Grading!Claim(g) PROVE GradingIInv'
  BY <1>1 DEF Grading!Claim, GradingIInv, Grading!TypeOK, SummaryCurrent
<1>2. ASSUME UNCHANGED <<rows, grade, faults, summary>> PROVE GradingIInv'
  BY <1>2, SameResult DEF GradingIInv, Grading!TypeOK, SummaryCurrent
<1>3. CASE Grading!Next
  BY <1>1, <1>3, ExecuteStep, MisrecordStep, SubmissionStep DEF Grading!Next
<1>4. QED
  BY <1>2, <1>3 DEF Next, vars

(* Whatever the recorder writes, and in whatever order lanes are run again  *)
(* and grades claimed, derive_summary calls only a contained run green.     *)
THEOREM GreenRunsContained == Spec => []GradingSound
<1>1. GradingIInv => GradingSound
  BY GreenContained DEF GradingIInv, GradingSound
<1>2. QED
  BY GradingInit, GradingStep, <1>1, PTL DEF Spec
=============================================================================
