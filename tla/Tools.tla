------------------------------- MODULE Tools -------------------------------
(* The three verifiers that are used by themselves, one per behaviour.      *)
EXTENDS Naturals, Integers, FiniteSets

CONSTANTS
  None, MaxClock,
  Controls, Mutations, Replay, Misreports, MaxFaults,
  Contents, Stamps, Fields, Values, Nonces, MaxMinted,
  Links, Requirements, MaxItems

(* Bound fields of a crossing receipt; a missing signature is none of them. *)
ASSUME ContentsAssumption ==
  /\ None \notin Contents
  /\ \A c \in Contents : /\ c.nonce \in Nonces /\ c.revoked \in BOOLEAN
                         /\ c.issued_at \in Stamps /\ c.expires_at \in Stamps

(* Timestamps written in one form sort as strings the way they do in time.  *)
ASSUME StampsAssumption ==
  /\ \A s \in Stamps : s.place \in Nat /\ s.instant \in Nat
  /\ \A s, t \in Stamps :
       s.form = t.form => (s.place <= t.place <=> s.instant <= t.instant)

(* A requirement asks for a number of providers, at least one.              *)
ASSUME RequirementsAssumption ==
  \A q \in Requirements : q.minimum_providers \in Nat \ {0}

ASSUME BoundsAssumption ==
  {MaxClock, MaxFaults, MaxMinted, MaxItems} \subseteq Nat

VARIABLES rows, grade, faults, summary,
          minted, seen_nonces, accepted,
          evidence, result,
          clock, running

vars == <<rows, grade, faults, summary, minted, seen_nonces, accepted,
          evidence, result, clock, running>>

Grading == INSTANCE ConformanceGrading
Receipt == INSTANCE CrossingReceipt
Subject == INSTANCE SubjectLink

(* The corpus has controls, and every case is of one kind; a recorder       *)
(* writes attempts of the schema's form.                                    *)
ASSUME CorpusAssumption ==
  /\ Controls # {} /\ Controls \intersect Mutations = {}
  /\ Replay \notin Controls \union Mutations
  /\ Misreports \subseteq Grading!Attempts
  /\ None \notin Grading!IndependentGrades

Init ==
  /\ running \in {"grading", "receipt", "subject"}
  /\ Grading!Init /\ Receipt!Init /\ Subject!Init

Next ==
  /\ UNCHANGED running
  /\ \/ running = "grading" /\ Grading!Next
        /\ UNCHANGED <<minted, seen_nonces, accepted, evidence, result, clock>>
     \/ running = "receipt" /\ Receipt!Next
        /\ UNCHANGED <<rows, grade, faults, summary, evidence, result>>
     \/ running = "subject" /\ Subject!Next
        /\ UNCHANGED <<rows, grade, faults, summary, minted, seen_nonces,
                       accepted>>

Spec == Init /\ [][Next]_vars

-----------------------------------------------------------------------------
(* A green summary of a corpus run means that the bound lane let through    *)
(* exactly what it should (run.py derive_summary).                          *)
GradingSound == Grading!TypeOK /\ Grading!GreenMeansContained

(* A crossing receipt is accepted at most once, and only as it was minted   *)
(* (crossing_receipt.py verify).                                            *)
ReceiptSound == Receipt!TypeOK /\ Receipt!AcceptedOnceAsMinted

(* An accepted subject is linked by enough different providers              *)
(* (subject_link.py evaluate_subject_requirement).                          *)
SubjectSound == Subject!TypeOK /\ Subject!AcceptedSubjectLinked
=============================================================================
