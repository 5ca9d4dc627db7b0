----------------------------- MODULE SubjectLink -----------------------------
(***************************************************************************)
(* Subject-link evidence (border/subject_link.py): signed receipts by which *)
(* a provider links its subject to a pairwise one are normalized one by     *)
(* one, and what has been collected is later evaluated against an explicit  *)
(* requirement.  A provider's signature is external.                        *)
(***************************************************************************)
EXTENDS Naturals, Sequences, FiniteSets, SequencesExt

CONSTANTS
  Links,        \* the link receipts in existence: provider, subject,
                \* credential_types, audience, nonce, issued_at, expires_at,
                \* active (the revocation status it was signed with), genuine
  Requirements, \* what implementers require: audience, required_types (not
                \* empty), minimum_providers (at least one)
  None,         \* nothing evaluated yet
  MaxClock,     \* bound: the clock stops here
  MaxItems      \* bound: evidence handed to one evaluation

VARIABLES
  evidence,  \* links normalized so far
  result,    \* the last evaluation: its items, requirement and action, or None
  clock

vars == <<evidence, result, clock>>

Actions == {"accept", "block", "escalate"}

TypeOK ==
  /\ evidence \subseteq Links
  /\ result = None \/ result.action \in Actions
  /\ clock \in 0..MaxClock

Init ==
  /\ evidence = {}
  /\ result = None
  /\ clock = 0

(* normalize_subject_link: the window is compared at its end only, so a     *)
(* link issued in the future is taken.                                      *)
Normalize(link) ==
  /\ link.genuine
  /\ link.credential_types # {}
  /\ link.issued_at < link.expires_at
  /\ clock < link.expires_at
  /\ link.active
  /\ evidence' = evidence \union {link}
  /\ UNCHANGED <<result, clock>>

SubjectsOf(items) == {items[i].subject : i \in DOMAIN items}
ProvidersOf(items) == {items[i].provider : i \in DOMAIN items}
TypesOf(items) == UNION {items[i].credential_types : i \in DOMAIN items}

(* Mutation: the receipts are counted, not who issued them.                 *)
SatisfiedByCount(items, q) ==
  q.required_types \subseteq TypesOf(items) /\ Len(items) >= q.minimum_providers

Satisfied(items, q) ==
  /\ q.required_types \subseteq TypesOf(items)
  /\ Cardinality(ProvidersOf(items)) >= q.minimum_providers

(* No receipt twice, and no two receipts with one nonce.                    *)
NoncesDiffer(items) ==
  \A i, j \in DOMAIN items : items[i].nonce = items[j].nonce => i = j

(* Neither the clock nor the revocation status is looked at again.          *)
Action(items, q) ==
  LET blocked == \/ \E i \in DOMAIN items : items[i].audience # q.audience
                 \/ Cardinality(SubjectsOf(items)) # 1
                 \/ ~NoncesDiffer(items)
  IN CASE items = <<>> -> "escalate"
       [] items # <<>> /\ blocked -> "block"
       [] items # <<>> /\ ~blocked ->
            IF Satisfied(items, q) THEN "accept" ELSE "escalate"

(* evaluate_subject_requirement, on any collection of normalized evidence.  *)
Evaluate(items, q) ==
  /\ result' = [items |-> items, requirement |-> q, action |-> Action(items, q)]
  /\ UNCHANGED <<evidence, clock>>

Tick ==
  /\ clock < MaxClock
  /\ clock' = clock + 1
  /\ UNCHANGED <<evidence, result>>

Next ==
  \/ \E link \in Links : Normalize(link)
  \/ \E items \in BoundedSeq(evidence, MaxItems), q \in Requirements : Evaluate(items, q)
  \/ Tick

Spec == Init /\ [][Next]_vars

-----------------------------------------------------------------------------
(* An acceptance rests on enough providers: among the receipts handed in,   *)
(* one each of as many different providers as were required, all signed,    *)
(* active, for this audience, under nonces of their own and linking one     *)
(* subject, and between all handed in every required type.  Copies, several *)
(* receipts of one provider, or receipts about others add nothing.          *)
AcceptedSubjectLinked ==
  result # None /\ result.action = "accept" =>
    LET items == result.items
        q == result.requirement
    IN \E chosen \in SUBSET (DOMAIN items) :
         /\ Cardinality(chosen) = Cardinality({items[i].provider : i \in chosen})
         /\ Cardinality(chosen) >= q.minimum_providers
         /\ \A i, j \in chosen : /\ items[i].subject = items[j].subject
                                 /\ items[i].nonce = items[j].nonce => i = j
         /\ \A i \in chosen : /\ items[i].genuine /\ items[i].active
                              /\ items[i].issued_at < items[i].expires_at
                              /\ items[i].audience = q.audience
         /\ q.required_types \subseteq TypesOf(items)
=============================================================================
