---------------------------- MODULE Underwriting ----------------------------
(***************************************************************************)
(* Underwriting answers from admission evidence (border/underwriting.py).   *)
(* assess is handed an admission receipt and, for each document the receipt *)
(* bound, whatever the client kept: the document, another one, or nothing.  *)
(* It answers ten questions, deriving digests again where it relies on a    *)
(* document.  It verifies no stamp: the receipts here are Border's own      *)
(* (external: the broker's check of the signature).                         *)
(*                                                                         *)
(* A runtime policy carries the digest of its other fields, and it is that  *)
(* digest which admit records; so the policy is supplied in one of two      *)
(* forms, whole as it was admitted or bare without that field.              *)
(***************************************************************************)
EXTENDS Admission

SuppliedPolicies == [policy : Policies, bare : BOOLEAN]

Bundles == [receipt : Receipts, declaration : Declarations \union {None},
            authority : Authorities \union {None},
            policy : SuppliedPolicies \union {None},
            control : Controls \union {None}]

Direct == {"UW-02", "UW-03", "UW-06", "UW-07", "UW-10"}
Partial == {"UW-01", "UW-04", "UW-09"}
NotCovered == {"UW-05", "UW-08"}

(* control_mode of the receipt, from admit and _validate_control.           *)
ControlMode(receipt) ==
  LET c == receipt.attempt.control IN
  CASE c = None -> "autonomous"
    [] c # None /\ c.mode = "approval" -> "human_approved"
    [] c # None /\ c.mode = "override" -> "human_overridden"
    [] OTHER -> "human_operated"

(* Mutation: a digest the receipt lacks is taken as matching.               *)
BoundUnlessRecorded(recorded, supplied) ==
  supplied # None /\ (recorded = None \/ supplied = recorded)

(* The receipt recorded a digest, a document was supplied, and they agree.  *)
Bound(recorded, supplied) == recorded # None /\ supplied = recorded

(* policy_digest of the receipt is that of the policy without its own       *)
(* digest; what is compared with it is the digest of all that was supplied. *)
PolicyBound(receipt, supplied) ==
  Bound([policy |-> receipt.attempt.policy, bare |-> TRUE], supplied)

(* _chain: subject, principal and delegation agree over the receipt and the *)
(* documents supplied; whose request it was is not compared.                *)
ChainConsistent(b) ==
  LET admitted == b.receipt.attempt.declaration IN
  \A d \in {b.declaration, b.authority} \ {None} :
    d.subject = admitted.subject /\ d.delegation = admitted.delegation

(* UW-06: the declaration, the authority and the policy are all bound.      *)
ControlsAnswered(b) ==
  LET att == b.receipt.attempt IN
  /\ Bound(att.declaration, b.declaration)
  /\ Bound(att.authority, b.authority)
  /\ PolicyBound(b.receipt, b.policy)

(* UW-10: the human event is bound, or the receipt says there was none.     *)
AccountabilityAnswered(b) ==
  IF b.control = None THEN ControlMode(b.receipt) = "none"
                      ELSE Bound(b.receipt.attempt.control, b.control)

(* UW-01 and UW-04 read a declaration nobody compares with the receipt, and *)
(* UW-07 compares identifiers only.                                         *)
Answered(q, b) ==
  \/ q \in {"UW-01", "UW-04"} /\ b.declaration # None
  \/ q \in {"UW-02", "UW-03"} /\ PolicyBound(b.receipt, b.policy)
  \/ q = "UW-06" /\ ControlsAnswered(b)
  \/ q = "UW-07" /\ ChainConsistent(b)
  \/ q = "UW-09"
  \/ q = "UW-10" /\ AccountabilityAnswered(b)

Assess(b) == [q \in Direct \union Partial \union NotCovered |-> Answered(q, b)]

-----------------------------------------------------------------------------
(* Properties.                                                              *)

Bundle(r, d, a, p, c) ==
  [receipt |-> r, declaration |-> d, authority |-> a, policy |-> p, control |-> c]

(* What a broker may conclude from a direct answer, whatever documents were *)
(* kept, withheld or edited after the admission, is true of the admission   *)
(* itself: UW-06, the supplied documents were an effective permit when the  *)
(* receipt was issued; UW-02, nothing went ahead autonomously under a       *)
(* policy that requires approval; UW-10, the named human was empowered to   *)
(* intervene in this request, of this subject, for this action.             *)
AnswersTrueOfAdmission ==
  \A r \in receipts :
    /\ \A d \in Declarations, a \in Authorities, p \in SuppliedPolicies :
         Assess(Bundle(r, d, a, p, None))["UW-06"] =>
           Permitted([declaration |-> d, authority |-> a, policy |-> p.policy,
                      control |-> r.attempt.control], r.issued_at)
    /\ \A p \in SuppliedPolicies :
         Assess(Bundle(r, None, None, p, None))["UW-02"]
           /\ p.policy.requires_human_approval => ControlMode(r) # "autonomous"
    /\ \A c \in Controls :
         Assess(Bundle(r, None, None, None, c))["UW-10"] =>
           /\ c.genuine /\ c.empowered
           /\ c.request = r.attempt.declaration.request
           /\ c.subject = r.attempt.declaration.subject
           /\ c.action = r.attempt.declaration.action

(* The very documents admit was given for a receipt.                        *)
CompleteEvidence(r) ==
  LET att == r.attempt IN
  Bundle(r, att.declaration, att.authority,
         [policy |-> att.policy, bare |-> FALSE], att.control)

(* underwriting.py: a direct question left unanswered means the evidence    *)
(* was incomplete.  Complete evidence breaks it: the whole policy never has *)
(* the recorded digest, and "autonomous" is not "none".                     *)
CompleteEvidenceAnswers ==
  \A r \in receipts, q \in Direct : Assess(CompleteEvidence(r))[q]

(* What complete evidence does answer, no more and no less: whose authority *)
(* it was, and who intervened if somebody did.                              *)
CompleteEvidenceAnswersOnly ==
  \A r \in receipts :
    {q \in Direct : Assess(CompleteEvidence(r))[q]} =
      {"UW-07"} \union IF r.attempt.control = None THEN {} ELSE {"UW-10"}
=============================================================================
