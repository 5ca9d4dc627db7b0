------------------------------ MODULE MCTools ------------------------------
(* A small corpus, a few receipts and a few links for Tools.                *)
EXTENDS Tools

CONSTANTS tool, x, y, n1, n2, n3, acme, bolt, me, other, id, badge, home, away, zulu, offset

Attempt(outcome, reason, before, after) ==
  [outcome |-> outcome, reason |-> reason, before |-> before, after |-> after]

(* Effects where there should be none, counters that start late or jump, a  *)
(* rejection for another reason, nothing comparable.                        *)
MCMisreports ==
  {Attempt("succeed", "accepted", 0, 1), Attempt("reject", "mismatch", 1, 1),
   Attempt("reject", "nonce_replay", 0, 0), Attempt("reject", "mismatch", 0, 0),
   Attempt("reject", "mismatch", 0, 1), Attempt("succeed", "accepted", 1, 2),
   Attempt("non_comparable", "adapter_non_comparable", 0, 0)}

(* Times in UTC, and in one offset, whose strings sort after their instants. *)
Zulu(t) == [form |-> zulu, place |-> t, instant |-> t]
Offset(t) == [form |-> offset, place |-> t + 1, instant |-> t]

MCStamps == {Zulu(0), Zulu(1), Zulu(2), Offset(0), Offset(1)}

(* A receipt for x or y, under one nonce or another, early or late; one     *)
(* says when it expires in the other form.                                  *)
Content(v, nonce, issued_at, expires_at) ==
  [known_schema |-> TRUE, crossing |-> [f \in Fields |-> v], nonce |-> nonce,
   issued_at |-> issued_at, expires_at |-> expires_at, revoked |-> FALSE]

MCContents ==
  {Content(x, n1, Zulu(0), Zulu(1)), Content(y, n1, Zulu(1), Zulu(2)),
   Content(x, n2, Zulu(0), Offset(1)),
   [Content(x, n2, Zulu(0), Zulu(2)) EXCEPT !.revoked = TRUE],
   [Content(x, n3, Zulu(0), Zulu(2)) EXCEPT !.known_schema = FALSE]}

Link(provider, subject, types, nonce, issued_at, expires_at) ==
  [provider |-> provider, subject |-> subject, credential_types |-> types,
   audience |-> home, nonce |-> nonce, issued_at |-> issued_at,
   expires_at |-> expires_at, active |-> TRUE, genuine |-> TRUE]

(* Two providers, one subject and another, a nonce used twice, one link     *)
(* issued later, for elsewhere, withdrawn, or forged.                       *)
MCLinks ==
  {Link(acme, me, {id}, n1, 0, 1), Link(acme, me, {badge}, n2, 1, 2),
   Link(bolt, me, {badge}, n2, 0, 2), Link(bolt, me, {badge}, n3, 0, 2),
   Link(bolt, other, {badge}, n3, 0, 2),
   [Link(bolt, me, {id, badge}, n3, 0, 2) EXCEPT !.audience = away],
   [Link(bolt, me, {id}, n3, 0, 2) EXCEPT !.active = FALSE],
   [Link(bolt, me, {id}, n3, 0, 2) EXCEPT !.genuine = FALSE]}

MCRequirements ==
  {[audience |-> home, required_types |-> {id, badge}, minimum_providers |-> 2],
   [audience |-> home, required_types |-> {badge}, minimum_providers |-> 1]}
=============================================================================
