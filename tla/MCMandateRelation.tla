------------------------ MODULE MCMandateRelation ------------------------
(* A small world of records for MandateRelation.                            *)
EXTENDS MandateRelation

CONSTANTS n1, n2, g1, r1, alice, bob, key, stolen, pay, move, home

RequestAuthority(allows, expires) ==
  [request_id |-> r1, subject |-> alice, key |-> key, allows |-> allows,
   genuine |-> TRUE, issued |-> 0, starts |-> 0, expires |-> expires]

(* One that covers the payment and one that covers another action only.     *)
paying == RequestAuthority({pay}, 4)
moving == RequestAuthority({move}, 4)
MCRequestAuthorities == {paying, moving}

ExecutorAuthority(starts, allows) ==
  [subject |-> bob, action |-> pay, allows |-> allows, genuine |-> TRUE,
   issued |-> 0, starts |-> starts, expires |-> 4]

(* An early one and a later one.                                            *)
early == ExecutorAuthority(0, {pay})
late == ExecutorAuthority(1, {pay})
MCExecutorAuthorities == {early, late}

Credential(authority, k, expires) ==
  [subject |-> bob, key |-> k, audience |-> home, authority |-> authority,
   action |-> pay, genuine |-> TRUE, issued |-> 0, starts |-> 0, expires |-> expires]

(* Short-lived for the early authority; of a stolen key.                    *)
MCCredentials == {Credential(early, key, 2), Credential(late, key, 4),
                  Credential(early, stolen, 4)}

Mandate(n, request, issued, expires) ==
  [request_id |-> r1, requester |-> alice, requester_key |-> key, executor |-> bob,
   executor_key |-> key, request_authority |-> request, action |-> pay,
   audience |-> home, nonce |-> n, genuine |-> TRUE,
   issued |-> issued, starts |-> issued, expires |-> expires]

(* Two compete for n1; one outlives the short credential; one names an      *)
(* authority for another action.                                            *)
MCMandates == {Mandate(n1, paying, 0, 2), Mandate(n1, paying, 1, 3),
               Mandate(n2, paying, 1, 3), Mandate(n2, moving, 1, 2)}
=============================================================================
