---------------------------- MODULE MCAdmission ----------------------------
(* A small world of documents for Admission and Underwriting.               *)
EXTENDS Underwriting

CONSTANTS n1, n2, q1, q2, agent, d1, d2, pay, move, home, v1, v2, errand, other

Declare(n, delegation, action, purpose, starts, expires) ==
  [nonce |-> n, request |-> q1, subject |-> agent, delegation |-> delegation,
   action |-> action, audience |-> home, purpose |-> purpose,
   created |-> 0, starts |-> starts, expires |-> expires]

(* Two declarations compete for n1; one of n2, for the same request under   *)
(* another delegation, opens later and lives longer.                        *)
MCDeclarations ==
  {Declare(n1, d1, pay, errand, 0, 1), Declare(n1, d1, move, errand, 0, 2),
   Declare(n2, d2, pay, other, 1, 3)}

Authority(delegation, action, expires) ==
  [request |-> q1, subject |-> agent, delegation |-> delegation,
   action |-> action, genuine |-> TRUE, allows |-> TRUE,
   starts |-> 0, expires |-> expires]

(* One for each declaration: outliving it, or expiring before it does.      *)
MCAuthorities ==
  {Authority(d1, pay, 2), Authority(d1, move, 1), Authority(d2, pay, 2)}

RuntimePolicy(version, routes, approval, override) ==
  [version |-> version, audience |-> home, routes |-> routes,
   requires_human_approval |-> approval, override_permitted |-> override,
   sealed |-> TRUE]

(* A route for one action, with override permitted; approval required and   *)
(* no override.                                                             *)
MCPolicies ==
  {RuntimePolicy(v1, {move}, FALSE, TRUE), RuntimePolicy(v2, {pay, move}, TRUE, FALSE)}

Control(mode, request, version, empowered, expires) ==
  [mode |-> mode, request |-> request, subject |-> agent, action |-> pay,
   version |-> version, genuine |-> TRUE, empowered |-> empowered,
   starts |-> 0, expires |-> expires]

(* An approval that soon lapses, overrides under either version, and the    *)
(* approvals of a human who may not give one and of one who gave it to      *)
(* another request.                                                         *)
MCControls ==
  {Control("approval", q1, v2, TRUE, 1), Control("override", q1, v1, TRUE, 3),
   Control("override", q1, v2, TRUE, 3), Control("approval", q1, v2, FALSE, 3),
   Control("approval", q2, v2, TRUE, 3)}

(* Open routes: no policy demands a human, controls may still be shown.     *)
OpenPolicies == {RuntimePolicy(v1, {pay, move}, FALSE, FALSE),
                 RuntimePolicy(v2, {pay}, FALSE, FALSE)}
=============================================================================
