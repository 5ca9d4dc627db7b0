-------------------------- MODULE MCCrossingReplay --------------------------
(* A small world of authority artifacts and crossings for CrossingReplay.   *)
EXTENDS CrossingReplay, TLC

CONSTANTS v1, v2, iss, a1, a2, n1, n2, echo, other, m1, m2, t1, t2

FirstStage ==
  [issuer |-> iss, id |-> a1, nonce |-> n1, terms |-> echo, message |-> m1,
   stage |-> "initial", starts |-> 0, expires |-> 4]

Reissued(nonce, task) ==
  [issuer |-> iss, id |-> a1, nonce |-> nonce, terms |-> echo, message |-> m1,
   task |-> task, stage |-> "resolved", mode |-> "first_turn_reissued",
   previous |-> FirstStage, starts |-> 0, expires |-> 4]

(* The authority of a task that exists already, under a nonce of its own.   *)
Existing ==
  [issuer |-> iss, id |-> a1, nonce |-> n2, terms |-> echo, message |-> m2,
   task |-> t1, stage |-> "resolved", mode |-> "existing_task",
   previous |-> None, starts |-> 1, expires |-> 2]

(* Two reissues of one artifact, one that changes the nonce on the way.     *)
MCInitials == {FirstStage}
MCAuthorities == {Reissued(n1, t1), Reissued(n1, t2), Reissued(n2, t1), Existing}

(* A reference and a call that agree with the artifact shown.               *)
Honest(a) ==
  [digest |-> a, named |-> a.id, nonce |-> a.nonce, authority |-> a,
   initial |-> a.previous, initial_digest |-> a.previous, terms |-> a.terms,
   message |-> a.message, task |-> a.task]

(* One thing at a time substituted on the way.                              *)
Substituted ==
  LET h == Honest(Reissued(n1, t1)) IN
  {[h EXCEPT !.nonce = n2], [h EXCEPT !.task = t2], [h EXCEPT !.terms = other],
   [h EXCEPT !.digest = Existing], [h EXCEPT !.initial = None]}

MCCrossings == {Honest(a) : a \in MCAuthorities} \union Substituted

(* Profile v1 knows no stages; here one artifact, two references to it.     *)
V1Authorities == {Existing}
V1Crossings == {Honest(Existing), [Honest(Existing) EXCEPT !.nonce = n1]}

Instances == Permutations(Verifiers)
=============================================================================
