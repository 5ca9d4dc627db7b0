--------------------------- MODULE MCEchoSandbox ---------------------------
(* Small instances of EchoSandbox for TLC.                                  *)
EXTENDS EchoSandbox, TLC

CONSTANTS w1, w2, w3, p1, p2, t1, t2, t3, c1, g1, g2, alice, bob, i1, i2, x, y

Token(jti, identity, exp) ==
  [jti |-> jti, client_id |-> c1, identity |-> identity, nbf |-> 0, exp |-> exp]

(* t2 is the grant of t1 in another identity's hands, t3 is another grant.  *)
MCClaims == t1 :> Token(g1, alice, 2) @@ t2 :> Token(g1, bob, 2)
            @@ t3 :> Token(g2, alice, 3)

Request(t, i, a) == [token |-> t, id |-> i, arguments |-> a]

(* The valid request and every substitution of it a retry can attempt.      *)
Original == Request(t1, i1, x)
OtherArguments == Request(t1, i1, y)
OtherIdentity == Request(t2, i1, x)
OtherNamespace == Request(t1, i2, x)
OtherGrant == Request(t3, i1, x)

SubstitutedRequests == {Original, OtherArguments, OtherIdentity, OtherNamespace}
AllRequests == SubstitutedRequests \union {OtherGrant}
ContendingRequests == {Original, OtherNamespace}
RacingRequests == {Original, OtherNamespace, OtherGrant}

(* Two sibling threads of one process, and with w3 a thread of another.     *)
OneProcess == w1 :> p1 @@ w2 :> p1
TwoProcesses == OneProcess @@ w3 :> p2

Siblings == Permutations({w1, w2})

=============================================================================
