-------------------------- MODULE MandateRelation --------------------------
(***************************************************************************)
(* Authorized invocation (border/mandate_adapter.py).  A mandate transfers  *)
(* no authority: the requester must be allowed to request the exact action  *)
(* and the executor, independently, to execute it.  normalize binds both    *)
(* paths into one relation; later a Gate checks the relation again, asking  *)
(* four issuers one after the other whether their record still stands.      *)
(*                                                                         *)
(* A digest stands for its document, so a mandate names its request         *)
(* authority and a credential its executor authority by value.  External:   *)
(* the signature schemes (genuine; a relation reaches the Gate only if      *)
(* Border issued it), the issuers' revocation lists, the clock.             *)
(***************************************************************************)
EXTENDS Naturals, FiniteSets

CONSTANTS
  Mandates, RequestAuthorities, ExecutorAuthorities, Credentials, Actions,
  Nonces, RequestIds, Parties, Keys, Audiences,
  Audience,      \* the audience Border and the Gate are configured with
  Gates,         \* the callers of verify_mandate_gate_context
  None,
  MaxClock,      \* bound: the clock stops here
  MaxRestarts,   \* bound: how often the adapter's process is restarted
  MaxRevoked     \* bound: how many records are revoked

Windowed(r) == r.issued \in Nat /\ r.starts \in Nat /\ r.expires \in Nat

Records == Mandates \union RequestAuthorities
             \union ExecutorAuthorities \union Credentials

ASSUME RecordsAssumption ==
  /\ \A r \in Records : Windowed(r) /\ r.genuine \in BOOLEAN
  /\ \A m \in Mandates :
       /\ m.request_id \in RequestIds /\ m.audience \in Audiences
       /\ m.requester \in Parties /\ m.requester_key \in Keys
       /\ m.executor \in Parties /\ m.executor_key \in Keys
       /\ m.request_authority \in RequestAuthorities
       /\ m.action \in Actions /\ m.nonce \in Nonces
  /\ \A a \in RequestAuthorities :
       /\ a.request_id \in RequestIds /\ a.subject \in Parties
       /\ a.key \in Keys /\ a.allows \subseteq Actions
  /\ \A a \in ExecutorAuthorities :
       /\ a.subject \in Parties /\ a.action \in Actions /\ a.allows \subseteq Actions
  /\ \A c \in Credentials :
       /\ c.subject \in Parties /\ c.key \in Keys /\ c.audience \in Audiences
       /\ c.authority \in ExecutorAuthorities /\ c.action \in Actions

ASSUME BoundsAssumption == MaxClock \in Nat /\ MaxRestarts \in Nat /\ MaxRevoked \in Nat

Materials == [mandate : Mandates, request : RequestAuthorities,
              executor : ExecutorAuthorities, credential : Credentials,
              action : Actions]

Relations == [material : Materials, issued_at : Nat, epoch : Nat]

ASSUME NoneAssumption == None \notin Relations \union Nat

-----------------------------------------------------------------------------
(* What normalize verifies.  A status other than active and a decision      *)
(* other than allow are an empty "allows" (or a record that is not genuine). *)

Active(r, now) == r.issued <= r.starts /\ r.starts <= now /\ now < r.expires

RequestPath(t, now) ==
  LET a == t.request
      m == t.mandate
  IN /\ a.genuine /\ Active(a, now)
     /\ a.request_id = m.request_id
     /\ a.subject = m.requester /\ a.key = m.requester_key
     /\ m.request_authority = a
     /\ t.action \in a.allows

ExecutorPath(t, now) ==
  LET a == t.executor
      c == t.credential
      m == t.mandate
  IN /\ a.genuine /\ Active(a, now)
     /\ a.subject = m.executor
     /\ a.action = t.action /\ t.action \in a.allows
     /\ c.genuine /\ Active(c, now)
     /\ c.audience = Audience
     /\ c.subject = m.executor /\ c.key = m.executor_key
     /\ c.authority = a /\ c.action = t.action

Paths(t) == {t.request, t.executor, t.credential}

(* Mutation: only the requester's and the executor's authority cap the      *)
(* mandate, not the credential.                                             *)
MandateWindowOfAuthorities(t, now) ==
  LET m == t.mandate IN
  /\ m.issued <= m.starts /\ m.starts <= now /\ now < m.expires
  /\ \A p \in {t.request, t.executor} : p.starts <= m.issued /\ m.expires <= p.expires

(* effective_start and effective_expiry are the maximum of the paths'       *)
(* starts and the minimum of their expiries.                                *)
MandateWindow(t, now) ==
  LET m == t.mandate IN
  /\ m.issued <= m.starts /\ m.starts <= now /\ now < m.expires
  /\ \A p \in Paths(t) : p.starts <= m.issued /\ m.expires <= p.expires

Verified(t, now) ==
  /\ t.mandate.genuine
  /\ t.mandate.audience = Audience
  /\ t.mandate.action = t.action
  /\ RequestPath(t, now)
  /\ ExecutorPath(t, now)
  /\ MandateWindow(t, now)

-----------------------------------------------------------------------------
VARIABLES
  registry,   \* _receipts of this life of the adapter: nonce -> relation or None
  relations,  \* every relation handed out, over all lives
  gates,      \* per caller: the Gate check in flight, or None
  passed,     \* the last check that returned, and the moment it is for, or None
  revoked,    \* the issuers' lists: when each record was revoked, or None
  clock,
  epoch       \* which life of the adapter this is

vars == <<registry, relations, gates, passed, revoked, clock, epoch>>

(* Mutation: the executor's authority is asked for twice, its credential    *)
(* never.                                                                   *)
AskedAuthorityTwice(t, i) ==
  CASE i = 1 -> t.mandate
    [] i = 2 -> t.request
    [] OTHER -> t.executor

(* The four records in the order the Gate asks for them.                    *)
Asked(t, i) ==
  CASE i = 1 -> t.mandate
    [] i = 2 -> t.request
    [] i = 3 -> t.executor
    [] OTHER -> t.credential

Checks == [relation : Relations, at : Nat, answered : 0 .. 3]

ASSUME NoneIsNoCheck == None \notin Checks

TypeOK ==
  /\ registry \in [Nonces -> Relations \union {None}]
  /\ relations \subseteq Relations
  /\ gates \in [Gates -> Checks \union {None}]
  /\ passed \in [relation : Relations, at : Nat] \union {None}
  /\ revoked \in [Records -> Nat \union {None}]
  /\ clock \in Nat
  /\ epoch \in Nat

Init ==
  /\ registry = [n \in Nonces |-> None]
  /\ relations = {}
  /\ gates = [g \in Gates |-> None]
  /\ passed = None
  /\ revoked = [r \in Records |-> None]
  /\ clock = 0
  /\ epoch = 0

(* The nonce is looked up after every other check.  A nonce in the registry *)
(* gets its old relation back for the same material, an error for any other *)
(* (neither changes state); a failed check raises and spends nothing.       *)
NonceFreeAlways(n) == TRUE
NonceFree(n) == registry[n] = None

Normalize(t) ==
  LET relation == [material |-> t, issued_at |-> clock, epoch |-> epoch] IN
  /\ Verified(t, clock)
  /\ NonceFree(t.mandate.nonce)
  /\ registry' = [registry EXCEPT ![t.mandate.nonce] = relation]
  /\ relations' = relations \union {relation}
  /\ UNCHANGED <<gates, passed, revoked, clock, epoch>>

(* The Gate's own reading of the clock, before anybody is asked.            *)
RelationActive(relation, now) ==
  LET m == relation.material.mandate IN
  /\ m.starts <= relation.issued_at
  /\ relation.issued_at <= now
  /\ now < m.expires

(* verify_mandate_gate_context up to the field comparison: the four         *)
(* documents and the candidate action are those of the relation.            *)
GateBegin(g, relation, t) ==
  /\ gates[g] = None
  /\ RelationActive(relation, clock)
  /\ t = relation.material
  /\ gates' = [gates EXCEPT
                 ![g] = [relation |-> relation, at |-> clock, answered |-> 0]]
  /\ UNCHANGED <<registry, relations, passed, revoked, clock, epoch>>

IsCurrent(r) == revoked[r] = None

(* One *_is_current callback; the answer of the fourth ends the check.      *)
GateAsk(g) ==
  /\ gates[g] # None
  /\ LET check == gates[g]
         current == IsCurrent(Asked(check.relation.material, check.answered + 1))
         last == check.answered = 3
     IN /\ gates' = [gates EXCEPT
                       ![g] = IF current /\ ~last
                              THEN [check EXCEPT !.answered = @ + 1] ELSE None]
        /\ passed' = IF current /\ last
                     THEN [relation |-> check.relation, at |-> check.at]
                     ELSE passed
  /\ UNCHANGED <<registry, relations, revoked, clock, epoch>>

(* The environment.                                                         *)
Revoke(r) ==
  /\ revoked[r] = None
  /\ Cardinality({q \in Records : revoked[q] # None}) < MaxRevoked
  /\ revoked' = [revoked EXCEPT ![r] = clock]
  /\ UNCHANGED <<registry, relations, gates, passed, clock, epoch>>

Tick ==
  /\ clock < MaxClock
  /\ clock' = clock + 1
  /\ UNCHANGED <<registry, relations, gates, passed, revoked, epoch>>

(* The nonce registry is process-local; the Gate is another process.        *)
Restart ==
  /\ epoch < MaxRestarts
  /\ epoch' = epoch + 1
  /\ registry' = [n \in Nonces |-> None]
  /\ UNCHANGED <<relations, gates, passed, revoked, clock>>

Next ==
  \/ \E t \in Materials : Normalize(t)
  \/ \E g \in Gates, relation \in relations, t \in Materials :
       GateBegin(g, relation, t)
  \/ \E g \in Gates : GateAsk(g)
  \/ \E r \in Records : Revoke(r)
  \/ Tick
  \/ Restart

Spec == Init /\ [][Next]_vars

-----------------------------------------------------------------------------
(* Properties.                                                              *)

(* When the Gate passes, there was one moment, the one its clock showed, at *)
(* which mandate, both authorities and the credential stood together: each  *)
(* inside its window and none revoked, though the Gate compares only the    *)
(* relation's own window, asks for the four records one after the other     *)
(* while revocations arrive, and the other windows were last looked at by   *)
(* normalize.  And both paths allow the very action on their own: neither   *)
(* stands in for the other.                                                 *)
PassWarranted ==
  passed # None =>
    LET t == passed.relation.material IN
    /\ \A r \in Paths(t) \union {t.mandate} :
         /\ Active(r, passed.at)
         /\ revoked[r] # None => passed.at <= revoked[r]
    /\ t.action \in t.request.allows \intersect t.executor.allows
    /\ t.request.subject = t.mandate.requester
    /\ t.executor.subject = t.mandate.executor
    /\ t.credential.key = t.mandate.executor_key

(* In one life of the adapter a nonce stands for one mandate, one pair of   *)
(* paths and one moment of issue, whatever is offered again, substituted or *)
(* retried; the registry is process-local, a later life starts anew         *)
(* (schema/authorized_invocation.md).                                       *)
OneRelationPerNonce ==
  \A r, q \in relations :
    /\ r.epoch = q.epoch
    /\ r.material.mandate.nonce = q.material.mandate.nonce
    => r = q

-----------------------------------------------------------------------------
(* The inductive invariant.                                                 *)

RelationsVerified ==
  \A r \in relations :
    /\ Verified(r.material, r.issued_at)
    /\ r.issued_at <= clock
    /\ r.epoch <= epoch

RegistryComplete ==
  /\ \A n \in Nonces :
       registry[n] # None =>
         /\ registry[n] \in relations
         /\ registry[n].epoch = epoch
         /\ registry[n].material.mandate.nonce = n
  /\ \A r \in relations :
       r.epoch = epoch => registry[r.material.mandate.nonce] = r

(* Records answered for so far were unrevoked when the check began.         *)
GatesSound ==
  \A g \in Gates :
    gates[g] # None =>
      LET check == gates[g]
          t == check.relation.material
      IN /\ check.relation \in relations
         /\ RelationActive(check.relation, check.at)
         /\ check.at <= clock
         /\ \A i \in 1 .. check.answered :
              revoked[Asked(t, i)] # None => check.at <= revoked[Asked(t, i)]

PassInThePast == passed # None => passed.at <= clock

IInv ==
  /\ TypeOK
  /\ RelationsVerified
  /\ RegistryComplete
  /\ GatesSound
  /\ PassInThePast
  /\ OneRelationPerNonce
  /\ PassWarranted
=============================================================================
