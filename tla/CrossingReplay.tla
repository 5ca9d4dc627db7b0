--------------------------- MODULE CrossingReplay ---------------------------
(***************************************************************************)
(* The reference verifiers of the A2A-to-MCP crossing profiles, running in  *)
(* several processes over one SQLite replay store                           *)
(* (conformance/a2a-mcp-crossing-v1 and -v2, runner/reference.py).  A       *)
(* verifier checks everything against the moment it was handed, then spends *)
(* the replay identity in BEGIN IMMEDIATE ... COMMIT; on success its host   *)
(* dispatches the MCP effect (external).  Hosts crash; an issuer revokes,   *)
(* and publishes status documents that are carried to verifiers at leisure. *)
(*                                                                          *)
(* A digest stands for the document.  "terms" are the fields an authority   *)
(* and its reissue share with the call observed: requester, audience,       *)
(* action digest, status_ref.  "task" is task_id with context_id.           *)
(***************************************************************************)
EXTENDS Naturals, FiniteSets

CONSTANTS
  Verifiers,
  Authorities,    \* resolved authority artifacts in existence
  Initials,       \* initial-stage artifacts in existence
  Crossings,      \* what a verifier may be shown: reference, documents, call
  Issuers, Ids, Nonces, Terms, Messages, Tasks,
  SecondProfile,  \* TRUE: profile v2, FALSE: profile v1
  MaxStatusAge,   \* MAX_STATUS_AGE_SECONDS
  None,           \* absent evidence, no writer, not revoked
  MaxClock,       \* bound: the clock stops here
  MaxCrashes      \* bound: number of host crashes

Modes == {"first_turn_reissued", "existing_task"}
Stages == {"initial", "resolved"}

Keys == [issuer : Issuers \union {None}, id : Ids \union {None}, nonce : Nonces]

ASSUME DocumentsAssumption ==
  /\ Initials \subseteq
       [issuer : Issuers, id : Ids, nonce : Nonces, terms : Terms,
        message : Messages, stage : Stages, starts : Nat, expires : Nat]
  /\ Authorities \subseteq
       [issuer : Issuers, id : Ids, nonce : Nonces, terms : Terms,
        message : Messages, task : Tasks, stage : Stages, mode : Modes,
        previous : Initials \union {None}, starts : Nat, expires : Nat]
  /\ Crossings \subseteq
       [digest : Authorities, named : Ids, nonce : Nonces, authority : Authorities,
        initial : Initials \union {None}, initial_digest : Initials \union {None},
        terms : Terms, message : Messages, task : Tasks]

ASSUME BoundsAssumption ==
  /\ SecondProfile \in BOOLEAN
  /\ MaxStatusAge \in Nat /\ MaxClock \in Nat /\ MaxCrashes \in Nat

ASSUME NoneAssumption ==
  None \notin Verifiers \union Issuers \union Ids \union Initials \union Nat

VARIABLES
  consumed,   \* table: the replay identities spent
  writer,     \* the verifier inside BEGIN IMMEDIATE, or None
  pc,         \* where each verifier is
  call,       \* the crossing it was shown, with the status and moment it used
  statuses,   \* status documents published
  revoked,    \* when the issuer revoked each authority id, or None
  effects,    \* history: MCP effects dispatched, one record each
  clock,
  crashes

vars == <<consumed, writer, pc, call, statuses, revoked, effects, clock, crashes>>

Statuses == [id : Ids, observed_at : Nat, current : BOOLEAN]

Calls == [crossing : Crossings, status : Statuses, now : Nat]

Steps == {"idle", "checked", "inserting", "accepted"}

TypeOK ==
  /\ consumed \subseteq Keys
  /\ writer \in Verifiers \union {None}
  /\ pc \in [Verifiers -> Steps]
  /\ call \in [Verifiers -> Calls \union {None}]
  /\ statuses \subseteq Statuses
  /\ revoked \in [Ids -> Nat \union {None}]
  /\ effects \subseteq [number : Nat, call : Calls]
  /\ IsFiniteSet(effects)
  /\ clock \in Nat
  /\ crashes \in Nat

Init ==
  /\ consumed = {}
  /\ writer = None
  /\ pc = [v \in Verifiers |-> "idle"]
  /\ call = [v \in Verifiers |-> None]
  /\ statuses = {}
  /\ revoked = [i \in Ids |-> None]
  /\ effects = {}
  /\ clock = 0
  /\ crashes = 0

-----------------------------------------------------------------------------
(* The checks of verify, in profile v1 and in profile v2.                   *)

Within(a, now) == a.starts <= now /\ now < a.expires

(* The reference names this artifact; the call observed is the one it binds. *)
ReferenceMatches(c) == c.digest = c.authority /\ c.named = c.authority.id

ObservationMatches(c) ==
  /\ c.terms = c.authority.terms
  /\ c.task = c.authority.task

ChecksV1(c, st, now) ==
  /\ ReferenceMatches(c)
  /\ ObservationMatches(c)
  /\ Within(c.authority, now)
  /\ st.id = c.authority.id
  /\ st.current

(* First turn: the resolved artifact reissues the initial one, whose terms  *)
(* it may not change.  Existing task: no staged evidence at all.            *)
ImmutableButNonce(a) == <<a.issuer, a.id, a.terms, a.starts, a.expires>>
Immutable(a) == <<a.issuer, a.id, a.nonce, a.terms, a.starts, a.expires>>

StagesLinked(c) ==
  LET a == c.authority
      i == c.initial
  IN /\ a.stage = "resolved"
     /\ \/ /\ a.mode = "first_turn_reissued"
           /\ i # None
           /\ c.initial_digest = i
           /\ i.stage = "initial"
           /\ a.previous = i
           /\ a.message = i.message
           /\ Immutable(a) = Immutable(i)
        \/ /\ a.mode = "existing_task"
           /\ i = None /\ c.initial_digest = None
           /\ a.previous = None

StatusFreshAnyAge(st, now) == st.observed_at <= now
StatusFresh(st, now) ==
  st.observed_at <= now /\ now - st.observed_at <= MaxStatusAge

ChecksV2(c, st, now) ==
  /\ ChecksV1(c, st, now)
  /\ c.message = c.authority.message
  /\ StagesLinked(c)
  /\ StatusFresh(st, now)

Checks(c, st, now) ==
  IF SecondProfile THEN ChecksV2(c, st, now) ELSE ChecksV1(c, st, now)

(* What is spent: in v1 the reference's nonce, in v2 issuer, authority id   *)
(* and the authority's own nonce.                                           *)
ReplayKeyV1(c) == [issuer |-> None, id |-> None, nonce |-> c.nonce]

ReplayKeyV2OfReference(c) ==
  [issuer |-> c.authority.issuer, id |-> c.authority.id, nonce |-> c.nonce]
ReplayKeyV2(c) ==
  [issuer |-> c.authority.issuer, id |-> c.authority.id,
   nonce |-> c.authority.nonce]

ReplayKey(c) == IF SecondProfile THEN ReplayKeyV2(c) ELSE ReplayKeyV1(c)

-----------------------------------------------------------------------------
(* One call of verify.                                                      *)

Goto(v, step) == pc' = [pc EXCEPT ![v] = step]

Return(v) ==
  /\ Goto(v, "idle")
  /\ call' = [call EXCEPT ![v] = None]

(* Every check, against the moment the call was handed; else a rejection.   *)
Verify(v, c, st) ==
  /\ pc[v] = "idle"
  /\ IF Checks(c, st, clock)
     THEN /\ Goto(v, "checked")
          /\ call' = [call EXCEPT ![v] = [crossing |-> c, status |-> st, now |-> clock]]
     ELSE UNCHANGED <<pc, call>>
  /\ UNCHANGED <<consumed, writer, statuses, revoked, effects, clock, crashes>>

(* consume: BEGIN IMMEDIATE, unless another verifier is inside.             *)
Begin(v) ==
  /\ pc[v] = "checked"
  /\ writer = None
  /\ writer' = v
  /\ Goto(v, "inserting")
  /\ UNCHANGED <<consumed, call, statuses, revoked, effects, clock, crashes>>

(* The lock is not free within five seconds: the exception leaves verify.   *)
Busy(v) ==
  /\ pc[v] = "checked"
  /\ writer # None
  /\ Return(v)
  /\ UNCHANGED <<consumed, writer, statuses, revoked, effects, clock, crashes>>

(* The primary key of the table.                                            *)
KeyFreeAlways(k) == TRUE
KeyFree(k) == k \notin consumed

(* consume: INSERT and COMMIT, or ROLLBACK and a nonce_replay rejection.    *)
Insert(v) ==
  LET k == ReplayKey(call[v].crossing) IN
  /\ pc[v] = "inserting"
  /\ writer' = None
  /\ IF KeyFree(k)
     THEN consumed' = consumed \union {k} /\ Goto(v, "accepted") /\ UNCHANGED call
     ELSE UNCHANGED consumed /\ Return(v)
  /\ UNCHANGED <<statuses, revoked, effects, clock, crashes>>

(* The host of an accepting verifier dispatches the tool call (external).   *)
Dispatch(v) ==
  /\ pc[v] = "accepted"
  /\ effects' = effects \union {[number |-> Cardinality(effects), call |-> call[v]]}
  /\ Return(v)
  /\ UNCHANGED <<consumed, writer, statuses, revoked, clock, crashes>>

(* A host dies: SQLite undoes an open transaction, keeps a committed one.   *)
Crash(v) ==
  /\ crashes < MaxCrashes
  /\ pc[v] # "idle"
  /\ crashes' = crashes + 1
  /\ writer' = IF writer = v THEN None ELSE writer
  /\ Return(v)
  /\ UNCHANGED <<consumed, statuses, revoked, effects, clock>>

-----------------------------------------------------------------------------
(* The issuer (external), and time.                                         *)

Revoke(i) ==
  /\ revoked[i] = None
  /\ revoked' = [revoked EXCEPT ![i] = clock]
  /\ UNCHANGED <<consumed, writer, pc, call, statuses, effects, clock, crashes>>

PublishStatus(i) ==
  /\ statuses' = statuses \union
       {[id |-> i, observed_at |-> clock, current |-> revoked[i] = None]}
  /\ UNCHANGED <<consumed, writer, pc, call, revoked, effects, clock, crashes>>

Tick ==
  /\ clock < MaxClock
  /\ clock' = clock + 1
  /\ UNCHANGED <<consumed, writer, pc, call, statuses, revoked, effects, crashes>>

Step(v) == Begin(v) \/ Busy(v) \/ Insert(v) \/ Dispatch(v)

Next ==
  \/ \E v \in Verifiers : Step(v) \/ Crash(v)
  \/ \E v \in Verifiers, c \in Crossings, st \in statuses : Verify(v, c, st)
  \/ \E i \in Ids : Revoke(i) \/ PublishStatus(i)
  \/ Tick

Spec == Init /\ [][Next]_vars

-----------------------------------------------------------------------------
(* Properties.                                                              *)

EffectKey(x) == ReplayKey(x.call.crossing)

(* One replay identity, one effect: whatever verifiers race for it, time    *)
(* out on the store, crash on either side of the COMMIT or are shown the    *)
(* same reference again.                                                    *)
OneEffectPerKey ==
  \A x, y \in effects : EffectKey(x) = EffectKey(y) => x = y

(* One authority artifact, one effect.  Profile v1 lists, among what one    *)
(* current authority artifact is bound to, a single-use nonce.              *)
OneEffectPerAuthority ==
  \A x, y \in effects :
    x.call.crossing.authority = y.call.crossing.authority => x = y

(* A reissue shares its initial artifact's identity: at most one of all the *)
(* resolved artifacts reissued from one initial artifact reaches an effect. *)
OneEffectPerInitial ==
  \A x, y \in effects :
    /\ x.call.crossing.initial # None
    /\ x.call.crossing.initial = y.call.crossing.initial
    => x = y

(* Old status documents stay in circulation, yet nobody accepts an          *)
(* authority at a moment more than MaxStatusAge after its revocation.       *)
RevocationReachesAll ==
  \A v \in Verifiers :
    pc[v] # "idle" =>
      LET at == revoked[call[v].crossing.authority.id] IN
      at # None => call[v].now <= at + MaxStatusAge

(* Verifiers, store and crashes implement the one-register promise.         *)
Spent == consumed
Owed == {ReplayKey(call[v].crossing) : v \in {u \in Verifiers : pc[u] = "accepted"}}
Done == {EffectKey(x) : x \in effects}

Register == INSTANCE CrossingRegister
              WITH Identities <- Keys, spent <- Spent, owed <- Owed, done <- Done

RegisterSpec == Register!Spec

-----------------------------------------------------------------------------
(* The inductive invariant.                                                 *)

CallHeld == \A v \in Verifiers : pc[v] # "idle" => call[v] \in Calls

WriterInTransaction ==
  \A v \in Verifiers : writer = v <=> pc[v] = "inserting"

(* An acceptance spent the key, alone, and its effect is still to come.     *)
AcceptancesExclusive ==
  \A v \in Verifiers :
    pc[v] = "accepted" =>
      LET k == ReplayKey(call[v].crossing) IN
      /\ k \in consumed
      /\ \A x \in effects : EffectKey(x) # k
      /\ \A u \in Verifiers :
           pc[u] = "accepted" /\ ReplayKey(call[u].crossing) = k => u = v

EffectsSpent ==
  \A x \in effects :
    /\ EffectKey(x) \in consumed
    /\ Checks(x.call.crossing, x.call.status, x.call.now)

(* A document that says "current" was published before any revocation.      *)
StatusesTruthful ==
  /\ \A st \in statuses :
       /\ st.observed_at <= clock
       /\ st.current /\ revoked[st.id] # None => st.observed_at <= revoked[st.id]
  /\ \A i \in Ids : revoked[i] # None => revoked[i] <= clock

CallsChecked ==
  \A v \in Verifiers :
    pc[v] # "idle" =>
      /\ call[v].status \in statuses
      /\ Checks(call[v].crossing, call[v].status, call[v].now)

IInv ==
  /\ TypeOK
  /\ CallHeld
  /\ WriterInTransaction
  /\ AcceptancesExclusive
  /\ EffectsSpent
  /\ StatusesTruthful
  /\ CallsChecked
  /\ OneEffectPerKey
=============================================================================
