---------------------------- MODULE EchoSandbox ----------------------------
(***************************************************************************)
(* The inbound half of the live sandbox: gunicorn threads that carry one    *)
(* tools/call each through Border, Gate and the durable echo runtime, over  *)
(* one SQLite file (border/live_sandbox.py, border/openid_gateway.py).      *)
(*                                                                          *)
(* A worker is one request thread; threads of one process share a           *)
(* threading.Lock, every process shares the write lock of the database      *)
(* (BEGIN IMMEDIATE).  A process may crash at any point and is restarted;   *)
(* the two tables survive, an uncommitted transaction does not.  Clients    *)
(* send any request any number of times, so a lost answer followed by a     *)
(* retry is one more Receive.                                               *)
(*                                                                          *)
(* Digests are injective here: document_digest of a record of fields is     *)
(* that record.  The issuer, audience and scope of an accepted token equal  *)
(* the settings', so they are left out of every key.                        *)
(***************************************************************************)
EXTENDS Naturals, FiniteSets

CONSTANTS
  Workers,      \* request threads
  Processes,    \* gunicorn processes
  ProcessOf,    \* the process each thread belongs to
  Tokens,       \* access tokens the authorization server has issued
  Claims,       \* Claims[t]: the verified claims of token t
  Clients,      \* client_id values
  Grants,       \* jti values
  Identities,   \* (subject, principal, delegation) triples a token maps to
  Requests,     \* the tools/call requests clients send
  RequestIds,   \* str(request["id"]) values
  Arguments,    \* params.arguments values
  SingleUse,    \* settings.single_use_grants
  Window,       \* the declaration's lifetime, five minutes in the code
  MaxClock,     \* bound: the clock stops here
  MaxCrashes,   \* bound: number of process crashes
  None          \* no row, no request, no writer

(* The earlier of the two expiries; the mutation forgets the token's.       *)
LaterExpiry(a, b) == b
Min2(a, b) == IF a <= b THEN a ELSE b

Namespaces == [client_id : Clients, request_id : RequestIds]

Bindings == [client_id : Clients, request_id : RequestIds, grant_id : Grants,
             identity : Identities, payload : Arguments]

Rows == [fingerprint : Bindings, result : Arguments]

ASSUME ThreadsAssumption ==
  /\ ProcessOf \in [Workers -> Processes]
  /\ None \notin Workers

ASSUME TokensAssumption ==
  Claims \in [Tokens -> [jti : Grants, client_id : Clients,
                         identity : Identities, nbf : Nat, exp : Nat]]

ASSUME RequestsAssumption ==
  /\ Requests \subseteq [token : Tokens, id : RequestIds, arguments : Arguments]
  /\ None \notin Requests

ASSUME RowsAssumption ==
  /\ None \notin Namespaces
  /\ None \notin Rows

ASSUME SettingsAssumption ==
  /\ SingleUse \in BOOLEAN
  /\ Window \in Nat \ {0}
  /\ MaxClock \in Nat
  /\ MaxCrashes \in Nat

(* idempotency_key: the namespace that is stable across retries.            *)
Namespace(r) == [client_id |-> Claims[r.token].client_id, request_id |-> r.id]

(* grant_key: the access-token grant, by issuer and jti.                    *)
GrantOf(r) == Claims[r.token].jti

(* The runtime fingerprint: runtime_action_id binds request, client, grant  *)
(* and identity, the payload digest binds the arguments.                    *)
Fingerprint(r) ==
  [client_id  |-> Claims[r.token].client_id, request_id |-> r.id,
   grant_id   |-> Claims[r.token].jti, identity |-> Claims[r.token].identity,
   payload    |-> r.arguments]

VARIABLES
  interop_actions,  \* table: Namespaces -> Rows \cup {None}
  interop_grants,   \* table: Grants -> Namespaces \cup {None}
  writer,           \* the worker inside BEGIN IMMEDIATE ... COMMIT, or None
  pc,               \* where each worker is
  call,             \* the request each worker carries
  deadline,         \* expires_at of the worker's admission receipt
  seen,             \* what the worker's transaction SELECTed
  clock,
  crashes,
  vetted,           \* history: requests the Gate let pass inside the token's
                    \* own validity window
  answered          \* history: the 200 answers, sent and perhaps lost

vars == <<interop_actions, interop_grants, writer, pc, call, deadline, seen,
          clock, crashes, vetted, answered>>

tables == <<interop_actions, interop_grants>>

Stages == {"idle", "received", "admitted", "bind", "bind_commit",
           "execute", "execute_commit", "reply"}

TypeOK ==
  /\ interop_actions \in [Namespaces -> Rows \union {None}]
  /\ interop_grants \in [Grants -> Namespaces \union {None}]
  /\ writer \in Workers \union {None}
  /\ pc \in [Workers -> Stages]
  /\ call \in [Workers -> Requests \union {None}]
  /\ deadline \in [Workers -> Nat]
  /\ seen \in [Workers -> Rows \union Namespaces \union {None}]
  /\ clock \in Nat
  /\ crashes \in Nat
  /\ vetted \subseteq Requests
  /\ answered \subseteq [request : Requests, result : Arguments]

Init ==
  /\ interop_actions = [k \in Namespaces |-> None]
  /\ interop_grants = [g \in Grants |-> None]
  /\ writer = None
  /\ pc = [w \in Workers |-> "idle"]
  /\ call = [w \in Workers |-> None]
  /\ deadline = [w \in Workers |-> 0]
  /\ seen = [w \in Workers |-> None]
  /\ clock = 0
  /\ crashes = 0
  /\ vetted = {}
  /\ answered = {}

-----------------------------------------------------------------------------
(* Steps of one worker.                                                     *)

Goto(w, stage) == pc' = [pc EXCEPT ![w] = stage]

(* The handler returns; the thread takes the next connection.               *)
Finish(w) ==
  /\ pc' = [pc EXCEPT ![w] = "idle"]
  /\ call' = [call EXCEPT ![w] = None]
  /\ deadline' = [deadline EXCEPT ![w] = 0]
  /\ seen' = [seen EXCEPT ![w] = None]

(* OpenIDGatewayServer.handle up to the call of authorize.                  *)
Receive(w, r) ==
  /\ pc[w] = "idle"
  /\ Goto(w, "received")
  /\ call' = [call EXCEPT ![w] = r]
  /\ UNCHANGED <<tables, writer, deadline, seen, clock, crashes, vetted, answered>>

(* verify_token raises: a bad signature, or no JWKS to check one with.      *)
VerificationFails(w) ==
  /\ pc[w] = "received"
  /\ Finish(w)
  /\ UNCHANGED <<tables, writer, clock, crashes, vetted, answered>>

Active(t, now) == Claims[t].nbf <= now /\ now < Claims[t].exp

(* normalize_claims, then a fresh BorderAdmissionController admits the      *)
(* declaration: both fail outside the token's window.                       *)
Authorize(w) ==
  LET r == call[w] IN
  /\ pc[w] = "received"
  /\ IF Active(r.token, clock)
     THEN /\ Goto(w, "admitted")
          /\ deadline' = [deadline EXCEPT
                            ![w] = Min2(Claims[r.token].exp, clock + Window)]
          /\ UNCHANGED <<call, seen>>
     ELSE Finish(w)
  /\ UNCHANGED <<tables, writer, clock, crashes, vetted, answered>>

(* The admission receipt is still live when the Gate looks.                 *)
ReceiptLiveAlways(w) == TRUE
ReceiptLive(w) == clock < deadline[w]

(* verify_gate_context reads the clock again; then execute chooses whether  *)
(* the grant must be bound first.                                           *)
Gate(w) ==
  LET r == call[w] IN
  /\ pc[w] = "admitted"
  /\ IF ReceiptLive(w)
     THEN /\ Goto(w, IF SingleUse THEN "bind" ELSE "execute")
          /\ vetted' = IF Active(r.token, clock) THEN vetted \union {r} ELSE vetted
          /\ UNCHANGED <<call, deadline, seen>>
     ELSE Finish(w) /\ UNCHANGED vetted
  /\ UNCHANGED <<tables, writer, clock, crashes, answered>>

(* Two ways to get the locking wrong, for the mutation runs: a transaction  *)
(* that does not wait for the writer, a refusal that keeps the lock.        *)
CanBeginDeferred == TRUE

(* with self._lock, BEGIN IMMEDIATE.  The thread lock of a process is held  *)
(* by its writer, so a sibling thread waits without limit; a thread of      *)
(* another process waits for the database lock until busy_timeout.          *)
CanBegin == writer = None

BusyTimeout(w) ==
  /\ writer # None
  /\ ProcessOf[writer] # ProcessOf[w]

Begin(w, row, stage) ==
  /\ CanBegin
  /\ writer' = w
  /\ seen' = [seen EXCEPT ![w] = row]
  /\ Goto(w, stage)
  /\ UNCHANGED <<tables, call, deadline, clock, crashes, vetted, answered>>

(* The grant is unbound, or bound to this request's own namespace.          *)
BindAllowsAny(row, k) == TRUE
BindAllowsFirstOnly(row, k) == row = None
BindAllows(row, k) == row \in {None, k}

(* The namespace is unused, or used by exactly this authority and action.   *)
ExecuteAllowsAny(row, f) == TRUE
ExecuteAllows(row, f) == row = None \/ row.fingerprint = f

(* COMMIT ends the transaction on every path out of it.                     *)
CommitOnInsertOnly(w) ==
  writer' = IF seen[w] = None THEN None ELSE writer
Commit(w) == writer' = None

(* bind_grant: the SELECT of the grant's row.                               *)
BeginBind(w) ==
  /\ pc[w] = "bind"
  /\ Begin(w, interop_grants[GrantOf(call[w])], "bind_commit")

(* bind_grant: INSERT and COMMIT, or COMMIT and compare.                    *)
CommitBind(w) ==
  LET r == call[w] IN
  /\ pc[w] = "bind_commit"
  /\ Commit(w)
  /\ interop_grants' = IF seen[w] = None
                       THEN [interop_grants EXCEPT ![GrantOf(r)] = Namespace(r)]
                       ELSE interop_grants
  /\ IF BindAllows(seen[w], Namespace(r))
     THEN /\ Goto(w, "execute")
          /\ seen' = [seen EXCEPT ![w] = None]
          /\ UNCHANGED <<call, deadline>>
     ELSE Finish(w)
  /\ UNCHANGED <<interop_actions, clock, crashes, vetted, answered>>

(* execute_once: the SELECT of the action's row.                            *)
BeginExecute(w) ==
  /\ pc[w] = "execute"
  /\ Begin(w, interop_actions[Namespace(call[w])], "execute_commit")

(* execute_once: INSERT of effect and record in one COMMIT; a row already   *)
(* there is a replay when its fingerprint is the caller's, else a refusal.  *)
CommitExecute(w) ==
  LET r == call[w]
      row == [fingerprint |-> Fingerprint(r), result |-> r.arguments] IN
  /\ pc[w] = "execute_commit"
  /\ Commit(w)
  /\ interop_actions' = IF seen[w] = None
                        THEN [interop_actions EXCEPT ![Namespace(r)] = row]
                        ELSE interop_actions
  /\ IF ExecuteAllows(seen[w], Fingerprint(r))
     THEN /\ Goto(w, "reply")
          /\ seen' = [seen EXCEPT ![w] = None]
          /\ UNCHANGED <<call, deadline>>
     ELSE Finish(w)
  /\ UNCHANGED <<interop_grants, clock, crashes, vetted, answered>>

(* busy_timeout expires: OperationalError escapes handle from bind_grant    *)
(* (a 500), and is an AdmissionError from the runtime (a 403).              *)
Busy(w) ==
  /\ pc[w] \in {"bind", "execute"}
  /\ BusyTimeout(w)
  /\ Finish(w)
  /\ UNCHANGED <<tables, writer, clock, crashes, vetted, answered>>

(* result_for reads by namespace alone, outside the transaction, then the   *)
(* 200 answer is sent; without a row it is a refusal.                       *)
Reply(w) ==
  LET r == call[w]
      row == interop_actions[Namespace(r)] IN
  /\ pc[w] = "reply"
  /\ answered' = IF row = None
                 THEN answered
                 ELSE answered \union {[request |-> r, result |-> row.result]}
  /\ Finish(w)
  /\ UNCHANGED <<tables, writer, clock, crashes, vetted>>

-----------------------------------------------------------------------------
(* The environment.                                                         *)

(* A process dies with every request it carries; SQLite rolls an open       *)
(* transaction back; the supervisor restarts the process.                   *)
Crash(p) ==
  LET dead == {w \in Workers : ProcessOf[w] = p} IN
  /\ crashes < MaxCrashes
  /\ \E w \in dead : pc[w] # "idle"
  /\ crashes' = crashes + 1
  /\ writer' = IF writer \in dead THEN None ELSE writer
  /\ pc' = [w \in Workers |-> IF w \in dead THEN "idle" ELSE pc[w]]
  /\ call' = [w \in Workers |-> IF w \in dead THEN None ELSE call[w]]
  /\ deadline' = [w \in Workers |-> IF w \in dead THEN 0 ELSE deadline[w]]
  /\ seen' = [w \in Workers |-> IF w \in dead THEN None ELSE seen[w]]
  /\ UNCHANGED <<tables, clock, vetted, answered>>

Tick ==
  /\ clock < MaxClock
  /\ clock' = clock + 1
  /\ UNCHANGED <<tables, writer, pc, call, deadline, seen, crashes, vetted, answered>>

Step(w) ==
  \/ VerificationFails(w)
  \/ Authorize(w)
  \/ Gate(w)
  \/ BeginBind(w)
  \/ CommitBind(w)
  \/ BeginExecute(w)
  \/ CommitExecute(w)
  \/ Busy(w)
  \/ Reply(w)

Next ==
  \/ \E w \in Workers : Step(w)
  \/ \E w \in Workers, r \in Requests : Receive(w, r)
  \/ \E p \in Processes : Crash(p)
  \/ Tick

Spec == Init /\ [][Next]_vars

-----------------------------------------------------------------------------
(* Safety.                                                                  *)

(* An access-token grant is bound to one namespace before its first effect  *)
(* and stays the grant of that namespace alone, whatever threads, processes *)
(* and crashes lie between bind_grant and execute_once: a token replayed    *)
(* for a new request creates no effect (docs/local-bilateral-rehearsal.md). *)
SingleUseGrants ==
  SingleUse =>
    \A k \in Namespaces :
      interop_actions[k] # None =>
        interop_grants[interop_actions[k].fingerprint.grant_id] = k

(* result_for selects by namespace only, after the transaction is over;     *)
(* still every 200 answer carries the caller's own arguments, from an       *)
(* effect recorded under the caller's own client, grant and identity.       *)
AnswersAreOwnEffects ==
  \A a \in answered :
    LET row == interop_actions[Namespace(a.request)] IN
    /\ row # None
    /\ row.fingerprint = Fingerprint(a.request)
    /\ a.result = a.request.arguments

(* What a transaction read is what the tables hold when it commits, so that *)
(* neither "absent" nor "same fingerprint" can be stale when it is used.    *)
SnapshotsCurrent ==
  \A w \in Workers :
    /\ pc[w] = "bind_commit" => seen[w] = interop_grants[GrantOf(call[w])]
    /\ pc[w] = "execute_commit" => seen[w] = interop_actions[Namespace(call[w])]

(* Every effect was let through by the Gate, at a moment inside its token's *)
(* own validity window, for exactly the authority and action recorded.  The *)
(* commit itself may come later than exp: nothing re-reads the clock.       *)
EffectsVetted ==
  \A k \in Namespaces :
    interop_actions[k] # None =>
      \E r \in vetted : Fingerprint(r) = interop_actions[k].fingerprint

(* A committed effect or binding is never rewritten, moved or lost, by a    *)
(* substituted retry, a concurrent insert or a crash.                       *)
CommittedRowsFinal ==
  [][/\ \A k \in Namespaces :
          interop_actions[k] # None => interop_actions'[k] = interop_actions[k]
     /\ \A g \in Grants :
          interop_grants[g] # None => interop_grants'[g] = interop_grants[g]]_vars

(* The threads, locks, tables and crashes implement the one-ledger promise. *)
Effects == {interop_actions[k].fingerprint :
              k \in {n \in Namespaces : interop_actions[n] # None}}

Answers == {[binding |-> Fingerprint(a.request), result |-> a.result] :
              a \in answered}

Ledger == INSTANCE EchoLedger WITH ledger <- Effects, answers <- Answers

LedgerSpec == Ledger!Spec

-----------------------------------------------------------------------------
(* The inductive invariant behind the safety properties.                    *)

CallCarried == \A w \in Workers : pc[w] # "idle" => call[w] \in Requests

(* The write lock and the two transactions are the same thing.              *)
WriterInTransaction ==
  \A w \in Workers : writer = w <=> pc[w] \in {"bind_commit", "execute_commit"}

(* A row is filed under its fingerprint's namespace and echoes its payload. *)
RowsWellFiled ==
  \A k \in Namespaces :
    interop_actions[k] # None =>
      LET f == interop_actions[k].fingerprint IN
      /\ k = [client_id |-> f.client_id, request_id |-> f.request_id]
      /\ interop_actions[k].result = f.payload

AdmittedInWindow ==
  \A w \in Workers :
    pc[w] = "admitted" =>
      /\ Claims[call[w].token].nbf <= clock
      /\ deadline[w] <= Claims[call[w].token].exp

PastGate == {"bind", "bind_commit", "execute", "execute_commit", "reply"}

PastGateVetted ==
  \A w \in Workers : pc[w] \in PastGate => call[w] \in vetted

BoundBeforeExecute ==
  SingleUse =>
    \A w \in Workers :
      pc[w] \in {"execute", "execute_commit", "reply"} =>
        interop_grants[GrantOf(call[w])] = Namespace(call[w])

ReplyHasEffect ==
  \A w \in Workers :
    pc[w] = "reply" =>
      /\ interop_actions[Namespace(call[w])] # None
      /\ interop_actions[Namespace(call[w])].fingerprint = Fingerprint(call[w])

IInv ==
  /\ TypeOK
  /\ CallCarried
  /\ WriterInTransaction
  /\ SnapshotsCurrent
  /\ RowsWellFiled
  /\ AdmittedInWindow
  /\ PastGateVetted
  /\ EffectsVetted
  /\ BoundBeforeExecute
  /\ SingleUseGrants
  /\ ReplyHasEffect
  /\ AnswersAreOwnEffects

-----------------------------------------------------------------------------
(* Liveness.                                                                *)

(* The operating system runs every thread that can run, and a thread that   *)
(* waits for the lock is not passed over for ever.                          *)
ThreadFairness == \A w \in Workers : SF_vars(Step(w))

(* A client that keeps sending r, to an authorization server whose keys can *)
(* be fetched now and then, on threads that are not passed over for ever.   *)
RetryFairness ==
  \A r \in Requests :
    /\ SF_vars(\E w \in Workers : Receive(w, r))
    /\ SF_vars(\E w \in Workers : call[w] = r /\ Authorize(w))
    /\ SF_vars(\E w \in Workers : call[w] = r /\ BeginBind(w))
    /\ SF_vars(\E w \in Workers : call[w] = r /\ BeginExecute(w))

RetrySpec == Spec /\ ThreadFairness /\ RetryFairness

(* No thread stays in a call for ever: no path leaves bind_grant or         *)
(* execute_once with the lock or the transaction held.                      *)
EveryCallEnds ==
  \A w \in Workers : pc[w] # "idle" ~> pc[w] = "idle"

(* bind_grant commits before the effect: a failure in between leaves the    *)
(* grant bound and nothing done.  That never burns the grant: while the     *)
(* token lives, retries of the bound request reach the effect.              *)
BoundGrantConverges ==
  \A r \in Requests :
    /\ Claims[r.token].nbf <= MaxClock
    /\ MaxClock < Claims[r.token].exp
    => /\ interop_grants[GrantOf(r)] = Namespace(r)
       /\ interop_actions[Namespace(r)] = None
       ~> interop_actions[Namespace(r)] # None
=============================================================================
