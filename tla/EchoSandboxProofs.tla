------------------------- MODULE EchoSandboxProofs -------------------------
(* Theorems about EchoSandbox for every number of threads and processes,    *)
(* every set of tokens and requests, and every value of the settings.       *)
EXTENDS EchoSandbox, TLAPS

(* The keys and bindings of a request are values of the tables.             *)
LEMMA KeysTyped ==
  ASSUME NEW r \in Requests
  PROVE  /\ r.token \in Tokens
         /\ r.arguments \in Arguments
         /\ Claims[r.token].nbf \in Nat
         /\ Claims[r.token].exp \in Nat
         /\ Namespace(r) \in Namespaces
         /\ GrantOf(r) \in Grants
         /\ Fingerprint(r) \in Bindings
         /\ [fingerprint |-> Fingerprint(r), result |-> r.arguments] \in Rows
         /\ Namespace(r) = [client_id  |-> Fingerprint(r).client_id,
                            request_id |-> Fingerprint(r).request_id]
         /\ GrantOf(r) = Fingerprint(r).grant_id
         /\ r.arguments = Fingerprint(r).payload
<1>1. r \in [token : Tokens, id : RequestIds, arguments : Arguments]
  BY RequestsAssumption
<1>2. /\ r.token \in Tokens
      /\ r.id \in RequestIds
      /\ r.arguments \in Arguments
  BY <1>1
<1>3. Claims[r.token] \in [jti : Grants, client_id : Clients,
                           identity : Identities, nbf : Nat, exp : Nat]
  BY <1>2, TokensAssumption
<1>4. /\ Claims[r.token].jti \in Grants
      /\ Claims[r.token].client_id \in Clients
      /\ Claims[r.token].identity \in Identities
      /\ Claims[r.token].nbf \in Nat
      /\ Claims[r.token].exp \in Nat
  BY <1>3
<1>5. QED
  BY <1>2, <1>4 DEF Namespace, Namespaces, GrantOf, Fingerprint, Bindings, Rows

(* Where a worker carries a call, the call is a request.                    *)
LEMMA Carried ==
  ASSUME CallCarried, NEW w \in Workers, pc[w] # "idle"
  PROVE  call[w] \in Requests
  BY DEF CallCarried

(* Nothing has been received, so nothing has gone wrong.                    *)
LEMMA InitIInv == Init => IInv
  BY RowsAssumption, RequestsAssumption, ThreadsAssumption
  DEF Init, IInv, TypeOK, CallCarried, WriterInTransaction, SnapshotsCurrent,
      RowsWellFiled, AdmittedInWindow, PastGateVetted, PastGate, EffectsVetted,
      BoundBeforeExecute, SingleUseGrants, ReplyHasEffect, AnswersAreOwnEffects,
      Stages

(* Every step keeps every variable in its type.                             *)
LEMMA TypeStep == IInv /\ [Next]_vars => TypeOK'
<1> SUFFICES ASSUME IInv, [Next]_vars PROVE TypeOK'
  OBVIOUS
<1> USE DEF IInv, TypeOK, Stages
<1>1. ASSUME NEW w \in Workers, NEW r \in Requests, Receive(w, r) PROVE TypeOK'
  BY <1>1 DEF Receive, Goto, tables
<1>2. ASSUME NEW w \in Workers, VerificationFails(w) PROVE TypeOK'
  BY <1>2 DEF VerificationFails, Finish, tables
<1>3. ASSUME NEW w \in Workers, Authorize(w) PROVE TypeOK'
  <2>1. call[w] \in Requests
    BY <1>3, Carried DEF Authorize
  <2>2. Claims[call[w].token].exp \in Nat
    BY <2>1, KeysTyped
  <2>3. clock + Window \in Nat
    BY SettingsAssumption
  <2>4. Min2(Claims[call[w].token].exp, clock + Window) \in Nat
    BY <2>2, <2>3 DEF Min2
  <2>5. QED
    BY <1>3, <2>4 DEF Authorize, Finish, Goto, tables
<1>4. ASSUME NEW w \in Workers, Gate(w) PROVE TypeOK'
  <2>1. call[w] \in Requests
    BY <1>4, Carried DEF Gate
  <2>2. QED
    BY <1>4, <2>1 DEF Gate, Finish, Goto, tables
<1>5. ASSUME NEW w \in Workers, BeginBind(w) PROVE TypeOK'
  <2>1. call[w] \in Requests
    BY <1>5, Carried DEF BeginBind
  <2>2. interop_grants[GrantOf(call[w])] \in Namespaces \union {None}
    BY <2>1, KeysTyped
  <2>3. QED
    BY <1>5, <2>2 DEF BeginBind, Begin, Goto, tables
<1>6. ASSUME NEW w \in Workers, CommitBind(w) PROVE TypeOK'
  <2>1. call[w] \in Requests
    BY <1>6, Carried DEF CommitBind
  <2>2. interop_grants' \in [Grants -> Namespaces \union {None}]
    BY <1>6, <2>1, KeysTyped DEF CommitBind
  <2>3. /\ pc' \in [Workers -> Stages]
        /\ call' \in [Workers -> Requests \union {None}]
        /\ deadline' \in [Workers -> Nat]
        /\ seen' \in [Workers -> Rows \union Namespaces \union {None}]
    BY <1>6 DEF CommitBind, Finish, Goto
  <2>4. QED
    BY <1>6, <2>2, <2>3 DEF CommitBind, Commit
<1>7. ASSUME NEW w \in Workers, BeginExecute(w) PROVE TypeOK'
  <2>1. call[w] \in Requests
    BY <1>7, Carried DEF BeginExecute
  <2>2. interop_actions[Namespace(call[w])] \in Rows \union {None}
    BY <2>1, KeysTyped
  <2>3. QED
    BY <1>7, <2>2 DEF BeginExecute, Begin, Goto, tables
<1>8. ASSUME NEW w \in Workers, CommitExecute(w) PROVE TypeOK'
  <2>1. call[w] \in Requests
    BY <1>8, Carried DEF CommitExecute
  <2>2. interop_actions' \in [Namespaces -> Rows \union {None}]
    BY <1>8, <2>1, KeysTyped DEF CommitExecute
  <2>3. /\ pc' \in [Workers -> Stages]
        /\ call' \in [Workers -> Requests \union {None}]
        /\ deadline' \in [Workers -> Nat]
        /\ seen' \in [Workers -> Rows \union Namespaces \union {None}]
    BY <1>8 DEF CommitExecute, Finish, Goto
  <2>4. QED
    BY <1>8, <2>2, <2>3 DEF CommitExecute, Commit
<1>9. ASSUME NEW w \in Workers, Busy(w) PROVE TypeOK'
  BY <1>9 DEF Busy, Finish, tables
<1>10. ASSUME NEW w \in Workers, Reply(w) PROVE TypeOK'
  <2>1. call[w] \in Requests
    BY <1>10, Carried DEF Reply
  <2>2. interop_actions[Namespace(call[w])] \in Rows \union {None}
    BY <2>1, KeysTyped
  <2>3. interop_actions[Namespace(call[w])] # None =>
          interop_actions[Namespace(call[w])].result \in Arguments
    BY <2>2 DEF Rows
  <2>4. answered' \subseteq [request : Requests, result : Arguments]
    BY <1>10, <2>1, <2>3 DEF Reply
  <2>5. QED
    BY <1>10, <2>4 DEF Reply, Finish, tables
<1>11. ASSUME NEW p \in Processes, Crash(p) PROVE TypeOK'
  BY <1>11 DEF Crash, tables
<1>12. CASE Tick
  BY <1>12 DEF Tick, tables
<1>13. CASE UNCHANGED vars
  BY <1>13 DEF vars
<1>14. QED
  BY <1>1, <1>2, <1>3, <1>4, <1>5, <1>6, <1>7, <1>8, <1>9, <1>10, <1>11, <1>12,
     <1>13 DEF Next, Step

-----------------------------------------------------------------------------
(* The tables change in two actions only, and those only fill empty rows.   *)

TablesFinal ==
  /\ \A k \in Namespaces :
       interop_actions[k] # None => interop_actions'[k] = interop_actions[k]
  /\ \A g \in Grants :
       interop_grants[g] # None => interop_grants'[g] = interop_grants[g]

(* No step rewrites or removes a committed row of either table.             *)
LEMMA TablesFinalStep == IInv /\ [Next]_vars => TablesFinal
<1> SUFFICES ASSUME IInv, [Next]_vars PROVE TablesFinal
  OBVIOUS
<1> USE DEF IInv, TypeOK, TablesFinal
<1>1. ASSUME NEW w \in Workers, CommitBind(w) PROVE TablesFinal
  <2>1. call[w] \in Requests
    BY <1>1, Carried DEF CommitBind
  <2>2. seen[w] = interop_grants[GrantOf(call[w])]
    BY <1>1 DEF CommitBind, SnapshotsCurrent
  <2>3. QED
    BY <1>1, <2>1, <2>2, KeysTyped DEF CommitBind
<1>2. ASSUME NEW w \in Workers, CommitExecute(w) PROVE TablesFinal
  <2>1. call[w] \in Requests
    BY <1>2, Carried DEF CommitExecute
  <2>2. seen[w] = interop_actions[Namespace(call[w])]
    BY <1>2 DEF CommitExecute, SnapshotsCurrent
  <2>3. QED
    BY <1>2, <2>1, <2>2, KeysTyped DEF CommitExecute
<1>3. ASSUME UNCHANGED tables PROVE TablesFinal
  BY <1>3 DEF tables
<1>4. QED
  BY <1>1, <1>2, <1>3 DEF Next, Step, Receive, VerificationFails, Authorize, Gate,
     BeginBind, BeginExecute, Begin, Busy, Reply, Crash, Tick, vars, tables

(* Every worker in a call carries a request, and only the writer is in a    *)
(* transaction.                                                             *)
LEMMA ControlStep == IInv /\ [Next]_vars => CallCarried' /\ WriterInTransaction'
<1> SUFFICES ASSUME IInv, [Next]_vars PROVE CallCarried' /\ WriterInTransaction'
  OBVIOUS
<1> USE ThreadsAssumption DEF IInv, TypeOK, Stages, CallCarried, WriterInTransaction
<1>1. ASSUME NEW w \in Workers, NEW r \in Requests, Receive(w, r)
      PROVE  CallCarried' /\ WriterInTransaction'
  BY <1>1 DEF Receive, Goto
<1>2. ASSUME NEW w \in Workers, VerificationFails(w)
      PROVE  CallCarried' /\ WriterInTransaction'
  BY <1>2 DEF VerificationFails, Finish
<1>3. ASSUME NEW w \in Workers, Authorize(w)
      PROVE  CallCarried' /\ WriterInTransaction'
  BY <1>3 DEF Authorize, Finish, Goto
<1>4. ASSUME NEW w \in Workers, Gate(w)
      PROVE  CallCarried' /\ WriterInTransaction'
  BY <1>4 DEF Gate, Finish, Goto
<1>5. ASSUME NEW w \in Workers, BeginBind(w)
      PROVE  CallCarried' /\ WriterInTransaction'
  BY <1>5 DEF BeginBind, Begin, CanBegin, Goto
<1>6. ASSUME NEW w \in Workers, CommitBind(w)
      PROVE  CallCarried' /\ WriterInTransaction'
  BY <1>6 DEF CommitBind, Commit, Finish, Goto
<1>7. ASSUME NEW w \in Workers, BeginExecute(w)
      PROVE  CallCarried' /\ WriterInTransaction'
  BY <1>7 DEF BeginExecute, Begin, CanBegin, Goto
<1>8. ASSUME NEW w \in Workers, CommitExecute(w)
      PROVE  CallCarried' /\ WriterInTransaction'
  BY <1>8 DEF CommitExecute, Commit, Finish, Goto
<1>9. ASSUME NEW w \in Workers, Busy(w)
      PROVE  CallCarried' /\ WriterInTransaction'
  BY <1>9 DEF Busy, Finish
<1>10. ASSUME NEW w \in Workers, Reply(w)
       PROVE  CallCarried' /\ WriterInTransaction'
  BY <1>10 DEF Reply, Finish
<1>11. ASSUME NEW p \in Processes, Crash(p)
       PROVE  CallCarried' /\ WriterInTransaction'
  BY <1>11 DEF Crash
<1>12. CASE Tick
  BY <1>12 DEF Tick
<1>13. CASE UNCHANGED vars
  BY <1>13 DEF vars
<1>14. QED
  BY <1>1, <1>2, <1>3, <1>4, <1>5, <1>6, <1>7, <1>8, <1>9, <1>10, <1>11, <1>12,
     <1>13 DEF Next, Step

(* What a worker that has passed a check still has of it.                   *)
LEMMA VettingStep == IInv /\ [Next]_vars => AdmittedInWindow' /\ PastGateVetted'
<1> DEFINE Goal == AdmittedInWindow' /\ PastGateVetted'
<1> SUFFICES ASSUME IInv, [Next]_vars PROVE Goal
  OBVIOUS
<1> USE DEF IInv, TypeOK, Stages, AdmittedInWindow, PastGateVetted, PastGate
<1>1. ASSUME NEW w \in Workers, NEW r \in Requests, Receive(w, r) PROVE Goal
  BY <1>1 DEF Receive, Goto
<1>2. ASSUME NEW w \in Workers, VerificationFails(w) PROVE Goal
  BY <1>2 DEF VerificationFails, Finish
<1>3. ASSUME NEW w \in Workers, Authorize(w) PROVE Goal
  <2>1. call[w] \in Requests
    BY <1>3, Carried DEF Authorize
  <2>2. Claims[call[w].token].exp \in Nat /\ Claims[call[w].token].nbf \in Nat
    BY <2>1, KeysTyped
  <2>3. clock + Window \in Nat
    BY SettingsAssumption
  <2>4. Min2(Claims[call[w].token].exp, clock + Window) <= Claims[call[w].token].exp
    BY <2>2, <2>3 DEF Min2
  <2>5. \A v \in Workers \ {w} : /\ pc'[v] = pc[v] /\ call'[v] = call[v]
                                  /\ deadline'[v] = deadline[v]
    BY <1>3 DEF Authorize, Finish, Goto
  <2>6. pc'[w] = "admitted" => /\ Active(call[w].token, clock)
                               /\ call'[w] = call[w]
                               /\ deadline'[w] = Min2(Claims[call[w].token].exp, clock + Window)
    BY <1>3 DEF Authorize, Finish, Goto
  <2>7. pc'[w] \in {"admitted", "idle"} /\ clock' = clock /\ vetted' = vetted
    BY <1>3 DEF Authorize, Finish, Goto
  <2>8. AdmittedInWindow'
    BY <2>4, <2>5, <2>6, <2>7 DEF Active
  <2>9. PastGateVetted'
    BY <2>5, <2>7
  <2>10. QED
    BY <2>8, <2>9
<1>4. ASSUME NEW w \in Workers, Gate(w) PROVE Goal
  <2>1. call[w] \in Requests
    BY <1>4, Carried DEF Gate
  <2>2. Claims[call[w].token].exp \in Nat /\ Claims[call[w].token].nbf \in Nat
    BY <2>1, KeysTyped
  <2>3. ReceiptLive(w) => Active(call[w].token, clock)
    BY <1>4, <2>2 DEF Gate, ReceiptLive, Active
  <2>4. QED
    BY <1>4, <2>3 DEF Gate, Finish, Goto
<1>5. ASSUME NEW w \in Workers, BeginBind(w) PROVE Goal
  BY <1>5 DEF BeginBind, Begin, Goto
<1>6. ASSUME NEW w \in Workers, CommitBind(w) PROVE Goal
  BY <1>6 DEF CommitBind, Finish, Goto
<1>7. ASSUME NEW w \in Workers, BeginExecute(w) PROVE Goal
  BY <1>7 DEF BeginExecute, Begin, Goto
<1>8. ASSUME NEW w \in Workers, CommitExecute(w) PROVE Goal
  BY <1>8 DEF CommitExecute, Finish, Goto
<1>9. ASSUME NEW w \in Workers, Busy(w) PROVE Goal
  BY <1>9 DEF Busy, Finish
<1>10. ASSUME NEW w \in Workers, Reply(w) PROVE Goal
  BY <1>10 DEF Reply, Finish
<1>11. ASSUME NEW p \in Processes, Crash(p) PROVE Goal
  BY <1>11 DEF Crash
<1>12. ASSUME Tick PROVE Goal
  <2>1. \A w \in Workers : pc[w] = "admitted" => Claims[call[w].token].nbf \in Nat
    BY Carried, KeysTyped
  <2>2. QED
    BY <1>12, <2>1 DEF Tick
<1>13. CASE UNCHANGED vars
  BY <1>13 DEF vars
<1>14. QED
  BY <1>1, <1>2, <1>3, <1>4, <1>5, <1>6, <1>7, <1>8, <1>9, <1>10, <1>11, <1>12,
     <1>13 DEF Next, Step

-----------------------------------------------------------------------------
(* The tables and what the workers and answers rely on in them.             *)

(* The lock makes a transaction's read current until its commit: no other   *)
(* worker can be inside one.                                                *)
LEMMA SnapshotStep == IInv /\ [Next]_vars => SnapshotsCurrent'
<1> SUFFICES ASSUME IInv, [Next]_vars PROVE SnapshotsCurrent'
  OBVIOUS
<1> USE ThreadsAssumption DEF IInv, TypeOK, Stages, SnapshotsCurrent
<1>1. ASSUME NEW w \in Workers, NEW r \in Requests, Receive(w, r)
      PROVE  SnapshotsCurrent'
  BY <1>1 DEF Receive, Goto, tables
<1>2. ASSUME NEW w \in Workers, VerificationFails(w) PROVE SnapshotsCurrent'
  BY <1>2 DEF VerificationFails, Finish, tables
<1>3. ASSUME NEW w \in Workers, Authorize(w) PROVE SnapshotsCurrent'
  BY <1>3 DEF Authorize, Finish, Goto, tables
<1>4. ASSUME NEW w \in Workers, Gate(w) PROVE SnapshotsCurrent'
  BY <1>4 DEF Gate, Finish, Goto, tables
<1>5. ASSUME NEW w \in Workers, BeginBind(w) PROVE SnapshotsCurrent'
  BY <1>5 DEF BeginBind, Begin, Goto, tables
<1>6. ASSUME NEW w \in Workers, CommitBind(w) PROVE SnapshotsCurrent'
  <2>1. \A v \in Workers \ {w} : pc[v] \notin {"bind_commit", "execute_commit"}
    BY <1>6 DEF CommitBind, WriterInTransaction
  <2>2. pc'[w] \in {"execute", "idle"}
    BY <1>6 DEF CommitBind, Finish, Goto
  <2>3. \A v \in Workers \ {w} : pc'[v] = pc[v]
    BY <1>6 DEF CommitBind, Finish, Goto
  <2>4. QED
    BY <2>1, <2>2, <2>3
<1>7. ASSUME NEW w \in Workers, BeginExecute(w) PROVE SnapshotsCurrent'
  BY <1>7 DEF BeginExecute, Begin, Goto, tables
<1>8. ASSUME NEW w \in Workers, CommitExecute(w) PROVE SnapshotsCurrent'
  <2>1. \A v \in Workers \ {w} : pc[v] \notin {"bind_commit", "execute_commit"}
    BY <1>8 DEF CommitExecute, WriterInTransaction
  <2>2. pc'[w] \in {"reply", "idle"}
    BY <1>8 DEF CommitExecute, Finish, Goto
  <2>3. \A v \in Workers \ {w} : pc'[v] = pc[v]
    BY <1>8 DEF CommitExecute, Finish, Goto
  <2>4. QED
    BY <2>1, <2>2, <2>3
<1>9. ASSUME NEW w \in Workers, Busy(w) PROVE SnapshotsCurrent'
  BY <1>9 DEF Busy, Finish, tables
<1>10. ASSUME NEW w \in Workers, Reply(w) PROVE SnapshotsCurrent'
  BY <1>10 DEF Reply, Finish, tables
<1>11. ASSUME NEW p \in Processes, Crash(p) PROVE SnapshotsCurrent'
  BY <1>11 DEF Crash, tables
<1>12. CASE Tick
  BY <1>12 DEF Tick, tables
<1>13. CASE UNCHANGED vars
  BY <1>13 DEF vars
<1>14. QED
  BY <1>1, <1>2, <1>3, <1>4, <1>5, <1>6, <1>7, <1>8, <1>9, <1>10, <1>11, <1>12,
     <1>13 DEF Next, Step

(* A row that appears is the committing worker's own, under its namespace.  *)
LEMMA NewRow ==
  ASSUME IInv, [Next]_vars, NEW k \in Namespaces,
         interop_actions[k] = None, interop_actions'[k] # None
  PROVE  \E w \in Workers :
           /\ CommitExecute(w)
           /\ call[w] \in Requests
           /\ k = Namespace(call[w])
           /\ interop_actions'[k] =
                [fingerprint |-> Fingerprint(call[w]), result |-> call[w].arguments]
<1>1. PICK w \in Workers : CommitExecute(w)
  BY DEF Next, Step, Receive, VerificationFails, Authorize, Gate, BeginBind,
     CommitBind, BeginExecute, Begin, Busy, Reply, Crash, Tick, vars, tables
<1>2. call[w] \in Requests
  BY <1>1, Carried DEF CommitExecute, IInv
<1>3. QED
  BY <1>1, <1>2, KeysTyped DEF CommitExecute, IInv, TypeOK

(* Every row a step leaves behind is well filed, vetted and, with           *)
(* single-use grants, its grant is bound to its namespace.                  *)
LEMMA RowsStep ==
  IInv /\ [Next]_vars => RowsWellFiled' /\ EffectsVetted' /\ SingleUseGrants'
<1> SUFFICES ASSUME IInv, [Next]_vars, NEW k \in Namespaces,
                    interop_actions'[k] # None
             PROVE  LET row == interop_actions'[k] IN
                    /\ k = [client_id  |-> row.fingerprint.client_id,
                            request_id |-> row.fingerprint.request_id]
                    /\ row.result = row.fingerprint.payload
                    /\ \E r \in vetted' : Fingerprint(r) = row.fingerprint
                    /\ SingleUse => interop_grants'[row.fingerprint.grant_id] = k
  BY DEF RowsWellFiled, EffectsVetted, SingleUseGrants
<1>1. vetted \subseteq vetted'
  BY DEF Next, Step, Receive, VerificationFails, Authorize, Gate, BeginBind,
     CommitBind, BeginExecute, CommitExecute, Begin, Busy, Reply, Crash, Tick, vars
<1>2. CASE interop_actions[k] # None
  <2>1. interop_actions'[k] = interop_actions[k]
    BY <1>2, TablesFinalStep DEF TablesFinal
  <2>2. interop_actions[k] \in Rows
    BY <1>2 DEF IInv, TypeOK
  <2>3. interop_actions[k].fingerprint.grant_id \in Grants
    BY <2>2 DEF Rows, Bindings
  <2>4. SingleUse => interop_grants[interop_actions[k].fingerprint.grant_id] = k
    BY <1>2 DEF IInv, SingleUseGrants
  <2>5. SingleUse => interop_grants'[interop_actions[k].fingerprint.grant_id] = k
    BY <2>3, <2>4, TablesFinalStep, RowsAssumption DEF TablesFinal
  <2>6. QED
    BY <1>1, <1>2, <2>1, <2>5 DEF IInv, RowsWellFiled, EffectsVetted
<1>3. CASE interop_actions[k] = None
  <2>1. PICK w \in Workers :
          /\ CommitExecute(w)
          /\ call[w] \in Requests
          /\ k = Namespace(call[w])
          /\ interop_actions'[k] =
               [fingerprint |-> Fingerprint(call[w]), result |-> call[w].arguments]
    BY <1>3, NewRow
  <2>2. call[w] \in vetted
    BY <2>1 DEF CommitExecute, IInv, PastGateVetted, PastGate
  <2>3. SingleUse => interop_grants[GrantOf(call[w])] = k
    BY <2>1 DEF CommitExecute, IInv, BoundBeforeExecute
  <2>4. interop_grants' = interop_grants
    BY <2>1 DEF CommitExecute
  <2>5. QED
    BY <1>1, <2>1, <2>2, <2>3, <2>4, KeysTyped
<1>4. QED
  BY <1>2, <1>3

(* A worker reaches "execute" only with its grant bound to its namespace,   *)
(* and a bound grant stays bound.                                           *)
LEMMA BoundStep == IInv /\ [Next]_vars => BoundBeforeExecute'
<1> DEFINE Past == {"execute", "execute_commit", "reply"}
<1> SUFFICES ASSUME IInv, [Next]_vars, SingleUse,
                    NEW w \in Workers, pc'[w] \in Past
             PROVE  interop_grants'[GrantOf(call'[w])] = Namespace(call'[w])
  BY DEF BoundBeforeExecute
<1>1. CASE pc[w] \in Past /\ call'[w] = call[w]
  <2>1. call[w] \in Requests
    BY <1>1, Carried DEF IInv
  <2>2. interop_grants[GrantOf(call[w])] = Namespace(call[w])
    BY <1>1 DEF IInv, BoundBeforeExecute
  <2>3. QED
    BY <1>1, <2>1, <2>2, KeysTyped, TablesFinalStep, RowsAssumption DEF TablesFinal
<1>2. CASE CommitBind(w)
  <2>1. call[w] \in Requests
    BY <1>2, Carried DEF CommitBind, IInv
  <2>2. seen[w] = interop_grants[GrantOf(call[w])]
    BY <1>2 DEF CommitBind, IInv, SnapshotsCurrent
  <2>3. /\ BindAllows(seen[w], Namespace(call[w]))
        /\ call' = call
    BY <1>2 DEF CommitBind, Finish, IInv, TypeOK
  <2>4. QED
    BY <1>2, <2>1, <2>2, <2>3, KeysTyped DEF CommitBind, BindAllows, IInv, TypeOK
<1>3. \/ pc[w] \in Past /\ call'[w] = call[w]
      \/ CommitBind(w)
  <2> USE DEF IInv, TypeOK, Stages
  <2>1. ASSUME NEW v \in Workers, Step(v)
        PROVE  \/ pc[w] \in Past /\ call'[w] = call[w]
               \/ CommitBind(w)
    BY <2>1 DEF Step, VerificationFails, Authorize, Gate, BeginBind, CommitBind,
       BeginExecute, CommitExecute, Begin, Busy, Reply, Finish, Goto
  <2>2. ASSUME NEW v \in Workers, NEW r \in Requests, Receive(v, r)
        PROVE  pc[w] \in Past /\ call'[w] = call[w]
    BY <2>2 DEF Receive, Goto
  <2>3. ASSUME NEW p \in Processes, Crash(p)
        PROVE  pc[w] \in Past /\ call'[w] = call[w]
    BY <2>3 DEF Crash
  <2>4. QED
    BY <2>1, <2>2, <2>3 DEF Next, Tick, vars
<1>4. QED
  BY <1>1, <1>2, <1>3

(* A worker reaches "reply" only over its own effect, inserted or replayed. *)
LEMMA ReplyStep == IInv /\ [Next]_vars => ReplyHasEffect'
<1> SUFFICES ASSUME IInv, [Next]_vars, NEW w \in Workers, pc'[w] = "reply"
             PROVE  /\ interop_actions'[Namespace(call'[w])] # None
                    /\ interop_actions'[Namespace(call'[w])].fingerprint
                         = Fingerprint(call'[w])
  BY DEF ReplyHasEffect
<1>1. CASE pc[w] = "reply" /\ call'[w] = call[w]
  <2>1. call[w] \in Requests
    BY <1>1, Carried DEF IInv
  <2>2. QED
    BY <1>1, <2>1, KeysTyped, TablesFinalStep DEF TablesFinal, IInv, ReplyHasEffect
<1>2. CASE CommitExecute(w)
  <2>1. call[w] \in Requests
    BY <1>2, Carried DEF CommitExecute, IInv
  <2>2. seen[w] = interop_actions[Namespace(call[w])]
    BY <1>2 DEF CommitExecute, IInv, SnapshotsCurrent
  <2>3. /\ ExecuteAllows(seen[w], Fingerprint(call[w]))
        /\ call' = call
    BY <1>2 DEF CommitExecute, Finish, IInv, TypeOK
  <2>4. [fingerprint |-> Fingerprint(call[w]), result |-> call[w].arguments] # None
    BY <2>1, KeysTyped, RowsAssumption
  <2>5. CASE seen[w] = None
    BY <1>2, <2>1, <2>3, <2>4, <2>5, KeysTyped DEF CommitExecute, IInv, TypeOK
  <2>6. CASE seen[w] # None
    BY <1>2, <2>1, <2>2, <2>3, <2>6 DEF CommitExecute, ExecuteAllows
  <2>7. QED
    BY <2>5, <2>6
<1>3. \/ pc[w] = "reply" /\ call'[w] = call[w]
      \/ CommitExecute(w)
  <2> USE DEF IInv, TypeOK, Stages
  <2>1. ASSUME NEW v \in Workers, Step(v)
        PROVE  \/ pc[w] = "reply" /\ call'[w] = call[w]
               \/ CommitExecute(w)
    BY <2>1 DEF Step, VerificationFails, Authorize, Gate, BeginBind, CommitBind,
       BeginExecute, CommitExecute, Begin, Busy, Reply, Finish, Goto
  <2>2. ASSUME NEW v \in Workers, NEW r \in Requests, Receive(v, r)
        PROVE  pc[w] = "reply" /\ call'[w] = call[w]
    BY <2>2 DEF Receive, Goto
  <2>3. ASSUME NEW p \in Processes, Crash(p)
        PROVE  pc[w] = "reply" /\ call'[w] = call[w]
    BY <2>3 DEF Crash
  <2>4. QED
    BY <2>1, <2>2, <2>3 DEF Next, Tick, vars
<1>4. QED
  BY <1>1, <1>2, <1>3

(* An answer that appears is the replying worker's, from its own effect.    *)
LEMMA NewAnswer ==
  ASSUME IInv, [Next]_vars, NEW a \in answered', a \notin answered
  PROVE  \E w \in Workers :
           /\ Reply(w)
           /\ call[w] \in Requests
           /\ interop_actions[Namespace(call[w])] # None
           /\ interop_actions[Namespace(call[w])].fingerprint = Fingerprint(call[w])
           /\ a = [request |-> call[w], result |-> call[w].arguments]
<1>1. PICK w \in Workers : Reply(w)
  BY DEF Next, Step, Receive, VerificationFails, Authorize, Gate, BeginBind,
     CommitBind, BeginExecute, CommitExecute, Begin, Busy, Crash, Tick, vars
<1>2. call[w] \in Requests
  BY <1>1, Carried DEF Reply, IInv
<1> DEFINE row == interop_actions[Namespace(call[w])]
<1>3. row # None /\ row.fingerprint = Fingerprint(call[w])
  BY <1>1 DEF Reply, IInv, ReplyHasEffect
<1>4. row.result = Fingerprint(call[w]).payload
  BY <1>2, <1>3, KeysTyped DEF IInv, RowsWellFiled
<1>5. a = [request |-> call[w], result |-> row.result]
  BY <1>1, <1>3 DEF Reply
<1>6. QED
  BY <1>1, <1>2, <1>3, <1>4, <1>5, KeysTyped

(* Every answer a step leaves behind is its caller's own effect.            *)
LEMMA AnswersStep == IInv /\ [Next]_vars => AnswersAreOwnEffects'
<1> SUFFICES ASSUME IInv, [Next]_vars, NEW a \in answered'
             PROVE  LET row == interop_actions'[Namespace(a.request)] IN
                    /\ row # None
                    /\ row.fingerprint = Fingerprint(a.request)
                    /\ a.result = a.request.arguments
  BY DEF AnswersAreOwnEffects
<1>1. /\ interop_actions[Namespace(a.request)] # None
      /\ interop_actions[Namespace(a.request)].fingerprint = Fingerprint(a.request)
      /\ a.result = a.request.arguments
      /\ a.request \in Requests
  <2>1. CASE a \in answered
    BY <2>1 DEF IInv, AnswersAreOwnEffects, TypeOK
  <2>2. CASE a \notin answered
    BY <2>2, NewAnswer
  <2>3. QED
    BY <2>1, <2>2
<1>2. QED
  BY <1>1, KeysTyped, TablesFinalStep DEF TablesFinal

-----------------------------------------------------------------------------
(* IInv holds in every reachable state: the single-use guarantee alone is   *)
(* not inductive, it needs the lock (WriterInTransaction, SnapshotsCurrent) *)
(* and the order of bind_grant and execute_once (BoundBeforeExecute).       *)
THEOREM Invariance == Spec => []IInv
<1>1. IInv /\ [Next]_vars => IInv'
  BY TypeStep, ControlStep, SnapshotStep, VettingStep, RowsStep, BoundStep,
     ReplyStep, AnswersStep DEF IInv
<1>2. QED
  BY InitIInv, <1>1, PTL DEF Spec

(* Every variable keeps its type, for any threads, tokens and requests.     *)
THEOREM TypeCorrectness == Spec => []TypeOK
<1>1. IInv => TypeOK
  BY DEF IInv
<1>2. QED
  BY Invariance, <1>1, PTL

(* With single-use grants a token never has effects in two namespaces, for  *)
(* any number of threads, processes, crashes, retries and replays.          *)
THEOREM SingleUseHolds == Spec => []SingleUseGrants
<1>1. IInv => SingleUseGrants
  BY DEF IInv
<1>2. QED
  BY Invariance, <1>1, PTL

(* Every 200 answer is the caller's own effect and payload.                 *)
THEOREM AnswersHold == Spec => []AnswersAreOwnEffects
<1>1. IInv => AnswersAreOwnEffects
  BY DEF IInv
<1>2. QED
  BY Invariance, <1>1, PTL

(* Every effect passed the Gate inside its token's validity window.         *)
THEOREM VettedHolds == Spec => []EffectsVetted
<1>1. IInv => EffectsVetted
  BY DEF IInv
<1>2. QED
  BY Invariance, <1>1, PTL

(* No step of any thread, and no crash, rewrites or loses a committed row.  *)
THEOREM RowsNeverRewritten == Spec => CommittedRowsFinal
<1>1. IInv /\ [Next]_vars => [TablesFinal]_vars
  BY TablesFinalStep
<1>2. QED
  BY Invariance, <1>1, PTL DEF Spec, CommittedRowsFinal, TablesFinal

-----------------------------------------------------------------------------
(* EchoSandbox implements EchoLedger: an effect is one Perform, an answer   *)
(* one Answer, everything else a stutter.                                   *)

(* Empty tables are an empty ledger.                                        *)
LEMMA InitRefines == Init => Ledger!Init
BY DEF Init, Ledger!Init, Effects, Answers

(* The commit of execute_once performs one effect, or changes nothing.      *)
LEMMA CommitRefines ==
  ASSUME IInv, [Next]_vars, NEW w \in Workers, CommitExecute(w)
  PROVE  Ledger!Next \/ UNCHANGED Ledger!vars
<1> DEFINE r == call[w]
           k == Namespace(r)
           f == Fingerprint(r)
<1>1. r \in Requests
  BY Carried DEF CommitExecute, IInv
<1>2. seen[w] = interop_actions[k]
  BY DEF CommitExecute, IInv, SnapshotsCurrent
<1>3. k \in Namespaces /\ f \in Bindings
  BY <1>1, KeysTyped
<1>4. Answers' = Answers
  BY DEF CommitExecute, Answers
<1>5. CASE seen[w] # None
  <2>1. interop_actions' = interop_actions
    BY <1>5 DEF CommitExecute
  <2>2. Effects' = Effects
    BY <2>1 DEF Effects
  <2>3. QED
    BY <1>4, <2>2 DEF Ledger!vars
<1>6. CASE seen[w] = None
  <2> DEFINE row == [fingerprint |-> f, result |-> r.arguments]
  <2>1. interop_actions[k] = None
    BY <1>2, <1>6
  <2>2. row # None
    BY <1>1, KeysTyped, RowsAssumption
  <2>3. interop_actions' = [interop_actions EXCEPT ![k] = row]
    BY <1>6 DEF CommitExecute
  <2>4. interop_actions'[k] = row
    BY <1>3, <2>3 DEF IInv, TypeOK
  <2>5. \A n \in Namespaces : n # k => interop_actions'[n] = interop_actions[n]
    BY <2>3 DEF IInv, TypeOK
  <2>6. Effects' = Effects \union {f}
    BY <1>3, <2>1, <2>2, <2>4, <2>5 DEF Effects
  <2>7. ASSUME NEW e \in Effects PROVE ~Ledger!SameNamespace(e, f)
    <3>1. PICK n \in Namespaces :
            interop_actions[n] # None /\ e = interop_actions[n].fingerprint
      BY DEF Effects
    <3>2. n = [client_id |-> e.client_id, request_id |-> e.request_id]
      BY <3>1 DEF IInv, RowsWellFiled
    <3>3. k = [client_id |-> f.client_id, request_id |-> f.request_id]
      BY <1>1, KeysTyped
    <3>4. n # k
      BY <3>1, <2>1
    <3>5. QED
      BY <3>2, <3>3, <3>4 DEF Ledger!SameNamespace
  <2>8. ASSUME SingleUse, NEW e \in Effects PROVE e.grant_id # f.grant_id
    <3>1. PICK n \in Namespaces :
            interop_actions[n] # None /\ e = interop_actions[n].fingerprint
      BY DEF Effects
    <3>2. interop_grants[e.grant_id] = n
      BY <2>8, <3>1 DEF IInv, SingleUseGrants
    <3>3. interop_grants[f.grant_id] = k
      BY <1>1, <2>8, KeysTyped DEF CommitExecute, IInv, BoundBeforeExecute
    <3>4. n # k
      BY <3>1, <2>1
    <3>5. QED
      BY <3>2, <3>3, <3>4
  <2>9. Ledger!Perform(f)
    BY <1>4, <2>6, <2>7, <2>8 DEF Ledger!Perform
  <2>10. QED
    BY <1>3, <2>9 DEF Ledger!Next
<1>7. QED
  BY <1>5, <1>6

(* A 200 is an answer for an effect in the ledger.                          *)
LEMMA ReplyRefines ==
  ASSUME IInv, NEW w \in Workers, Reply(w)
  PROVE  Ledger!Next \/ UNCHANGED Ledger!vars
<1> DEFINE r == call[w]
           row == interop_actions[Namespace(r)]
           f == Fingerprint(r)
<1>1. r \in Requests
  BY Carried DEF Reply, IInv
<1>2. row # None /\ row.fingerprint = f
  BY DEF Reply, IInv, ReplyHasEffect
<1>3. Namespace(r) \in Namespaces /\ f \in Bindings
  BY <1>1, KeysTyped
<1>4. f \in Effects
  BY <1>2, <1>3 DEF Effects
<1>5. row.result = f.payload
  BY <1>2, <1>3 DEF IInv, RowsWellFiled
<1>6. answered' = answered \union {[request |-> r, result |-> f.payload]}
  BY <1>2, <1>5 DEF Reply
<1>7. Answers' = Answers \union {[binding |-> f, result |-> f.payload]}
  <2> DEFINE new == [request |-> r, result |-> f.payload]
             told(a) == [binding |-> Fingerprint(a.request), result |-> a.result]
  <2>1. told(new) = [binding |-> f, result |-> f.payload]
    OBVIOUS
  <2>2. Answers = {told(a) : a \in answered} /\ Answers' = {told(a) : a \in answered'}
    BY DEF Answers
  <2> HIDE DEF told
  <2>3. {told(a) : a \in answered'} = {told(a) : a \in answered} \union {told(new)}
    BY <1>6
  <2>4. QED
    BY <2>1, <2>2, <2>3
<1>8. Effects' = Effects
  BY DEF Reply, Effects, tables
<1>9. Ledger!Answer(f)
  BY <1>4, <1>7, <1>8 DEF Ledger!Answer
<1>10. QED
  BY <1>3, <1>9 DEF Ledger!Next

(* Every step is a step of the ledger, or a stutter.                        *)
LEMMA NextRefines == IInv /\ [Next]_vars => [Ledger!Next]_(Ledger!vars)
<1> SUFFICES ASSUME IInv, [Next]_vars
             PROVE  Ledger!Next \/ UNCHANGED Ledger!vars
  OBVIOUS
<1>1. CASE interop_actions' = interop_actions /\ answered' = answered
  <2>1. Effects' = Effects /\ Answers' = Answers
    BY <1>1 DEF Effects, Answers
  <2>2. QED
    BY <2>1 DEF Ledger!vars
<1>2. ASSUME NEW w \in Workers, CommitExecute(w) \/ Reply(w)
      PROVE  Ledger!Next \/ UNCHANGED Ledger!vars
  BY <1>2, CommitRefines, ReplyRefines
<1>3. \/ interop_actions' = interop_actions /\ answered' = answered
      \/ \E w \in Workers : CommitExecute(w) \/ Reply(w)
  BY DEF Next, Step, Receive, VerificationFails, Authorize, Gate, BeginBind,
     CommitBind, BeginExecute, Begin, Busy, Crash, Tick, vars, tables
<1>4. QED
  BY <1>1, <1>2, <1>3

(* Threads, locks, tables, retries and crashes implement the one-ledger     *)
(* promise: at most one effect per namespace and, with single-use grants,   *)
(* per access token; answers only for effects that happened.                *)
THEOREM Refinement == Spec => LedgerSpec
<1>1. Spec => Ledger!Init
  BY InitRefines DEF Spec
<1>2. Spec => [][Ledger!Next]_(Ledger!vars)
  BY Invariance, NextRefines, PTL DEF Spec
<1>3. QED
  BY <1>1, <1>2 DEF LedgerSpec, Ledger!Spec
=============================================================================
