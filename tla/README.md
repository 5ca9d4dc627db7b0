# Border, verified

TLA+ specifications of Border, the admission layer in `border/`, of the sandbox
that composes it with OAuth, the Gate and a durable effect
(`border/live_sandbox.py`), and of the reference verifiers in `conformance/`.
TLC checks small instances; TLAPS proves the main results for every value of the
constants.

## The system

Border stands between an agent that wants something done and the Gate that lets
it happen. It binds independently sourced documents - what is asked, what is
granted, what the destination offers, what a human decided - into a receipt, and
the Gate checks the receipt again at the last moment. Nothing in it is
distributed by itself; what is hard is that documents come from different
parties in any order, that time passes and revocations fall between the checks,
that threads and processes share one SQLite file, and that hosts die between a
commit and an effect.

| Component | State | Operations | Hard because | Correct when |
|---|---|---|---|---|
| Inbound sandbox (`live_sandbox.py`: `InteropCheckpoint`, `SQLiteEchoRuntime`) | tables `interop_actions`, `interop_grants`; a thread lock per process; the database write lock | `authorize`, `bind_grant`, `execute_once`, `result_for` | threads, processes, crashes, lost answers, retries with substituted material | one effect per retry namespace, one namespace per grant, answers are the caller's own |
| OpenID gateway (`openid_gateway.py`: `OpenIDGatewayServer`) | none | `handle` | - | frame of one call |
| Access-token provider (`openid_aiim.py`) | none | `normalize_claims` | windows | an accepted token is active |
| Outbound client (`OAuthMcpClient`, `LiveSandboxApplication._outbound`) | `pending`, `tokens`, `_outbound_requests` | `begin`, `complete`, `call`, start, callback | browsers come back twice, on any thread; two dictionaries, one lock | per state one attempt, one exchange, one retry with a token |
| Admission (`admission.py`) | registry of nonces | `admit`, `stamp_bindings`, `verify_gate_context` | checks split between admission and Gate; revocation, expiry and restart in between | the Gate passes only the effective permit |
| Intent continuity (`intent_continuity.py`) | none; the Gate keeps spent nonces | `prove_intent_continuity`, `stamp_intent_continuity` | each hop is compared with its predecessor only, chains have any length | the effect is inside every document of the chain |
| Crossing verifiers (`conformance/a2a-mcp-crossing-v{1,2}/runner/reference.py`) | replay store in SQLite | `verify`, `consume` | verifiers race, hosts crash, old status documents circulate | one effect per authority |
| Underwriting (`underwriting.py`) | none; reads a bundle of an admission's documents | `assess` | documents are withheld or edited later, each answer rests on another subset | what it answers is true of the admission |
| Mandate adapter (`mandate_adapter.py`) | registry of nonces and relations | `normalize`, `verify_mandate_gate_context` | windows checked at one moment, revocation asked at four others | a pass means that all four records stood together once |
| Protocol continuity (`protocol_continuity.py`) | none | `a2a_delegation`, `mcp_delegation`, `final_effect_from_http_x402`, `prove_protocol_continuity` | carriers are checked here, chains elsewhere, the link between both is stripped on the way | a receipt is for the carriers its signers signed for |
| Key cache (`OIDCJWTVerifier`) | the client, its key caches, a lock | `_jwks_client`, `ready`, `__call__` | double-checked lock, failing discovery, rotation, several threads | no failure is kept, no stranger's key believed |
| Subject link (`subject_link.py`) | none; the evidence collected | `normalize_subject_link`, `evaluate_subject_requirement` | evidence is mixed, copied and evaluated later | an acceptance rests on that many providers |
| Crossing receipt (`conformance/crossing_receipt.py`) | `seen_nonces` | `create`, `verify` | receipts are altered and resent, times compared as strings | accepted once, as minted |
| Conformance runner (`a2a-mcp-crossing-v2/runner/run.py`, `verify_submission.py`) | a result | `run`, `validate_result`, `derive_summary`, `verify_submission` | submissions come from somebody else's recorder | green means contained |
| Authority adapter, OpenID evidence, DSSE, JCS, key files, settings, signers, WSGI glue, rehearsals, experiments | none, or files | normalise, encode, sign, read, drive | - | pure or input/output |

How they interact. A `tools/call` reaches `handle`, which calls
`InteropCheckpoint.authorize` (token, `normalize_claims`, a fresh
`BorderAdmissionController`, the stamp, `verify_gate_context`, the Gate's
`selective_decide`) and then `execute` (`bind_grant`, the Gate's
`RuntimeController` over `execute_once`, `result_for`). An operator's
`/interop/outbound/start` and the browser's `/oauth/callback` run the outbound
half in the same process. Every access token goes through the worker's one
`OIDCJWTVerifier`. Underwriting reads what admission issued. Protocol continuity
extracts two delegations and an effect from carriers and calls intent continuity,
which hands a stamped receipt to the Gate.
Crossing verifiers share nothing but the replay store. The Gate
(package `minority_prophet`), authorization servers, browsers, issuers and
downstream servers are not in the repository: they are modelled from how the code
uses them, and marked external in the map.

## Modules

| Module | Models | Composition |
|---|---|---|
| `EchoLedger` | what the sandbox promises of its only effect: a ledger and the answers given for it | abstract specification |
| `EchoSandbox` | the inbound half: threads, processes, both tables, locks, crashes, clock | implements `EchoLedger` (`Effects`, `Answers`) |
| `PermitLedger` | what a destination is promised of whatever reaches it through Border | abstract specification |
| `Admission` | `admit`, stamp and `verify_gate_context` over every combination of documents | implements `PermitLedger` (`Issued`, `Revoked`) |
| `MandateLedger` | what the owner of a mandate is promised of effects under it | abstract specification |
| `IntentContinuity` | the proof over a chain of delegations, one action per hop, and the Gate that spends the receipt | implements `MandateLedger` (`Performed`) |
| `CrossingRegister` | what a shared replay store promises a crossing | abstract specification |
| `CrossingReplay` | v1 and v2 verifiers over one store, their hosts, an issuer | implements `CrossingRegister` (`Spent`, `Owed`, `Done`) |
| `FlowLedger` | what an operator's flow comes to: attempted, shown, exchanged, retried | abstract specification |
| `OutboundFlow` | the outbound client under several threads | implements `FlowLedger` |
| `Underwriting` | the ten answers about an admission, over every bundle of documents | extends `Admission` |
| `ProtocolContinuity` | chains whose delegations come in A2A messages and MCP requests, paid by x402 | extends `IntentContinuity`, implements it |
| `MandateRelation` | two authority paths bound to one invocation, and the Gate that asks four issuers | - |
| `KeyCache` | the token verifier's discovery and key caches under several threads | beside `EchoSandbox.VerificationFails`, which is one of its refusals |
| `ConformanceGrading`, `CrossingReceipt`, `SubjectLink` | three tools used by themselves | - |
| `Tools` | the three side by side | instances, one tool per behaviour |
| `MC*` | small instances: documents, requests, process layouts, symmetry | extend the module |
| `*Proofs` | theorems | extend the module |

### How state and actions correspond

`EchoSandbox`. `interop_actions` and `interop_grants` are the tables, as
functions from key to row or `None`. `writer` is the thread inside `BEGIN
IMMEDIATE ... COMMIT`; since a process's writer holds that process's
`threading.Lock`, a sibling thread simply waits, while a thread of another
process may run into `busy_timeout` (`Busy`). A worker walks through `received`
(token in hand), `admitted` (Border's receipt in hand, `deadline` its
`expires_at`), `bind`/`bind_commit`, `execute`/`execute_commit`, `reply`. The
SELECT and the COMMIT of a transaction are two steps, so whatever interleaving
the lock allows between them happens. `Crash` takes a whole process: tables stay,
an open transaction is rolled back, the calls are gone. A digest stands for its
document: namespaces, fingerprints and grant keys are records of the fields they
digest. Clients send any request at any time, so a lost answer and a retry are
one more `Receive`. `vetted` and `answered` are history.

`Admission`. A digest stands for its document, so an attempt IS the tuple of its
documents. `admissions` is the controller's registry (lost on `Restart`),
`receipts` everything it ever issued. `Decide` is the decision part of `admit`;
`Replay` and `Admit` are its two halves. `VerifyGateContext` is the Gate's check,
against `revoked`, which is when the issuer revoked each authority. `outcome` and
`passes` are history. A declaration and an authority agree on request, subject and
`delegation` (principal and delegation identifiers taken together, `SameTrip`); a human
control names request, subject, action and policy version (`ControlBound`) and has no
delegation. `Underwriting` adds no state: a bundle is a receipt with
whatever documents a client kept, and `Answered` says which questions it answers.
A policy is supplied whole or `bare` of its own digest field, since the two have
different digests.

`IntentContinuity`. `proof` holds the locals of the one call under way: scope,
parent digest, actor, machine, effective expiry, seen nonces, and the moment the
clock was read; time passes while the call runs. `Extend` is one turn of the loop
for any signed hop in existence. An actor stands for identifier and key
thumbprint; the set-valued scope fields are treated by one loop in the code and
by one quantifier here. `Stamped` is the receipt, with the mandate's nonce in it.
`AuthorizeEffect` is the Gate (external), which spends that nonce; that it compares and
spends in one step is an assumption about it.

`ProtocolContinuity` keeps the variables of `IntentContinuity` and adds `path`, the
arguments of the `prove_protocol_continuity` call under way, and `proven`, history.
`PathStart` is everything that is checked before the mandate is looked at, followed
by `Start`; `PathExtend` and `PathConclude` feed the extracted hops and effect to
`Extend` and `Conclude`; `Aside` is a direct call, the Gate, an owner or the clock.
A projection stands for the digested fields of a carrier. An effect's `PaidFields`
(network, asset, recipient) come from the payment's accepted requirement, its other
fields from the HTTP request.

`MandateRelation`. `registry` is `_receipts` (lost on `Restart`), `relations` all
that was ever handed out. `Normalize` is one step, since the adapter calls nobody
who can change its state. The Gate is `GateBegin` (its clock, the window, the
comparison of fields) and four `GateAsk`, one per callback, so that revocations and
time fall between them. `passed` is history.

`KeyCache`. `client` is `_jwks`, `lock` is `_jwks_lock`; each thread's `place` says
where it is between the first look and the end of its call. The `PyJWKClient` is
external and has two caches, a key cache and a key set cache with a lifespan. A
token is the key it is signed with, or `Probe` for `ready()`. The issuer publishes
and withdraws keys, and its endpoints fail and recover. `owed` marks, as history, a
call that began while the issuer was healthy and published its key, for as long as
both last.

`ConformanceGrading`. `rows` is the result document: for each case and lane the
measurement and the attempts. `Init` is `run()`. An adapter executes lanes, a faulty
recorder writes something else (`Misrecord`), the submitter claims a grade, and
`VerifySubmission` validates and derives the summary. `CrossingReceipt` keeps
`minted` (who holds the key signs), the far side's `seen_nonces`, and `accepted`,
history. Its times are strings: a stamp has a form (offset, precision), a place in the
order of strings, which is what `verify` compares, and the instant it means. `SubjectLink` keeps the evidence normalized so far and the last evaluation.

`CrossingReplay`. `consumed` is the table; `writer` the verifier inside the
transaction; `call` what a verifier was shown, with the status document and the
`now` it was handed. `Insert` is INSERT with COMMIT or ROLLBACK; `Dispatch` is
the host acting on `accepted`. `terms` are requester, audience, action digest and
status reference; they travel together through every comparison. `SecondProfile`
chooses v2 or v1.

`OutboundFlow`. The request is POSTed twice by design: in `Begin` without a token, to be
challenged (`attempts`), and in `Call` with one (`retried`). `requests`, `pending` and `tokens` are the three dictionaries
(one downstream resource, so one token). Every dictionary operation and every
network exchange is a step of its own. A state names its flow: its request, its
verifier and the token its code is worth. That the server never issues one token string for two flows is assumed. `drawn` makes
`secrets.token_bytes` fresh; `shown` are the states a browser may come back with.

## Runs

All bounds are constants named in the modules (`MaxClock`, `MaxCrashes`,
`MaxRestarts`, `MaxHops`, `MaxReceipts`) and appear in guards only.

| Run | Bounds | What it shows |
|---|---|---|
| `EchoSingleUse` | 3 threads of 2 processes, 3 requests (original, other namespace, other grant), clock to 2, 1 crash, single-use grants | the inductive invariant; a grant is bound to one namespace before its first effect; committed rows are final; `EchoLedger` is implemented |
| `EchoMultiUse` | 2 sibling threads, 5 requests that substitute arguments, identity, namespace and grant, clock to 2, 1 crash, no single use | answers are the caller's own effects; every effect was vetted inside its token's window |
| `EchoRetry` | 2 sibling threads, 2 requests that contend for one grant, 1 crash, fairness | a bound grant is never burnt: retries reach the effect; every call ends |
| `AdmissionHuman` | 3 declarations on 2 nonces and under 2 delegations, 3 authorities, 2 policies (override, approval), 5 controls (two that must be refused) or none, clock to 1, 1 restart, every bundle | the Gate passes only the effective permit; `PermitLedger` is implemented; underwriting answers are true of the admission |
| `AdmissionEvidence` | as above with policies that demand no human, clock to 1, no restart | **violated**: genuine, complete evidence leaves direct questions unanswered |
| `ContinuityChain` | 1 mandate, chains of up to 2 hops out of every scope, window, signer and nonce, 4 effects, 6 carriers, 3 payments, 2 scope fields of which the payment decides one, clock to 3, 2 receipts | scope, windows and provenance of the final effect; `MandateLedger` (in scope, window and task, unrevoked, once) is implemented; receipts bound to their carriers |
| `CrossingRace` | 2 verifiers, 4 artifacts (two reissues, one that changes the nonce, one existing task), honest and substituted crossings, clock to 2, 1 crash | one effect per artifact and initial artifact; bounded acceptance after revocation; `CrossingRegister` is implemented |
| `CrossingV1` | profile v1, one artifact, two references | **violated**: two effects for one artifact |
| `OutboundCallbacks` | 3 threads, 3 flows, 1 restart | both dictionaries agree; a rejected token leaves the store; `FlowLedger` (attempt, show, exchange, retry, once each) is implemented |
| `MandateGate` | 4 mandates on 2 nonces, 2 request and 2 executor authorities, 3 credentials, 1 Gate caller, 1 revocation at any moment, 1 restart, clock to 2 | a pass is warranted at one moment; a nonce stands for one relation per life |
| `KeyCacheThreads` | 2 threads, 2 keys of the issuer, a stranger's key, 2 discovery addresses, fairness | one discovery, only the issuer's keys, no failure kept, every call ends |
| `Tools` | one control, one altered case and the replay, 7 wrong rows, 1 misrecorded lane; 5 receipts, 2 minted, times in two forms; 8 links, 3 items, clock to 2 | green means contained; a receipt is accepted once, as minted; an accepted subject has its providers |

Why the bounds are enough to be interesting. Two writers and one crash give every
order of SELECT, COMMIT, crash and retry, and the third thread puts a sibling
lock and a database lock in one run. Outside `Admission` the clock passes every
`not_before` and every `expires_at` at least once, with a revocation possible before, at
and after. In `AdmissionHuman` it makes one step, in which one declaration expires before its
authority, another authority before its declaration, an approval lapses and the third
declaration opens; `created_at` is the same for all documents there, and varies only in
the theorems. Two hops are the shortest chain in which comparing a hop
with its parent differs from comparing it with the mandate; the proof covers
longer chains. Two flows are needed for a token to be overwritten; three threads
for two callbacks of one state beside another flow. One Gate caller is enough for
`MandateRelation`, as callers share nothing but the issuers; one revocation falls
before, between and after the four questions. Two threads meet at the double-checked
lock and overwrite each other's key set; two keys are a rotation. One misrecorded
lane is what a property about validation must withstand: two wrong lanes can tell a
consistent lie, and no validation could know.

The violated runs are disagreements between a document and the code:

- `underwriting.py:27-28` says a direct question left unanswered means incomplete
  evidence. For the genuine documents of a genuine receipt UW-02, UW-03 and UW-06
  stay unanswered: the receipt holds the digest of the policy without its
  `policy_digest` field (`admission.py:185-187`; the Gate strips the field at
  `:302-304`), `_bound` compares it with the digest of the whole policy
  (`underwriting.py:137`). And UW-10 accepts an absent control event only under mode
  `none`, where admission writes `autonomous`. What is answered is true
  (`AnswersTrueOfAdmission`): the disagreement withholds answers and makes none up.
- `a2a-mcp-crossing-v1/PROFILE.md:8-17` binds a single-use nonce to one authority
  artifact; v1's verifier spends the nonce of the reference, which it compares
  with nothing. Profile v2 resolves it.

Reading the code showed further places where its words and its steps part; the
models keep what the code does, and the properties say what still holds:

- `schema/admission.md:19-20` calls expiration a non-overridable failure of
  admission; `admit` answers a repeated attempt from its registry without reading
  the clock (`admission.py:82-86`). The Gate still refuses the expired receipt
  (`GatePassesPermitted`).
- `schema/intent_continuity_v0.1.md:5-12` has every delegation narrow the time
  window; `intent_continuity.py:178` compares a hop's start with the mandate's only.
  The effect itself stays inside every window (`WindowInEveryLink`).
- `docs/openid-aiim-2026.md:39` discards a rejected token; `openid_gateway.py:372`
  discards the token the resource has by then, which may be another flow's. The
  rejected one does leave, and stays away (`RejectedTokenLeaves`).
- One human control event may carry several admissions: nothing spends its `nonce`, and
  it names a request, not a delegation (`admission.py:206-228`), so two declarations of
  one request under different delegations may rest on one approval. The Gate holds each
  to the event's own action, policy version and window (`GatePassesPermitted`).
- `crossing_receipt.py:169-171` compares times as strings. Written in one form they
  order as the instants do; an `expires_at` with an offset, or fractions of a second on
  one side only, may be accepted late or refused early. `ReceiptSound` promises the
  window for times in one form, and the run holds a case of the other kind.
- `crossing_receipt.py:175-180` spends the nonce of a receipt it refuses for another
  reason, and calls a later one `already been spent`.
- `subject_link.py:114` compares only the end of a link's window, so a link issued
  in the future is taken; `:130` looks at neither clock nor revocation again.
- UW-07 compares identifiers, not digests; UW-01 and UW-04 read a declaration nobody
  compares with the receipt.
- The runner counts a replay case as discriminating by its last native attempt,
  whatever the first was.

`CHECK_DEADLOCK FALSE` stands in `ContinuityChain` and `MandateGate` (everything
revoked and the clock at its bound) and `OutboundCallbacks` (every state drawn and
none on its way to a browser): those systems may stop. The others never
do, since requests keep coming.

### Fairness

In `EchoRetry`, `ThreadFairness` is strong fairness of each thread's
own steps: the operating system runs every runnable thread, and SQLite's and
Python's locks do not pass over a waiter for ever. It does not force the
environment: no request, tick or crash is fair. `RetryFairness` belongs to
`BoundGrantConverges`, a promise about a client that keeps retrying: its request
is received again and again, the authorization server's keys can be fetched now
and then, and the transaction it waits for is not passed over for ever. Threads of
one process wait for each other without a limit; between processes `busy_timeout`
may end every attempt, so that run uses one process. The property is stated for
tokens that are valid for the whole run, as a token that expires ends its grant.

In `KeyCacheThreads` each thread's own steps are weakly fair (it is scheduled, and
every request of the transport and of PyJWKClient has a timeout, so it answers or
fails) and taking the lock is strongly fair (a lock that is free again and again is
not withheld from one thread for ever). The issuer is not fair: it may stay broken,
and calls then end in an exception.

## Proofs

TLAPS 1.4.5 with Z3, Zenon and LS4. In each `*Proofs` module: initial states
satisfy `IInv`, every step preserves it (one lemma per action), the named
properties follow.

- `EchoSandboxProofs`. Alone, `SingleUseGrants` is not inductive: `execute_once`
  does not look at the grant. `IInv` adds that the lock and the transactions are
  the same thing (`WriterInTransaction`), so that what a writer read is still true
  (`SnapshotsCurrent`); that a thread past `bind_grant` has its grant bound to its
  namespace (`BoundBeforeExecute`); that rows are filed under their own namespace;
  and that `deadline` never exceeds the token's `exp`. `Refinement` maps a commit
  that inserts to `Perform`, a 200 to `Answer`, everything else to a stutter.
- `AdmissionProofs`. `ReceiptsWarranted` carries the decision of `admit` in the
  receipt to the moment of the Gate; `PermitLasts` says that nothing in a permit
  but its windows can lapse. `RegistryComplete` is what makes a nonce single. Both
  together are what `Refinement` needs: an admission that issues a receipt is `Issue`
  (its nonce is fresh because the registry holds all receipts of this life), a Gate
  that passes is `Pass`, a repeated or refused attempt a stutter. For `Underwriting`, a
  matching digest makes the document supplied the one decided on, and
  `ReceiptsWarranted` does the rest (`AnswersSound`). `CompleteEvidenceFallsShort`
  says that the violated run is no accident of its documents: of EVERY receipt the
  complete evidence answers UW-07, and UW-10 if a human intervened, and nothing else
  that is direct.
- `IntentContinuityProofs`. `ProofSound` is the loop invariant: the current scope
  lies below every scope of the chain so far, the current expiry inside every
  window. Chains are sequences of any length; no induction over them is needed, as
  a hop is appended to a chain of which the invariant already holds. `Refinement`
  maps the Gate's acceptance to `Perform` of the mandate: `ProofSound` gives scope
  and window, and `ReceiptsOfMandate`, added for it, that the receipt carries the
  mandate's own task and nonce, without which `SpentNonces` would not make the effect
  the first.
- `CrossingReplayProofs`. `AcceptancesExclusive`: whoever is about to dispatch has
  spent its identity, alone, and no effect exists for it yet. The theorems on
  artifacts, initial artifacts and revocation assume `SecondProfile`.
- `OutboundFlowProofs`. `FlowsExclusive`: a thread that works for a flow has it
  to itself, and nothing that lies ahead of it has happened. For rejected tokens
  `TokensNotAhead` is added: no token is stored, looked up or rejected before its own
  flow stores it, so what a thread stores cannot have been rejected already.
  `Refinement` needs of `FlowsExclusive` that a thread in front of the redirect has a
  flow no browser has seen, and that exchanges and retries of a flow are zero until
  the thread that has it makes them; `AttemptedThenRetried`, that no flow is attempted
  before its state is drawn, nor retried before its code was worth a token.
- `IntentContinuityProofs` also covers `ProtocolContinuity`: `PathRefines` shows every
  step over protocols to be a step or a stutter of the proof alone, so the theorems
  about chains carry over, and `PathUnderWay` ties the hops under way to the carriers
  they were extracted from until `CarriersBound` needs it. `PathKeepsPromise` is the
  chain of both refinements: continuity over protocols implements `MandateLedger`.
- `MandateRelationProofs`. `RelationsVerified` keeps the checks of `normalize` in the
  relation, `GatesSound` says of a check under way that all records answered for were
  unrevoked when it began; the window arithmetic (the mandate inside every path) turns
  the relation's window at the Gate into all four.
- `KeyCacheProofs`. `OneDiscovery` (who discovers holds the lock, and only while there
  is no client), `KeysOfIssuer`, and `CallsSound`, which carries an owed call's key
  from the issuer's answer to the end of the call.
- `ToolsProofs`. One invariant per tool: what a verifier accepted it has spent
  (`AcceptedAreSpent`); evidence is genuine and an evaluation is of evidence (`EvidenceNormalized`,
  `EvaluatedEvidence`); a summary is of the result as it stands, and that result is valid (`SummaryCurrent`). `CorpusAssumption`, `StampsAssumption`, `ContentsAssumption` and `RequirementsAssumption` say
  what corpus, times, receipts and requirements are made of: in particular, that times
  of one form sort as strings in the order of their instants.

Assumptions on constants are named in the modules (`DocumentsAssumption`,
`TokensAssumption`, `PaidFieldsAssumption`, `NoneAssumption` ...): they give documents their fields and
keep sentinels apart from values. They do not say that documents agree, are
genuine, or that windows are not empty. TLC evaluates them in every run. What the models
assume of external parties is in their actions: the Gate compares and spends a nonce in
one step, the authorization server issues no token string twice, and only the holder of
a key signs.

Only model-checked: liveness (`BoundGrantConverges`, `EveryCallEnds` of both modules),
which is out of this prover's reach, as is ENABLED; and the violated properties. Every
other property a run checks is a theorem.
No module here declares a RECURSIVE operator or needs induction over data.

## Not modelled, and why

Canonical JSON, DSSE, HMAC and JWT signatures, PKCE and digests: a signature is a
Boolean of its document or a precondition, a digest the document itself. Shape
checks of inputs: ill-formed documents are refused before anything changes. The
wording of answers and findings. Key files, settings, command lines. Sizes (16 KiB)
and formats. Collisions of `str(request["id"])`: request ids ARE the strings. Two
downstream resources: their tokens do not touch. Clocks that run backwards.

The authority adapter and the reference authorities map one provider answer, field by
field, to the authority record the admission model starts from, and OpenID evidence is
built from settings: no state, no order. The corpus files, schemas and artifact digests
of a submission are input. The rehearsals drive two deployed sandboxes over HTTP and
write down what they saw, the experiments measure; their subject is modelled, they are
not. Receipts that lack bound fields raise in `crossing_receipt.py` and change nothing.

## Order of work

The durable effect (`EchoLedger`, `EchoSandbox`) came first, then the permit from
admission to the Gate, chains of delegations, replay across hosts, the outbound client;
then authorized invocation, the key cache, evidence about admissions, continuity over
protocols, and the tools. Every module has its proofs, and the durable effect, the
permit, the mandate, the register and the outbound flow each implement an abstract
specification. What is left, in order:

1. An abstract specification of authorized invocation (`MandateRelation`), whose pass
   is a single moment, although the Gate asks four times: a refinement that would have
   to choose that moment in the past.
2. Composition of `KeyCache` with `EchoSandbox`, so that an owed request is verified.
3. Normalisation of the authority adapter as a function, against a reference
   definition, with its required and security-critical fields.
